CONSTANTS
  Gateways = {g1, g2, g3}
  Keys = {k1, k2}
  Items = {a, b}
  MaxItems = 2
  CountBits = 2
SPECIFICATION Spec
INVARIANTS TypeOK MergedExactly ReadersAgree
SYMMETRY RetSymmetry
CHECK_DEADLOCK FALSE
