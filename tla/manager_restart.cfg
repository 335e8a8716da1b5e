CONSTANTS
  Sockets = {s1, s2}
  Callers = {a}
SPECIFICATION Spec
SYMMETRY Symmetry
INVARIANTS NeverPanics
CHECK_DEADLOCK FALSE
