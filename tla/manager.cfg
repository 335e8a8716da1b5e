CONSTANTS
  Sockets = {s1, s2, s3}
  Callers = {a}
SPECIFICATION Spec
SYMMETRY Symmetry
INVARIANTS TypeOK StartedIsRegistered RolledBack CloseLeavesNothing
CHECK_DEADLOCK FALSE
