CONSTANTS
  Clients = {c1, c2, c3}
  Closers = {k1}
  Heartbeat = hb
  Sockets = {s1, s2}
  NoSocket = NoSocket
  Size = 2
  WaitTimeout = TRUE
SPECIFICATION Spec
SYMMETRY Symmetry
INVARIANTS CloseLeavesNothingOpen
