CONSTANTS
  Clients = {c1, c2, c3}
  Closers = {k1, k2}
  Heartbeat = hb
  Sockets = {s1}
  NoSocket = NoSocket
  Size = 1
  WaitTimeout = FALSE
SPECIFICATION FairSpec
PROPERTIES ParkedIsServed
CHECK_DEADLOCK FALSE
