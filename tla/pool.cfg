CONSTANTS
  Clients = {c1, c2, c3}
  Closers = {k1}
  Heartbeat = hb
  Sockets = {s1, s2, s3}
  NoSocket = NoSocket
  Size = 2
  WaitTimeout = TRUE
SPECIFICATION FairSpec
INVARIANTS TypeOK SlotConservation ExclusiveOwnership NoLeakedConnection MaxConnections
PROPERTIES GetReturnsConnected ImplementsLease EveryGetReturns CloseStopsHeartbeat
