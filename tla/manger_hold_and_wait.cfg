CONSTANTS
  Clients = {c1, c2}
  Pools = {p1, p2}
  Conns = {s1}
  None = None
  Size = 1
  WaitTimeout = FALSE
SPECIFICATION FairSpec
PROPERTIES EveryGetReturns
