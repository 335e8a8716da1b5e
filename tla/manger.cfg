CONSTANTS
  Clients = {c1, c2, c3}
  Pools = {p1, p2}
  Conns = {s1, s2}
  None = None
  Size = 1
  WaitTimeout = TRUE
SPECIFICATION FairSpec
INVARIANTS TypeOK NothingKept
PROPERTIES UsesLeases AllOrNothing EveryGetReturns
