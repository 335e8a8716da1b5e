SPECIFICATION Spec
CONSTANTS
  None = None
  g1 = g1
  g2 = g2
  u1 = u1
  u2 = u2
  u3 = u3
  Clients = {c1, c2}
  Conns = {s1}
  Size = 1
  WaitTimeout = TRUE
  MaxCalls = 2
  Pools <- MCPools
  UniqIds <- MCUniqIds
  Home <- MCHome
  Online <- MCOnline
SYMMETRY Symmetry
INVARIANTS
  TypeOK
  AnswerIsMine
  IdleIsQuiet
  EachToItsGateway
  QueryIsComplete
