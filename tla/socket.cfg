CONSTANTS
  Owner = owner
  Receiver = receiver
  Heart = heart
  MaxConns = 3
  MaxDrops = 1
  MaxCloses = 1
SPECIFICATION FairSpec
INVARIANTS TypeOK FlagMatches TornIsClosed
PROPERTIES ActsAtomically Recovers
