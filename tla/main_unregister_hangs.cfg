CONSTANTS
  MaxDrops = 1
  MaxEvents = 2
SPECIFICATION FairSpec
PROPERTIES UnregisterAlwaysReturns
CHECK_DEADLOCK FALSE
