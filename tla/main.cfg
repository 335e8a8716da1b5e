CONSTANTS
  MaxDrops = 4
  MaxEvents = 4
SPECIFICATION FairSpec
INVARIANTS TypeOK NoSendAfterClose UnregisteredForGood ClosedForGood
PROPERTIES QuietAfterUnregister UsesAtomicSocket CloseEnds UnregisterReturns
CHECK_DEADLOCK FALSE
