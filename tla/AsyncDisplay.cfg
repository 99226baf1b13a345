SPECIFICATION FairSpec
CONSTANTS
  MaxVersion = 2
  MaxEvents = 5
INVARIANTS TypeOK OnlyLatestApplies SuspendedIsQuiet
PROPERTIES NeverOlder FirstContentsAppear DisplayCatchesUp
CHECK_DEADLOCK FALSE
