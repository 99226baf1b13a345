SPECIFICATION FairSpec
CONSTANTS
  MaxVersion = 2
  MaxEvents = 3
PROPERTY CAWillStartIt
CHECK_DEADLOCK FALSE
