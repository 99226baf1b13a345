SPECIFICATION FairSpec
CONSTANTS
  MaxElements = 3
  MaxCalls = 4
  MaxTraits = 1
INVARIANTS TypeOK TraitsCatchUp RangesTracked
PROPERTIES DeploysSuccessor ScheduledSeesAll Settles
CHECK_DEADLOCK FALSE
