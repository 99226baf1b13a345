SPECIFICATION FairSpec
CONSTANTS
  Items = {a, b, c}
  Nil = Nil
  BatchSizes = {1, 2}
  MaxEnqueues = 4
PROPERTIES ItemsAreServed WaitEndsWhenDisplayed DrainIsAnnounced
CHECK_DEADLOCK FALSE
