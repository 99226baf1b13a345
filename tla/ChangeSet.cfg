SPECIFICATION Spec
CONSTANTS
  MaxSections = 3
  MaxItems = 2
  MaxChanges = 3
INVARIANTS RejectsMisfits ElementsMatchItems
CHECK_DEADLOCK FALSE
