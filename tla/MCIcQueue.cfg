SPECIFICATION Spec
CONSTANTS
  NONE = NONE
  Ids <- FiveIds
INVARIANTS
  ByPriority
CHECK_DEADLOCK FALSE
