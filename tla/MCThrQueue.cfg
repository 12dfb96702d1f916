SPECIFICATION FairSpec
CONSTANTS
  Callers = {c1, c2}
  Spare = {s1, s2}
  MaxPush = 3
  MayDestroy = TRUE
INVARIANTS OneAtATime DeletedLast
PROPERTIES Refines CallsComplete
CHECK_DEADLOCK FALSE
