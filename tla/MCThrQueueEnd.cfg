SPECIFICATION Spec
CONSTANTS
  Callers = {c1}
  Spare = {s1, s2}
  MaxPush = 2
  MayDestroy = TRUE
CHECK_DEADLOCK FALSE
INVARIANTS EndReached
