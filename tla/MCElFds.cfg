SPECIFICATION Spec
CONSTANTS
  NONE = NONE
  Fired = Fired
  Gc = Gc
  e1 = e1
  e2 = e2
  Evs = {e1, e2}
  MaxReg = 3
  MaxNest = 2
  Careless = TRUE
INVARIANTS
  FiredListSound
CHECK_DEADLOCK FALSE
