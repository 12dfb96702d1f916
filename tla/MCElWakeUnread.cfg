SPECIFICATION Spec
CONSTANTS
  f1 = f1
  f2 = f2
  f3 = f3
  Firers = {f1, f2, f3}
  Paced = FALSE
  MaxFires = 5
INVARIANTS
  NoCloseInFire
CHECK_DEADLOCK FALSE
