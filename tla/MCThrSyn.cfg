SPECIFICATION FairSpec
CONSTANTS
  j1 = j1
  j2 = j2
  j3 = j3
  w1 = w1
  w2 = w2
  Jobs = {j1, j2, j3}
  Waiters = {w1, w2}
  Owner = w1
  Until = {w1}
  UntilJob = j1
  Timed = {w2}
INVARIANTS
  NoUseAfterFree
  CountsSound
PROPERTIES
  WipeEnds
CHECK_DEADLOCK FALSE
