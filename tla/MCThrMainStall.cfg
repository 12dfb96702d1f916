SPECIFICATION FairSpec
CONSTANTS
  p1 = p1
  p2 = p2
  Producers = {p1, p2}
  MaxPush = 2
  WaitFrom = {"el"}
PROPERTIES
  WaitReturns
CHECK_DEADLOCK FALSE
