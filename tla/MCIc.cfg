SPECIFICATION Spec
CONSTANTS
  NONE = NONE
  m1 = m1
  Msgs = {m1}
  Remote = {}
  MaxSlot = 2
  MaxConn = 1
  MaxQueue = 1
  Kinds <- TwoKinds
INVARIANTS
  QueueLen
CHECK_DEADLOCK FALSE
