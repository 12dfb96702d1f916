SPECIFICATION MCSpec
CONSTANTS
  NONE = NONE
  p1 = p1
  p2 = p2
  p3 = p3
  n1 = n1
  n2 = n2
  n3 = n3
  Stub = Stub
  NULL = NULL
  f1 = f1
  f2 = f2
  f3 = f3
  m1 = m1
INVARIANTS
  NoCloseInFire
  ChildsSound
  WatchesKnown
PROPERTIES
  Delivers
  UnregisterEnds
  ChildFires
  WatchFreed
  ByeCloses
CHECK_DEADLOCK FALSE
