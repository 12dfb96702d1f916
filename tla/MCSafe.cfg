SPECIFICATION MCSpec
CONSTANTS
  NONE = NONE
  NULL = NULL
  Root = Root
  Fired = Fired
  Gc = Gc
  x1 = x1
  x2 = x2
  x3 = x3
  y1 = y1
  y2 = y2
  e1 = e1
  e2 = e2
  Waiters = {y1, y2, e1}
  Timed = {e1}
  Posters = {e1, e2}
  Broadcasters = {e2}
  Low = 2
  MaxPost = 2
INVARIANTS
  NoLostWakeup
  TdsAccounted
  MethodsFresh
  RingSound
  BlocksDisjoint
  NoPageLost
  FramesKept
  NoStaleFire
  FiredListSound
  Recoverable
  QueueSound
  AnswerMatches
  CalledOnce
  HeapOrder
PROPERTIES
  DeadlinesMet
  LoadedAsRequired
SYMMETRY Symmetry
CHECK_DEADLOCK FALSE
