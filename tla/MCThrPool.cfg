SPECIFICATION FairSpec
CONSTANTS
  a = a
  b = b
  c = c
  thr_parallelism_g = 2
  MaxId = 4
  Jobs = {a, b, c}
  NoJob = NoJob
  Roots = {a}
  Loads <- Situations
INVARIANTS
  Staffed
PROPERTIES
  PoolLive
CHECK_DEADLOCK FALSE
