SPECIFICATION MCSpec
CONSTANTS
  Owner = o
  Thieves = {t1, t2}
  THR_JOB_MAX = 2
  MaxJobs = 3
  p1 = p1
  p2 = p2
INVARIANTS
  RunAtMostOnce
  NoJobLost
  NoDanglingEc
PROPERTIES
  EmptyMeansTaken
  EveryJobRuns
  MainQueueRuns
  CalmWaitReturns
CHECK_DEADLOCK FALSE
