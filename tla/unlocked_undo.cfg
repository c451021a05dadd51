SPECIFICATION Spec
CONSTANTS
  NULL = NULL
  t1 = t1
  t2 = t2
  Threads <- TwoThreads
  Slots = {1, 2}
  PoolSize = 7
  Sizes = {1, 2, 3}
  CallsOfFirst = 4
  CallsOfSecond = 1
  Budget <- CallsPerThread
  ReallocMayFail = TRUE
INVARIANT
  OwnersKeepBlocks
CHECK_DEADLOCK FALSE
