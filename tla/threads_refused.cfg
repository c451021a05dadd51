SPECIFICATION FairSpec
CONSTANTS
  NULL = NULL
  t1 = t1
  t2 = t2
  Threads <- TwoThreads
  Slots = {1, 2}
  PoolSize = 5
  Sizes = {1, 2}
  CallsOfFirst = 3
  CallsOfSecond = 2
  Budget <- CallsPerThread
  ReallocMayFail = TRUE
INVARIANTS
  PoolTiled
PROPERTIES
  EveryCallReturns
\* The threads stop when they have made their calls, or with a crash.
CHECK_DEADLOCK FALSE
