SPECIFICATION FairSpec
CONSTANTS
  NULL = NULL
  t1 = t1
  t2 = t2
  Threads <- TwoThreads
  Slots = {1, 2}
  PoolSize = 4
  Sizes = {1, 2}
  CallsOfFirst = 3
  CallsOfSecond = 2
  Budget <- CallsPerThread
  ReallocMayFail = FALSE
INVARIANTS
  TypeOK
  LockCountsNesting
  PoolTiled
  OwnersKeepBlocks
  NoBlockLost
  ContentIntact
PROPERTIES
  CallsAreAtomic
  EveryCallReturns
\* The threads stop when they have made their calls.
CHECK_DEADLOCK FALSE
