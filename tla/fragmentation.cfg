SPECIFICATION TestFairSpec
CONSTANTS
  Threads = {0, 1, 2}
  MemorySizes = {2, 19}
  Cycles = 2
  Rounds = 4
  NoThread = NoThread
  NULL = NULL
INVARIANTS
  TestTypeOK
  RoundsDoNotMix
  CountsSleepers
  PhasesKeptApart
  NobodySkipsBarrier
  PoolIsWholeAgain
PROPERTY
  EveryTestEnds
\* A thread that was woken unasked can leave the others asleep for good.
CHECK_DEADLOCK FALSE
