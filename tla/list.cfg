SPECIFICATION FairSpec
CONSTANTS
  NULL = NULL
  t1 = t1
  t2 = t2
  Threads <- TwoThreads
  Capacities = {3}
  Values = {1, 2, 5}
  Width = 4
  Mine <- ValuesPerThread
  CallsOfFirst = 3
  CallsOfSecond = 2
  Budget <- CallsPerThread
  Rounds = 2
INVARIANTS
  TypeOK
  LockMatchesCalls
  NoNodeLost
  PointersStayOnList
  LockIsReady
PROPERTIES
  ImplementsNodeList
  EveryCallReturns
\* The threads stop when they have made their calls.
CHECK_DEADLOCK FALSE
