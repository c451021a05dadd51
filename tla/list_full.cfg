SPECIFICATION Spec
CONSTANTS
  NULL = NULL
  t1 = t1
  t2 = t2
  Threads <- TwoThreads
  Capacities = {3}
  Values = {1, 2, 5}
  Width = 4
  Mine <- ValuesPerThread
  CallsOfFirst = 3
  CallsOfSecond = 2
  Budget <- CallsPerThread
  Rounds = 1
INVARIANT
  FullPoolIsHandled
CHECK_DEADLOCK FALSE
