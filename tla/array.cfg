SPECIFICATION Spec
CONSTANTS
  NULL = NULL
  PoolSize = 6
  Sizes = {1, 2, 3, 6}
INVARIANTS
  TypeOK
  InBounds
  LoopsReachGoal
