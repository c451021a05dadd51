SPECIFICATION Spec
CONSTANTS
  NULL = NULL
  PoolSizes = {0, 5}
  Sizes = {0, 1, 2, 3, 4, 5, 6}
  Addrs = {0, 1, 2, 3, 4}
INVARIANTS
  TypeOK
  PoolTiled
  NoAdjacentFree
  SearchesAgree
  LockMatchesPool
PROPERTY
  ImplementsPoolAllocator
\* A crash is the end of the process.
CHECK_DEADLOCK FALSE
