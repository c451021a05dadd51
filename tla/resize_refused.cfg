SPECIFICATION Spec
CONSTANTS
  NULL = NULL
  PoolSizes = {4}
  Sizes = {1, 2, 3, 4}
  Addrs = {0, 1, 2, 3}
PROPERTY
  ResizeGetsItsBlock
\* A crash is the end of the process.
CHECK_DEADLOCK FALSE
