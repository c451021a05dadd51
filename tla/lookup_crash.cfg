SPECIFICATION Spec
CONSTANTS
  NULL = NULL
  BufferSize = 3
  Word = 8
  Sizes = {0, 1, 2}
  Counts = {1, 2}
  Places = {0}
  Absent = {"calloc", "munmap"}
INVARIANTS
  LookupIsServed
\* exit and a crash end the process.
CHECK_DEADLOCK FALSE
