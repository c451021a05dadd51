SPECIFICATION Spec
CONSTANTS
  Threads = {t1, t2, t3}
  Rounds = 3
  NoThread = NoThread
INVARIANT
  NobodyLeavesEarly
CHECK_DEADLOCK FALSE
