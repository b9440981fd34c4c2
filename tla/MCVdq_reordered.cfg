CONSTANTS
  Threads = {t1, t2}
  Buffers = {b1, b2}
  NULL = NULL
  MaxNumf = 2
  MaxCmds = 3
SPECIFICATION Spec
INVARIANT ReleasedOnce
CHECK_DEADLOCK FALSE
