CONSTANTS
  Threads = {t1, t2}
  Buffers = {b1, b2}
  NULL = NULL
  MaxNumf = 2
  MaxCmds = 3
SPECIFICATION FairSpec
INVARIANTS TypeOK  OneDeepPipeline  FreshResults
   
CHECK_DEADLOCK FALSE
