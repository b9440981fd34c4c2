CONSTANTS
  Threads = {t1, t2, t3}
  MaxCalls = 4
  MaxLosses = 2
SPECIFICATION FairSpec
INVARIANTS TypeOK NoUpdateLost OneHolder
PROPERTY CounterSpec
CHECK_DEADLOCK FALSE
