CONSTANTS
  RingSize = 2
  MemBack = FALSE
  ResetVb = 1
  MaxBatch = 3
  MaxFrames = 8
  DcaFrames <- mc_DcaFrames
SPECIFICATION both_FairSpec
INVARIANTS TypeOK InOrder RefusesOnlyWhenFull MemBackDcaReachesQMan
PROPERTY FifoSpec
