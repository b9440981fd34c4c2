CONSTANTS
  RingSize = 2
  MemBack = FALSE
  ResetVb = 1
  MaxBatch = 3
  MaxFrames = 6
  DcaFrames <- mc_DcaFrames
SPECIFICATION both_FairSpec
INVARIANT DcaReachesQMan
