CONSTANTS
  OldSize = 4
  NewSize = 8
  MaxEntries = 18
  Contents <- mc_Contents
SPECIFICATION FairSpec
INVARIANTS TypeOK InOrder VdqGivenBack HeldIntact SlotsAccounted
PROPERTY FifoSpec
CHECK_DEADLOCK FALSE
