CONSTANTS
  Threads = {t1, t2}
  NumSlots = 2
  MaxCmds = 5
SPECIFICATION FairSpec
INVARIANTS TypeOK IntactAndOnce
PROPERTY TicketSpec
CHECK_DEADLOCK FALSE
