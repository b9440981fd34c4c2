CONSTANTS
  MaxPolls = 2
  MaxCmds = 5
  MaxTimeouts = 1
SPECIFICATION Spec
INVARIANT SuccessMeansDone
CHECK_DEADLOCK FALSE
