CONSTANTS
  MaxPolls = 2
  MaxCmds = 5
  MaxTimeouts = 2
SPECIFICATION FairSpec
INVARIANTS TypeOK ExactlyOnce StaleOnlyAfterTimeout ChecksPass
PROPERTIES HandedOnce MailboxSpec Answered
CHECK_DEADLOCK FALSE
