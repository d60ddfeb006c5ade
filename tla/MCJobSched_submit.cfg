\* The handler interrupts queue_job inside its critical section.
SPECIFICATION FairSpec
CONSTANTS
  MaxJobs = 2
  MaxLimit = 2
  Pids = {p1, p2}
  NoPid = NoPid
  ExitCodes = {0}
  NoExit = NoExit
  KillsHappen = FALSE
  ForkFails = FALSE
  PidReuse = FALSE
PROPERTIES
  SubmitReturns
CHECK_DEADLOCK FALSE
