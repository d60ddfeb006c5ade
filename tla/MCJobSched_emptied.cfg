\* The list is emptied while the scheduler waits for a slot.
SPECIFICATION Spec
CONSTANTS
  MaxJobs = 1
  MaxLimit = 1
  Pids = {p1}
  NoPid = NoPid
  ExitCodes = {0}
  NoExit = NoExit
  KillsHappen = FALSE
  ForkFails = FALSE
  PidReuse = FALSE
INVARIANTS
  NeverCrashes
CHECK_DEADLOCK FALSE
