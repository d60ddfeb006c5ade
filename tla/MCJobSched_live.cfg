\* Two jobs, under fairness.
SPECIFICATION FairSpec
CONSTANTS
  MaxJobs = 2
  MaxLimit = 2
  Pids = {p1, p2}
  NoPid = NoPid
  ExitCodes = {0}
  NoExit = NoExit
  KillsHappen = FALSE
  ForkFails = FALSE
  PidReuse = FALSE
INVARIANTS
  RunningHasProcess
PROPERTIES
  ExitIsRecorded
  SlotIsUsed
  DrainReturns
CHECK_DEADLOCK FALSE
