\* Three jobs and a limit of two, killed children and failing forks included.
SPECIFICATION Spec
CONSTANTS
  MaxJobs = 3
  MaxLimit = 2
  Pids = {p1, p2, p3}
  NoPid = NoPid
  ExitCodes = {0, 1}
  NoExit = NoExit
  KillsHappen = TRUE
  ForkFails = TRUE
  PidReuse = FALSE
SYMMETRY PidSymmetry
INVARIANTS
  TypeOK
  ProcessRecorded
  CompletionFindsJob
  DoneMeansReaped
  ZombieForEachWait
PROPERTIES
  DrainEndsDone
  WaitFindsOutput
  ImplementsService
CHECK_DEADLOCK FALSE
