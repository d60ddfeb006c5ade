\* A watchdog's process, one left behind by start, and one more.
SPECIFICATION FairSpec
CONSTANTS
  Pids = {p1, p2, p3}
  Any = Any
  ExitCodes = {0, 1}
  Signals = {15}
  ForkFails = TRUE
INVARIANTS
  TypeOK
  OwnPidIsCurrent
PROPERTIES
  StartedAreKept
  ReportTells
  CommandsEnd
CHECK_DEADLOCK FALSE
