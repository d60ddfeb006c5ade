\* Six frames, the fewest with which the algorithm spares a recent page.
SPECIFICATION Spec
CONSTANTS
  npages = 7
  nframes = 6
  Algorithms = {"custom"}
  Data = {d0}
  MaxFaults = 8
INVARIANTS
  VictimExists
\* The run ends with the last of MaxFaults page faults.
CHECK_DEADLOCK FALSE
