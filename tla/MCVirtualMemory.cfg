\* Three frames, the fewest main accepts, and four pages: with seven page faults
\* the memory is full, a written page is evicted and comes back.
SPECIFICATION Spec
CONSTANTS
  npages = 4
  nframes = 3
  Algorithms = {"rand", "fifo", "other"}
  Data = {d0, d1}
  MaxFaults = 7
INVARIANTS
  TypeOK
  FramesUnshared
  CleanOnDisk
  FifoListsResident
PROPERTY
  ImplementsFlatMemory
\* The run ends with the last of MaxFaults page faults.
CHECK_DEADLOCK FALSE
