SPECIFICATION FairSpec
CONSTANTS
  ThreadCount = 3
  TaskCount = 2
  Height = 2
PROPERTY
  Saves
CHECK_DEADLOCK FALSE
