\* Three threads, so that two can wait for the mutex when the list becomes empty;
\* four tasks of 1, 1, 1 and 3 rows.
SPECIFICATION FairSpec
CONSTANTS
  ThreadCount = 3
  TaskCount = 4
  Height = 6
INVARIANTS
  TypeOK
  RowOnce
PROPERTIES
  ImplementsImage
  ImagePainted
\* The program ends, or waits for ever (see Saves).
CHECK_DEADLOCK FALSE
