\* Three threads with bands of 2, 2 and 3 rows.
SPECIFICATION Spec
CONSTANTS
  ThreadCount = 3
  Height = 7
  Programs = {"fractalthread", "mandel"}
  CreateFails = TRUE
  Widths = {1, 2, 3, 4, 5}
INVARIANTS
  RowOnce
  FileShowsImage
PROPERTY
  ImplementsImage
CHECK_DEADLOCK FALSE
