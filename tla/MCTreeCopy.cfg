\* Buffers of two bytes, two failing writes at most.  The program ends.
SPECIFICATION Spec
CONSTANTS
  root = root
  f = f
  link = link
  d = d
  g = g
  e = e
  Nodes = {root, f, link, d, g, e}
  Nobody = Nobody
  Size <- MCSize
  Kind <- MCKind
  Dir <- MCDir
  BUFSIZ = 2
  MaxFailures = 2
  MaxOld = 5
INVARIANTS
  TypeOK
  NothingLost
  CountsTrue
PROPERTIES
  ImplementsMirror
CHECK_DEADLOCK FALSE
