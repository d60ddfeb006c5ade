\* Two inode blocks, of which create and mount look at the first, and three blocks of
\* data.  A file of 7 bytes can be written over.
SPECIFICATION Spec
CONSTANTS
  nblocks = 6
  SHARE = 3
  INODES_PER_BLOCK = 3
  POINTERS_PER_INODE = 4
  BLOCK_SIZE = 2
  BUFFER = 6
  Lengths = {7, 12}
  MaxSize = 14
INVARIANTS
  TypeOK
  PointersAreToData
  SizeCoversPointers
  MountProtects
  FilesAreFound
