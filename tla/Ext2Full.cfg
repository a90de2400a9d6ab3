\* A disk that can be filled: two groups of six data blocks, fills of 1, 2 and 10 blocks.
SPECIFICATION Spec
CONSTANTS
  NUMBER_OF_GROUPS = 2
  block_per_group = 7
  inode_per_group = 8
  FirstDataBlock = 1
  ReservedInodes = 2
  InodeTableSlots = 6
  EntriesPerBlock = 4
  Name = {"a", "b"}
  FillSizes = {3, 8, 37}
  MaxFormats = 1
  MaxMounts = 1
  MaxDepth = 2
  MoveDirs = FALSE
  Spill = FALSE
  StaleDir = FALSE
VIEW View
INVARIANTS TypeOK BlocksOwnedOnce CountsExact InodesInTable
  FilesReadBack ListedInOrder
PROPERTIES NewInodesEntered LostOnlyWhenFull ShortOnlyWhenFull
CHECK_DEADLOCK FALSE
