\* Three entries per block, nested directories, two mounts.
SPECIFICATION Spec
CONSTANTS
  NUMBER_OF_GROUPS = 2
  block_per_group = 7
  inode_per_group = 8
  FirstDataBlock = 1
  ReservedInodes = 2
  InodeTableSlots = 6
  EntriesPerBlock = 3
  Name = {"a", "b"}
  FillSizes = {4}
  MaxFormats = 1
  MaxMounts = 2
  MaxDepth = 2
  MoveDirs = FALSE
  Spill = FALSE
  StaleDir = FALSE
VIEW View
INVARIANTS DirectoriesWellFormed CurrentDirExists
PROPERTY ImplementsFileTree
CHECK_DEADLOCK FALSE
