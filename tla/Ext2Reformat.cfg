\* The comment at ext2.c:276 against a second format.
SPECIFICATION Spec
CONSTANTS
  NUMBER_OF_GROUPS = 2
  block_per_group = 7
  inode_per_group = 8
  FirstDataBlock = 1
  ReservedInodes = 2
  InodeTableSlots = 6
  EntriesPerBlock = 4
  Name = {"a", "b"}
  FillSizes = {5, 37}
  MaxFormats = 2
  MaxMounts = 1
  MaxDepth = 2
  MoveDirs = FALSE
  Spill = FALSE
  StaleDir = FALSE
VIEW View
PROPERTY FormatWritesDescriptors
CHECK_DEADLOCK FALSE
