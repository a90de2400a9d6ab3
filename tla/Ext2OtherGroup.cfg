\* The comment at ext2.c:1045 against a new inode in group 1.
SPECIFICATION Spec
CONSTANTS
  NUMBER_OF_GROUPS = 2
  block_per_group = 7
  inode_per_group = 8
  FirstDataBlock = 1
  ReservedInodes = 2
  InodeTableSlots = 6
  EntriesPerBlock = 4
  Name = {"a", "b"}
  FillSizes = {13}
  MaxFormats = 1
  MaxMounts = 1
  MaxDepth = 2
  MoveDirs = FALSE
  Spill = TRUE
  StaleDir = FALSE
VIEW View
PROPERTY FirstBlockIsWholeDisk
CHECK_DEADLOCK FALSE
