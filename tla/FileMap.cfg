\* One direct pointer, three pointers in a block; every number of free blocks.
SPECIFICATION Spec
CONSTANTS
  NUMBER_OF_GROUPS = 2
  block_per_group = 30
  inode_per_group = 8
  FirstDataBlock = 1
  ReservedInodes = 2
  InodeTableSlots = 6
  EntriesPerBlock = 3
  Name = {"a", "b"}
  NDIRECT = 1
VIEW View
INVARIANT MapOwnsOnce
PROPERTIES ImplementsBlockList LossOnlyWhenFull
CHECK_DEADLOCK FALSE
