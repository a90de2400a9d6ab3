------------------------------ MODULE FileMap ------------------------------
(***************************************************************************)
(* The block pointers of one file: direct ones, and the single, double and *)
(* triple indirect blocks that get_inode_block, set_inode_block and        *)
(* release_block (src/src/ext2.c) work out from the number of a block in   *)
(* the file.  NDIRECT stands for the 12 direct pointers, EntriesPerBlock   *)
(* for the 256 pointers of a block.                                        *)
(*                                                                         *)
(* A file grows only in the ext2_write of the command fill, one block at a *)
(* time, and shrinks only when rm releases it.  Blocks are allocated by    *)
(* the operators of Ext2.tla.  A slot of an index block holds a block's    *)
(* number where a directory entry has its inode's.                         *)
(***************************************************************************)
EXTENDS Ext2

CONSTANT NDIRECT

ASSUME NDIRECTAssumption == NDIRECT \in Nat \ {0}

VARIABLES
  disk,    \* the fields of Ext2!Disk that blocks are allocated in
  inode,   \* blocks and block[] of the file's inode, which is in group 0
  g,       \* ext2_write: the group the next block is looked for in
  writing, \* is the ext2_write of this file still under way?
  others   \* the blocks of everything else on the disk

vars == <<disk, inode, g, writing, others>>

PerBlock  == EntriesPerBlock                \* indir_b_num
DoubleNum == PerBlock * PerBlock            \* double_b_num
SINGLE    == NDIRECT                        \* the first block of each level
DOUBLE    == SINGLE + PerBlock
TRIPLE    == DOUBLE + DoubleNum
Capacity  == TRIPLE + DoubleNum * PerBlock
Home      == 0                              \* GET_INODE_GROUP(i_num)

Pointer(b) == Named(b, "data")

Points(d, table, slot) == d.data[table][slot].inode

-----------------------------------------------------------------------------
(* get_inode_block *)

\* The double indirect block that covers block k of the file.
DoubleOf(d, ip, k) ==
  IF k < TRIPLE THEN ip.block[NDIRECT + 1]
  ELSE Points(d, ip.block[NDIRECT + 2], (k - TRIPLE) \div DoubleNum)

\* Its entry for block k.
DoubleSlot(k) ==
  IF k < TRIPLE THEN (k - DOUBLE) \div PerBlock
  ELSE ((k - TRIPLE) % DoubleNum) \div PerBlock

\* The indirect block that holds the pointer of block k.
IndirectOf(d, ip, k) ==
  IF k < DOUBLE THEN ip.block[NDIRECT]
  ELSE Points(d, DoubleOf(d, ip, k), DoubleSlot(k))

IndirectSlot(k) == (k - SINGLE) % PerBlock

get_inode_block(d, ip, k) ==
  IF k < SINGLE THEN ip.block[k]
  ELSE Points(d, IndirectOf(d, ip, k), IndirectSlot(k))

get_data_block_at_inode(d, ip) ==
  [n \in 1 .. ip.blocks |-> get_inode_block(d, ip, n - 1)]

-----------------------------------------------------------------------------
(* set_inode_block: a call carries the disk, the local copy of the inode,  *)
(* the block it allocated last, and whether it goes on.                    *)

\* The search starts in the group of block near.
Allocated(call, near) ==
  LET new == AllocFrom(call.disk, BlockGroup(near))
  IN  [call EXCEPT !.disk = new.disk, !.ok = new.number # 0,
                   !.new = WholeDisk(new.group, new.number)]

Store(call, table, slot) ==
  [call EXCEPT !.disk.data[table][slot] = Pointer(call.new)]

StoreInInode(call, n) == [call EXCEPT !.ip.block[n] = call.new]

\* A new triple indirect block, if block k is the first below it.
WithTriple(call, k) ==
  IF k # TRIPLE THEN call
  ELSE LET a == Allocated(call, Home)
       IN  IF a.ok THEN StoreInInode(a, NDIRECT + 2) ELSE a

\* Mutated form: every double indirect block is entered in the inode.
WithDouble_InInode(call, k) ==
  IF ~call.ok \/ k < DOUBLE \/ (k - DOUBLE) % DoubleNum # 0 THEN call
  ELSE LET a == Allocated(call, IF k < TRIPLE THEN Home
                                ELSE call.ip.block[NDIRECT + 2])
       IN  IF ~a.ok THEN a ELSE StoreInInode(a, NDIRECT + 1)

\* A new double indirect block, looked for from the triple one's group on.
WithDouble(call, k) ==
  IF ~call.ok \/ k < DOUBLE \/ (k - DOUBLE) % DoubleNum # 0 THEN call
  ELSE LET triple == call.ip.block[NDIRECT + 2]
           a == Allocated(call, IF k < TRIPLE THEN Home ELSE triple)
       IN  IF ~a.ok THEN a
           ELSE IF k = DOUBLE THEN StoreInInode(a, NDIRECT + 1)
           ELSE Store(a, triple, (k - TRIPLE) \div DoubleNum)

\* Mutated form: the first indirect block below the double one is taken for
\* the single one.
WithIndirect_TooLong(call, k) ==
  IF ~call.ok \/ (k - SINGLE) % PerBlock # 0 THEN call
  ELSE LET double == DoubleOf(call.disk, call.ip, k)
           a == Allocated(call, IF k < DOUBLE THEN Home ELSE double)
       IN  IF ~a.ok THEN a
           ELSE IF k <= DOUBLE THEN StoreInInode(a, NDIRECT)
           ELSE Store(a, double, DoubleSlot(k))

\* A new indirect block, looked for from the double one's group on.
WithIndirect(call, k) ==
  IF ~call.ok \/ (k - SINGLE) % PerBlock # 0 THEN call
  ELSE LET double == DoubleOf(call.disk, call.ip, k)
           a == Allocated(call, IF k < DOUBLE THEN Home ELSE double)
       IN  IF ~a.ok THEN a
           ELSE IF k = SINGLE THEN StoreInInode(a, NDIRECT)
           ELSE Store(a, double, DoubleSlot(k))

\* Block b becomes block k = ip.blocks of the file.  The inode is written only
\* at the end: a call that finds no block for one of the indirect ones leaves
\* those it found before marked, and not entered in the inode.
SetBlock(d, ip, b) ==
  LET k    == ip.blocks
      call == [disk |-> d, ip |-> ip, new |-> b, ok |-> TRUE]
      done == WithIndirect(WithDouble(WithTriple(call, k), k), k)
  IN  IF k < SINGLE
      THEN [StoreInInode(call, k) EXCEPT !.ip.blocks = k + 1]
      ELSE IF ~done.ok THEN [done EXCEPT !.ip = ip]
      ELSE [Store([done EXCEPT !.new = b],
                  IndirectOf(done.disk, done.ip, k), IndirectSlot(k))
              EXCEPT !.ip.blocks = k + 1]

-----------------------------------------------------------------------------
(* release_block for all the blocks of a file *)

\* Mutated form: double indirect blocks below the triple one are not released.
TablesEndingAt_NoDouble(d, ip, k) ==
  IF k < SINGLE \/ (k - SINGLE) % PerBlock # 0 THEN << >>
  ELSE <<IndirectOf(d, ip, k)>>
         \o (IF k = DOUBLE THEN <<DoubleOf(d, ip, k)>> ELSE << >>)
         \o (IF k = TRIPLE THEN <<ip.block[NDIRECT + 2]>> ELSE << >>)

\* The indirect blocks given back with block k, the first one they cover.
TablesEndingAt(d, ip, k) ==
  IF k < SINGLE \/ (k - SINGLE) % PerBlock # 0 THEN << >>
  ELSE <<IndirectOf(d, ip, k)>>
         \o (IF k >= DOUBLE /\ (k - DOUBLE) % DoubleNum = 0
             THEN <<DoubleOf(d, ip, k)>> ELSE << >>)
         \o (IF k = TRIPLE THEN <<ip.block[NDIRECT + 2]>> ELSE << >>)

\* Every bit that is cleared is counted, also one that was clear already.
CountedBack(d, freed) ==
  [d EXCEPT
     !.block_bitmap = @ \ ToSet(freed),
     !.gd = [h \in Group |-> [d.gd[h] EXCEPT !.free_blocks =
               @ + Cardinality({n \in DOMAIN freed : BlockGroup(freed[n]) = h})]]]

\* The blocks whose bits rm clears, in the two loops of release_block.  (Its
\* last branch also sets block[k] = 0 for every k below DOUBLE but SINGLE: from
\* 15 on past the end of the array, which the model leaves out.)
Freed(d, ip) ==
  get_data_block_at_inode(d, ip)
    \o FlattenSeq([n \in 1 .. ip.blocks |-> TablesEndingAt(d, ip, n - 1)])

-----------------------------------------------------------------------------
NoFile == [blocks |-> 0, block |-> [n \in 0 .. NDIRECT + 2 |-> 0]]

\* Any number of blocks of each group are in use, from the first one on.
Init ==
  /\ \E used \in [Group -> FirstDataBlock .. block_per_group] :
       /\ others = {b \in Block : b % block_per_group < used[BlockGroup(b)]}
       /\ disk = [gd |-> [h \in Group |->
                            [free_blocks |-> block_per_group - used[h]]],
                  block_bitmap |-> others,
                  data |-> [b \in Block |-> Zeroed]]
  /\ inode = NoFile
  /\ g = Home
  /\ writing = FALSE

\* ext2_create, for an inode of group 0: its first block is in that group.
Create ==
  LET new == AllocFrom(disk, Home)
  IN  /\ inode.blocks = 0
      /\ disk.gd[Home].free_blocks >= 3
      /\ disk' = new.disk
      /\ inode' = [NoFile EXCEPT !.blocks = 1,
                                 !.block[0] = WholeDisk(new.group, new.number)]
      /\ g' = Home
      /\ writing' = TRUE
      /\ UNCHANGED others

\* One turn of the loop of ext2_write.  The write fails, and leaves the file
\* as it is, when there is no data block or set_inode_block finds no block.
Extend ==
  LET new  == AllocFrom(disk, g)
      call == SetBlock(new.disk, inode, WholeDisk(new.group, new.number))
  IN  /\ writing
      /\ inode.blocks < Capacity
      /\ IF new.number = 0
         THEN /\ writing' = FALSE
              /\ UNCHANGED <<disk, inode, g>>
         ELSE /\ disk' = call.disk
              /\ inode' = call.ip
              /\ g' = new.group
              /\ writing' = call.ok
      /\ UNCHANGED others

\* rm: release_inode.
Release ==
  /\ inode.blocks > 0
  /\ disk' = CountedBack(disk, Freed(disk, inode))
  /\ inode' = NoFile
  /\ writing' = FALSE
  /\ UNCHANGED <<g, others>>

Next == Create \/ Extend \/ Release

Spec == Init /\ [][Next]_vars

-----------------------------------------------------------------------------
DataBlocks == get_data_block_at_inode(disk, inode)

\* The indirect blocks that one of the file's blocks is found through.
Tables(d, ip) ==
  {IndirectOf(d, ip, k) : k \in SINGLE .. ip.blocks - 1}
    \cup {DoubleOf(d, ip, k) : k \in DOUBLE .. ip.blocks - 1}
    \cup {ip.block[NDIRECT + 2] : k \in TRIPLE .. ip.blocks - 1}

\* What a block that is no index block of the file holds is read by nobody
\* before it is allocated, and zeroed, again.
View ==
  <<disk.gd, disk.block_bitmap, inode, g, writing, others,
    [b \in Tables(disk, inode) |-> disk.data[b]]>>

Blocks == INSTANCE BlockList WITH list <- DataBlocks

\* Through whatever levels of pointers, the blocks of a file are the list that
\* the writes made of them: a new pointer disturbs no other one, an old one is
\* found again, and a call that fails half way leaves the list as it was.
ImplementsBlockList == Blocks!Spec

\* No block is data or index of the file twice, or in use by others; rm gives
\* back each of them once; all are marked, and the group descriptors count
\* exactly the blocks that are not.
MapOwnsOnce ==
  LET released == Freed(disk, inode)
  IN  /\ IsInjective(released)
      /\ ToSet(released) = ToSet(DataBlocks) \cup Tables(disk, inode)
      /\ ToSet(released) \subseteq disk.block_bitmap \ others
      /\ \A h \in Group :
           disk.gd[h].free_blocks = Cardinality(FreeBlocks(disk, h))

\* The marked blocks that are neither the file's nor in use by others.
Lost(d, ip) ==
  d.block_bitmap \ (others \cup ToSet(get_data_block_at_inode(d, ip))
                          \cup Tables(d, ip))

\* Blocks are lost only by a write that fails on a full disk, at most three at
\* a time: the data block and the indirect ones found before the one that was
\* not.  rm loses none.
LossOnlyWhenFull ==
  [][LET more == Lost(disk', inode') \ Lost(disk, inode)
     IN  more # {} => /\ writing /\ ~writing'
                      /\ \A h \in Group : FreeBlocks(disk', h) = {}
                      /\ Cardinality(more) <= 3]_vars
=============================================================================
