-------------------------------- MODULE Ext2 --------------------------------
(***************************************************************************)
(* The ext2 file system of src/src/ext2.c on its RAM disk: the disk as one *)
(* record, and one operator per function that reads or changes it.         *)
(*                                                                         *)
(* Abstractions.  A block holds EntriesPerBlock slots of the size of a     *)
(* directory entry, and sizes are counted in slots.  Block 0 .. First-1 of *)
(* a group stand for its metadata, which is kept in the fields of the      *)
(* record instead.  Files have at most the 12 direct blocks here; indirect *)
(* ones are in FileMap.tla.  Left out is what no code takes a decision by: *)
(* times, owners, permissions, links_count, directories_count and the free *)
(* counters of the superblock.                                             *)
(***************************************************************************)
EXTENDS Integers, Sequences, SequencesExt, FiniteSetsExt

CONSTANTS
  NUMBER_OF_GROUPS, block_per_group, inode_per_group,
  FirstDataBlock,    \* first_data_block_each_group
  ReservedInodes,    \* inodes 1 .. ReservedInodes are reserved, 2 is the root
  InodeTableSlots,   \* inodes for which a group's inode table has room
  EntriesPerBlock,
  Name               \* names of files and directories

ASSUME Ext2Assumption ==
  /\ NUMBER_OF_GROUPS \in Nat \ {0}
  /\ block_per_group \in Nat /\ inode_per_group \in Nat
  /\ InodeTableSlots \in Nat
  /\ FirstDataBlock \in 1 .. block_per_group - 1
  /\ ReservedInodes \in 2 .. InodeTableSlots
  /\ InodeTableSlots <= inode_per_group
  /\ EntriesPerBlock \in Nat \ {0, 1, 2}
  /\ Name \cap {".", "..", "", "data"} = {}

Group == 0 .. NUMBER_OF_GROUPS - 1
Block == 0 .. NUMBER_OF_GROUPS * block_per_group - 1
Inode == 1 .. NUMBER_OF_GROUPS * inode_per_group
Slot  == 0 .. EntriesPerBlock - 1
ROOT  == 2

Entry   == [inode : Inode \cup {0}, name : Name \cup {".", "..", "", "data"}]
NoEntry == [inode |-> 0, name |-> ""]       \* name[0] = DIR_ENTRY_NO_MORE
Data    == [inode |-> 0, name |-> "data"]   \* a slot of a file's contents
Named(i, n) == [inode |-> i, name |-> n]

INODE     == [dir : BOOLEAN, size : Nat, block : Seq(Block)]
Unwritten == [dir |-> FALSE, size |-> 0, block |-> << >>]
Zeroed    == [s \in Slot |-> NoEntry]

UINT32_MAX == 2147483647   \* stands for the 2^32 - 1 that 0 - 1 gives
Less1(n) == IF n = 0 THEN UINT32_MAX ELSE n - 1

Disk ==
  [gd : [Group -> [free_blocks : Nat, free_inodes : Nat]],
   block_bitmap : SUBSET Block, inode_bitmap : SUBSET Inode,
   inode : [Inode -> INODE], data : [Block -> [Slot -> Entry]]]

InodeGroup(i)     == (i - 1) \div inode_per_group
BlockGroup(b)     == b \div block_per_group
WholeDisk(g, b)   == g * block_per_group + b

-----------------------------------------------------------------------------
(* format *)

MetadataBlocks ==
  {WholeDisk(g, b) : g \in Group, b \in 0 .. FirstDataBlock - 1}

RootBlock == WholeDisk(0, FirstDataBlock)

FormattedGd(g) ==
  [free_blocks |-> block_per_group - FirstDataBlock,
   free_inodes |-> inode_per_group - (IF g = 0 THEN ReservedInodes ELSE 0)]

ZeroGd == [free_blocks |-> 0, free_inodes |-> 0]

\* create_root: the root directory's block, inode and descriptor.
create_root(d) ==
  [d EXCEPT
     !.data[RootBlock] = [Zeroed EXCEPT ![0] = Named(ROOT, "."),
                                        ![1] = Named(ROOT, "..")],
     !.block_bitmap = @ \cup {RootBlock},
     !.inode[ROOT] = [dir |-> TRUE, size |-> 2, block |-> <<RootBlock>>],
     !.inode_bitmap = @ \cup {ROOT},
     !.gd[0].free_blocks = Less1(@)]

\* The descriptors are copied while a static counter is below the number of
\* groups, and nothing resets it: only the first format copies them.
ext2_format(d, again) ==
  create_root(
    [gd |-> [g \in Group |-> IF again THEN ZeroGd ELSE FormattedGd(g)],
     block_bitmap |-> MetadataBlocks,
     inode_bitmap |-> 1 .. ReservedInodes,
     inode |-> [i \in Inode |-> Unwritten],
     data |-> d.data])

-----------------------------------------------------------------------------
(* Allocation *)

\* Mutated form: the search goes one block too far.
FreeBlocks_PastEnd(d, g) ==
  {b \in FirstDataBlock .. block_per_group : WholeDisk(g, b) \notin d.block_bitmap}

\* The blocks of a group, by their numbers within it, whose bits are zero.
FreeBlocks(d, g) ==
  {b \in FirstDataBlock .. block_per_group - 1 :
     WholeDisk(g, b) \notin d.block_bitmap}

\* Mutated form: the block keeps what it held.
Taken_NotZeroed(d, g, b) ==
  [d EXCEPT !.block_bitmap = @ \cup {WholeDisk(g, b)},
            !.gd[g].free_blocks = Less1(@)]

\* Block b of group g is zeroed, marked and counted.
Taken(d, g, b) ==
  [d EXCEPT !.data[WholeDisk(g, b)] = Zeroed,
            !.block_bitmap = @ \cup {WholeDisk(g, b)},
            !.gd[g].free_blocks = Less1(@)]

\* The number within the group, or 0.
alloc_free_block(d, g) ==
  LET free == FreeBlocks(d, g)
  IN  IF free = {} THEN [disk |-> d, number |-> 0]
      ELSE [disk |-> Taken(d, g, Min(free)), number |-> Min(free)]

\* Mutated form: the callers look at one group only.
AllocFrom_Near(d, g) == [group |-> g] @@ alloc_free_block(d, g)

\* The loop around alloc_free_block of its callers: from group g on, around.
AllocFrom(d, g) ==
  LET free == {k \in Group : FreeBlocks(d, (g + k) % NUMBER_OF_GROUPS) # {}}
      h == IF free = {} THEN g ELSE (g + Min(free)) % NUMBER_OF_GROUPS
      new == alloc_free_block(d, h)
  IN  [group |-> h, disk |-> new.disk, number |-> new.number]

\* Mutated form: the number of free blocks is not looked at.
GroupsWithRoom_AnyBlocks(d) == {g \in Group : d.gd[g].free_inodes >= 1}

\* The groups that may take a new inode.
GroupsWithRoom(d) ==
  {g \in Group : d.gd[g].free_inodes >= 1 /\ d.gd[g].free_blocks >= 3}

\* The first inode of the first such group, or 0.
alloc_free_inode(d) ==
  LET g == Min(GroupsWithRoom(d))
      i == Min({k \in Inode : InodeGroup(k) = g /\ k \notin d.inode_bitmap})
  IN  IF GroupsWithRoom(d) = {} THEN [disk |-> d, number |-> 0]
      ELSE [disk |-> [d EXCEPT !.inode_bitmap = @ \cup {i}], number |-> i]

\* One more block for inode i, by its number on the whole disk.
set_inode_block(d, i, b) ==
  [d EXCEPT !.inode[i].block = Append(@, b),
            !.inode[i].size = IF d.inode[i].dir THEN @ + 1 ELSE @]

-----------------------------------------------------------------------------
(* Directories *)

At(d, loc) == d.data[loc[1]][loc[2]]

\* The slots of one block that a walk over a directory visits: the first one,
\* and the following ones up to the terminator.
Visited(d, b) ==
  {s \in Slot : \A r \in 1 .. s : d.data[b][r].name # ""}

\* The walk of ext2_lookup and ext2_read_dir, as steps <<block's index, slot>>.
Walk(d, i) ==
  LET blocks == d.inode[i].block
  IN  UNION {{<<k, s>> : s \in Visited(d, blocks[k])} : k \in DOMAIN blocks}

EntryAt(d, i, step) == d.data[d.inode[i].block[step[1]]][step[2]]

\* The location of the first entry of that name, or << >>.
ext2_lookup(d, dir, name) ==
  LET found == {step \in Walk(d, dir) : EntryAt(d, dir, step).name = name}
      k     == Min({step[1] : step \in found})
      s     == Min({step[2] : step \in {f \in found : f[1] = k}})
  IN  IF found = {} THEN << >> ELSE <<d.inode[dir].block[k], s>>

\* The entry goes to the place that the size gives, in a new block if the last
\* one is full.
insert_entry(d, dir, entry) ==
  LET slot == d.inode[dir].size % EntriesPerBlock
      last == Last(d.inode[dir].block)
      new  == AllocFrom(d, BlockGroup(last))
      b    == WholeDisk(new.group, new.number)
  IN  IF ~d.inode[dir].dir THEN [disk |-> d, ok |-> FALSE]
      ELSE IF slot # 0
      THEN [disk |-> [d EXCEPT !.inode[dir].size = @ + 1,
                               !.data[last][slot] = entry],
            ok |-> TRUE]
      ELSE IF new.number = 0 THEN [disk |-> d, ok |-> FALSE]
      ELSE [disk |-> [set_inode_block(new.disk, dir, b) EXCEPT
                        !.data[b][0] = entry],
            ok |-> TRUE]

release_block(d, blocks) == [d EXCEPT !.block_bitmap = @ \ blocks]

increase_free_block(d, blocks) ==
  [d EXCEPT !.gd = [g \in Group |-> [d.gd[g] EXCEPT !.free_blocks =
                      @ + Cardinality({b \in blocks : BlockGroup(b) = g})]]]

Released(d, blocks) == increase_free_block(release_block(d, blocks), blocks)

\* Mutated form: an entry that is alone in the last block is not moved.
release_dir_entry_Drops(d, dir, loc) ==
  LET ip   == d.inode[dir]
      last == <<Last(ip.block), (ip.size - 1) % EntriesPerBlock>>
      d1   == IF last[2] = 0
              THEN [Released(d, {last[1]}) EXCEPT !.inode[dir].block = Front(@)]
              ELSE [d EXCEPT !.data[last[1]][last[2]] = NoEntry]
  IN  [d1 EXCEPT !.inode[dir].size = @ - 1,
                 !.data[loc[1]][loc[2]] =
                   IF At(d, loc).inode = At(d, last).inode \/ last[2] = 0
                   THEN NoEntry ELSE At(d, last)]

\* The last entry is taken out, its block released if it was the first one in
\* it, and put into the place of the entry at loc.  The two are compared by
\* their inode.
release_dir_entry(d, dir, loc) ==
  LET ip   == d.inode[dir]
      last == <<Last(ip.block), (ip.size - 1) % EntriesPerBlock>>
      d1   == IF last[2] = 0
              THEN [Released(d, {last[1]}) EXCEPT !.inode[dir].block = Front(@)]
              ELSE [d EXCEPT !.data[last[1]][last[2]] = NoEntry]
  IN  [d1 EXCEPT !.inode[dir].size = @ - 1,
                 !.data[loc[1]][loc[2]] =
                   IF At(d, loc).inode = At(d, last).inode
                   THEN NoEntry ELSE At(d, last)]

\* Mutated form: only the first block is released.
release_inode_FirstBlock(d, i) ==
  LET b     == d.inode[i].block[1]
      freed == Released([d EXCEPT !.inode_bitmap = @ \ {i}], {b})
  IN  IF BlockGroup(b) = InodeGroup(i)
      THEN [freed EXCEPT !.gd[InodeGroup(i)].free_inodes = @ + 1]
      ELSE freed

\* The inode and its blocks are given back.  The inode's group gets its inode
\* counted only if it is also the group of a block.
release_inode(d, i) ==
  LET blocks == Range(d.inode[i].block)
      g      == InodeGroup(i)
      freed  == Released([d EXCEPT !.inode_bitmap = @ \ {i}], blocks)
  IN  IF \E b \in blocks : BlockGroup(b) = g
      THEN [freed EXCEPT !.gd[g].free_inodes = @ + 1]
      ELSE freed

-----------------------------------------------------------------------------
(* New files and directories *)

\* An inode and its first block.  The block is 0 when there is none: the call
\* fails, and an inode that was found stays allocated.
NewInode(d) ==
  LET i == alloc_free_inode(d)
      b == AllocFrom(i.disk, InodeGroup(i.number))
  IN  IF i.number = 0 THEN [disk |-> d, inode |-> 0, group |-> 0, block |-> 0]
      ELSE [disk |-> b.disk, inode |-> i.number, group |-> b.group,
            block |-> b.number]

\* The result of a call: inode is 0 when it failed, group the one whose
\* descriptor was updated last and copied to fs->gd.
Failed(d) == [disk |-> d, inode |-> 0, group |-> 0]

\* Mutated form: the new inode is not counted.
Succeeded_Uncounted(d, new) ==
  [disk |-> d, inode |-> new.inode, group |-> new.group]

Succeeded(d, new) ==
  [disk |-> [d EXCEPT !.gd[new.group].free_inodes = Less1(@)],
   inode |-> new.inode, group |-> new.group]

\* The number of the block within its group becomes its number on the disk.
ext2_create(d, dir, name) ==
  LET new     == NewInode(d)
      filed   == [new.disk EXCEPT !.inode[new.inode] =
                    [dir |-> FALSE, size |-> 0, block |-> <<new.block>>]]
      entered == insert_entry(filed, dir, Named(new.inode, name))
  IN  IF new.block = 0 THEN Failed(new.disk)
      ELSE IF ~entered.ok THEN Failed(entered.disk)
      ELSE Succeeded(entered.disk, new)

\* The same for a directory, whose failing insert_entry goes unnoticed.
ext2_mkdir(d, dir, name) ==
  LET new   == NewInode(d)
      filed == [new.disk EXCEPT
                  !.inode[new.inode] =
                    [dir |-> TRUE, size |-> 2, block |-> <<new.block>>],
                  !.data[WholeDisk(new.group, new.block)] =
                    [Zeroed EXCEPT ![0] = Named(new.inode, "."),
                                   ![1] = Named(dir, "..")]]
  IN  IF new.block = 0 THEN Failed(new.disk)
      ELSE Succeeded(insert_entry(filed, dir, Named(new.inode, name)).disk, new)

-----------------------------------------------------------------------------
(* Writing a file from its beginning, as fill does *)

\* Blocks that a write of length slots adds to a file of have blocks.
BlocksToAdd(have, length) ==
  LET full == length \div EntriesPerBlock
      part == IF length % EntriesPerBlock > 0 THEN 1 ELSE 0
  IN  IF have > full THEN 0 ELSE full - have + part

\* Mutated form: the blocks are looked for in the inode's group only.
Grown_OneGroup(d, i, n) ==
  LET grow[k \in 0 .. n] ==
        LET last == grow[k - 1]
            b    == [group |-> InodeGroup(i)]
                      @@ alloc_free_block(last.disk, InodeGroup(i))
        IN  IF k = 0 THEN [disk |-> d, group |-> InodeGroup(i), ok |-> TRUE]
            ELSE IF ~last.ok \/ b.number = 0 THEN [last EXCEPT !.ok = FALSE]
            ELSE [disk |-> set_inode_block(b.disk, i, WholeDisk(b.group, b.number)),
                  group |-> b.group, ok |-> TRUE]
  IN  grow[n]

\* n more blocks for inode i, each from the group of the one before if it has
\* any; ok is FALSE when the disk is full before the n-th.
Grown(d, i, n) ==
  LET grow[k \in 0 .. n] ==
        LET last == grow[k - 1]
            b    == AllocFrom(last.disk, last.group)
        IN  IF k = 0 THEN [disk |-> d, group |-> InodeGroup(i), ok |-> TRUE]
            ELSE IF ~last.ok \/ b.number = 0 THEN [last EXCEPT !.ok = FALSE]
            ELSE [disk |-> set_inode_block(b.disk, i, WholeDisk(b.group, b.number)),
                  group |-> b.group, ok |-> TRUE]
  IN  grow[n]

\* Mutated form: what does not fill a block is not written.
Written_WholeOnly(blocks, b, s, length) ==
  \E k \in DOMAIN blocks :
    blocks[k] = b /\ k * EntriesPerBlock <= length

\* Is slot s of block b written, in a write of length slots to these blocks?
Written(blocks, b, s, length) ==
  \E k \in DOMAIN blocks :
    blocks[k] = b /\ (k - 1) * EntriesPerBlock + s < length

\* The size is stored before the blocks are found; the contents are written
\* only if all were.
ext2_write(d, i, length) ==
  LET sized   == [d EXCEPT !.inode[i].size = IF @ < length THEN length ELSE @]
      grown   == Grown(sized, i, BlocksToAdd(Len(d.inode[i].block), length))
      blocks  == grown.disk.inode[i].block
  IN  IF ~grown.ok THEN [disk |-> grown.disk, ok |-> FALSE]
      ELSE [disk |-> [grown.disk EXCEPT !.data =
                        [b \in Block |-> [s \in Slot |->
                           IF Written(blocks, b, s, length) THEN Data ELSE @[b][s]]]],
            ok |-> TRUE]

-----------------------------------------------------------------------------
(* Reading a file *)

BlockOf(d, i, k) ==
  [s \in 1 .. EntriesPerBlock |-> d.data[d.inode[i].block[k]][s - 1]]

\* What is copied into the buffer: the rest of the first block, whole blocks,
\* and the beginning of the last one.  An offset beyond the size is an error.
ext2_read(d, i, offset, length) ==
  LET first == offset \div EntriesPerBlock + 1
      skip  == offset % EntriesPerBlock
      rest  == length - (EntriesPerBlock - skip)
      whole == rest \div EntriesPerBlock
      part  == rest % EntriesPerBlock
  IN  IF offset > d.inode[i].size THEN << >>
      ELSE IF skip + length < EntriesPerBlock
      THEN SubSeq(BlockOf(d, i, first), skip + 1, skip + length)
      ELSE SubSeq(BlockOf(d, i, first), skip + 1, EntriesPerBlock)
             \o FlattenSeq([k \in 1 .. whole |-> BlockOf(d, i, first + k)])
             \o (IF part = 0 THEN << >>
                 ELSE SubSeq(BlockOf(d, i, first + whole + 1), 1, part))
=============================================================================
