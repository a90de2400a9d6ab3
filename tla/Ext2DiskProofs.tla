--------------------------- MODULE Ext2DiskProofs ---------------------------
(***************************************************************************)
(* What the operators of Ext2.tla do to a disk whose bitmaps, descriptors, *)
(* inodes and directories agree.                                           *)
(***************************************************************************)
EXTENDS Ext2, Lemmas

-----------------------------------------------------------------------------
(* Numbers *)

LEMMA Constants ==
  /\ NUMBER_OF_GROUPS \in Nat \ {0}
  /\ block_per_group \in Nat \ {0} /\ inode_per_group \in Nat \ {0}
  /\ FirstDataBlock \in Nat \ {0} /\ FirstDataBlock < block_per_group
  /\ ReservedInodes \in Nat /\ ReservedInodes >= 2
  /\ InodeTableSlots \in Nat /\ ReservedInodes <= InodeTableSlots
  /\ InodeTableSlots <= inode_per_group
  /\ EntriesPerBlock \in Nat /\ EntriesPerBlock >= 3
<1>1. EntriesPerBlock \in Nat /\ EntriesPerBlock >= 3
  <2>1. EntriesPerBlock \in Nat \ {0, 1, 2}
    BY Ext2Assumption
  <2> QED
    BY <2>1
<1>2. /\ block_per_group \in Nat /\ FirstDataBlock \in 1 .. block_per_group - 1
  BY Ext2Assumption
<1>3. /\ inode_per_group \in Nat /\ InodeTableSlots \in Nat
      /\ ReservedInodes \in 2 .. InodeTableSlots
      /\ InodeTableSlots <= inode_per_group
  BY Ext2Assumption
<1>4. /\ ReservedInodes \in Nat /\ ReservedInodes >= 2
      /\ ReservedInodes <= InodeTableSlots
      /\ inode_per_group \in Nat \ {0}
  BY <1>3
<1>5. NUMBER_OF_GROUPS \in Nat \ {0}
  BY Ext2Assumption
<1> QED
  BY <1>1, <1>2, <1>3, <1>4, <1>5

LEMMA DivUnique ==
  ASSUME NEW n \in Nat, NEW q \in Nat, NEW m \in Nat \ {0}, NEW r \in 0 .. m - 1,
         n = q * m + r
  PROVE  n \div m = q /\ n % m = r
OBVIOUS

LEMMA DivMod ==
  ASSUME NEW n \in Nat, NEW m \in Nat \ {0}
  PROVE  /\ n \div m \in Nat /\ n % m \in 0 .. m - 1
         /\ n = (n \div m) * m + (n % m)
OBVIOUS

LEMMA Multiply ==
  ASSUME NEW q \in Nat, NEW r \in Nat, NEW m \in Nat \ {0}
  PROVE  /\ q * m \in Nat
         /\ q < r <=> q * m + m <= r * m
OBVIOUS

\* The block with number n in group g.
LEMMA Numbered ==
  ASSUME NEW g \in Group, NEW n \in 0 .. block_per_group - 1
  PROVE  /\ WholeDisk(g, n) \in Block
         /\ BlockGroup(WholeDisk(g, n)) = g
         /\ WholeDisk(g, n) % block_per_group = n
<1>1. /\ g * block_per_group \in Nat
      /\ g * block_per_group + block_per_group <= NUMBER_OF_GROUPS * block_per_group
  BY Constants, Multiply DEF Group
<1>2. WholeDisk(g, n) \in Nat /\ WholeDisk(g, n) = g * block_per_group + n
  BY <1>1, Constants DEF WholeDisk
<1>3. WholeDisk(g, n) \in Block
  <2>1. NUMBER_OF_GROUPS * block_per_group \in Nat
    BY Constants, Multiply
  <2> QED
    BY <1>1, <1>2, <2>1, Constants DEF Block
<1>4. g \in Nat
  BY Constants DEF Group
<1>5. PICK w : w = WholeDisk(g, n)
  OBVIOUS
<1>6. w \div block_per_group = g /\ w % block_per_group = n
  BY <1>2, <1>4, <1>5, DivUnique, Constants
<1> QED
  BY <1>3, <1>5, <1>6 DEF BlockGroup

LEMMA BlockNumber ==
  ASSUME NEW b \in Block
  PROVE  /\ BlockGroup(b) \in Group
         /\ b % block_per_group \in 0 .. block_per_group - 1
         /\ b = WholeDisk(BlockGroup(b), b % block_per_group)
<1>0. NUMBER_OF_GROUPS * block_per_group \in Nat
  BY Constants, Multiply
<1>1. PICK q, r : q = b \div block_per_group /\ r = b % block_per_group
  OBVIOUS
<1>2. /\ b \in Nat /\ q \in Nat /\ r \in 0 .. block_per_group - 1
      /\ b = q * block_per_group + r
  <2>1. b \in Nat
    BY <1>0 DEF Block
  <2> QED
    BY <1>1, <2>1, DivMod, Constants
<1>3. q < NUMBER_OF_GROUPS
  <2>1. b < NUMBER_OF_GROUPS * block_per_group
    BY <1>0, <1>2 DEF Block
  <2>2. ~(NUMBER_OF_GROUPS * block_per_group <= q * block_per_group)
    BY <1>0, <1>2, <2>1, Multiply, Constants
  <2>3. NUMBER_OF_GROUPS = q \/ NUMBER_OF_GROUPS < q \/ q < NUMBER_OF_GROUPS
    BY <1>2, Constants
  <2>4. NUMBER_OF_GROUPS < q =>
          NUMBER_OF_GROUPS * block_per_group + block_per_group <= q * block_per_group
    BY <1>2, Multiply, Constants
  <2> QED
    BY <1>0, <1>2, <2>2, <2>3, <2>4, Constants
<1> QED
  BY <1>1, <1>2, <1>3, Constants DEF BlockGroup, WholeDisk, Group

\* The metadata are the blocks of the lowest numbers.
LEMMA MetadataNumbers ==
  ASSUME NEW b \in Block
  PROVE  b \in MetadataBlocks <=> b % block_per_group < FirstDataBlock
<1>1. ASSUME b \in MetadataBlocks PROVE b % block_per_group < FirstDataBlock
  <2>1. PICK g \in Group, n \in 0 .. FirstDataBlock - 1 : b = WholeDisk(g, n)
    BY <1>1 DEF MetadataBlocks
  <2>2. n \in 0 .. block_per_group - 1
    BY <2>1, Constants
  <2> QED
    BY <2>1, <2>2, Numbered, Constants
<1>2. ASSUME b % block_per_group < FirstDataBlock PROVE b \in MetadataBlocks
  <2>1. b % block_per_group \in 0 .. FirstDataBlock - 1
    BY <1>2, BlockNumber, Constants
  <2> QED
    BY <2>1, BlockNumber DEF MetadataBlocks
<1> QED
  BY <1>1, <1>2

\* Inodes of group 0.
LEMMA FirstGroupInodes ==
  ASSUME NEW i \in Inode
  PROVE  /\ InodeGroup(i) \in Nat
         /\ InodeGroup(i) = 0 <=> i \in 1 .. inode_per_group
<1>0. i \in Nat \ {0}
  BY Constants, Multiply DEF Inode
<1>1. PICK q, r : q = (i - 1) \div inode_per_group /\ r = (i - 1) % inode_per_group
  OBVIOUS
<1>2. /\ q \in Nat /\ r \in 0 .. inode_per_group - 1
      /\ i - 1 = q * inode_per_group + r
  <2>1. i - 1 \in Nat
    BY <1>0
  <2> QED
    BY <1>1, <2>1, DivMod, Constants
<1>3. q >= 1 => q * inode_per_group >= inode_per_group
  BY <1>2, Multiply, Constants
<1>4. q = 0 <=> i \in 1 .. inode_per_group
  BY <1>0, <1>2, <1>3, Constants
<1> QED
  BY <1>1, <1>2, <1>4 DEF InodeGroup

-----------------------------------------------------------------------------
(* Counting free blocks *)

LEMMA FreeFinite ==
  ASSUME NEW d, NEW g \in Group
  PROVE  /\ FreeBlocks(d, g) \in SUBSET (0 .. block_per_group - 1)
         /\ FreeBlocks(d, g) \in SUBSET (Nat \ {0})
         /\ IsFiniteSet(FreeBlocks(d, g))
         /\ Cardinality(FreeBlocks(d, g)) \in Nat
<1>1. /\ FreeBlocks(d, g) \in SUBSET (0 .. block_per_group - 1)
      /\ FreeBlocks(d, g) \in SUBSET (Nat \ {0})
  BY Constants DEF FreeBlocks
<1>2. IsFiniteSet(0 .. block_per_group - 1)
  BY FS_Interval, Constants
<1>3. IsFiniteSet(FreeBlocks(d, g))
  BY <1>1, <1>2, FS_Subset
<1> QED
  BY <1>1, <1>3, FS_CardinalityType

\* A data block that is not marked is counted in its group.
LEMMA FreeMeans ==
  ASSUME NEW d, NEW b \in Block \ MetadataBlocks
  PROVE  b \notin d.block_bitmap
           <=> b % block_per_group \in FreeBlocks(d, BlockGroup(b))
BY BlockNumber, MetadataNumbers, Constants DEF FreeBlocks

LEMMA FreeNumbers ==
  ASSUME NEW d, NEW g \in Group, NEW n \in FreeBlocks(d, g)
  PROVE  /\ WholeDisk(g, n) \in Block \ MetadataBlocks
         /\ WholeDisk(g, n) \notin d.block_bitmap
         /\ BlockGroup(WholeDisk(g, n)) = g
<1>1. n \in 0 .. block_per_group - 1 /\ n >= FirstDataBlock
  BY Constants DEF FreeBlocks
<1> QED
  BY <1>1, Numbered, MetadataNumbers, Constants DEF FreeBlocks

LEMMA FreeAfterTaking ==
  ASSUME NEW d, NEW e, NEW b \in Block \ MetadataBlocks, b \notin d.block_bitmap,
         e.block_bitmap = d.block_bitmap \cup {b}, NEW g \in Group
  PROVE  /\ g # BlockGroup(b) => FreeBlocks(e, g) = FreeBlocks(d, g)
         /\ g = BlockGroup(b) =>
              /\ Cardinality(FreeBlocks(d, g)) >= 1
              /\ Cardinality(FreeBlocks(e, g)) = Cardinality(FreeBlocks(d, g)) - 1
<1>1. \A n \in 0 .. block_per_group - 1 :
        WholeDisk(g, n) = b <=> g = BlockGroup(b) /\ n = b % block_per_group
  BY Numbered, BlockNumber
<1>2. CASE g # BlockGroup(b)
  <2>1. \A n \in 0 .. block_per_group - 1 :
          WholeDisk(g, n) \in e.block_bitmap <=> WholeDisk(g, n) \in d.block_bitmap
    BY <1>1, <1>2
  <2> QED
    BY <1>2, <2>1, Constants DEF FreeBlocks
<1>3. CASE g = BlockGroup(b)
  <2>1. b % block_per_group \in FreeBlocks(d, g)
    BY <1>3, FreeMeans
  <2>2. FreeBlocks(e, g) = FreeBlocks(d, g) \ {b % block_per_group}
    <3>1. \A n \in FirstDataBlock .. block_per_group - 1 :
            WholeDisk(g, n) \in e.block_bitmap <=>
              WholeDisk(g, n) \in d.block_bitmap \/ n = b % block_per_group
      BY <1>1, <1>3, Constants
    <3> QED
      BY <3>1 DEF FreeBlocks
  <2>3. Cardinality(FreeBlocks(e, g)) = Cardinality(FreeBlocks(d, g)) - 1
    <3>1. IsFiniteSet(FreeBlocks(d, g))
      BY FreeFinite
    <3> QED
      BY <2>1, <2>2, <3>1, FS_RemoveElement
  <2>4. Cardinality(FreeBlocks(e, g)) \in Nat /\ Cardinality(FreeBlocks(d, g)) \in Nat
    BY FreeFinite
  <2> QED
    BY <1>3, <2>3, <2>4
<1> QED
  BY <1>2, <1>3

\* How many blocks of B are in block group g.
InGroup(B, g) == Cardinality({b \in B : BlockGroup(b) = g})

\* e is d with the blocks of B free.
Cleared(d, e, B) ==
  /\ B \subseteq Block \ MetadataBlocks /\ B \subseteq d.block_bitmap
  /\ e.block_bitmap = d.block_bitmap \ B

LEMMA FreeAfterReleasing ==
  ASSUME NEW d, NEW e, NEW B, Cleared(d, e, B), NEW g \in Group
  PROVE  /\ InGroup(B, g) \in Nat
         /\ Cardinality(FreeBlocks(e, g)) =
              Cardinality(FreeBlocks(d, g)) + InGroup(B, g)
<1>0. /\ B \subseteq Block \ MetadataBlocks /\ B \subseteq d.block_bitmap
      /\ e.block_bitmap = d.block_bitmap \ B
  BY DEF Cleared
<1> DEFINE C == {b \in B : BlockGroup(b) = g}
<1> DEFINE N == {n \in FirstDataBlock .. block_per_group - 1 : WholeDisk(g, n) \in B}
<1>1. N \in SUBSET (0 .. block_per_group - 1)
  BY Constants
<1>2. IsFiniteSet(N)
  <2>1. IsFiniteSet(0 .. block_per_group - 1)
    BY FS_Interval, Constants
  <2> HIDE DEF N
  <2> QED
    BY <1>1, <2>1, FS_Subset
<1>3. FreeBlocks(e, g) = FreeBlocks(d, g) \cup N
  BY <1>0 DEF FreeBlocks
<1>4. FreeBlocks(d, g) \cap N = {}
  BY <1>0 DEF FreeBlocks
<1>5. ExistsBijection(N, C)
  <2> DEFINE f == [n \in N |-> WholeDisk(g, n)]
  <2>1. \A n \in N : WholeDisk(g, n) \in C
    BY <1>0, <1>1, Numbered
  <2>2. \A b \in C : b % block_per_group \in N /\ WholeDisk(g, b % block_per_group) = b
    BY <1>0, BlockNumber, MetadataNumbers, Constants
  <2>3. \A n, m \in N : WholeDisk(g, n) = WholeDisk(g, m) => n = m
    <3> SUFFICES ASSUME NEW n \in N, NEW m \in N, WholeDisk(g, n) = WholeDisk(g, m)
                 PROVE  n = m
      OBVIOUS
    <3>1. n \in 0 .. block_per_group - 1 /\ m \in 0 .. block_per_group - 1
      BY <1>1
    <3> QED
      BY <3>1, Numbered
  <2>4. f \in Bijection(N, C)
    BY <2>1, <2>2, <2>3 DEF Bijection, Injection, Surjection, IsInjective
  <2> QED
    BY <2>4 DEF ExistsBijection
<1>6. IsFiniteSet(C) /\ Cardinality(C) = Cardinality(N)
  BY <1>2, <1>5, FS_Bijection
<1>7. Cardinality(FreeBlocks(d, g) \cup N) =
        Cardinality(FreeBlocks(d, g)) + Cardinality(N)
        - Cardinality(FreeBlocks(d, g) \cap N)
  BY <1>2, FreeFinite, FS_Union
<1>8. Cardinality(N) \in Nat /\ Cardinality(FreeBlocks(d, g)) \in Nat
  BY <1>2, FreeFinite, FS_CardinalityType
<1>9. Cardinality(FreeBlocks(d, g) \cap N) = 0
  BY <1>4, FS_EmptySet
<1> QED
  BY <1>3, <1>6, <1>7, <1>8, <1>9 DEF InGroup

-----------------------------------------------------------------------------
(* Counting free inodes *)

FreeInodes(d, g) == {i \in Inode \ d.inode_bitmap : InodeGroup(i) = g}

LEMMA FreeInodesFinite ==
  ASSUME NEW d, NEW g
  PROVE  /\ IsFiniteSet(FreeInodes(d, g))
         /\ Cardinality(FreeInodes(d, g)) \in Nat
<1>1. NUMBER_OF_GROUPS * inode_per_group \in Nat
  BY Constants, Multiply
<1>2. IsFiniteSet(Inode)
  BY <1>1, FS_Interval DEF Inode
<1>3. FreeInodes(d, g) \subseteq Inode
  BY DEF FreeInodes
<1> QED
  BY <1>2, <1>3, FS_Subset, FS_CardinalityType

LEMMA FreeInodesAfterTaking ==
  ASSUME NEW d, NEW e, NEW i \in Inode, i \notin d.inode_bitmap,
         e.inode_bitmap = d.inode_bitmap \cup {i}, NEW g
  PROVE  Cardinality(FreeInodes(e, g)) =
           IF g = InodeGroup(i) THEN Cardinality(FreeInodes(d, g)) - 1
           ELSE Cardinality(FreeInodes(d, g))
<1>1. FreeInodes(e, g) = FreeInodes(d, g) \ {i}
  BY DEF FreeInodes
<1>2. i \in FreeInodes(d, g) <=> g = InodeGroup(i)
  BY DEF FreeInodes
<1>3. IsFiniteSet(FreeInodes(d, g))
  BY FreeInodesFinite
<1> QED
  BY <1>1, <1>2, <1>3, FS_RemoveElement

LEMMA FreeInodesAfterReleasing ==
  ASSUME NEW d, NEW e, NEW i \in Inode, i \in d.inode_bitmap,
         e.inode_bitmap = d.inode_bitmap \ {i}, NEW g
  PROVE  Cardinality(FreeInodes(e, g)) =
           IF g = InodeGroup(i) THEN Cardinality(FreeInodes(d, g)) + 1
           ELSE Cardinality(FreeInodes(d, g))
<1>1. /\ g = InodeGroup(i) => FreeInodes(e, g) = FreeInodes(d, g) \cup {i}
      /\ g # InodeGroup(i) => FreeInodes(e, g) = FreeInodes(d, g)
  BY DEF FreeInodes
<1>2. i \notin FreeInodes(d, g)
  BY DEF FreeInodes
<1>3. IsFiniteSet(FreeInodes(d, g))
  BY FreeInodesFinite
<1> QED
  BY <1>1, <1>2, <1>3, FS_AddElement

-----------------------------------------------------------------------------
(* A disk in order *)

\* The inodes that have blocks, and those of directories.
InUse(d) == {i \in Inode : i = ROOT \/ (i \in d.inode_bitmap /\ i \notin 1 .. ReservedInodes)}

Directories(d) == {i \in Inode : i \in d.inode_bitmap /\ d.inode[i].dir}

\* Inodes are in the first group, and so is the first block of each.
InodesAgree(d) ==
  /\ \A i \in 1 .. ReservedInodes : /\ i \in d.inode_bitmap
                                    /\ i # ROOT => ~d.inode[i].dir
  /\ \A i \in d.inode_bitmap : i \in 1 .. inode_per_group
  /\ d.inode[ROOT].dir
  /\ \A i \in InUse(d) : /\ Len(d.inode[i].block) >= 1
                         /\ BlockGroup(d.inode[i].block[1]) = 0

\* Inode i has a k-th block, and which.
Own(d, i, k) == i \in InUse(d) /\ k \in 1 .. Len(d.inode[i].block)
Blk(d, i, k) == d.inode[i].block[k]

\* Every marked data block has one place in one inode.
BlocksAgree(d) ==
  /\ \A b \in MetadataBlocks : b \in d.block_bitmap
  /\ \A i \in Inode, k \in Nat :
       Own(d, i, k) => /\ Blk(d, i, k) \in d.block_bitmap
                       /\ Blk(d, i, k) \notin MetadataBlocks
  /\ \A b \in d.block_bitmap :
       b \notin MetadataBlocks =>
         \E i \in Inode, k \in Nat : Own(d, i, k) /\ Blk(d, i, k) = b
  /\ \A i, j \in Inode, k, l \in Nat :
       Own(d, i, k) /\ Own(d, j, l) /\ Blk(d, i, k) = Blk(d, j, l)
         => i = j /\ k = l

\* The descriptors count the zero bits.
BlockCounts(d) ==
  \A g \in Group : d.gd[g].free_blocks = Cardinality(FreeBlocks(d, g))

InodeCounts(d) ==
  \A g \in Group : d.gd[g].free_inodes = Cardinality(FreeInodes(d, g))

LEMMA DiskFacts ==
  ASSUME NEW d \in Disk
  PROVE  /\ d.block_bitmap \subseteq Block /\ d.inode_bitmap \subseteq Inode
         /\ \A i \in Inode :
              /\ d.inode[i] \in INODE
              /\ d.inode[i].dir \in BOOLEAN /\ d.inode[i].size \in Nat
              /\ d.inode[i].block \in Seq(Block)
              /\ Len(d.inode[i].block) \in Nat
              /\ \A k \in 1 .. Len(d.inode[i].block) : d.inode[i].block[k] \in Block
         /\ \A b \in Block : /\ d.data[b] \in [Slot -> Entry]
                             /\ \A s \in Slot : d.data[b][s] \in Entry
         /\ \A g \in Group : d.gd[g].free_blocks \in Nat /\ d.gd[g].free_inodes \in Nat
<1>1. /\ d.gd \in [Group -> [free_blocks : Nat, free_inodes : Nat]]
      /\ d.block_bitmap \in SUBSET Block /\ d.inode_bitmap \in SUBSET Inode
      /\ d.inode \in [Inode -> INODE] /\ d.data \in [Block -> [Slot -> Entry]]
  BY DEF Disk
<1>2. \A i \in Inode : /\ d.inode[i] \in INODE
                       /\ d.inode[i].dir \in BOOLEAN /\ d.inode[i].size \in Nat
                       /\ d.inode[i].block \in Seq(Block)
  BY <1>1 DEF INODE
<1>3. \A i \in Inode :
        /\ Len(d.inode[i].block) \in Nat
        /\ \A k \in 1 .. Len(d.inode[i].block) : d.inode[i].block[k] \in Block
  <2> TAKE i \in Inode
  <2>1. PICK q \in Seq(Block) : q = d.inode[i].block
    BY <1>2
  <2> QED
    BY <2>1
<1>4. \A b \in Block : /\ d.data[b] \in [Slot -> Entry]
                       /\ \A s \in Slot : d.data[b][s] \in Entry
  BY <1>1
<1>5. \A g \in Group : d.gd[g].free_blocks \in Nat /\ d.gd[g].free_inodes \in Nat
  BY <1>1
<1> QED
  BY <1>1, <1>2, <1>3, <1>4, <1>5

LEMMA Root ==
  /\ ROOT \in Inode /\ ROOT \in 1 .. ReservedInodes /\ ROOT \in 1 .. inode_per_group
  /\ \A i \in 1 .. inode_per_group : i \in Inode
  /\ 0 \in Group
<1>1. /\ NUMBER_OF_GROUPS * inode_per_group \in Nat
      /\ inode_per_group <= NUMBER_OF_GROUPS * inode_per_group
  <2>1. 0 < NUMBER_OF_GROUPS => 0 * inode_per_group + inode_per_group <= NUMBER_OF_GROUPS * inode_per_group
    BY Constants, Multiply
  <2> QED
    BY <2>1, Constants, Multiply
<1> QED
  BY <1>1, Constants DEF ROOT, Inode, Group

-----------------------------------------------------------------------------
(* Blocks that get and lose an owner *)

LEMMA OwnGrows ==
  ASSUME NEW d, NEW e, BlocksAgree(d),
         NEW b, b \notin MetadataBlocks, b \notin d.block_bitmap,
         e.block_bitmap = d.block_bitmap \cup {b},
         NEW i0 \in Inode, NEW k0 \in Nat,
         \A i \in Inode, k \in Nat :
           Own(e, i, k) <=> Own(d, i, k) \/ (i = i0 /\ k = k0),
         \A i \in Inode, k \in Nat : Own(d, i, k) => Blk(e, i, k) = Blk(d, i, k),
         Blk(e, i0, k0) = b
  PROVE  BlocksAgree(e)
<1>1. \A c \in MetadataBlocks : c \in e.block_bitmap
  BY DEF BlocksAgree
<1>2. \A i \in Inode, k \in Nat :
        Own(e, i, k) => /\ Blk(e, i, k) \in e.block_bitmap
                        /\ Blk(e, i, k) \notin MetadataBlocks
  BY DEF BlocksAgree
<1>3. \A c \in e.block_bitmap :
        c \notin MetadataBlocks =>
          \E i \in Inode, k \in Nat : Own(e, i, k) /\ Blk(e, i, k) = c
  <2> SUFFICES ASSUME NEW c \in e.block_bitmap, c \notin MetadataBlocks
               PROVE  \E i \in Inode, k \in Nat : Own(e, i, k) /\ Blk(e, i, k) = c
    OBVIOUS
  <2>1. CASE c = b
    BY <2>1
  <2>2. CASE c # b
    <3>1. PICK i \in Inode, k \in Nat : Own(d, i, k) /\ Blk(d, i, k) = c
      BY <2>2 DEF BlocksAgree
    <3> QED
      BY <3>1
  <2> QED
    BY <2>1, <2>2
<1>4. \A i, j \in Inode, k, l \in Nat :
        Own(e, i, k) /\ Own(e, j, l) /\ Blk(e, i, k) = Blk(e, j, l)
          => i = j /\ k = l
  <2> SUFFICES ASSUME NEW i \in Inode, NEW j \in Inode, NEW k \in Nat, NEW l \in Nat,
                      Own(e, i, k), Own(e, j, l), Blk(e, i, k) = Blk(e, j, l)
               PROVE  i = j /\ k = l
    OBVIOUS
  <2>1. CASE Own(d, i, k) /\ Own(d, j, l)
    BY <2>1 DEF BlocksAgree
  <2>2. \A p \in Inode, q \in Nat : Own(d, p, q) => Blk(e, p, q) # b
    BY DEF BlocksAgree
  <2> QED
    BY <2>1, <2>2
<1> QED
  BY <1>1, <1>2, <1>3, <1>4 DEF BlocksAgree

LEMMA OwnShrinks ==
  ASSUME NEW d, NEW e, BlocksAgree(d), NEW B, \A b \in B : b \notin MetadataBlocks,
         e.block_bitmap = d.block_bitmap \ B,
         \A i \in Inode, k \in Nat :
           Own(e, i, k) <=> Own(d, i, k) /\ Blk(d, i, k) \notin B,
         \A i \in Inode, k \in Nat : Own(e, i, k) => Blk(e, i, k) = Blk(d, i, k)
  PROVE  BlocksAgree(e)
<1>1. \A c \in MetadataBlocks : c \in e.block_bitmap
  BY DEF BlocksAgree
<1>2. \A i \in Inode, k \in Nat :
        Own(e, i, k) => /\ Blk(e, i, k) \in e.block_bitmap
                        /\ Blk(e, i, k) \notin MetadataBlocks
  BY DEF BlocksAgree
<1>3. \A c \in e.block_bitmap :
        c \notin MetadataBlocks =>
          \E i \in Inode, k \in Nat : Own(e, i, k) /\ Blk(e, i, k) = c
  <2> SUFFICES ASSUME NEW c \in e.block_bitmap, c \notin MetadataBlocks
               PROVE  \E i \in Inode, k \in Nat : Own(e, i, k) /\ Blk(e, i, k) = c
    OBVIOUS
  <2>1. PICK i \in Inode, k \in Nat : Own(d, i, k) /\ Blk(d, i, k) = c
    BY DEF BlocksAgree
  <2> QED
    BY <2>1
<1>4. \A i, j \in Inode, k, l \in Nat :
        Own(e, i, k) /\ Own(e, j, l) /\ Blk(e, i, k) = Blk(e, j, l)
          => i = j /\ k = l
  BY DEF BlocksAgree
<1> QED
  BY <1>1, <1>2, <1>3, <1>4 DEF BlocksAgree

LEMMA OwnSame ==
  ASSUME NEW d, NEW e, BlocksAgree(d), e.block_bitmap = d.block_bitmap,
         \A i \in Inode, k \in Nat : Own(e, i, k) <=> Own(d, i, k),
         \A i \in Inode, k \in Nat : Own(d, i, k) => Blk(e, i, k) = Blk(d, i, k)
  PROVE  BlocksAgree(e)
BY DEF BlocksAgree

-----------------------------------------------------------------------------
(* alloc_free_block and the loop around it *)

\* Block b is zeroed, marked and counted.
Took(d, e, b) ==
  /\ b \in Block /\ b \notin MetadataBlocks /\ b \notin d.block_bitmap
  /\ e.block_bitmap = d.block_bitmap \cup {b}
  /\ e.inode = d.inode /\ e.inode_bitmap = d.inode_bitmap
  /\ \A c \in Block : e.data[c] = IF c = b THEN Zeroed ELSE d.data[c]
  /\ \A g \in Group : e.gd[g].free_inodes = d.gd[g].free_inodes

LEMMA ZeroedType == Zeroed \in [Slot -> Entry] /\ \A s \in Slot : Zeroed[s] = NoEntry
<1>1. NoEntry \in Entry
  BY DEF NoEntry, Entry
<1> QED
  BY <1>1 DEF Zeroed

LEMMA TakenTakes ==
  ASSUME NEW d \in Disk, BlockCounts(d), NEW g \in Group, NEW n \in FreeBlocks(d, g)
  PROVE  /\ Taken(d, g, n) \in Disk /\ BlockCounts(Taken(d, g, n))
         /\ Took(d, Taken(d, g, n), WholeDisk(g, n))
<1>1. PICK b : b = WholeDisk(g, n)
  OBVIOUS
<1>2. /\ b \in Block /\ b \notin MetadataBlocks /\ b \notin d.block_bitmap
      /\ BlockGroup(b) = g
  BY <1>1, FreeNumbers
<1>3. PICK e : e = Taken(d, g, n)
  OBVIOUS
<1>4. /\ e.block_bitmap = d.block_bitmap \cup {b}
      /\ e.inode = d.inode /\ e.inode_bitmap = d.inode_bitmap
      /\ \A c \in Block : e.data[c] = IF c = b THEN Zeroed ELSE d.data[c]
      /\ \A h \in Group : e.gd[h].free_inodes = d.gd[h].free_inodes
      /\ \A h \in Group : e.gd[h].free_blocks =
            IF h = g THEN Less1(d.gd[g].free_blocks) ELSE d.gd[h].free_blocks
  BY <1>1, <1>3 DEF Taken, Disk
<1>5. /\ Cardinality(FreeBlocks(d, g)) >= 1
      /\ \A h \in Group : Cardinality(FreeBlocks(e, h)) =
           IF h = g THEN Cardinality(FreeBlocks(d, h)) - 1
           ELSE Cardinality(FreeBlocks(d, h))
  <2>1. \A h \in Group : /\ h # BlockGroup(b) => FreeBlocks(e, h) = FreeBlocks(d, h)
                         /\ h = BlockGroup(b) =>
                              /\ Cardinality(FreeBlocks(d, h)) >= 1
                              /\ Cardinality(FreeBlocks(e, h)) =
                                   Cardinality(FreeBlocks(d, h)) - 1
    BY <1>2, <1>4, FreeAfterTaking, ZenonT(60)
  <2> QED
    BY <1>2, <2>1
<1>6. \A h \in Group : d.gd[h].free_blocks = Cardinality(FreeBlocks(d, h))
                       /\ Cardinality(FreeBlocks(d, h)) \in Nat
  BY FreeFinite DEF BlockCounts
<1>7. Less1(d.gd[g].free_blocks) = d.gd[g].free_blocks - 1
  BY <1>5, <1>6 DEF Less1
<1>8. BlockCounts(e)
  BY <1>4, <1>5, <1>6, <1>7 DEF BlockCounts
<1>9. e \in Disk
  <2>1. Less1(d.gd[g].free_blocks) \in Nat
    BY <1>5, <1>6, <1>7
  <2>2. PICK x : x = [d.data EXCEPT ![b] = Zeroed]
    OBVIOUS
  <2>3. x \in [Block -> [Slot -> Entry]]
    BY <1>2, <2>2, ZeroedType DEF Disk
  <2>4. PICK y : y = [d.gd EXCEPT ![g].free_blocks = Less1(@)]
    OBVIOUS
  <2>5. y \in [Group -> [free_blocks : Nat, free_inodes : Nat]]
    BY <2>1, <2>4 DEF Disk
  <2>6. PICK z : z = d.block_bitmap \cup {b}
    OBVIOUS
  <2>7. z \in SUBSET Block
    BY <1>2, <2>6 DEF Disk
  <2>8. e = [d EXCEPT !.data = x, !.block_bitmap = z, !.gd = y]
    BY <1>1, <1>3, <2>2, <2>4, <2>6 DEF Taken, Disk
  <2> QED
    BY <2>3, <2>5, <2>7, <2>8 DEF Disk
<1> QED
  BY <1>1, <1>2, <1>3, <1>4, <1>8, <1>9 DEF Took

\* Every group is reached from every other.
LEMMA GoRound ==
  ASSUME NEW g \in Group, NEW h \in Group
  PROVE  \E k \in Group : (g + k) % NUMBER_OF_GROUPS = h
<1>0. NUMBER_OF_GROUPS \in Nat \ {0}
  BY Constants
<1>1. CASE g <= h
  <2> DEFINE k == h - g
  <2> QED
    BY <1>0, <1>1 DEF Group
<1>2. CASE g > h
  <2> DEFINE k == h - g + NUMBER_OF_GROUPS
  <2>1. k \in Group
    BY <1>0, <1>2 DEF Group
  <2>2. (g + k) % NUMBER_OF_GROUPS = h
    BY <1>0, <1>2 DEF Group
  <2> QED
    BY <2>1, <2>2
<1> QED
  BY <1>1, <1>2, <1>0 DEF Group

LEMMA MinIn ==
  ASSUME NEW T \in SUBSET Nat, T # {}
  PROVE  Min(T) \in T /\ \A n \in T : Min(T) <= n
BY LeastNat DEF Min

\* The group and the number the loop finds, whatever else the disk holds.
LEMMA AllocChoice ==
  ASSUME NEW d, NEW g \in Group, NEW r, r = AllocFrom(d, g)
  PROVE  /\ r.group \in Group /\ r.number \in Nat
         /\ r.number = 0 => r.disk = d /\ \A h \in Group : FreeBlocks(d, h) = {}
         /\ r.number # 0 => /\ r.number \in FreeBlocks(d, r.group)
                            /\ r.disk = Taken(d, r.group, r.number)
         /\ FreeBlocks(d, g) # {} => r.group = g /\ r.number # 0
<1>0. NUMBER_OF_GROUPS \in Nat \ {0} /\ 0 \in Group /\ Group \subseteq Nat
  BY Constants DEF Group
<1>1. PICK free : free = {k \in Group : FreeBlocks(d, (g + k) % NUMBER_OF_GROUPS) # {}}
  OBVIOUS
<1>2. PICK h : h = IF free = {} THEN g ELSE (g + Min(free)) % NUMBER_OF_GROUPS
  OBVIOUS
<1>3. PICK a : a = alloc_free_block(d, h)
  OBVIOUS
<1>4. r = [group |-> h, disk |-> a.disk, number |-> a.number]
  BY <1>1, <1>2, <1>3 DEF AllocFrom
<1>5. free = {} => \A k \in Group : FreeBlocks(d, k) = {}
  BY <1>1, GoRound
<1>6. free # {} => Min(free) \in free /\ \A k \in free : Min(free) <= k
  BY <1>0, <1>1, MinIn
<1>7. h \in Group
  <2>1. \A k \in Group : (g + k) % NUMBER_OF_GROUPS \in Group
    BY <1>0 DEF Group
  <2> QED
    BY <1>1, <1>2, <1>6, <2>1
<1>8. free # {} => FreeBlocks(d, h) # {}
  BY <1>1, <1>2, <1>6
<1>9. FreeBlocks(d, g) # {} => h = g /\ free # {}
  <2> SUFFICES ASSUME FreeBlocks(d, g) # {} PROVE h = g /\ free # {}
    OBVIOUS
  <2>1. (g + 0) % NUMBER_OF_GROUPS = g
    BY <1>0 DEF Group
  <2>2. 0 \in free
    BY <1>0, <1>1, <2>1
  <2>3. Min(free) = 0
    <3>1. Min(free) \in Nat /\ Min(free) <= 0
      BY <1>0, <1>1, <1>6, <2>2
    <3> QED
      BY <3>1
  <2> QED
    BY <1>2, <2>1, <2>2, <2>3
<1>10. CASE FreeBlocks(d, h) = {}
  <2>1. r.disk = d /\ r.number = 0 /\ r.group = h
    BY <1>3, <1>4, <1>10 DEF alloc_free_block
  <2> QED
    BY <1>5, <1>7, <1>8, <1>9, <1>10, <2>1
<1>11. CASE FreeBlocks(d, h) # {}
  <2>1. PICK n : n = Min(FreeBlocks(d, h))
    OBVIOUS
  <2>2. n \in FreeBlocks(d, h) /\ n \in Nat \ {0}
    BY <1>7, <1>11, <2>1, FreeFinite, MinIn
  <2>3. r.disk = Taken(d, h, n) /\ r.number = n /\ r.group = h
    BY <1>3, <1>4, <1>11, <2>1 DEF alloc_free_block
  <2> QED
    BY <1>7, <1>9, <1>11, <2>2, <2>3
<1> QED
  BY <1>10, <1>11

LEMMA AllocFacts ==
  ASSUME NEW d \in Disk, BlockCounts(d), NEW g \in Group,
         NEW r, r = AllocFrom(d, g)
  PROVE  /\ r.group \in Group /\ r.number \in Nat /\ r.disk \in Disk
         /\ r.number = 0 => r.disk = d /\ \A h \in Group : FreeBlocks(d, h) = {}
         /\ r.number # 0 => /\ r.number \in FreeBlocks(d, r.group)
                            /\ BlockCounts(r.disk)
                            /\ Took(d, r.disk, WholeDisk(r.group, r.number))
         /\ FreeBlocks(d, g) # {} => r.group = g /\ r.number # 0
<1>1. PICK h, n : h = r.group /\ n = r.number
  OBVIOUS
<1>2. /\ h \in Group /\ n \in Nat
      /\ n = 0 => r.disk = d /\ \A k \in Group : FreeBlocks(d, k) = {}
      /\ n # 0 => n \in FreeBlocks(d, h) /\ r.disk = Taken(d, h, n)
      /\ FreeBlocks(d, g) # {} => h = g /\ n # 0
  BY <1>1, AllocChoice
<1>3. n # 0 => /\ Taken(d, h, n) \in Disk /\ BlockCounts(Taken(d, h, n))
               /\ Took(d, Taken(d, h, n), WholeDisk(h, n))
  BY <1>2, TakenTakes
<1> QED
  BY <1>1, <1>2, <1>3

-----------------------------------------------------------------------------
(* Directories *)

\* Entries in the last block of inode ip.
Level(ip) == ip.size - (Len(ip.block) - 1) * EntriesPerBlock

\* Slot s of the k-th block of directory i is one of its entries; the first
\* two are "." and "..".
Has(d, i, k, s) ==
  /\ k \in 1 .. Len(d.inode[i].block) /\ s \in Slot
  /\ k < Len(d.inode[i].block) \/ s < Level(d.inode[i])

Child(d, i, k, s) == Has(d, i, k, s) /\ (k > 1 \/ s > 1)

Ent(d, i, k, s) == d.data[Blk(d, i, k)][s]

\* The size and the blocks fit, and a walk stops after the last entry.
Shape(d, i) ==
  /\ Len(d.inode[i].block) >= 1
  /\ Level(d.inode[i]) \in 1 .. EntriesPerBlock
  /\ d.inode[i].size >= 2
  /\ \A k \in 1 .. Len(d.inode[i].block), s \in Slot :
       ~Has(d, i, k, s) => Ent(d, i, k, s).name = ""

\* "." is the directory, ".." another one, the others files or directories.
Filled(d, i) ==
  /\ Has(d, i, 1, 0) /\ Ent(d, i, 1, 0) = Named(i, ".")
  /\ Has(d, i, 1, 1) /\ Ent(d, i, 1, 1).name = ".."
  /\ Ent(d, i, 1, 1).inode \in Directories(d)
  /\ \A k \in Nat, s \in Slot :
       Child(d, i, k, s) => /\ Ent(d, i, k, s).name \in Name
                            /\ Ent(d, i, k, s).inode \in InUse(d)
                            /\ Ent(d, i, k, s).inode # ROOT

\* Inode i is entered in directory up.
IsIn(d, i, up) ==
  \E k \in Nat, s \in Slot : Child(d, up, k, s) /\ Ent(d, up, k, s).inode = i

EnteredOnce(d) ==
  \A i, j \in Directories(d), k, l \in Nat, s, r \in Slot :
    Child(d, i, k, s) /\ Child(d, j, l, r) /\ Ent(d, i, k, s).inode = Ent(d, j, l, r).inode
      => i = j /\ k = l /\ s = r

Rooted(d) ==
  /\ Ent(d, ROOT, 1, 1).inode = ROOT
  /\ \A i \in Directories(d) : i # ROOT => IsIn(d, i, Ent(d, i, 1, 1).inode)

DirectoriesAgree(d) ==
  /\ \A i \in Directories(d) : Shape(d, i) /\ Filled(d, i)
  /\ EnteredOnce(d) /\ Rooted(d)

\* What sizes say about slots.
LEMMA Sizes ==
  ASSUME NEW z \in Nat, NEW n \in Nat \ {0}, NEW t \in 1 .. EntriesPerBlock,
         t = z - (n - 1) * EntriesPerBlock
  PROVE  /\ t = EntriesPerBlock => z % EntriesPerBlock = 0
         /\ t # EntriesPerBlock => z % EntriesPerBlock = t
         /\ (z - 1) % EntriesPerBlock = t - 1
         /\ z - 1 \in Nat
         /\ z + 1 - (n - 1) * EntriesPerBlock = t + 1
         /\ t = EntriesPerBlock => z + 1 - ((n + 1) - 1) * EntriesPerBlock = 1
         /\ z - 1 - (n - 1) * EntriesPerBlock = t - 1
         /\ t = 1 => z - 1 - ((n - 1) - 1) * EntriesPerBlock = EntriesPerBlock
         /\ n >= 2 => z > EntriesPerBlock
<1>0. EntriesPerBlock \in Nat \ {0} /\ EntriesPerBlock >= 3
  BY Constants
<1>1. PICK p \in Nat : p = (n - 1) * EntriesPerBlock
  BY <1>0, Multiply
<1>2. z = p + t
  BY <1>1
<1>3. n * EntriesPerBlock = p + EntriesPerBlock
  BY <1>0, <1>1
<1>4. (n - 2) * EntriesPerBlock = p - EntriesPerBlock
  BY <1>0, <1>1
<1>5. (z - 1) % EntriesPerBlock = t - 1
  <2>1. t - 1 \in 0 .. EntriesPerBlock - 1 /\ n - 1 \in Nat /\ z - 1 \in Nat
    BY <1>0, <1>2
  <2>2. PICK w \in Nat, q \in Nat, r \in 0 .. EntriesPerBlock - 1 :
          w = z - 1 /\ q = n - 1 /\ r = t - 1
    BY <2>1
  <2>3. w = q * EntriesPerBlock + r
    BY <1>0, <1>1, <1>2, <2>2
  <2>4. w % EntriesPerBlock = r
    BY <1>0, <2>3, DivUnique
  <2> QED
    BY <2>2, <2>4
<1>6. t # EntriesPerBlock => z % EntriesPerBlock = t
  <2> SUFFICES ASSUME t # EntriesPerBlock PROVE z % EntriesPerBlock = t
    OBVIOUS
  <2>1. t \in 0 .. EntriesPerBlock - 1 /\ n - 1 \in Nat
    BY <1>0
  <2>2. z = (n - 1) * EntriesPerBlock + t
    BY <1>1, <1>2
  <2> QED
    BY <1>0, <2>1, <2>2, DivUnique, SMTT(60)
<1>7. t = EntriesPerBlock => z % EntriesPerBlock = 0
  <2> SUFFICES ASSUME t = EntriesPerBlock PROVE z % EntriesPerBlock = 0
    OBVIOUS
  <2>1. z = n * EntriesPerBlock + 0 /\ 0 \in 0 .. EntriesPerBlock - 1
    BY <1>0, <1>2, <1>3
  <2> QED
    BY <1>0, <2>1, DivUnique
<1>8. n >= 2 => p >= EntriesPerBlock
  <2> SUFFICES ASSUME n >= 2 PROVE p >= EntriesPerBlock
    OBVIOUS
  <2>1. 0 * EntriesPerBlock + EntriesPerBlock <= (n - 1) * EntriesPerBlock
    BY <1>0, Multiply
  <2> QED
    BY <1>0, <1>1, <2>1
<1> QED
  BY <1>0, <1>1, <1>2, <1>3, <1>4, <1>5, <1>6, <1>7, <1>8

\* The last of n blocks holds t of the z entries.
Fits(z, n, t) == t = z - (n - 1) * EntriesPerBlock

LEMMA SizeOver ==
  ASSUME NEW z \in Nat, NEW n \in Nat \ {0}, NEW t \in 1 .. EntriesPerBlock,
         Fits(z, n, t)
  PROVE  /\ t = EntriesPerBlock => z % EntriesPerBlock = 0
         /\ t # EntriesPerBlock => z % EntriesPerBlock = t
BY Sizes, ZenonT(60) DEF Fits

LEMMA SizeUnder ==
  ASSUME NEW z \in Nat, NEW n \in Nat \ {0}, NEW t \in 1 .. EntriesPerBlock,
         Fits(z, n, t)
  PROVE  (z - 1) % EntriesPerBlock = t - 1
BY Sizes, ZenonT(60) DEF Fits

-----------------------------------------------------------------------------
(* insert_entry *)

\* The inode and the blocks of i are as they were.
Same(d, e, i) ==
  /\ e.inode[i] = d.inode[i]
  /\ \A k \in 1 .. Len(d.inode[i].block) : e.data[Blk(d, i, k)] = d.data[Blk(d, i, k)]

\* All of this but one inode is as it was.
OthersSame(d, e, i0) == \A i \in InUse(d) : i # i0 => Same(d, e, i)

SameInodes(d, e) ==
  /\ e.inode_bitmap = d.inode_bitmap
  /\ \A i \in Inode : e.inode[i].dir = d.inode[i].dir
  /\ \A g \in Group : e.gd[g].free_inodes = d.gd[g].free_inodes

\* No group has a free block.
NoneFree(d) == \A g \in Group : FreeBlocks(d, g) = {}

\* Inode i has the blocks for its size.
Roomy(d, i) == d.inode[i].size <= Len(d.inode[i].block) * EntriesPerBlock

\* File i holds what fill writes, up to its size.
Holds(d, i) ==
  \A k \in 1 .. Len(d.inode[i].block), s \in Slot :
    (k - 1) * EntriesPerBlock + s < d.inode[i].size => Ent(d, i, k, s) = Data

\* File i was written, or the disk got full.
Stored(d, i) == (Roomy(d, i) /\ Holds(d, i)) \/ (~Roomy(d, i) /\ NoneFree(d))

\* The files of e are as they were in d, or newly stored.
FilesChange(d, e) ==
  \A i \in InUse(e) :
    i \notin Directories(e) =>
      \/ i \in InUse(d) /\ i \notin Directories(d) /\ Same(d, e, i)
      \/ Stored(e, i)

LEMMA FilesStay == ASSUME NEW d PROVE FilesChange(d, d)
BY DEF FilesChange, Same

\* Directory i has got entry x, in slot S of its K-th block.
Added(d, e, i, x, K, S) ==
  /\ K \in Nat /\ S \in Slot /\ ~Has(d, i, K, S)
  /\ \A k \in Nat, s \in Slot : Has(e, i, k, s) <=> Has(d, i, k, s) \/ (k = K /\ s = S)
  /\ \A k \in Nat, s \in Slot : Has(d, i, k, s) => Ent(e, i, k, s) = Ent(d, i, k, s)
  /\ Ent(e, i, K, S) = x
  /\ Shape(e, i)

\* e is d with entry x in slot t of block b, counted in the size of inode i.
Wrote(d, e, i, b, t, x) ==
  /\ e.block_bitmap = d.block_bitmap /\ e.inode_bitmap = d.inode_bitmap
  /\ e.gd = d.gd
  /\ \A j \in Inode : j # i => e.inode[j] = d.inode[j]
  /\ e.inode[i].block = d.inode[i].block /\ e.inode[i].size = d.inode[i].size + 1
  /\ e.inode[i].dir = d.inode[i].dir
  /\ \A c \in Block : c # b => e.data[c] = d.data[c]
  /\ \A s \in Slot : e.data[b][s] = IF s = t THEN x ELSE d.data[b][s]

LEMMA WriteEntry ==
  ASSUME NEW d \in Disk, NEW i \in Inode, NEW b \in Block, NEW t \in Slot, NEW x \in Entry
  PROVE  /\ [d EXCEPT !.inode[i].size = @ + 1, !.data[b][t] = x] \in Disk
         /\ Wrote(d, [d EXCEPT !.inode[i].size = @ + 1, !.data[b][t] = x], i, b, t, x)
<1>1. PICK u : u = [d.inode EXCEPT ![i].size = @ + 1]
  OBVIOUS
<1>2. /\ u \in [Inode -> INODE]
      /\ \A j \in Inode : j # i => u[j] = d.inode[j]
      /\ u[i].block = d.inode[i].block /\ u[i].size = d.inode[i].size + 1
      /\ u[i].dir = d.inode[i].dir
  <2>1. PICK p \in INODE : p = d.inode[i]
    BY DiskFacts
  <2>2. PICK w : w = [p EXCEPT !.size = @ + 1]
    OBVIOUS
  <2>3. w \in INODE /\ w.block = p.block /\ w.size = p.size + 1 /\ w.dir = p.dir
    BY <2>2 DEF INODE
  <2>4. u = [d.inode EXCEPT ![i] = w]
    BY <1>1, <2>1, <2>2
  <2>5. d.inode \in [Inode -> INODE]
    BY DEF Disk
  <2> QED
    BY <2>1, <2>3, <2>4, <2>5
<1>3. PICK v : v = [d.data EXCEPT ![b][t] = x]
  OBVIOUS
<1>4. /\ v \in [Block -> [Slot -> Entry]]
      /\ \A c \in Block : c # b => v[c] = d.data[c]
      /\ \A s \in Slot : v[b][s] = IF s = t THEN x ELSE d.data[b][s]
  BY <1>3 DEF Disk
<1>5. PICK e : e = [d EXCEPT !.inode[i].size = @ + 1, !.data[b][t] = x]
  OBVIOUS
<1>6. e = [d EXCEPT !.inode = u, !.data = v]
  BY <1>1, <1>3, <1>5 DEF Disk
<1>7. e \in Disk
  BY <1>2, <1>4, <1>6 DEF Disk
<1>8. /\ e.inode = u /\ e.data = v /\ e.gd = d.gd
      /\ e.block_bitmap = d.block_bitmap /\ e.inode_bitmap = d.inode_bitmap
  BY <1>6 DEF Disk
<1> QED
  BY <1>2, <1>4, <1>5, <1>7, <1>8 DEF Wrote

\* An entry in the last block.
LEMMA InsertFits ==
  ASSUME NEW d \in Disk, NEW D \in InUse(d), BlocksAgree(d), BlockCounts(d), Shape(d, D),
         NEW x \in Entry, NEW b, b = Last(d.inode[D].block),
         NEW t, t = Level(d.inode[D]), t # EntriesPerBlock,
         NEW e, Wrote(d, e, D, b, t, x)
  PROVE  /\ BlocksAgree(e) /\ BlockCounts(e)
         /\ OthersSame(d, e, D) /\ SameInodes(d, e)
         /\ e.inode[D].block = d.inode[D].block
         /\ Added(d, e, D, x, Len(d.inode[D].block), t)
<1>0. /\ EntriesPerBlock \in Nat /\ EntriesPerBlock >= 3
      /\ D \in Inode /\ D \in InUse(d)
  BY Constants DEF InUse
<1>1. PICK q \in Seq(Block), z \in Nat, n \in Nat :
        q = d.inode[D].block /\ z = d.inode[D].size /\ n = Len(q)
  BY <1>0, DiskFacts
<1>2. /\ n \in Nat \ {0} /\ t \in 1 .. EntriesPerBlock /\ t \in Nat
      /\ t < EntriesPerBlock /\ z >= 2
      /\ t = z - (n - 1) * EntriesPerBlock /\ t \in Slot
  <2>1. n >= 1 /\ t \in 1 .. EntriesPerBlock /\ z >= 2
    BY <1>1 DEF Shape
  <2>2. t = z - (n - 1) * EntriesPerBlock
    BY <1>1 DEF Level
  <2> QED
    BY <1>0, <2>1, <2>2 DEF Slot
<1>3. b = q[n] /\ b \in Block
  BY <1>1, <1>2 DEF Last
<1>6. /\ e.block_bitmap = d.block_bitmap /\ e.inode_bitmap = d.inode_bitmap
      /\ e.gd = d.gd
      /\ \A i \in Inode : i # D => e.inode[i] = d.inode[i]
      /\ e.inode[D].block = q /\ e.inode[D].size = z + 1 /\ e.inode[D].dir = d.inode[D].dir
      /\ \A c \in Block : c # b => e.data[c] = d.data[c]
      /\ \A s \in Slot : e.data[b][s] = IF s = t THEN x ELSE d.data[b][s]
  BY <1>0, <1>1 DEF Wrote
<1>8. InUse(e) = InUse(d)
  BY <1>6 DEF InUse
<1>9. /\ \A i \in Inode, k \in Nat : Own(e, i, k) <=> Own(d, i, k)
      /\ \A i \in Inode, k \in Nat : Own(d, i, k) => Blk(e, i, k) = Blk(d, i, k)
  BY <1>1, <1>6, <1>8 DEF Own, Blk
<1>10. BlocksAgree(e)
  BY <1>6, <1>9, OwnSame
<1>11. BlockCounts(e)
  BY <1>6 DEF BlockCounts, FreeBlocks
<1>12. Own(d, D, n) /\ Blk(d, D, n) = b
  BY <1>0, <1>1, <1>2, <1>3 DEF Own, Blk
<1>13. OthersSame(d, e, D)
  <2> SUFFICES ASSUME NEW i \in InUse(d), i # D PROVE Same(d, e, i)
    BY DEF OthersSame
  <2>1. i \in Inode
    BY DEF InUse
  <2>2. ASSUME NEW k \in 1 .. Len(d.inode[i].block)
        PROVE  e.data[Blk(d, i, k)] = d.data[Blk(d, i, k)]
    <3>1. Own(d, i, k) /\ k \in Nat /\ Blk(d, i, k) \in Block
      BY <2>1, DiskFacts DEF Own, Blk
    <3>2. Blk(d, i, k) # b
      BY <1>0, <1>1, <1>12, <2>1, <3>1 DEF BlocksAgree
    <3> QED
      BY <1>6, <3>1, <3>2
  <2> QED
    BY <1>6, <2>1, <2>2 DEF Same
<1>14. Level(e.inode[D]) = t + 1
  <2>1. z + 1 - (n - 1) * EntriesPerBlock = t + 1
    BY <1>2, Sizes
  <2>2. e.inode[D].size = z + 1 /\ Len(e.inode[D].block) = n
    BY <1>1, <1>6
  <2>3. Level(e.inode[D]) = (z + 1) - (n - 1) * EntriesPerBlock
    BY <2>2, ZenonT(60) DEF Level
  <2> QED
    BY <1>0, <1>2, <2>1, <2>3
<1>15. /\ ~Has(d, D, n, t)
       /\ \A k \in Nat, s \in Slot :
            Has(e, D, k, s) <=> Has(d, D, k, s) \/ (k = n /\ s = t)
  <2>1. /\ Len(d.inode[D].block) = n /\ Len(e.inode[D].block) = n
        /\ Level(d.inode[D]) = t /\ Level(e.inode[D]) = t + 1
    BY <1>1, <1>6, <1>14
  <2>2. ~Has(d, D, n, t)
    BY <1>2, <2>1 DEF Has
  <2>3. ASSUME NEW k \in Nat, NEW s \in Slot
        PROVE  Has(e, D, k, s) <=> Has(d, D, k, s) \/ (k = n /\ s = t)
    <3>1. s \in Nat /\ (s < t + 1 <=> s < t \/ s = t)
      BY <1>0, <1>2 DEF Slot
    <3>2. k \in 1 .. n => (k < n <=> k # n)
      BY <1>2
    <3>3. n \in 1 .. n
      BY <1>2
    <3> QED
      BY <2>1, <3>1, <3>2, <3>3 DEF Has
  <2> QED
    BY <2>2, <2>3
<1>16. \A k \in 1 .. n : k # n => Blk(d, D, k) # b /\ Blk(d, D, k) \in Block
  <2> SUFFICES ASSUME NEW k \in 1 .. n, k # n PROVE Blk(d, D, k) # b /\ Blk(d, D, k) \in Block
    OBVIOUS
  <2>1. Own(d, D, k) /\ k \in Nat
    BY <1>0, <1>1 DEF Own
  <2>2. Blk(d, D, k) \in Block
    BY <1>1 DEF Blk
  <2> QED
    BY <1>0, <1>1, <1>12, <2>1, <2>2 DEF BlocksAgree
<1>17. \A k \in 1 .. n, s \in Slot :
         Ent(e, D, k, s) = IF k = n /\ s = t THEN x ELSE Ent(d, D, k, s)
  <2> SUFFICES ASSUME NEW k \in 1 .. n, NEW s \in Slot
               PROVE  Ent(e, D, k, s) = IF k = n /\ s = t THEN x ELSE Ent(d, D, k, s)
    OBVIOUS
  <2>1. Blk(e, D, k) = Blk(d, D, k)
    BY <1>1, <1>6 DEF Blk
  <2> QED
    BY <1>6, <1>12, <1>16, <2>1 DEF Ent
<1>18. \A k \in Nat, s \in Slot : Has(d, D, k, s) => Ent(e, D, k, s) = Ent(d, D, k, s)
  BY <1>1, <1>15, <1>17 DEF Has
<1>19. Shape(e, D)
  <2>1. \A k \in 1 .. n, s \in Slot : ~Has(e, D, k, s) => Ent(e, D, k, s).name = ""
    <3> SUFFICES ASSUME NEW k \in 1 .. n, NEW s \in Slot, ~Has(e, D, k, s)
                 PROVE  Ent(e, D, k, s).name = ""
      OBVIOUS
    <3>1. k \in Nat
      BY <1>2
    <3>2. ~Has(d, D, k, s) /\ ~(k = n /\ s = t)
      BY <1>15, <3>1
    <3>3. Ent(d, D, k, s).name = ""
      BY <1>1, <3>2 DEF Shape
    <3> QED
      BY <1>17, <3>2, <3>3
  <2>2. t + 1 \in 1 .. EntriesPerBlock /\ z + 1 \in Nat /\ z + 1 >= 2
    BY <1>0, <1>2
  <2> QED
    BY <1>1, <1>2, <1>6, <1>14, <2>1, <2>2 DEF Shape
<1>20. Added(d, e, D, x, n, t)
  BY <1>1, <1>2, <1>15, <1>17, <1>18, <1>19 DEF Added
<1> QED
  BY <1>1, <1>6, <1>10, <1>11, <1>13, <1>20 DEF SameInodes

LEMMA SameTrans ==
  ASSUME NEW d, NEW e, NEW f, NEW i, Same(d, e, i), Same(e, f, i)
  PROVE  Same(d, f, i)
<1>1. d.inode[i] = e.inode[i] /\ f.inode[i] = d.inode[i]
  BY DEF Same
<1>2. \A k \in 1 .. Len(d.inode[i].block) :
        /\ Blk(d, i, k) = Blk(e, i, k)
        /\ f.data[Blk(d, i, k)] = d.data[Blk(d, i, k)]
  BY <1>1 DEF Same, Blk
<1> QED
  BY <1>1, <1>2 DEF Same

\* Inode i has got block b, which its size counts if it is a directory's.
Got(d, e, i, b) ==
  /\ e.block_bitmap = d.block_bitmap /\ e.inode_bitmap = d.inode_bitmap
  /\ e.gd = d.gd /\ e.data = d.data
  /\ \A j \in Inode : j # i => e.inode[j] = d.inode[j]
  /\ e.inode[i].block = Append(d.inode[i].block, b)
  /\ e.inode[i].size = IF d.inode[i].dir THEN d.inode[i].size + 1 ELSE d.inode[i].size
  /\ e.inode[i].dir = d.inode[i].dir

LEMMA SetInodeBlock ==
  ASSUME NEW d \in Disk, NEW i \in Inode, NEW b \in Block
  PROVE  /\ set_inode_block(d, i, b) \in Disk
         /\ Got(d, set_inode_block(d, i, b), i, b)
<1>1. PICK p \in INODE : p = d.inode[i]
  BY DiskFacts
<1>2. d.inode \in [Inode -> INODE]
  BY DEF Disk
<1>3. PICK y : y = [p EXCEPT !.block = Append(@, b)]
  OBVIOUS
<1>4. y \in INODE /\ y.block = Append(p.block, b) /\ y.size = p.size /\ y.dir = p.dir
  <2>1. p.block \in Seq(Block)
    BY DEF INODE
  <2>2. PICK q : q = Append(p.block, b)
    OBVIOUS
  <2>3. q \in Seq(Block)
    BY <2>1, <2>2
  <2>4. y = [p EXCEPT !.block = q]
    BY <1>3, <2>2
  <2> QED
    BY <2>2, <2>3, <2>4 DEF INODE
<1>5. PICK w : w = [y EXCEPT !.size = IF p.dir THEN @ + 1 ELSE @]
  OBVIOUS
<1>6. /\ w \in INODE /\ w.block = y.block /\ w.dir = y.dir
      /\ w.size = IF p.dir THEN y.size + 1 ELSE y.size
  <2>1. (IF p.dir THEN y.size + 1 ELSE y.size) \in Nat
    BY <1>4 DEF INODE
  <2> QED
    BY <1>4, <1>5, <2>1 DEF INODE
<1>7. PICK u : u = [d.inode EXCEPT ![i] = y]
  OBVIOUS
<1>8. PICK v : v = [u EXCEPT ![i] = w]
  OBVIOUS
<1>9. /\ u \in [Inode -> INODE] /\ u[i] = y
      /\ v \in [Inode -> INODE] /\ v[i] = w
      /\ \A j \in Inode : j # i => v[j] = d.inode[j]
  BY <1>2, <1>4, <1>6, <1>7, <1>8
<1>10. PICK f : f = [d EXCEPT !.inode = u]
  OBVIOUS
<1>11. PICK e : e = [f EXCEPT !.inode = v]
  OBVIOUS
<1>12. /\ f.inode = u /\ f \in Disk
       /\ e.inode = v /\ e.data = d.data /\ e.gd = d.gd
       /\ e.block_bitmap = d.block_bitmap /\ e.inode_bitmap = d.inode_bitmap
       /\ e \in Disk
  BY <1>9, <1>10, <1>11 DEF Disk
<1>13. set_inode_block(d, i, b) = e
  <2>1. PICK h : h = [d EXCEPT !.inode[i].block = Append(@, b)]
    OBVIOUS
  <2>2. h = f
    BY <1>1, <1>2, <1>3, <1>7, <1>10, <2>1
  <2>3. set_inode_block(d, i, b) =
          [h EXCEPT !.inode[i].size = IF d.inode[i].dir THEN @ + 1 ELSE @]
    BY <2>1 DEF set_inode_block
  <2> QED
    BY <1>1, <1>5, <1>8, <1>9, <1>11, <1>12, <2>2, <2>3
<1> QED
  BY <1>1, <1>4, <1>6, <1>9, <1>12, <1>13 DEF Got

\* Slot t of block b is x.
SlotSet(d, e, b, t, x) ==
  /\ e.block_bitmap = d.block_bitmap /\ e.inode_bitmap = d.inode_bitmap
  /\ e.gd = d.gd /\ e.inode = d.inode
  /\ \A c \in Block : c # b => e.data[c] = d.data[c]
  /\ \A s \in Slot : e.data[b][s] = IF s = t THEN x ELSE d.data[b][s]

LEMMA WriteSlot ==
  ASSUME NEW d \in Disk, NEW b \in Block, NEW t \in Slot, NEW x \in Entry
  PROVE  /\ [d EXCEPT !.data[b][t] = x] \in Disk
         /\ SlotSet(d, [d EXCEPT !.data[b][t] = x], b, t, x)
<1>3. PICK v : v = [d.data EXCEPT ![b][t] = x]
  OBVIOUS
<1>4. /\ v \in [Block -> [Slot -> Entry]]
      /\ \A c \in Block : c # b => v[c] = d.data[c]
      /\ \A s \in Slot : v[b][s] = IF s = t THEN x ELSE d.data[b][s]
  BY <1>3 DEF Disk
<1>5. PICK e : e = [d EXCEPT !.data[b][t] = x]
  OBVIOUS
<1>6. e = [d EXCEPT !.data = v]
  BY <1>3, <1>5 DEF Disk
<1>7. /\ e.inode = d.inode /\ e.data = v /\ e.gd = d.gd
      /\ e.block_bitmap = d.block_bitmap /\ e.inode_bitmap = d.inode_bitmap
      /\ e \in Disk
  BY <1>4, <1>6 DEF Disk
<1> QED
  BY <1>4, <1>5, <1>7 DEF SlotSet

\* Writing into a block of i leaves the others alone.
LEMMA WriteOwn ==
  ASSUME NEW d \in Disk, NEW e, BlocksAgree(d), NEW i \in Inode, NEW k \in Nat,
         Own(d, i, k), NEW t, NEW x, SlotSet(d, e, Blk(d, i, k), t, x)
  PROVE  /\ BlocksAgree(e) /\ OthersSame(d, e, i)
         /\ BlockCounts(d) => BlockCounts(e)
         /\ InUse(e) = InUse(d)
<1>1. InUse(e) = InUse(d)
  BY DEF SlotSet, InUse
<1>2. /\ \A j \in Inode, l \in Nat : Own(e, j, l) <=> Own(d, j, l)
      /\ \A j \in Inode, l \in Nat : Own(d, j, l) => Blk(e, j, l) = Blk(d, j, l)
  BY <1>1 DEF SlotSet, Own, Blk
<1>3. BlocksAgree(e)
  <2>1. e.block_bitmap = d.block_bitmap
    BY DEF SlotSet
  <2> QED
    BY <1>2, <2>1, OwnSame
<1>4. BlockCounts(d) => BlockCounts(e)
  BY DEF SlotSet, BlockCounts, FreeBlocks
<1>5. OthersSame(d, e, i)
  <2> SUFFICES ASSUME NEW j \in InUse(d), j # i PROVE Same(d, e, j)
    BY DEF OthersSame
  <2>1. j \in Inode
    BY DEF InUse
  <2>2. ASSUME NEW l \in 1 .. Len(d.inode[j].block)
        PROVE  e.data[Blk(d, j, l)] = d.data[Blk(d, j, l)]
    <3>1. Own(d, j, l) /\ l \in Nat /\ Blk(d, j, l) \in Block
      BY <2>1, DiskFacts DEF Own, Blk
    <3>2. Blk(d, j, l) # Blk(d, i, k)
      BY <2>1, <3>1 DEF BlocksAgree
    <3> QED
      BY <3>1, <3>2 DEF SlotSet
  <2> QED
    BY <2>1, <2>2 DEF Same, SlotSet
<1> QED
  BY <1>1, <1>3, <1>4, <1>5

\* A block that was taken goes to inode i.
LEMMA Grow ==
  ASSUME NEW d \in Disk, BlocksAgree(d), NEW i \in InUse(d), NEW b,
         NEW f, BlockCounts(f), Took(d, f, b), NEW e, Got(f, e, i, b),
         NEW n, n = Len(d.inode[i].block)
  PROVE  /\ BlocksAgree(e) /\ BlockCounts(e) /\ InUse(e) = InUse(d)
         /\ OthersSame(d, e, i) /\ SameInodes(d, e)
         /\ Len(e.inode[i].block) = n + 1
         /\ Blk(e, i, n + 1) = b /\ \A s \in Slot : e.data[b][s] = NoEntry
         /\ \A k \in 1 .. n : /\ Blk(e, i, k) = Blk(d, i, k)
                              /\ e.data[Blk(d, i, k)] = d.data[Blk(d, i, k)]
         /\ e.inode[i].size = IF d.inode[i].dir THEN d.inode[i].size + 1
                              ELSE d.inode[i].size
<1>0. i \in Inode
  BY DEF InUse
<1>1. PICK q \in Seq(Block) : q = d.inode[i].block
  BY <1>0, DiskFacts
<1>2. /\ b \in Block /\ b \notin MetadataBlocks /\ b \notin d.block_bitmap
      /\ e.block_bitmap = d.block_bitmap \cup {b} /\ e.inode_bitmap = d.inode_bitmap
      /\ \A c \in Block : e.data[c] = IF c = b THEN Zeroed ELSE d.data[c]
      /\ \A g \in Group : e.gd[g].free_inodes = d.gd[g].free_inodes
      /\ \A j \in Inode : j # i => e.inode[j] = d.inode[j]
      /\ e.inode[i].block = Append(q, b)
      /\ e.inode[i].size = IF d.inode[i].dir THEN d.inode[i].size + 1
                           ELSE d.inode[i].size
      /\ e.inode[i].dir = d.inode[i].dir
  BY <1>1 DEF Took, Got
<1>3. InUse(e) = InUse(d)
  BY <1>2 DEF InUse
<1>4. /\ n \in Nat /\ Len(e.inode[i].block) = n + 1 /\ Blk(e, i, n + 1) = b
      /\ \A k \in 1 .. n : Blk(e, i, k) = Blk(d, i, k)
  BY <1>1, <1>2 DEF Blk
<1>5. \A j \in Inode, k \in Nat : Own(e, j, k) <=> Own(d, j, k) \/ (j = i /\ k = n + 1)
  BY <1>2, <1>3, <1>4 DEF Own
<1>6. \A j \in Inode, k \in Nat : Own(d, j, k) => Blk(e, j, k) = Blk(d, j, k)
  <2> SUFFICES ASSUME NEW j \in Inode, NEW k \in Nat, Own(d, j, k)
               PROVE  Blk(e, j, k) = Blk(d, j, k)
    OBVIOUS
  <2>1. CASE j = i
    BY <1>4, <2>1 DEF Own
  <2>2. CASE j # i
    BY <1>2, <2>2 DEF Blk
  <2> QED
    BY <2>1, <2>2
<1>7. BlocksAgree(e)
  <2>1. n + 1 \in Nat
    BY <1>4
  <2> QED
    BY <1>0, <1>2, <1>4, <1>5, <1>6, <2>1, OwnGrows
<1>8. BlockCounts(e)
  BY DEF Got, BlockCounts, FreeBlocks
<1>9. \A j \in Inode, k \in Nat :
        Own(d, j, k) => Blk(d, j, k) \in Block /\ Blk(d, j, k) # b
  <2> SUFFICES ASSUME NEW j \in Inode, NEW k \in Nat, Own(d, j, k)
               PROVE  Blk(d, j, k) \in Block /\ Blk(d, j, k) # b
    OBVIOUS
  <2>1. Blk(d, j, k) \in d.block_bitmap
    BY DEF BlocksAgree
  <2> QED
    BY <1>2, <2>1, DiskFacts
<1>10. OthersSame(d, e, i)
  <2> SUFFICES ASSUME NEW j \in InUse(d), j # i PROVE Same(d, e, j)
    BY DEF OthersSame
  <2>1. j \in Inode
    BY DEF InUse
  <2>2. ASSUME NEW l \in 1 .. Len(d.inode[j].block)
        PROVE  e.data[Blk(d, j, l)] = d.data[Blk(d, j, l)]
    <3>1. Own(d, j, l) /\ l \in Nat
      BY <2>1, DiskFacts DEF Own
    <3> QED
      BY <1>2, <1>9, <2>1, <3>1
  <2> QED
    BY <1>2, <2>1, <2>2 DEF Same
<1>11. \A k \in 1 .. n : e.data[Blk(d, i, k)] = d.data[Blk(d, i, k)]
  <2> SUFFICES ASSUME NEW k \in 1 .. n
               PROVE  e.data[Blk(d, i, k)] = d.data[Blk(d, i, k)]
    OBVIOUS
  <2>1. Own(d, i, k) /\ k \in Nat
    BY <1>0, <1>4 DEF Own
  <2> QED
    BY <1>0, <1>2, <1>9, <2>1
<1>12. \A s \in Slot : e.data[b][s] = NoEntry
  BY <1>2, ZeroedType
<1>13. SameInodes(d, e)
  BY <1>2 DEF SameInodes
<1> QED
  BY <1>2, <1>3, <1>4, <1>7, <1>8, <1>10, <1>11, <1>12, <1>13

\* An entry in a new block.
LEMMA InsertNew ==
  ASSUME NEW d \in Disk, NEW D \in InUse(d), BlocksAgree(d), Shape(d, D),
         d.inode[D].dir, NEW x \in Entry, Level(d.inode[D]) = EntriesPerBlock,
         NEW b, NEW f, BlockCounts(f), Took(d, f, b),
         NEW g \in Disk, Got(f, g, D, b), NEW e, SlotSet(g, e, b, 0, x)
  PROVE  /\ BlocksAgree(e) /\ BlockCounts(e)
         /\ OthersSame(d, e, D) /\ SameInodes(d, e)
         /\ Blk(e, D, 1) = Blk(d, D, 1)
         /\ Added(d, e, D, x, Len(d.inode[D].block) + 1, 0)
<1>0. /\ EntriesPerBlock \in Nat /\ EntriesPerBlock >= 3 /\ 0 \in Slot /\ Slot \subseteq Nat
      /\ \A s \in Slot : s < EntriesPerBlock /\ (s < 1 <=> s = 0)
      /\ D \in Inode
  BY Constants DEF InUse, Slot
<1>1. PICK q \in Seq(Block), z \in Nat, n \in Nat :
        q = d.inode[D].block /\ z = d.inode[D].size /\ n = Len(q)
  BY <1>0, DiskFacts
<1>2. n >= 1 /\ z >= 2 /\ n + 1 \in Nat
  <2>1. Len(d.inode[D].block) >= 1 /\ d.inode[D].size >= 2
    BY ZenonT(60) DEF Shape
  <2> QED
    BY <1>1, <2>1
<1>3. /\ BlocksAgree(g) /\ BlockCounts(g) /\ InUse(g) = InUse(d)
      /\ OthersSame(d, g, D) /\ SameInodes(d, g)
      /\ Len(g.inode[D].block) = n + 1
      /\ Blk(g, D, n + 1) = b /\ \A s \in Slot : g.data[b][s] = NoEntry
      /\ \A k \in 1 .. n : /\ Blk(g, D, k) = Blk(d, D, k)
                           /\ g.data[Blk(d, D, k)] = d.data[Blk(d, D, k)]
      /\ g.inode[D].size = z + 1
  <2>1. n = Len(d.inode[D].block)
    BY <1>1
  <2> QED
    BY <1>1, <2>1, Grow
<1>4. Own(g, D, n + 1)
  BY <1>2, <1>3 DEF Own
<1>5. /\ BlocksAgree(e) /\ OthersSame(g, e, D) /\ BlockCounts(e) /\ InUse(e) = InUse(d)
  <2>1. SlotSet(g, e, Blk(g, D, n + 1), 0, x)
    BY <1>3
  <2> QED
    BY <1>0, <1>2, <1>3, <1>4, <2>1, WriteOwn
<1>6. OthersSame(d, e, D)
  BY <1>3, <1>5, SameTrans DEF OthersSame
<1>7. /\ e.inode = g.inode /\ Len(e.inode[D].block) = n + 1
      /\ \A k \in Nat : Blk(e, D, k) = Blk(g, D, k)
      /\ \A s \in Slot : e.data[b][s] = IF s = 0 THEN x ELSE NoEntry
      /\ e.inode[D].size = z + 1
  BY <1>3 DEF SlotSet, Blk
<1>8. SameInodes(d, e)
  BY <1>3 DEF SameInodes, SlotSet
<1>9. Level(e.inode[D]) = 1
  <2>1. EntriesPerBlock = z - (n - 1) * EntriesPerBlock
    BY <1>1 DEF Level
  <2>2. z + 1 - ((n + 1) - 1) * EntriesPerBlock = 1
    <3>1. PICK t \in 1 .. EntriesPerBlock : t = EntriesPerBlock
      BY <1>0
    <3> QED
      BY <1>1, <1>2, <2>1, <3>1, Sizes, SMTT(60)
  <2>3. Level(e.inode[D]) = (z + 1) - ((n + 1) - 1) * EntriesPerBlock
    BY <1>7, ZenonT(60) DEF Level
  <2> QED
    BY <1>0, <1>2, <2>2, <2>3
<1>10. \A k \in Nat, s \in Slot : Has(d, D, k, s) <=> k \in 1 .. n
  BY <1>0, <1>1 DEF Has
<1>11. \A k \in Nat, s \in Slot :
         Has(e, D, k, s) <=> k \in 1 .. n \/ (k = n + 1 /\ s = 0)
  <2> SUFFICES ASSUME NEW k \in Nat, NEW s \in Slot
               PROVE  Has(e, D, k, s) <=> k \in 1 .. n \/ (k = n + 1 /\ s = 0)
    OBVIOUS
  <2>1. k \in 1 .. n + 1 => (k < n + 1 <=> k \in 1 .. n) /\ (k \in 1 .. n \/ k = n + 1)
    BY <1>1
  <2>2. (k = n + 1 \/ k \in 1 .. n) => k \in 1 .. n + 1
    BY <1>1
  <2>3. s < 1 <=> s = 0
    BY <1>0
  <2>4. ~ (n + 1 \in 1 .. n)
    BY <1>1, SMTT(60)
  <2> QED
    BY <1>7, <1>9, <2>1, <2>2, <2>3, <2>4 DEF Has
<1>12. \A k \in 1 .. n : Blk(d, D, k) # b /\ Blk(d, D, k) \in Block
  <2> SUFFICES ASSUME NEW k \in 1 .. n PROVE Blk(d, D, k) # b /\ Blk(d, D, k) \in Block
    OBVIOUS
  <2>1. Own(d, D, k) /\ k \in Nat
    BY <1>1 DEF Own
  <2>2. Blk(d, D, k) \in d.block_bitmap
    BY <1>0, <2>1 DEF BlocksAgree
  <2> QED
    BY <2>2, DiskFacts DEF Took
<1>13. \A k \in 1 .. n, s \in Slot : Ent(e, D, k, s) = Ent(d, D, k, s)
  <2> SUFFICES ASSUME NEW k \in 1 .. n, NEW s \in Slot
               PROVE  Ent(e, D, k, s) = Ent(d, D, k, s)
    OBVIOUS
  <2>1. k \in Nat
    BY <1>1
  <2>2. Blk(e, D, k) = Blk(d, D, k)
    BY <1>3, <1>7, <2>1
  <2>3. e.data[Blk(d, D, k)] = d.data[Blk(d, D, k)]
    BY <1>3, <1>12 DEF SlotSet
  <2> QED
    BY <2>2, <2>3 DEF Ent
<1>14. \A s \in Slot : Ent(e, D, n + 1, s) = IF s = 0 THEN x ELSE NoEntry
  BY <1>2, <1>3, <1>7 DEF Ent
<1>15. Shape(e, D)
  <2>1. 1 \in 1 .. EntriesPerBlock /\ n + 1 >= 1 /\ z + 1 >= 2
    BY <1>0, <1>2
  <2>2. ASSUME NEW k \in 1 .. n + 1, NEW s \in Slot, ~Has(e, D, k, s)
        PROVE  Ent(e, D, k, s).name = ""
    <3>1. k \in Nat /\ (k \in 1 .. n \/ k = n + 1)
      BY <1>1
    <3>2. k = n + 1 /\ s # 0
      BY <1>11, <2>2, <3>1
    <3>3. NoEntry.name = ""
      BY DEF NoEntry
    <3> QED
      BY <1>14, <3>2, <3>3
  <2> QED
    BY <1>7, <1>9, <2>1, <2>2 DEF Shape
<1>16. ~Has(d, D, n + 1, 0)
  <2>1. ~(n + 1 \in 1 .. n)
    BY <1>1
  <2> QED
    BY <1>0, <1>2, <1>10, <2>1
<1>17. Added(d, e, D, x, n + 1, 0)
  BY <1>0, <1>2, <1>10, <1>11, <1>13, <1>14, <1>15, <1>16 DEF Added
<1>18. Blk(e, D, 1) = Blk(d, D, 1)
  BY <1>1, <1>2, <1>3, <1>7
<1> QED
  BY <1>1, <1>5, <1>6, <1>8, <1>17, <1>18

\* What insert_entry does to a directory D.
LEMMA InsertEntry ==
  ASSUME NEW d \in Disk, NEW D \in InUse(d), BlocksAgree(d), BlockCounts(d),
         Shape(d, D), d.inode[D].dir, NEW x \in Entry,
         NEW r, r = insert_entry(d, D, x)
  PROVE  /\ r.disk \in Disk /\ r.ok \in BOOLEAN
         /\ ~r.ok => r.disk = d /\ \A g \in Group : FreeBlocks(d, g) = {}
         /\ r.ok => /\ BlocksAgree(r.disk) /\ BlockCounts(r.disk)
                    /\ OthersSame(d, r.disk, D) /\ SameInodes(d, r.disk)
                    /\ Blk(r.disk, D, 1) = Blk(d, D, 1)
                    /\ \E K \in Nat, S \in Slot : Added(d, r.disk, D, x, K, S)
<1>0. /\ EntriesPerBlock \in Nat /\ EntriesPerBlock >= 3 /\ 0 \in Slot /\ D \in Inode
  BY Constants DEF InUse, Slot
<1>1. PICK q \in Seq(Block), z \in Nat, n \in Nat :
        q = d.inode[D].block /\ z = d.inode[D].size /\ n = Len(q)
  BY <1>0, DiskFacts
<1>2. PICK t : t = Level(d.inode[D])
  OBVIOUS
<1>3. /\ n \in Nat \ {0} /\ t \in 1 .. EntriesPerBlock
      /\ t = z - (n - 1) * EntriesPerBlock
  <2>1. Len(d.inode[D].block) >= 1 /\ t \in 1 .. EntriesPerBlock
    BY <1>2, ZenonT(60) DEF Shape
  <2>2. t = z - (n - 1) * EntriesPerBlock
    BY <1>1, <1>2 DEF Level
  <2> QED
    BY <1>1, <2>1, <2>2
<1>4. z % EntriesPerBlock = IF t = EntriesPerBlock THEN 0 ELSE t
  <2>1. z \in Nat /\ n \in Nat \ {0} /\ t \in 1 .. EntriesPerBlock
    BY <1>1, <1>3
  <2>2. Fits(z, n, t)
    BY <1>3 DEF Fits
  <2>3. /\ t = EntriesPerBlock => z % EntriesPerBlock = 0
        /\ t # EntriesPerBlock => z % EntriesPerBlock = t
    BY <2>1, <2>2, SizeOver
  <2> QED
    BY <2>3
<1>5. PICK last : last = Last(d.inode[D].block)
  OBVIOUS
<1>6. last = q[n] /\ last \in Block
  BY <1>1, <1>3, <1>5 DEF Last
<1>7. PICK new : new = AllocFrom(d, BlockGroup(last))
  OBVIOUS
<1>8. PICK b : b = WholeDisk(new.group, new.number)
  OBVIOUS
<1>9. CASE t # EntriesPerBlock
  <2>1. t \in Slot /\ z % EntriesPerBlock = t /\ t # 0
    BY <1>0, <1>3, <1>4, <1>9 DEF Slot
  <2>2. PICK e : e = [d EXCEPT !.inode[D].size = @ + 1, !.data[last][t] = x]
    OBVIOUS
  <2>3. e \in Disk /\ Wrote(d, e, D, last, t, x)
    BY <1>0, <1>6, <2>1, <2>2, WriteEntry
  <2>4. r.disk = e /\ r.ok = TRUE
    BY <1>1, <1>5, <2>1, <2>2 DEF insert_entry
  <2>5. /\ BlocksAgree(e) /\ BlockCounts(e)
        /\ OthersSame(d, e, D) /\ SameInodes(d, e)
        /\ e.inode[D].block = d.inode[D].block
        /\ Added(d, e, D, x, Len(d.inode[D].block), t)
    BY <1>2, <1>5, <1>9, <2>3, InsertFits
  <2>6. Blk(e, D, 1) = Blk(d, D, 1)
    BY <2>5 DEF Blk
  <2> QED
    BY <1>1, <2>1, <2>3, <2>4, <2>5, <2>6
<1>10. CASE t = EntriesPerBlock
  <2>1. z % EntriesPerBlock = 0
    BY <1>4, <1>10
  <2>2. /\ new.group \in Group /\ new.number \in Nat /\ new.disk \in Disk
        /\ new.number = 0 => new.disk = d /\ \A h \in Group : FreeBlocks(d, h) = {}
        /\ new.number # 0 => /\ BlockCounts(new.disk)
                             /\ Took(d, new.disk, WholeDisk(new.group, new.number))
    <3>1. BlockGroup(last) \in Group
      BY <1>6, BlockNumber
    <3> QED
      BY <1>7, <3>1, AllocFacts
  <2>3. CASE new.number = 0
    <3>1. r.disk = d /\ r.ok = FALSE
      BY <1>1, <1>5, <1>7, <2>1, <2>3 DEF insert_entry
    <3> QED
      BY <2>2, <2>3, <3>1
  <2>4. CASE new.number # 0
    <3>1. PICK f : f = new.disk
      OBVIOUS
    <3>2. f \in Disk /\ BlockCounts(f) /\ Took(d, f, b) /\ b \in Block
      BY <1>8, <2>2, <2>4, <3>1 DEF Took
    <3>3. PICK g : g = set_inode_block(f, D, b)
      OBVIOUS
    <3>4. g \in Disk /\ Got(f, g, D, b)
      BY <1>0, <3>2, <3>3, SetInodeBlock
    <3>5. PICK e : e = [g EXCEPT !.data[b][0] = x]
      OBVIOUS
    <3>6. e \in Disk /\ SlotSet(g, e, b, 0, x)
      BY <1>0, <3>2, <3>4, <3>5, WriteSlot
    <3>7. r.disk = e /\ r.ok = TRUE
      BY <1>1, <1>5, <1>7, <1>8, <2>1, <2>4, <3>1, <3>3, <3>5 DEF insert_entry
    <3>8. /\ BlocksAgree(e) /\ BlockCounts(e)
          /\ OthersSame(d, e, D) /\ SameInodes(d, e)
          /\ Blk(e, D, 1) = Blk(d, D, 1)
          /\ Added(d, e, D, x, Len(d.inode[D].block) + 1, 0)
      BY <1>2, <1>10, <3>2, <3>4, <3>6, InsertNew
    <3>9. Len(d.inode[D].block) + 1 \in Nat
      BY <1>1
    <3> QED
      BY <1>0, <3>6, <3>7, <3>8, <3>9
  <2> QED
    BY <2>3, <2>4
<1> QED
  BY <1>9, <1>10

-----------------------------------------------------------------------------
(* The tree of directories *)

LEMMA SameEntries ==
  ASSUME NEW d, NEW e, NEW i, Same(d, e, i)
  PROVE  /\ \A k \in Nat, s \in Slot :
              /\ Has(e, i, k, s) <=> Has(d, i, k, s)
              /\ Child(e, i, k, s) <=> Child(d, i, k, s)
              /\ Has(d, i, k, s) => Ent(e, i, k, s) = Ent(d, i, k, s)
         /\ Shape(d, i) => Shape(e, i)
<1>1. e.inode[i] = d.inode[i]
  BY DEF Same
<1>2. \A k, s : /\ Has(e, i, k, s) <=> Has(d, i, k, s)
                /\ Child(e, i, k, s) <=> Child(d, i, k, s)
  BY <1>1 DEF Has, Child
<1>3. \A k \in 1 .. Len(d.inode[i].block), s \in Slot :
        Ent(e, i, k, s) = Ent(d, i, k, s)
  <2>1. \A k : Blk(e, i, k) = Blk(d, i, k)
    BY <1>1 DEF Blk
  <2> QED
    BY <2>1 DEF Same, Ent
<1>4. \A k, s : Has(d, i, k, s) => k \in 1 .. Len(d.inode[i].block) /\ s \in Slot
  BY DEF Has
<1>5. Shape(d, i) => Shape(e, i)
  BY <1>1, <1>2, <1>3 DEF Shape
<1> QED
  BY <1>2, <1>3, <1>4, <1>5

LEMMA SameIsIn ==
  ASSUME NEW d, NEW e, NEW i, NEW up, Same(d, e, up)
  PROVE  IsIn(d, i, up) => IsIn(e, i, up)
BY SameEntries DEF IsIn, Child

\* All directories are as they were.
LEMMA DirectoriesSame ==
  ASSUME NEW d, NEW e, DirectoriesAgree(d), Directories(e) = Directories(d),
         ROOT \in Directories(d),
         \A i \in InUse(d) : i \in InUse(e),
         \A i \in Directories(d) : Same(d, e, i)
  PROVE  DirectoriesAgree(e)
<1>1. \A i \in Directories(d), k \in Nat, s \in Slot :
        /\ Has(e, i, k, s) <=> Has(d, i, k, s)
        /\ Child(e, i, k, s) <=> Child(d, i, k, s)
        /\ Has(d, i, k, s) => Ent(e, i, k, s) = Ent(d, i, k, s)
  BY SameEntries
<1>2. \A i \in Directories(d) : Shape(e, i)
  BY SameEntries DEF DirectoriesAgree
<1>3. \A i \in Directories(d), k \in Nat, s \in Slot :
        Child(d, i, k, s) => Has(d, i, k, s)
  BY DEF Child
<1>4. 0 \in Slot /\ 1 \in Slot
  BY Constants DEF Slot
<1>5. \A i \in Directories(e) : Filled(e, i)
  BY <1>1, <1>3, <1>4 DEF Filled, DirectoriesAgree
<1>6. EnteredOnce(e)
  BY <1>1, <1>3 DEF EnteredOnce, DirectoriesAgree
<1>7. \A i \in Directories(d) : Has(d, i, 1, 1) /\ Ent(d, i, 1, 1).inode \in Directories(d)
  BY DEF Filled, DirectoriesAgree
<1>8. \A i \in Directories(d) : Ent(e, i, 1, 1) = Ent(d, i, 1, 1)
  BY <1>1, <1>4, <1>7
<1>9. Rooted(e)
  <2>1. Ent(e, ROOT, 1, 1).inode = ROOT
    BY <1>8 DEF Rooted, DirectoriesAgree
  <2>2. ASSUME NEW i \in Directories(e), i # ROOT
        PROVE  IsIn(e, i, Ent(e, i, 1, 1).inode)
    <3>1. IsIn(d, i, Ent(d, i, 1, 1).inode)
      BY <2>2 DEF Rooted, DirectoriesAgree
    <3>2. Same(d, e, Ent(d, i, 1, 1).inode)
      BY <1>7
    <3> QED
      BY <1>8, <3>1, <3>2, SameIsIn
  <2> QED
    BY <2>1, <2>2 DEF Rooted
<1> QED
  BY <1>2, <1>5, <1>6, <1>9 DEF DirectoriesAgree

\* Entry x of a file, or of a new directory, has come to directory D.
LEMMA DirectoriesGrow ==
  ASSUME NEW d, NEW e, DirectoriesAgree(d), NEW D \in Directories(d),
         ROOT \in Directories(d), ROOT \in Inode,
         NEW x, NEW N, N = {} \/ N = {x.inode}, Directories(e) = Directories(d) \cup N,
         \A i \in InUse(d) : i \in InUse(e),
         \A i \in Directories(d) : i # D => Same(d, e, i),
         NEW K, NEW S, Added(d, e, D, x, K, S),
         x.name \in Name, x.inode \in InUse(e), x.inode # ROOT,
         \A i \in Directories(d), k \in Nat, s \in Slot :
           Child(d, i, k, s) => Ent(d, i, k, s).inode # x.inode,
         \A i \in N : /\ i \notin Directories(d) /\ Shape(e, i)
                      /\ Has(e, i, 1, 0) /\ Ent(e, i, 1, 0) = Named(i, ".")
                      /\ Has(e, i, 1, 1) /\ Ent(e, i, 1, 1) = Named(D, "..")
                      /\ \A k \in Nat, s \in Slot : ~Child(e, i, k, s)
  PROVE  DirectoriesAgree(e)
<1>0. 0 \in Slot /\ 1 \in Slot /\ Slot \subseteq Nat /\ K \in Nat /\ S \in Slot
  BY Constants DEF Slot, Added
<1>1. \A i \in Directories(d), k \in Nat, s \in Slot :
        /\ Has(e, i, k, s) <=> Has(d, i, k, s) \/ (i = D /\ k = K /\ s = S)
        /\ Has(d, i, k, s) => Ent(e, i, k, s) = Ent(d, i, k, s)
  <2> SUFFICES ASSUME NEW i \in Directories(d), NEW k \in Nat, NEW s \in Slot
               PROVE  /\ Has(e, i, k, s) <=> Has(d, i, k, s) \/ (i = D /\ k = K /\ s = S)
                      /\ Has(d, i, k, s) => Ent(e, i, k, s) = Ent(d, i, k, s)
    OBVIOUS
  <2>1. CASE i = D
    BY <2>1 DEF Added
  <2>2. CASE i # D
    BY <2>2, SameEntries
  <2> QED
    BY <2>1, <2>2
<1>2. Ent(e, D, K, S) = x /\ ~Has(d, D, K, S)
  BY DEF Added
<1>3. \A i \in Directories(d) :
        /\ Shape(d, i) /\ Has(d, i, 1, 0) /\ Ent(d, i, 1, 0) = Named(i, ".")
        /\ Has(d, i, 1, 1) /\ Ent(d, i, 1, 1).name = ".."
        /\ Ent(d, i, 1, 1).inode \in Directories(d)
        /\ \A k \in Nat, s \in Slot :
             Child(d, i, k, s) => /\ Ent(d, i, k, s).name \in Name
                                  /\ Ent(d, i, k, s).inode \in InUse(d)
                                  /\ Ent(d, i, k, s).inode # ROOT
  BY DEF DirectoriesAgree, Filled
<1>4. K > 1 \/ S > 1
  <2>1. Has(e, D, K, S)
    BY <1>0, <1>1
  <2>2. K \in 1 .. Len(e.inode[D].block)
    BY <2>1 DEF Has
  <2>3. K >= 1
    BY <1>0, <2>2
  <2>4. ~(K = 1 /\ S = 0) /\ ~(K = 1 /\ S = 1)
    BY <1>2, <1>3
  <2> QED
    BY <1>0, <2>3, <2>4
<1>5. \A i \in Directories(d), k \in Nat, s \in Slot :
        /\ Child(e, i, k, s) <=> Child(d, i, k, s) \/ (i = D /\ k = K /\ s = S)
        /\ Child(d, i, k, s) => Ent(e, i, k, s) = Ent(d, i, k, s)
  BY <1>1, <1>4 DEF Child
<1>6. \A i \in Directories(d) : Shape(e, i)
  <2> SUFFICES ASSUME NEW i \in Directories(d) PROVE Shape(e, i)
    OBVIOUS
  <2>1. i = D => Shape(e, i)
    BY DEF Added
  <2>2. i # D => Shape(e, i)
    BY <1>3, SameEntries
  <2> QED
    BY <2>1, <2>2
<1>7. \A i \in Directories(d) : Filled(e, i)
  <2> SUFFICES ASSUME NEW i \in Directories(d) PROVE Filled(e, i)
    OBVIOUS
  <2>1. /\ Has(e, i, 1, 0) /\ Ent(e, i, 1, 0) = Named(i, ".")
        /\ Has(e, i, 1, 1) /\ Ent(e, i, 1, 1).name = ".."
        /\ Ent(e, i, 1, 1).inode \in Directories(e)
    BY <1>0, <1>1, <1>3
  <2>2. ASSUME NEW k \in Nat, NEW s \in Slot, Child(e, i, k, s)
        PROVE  /\ Ent(e, i, k, s).name \in Name
               /\ Ent(e, i, k, s).inode \in InUse(e)
               /\ Ent(e, i, k, s).inode # ROOT
    <3>1. CASE Child(d, i, k, s)
      BY <1>3, <1>5, <3>1
    <3>2. CASE ~Child(d, i, k, s)
      <4>1. i = D /\ k = K /\ s = S
        BY <1>5, <2>2, <3>2
      <4> QED
        BY <1>2, <4>1
    <3> QED
      BY <3>1, <3>2
  <2> QED
    BY <2>1, <2>2 DEF Filled
<1>8. \A i \in N : Filled(e, i)
  BY DEF Filled, Named
<1>9. EnteredOnce(e)
  <2> SUFFICES ASSUME NEW i \in Directories(e), NEW j \in Directories(e),
                      NEW k \in Nat, NEW l \in Nat, NEW s \in Slot, NEW r \in Slot,
                      Child(e, i, k, s), Child(e, j, l, r),
                      Ent(e, i, k, s).inode = Ent(e, j, l, r).inode
               PROVE  i = j /\ k = l /\ s = r
    BY DEF EnteredOnce
  <2>1. i \in Directories(d) /\ j \in Directories(d)
    OBVIOUS
  <2>2. CASE Child(d, i, k, s) /\ Child(d, j, l, r)
    BY <1>5, <2>1, <2>2 DEF DirectoriesAgree, EnteredOnce
  <2>3. CASE ~Child(d, i, k, s)
    <3>1. i = D /\ k = K /\ s = S
      BY <1>5, <2>1, <2>3
    <3>2. Ent(e, j, l, r).inode = x.inode
      BY <1>2, <3>1
    <3>3. ~Child(d, j, l, r)
      BY <1>5, <2>1, <3>2
    <3> QED
      BY <1>5, <2>1, <3>1, <3>3
  <2>4. CASE ~Child(d, j, l, r)
    <3>1. j = D /\ l = K /\ r = S
      BY <1>5, <2>1, <2>4
    <3>2. Ent(e, i, k, s).inode = x.inode
      BY <1>2, <3>1
    <3>3. ~Child(d, i, k, s)
      BY <1>5, <2>1, <3>2
    <3> QED
      BY <1>5, <2>1, <3>1, <3>3
  <2> QED
    BY <2>2, <2>3, <2>4
<1>10. Rooted(e)
  <2>1. Ent(e, ROOT, 1, 1).inode = ROOT
    <3>1. Ent(e, ROOT, 1, 1) = Ent(d, ROOT, 1, 1)
      BY <1>0, <1>1, <1>3
    <3> QED
      BY <3>1 DEF Rooted, DirectoriesAgree
  <2>2. ASSUME NEW i \in Directories(d), i # ROOT
        PROVE  IsIn(e, i, Ent(e, i, 1, 1).inode)
    <3>1. PICK up : up = Ent(d, i, 1, 1).inode
      OBVIOUS
    <3>2. up \in Directories(d) /\ Ent(e, i, 1, 1).inode = up
      BY <1>0, <1>1, <1>3, <3>1
    <3>3. IsIn(d, i, up)
      BY <2>2, <3>1 DEF Rooted, DirectoriesAgree
    <3>4. PICK k \in Nat, s \in Slot : Child(d, up, k, s) /\ Ent(d, up, k, s).inode = i
      BY <3>3 DEF IsIn
    <3>5. Child(e, up, k, s) /\ Ent(e, up, k, s).inode = i
      BY <1>5, <3>2, <3>4
    <3> QED
      BY <3>2, <3>5 DEF IsIn
  <2>3. ASSUME NEW i \in N PROVE IsIn(e, i, Ent(e, i, 1, 1).inode)
    <3>1. i = x.inode /\ Ent(e, i, 1, 1).inode = D
      BY DEF Named
    <3>2. Child(e, D, K, S) /\ Ent(e, D, K, S).inode = i
      BY <1>0, <1>2, <1>5, <3>1
    <3> QED
      BY <1>0, <3>1, <3>2 DEF IsIn
  <2> QED
    BY <2>1, <2>2, <2>3 DEF Rooted
<1> QED
  BY <1>6, <1>7, <1>8, <1>9, <1>10 DEF DirectoriesAgree

\* Directory i has lost the child in slot S of its K-th block: the last entry,
\* in slot M of the L-th block, has come to its place.
Removed(d, e, i, K, S, L, M) ==
  /\ K \in Nat /\ S \in Slot /\ L \in Nat /\ M \in Slot
  /\ Child(d, i, K, S) /\ Child(d, i, L, M)
  /\ \A k \in Nat, s \in Slot : Has(e, i, k, s) <=> Has(d, i, k, s) /\ ~(k = L /\ s = M)
  /\ \A k \in Nat, s \in Slot :
       Has(e, i, k, s) =>
         Ent(e, i, k, s) = IF k = K /\ s = S THEN Ent(d, i, L, M) ELSE Ent(d, i, k, s)
  /\ Shape(e, i)

\* The entry of y, a file or an empty directory, has left directory D.
LEMMA DirectoriesShrink ==
  ASSUME NEW d, NEW e, DirectoriesAgree(d), NEW D \in Directories(d),
         ROOT \in Directories(d), ROOT \in Inode,
         NEW K, NEW S, NEW L, NEW M, Removed(d, e, D, K, S, L, M),
         NEW y, y = Ent(d, D, K, S).inode, Directories(e) = Directories(d) \ {y},
         y \in Directories(d) => \A k \in Nat, s \in Slot : ~Child(d, y, k, s),
         \A i \in InUse(d) : i # y => i \in InUse(e),
         \A i \in Directories(e) : i # D => Same(d, e, i)
  PROVE  /\ DirectoriesAgree(e)
         /\ \A i \in Directories(e), k \in Nat, s \in Slot :
              Child(e, i, k, s) => Ent(e, i, k, s).inode # y
<1>0. /\ 0 \in Slot /\ 1 \in Slot /\ Slot \subseteq Nat
      /\ K \in Nat /\ S \in Slot /\ L \in Nat /\ M \in Slot
  BY Constants DEF Slot, Removed
<1>1. \A i \in Directories(d) :
        /\ Shape(d, i) /\ Has(d, i, 1, 0) /\ Ent(d, i, 1, 0) = Named(i, ".")
        /\ Has(d, i, 1, 1) /\ Ent(d, i, 1, 1).name = ".."
        /\ Ent(d, i, 1, 1).inode \in Directories(d)
        /\ \A k \in Nat, s \in Slot :
             Child(d, i, k, s) => /\ Ent(d, i, k, s).name \in Name
                                  /\ Ent(d, i, k, s).inode \in InUse(d)
                                  /\ Ent(d, i, k, s).inode # ROOT
  BY DEF DirectoriesAgree, Filled
<1>2. Child(d, D, K, S) /\ Child(d, D, L, M) /\ y # ROOT /\ y # D
  <2>1. Child(d, D, K, S) /\ Child(d, D, L, M)
    BY DEF Removed
  <2> QED
    BY <1>0, <1>1, <2>1
<1>3. /\ \A i \in Directories(e) : i \in Directories(d) /\ i # y
      /\ D \in Directories(e) /\ ROOT \in Directories(e)
  BY <1>2
<1>4. \A i \in Directories(e), k \in Nat, s \in Slot :
        /\ Has(e, i, k, s) <=> Has(d, i, k, s) /\ ~(i = D /\ k = L /\ s = M)
        /\ Has(e, i, k, s) => Ent(e, i, k, s) = IF i = D /\ k = K /\ s = S
                                                THEN Ent(d, D, L, M)
                                                ELSE Ent(d, i, k, s)
  <2> SUFFICES ASSUME NEW i \in Directories(e), NEW k \in Nat, NEW s \in Slot
               PROVE  /\ Has(e, i, k, s) <=> Has(d, i, k, s) /\ ~(i = D /\ k = L /\ s = M)
                      /\ Has(e, i, k, s) => Ent(e, i, k, s) = IF i = D /\ k = K /\ s = S
                                                              THEN Ent(d, D, L, M)
                                                              ELSE Ent(d, i, k, s)
    OBVIOUS
  <2>1. CASE i = D
    BY <2>1 DEF Removed
  <2>2. CASE i # D
    <3>1. Same(d, e, i)
      BY <2>2
    <3> QED
      BY <2>2, <3>1, SameEntries
  <2> QED
    BY <2>1, <2>2
<1>5. ~(K = 1 /\ S \in {0, 1}) /\ ~(L = 1 /\ M \in {0, 1})
  BY <1>0, <1>2 DEF Child
<1>6. \A i \in Directories(e) : /\ Has(e, i, 1, 0) /\ Ent(e, i, 1, 0) = Ent(d, i, 1, 0)
                                /\ Has(e, i, 1, 1) /\ Ent(e, i, 1, 1) = Ent(d, i, 1, 1)
  BY <1>0, <1>1, <1>3, <1>4, <1>5
\* Where a child that is left comes from.
<1>7. ASSUME NEW i \in Directories(e), NEW k \in Nat, NEW s \in Slot, Child(e, i, k, s)
      PROVE  \/ /\ i = D /\ k = K /\ s = S /\ ~(K = L /\ S = M)
                /\ Ent(e, i, k, s) = Ent(d, D, L, M)
             \/ /\ ~(i = D /\ k = K /\ s = S) /\ ~(i = D /\ k = L /\ s = M)
                /\ Child(d, i, k, s)
                /\ Ent(e, i, k, s) = Ent(d, i, k, s)
  BY <1>0, <1>4, <1>7 DEF Child
<1>8. EnteredOnce(d)
  BY DEF DirectoriesAgree
<1>9. \A i \in Directories(e), k \in Nat, s \in Slot :
        Child(e, i, k, s) => /\ Ent(e, i, k, s).inode # y
                             /\ Ent(e, i, k, s).name \in Name
                             /\ Ent(e, i, k, s).inode \in InUse(e)
                             /\ Ent(e, i, k, s).inode # ROOT
  <2> SUFFICES ASSUME NEW i \in Directories(e), NEW k \in Nat, NEW s \in Slot,
                      Child(e, i, k, s)
               PROVE  /\ Ent(e, i, k, s).inode # y
                      /\ Ent(e, i, k, s).name \in Name
                      /\ Ent(e, i, k, s).inode \in InUse(e)
                      /\ Ent(e, i, k, s).inode # ROOT
    OBVIOUS
  <2>1. Ent(e, i, k, s).inode # y
    <3>1. CASE /\ i = D /\ k = K /\ s = S /\ ~(K = L /\ S = M)
               /\ Ent(e, i, k, s) = Ent(d, D, L, M)
      BY <1>0, <1>2, <1>8, <3>1 DEF EnteredOnce
    <3>2. CASE /\ ~(i = D /\ k = K /\ s = S)
               /\ Child(d, i, k, s) /\ Ent(e, i, k, s) = Ent(d, i, k, s)
      BY <1>0, <1>2, <1>3, <1>8, <3>2 DEF EnteredOnce
    <3> QED
      BY <1>7, <3>1, <3>2
  <2>2. \E j \in Directories(d), l \in Nat, r \in Slot :
          Child(d, j, l, r) /\ Ent(e, i, k, s) = Ent(d, j, l, r)
    BY <1>0, <1>2, <1>3, <1>7
  <2> QED
    BY <1>1, <2>1, <2>2
<1>10. \A i \in Directories(e) : Shape(e, i)
  <2> SUFFICES ASSUME NEW i \in Directories(e) PROVE Shape(e, i)
    OBVIOUS
  <2>1. i = D => Shape(e, i)
    BY DEF Removed
  <2>2. i # D => Shape(e, i)
    BY <1>1, <1>3, SameEntries
  <2> QED
    BY <2>1, <2>2
<1>11. \A i \in Directories(e) : Ent(d, i, 1, 1).inode # y
  <2> SUFFICES ASSUME NEW i \in Directories(e), Ent(d, i, 1, 1).inode = y PROVE FALSE
    OBVIOUS
  <2>1. i # ROOT
    BY <1>2 DEF DirectoriesAgree, Rooted
  <2>2. IsIn(d, i, y) /\ y \in Directories(d)
    BY <1>1, <1>3, <2>1 DEF DirectoriesAgree, Rooted
  <2> QED
    BY <2>2 DEF IsIn
<1>12. \A i \in Directories(e) : Filled(e, i)
  <2> SUFFICES ASSUME NEW i \in Directories(e) PROVE Filled(e, i)
    OBVIOUS
  <2>1. /\ Has(e, i, 1, 0) /\ Ent(e, i, 1, 0) = Named(i, ".")
        /\ Has(e, i, 1, 1) /\ Ent(e, i, 1, 1).name = ".."
        /\ Ent(e, i, 1, 1).inode \in Directories(e)
    BY <1>1, <1>3, <1>6, <1>11
  <2> QED
    BY <1>9, <2>1 DEF Filled
<1>13. EnteredOnce(e)
  <2> SUFFICES ASSUME NEW i \in Directories(e), NEW j \in Directories(e),
                      NEW k \in Nat, NEW l \in Nat, NEW s \in Slot, NEW r \in Slot,
                      Child(e, i, k, s), Child(e, j, l, r),
                      Ent(e, i, k, s).inode = Ent(e, j, l, r).inode
               PROVE  i = j /\ k = l /\ s = r
    BY DEF EnteredOnce
  <2>1. \/ /\ i = D /\ k = K /\ s = S
           /\ Ent(e, i, k, s) = Ent(d, D, L, M)
        \/ /\ ~(i = D /\ k = L /\ s = M)
           /\ Child(d, i, k, s)
           /\ Ent(e, i, k, s) = Ent(d, i, k, s)
    BY <1>7
  <2>2. \/ /\ j = D /\ l = K /\ r = S
           /\ Ent(e, j, l, r) = Ent(d, D, L, M)
        \/ /\ ~(j = D /\ l = L /\ r = M)
           /\ Child(d, j, l, r)
           /\ Ent(e, j, l, r) = Ent(d, j, l, r)
    BY <1>7
  <2>3. i \in Directories(d) /\ j \in Directories(d)
    BY <1>3
  <2> QED
    BY <1>0, <1>2, <1>8, <2>1, <2>2, <2>3 DEF EnteredOnce
<1>14. Rooted(e)
  <2>1. Ent(e, ROOT, 1, 1).inode = ROOT
    BY <1>3, <1>6 DEF DirectoriesAgree, Rooted
  <2>2. ASSUME NEW i \in Directories(e), i # ROOT
        PROVE  IsIn(e, i, Ent(e, i, 1, 1).inode)
    <3>1. PICK up : up = Ent(d, i, 1, 1).inode
      OBVIOUS
    <3>2. /\ up \in Directories(e) /\ Ent(e, i, 1, 1).inode = up
          /\ i \in Directories(d) /\ i # y
      BY <1>1, <1>3, <1>6, <1>11, <3>1
    <3>3. IsIn(d, i, up)
      BY <2>2, <3>1, <3>2 DEF Rooted, DirectoriesAgree
    <3>4. PICK k \in Nat, s \in Slot : Child(d, up, k, s) /\ Ent(d, up, k, s).inode = i
      BY <3>3 DEF IsIn
    <3>5. ~(up = D /\ k = K /\ s = S)
      BY <3>2, <3>4
    <3>6. CASE up = D /\ k = L /\ s = M
      <4>1. Child(e, D, K, S) /\ Ent(e, D, K, S).inode = i
        BY <1>0, <1>2, <1>3, <1>4, <3>4, <3>5, <3>6 DEF Child
      <4> QED
        BY <1>0, <3>2, <3>6, <4>1 DEF IsIn
    <3>7. CASE ~(up = D /\ k = L /\ s = M)
      <4>1. Child(e, up, k, s) /\ Ent(e, up, k, s).inode = i
        BY <1>4, <3>2, <3>4, <3>5, <3>7 DEF Child
      <4> QED
        BY <3>2, <4>1 DEF IsIn
    <3> QED
      BY <3>6, <3>7
  <2> QED
    BY <2>1, <2>2 DEF Rooted
<1> QED
  BY <1>9, <1>10, <1>12, <1>13, <1>14 DEF DirectoriesAgree

-----------------------------------------------------------------------------
(* The tree of entries *)

\* Entry t of the tree: its directory, its name and its inode.
EntryOf(d, t) ==
  \E i \in Directories(d), k \in Nat, s \in Slot :
    Child(d, i, k, s) /\ t = <<i, Ent(d, i, k, s).name, Ent(d, i, k, s).inode>>

\* The entries have stayed, or x has come, or x has gone.
SameTree(d, e) == \A t : EntryOf(e, t) <=> EntryOf(d, t)
Gains(d, e, x) == \A t : EntryOf(e, t) <=> EntryOf(d, t) \/ t = x
Loses(d, e, x) == \A t : EntryOf(e, t) <=> EntryOf(d, t) /\ t # x

LEMMA EntriesSame ==
  ASSUME NEW d, NEW e, Directories(e) = Directories(d),
         \A i \in Directories(d) : Same(d, e, i)
  PROVE  SameTree(d, e)
<1>1. \A i \in Directories(d), k \in Nat, s \in Slot :
        /\ Child(e, i, k, s) <=> Child(d, i, k, s)
        /\ Child(d, i, k, s) => Ent(e, i, k, s) = Ent(d, i, k, s)
  BY SameEntries DEF Child
<1> QED
  BY <1>1 DEF SameTree, EntryOf

\* What an added entry does to the children of its directory.
LEMMA AddedChild ==
  ASSUME NEW d, NEW e, NEW D, Filled(d, D), NEW x, NEW K, NEW S, Added(d, e, D, x, K, S)
  PROVE  /\ K \in Nat /\ S \in Slot /\ Child(e, D, K, S) /\ Ent(e, D, K, S) = x
         /\ \A k \in Nat, s \in Slot :
              /\ Child(e, D, k, s) <=> Child(d, D, k, s) \/ (k = K /\ s = S)
              /\ Child(d, D, k, s) => Ent(e, D, k, s) = Ent(d, D, k, s)
<1>1. /\ K \in Nat /\ S \in Slot /\ ~Has(d, D, K, S) /\ Ent(e, D, K, S) = x
      /\ \A k \in Nat, s \in Slot : Has(e, D, k, s) <=> Has(d, D, k, s) \/ (k = K /\ s = S)
      /\ \A k \in Nat, s \in Slot : Has(d, D, k, s) => Ent(e, D, k, s) = Ent(d, D, k, s)
  BY DEF Added
<1>2. Has(e, D, K, S)
  BY <1>1
<1>3. K >= 1 /\ S \in Nat
  <2>1. K \in 1 .. Len(e.inode[D].block)
    BY <1>2 DEF Has
  <2> QED
    BY <1>1, <2>1, Constants DEF Slot
<1>4. ~(K = 1 /\ S = 0) /\ ~(K = 1 /\ S = 1)
  BY <1>1 DEF Filled
<1>5. K > 1 \/ S > 1
  BY <1>1, <1>3, <1>4
<1> QED
  BY <1>1, <1>2, <1>5 DEF Child

\* Entry x has come to directory D, and a new directory, if any, is empty.
LEMMA EntriesGrow ==
  ASSUME NEW d, NEW e, NEW D \in Directories(d), Filled(d, D),
         NEW N, Directories(e) = Directories(d) \cup N,
         \A i \in Directories(d) : i # D => Same(d, e, i),
         NEW x, NEW K, NEW S, Added(d, e, D, x, K, S),
         \A i \in N, k \in Nat, s \in Slot : ~Child(e, i, k, s)
  PROVE  Gains(d, e, <<D, x.name, x.inode>>)
<1>1. /\ K \in Nat /\ S \in Slot /\ Child(e, D, K, S) /\ Ent(e, D, K, S) = x
      /\ \A k \in Nat, s \in Slot :
           /\ Child(e, D, k, s) <=> Child(d, D, k, s) \/ (k = K /\ s = S)
           /\ Child(d, D, k, s) => Ent(e, D, k, s) = Ent(d, D, k, s)
  BY AddedChild
<1>2. \A i \in Directories(d), k \in Nat, s \in Slot :
        i # D => /\ Child(e, i, k, s) <=> Child(d, i, k, s)
                 /\ Child(d, i, k, s) => Ent(e, i, k, s) = Ent(d, i, k, s)
  BY SameEntries DEF Child
<1> SUFFICES ASSUME NEW t
             PROVE  EntryOf(e, t) <=> EntryOf(d, t) \/ t = <<D, x.name, x.inode>>
  BY DEF Gains
<1>3. ASSUME EntryOf(e, t) PROVE EntryOf(d, t) \/ t = <<D, x.name, x.inode>>
  <2>1. PICK i \in Directories(e), k \in Nat, s \in Slot :
          Child(e, i, k, s) /\ t = <<i, Ent(e, i, k, s).name, Ent(e, i, k, s).inode>>
    BY <1>3 DEF EntryOf
  <2>2. i \in Directories(d)
    BY <2>1
  <2>3. CASE i = D /\ k = K /\ s = S
    BY <1>1, <2>1, <2>3
  <2>4. CASE ~(i = D /\ k = K /\ s = S)
    <3>1. Child(d, i, k, s) /\ Ent(e, i, k, s) = Ent(d, i, k, s)
      BY <1>1, <1>2, <2>1, <2>2, <2>4
    <3> QED
      BY <2>1, <2>2, <3>1 DEF EntryOf
  <2> QED
    BY <2>3, <2>4
<1>4. ASSUME EntryOf(d, t) PROVE EntryOf(e, t)
  <2>1. PICK i \in Directories(d), k \in Nat, s \in Slot :
          Child(d, i, k, s) /\ t = <<i, Ent(d, i, k, s).name, Ent(d, i, k, s).inode>>
    BY <1>4 DEF EntryOf
  <2>2. Child(e, i, k, s) /\ Ent(e, i, k, s) = Ent(d, i, k, s) /\ i \in Directories(e)
    BY <1>1, <1>2, <2>1
  <2> QED
    BY <2>1, <2>2 DEF EntryOf
<1>5. ASSUME t = <<D, x.name, x.inode>> PROVE EntryOf(e, t)
  BY <1>1, <1>5 DEF EntryOf
<1> QED
  BY <1>3, <1>4, <1>5

\* The entry of y has left directory D, and y with it if it was a directory.
LEMMA EntriesShrink ==
  ASSUME NEW d, NEW e, EnteredOnce(d), NEW D \in Directories(d),
         NEW K, NEW S, NEW L, NEW M, Removed(d, e, D, K, S, L, M),
         NEW y, y = Ent(d, D, K, S).inode, Directories(e) = Directories(d) \ {y},
         y \in Directories(d) => \A k \in Nat, s \in Slot : ~Child(d, y, k, s),
         \A i \in Directories(e) : i # D => Same(d, e, i)
  PROVE  Loses(d, e, <<D, Ent(d, D, K, S).name, y>>)
<1>1. /\ K \in Nat /\ S \in Slot /\ L \in Nat /\ M \in Slot
      /\ Child(d, D, K, S) /\ Child(d, D, L, M)
      /\ \A k \in Nat, s \in Slot : Child(e, D, k, s) <=> Child(d, D, k, s) /\ ~(k = L /\ s = M)
      /\ \A k \in Nat, s \in Slot :
           Child(e, D, k, s) =>
             Ent(e, D, k, s) = IF k = K /\ s = S THEN Ent(d, D, L, M) ELSE Ent(d, D, k, s)
  BY DEF Removed, Child
<1>2. \A i \in Directories(e), k \in Nat, s \in Slot :
        i # D => /\ Child(e, i, k, s) <=> Child(d, i, k, s)
                 /\ Child(d, i, k, s) => Ent(e, i, k, s) = Ent(d, i, k, s)
  BY SameEntries DEF Child
<1>3. \A i \in Directories(d), k \in Nat, s \in Slot :
        Child(d, i, k, s) /\ Ent(d, i, k, s).inode = y => i = D /\ k = K /\ s = S
  BY <1>1 DEF EnteredOnce
<1> SUFFICES ASSUME NEW t
             PROVE  EntryOf(e, t) <=> EntryOf(d, t) /\ t # <<D, Ent(d, D, K, S).name, y>>
  BY DEF Loses
<1>4. ASSUME EntryOf(e, t) PROVE EntryOf(d, t) /\ t # <<D, Ent(d, D, K, S).name, y>>
  <2>1. PICK i \in Directories(e), k \in Nat, s \in Slot :
          Child(e, i, k, s) /\ t = <<i, Ent(e, i, k, s).name, Ent(e, i, k, s).inode>>
    BY <1>4 DEF EntryOf
  <2>2. PICK l \in Nat, m \in Slot :
          /\ Child(d, i, l, m) /\ Ent(e, i, k, s) = Ent(d, i, l, m)
          /\ ~(i = D /\ l = K /\ m = S)
    <3>1. CASE i # D
      BY <1>2, <2>1, <3>1
    <3>2. CASE i = D /\ k = K /\ s = S
      BY <1>1, <2>1, <3>2
    <3>3. CASE i = D /\ ~(k = K /\ s = S)
      BY <1>1, <2>1, <3>3
    <3> QED
      BY <3>1, <3>2, <3>3
  <2>3. i \in Directories(d)
    BY <2>1
  <2>4. Ent(d, i, l, m).inode # y
    BY <1>3, <2>2, <2>3
  <2> QED
    BY <2>1, <2>2, <2>3, <2>4 DEF EntryOf
<1>5. ASSUME EntryOf(d, t), t # <<D, Ent(d, D, K, S).name, y>> PROVE EntryOf(e, t)
  <2>1. PICK i \in Directories(d), k \in Nat, s \in Slot :
          Child(d, i, k, s) /\ t = <<i, Ent(d, i, k, s).name, Ent(d, i, k, s).inode>>
    BY <1>5 DEF EntryOf
  <2>2. ~(i = D /\ k = K /\ s = S) /\ i \in Directories(e)
    BY <1>5, <2>1
  <2>3. \E l \in Nat, m \in Slot : Child(e, i, l, m) /\ Ent(e, i, l, m) = Ent(d, i, k, s)
    <3>1. CASE i # D
      BY <1>2, <2>1, <2>2, <3>1
    <3>2. CASE i = D /\ k = L /\ s = M
      BY <1>1, <2>1, <2>2, <3>2
    <3>3. CASE i = D /\ ~(k = L /\ s = M)
      BY <1>1, <2>1, <2>2, <3>3
    <3> QED
      BY <3>1, <3>2, <3>3
  <2> QED
    BY <2>1, <2>2, <2>3 DEF EntryOf
<1> QED
  BY <1>4, <1>5

-----------------------------------------------------------------------------
(* New files and directories *)

LEMMA DirectoriesInUse ==
  ASSUME NEW d \in Disk, InodesAgree(d)
  PROVE  /\ \A i \in Directories(d) : i \in InUse(d) /\ i \in Inode /\ d.inode[i].dir
         /\ \A i \in InUse(d) : i \in d.inode_bitmap /\ i \in 1 .. inode_per_group
         /\ \A i \in InUse(d) : d.inode[i].dir => i \in Directories(d)
         /\ ROOT \in Directories(d)
BY Root DEF Directories, InUse, InodesAgree

LEMMA SetInode ==
  ASSUME NEW d \in Disk, NEW i \in Inode, NEW w \in INODE
  PROVE  /\ [d EXCEPT !.inode[i] = w] \in Disk
         /\ [d EXCEPT !.inode[i] = w].block_bitmap = d.block_bitmap
         /\ [d EXCEPT !.inode[i] = w].inode_bitmap = d.inode_bitmap
         /\ [d EXCEPT !.inode[i] = w].gd = d.gd
         /\ [d EXCEPT !.inode[i] = w].data = d.data
         /\ \A j \in Inode : [d EXCEPT !.inode[i] = w].inode[j] =
                               IF j = i THEN w ELSE d.inode[j]
<1>1. PICK u : u = [d.inode EXCEPT ![i] = w]
  OBVIOUS
<1>2. /\ u \in [Inode -> INODE]
      /\ \A j \in Inode : u[j] = IF j = i THEN w ELSE d.inode[j]
  BY <1>1 DEF Disk
<1>3. PICK e : e = [d EXCEPT !.inode[i] = w]
  OBVIOUS
<1>4. e = [d EXCEPT !.inode = u]
  BY <1>1, <1>3
<1>5. /\ e \in Disk /\ e.inode = u /\ e.block_bitmap = d.block_bitmap
      /\ e.inode_bitmap = d.inode_bitmap /\ e.gd = d.gd /\ e.data = d.data
  BY <1>2, <1>4 DEF Disk
<1> QED
  BY <1>2, <1>3, <1>5

LEMMA SetContents ==
  ASSUME NEW d \in Disk, NEW b \in Block, NEW w \in [Slot -> Entry]
  PROVE  /\ [d EXCEPT !.data[b] = w] \in Disk
         /\ [d EXCEPT !.data[b] = w].block_bitmap = d.block_bitmap
         /\ [d EXCEPT !.data[b] = w].inode_bitmap = d.inode_bitmap
         /\ [d EXCEPT !.data[b] = w].gd = d.gd
         /\ [d EXCEPT !.data[b] = w].inode = d.inode
         /\ \A c \in Block : [d EXCEPT !.data[b] = w].data[c] =
                               IF c = b THEN w ELSE d.data[c]
<1>1. PICK u : u = [d.data EXCEPT ![b] = w]
  OBVIOUS
<1>2. /\ u \in [Block -> [Slot -> Entry]]
      /\ \A c \in Block : u[c] = IF c = b THEN w ELSE d.data[c]
  BY <1>1 DEF Disk
<1>3. PICK e : e = [d EXCEPT !.data[b] = w]
  OBVIOUS
<1>4. e = [d EXCEPT !.data = u]
  BY <1>1, <1>3
<1>5. /\ e \in Disk /\ e.data = u /\ e.block_bitmap = d.block_bitmap
      /\ e.inode_bitmap = d.inode_bitmap /\ e.gd = d.gd /\ e.inode = d.inode
  BY <1>2, <1>4 DEF Disk
<1> QED
  BY <1>2, <1>3, <1>5

LEMMA NewInodeFacts ==
  ASSUME NEW d \in Disk, BlockCounts(d), InodeCounts(d), InodesAgree(d),
         0 \in GroupsWithRoom(d),
         NEW r, r = NewInode(d), NEW i, i = r.inode, NEW b, b = r.block
  PROVE  /\ i \in Inode \ d.inode_bitmap /\ i \in 1 .. inode_per_group
         /\ i \notin 1 .. ReservedInodes
         /\ \A k \in 1 .. i - 1 : k \in d.inode_bitmap
         /\ r.group = 0 /\ b # 0 /\ WholeDisk(0, b) = b /\ BlockGroup(b) = 0
         /\ b \in Block /\ b \notin MetadataBlocks /\ b \notin d.block_bitmap
         /\ r.disk \in Disk /\ BlockCounts(r.disk)
         /\ r.disk.block_bitmap = d.block_bitmap \cup {b}
         /\ r.disk.inode_bitmap = d.inode_bitmap \cup {i}
         /\ r.disk.inode = d.inode
         /\ \A c \in Block : r.disk.data[c] = IF c = b THEN Zeroed ELSE d.data[c]
         /\ \A g \in Group : r.disk.gd[g].free_inodes = d.gd[g].free_inodes
         /\ Cardinality(FreeBlocks(d, 0)) >= 3
         /\ FreeBlocks(r.disk, 0) # {}
<1>0. /\ 0 \in Group /\ Group \subseteq Nat /\ Inode \subseteq Nat /\ Inode \subseteq Int
      /\ block_per_group \in Nat /\ \A k \in Inode : k >= 1
  BY Constants, Multiply DEF Group, Inode
<1>1. Min(GroupsWithRoom(d)) = 0
  <2>1. GroupsWithRoom(d) \in SUBSET Nat
    BY <1>0 DEF GroupsWithRoom
  <2>2. Min(GroupsWithRoom(d)) \in Nat /\ Min(GroupsWithRoom(d)) <= 0
    BY <2>1, MinIn
  <2> QED
    BY <2>2
<1>2. /\ Cardinality(FreeInodes(d, 0)) >= 1 /\ Cardinality(FreeBlocks(d, 0)) >= 3
  BY <1>0 DEF GroupsWithRoom, InodeCounts, BlockCounts
<1>3. PICK T : T = {k \in Inode : InodeGroup(k) = 0 /\ k \notin d.inode_bitmap}
  OBVIOUS
<1>4. T # {}
  <2>1. T = FreeInodes(d, 0)
    BY <1>3 DEF FreeInodes
  <2> QED
    BY <1>2, <2>1, FS_EmptySet
<1>5. PICK m : m = Min(T)
  OBVIOUS
<1>6. /\ m \in Inode /\ m \notin d.inode_bitmap /\ InodeGroup(m) = 0
      /\ \A k \in T : m <= k
  <2>1. T \in SUBSET Nat
    BY <1>0, <1>3
  <2> QED
    BY <1>3, <1>4, <1>5, <2>1, MinIn
<1>7. m \in 1 .. inode_per_group
  BY <1>6, FirstGroupInodes
<1>8. \A k \in 1 .. m - 1 : k \in d.inode_bitmap
  <2> SUFFICES ASSUME NEW k \in 1 .. m - 1, k \notin d.inode_bitmap PROVE FALSE
    OBVIOUS
  <2>1. k \in 1 .. inode_per_group /\ k < m
    BY <1>0, <1>6, <1>7, Constants
  <2>2. k \in Inode /\ InodeGroup(k) = 0
    BY <2>1, Root, FirstGroupInodes
  <2>3. m <= k
    BY <1>3, <1>6, <2>2
  <2> QED
    BY <1>7, <2>1, <2>3, Constants
<1>9. PICK e : e = [d EXCEPT !.inode_bitmap = @ \cup {m}]
  OBVIOUS
<1>10. /\ e \in Disk /\ e.inode_bitmap = d.inode_bitmap \cup {m}
       /\ e.inode = d.inode /\ e.data = d.data /\ e.gd = d.gd
       /\ e.block_bitmap = d.block_bitmap
  <2>1. PICK z : z = d.inode_bitmap \cup {m}
    OBVIOUS
  <2>2. z \in SUBSET Inode
    BY <1>6, <2>1 DEF Disk
  <2>3. e = [d EXCEPT !.inode_bitmap = z]
    BY <1>9, <2>1
  <2> QED
    BY <2>1, <2>2, <2>3 DEF Disk
<1>11. alloc_free_inode(d) = [disk |-> e, number |-> m]
  <2>1. GroupsWithRoom(d) # {}
    OBVIOUS
  <2> QED
    BY <1>1, <1>3, <1>5, <1>9, <2>1 DEF alloc_free_inode
<1>12. BlockCounts(e) /\ FreeBlocks(e, 0) = FreeBlocks(d, 0)
  BY <1>10 DEF BlockCounts, FreeBlocks
<1>13. FreeBlocks(e, 0) # {}
  BY <1>2, <1>12, FS_EmptySet
<1>14. PICK a : a = AllocFrom(e, 0)
  OBVIOUS
<1>15. /\ a.group = 0 /\ a.number # 0 /\ a.disk \in Disk /\ BlockCounts(a.disk)
       /\ a.number \in FreeBlocks(e, 0)
       /\ Took(e, a.disk, WholeDisk(0, a.number))
  BY <1>0, <1>10, <1>12, <1>13, <1>14, AllocFacts
<1>16. r = [disk |-> a.disk, inode |-> m, group |-> a.group, block |-> a.number]
  <2>1. m # 0
    BY <1>7
  <2> QED
    BY <1>6, <1>11, <1>14, <2>1 DEF NewInode
<1>17. i = m /\ b = a.number /\ r.group = 0 /\ r.disk = a.disk
  BY <1>15, <1>16
<1>18. /\ WholeDisk(0, b) = b /\ b \in Block /\ b \notin MetadataBlocks
       /\ BlockGroup(b) = 0 /\ b \notin e.block_bitmap
  <2>1. WholeDisk(0, b) = b
    <3>1. b \in Nat
      BY <1>0, <1>15, <1>17, FreeFinite
    <3> QED
      BY <1>0, <3>1 DEF WholeDisk
  <2> QED
    BY <1>0, <1>15, <1>17, <2>1, FreeNumbers
<1>19. i \notin 1 .. ReservedInodes
  BY <1>6, <1>17 DEF InodesAgree
<1>20. FreeBlocks(r.disk, 0) # {}
  <2>1. r.disk.block_bitmap = e.block_bitmap \cup {b}
    BY <1>15, <1>17, <1>18 DEF Took
  <2>2. Cardinality(FreeBlocks(r.disk, 0)) = Cardinality(FreeBlocks(e, 0)) - 1
    <3>1. b \in Block \ MetadataBlocks /\ 0 = BlockGroup(b)
      BY <1>18
    <3>2. PICK f : f = r.disk
      OBVIOUS
    <3>3. f.block_bitmap = e.block_bitmap \cup {b}
      BY <2>1, <3>2
    <3>4. Cardinality(FreeBlocks(f, 0)) = Cardinality(FreeBlocks(e, 0)) - 1
      BY <1>0, <1>18, <3>1, <3>3, FreeAfterTaking
    <3> QED
      BY <3>2, <3>4
  <2>3. Cardinality(FreeBlocks(e, 0)) \in Nat
    BY <1>0, FreeFinite
  <2>4. Cardinality(FreeBlocks(r.disk, 0)) # 0
    BY <1>2, <1>12, <2>2, <2>3
  <2> QED
    BY <2>4, FS_EmptySet
<1>21. /\ r.disk.block_bitmap = d.block_bitmap \cup {b}
       /\ r.disk.inode_bitmap = d.inode_bitmap \cup {i}
       /\ r.disk.inode = d.inode
       /\ \A c \in Block : r.disk.data[c] = IF c = b THEN Zeroed ELSE d.data[c]
       /\ \A g \in Group : r.disk.gd[g].free_inodes = d.gd[g].free_inodes
  BY <1>10, <1>15, <1>17, <1>18 DEF Took
<1> QED
  BY <1>2, <1>6, <1>7, <1>8, <1>10, <1>15, <1>17, <1>18, <1>19, <1>20, <1>21

DiskAgrees(d) ==
  /\ d \in Disk /\ InodesAgree(d) /\ BlocksAgree(d) /\ BlockCounts(d)
  /\ InodeCounts(d) /\ DirectoriesAgree(d)

\* Inode i is new, w with the block b.
Filed(d, e, i, b, w) ==
  /\ i \in Inode /\ i \notin d.inode_bitmap /\ i \in 1 .. inode_per_group
  /\ i \notin 1 .. ReservedInodes
  /\ b \in Block /\ b \notin MetadataBlocks /\ b \notin d.block_bitmap
  /\ BlockGroup(b) = 0
  /\ e.block_bitmap = d.block_bitmap \cup {b}
  /\ e.inode_bitmap = d.inode_bitmap \cup {i}
  /\ \A j \in Inode : e.inode[j] = IF j = i THEN w ELSE d.inode[j]
  /\ w.block = <<b>>
  /\ \A c \in Block : c # b => e.data[c] = d.data[c]
  /\ \A g \in Group : e.gd[g].free_inodes = d.gd[g].free_inodes

LEMMA FiledAgrees ==
  ASSUME NEW d \in Disk, InodesAgree(d), BlocksAgree(d),
         NEW e, NEW i, NEW b, NEW w, w.dir \in BOOLEAN, Filed(d, e, i, b, w)
  PROVE  /\ InodesAgree(e) /\ BlocksAgree(e)
         /\ i \notin InUse(d) /\ \A j : j \in InUse(e) <=> j \in InUse(d) \/ j = i
         /\ \A j \in InUse(d) : Same(d, e, j)
         /\ \A j : j \in Directories(e) <=> j \in Directories(d) \/ (j = i /\ w.dir)
<1>0. /\ i \in Inode /\ i \notin d.inode_bitmap /\ i \in 1 .. inode_per_group
      /\ i \notin 1 .. ReservedInodes
      /\ b \in Block /\ b \notin MetadataBlocks /\ b \notin d.block_bitmap
      /\ BlockGroup(b) = 0
      /\ e.block_bitmap = d.block_bitmap \cup {b}
      /\ e.inode_bitmap = d.inode_bitmap \cup {i}
      /\ \A j \in Inode : e.inode[j] = IF j = i THEN w ELSE d.inode[j]
      /\ \A c \in Block : c # b => e.data[c] = d.data[c]
  BY DEF Filed
<1>1. Len(w.block) = 1 /\ w.block[1] = b
  BY DEF Filed
<1>2. i # ROOT /\ ROOT \in Inode
  BY <1>0, Root
<1>3. i \notin InUse(d) /\ \A j : j \in InUse(e) <=> j \in InUse(d) \/ j = i
  BY <1>0, <1>2 DEF InUse
<1>4. InodesAgree(e)
  <2>1. \A j \in 1 .. ReservedInodes : j # i /\ j \in Inode
    BY <1>0, Root, Constants
  <2>2. \A j \in InUse(e) : /\ Len(e.inode[j].block) >= 1
                            /\ BlockGroup(e.inode[j].block[1]) = 0
    <3> SUFFICES ASSUME NEW j \in InUse(e)
                 PROVE  /\ Len(e.inode[j].block) >= 1
                        /\ BlockGroup(e.inode[j].block[1]) = 0
      OBVIOUS
    <3>1. CASE j = i
      BY <1>0, <1>1, <3>1
    <3>2. CASE j # i
      <4>1. j \in InUse(d) /\ j \in Inode
        BY <1>3, <3>2 DEF InUse
      <4> QED
        BY <1>0, <3>2, <4>1 DEF InodesAgree
    <3> QED
      BY <3>1, <3>2
  <2> QED
    BY <1>0, <1>2, <2>1, <2>2 DEF InodesAgree
<1>5. \A j \in Inode, k \in Nat : Own(e, j, k) <=> Own(d, j, k) \/ (j = i /\ k = 1)
  <2> SUFFICES ASSUME NEW j \in Inode, NEW k \in Nat
               PROVE  Own(e, j, k) <=> Own(d, j, k) \/ (j = i /\ k = 1)
    OBVIOUS
  <2>1. CASE j = i
    <3>1. k \in 1 .. 1 <=> k = 1
      OBVIOUS
    <3>2. Len(e.inode[i].block) = 1
      BY <1>0, <1>1
    <3> QED
      BY <1>3, <2>1, <3>1, <3>2 DEF Own
  <2>2. CASE j # i
    BY <1>0, <1>3, <2>2 DEF Own
  <2> QED
    BY <2>1, <2>2
<1>6. \A j \in Inode, k \in Nat : Own(d, j, k) => Blk(e, j, k) = Blk(d, j, k)
  BY <1>0, <1>3 DEF Own, Blk
<1>7. BlocksAgree(e)
  <2>1. Blk(e, i, 1) = b /\ 1 \in Nat
    BY <1>0, <1>1 DEF Blk
  <2> QED
    BY <1>0, <1>5, <1>6, <2>1, OwnGrows
<1>8. \A j \in InUse(d) : Same(d, e, j)
  <2> SUFFICES ASSUME NEW j \in InUse(d) PROVE Same(d, e, j)
    OBVIOUS
  <2>1. j \in Inode /\ j # i
    BY <1>3 DEF InUse
  <2>2. ASSUME NEW l \in 1 .. Len(d.inode[j].block)
        PROVE  e.data[Blk(d, j, l)] = d.data[Blk(d, j, l)]
    <3>1. Own(d, j, l) /\ l \in Nat
      BY <2>1, DiskFacts DEF Own
    <3>2. Blk(d, j, l) \in d.block_bitmap
      BY <2>1, <3>1 DEF BlocksAgree
    <3> QED
      BY <1>0, <3>2, DiskFacts
  <2> QED
    BY <1>0, <2>1, <2>2 DEF Same
<1>9. \A j : j \in Directories(e) <=> j \in Directories(d) \/ (j = i /\ w.dir)
  BY <1>0 DEF Directories
<1> QED
  BY <1>3, <1>4, <1>7, <1>8, <1>9

Counted(d) == [d EXCEPT !.gd[0].free_inodes = Less1(@)]

\* If w is a directory, then a new one in D.
NewDir(e, i, b, w, D) ==
  w.dir => /\ w.size = 2
           /\ e.data[b][0] = Named(i, ".") /\ e.data[b][1] = Named(D, "..")
           /\ \A s \in Slot : s > 1 => e.data[b][s].name = ""

LEMMA NewDirectory ==
  ASSUME NEW h, NEW i, NEW b, NEW D, NewDir(h, i, b, h.inode[i], D),
         h.inode[i].block = <<b>>
  PROVE  h.inode[i].dir =>
           /\ Shape(h, i) /\ Has(h, i, 1, 0) /\ Ent(h, i, 1, 0) = Named(i, ".")
           /\ Has(h, i, 1, 1) /\ Ent(h, i, 1, 1) = Named(D, "..")
           /\ \A k \in Nat, s \in Slot : ~Child(h, i, k, s)
<1> SUFFICES ASSUME h.inode[i].dir = TRUE
             PROVE  /\ Shape(h, i) /\ Has(h, i, 1, 0) /\ Ent(h, i, 1, 0) = Named(i, ".")
                    /\ Has(h, i, 1, 1) /\ Ent(h, i, 1, 1) = Named(D, "..")
                    /\ \A k \in Nat, s \in Slot : ~Child(h, i, k, s)
  BY ZenonT(60)
<1>0. /\ 0 \in Slot /\ 1 \in Slot /\ Slot \subseteq Nat
      /\ EntriesPerBlock \in Nat /\ 2 \in 1 .. EntriesPerBlock
  BY Constants DEF Slot
<1>1. /\ h.inode[i].size = 2
      /\ h.data[b][0] = Named(i, ".") /\ h.data[b][1] = Named(D, "..")
      /\ \A s \in Slot : s > 1 => h.data[b][s].name = ""
  BY DEF NewDir
<1>2. Len(h.inode[i].block) = 1 /\ Blk(h, i, 1) = b
  BY DEF Blk
<1>3. Level(h.inode[i]) = 2
  <2>1. Level(h.inode[i]) = 2 - (1 - 1) * EntriesPerBlock
    BY <1>1, <1>2, ZenonT(60) DEF Level
  <2>2. (1 - 1) * EntriesPerBlock = 0
    BY <1>0
  <2> QED
    BY <2>1, <2>2
<1>4. \A k, s : Has(h, i, k, s) <=> k \in 1 .. 1 /\ s \in Slot /\ (k < 1 \/ s < 2)
  BY <1>2, <1>3 DEF Has
<1>5. \A s \in Slot : Ent(h, i, 1, s) = h.data[b][s]
  BY <1>2 DEF Ent
<1>6. \A k \in 1 .. 1 : k = 1 /\ ~(k < 1) /\ ~(k > 1)
  OBVIOUS
<1>7. \A s \in Slot : s < 2 <=> ~(s > 1)
  BY <1>0
<1>8. Shape(h, i)
  <2>1. \A k \in 1 .. 1, s \in Slot : ~Has(h, i, k, s) => Ent(h, i, k, s).name = ""
    BY <1>1, <1>4, <1>5, <1>6, <1>7
  <2>2. 1 >= 1 /\ 2 >= 2
    OBVIOUS
  <2> QED
    BY <1>0, <1>1, <1>2, <1>3, <2>1, <2>2 DEF Shape
<1>9. Has(h, i, 1, 0) /\ Has(h, i, 1, 1)
  BY <1>0, <1>4
<1>10. Ent(h, i, 1, 0) = Named(i, ".") /\ Ent(h, i, 1, 1) = Named(D, "..")
  BY <1>0, <1>1, <1>5
<1>11. \A k \in Nat, s \in Slot : ~Child(h, i, k, s)
  BY <1>4, <1>6, <1>7 DEF Child
<1> QED
  BY <1>8, <1>9, <1>10, <1>11

\* Inode i is new in use and entered as name in directory D.
Enters(d, e, D, name, i) ==
  /\ D \in Directories(d) /\ name \in Name
  /\ i # ROOT /\ i \notin InUse(d)
  /\ \A j : j \in InUse(e) <=> j \in InUse(d) \/ j = i
  /\ \A j : j # i => (j \in Directories(e) <=> j \in Directories(d))
  /\ Gains(d, e, <<D, name, i>>)

\* The new inode is entered in directory D and counted.
LEMMA EnterNew ==
  ASSUME NEW d, DiskAgrees(d), NEW D \in Directories(d), NEW name \in Name,
         NEW e \in Disk, BlockCounts(e), FreeBlocks(e, 0) # {},
         NEW i, NEW b, NEW w \in INODE, Filed(d, e, i, b, w),
         NewDir(e, i, b, w, D),
         NEW r, r = insert_entry(e, D, Named(i, name)),
         NEW h, h = Counted(r.disk)
  PROVE  /\ r.ok /\ DiskAgrees(h)
         /\ h.inode_bitmap = d.inode_bitmap \cup {i} /\ h.inode[i] = w /\ i \in InUse(h)
         /\ \A j \in Directories(d) : j \in Directories(h)
         /\ \A j, up \in Directories(d) : IsIn(d, j, up) => IsIn(h, j, up)
         /\ Enters(d, h, D, name, i)
         /\ \A j \in InUse(d) : j # D => Same(d, h, j)
<1>0. /\ d \in Disk /\ InodesAgree(d) /\ BlocksAgree(d) /\ BlockCounts(d)
      /\ InodeCounts(d) /\ DirectoriesAgree(d)
      /\ 0 \in Group /\ 0 \in Slot /\ 1 \in Slot /\ Slot \subseteq Nat
      /\ ROOT \in Inode
  BY Root, Constants DEF DiskAgrees, Slot
<1>1. /\ \A j \in Directories(d) : j \in InUse(d) /\ j \in Inode /\ d.inode[j].dir
      /\ ROOT \in Directories(d)
  BY <1>0, DirectoriesInUse
<1>2. /\ InodesAgree(e) /\ BlocksAgree(e)
      /\ i \notin InUse(d) /\ \A j : j \in InUse(e) <=> j \in InUse(d) \/ j = i
      /\ \A j \in InUse(d) : Same(d, e, j)
      /\ \A j : j \in Directories(e) <=> j \in Directories(d) \/ (j = i /\ w.dir)
  <2>1. w.dir \in BOOLEAN
    BY DEF INODE
  <2> QED
    BY <1>0, <2>1, FiledAgrees
<1>3. i \in Inode /\ i # ROOT /\ e.inode[i] = w /\ Len(w.block) = 1 /\ w.block[1] = b
  BY <1>1, <1>2 DEF Filed
<1>4. D \in InUse(d) /\ D \in InUse(e) /\ D # i /\ Same(d, e, D)
  BY <1>1, <1>2
<1>5. Shape(e, D) /\ e.inode[D].dir
  <2>1. Shape(d, D)
    BY <1>0 DEF DirectoriesAgree
  <2>2. e.inode[D] = d.inode[D]
    BY <1>4 DEF Same
  <2> QED
    BY <1>1, <1>4, <2>1, <2>2, SameEntries
<1>6. PICK x : x = Named(i, name)
  OBVIOUS
<1>7. x \in Entry /\ x.inode = i /\ x.name = name
  BY <1>3, <1>6 DEF Named, Entry
<1>8. PICK f : f = r.disk
  OBVIOUS
<1>9. /\ r.ok /\ f \in Disk /\ BlocksAgree(f) /\ BlockCounts(f)
      /\ OthersSame(e, f, D) /\ SameInodes(e, f) /\ Blk(f, D, 1) = Blk(e, D, 1)
      /\ \E K \in Nat, S \in Slot : Added(e, f, D, x, K, S)
  BY <1>0, <1>2, <1>4, <1>5, <1>6, <1>7, <1>8, InsertEntry
<1>10. PICK K \in Nat, S \in Slot : Added(e, f, D, x, K, S)
  BY <1>9
<1>11. f.gd[0].free_inodes = d.gd[0].free_inodes
       /\ \A g \in Group : f.gd[g].free_inodes = d.gd[g].free_inodes
  BY <1>0, <1>9 DEF Filed, SameInodes
<1>12. Less1(d.gd[0].free_inodes) = d.gd[0].free_inodes - 1
       /\ d.gd[0].free_inodes >= 1
  <2>1. InodeGroup(i) = 0
    BY <1>3, FirstGroupInodes DEF Filed
  <2>2. i \in FreeInodes(d, 0)
    BY <1>3, <2>1 DEF FreeInodes, Filed
  <2>3. Cardinality(FreeInodes(d, 0)) # 0 /\ Cardinality(FreeInodes(d, 0)) \in Nat
    BY <2>2, FreeInodesFinite, FS_EmptySet
  <2>4. d.gd[0].free_inodes = Cardinality(FreeInodes(d, 0))
    BY <1>0 DEF InodeCounts
  <2> QED
    BY <2>3, <2>4 DEF Less1
<1>13. /\ h \in Disk /\ h.block_bitmap = f.block_bitmap /\ h.inode_bitmap = f.inode_bitmap
       /\ h.inode = f.inode /\ h.data = f.data
       /\ \A g \in Group : h.gd[g].free_blocks = f.gd[g].free_blocks
       /\ \A g \in Group : h.gd[g].free_inodes =
            IF g = 0 THEN d.gd[0].free_inodes - 1 ELSE f.gd[g].free_inodes
  <2>1. d.gd[0].free_inodes - 1 \in Nat
    BY <1>0, <1>12, DiskFacts
  <2>2. PICK y : y = [f.gd EXCEPT ![0].free_inodes = d.gd[0].free_inodes - 1]
    OBVIOUS
  <2>3. /\ y \in [Group -> [free_blocks : Nat, free_inodes : Nat]]
        /\ \A g \in Group : y[g].free_blocks = f.gd[g].free_blocks
        /\ \A g \in Group : y[g].free_inodes =
             IF g = 0 THEN d.gd[0].free_inodes - 1 ELSE f.gd[g].free_inodes
    BY <1>0, <1>9, <2>1, <2>2 DEF Disk
  <2>4. h = [f EXCEPT !.gd = y]
    BY <1>8, <1>9, <1>11, <1>12, <2>2 DEF Disk, Counted
  <2> QED
    BY <1>9, <2>3, <2>4 DEF Disk
<1>14. InUse(h) = InUse(e) /\ Directories(h) = Directories(e)
  BY <1>9, <1>13 DEF InUse, Directories, SameInodes
<1>15. \A j \in InUse(d) : j # D => Same(d, h, j)
  <2> SUFFICES ASSUME NEW j \in InUse(d), j # D PROVE Same(d, h, j)
    OBVIOUS
  <2>1. Same(d, e, j) /\ Same(e, f, j)
    BY <1>2, <1>9 DEF OthersSame
  <2>2. Same(f, h, j)
    BY <1>13 DEF Same
  <2> QED
    BY <2>1, <2>2, SameTrans
<1>16. h.inode[i] = w
  <2>1. Same(e, f, i)
    BY <1>2, <1>4, <1>9 DEF OthersSame
  <2> QED
    BY <1>3, <1>13, <2>1 DEF Same
<1>17. BlocksAgree(h) /\ BlockCounts(h)
  BY <1>9, <1>13, <1>14 DEF BlocksAgree, Own, Blk, InUse, BlockCounts, FreeBlocks
<1>18. InodeCounts(h)
  <2> SUFFICES ASSUME NEW g \in Group
               PROVE  h.gd[g].free_inodes = Cardinality(FreeInodes(h, g))
    BY DEF InodeCounts
  <2>1. InodeGroup(i) = 0
    BY <1>3, FirstGroupInodes DEF Filed
  <2>2. h.inode_bitmap = d.inode_bitmap \cup {i} /\ i \notin d.inode_bitmap
    BY <1>9, <1>13 DEF SameInodes, Filed
  <2>3. Cardinality(FreeInodes(h, g)) =
          IF g = 0 THEN Cardinality(FreeInodes(d, g)) - 1
          ELSE Cardinality(FreeInodes(d, g))
    BY <1>3, <2>1, <2>2, FreeInodesAfterTaking
  <2> QED
    BY <1>0, <1>11, <1>13, <2>3 DEF InodeCounts
<1>19. InodesAgree(h)
  <2>1. \A j \in Inode : h.inode[j].dir = e.inode[j].dir
    BY <1>9, <1>13 DEF SameInodes
  <2>2. h.inode_bitmap = e.inode_bitmap
    BY <1>9, <1>13 DEF SameInodes
  <2>3. ASSUME NEW j \in InUse(h)
        PROVE  Len(h.inode[j].block) >= 1 /\ BlockGroup(h.inode[j].block[1]) = 0
    <3>1. CASE j = D
      <4>1. Shape(f, D)
        BY <1>10 DEF Added
      <4>2. Len(f.inode[D].block) >= 1
        BY <4>1, ZenonT(60) DEF Shape
      <4>3. f.inode[D].block[1] = e.inode[D].block[1]
        BY <1>9 DEF Blk
      <4> QED
        BY <1>2, <1>4, <1>13, <3>1, <4>2, <4>3 DEF InodesAgree
    <3>2. CASE j # D
      <4>1. j \in InUse(e)
        BY <1>14
      <4>2. Same(e, f, j)
        BY <1>9, <3>2, <4>1 DEF OthersSame
      <4>3. h.inode[j] = e.inode[j]
        BY <1>13, <4>2 DEF Same
      <4> QED
        BY <1>2, <4>1, <4>3 DEF InodesAgree
    <3> QED
      BY <3>1, <3>2
  <2>4. \A j \in 1 .. ReservedInodes : j \in Inode
    BY Root, Constants
  <2> QED
    BY <1>0, <1>2, <2>1, <2>2, <2>3, <2>4 DEF InodesAgree
<1>20. Added(d, h, D, x, K, S)
  <2>1. \A k \in Nat, s \in Slot :
          /\ Has(e, D, k, s) <=> Has(d, D, k, s)
          /\ Has(d, D, k, s) => Ent(e, D, k, s) = Ent(d, D, k, s)
    BY <1>4, SameEntries
  <2>2. \A k, s : Has(h, D, k, s) <=> Has(f, D, k, s)
    BY <1>13 DEF Has
  <2>3. \A k, s : Ent(h, D, k, s) = Ent(f, D, k, s)
    BY <1>13 DEF Ent, Blk
  <2>4. Shape(f, D) => Shape(h, D)
    <3>1. Same(f, h, D)
      BY <1>13 DEF Same
    <3> QED
      BY <3>1, SameEntries
  <2> QED
    BY <1>10, <2>1, <2>2, <2>3, <2>4 DEF Added
<1>21. w.dir => /\ Shape(h, i) /\ Has(h, i, 1, 0) /\ Ent(h, i, 1, 0) = Named(i, ".")
                /\ Has(h, i, 1, 1) /\ Ent(h, i, 1, 1) = Named(D, "..")
                /\ \A k \in Nat, s \in Slot : ~Child(h, i, k, s)
  <2>1. NewDir(e, i, b, w, D) /\ w.block = <<b>>
    BY DEF Filed
  <2>2. h.data[b] = e.data[b]
    <3>1. Same(e, f, i)
      BY <1>2, <1>4, <1>9 DEF OthersSame
    <3>2. 1 \in 1 .. Len(e.inode[i].block) /\ Blk(e, i, 1) = b
      BY <1>3 DEF Blk
    <3> QED
      BY <1>13, <3>1, <3>2 DEF Same
  <2>3. NewDir(h, i, b, h.inode[i], D) /\ h.inode[i].block = <<b>>
    BY <1>16, <2>1, <2>2 DEF NewDir
  <2> QED
    BY <1>16, <2>3, NewDirectory
<1>22. DirectoriesAgree(h)
  <2>1. PICK N : N = IF w.dir THEN {x.inode} ELSE {}
    OBVIOUS
  <2>2. /\ N = {} \/ N = {x.inode}
        /\ Directories(h) = Directories(d) \cup N
    BY <1>2, <1>7, <1>14, <2>1
  <2>3. \A j \in InUse(d) : j \in InUse(h)
    BY <1>2, <1>14
  <2>4. \A j \in Directories(d) : j # D => Same(d, h, j)
    BY <1>1, <1>15
  <2>5. x.name \in Name /\ x.inode \in InUse(h) /\ x.inode # ROOT
    BY <1>2, <1>3, <1>7, <1>14
  <2>6. \A j \in Directories(d), k \in Nat, s \in Slot :
          Child(d, j, k, s) => Ent(d, j, k, s).inode # x.inode
    BY <1>0, <1>2, <1>7 DEF DirectoriesAgree, Filled
  <2>7. \A j \in N :
          /\ j \notin Directories(d) /\ Shape(h, j)
          /\ Has(h, j, 1, 0) /\ Ent(h, j, 1, 0) = Named(j, ".")
          /\ Has(h, j, 1, 1) /\ Ent(h, j, 1, 1) = Named(D, "..")
          /\ \A k \in Nat, s \in Slot : ~Child(h, j, k, s)
    BY <1>1, <1>2, <1>7, <1>21, <2>1
  <2> QED
    BY <1>0, <1>1, <1>20, <2>2, <2>3, <2>4, <2>5, <2>6, <2>7, DirectoriesGrow
<1>23. \A j, up \in Directories(d) : IsIn(d, j, up) => IsIn(h, j, up)
  <2> SUFFICES ASSUME NEW j \in Directories(d), NEW up \in Directories(d), IsIn(d, j, up)
               PROVE  IsIn(h, j, up)
    OBVIOUS
  <2>1. CASE up = D
    BY <1>20, <2>1 DEF IsIn, Added, Child
  <2>2. CASE up # D
    BY <1>1, <1>15, <2>2, SameIsIn
  <2> QED
    BY <2>1, <2>2
<1>24. h.inode_bitmap = d.inode_bitmap \cup {i}
  BY <1>9, <1>13 DEF SameInodes, Filed
<1>25. Enters(d, h, D, name, i)
  <2>1. PICK N : N = IF w.dir THEN {i} ELSE {}
    OBVIOUS
  <2>2. Directories(h) = Directories(d) \cup N
    BY <1>2, <1>14, <2>1
  <2>3. \A j \in Directories(d) : j # D => Same(d, h, j)
    BY <1>1, <1>15
  <2>4. \A j \in N, k \in Nat, s \in Slot : ~Child(h, j, k, s)
    BY <1>21, <2>1
  <2>5. Filled(d, D)
    BY <1>0 DEF DirectoriesAgree
  <2>6. Gains(d, h, <<D, x.name, x.inode>>)
    BY <1>20, <2>2, <2>3, <2>4, <2>5, EntriesGrow
  <2>7. \A j : j # i => (j \in Directories(h) <=> j \in Directories(d))
    BY <2>1, <2>2
  <2> QED
    BY <1>2, <1>3, <1>7, <1>14, <2>6, <2>7 DEF Enters
<1> QED
  BY <1>2, <1>9, <1>13, <1>14, <1>15, <1>16, <1>17, <1>18, <1>19, <1>22, <1>23, <1>24,
     <1>25 DEF DiskAgrees

\* A file of size 0, or a directory, is new.
LEMMA NewFile ==
  ASSUME NEW d, DirectoriesAgree(d), NEW D \in Directories(d), NEW h, NEW name,
         NEW i \in Inode, Enters(d, h, D, name, i), \A j \in InUse(d) : j # D => Same(d, h, j),
         i \in Directories(h) \/ h.inode[i].size = 0, Len(h.inode[i].block) \in Nat
  PROVE  FilesChange(d, h)
<1> SUFFICES ASSUME NEW j \in InUse(h), j \notin Directories(h)
             PROVE  \/ j \in InUse(d) /\ j \notin Directories(d) /\ Same(d, h, j)
                    \/ Stored(h, j)
  BY DEF FilesChange
<1>1. CASE j # i
  <2>1. j \in InUse(d) /\ j \notin Directories(d)
    BY <1>1 DEF Enters
  <2> QED
    BY <2>1
<1>2. CASE j = i
  <2>1. PICK n \in Nat, E \in Nat \ {0} : n = Len(h.inode[i].block) /\ E = EntriesPerBlock
    BY Constants
  <2>2. h.inode[i].size = 0
    BY <1>2
  <2>3. Roomy(h, i)
    <3>1. 0 <= n * E
      BY <2>1, Multiply
    <3> QED
      BY <2>1, <2>2, <3>1 DEF Roomy
  <2>4. Holds(h, i)
    <3> SUFFICES ASSUME NEW k \in 1 .. n, NEW s \in Slot, (k - 1) * E + s < 0
                 PROVE  FALSE
      BY <2>1, <2>2 DEF Holds
    <3>1. (k - 1) * E \in Nat /\ s \in Nat
      BY <2>1, Multiply DEF Slot
    <3> QED
      BY <3>1
  <2> QED
    BY <1>2, <2>3, <2>4 DEF Stored
<1> QED
  BY <1>1, <1>2

\* The result r of ext2_create or ext2_mkdir on disk d.
Created(d, r) ==
  /\ DiskAgrees(r.disk) /\ r.group = 0
  /\ \A j \in Directories(d) : j \in Directories(r.disk)
  /\ \A j, up \in Directories(d) : IsIn(d, j, up) => IsIn(r.disk, j, up)
  /\ r.inode = 0 => r.disk = d
  /\ r.inode # 0 =>
       /\ r.inode \in InUse(r.disk) /\ r.inode \in 1 .. inode_per_group
       /\ r.disk.inode_bitmap = d.inode_bitmap \cup {r.inode}
       /\ \A k \in 1 .. r.inode - 1 : k \in d.inode_bitmap
       /\ Cardinality(FreeBlocks(d, 0)) >= 3

\* No group takes an inode.
LEMMA NoRoom ==
  ASSUME NEW d, DiskAgrees(d), GroupsWithRoom(d) = {}
  PROVE  /\ NewInode(d) = [disk |-> d, inode |-> 0, group |-> 0, block |-> 0]
         /\ Created(d, Failed(d)) /\ Failed(d).inode = 0
<1>1. NewInode(d) = [disk |-> d, inode |-> 0, group |-> 0, block |-> 0]
  BY DEF NewInode, alloc_free_inode
<1>2. Failed(d).disk = d /\ Failed(d).inode = 0 /\ Failed(d).group = 0
  BY DEF Failed
<1> QED
  BY <1>1, <1>2 DEF Created

LEMMA CreateAgrees ==
  ASSUME NEW d, DiskAgrees(d), NEW D \in Directories(d), NEW name \in Name,
         0 \in GroupsWithRoom(d) \/ GroupsWithRoom(d) = {},
         NEW r, r = ext2_create(d, D, name)
  PROVE  /\ Created(d, r)
         /\ r.inode # 0 => /\ r.disk.inode[r.inode].dir = FALSE
                           /\ r.disk.inode[r.inode].size = 0
                           /\ Len(r.disk.inode[r.inode].block) = 1
                           /\ Enters(d, r.disk, D, name, r.inode)
                           /\ \A j \in InUse(d) : j # D => Same(d, r.disk, j)
         /\ FilesChange(d, r.disk)
<1>1. CASE GroupsWithRoom(d) = {}
  <2>1. NewInode(d).block = 0 /\ NewInode(d).disk = d
    BY <1>1, NoRoom
  <2>2. r = Failed(d)
    BY <2>1 DEF ext2_create
  <2>3. r.disk = d
    BY <2>2 DEF Failed
  <2> QED
    BY <1>1, <2>2, <2>3, NoRoom, FilesStay
<1>2. CASE 0 \in GroupsWithRoom(d)
  <2>0. /\ d \in Disk /\ InodesAgree(d) /\ BlocksAgree(d) /\ BlockCounts(d)
        /\ InodeCounts(d)
    BY DEF DiskAgrees
  <2>1. PICK new : new = NewInode(d)
    OBVIOUS
  <2>2. PICK i : i = new.inode
    OBVIOUS
  <2>3. PICK b : b = new.block
    OBVIOUS
  <2>4. PICK f : f = new.disk
    OBVIOUS
  <2>5. /\ i \in Inode \ d.inode_bitmap /\ i \in 1 .. inode_per_group
        /\ i \notin 1 .. ReservedInodes
        /\ \A k \in 1 .. i - 1 : k \in d.inode_bitmap
        /\ new.group = 0 /\ b # 0 /\ BlockGroup(b) = 0
        /\ b \in Block /\ b \notin MetadataBlocks /\ b \notin d.block_bitmap
        /\ f \in Disk /\ BlockCounts(f)
        /\ f.block_bitmap = d.block_bitmap \cup {b}
        /\ f.inode_bitmap = d.inode_bitmap \cup {i}
        /\ f.inode = d.inode
        /\ \A c \in Block : f.data[c] = IF c = b THEN Zeroed ELSE d.data[c]
        /\ \A g \in Group : f.gd[g].free_inodes = d.gd[g].free_inodes
        /\ Cardinality(FreeBlocks(d, 0)) >= 3
        /\ FreeBlocks(f, 0) # {}
    BY <1>2, <2>0, <2>1, <2>2, <2>3, <2>4, NewInodeFacts
  <2>6. PICK w : w = [dir |-> FALSE, size |-> 0, block |-> <<b>>]
    OBVIOUS
  <2>7. w \in INODE /\ w.dir = FALSE /\ w.size = 0 /\ w.block = <<b>> /\ Len(w.block) = 1
    BY <2>5, <2>6 DEF INODE
  <2>8. PICK e : e = [f EXCEPT !.inode[i] = w]
    OBVIOUS
  <2>9. /\ e \in Disk /\ e.block_bitmap = f.block_bitmap /\ e.inode_bitmap = f.inode_bitmap
        /\ e.gd = f.gd /\ e.data = f.data
        /\ \A j \in Inode : e.inode[j] = IF j = i THEN w ELSE f.inode[j]
    BY <2>5, <2>7, <2>8, SetInode
  <2>10. BlockCounts(e) /\ FreeBlocks(e, 0) # {}
    BY <2>5, <2>9 DEF BlockCounts, FreeBlocks
  <2>11. Filed(d, e, i, b, w)
    BY <2>5, <2>7, <2>9 DEF Filed
  <2>12. NewDir(e, i, b, w, D)
    BY <2>7 DEF NewDir
  <2>13. PICK a : a = insert_entry(e, D, Named(i, name))
    OBVIOUS
  <2>14. PICK h : h = Counted(a.disk)
    OBVIOUS
  <2>15. /\ a.ok /\ DiskAgrees(h)
         /\ h.inode_bitmap = d.inode_bitmap \cup {i} /\ h.inode[i] = w /\ i \in InUse(h)
         /\ \A j \in Directories(d) : j \in Directories(h)
         /\ \A j, up \in Directories(d) : IsIn(d, j, up) => IsIn(h, j, up)
         /\ Enters(d, h, D, name, i)
         /\ \A j \in InUse(d) : j # D => Same(d, h, j)
    BY <2>7, <2>9, <2>10, <2>11, <2>12, <2>13, <2>14, EnterNew
  <2>16. r = [disk |-> h, inode |-> i, group |-> 0]
    <3>1. r = Succeeded(a.disk, new)
      BY <2>1, <2>2, <2>3, <2>4, <2>5, <2>6, <2>8, <2>13, <2>15 DEF ext2_create
    <3> QED
      BY <2>2, <2>5, <2>14, <3>1 DEF Succeeded, Counted
  <2>17. FilesChange(d, h)
    BY <2>5, <2>7, <2>15, NewFile DEF DiskAgrees
  <2>18. r.disk = h /\ r.inode = i /\ r.group = 0 /\ i # 0
    BY <2>5, <2>16 DEF Inode
  <2>19. Created(d, r)
    BY <2>5, <2>15, <2>18 DEF Created
  <2> QED
    BY <2>7, <2>15, <2>17, <2>18, <2>19
<1> QED
  BY <1>1, <1>2

LEMMA MkdirAgrees ==
  ASSUME NEW d, DiskAgrees(d), NEW D \in Directories(d), NEW name \in Name,
         0 \in GroupsWithRoom(d) \/ GroupsWithRoom(d) = {},
         NEW r, r = ext2_mkdir(d, D, name)
  PROVE  /\ Created(d, r)
         /\ r.inode # 0 => Enters(d, r.disk, D, name, r.inode)
         /\ FilesChange(d, r.disk)
<1>1. CASE GroupsWithRoom(d) = {}
  <2>1. NewInode(d).block = 0 /\ NewInode(d).disk = d
    BY <1>1, NoRoom
  <2>2. r = Failed(d)
    BY <2>1 DEF ext2_mkdir
  <2>3. r.disk = d
    BY <2>2 DEF Failed
  <2> QED
    BY <1>1, <2>2, <2>3, NoRoom, FilesStay
<1>2. CASE 0 \in GroupsWithRoom(d)
  <2>0. /\ d \in Disk /\ InodesAgree(d) /\ BlocksAgree(d) /\ BlockCounts(d)
        /\ InodeCounts(d)
        /\ 0 \in Slot /\ 1 \in Slot /\ Slot \subseteq Nat
    BY Constants DEF DiskAgrees, Slot
  <2>1. PICK new : new = NewInode(d)
    OBVIOUS
  <2>2. PICK i : i = new.inode
    OBVIOUS
  <2>3. PICK b : b = new.block
    OBVIOUS
  <2>4. PICK f : f = new.disk
    OBVIOUS
  <2>5. /\ i \in Inode \ d.inode_bitmap /\ i \in 1 .. inode_per_group
        /\ i \notin 1 .. ReservedInodes
        /\ \A k \in 1 .. i - 1 : k \in d.inode_bitmap
        /\ new.group = 0 /\ b # 0 /\ BlockGroup(b) = 0 /\ WholeDisk(0, b) = b
        /\ b \in Block /\ b \notin MetadataBlocks /\ b \notin d.block_bitmap
        /\ f \in Disk /\ BlockCounts(f)
        /\ f.block_bitmap = d.block_bitmap \cup {b}
        /\ f.inode_bitmap = d.inode_bitmap \cup {i}
        /\ f.inode = d.inode
        /\ \A c \in Block : f.data[c] = IF c = b THEN Zeroed ELSE d.data[c]
        /\ \A g \in Group : f.gd[g].free_inodes = d.gd[g].free_inodes
        /\ Cardinality(FreeBlocks(d, 0)) >= 3
        /\ FreeBlocks(f, 0) # {}
    BY <1>2, <2>0, <2>1, <2>2, <2>3, <2>4, NewInodeFacts
  <2>6. PICK w : w = [dir |-> TRUE, size |-> 2, block |-> <<b>>]
    OBVIOUS
  <2>7. w \in INODE /\ w.dir = TRUE /\ w.size = 2 /\ w.block = <<b>>
    BY <2>5, <2>6 DEF INODE
  <2>8. PICK e1 : e1 = [f EXCEPT !.inode[i] = w]
    OBVIOUS
  <2>9. /\ e1 \in Disk /\ e1.block_bitmap = f.block_bitmap
        /\ e1.inode_bitmap = f.inode_bitmap /\ e1.gd = f.gd /\ e1.data = f.data
        /\ \A j \in Inode : e1.inode[j] = IF j = i THEN w ELSE f.inode[j]
    BY <2>5, <2>7, <2>8, SetInode
  <2>10. PICK z : z = [Zeroed EXCEPT ![0] = Named(i, "."), ![1] = Named(D, "..")]
    OBVIOUS
  <2>11. /\ z \in [Slot -> Entry] /\ z[0] = Named(i, ".") /\ z[1] = Named(D, "..")
         /\ \A s \in Slot : s > 1 => z[s].name = ""
    <3>1. Named(i, ".") \in Entry /\ Named(D, "..") \in Entry
      BY <2>5 DEF Named, Entry, Directories
    <3>2. NoEntry.name = ""
      BY DEF NoEntry
    <3>3. PICK p, q : p = Named(i, ".") /\ q = Named(D, "..")
      OBVIOUS
    <3>4. PICK y : y = [Zeroed EXCEPT ![0] = p]
      OBVIOUS
    <3>5. z = [y EXCEPT ![1] = q]
      BY <2>10, <3>3, <3>4
    <3>6. /\ y \in [Slot -> Entry]
          /\ \A s \in Slot : y[s] = IF s = 0 THEN p ELSE NoEntry
      BY <2>0, <3>1, <3>3, <3>4, ZeroedType
    <3>7. /\ z \in [Slot -> Entry]
          /\ \A s \in Slot : z[s] = IF s = 1 THEN q ELSE y[s]
      BY <2>0, <3>1, <3>3, <3>5, <3>6
    <3>8. \A s \in Slot : s > 1 => s # 0 /\ s # 1
      BY <2>0
    <3> QED
      <4>1. y[0] = p /\ z[0] = y[0] /\ z[1] = q
        BY <2>0, <3>6, <3>7
      <4>2. \A s \in Slot : s > 1 => z[s] = NoEntry
        BY <3>6, <3>7, <3>8
      <4> QED
        BY <3>2, <3>3, <3>7, <4>1, <4>2
  <2>12. PICK e : e = [e1 EXCEPT !.data[b] = z]
    OBVIOUS
  <2>13. /\ e \in Disk /\ e.block_bitmap = e1.block_bitmap
         /\ e.inode_bitmap = e1.inode_bitmap /\ e.gd = e1.gd /\ e.inode = e1.inode
         /\ \A c \in Block : e.data[c] = IF c = b THEN z ELSE e1.data[c]
    <3>1. e1 \in Disk /\ b \in Block /\ z \in [Slot -> Entry]
      BY <2>5, <2>9, <2>11
    <3> QED
      BY <2>12, <3>1, SetContents
  <2>14. BlockCounts(e) /\ FreeBlocks(e, 0) # {}
    BY <2>5, <2>9, <2>13 DEF BlockCounts, FreeBlocks
  <2>15. Filed(d, e, i, b, w)
    BY <2>5, <2>7, <2>9, <2>13 DEF Filed
  <2>16. NewDir(e, i, b, w, D)
    BY <2>5, <2>7, <2>11, <2>13 DEF NewDir
  <2>17. PICK a : a = insert_entry(e, D, Named(i, name))
    OBVIOUS
  <2>18. PICK h : h = Counted(a.disk)
    OBVIOUS
  <2>19. /\ DiskAgrees(h)
         /\ h.inode_bitmap = d.inode_bitmap \cup {i} /\ i \in InUse(h) /\ h.inode[i] = w
         /\ \A j \in Directories(d) : j \in Directories(h)
         /\ \A j, up \in Directories(d) : IsIn(d, j, up) => IsIn(h, j, up)
         /\ Enters(d, h, D, name, i)
         /\ \A j \in InUse(d) : j # D => Same(d, h, j)
    BY <2>7, <2>13, <2>14, <2>15, <2>16, <2>17, <2>18, EnterNew
  <2>20. r = [disk |-> h, inode |-> i, group |-> 0]
    <3>1. r = Succeeded(a.disk, new)
      BY <2>1, <2>2, <2>3, <2>4, <2>5, <2>6, <2>8, <2>10, <2>12, <2>17 DEF ext2_mkdir
    <3> QED
      BY <2>2, <2>5, <2>18, <3>1 DEF Succeeded, Counted
  <2>21. FilesChange(d, h)
    <3>1. i \in Directories(h) /\ Len(h.inode[i].block) \in Nat
      BY <2>5, <2>7, <2>19 DEF Directories
    <3> QED
      BY <2>5, <2>19, <3>1, NewFile DEF DiskAgrees
  <2> QED
    BY <2>5, <2>19, <2>20, <2>21 DEF Created
<1> QED
  BY <1>1, <1>2

-----------------------------------------------------------------------------
(* Giving back *)

\* The blocks of B are given back.
GaveBack(d, e, B) ==
  /\ e.block_bitmap = d.block_bitmap \ B /\ e.inode_bitmap = d.inode_bitmap
  /\ e.inode = d.inode /\ e.data = d.data
  /\ \A g \in Group : e.gd[g].free_inodes = d.gd[g].free_inodes

LEMMA ReleasedFacts ==
  ASSUME NEW d \in Disk, BlockCounts(d), NEW B, B \subseteq d.block_bitmap,
         B \cap MetadataBlocks = {}
  PROVE  /\ Released(d, B) \in Disk /\ BlockCounts(Released(d, B))
         /\ GaveBack(d, Released(d, B), B)
<1>1. B \subseteq Block \ MetadataBlocks
  BY DiskFacts
<1>2. PICK f : f = release_block(d, B)
  OBVIOUS
<1>3. /\ f \in Disk /\ f.block_bitmap = d.block_bitmap \ B /\ f.gd = d.gd
      /\ f.inode_bitmap = d.inode_bitmap /\ f.inode = d.inode /\ f.data = d.data
  <2>1. PICK z : z = d.block_bitmap \ B
    OBVIOUS
  <2>2. f = [d EXCEPT !.block_bitmap = z]
    BY <1>2, <2>1 DEF release_block
  <2>3. z \in SUBSET Block
    BY <2>1, DiskFacts
  <2> QED
    BY <2>1, <2>2, <2>3 DEF Disk
<1>4. PICK c : c = [g \in Group |-> Cardinality({b \in B : BlockGroup(b) = g})]
  OBVIOUS
<1>5. \A g \in Group :
        /\ c[g] \in Nat /\ c[g] = Cardinality({b \in B : BlockGroup(b) = g})
        /\ Cardinality(FreeBlocks(f, g)) = Cardinality(FreeBlocks(d, g)) + c[g]
  <2> SUFFICES ASSUME NEW g \in Group
               PROVE  /\ c[g] \in Nat /\ c[g] = Cardinality({b \in B : BlockGroup(b) = g})
                      /\ Cardinality(FreeBlocks(f, g)) =
                           Cardinality(FreeBlocks(d, g)) + c[g]
    OBVIOUS
  <2>1. c[g] = Cardinality({b \in B : BlockGroup(b) = g})
    BY <1>4
  <2>2. /\ InGroup(B, g) \in Nat
        /\ Cardinality(FreeBlocks(f, g)) =
             Cardinality(FreeBlocks(d, g)) + InGroup(B, g)
    <3>1. Cleared(d, f, B)
      BY <1>1, <1>3 DEF Cleared
    <3> QED
      BY <3>1, FreeAfterReleasing, ZenonT(60)
  <2> QED
    BY <2>1, <2>2 DEF InGroup
<1>6. PICK y : y = [g \in Group |-> [f.gd[g] EXCEPT !.free_blocks = @ + c[g]]]
  OBVIOUS
<1>7. /\ y \in [Group -> [free_blocks : Nat, free_inodes : Nat]]
      /\ \A g \in Group : y[g].free_blocks = d.gd[g].free_blocks + c[g]
      /\ \A g \in Group : y[g].free_inodes = d.gd[g].free_inodes
  <2>1. ASSUME NEW g \in Group
        PROVE  /\ y[g] \in [free_blocks : Nat, free_inodes : Nat]
               /\ y[g].free_blocks = d.gd[g].free_blocks + c[g]
               /\ y[g].free_inodes = d.gd[g].free_inodes
    <3>1. PICK p \in [free_blocks : Nat, free_inodes : Nat] : p = d.gd[g]
      BY DEF Disk
    <3>2. y[g] = [p EXCEPT !.free_blocks = @ + c[g]]
      BY <1>3, <1>6, <3>1
    <3>3. c[g] \in Nat
      BY <1>5
    <3> QED
      BY <3>1, <3>2, <3>3
  <2>2. DOMAIN y = Group /\ y = [g \in Group |-> y[g]]
    BY <1>6
  <2> QED
    BY <2>1, <2>2
<1>8. PICK e : e = Released(d, B)
  OBVIOUS
<1>9. e = [f EXCEPT !.gd = y]
  <2>1. y = [g \in Group |-> [f.gd[g] EXCEPT !.free_blocks =
                @ + Cardinality({b \in B : BlockGroup(b) = g})]]
    BY <1>4, <1>6
  <2> QED
    BY <1>2, <1>8, <2>1 DEF Released, increase_free_block
<1>10. /\ e \in Disk /\ e.gd = y /\ e.block_bitmap = f.block_bitmap
       /\ e.inode_bitmap = f.inode_bitmap /\ e.inode = f.inode /\ e.data = f.data
  BY <1>3, <1>7, <1>9 DEF Disk
<1>11. BlockCounts(e)
  <2>1. \A g \in Group : FreeBlocks(e, g) = FreeBlocks(f, g)
    BY <1>10 DEF FreeBlocks
  <2> QED
    BY <1>5, <1>7, <1>10, <2>1 DEF BlockCounts
<1> QED
  BY <1>3, <1>7, <1>8, <1>10, <1>11 DEF GaveBack

\* e is d with entry x in slot t of block b and one entry less in inode i.
Unwrote(d, e, i, b, t, x) ==
  /\ e.block_bitmap = d.block_bitmap /\ e.inode_bitmap = d.inode_bitmap
  /\ e.gd = d.gd
  /\ \A j \in Inode : j # i => e.inode[j] = d.inode[j]
  /\ e.inode[i].block = d.inode[i].block /\ e.inode[i].size = d.inode[i].size - 1
  /\ e.inode[i].dir = d.inode[i].dir
  /\ \A c \in Block : c # b => e.data[c] = d.data[c]
  /\ \A s \in Slot : e.data[b][s] = IF s = t THEN x ELSE d.data[b][s]

LEMMA UnwriteEntry ==
  ASSUME NEW d \in Disk, NEW i \in Inode, d.inode[i].size >= 1,
         NEW b \in Block, NEW t \in Slot, NEW x \in Entry
  PROVE  /\ [d EXCEPT !.inode[i].size = @ - 1, !.data[b][t] = x] \in Disk
         /\ Unwrote(d, [d EXCEPT !.inode[i].size = @ - 1, !.data[b][t] = x], i, b, t, x)
<1>1. PICK u : u = [d.inode EXCEPT ![i].size = @ - 1]
  OBVIOUS
<1>2. /\ u \in [Inode -> INODE]
      /\ \A j \in Inode : j # i => u[j] = d.inode[j]
      /\ u[i].block = d.inode[i].block /\ u[i].size = d.inode[i].size - 1
      /\ u[i].dir = d.inode[i].dir
  <2>1. PICK p \in INODE : p = d.inode[i]
    BY DiskFacts
  <2>2. PICK w : w = [p EXCEPT !.size = @ - 1]
    OBVIOUS
  <2>3. w \in INODE /\ w.block = p.block /\ w.size = p.size - 1 /\ w.dir = p.dir
    <3>1. p.size \in Nat /\ p.size >= 1
      BY <2>1 DEF INODE
    <3> QED
      BY <2>2, <3>1 DEF INODE
  <2>4. u = [d.inode EXCEPT ![i] = w]
    BY <1>1, <2>1, <2>2
  <2>5. d.inode \in [Inode -> INODE]
    BY DEF Disk
  <2> QED
    BY <2>1, <2>3, <2>4, <2>5
<1>3. PICK v : v = [d.data EXCEPT ![b][t] = x]
  OBVIOUS
<1>4. /\ v \in [Block -> [Slot -> Entry]]
      /\ \A c \in Block : c # b => v[c] = d.data[c]
      /\ \A s \in Slot : v[b][s] = IF s = t THEN x ELSE d.data[b][s]
  BY <1>3 DEF Disk
<1>5. PICK e : e = [d EXCEPT !.inode[i].size = @ - 1, !.data[b][t] = x]
  OBVIOUS
<1>6. e = [d EXCEPT !.inode = u, !.data = v]
  BY <1>1, <1>3, <1>5 DEF Disk
<1>7. e \in Disk
  BY <1>2, <1>4, <1>6 DEF Disk
<1>8. /\ e.inode = u /\ e.data = v /\ e.gd = d.gd
      /\ e.block_bitmap = d.block_bitmap /\ e.inode_bitmap = d.inode_bitmap
  BY <1>6 DEF Disk
<1> QED
  BY <1>2, <1>4, <1>5, <1>7, <1>8 DEF Unwrote

\* e is d without the last block of inode i in its list.
Dropped(d, e, i) ==
  /\ e.block_bitmap = d.block_bitmap /\ e.inode_bitmap = d.inode_bitmap
  /\ e.gd = d.gd /\ e.data = d.data
  /\ \A j \in Inode : j # i => e.inode[j] = d.inode[j]
  /\ e.inode[i].size = d.inode[i].size /\ e.inode[i].dir = d.inode[i].dir
  /\ e.inode[i].block = Front(d.inode[i].block)

LEMMA DropLast ==
  ASSUME NEW d \in Disk, NEW i \in Inode, Len(d.inode[i].block) >= 1
  PROVE  /\ [d EXCEPT !.inode[i].block = Front(@)] \in Disk
         /\ Dropped(d, [d EXCEPT !.inode[i].block = Front(@)], i)
         /\ Len(Front(d.inode[i].block)) = Len(d.inode[i].block) - 1
         /\ \A k \in 1 .. Len(d.inode[i].block) - 1 :
              Front(d.inode[i].block)[k] = d.inode[i].block[k]
<1>1. PICK p \in INODE : p = d.inode[i]
  BY DiskFacts
<1>2. PICK q : q = p.block
  OBVIOUS
<1>3. q \in Seq(Block) /\ Len(q) >= 1 /\ Len(q) \in Nat
  BY <1>1, <1>2, DiskFacts
<1>4. PICK f : f = Front(q)
  OBVIOUS
<1>5. /\ f \in Seq(Block) /\ Len(f) = Len(q) - 1
      /\ \A k \in 1 .. Len(q) - 1 : f[k] = q[k]
  BY <1>3, <1>4, FrontFacts
<1>6. PICK w : w = [p EXCEPT !.block = f]
  OBVIOUS
<1>7. w \in INODE /\ w.block = f /\ w.size = p.size /\ w.dir = p.dir
  BY <1>5, <1>6 DEF INODE
<1>8. PICK e : e = [d EXCEPT !.inode[i].block = Front(@)]
  OBVIOUS
<1>9. e = [d EXCEPT !.inode[i] = w]
  BY <1>1, <1>2, <1>4, <1>6, <1>8
<1>10. /\ e \in Disk /\ e.block_bitmap = d.block_bitmap
       /\ e.inode_bitmap = d.inode_bitmap /\ e.gd = d.gd /\ e.data = d.data
       /\ \A j \in Inode : e.inode[j] = IF j = i THEN w ELSE d.inode[j]
  BY <1>7, <1>9, SetInode
<1>11. f = Front(d.inode[i].block) /\ q = d.inode[i].block
  BY <1>1, <1>2, <1>4
<1>12. Dropped(d, e, i)
  BY <1>1, <1>7, <1>10, <1>11 DEF Dropped
<1> QED
  BY <1>5, <1>8, <1>10, <1>11, <1>12

LEMMA UnwroteOwn ==
  ASSUME NEW d \in Disk, NEW e, BlocksAgree(d), NEW i \in Inode, NEW k \in Nat,
         Own(d, i, k), NEW t, NEW x, Unwrote(d, e, i, Blk(d, i, k), t, x)
  PROVE  /\ BlocksAgree(e) /\ OthersSame(d, e, i) /\ SameInodes(d, e)
         /\ BlockCounts(d) => BlockCounts(e)
         /\ InUse(e) = InUse(d)
<1>1. InUse(e) = InUse(d)
  BY DEF Unwrote, InUse
<1>2. /\ \A j \in Inode, l \in Nat : Own(e, j, l) <=> Own(d, j, l)
      /\ \A j \in Inode, l \in Nat : Own(d, j, l) => Blk(e, j, l) = Blk(d, j, l)
  BY <1>1 DEF Unwrote, Own, Blk
<1>3. BlocksAgree(e)
  <2>1. e.block_bitmap = d.block_bitmap
    BY DEF Unwrote
  <2> QED
    BY <1>2, <2>1, OwnSame
<1>4. BlockCounts(d) => BlockCounts(e)
  BY DEF Unwrote, BlockCounts, FreeBlocks
<1>5. OthersSame(d, e, i)
  <2> SUFFICES ASSUME NEW j \in InUse(d), j # i PROVE Same(d, e, j)
    BY DEF OthersSame
  <2>1. j \in Inode
    BY DEF InUse
  <2>2. ASSUME NEW l \in 1 .. Len(d.inode[j].block)
        PROVE  e.data[Blk(d, j, l)] = d.data[Blk(d, j, l)]
    <3>1. Own(d, j, l) /\ l \in Nat /\ Blk(d, j, l) \in Block
      BY <2>1, DiskFacts DEF Own, Blk
    <3>2. Blk(d, j, l) # Blk(d, i, k)
      BY <2>1, <3>1 DEF BlocksAgree
    <3> QED
      BY <3>1, <3>2 DEF Unwrote
  <2> QED
    BY <2>1, <2>2 DEF Same, Unwrote
<1>6. SameInodes(d, e)
  BY DEF SameInodes, Unwrote
<1> QED
  BY <1>1, <1>3, <1>4, <1>5, <1>6

\* What is known of a directory and of one of its children.
LEMMA ChildFacts ==
  ASSUME NEW d \in Disk, NEW D \in InUse(d), Shape(d, D),
         NEW K \in Nat, NEW S \in Slot, Child(d, D, K, S),
         NEW n, n = Len(d.inode[D].block), NEW t, t = Level(d.inode[D]),
         NEW z, z = d.inode[D].size
  PROVE  /\ n \in Nat /\ n \in Nat \ {0} /\ n >= 1 /\ z \in Nat /\ z >= 2 /\ D \in Inode
         /\ t \in 1 .. EntriesPerBlock /\ t - 1 \in Slot
         /\ t = z - (n - 1) * EntriesPerBlock
         /\ K \in 1 .. n /\ S \in Nat
         /\ K < n \/ S < t
         /\ Child(d, D, n, t - 1)
         /\ t = 1 => n >= 2
<1>0. D \in Inode /\ EntriesPerBlock \in Nat /\ EntriesPerBlock >= 3
  BY Constants DEF InUse
<1>1. n \in Nat /\ z \in Nat
  BY <1>0, DiskFacts
<1>2. n >= 1 /\ t \in 1 .. EntriesPerBlock /\ z >= 2
  BY ZenonT(60) DEF Shape
<1>3. t = z - (n - 1) * EntriesPerBlock
  BY ZenonT(60) DEF Level
<1>4. t \in Nat /\ t >= 1 /\ t - 1 \in Slot /\ S \in Nat /\ n \in 1 .. n
  BY <1>0, <1>1, <1>2 DEF Slot
<1>5. K \in 1 .. n /\ (K < n \/ S < t) /\ (K > 1 \/ S > 1)
  BY DEF Child, Has
<1>6. Has(d, D, n, t - 1)
  <2>1. t - 1 < t
    BY <1>4
  <2> QED
    BY <1>4, <2>1 DEF Has
<1>7. n > 1 \/ t - 1 > 1
  BY <1>1, <1>2, <1>4, <1>5
<1>8. t = 1 => n >= 2
  BY <1>1, <1>2, <1>4, <1>7
<1> QED
  BY <1>0, <1>1, <1>2, <1>3, <1>4, <1>5, <1>6, <1>7, <1>8 DEF Child

\* The last entry is not alone in its block.
LEMMA RemoveInside ==
  ASSUME NEW d \in Disk, NEW D \in InUse(d), BlocksAgree(d), BlockCounts(d), Shape(d, D),
         NEW K \in Nat, NEW S \in Slot, Child(d, D, K, S),
         NEW n, n = Len(d.inode[D].block), NEW t, t = Level(d.inode[D]), t # 1,
         NEW v, v = IF K = n /\ S = t - 1 THEN NoEntry ELSE Ent(d, D, n, t - 1),
         NEW f \in Disk, SlotSet(d, f, Blk(d, D, n), t - 1, NoEntry),
         NEW e, Unwrote(f, e, D, Blk(d, D, K), S, v)
  PROVE  /\ BlocksAgree(e) /\ BlockCounts(e) /\ SameInodes(d, e) /\ OthersSame(d, e, D)
         /\ Blk(e, D, 1) = Blk(d, D, 1) /\ Removed(d, e, D, K, S, n, t - 1)
<1>1. PICK z : z = d.inode[D].size
  OBVIOUS
<1>2. /\ n \in Nat /\ n \in Nat \ {0} /\ n >= 1 /\ z \in Nat /\ z >= 2 /\ D \in Inode
      /\ t \in 1 .. EntriesPerBlock /\ t - 1 \in Slot
      /\ t = z - (n - 1) * EntriesPerBlock
      /\ K \in 1 .. n /\ S \in Nat
      /\ Child(d, D, n, t - 1)
  BY <1>1, ChildFacts, SMTT(60)
<1>3. /\ EntriesPerBlock \in Nat /\ EntriesPerBlock >= 3 /\ t \in Nat
      /\ \A s \in Slot : s \in Nat /\ s < EntriesPerBlock
  BY <1>2, Constants DEF Slot
<1>4. \A k \in 1 .. n : Own(d, D, k) /\ k \in Nat
  BY <1>2 DEF Own
<1>5. n \in 1 .. n
  BY <1>2
<1>6. /\ BlocksAgree(f) /\ OthersSame(d, f, D) /\ BlockCounts(f) /\ InUse(f) = InUse(d)
  BY <1>2, <1>4, <1>5, WriteOwn
<1>7. \A k \in Nat : /\ Blk(f, D, k) = Blk(d, D, k) /\ Own(f, D, k) <=> Own(d, D, k)
  BY <1>6 DEF SlotSet, Blk, Own
<1>8. /\ BlocksAgree(e) /\ OthersSame(f, e, D) /\ SameInodes(f, e) /\ BlockCounts(e)
  <2>1. Own(f, D, K) /\ Unwrote(f, e, D, Blk(f, D, K), S, v)
    BY <1>2, <1>4, <1>7
  <2> QED
    BY <1>2, <1>6, <2>1, UnwroteOwn
<1>9. OthersSame(d, e, D)
  BY <1>6, <1>8, SameTrans DEF OthersSame
<1>10. SameInodes(d, e)
  BY <1>8 DEF SameInodes, SlotSet
<1>11. /\ e.inode[D].block = d.inode[D].block /\ Len(e.inode[D].block) = n
       /\ e.inode[D].size = z - 1
       /\ \A k \in Nat : Blk(e, D, k) = Blk(d, D, k)
  BY <1>1 DEF SlotSet, Unwrote, Blk
<1>12. Level(e.inode[D]) = t - 1
  <2>1. z - 1 - (n - 1) * EntriesPerBlock = t - 1
    BY <1>2, Sizes
  <2>2. Level(e.inode[D]) = (z - 1) - (n - 1) * EntriesPerBlock
    BY <1>11, ZenonT(60) DEF Level
  <2> QED
    BY <1>2, <1>3, <2>1, <2>2
<1>13. \A k \in Nat, s \in Slot : Has(e, D, k, s) <=> Has(d, D, k, s) /\ ~(k = n /\ s = t - 1)
  <2> SUFFICES ASSUME NEW k \in Nat, NEW s \in Slot
               PROVE  Has(e, D, k, s) <=> Has(d, D, k, s) /\ ~(k = n /\ s = t - 1)
    OBVIOUS
  <2>1. s < t - 1 <=> s < t /\ s # t - 1
    BY <1>3
  <2>2. k \in 1 .. n => (k < n <=> k # n)
    BY <1>2, SMTT(60)
  <2> QED
    BY <1>11, <1>12, <2>1, <2>2 DEF Has
<1>14. \A k, l \in 1 .. n : /\ Blk(d, D, k) \in Block
                            /\ Blk(d, D, k) = Blk(d, D, l) => k = l
  <2>1. \A k \in 1 .. n : Blk(d, D, k) \in Block
    BY <1>2, DiskFacts DEF Blk
  <2> QED
    BY <1>2, <1>4, <2>1 DEF BlocksAgree
<1>15. \A k \in 1 .. n, s \in Slot :
         Ent(e, D, k, s) = IF k = K /\ s = S THEN v
                           ELSE IF k = n /\ s = t - 1 THEN NoEntry ELSE Ent(d, D, k, s)
  <2> SUFFICES ASSUME NEW k \in 1 .. n, NEW s \in Slot
               PROVE  Ent(e, D, k, s) = IF k = K /\ s = S THEN v
                        ELSE IF k = n /\ s = t - 1 THEN NoEntry ELSE Ent(d, D, k, s)
    OBVIOUS
  <2>1. Ent(f, D, k, s) = IF k = n /\ s = t - 1 THEN NoEntry ELSE Ent(d, D, k, s)
    BY <1>4, <1>5, <1>7, <1>14, SMTT(60) DEF Ent, SlotSet
  <2>2. Blk(e, D, k) = Blk(d, D, k) /\ Blk(f, D, k) = Blk(d, D, k)
    BY <1>4, <1>7, <1>11
  <2>3. Ent(e, D, k, s) = IF k = K /\ s = S THEN v ELSE Ent(f, D, k, s)
    BY <1>2, <1>14, <2>2, SMTT(60) DEF Ent, Unwrote
  <2> QED
    BY <2>1, <2>3
<1>16. \A k \in Nat, s \in Slot :
         Has(e, D, k, s) =>
           Ent(e, D, k, s) = IF k = K /\ s = S THEN Ent(d, D, n, t - 1) ELSE Ent(d, D, k, s)
  <2> SUFFICES ASSUME NEW k \in Nat, NEW s \in Slot, Has(e, D, k, s)
               PROVE  Ent(e, D, k, s) = IF k = K /\ s = S THEN Ent(d, D, n, t - 1)
                                        ELSE Ent(d, D, k, s)
    OBVIOUS
  <2>1. ~(k = n /\ s = t - 1) /\ k \in 1 .. n
    BY <1>11, <1>13 DEF Has
  <2> QED
    BY <1>15, <2>1
<1>17. Shape(e, D)
  <2>1. t - 1 \in 1 .. EntriesPerBlock /\ z - 1 >= 2
    <3>1. n = 1 => z = t
      <4>1. (1 - 1) * EntriesPerBlock = 0
        BY <1>3
      <4> QED
        BY <1>2, <4>1
    <3>2. n > 1 => z > EntriesPerBlock
      <4>1. n \in Nat \ {0} /\ (n > 1 => n >= 2)
        BY <1>2
      <4>2. n >= 2 => z > EntriesPerBlock
        BY <1>2, <4>1, Sizes
      <4> QED
        BY <4>1, <4>2
    <3>3. n = 1 => t - 1 > 1
      BY <1>2 DEF Child
    <3>4. /\ n \in Nat /\ n >= 1 /\ z \in Nat /\ t \in Nat /\ t >= 1 /\ t <= EntriesPerBlock
          /\ EntriesPerBlock \in Nat /\ EntriesPerBlock >= 3
      BY <1>2, <1>3
    <3>5. t - 1 >= 1 /\ t - 1 \in 1 .. EntriesPerBlock
      BY <3>4
    <3>6. n = 1 \/ n > 1
      <4>1. \A m \in Nat : m >= 1 => m = 1 \/ m > 1
        OBVIOUS
      <4> QED
        BY <3>4, <4>1, ZenonT(60)
    <3>7. z - 1 >= 2
      BY <3>1, <3>2, <3>3, <3>4, <3>6
    <3> QED
      BY <3>5, <3>7
  <2>2. ASSUME NEW k \in 1 .. n, NEW s \in Slot, ~Has(e, D, k, s)
        PROVE  Ent(e, D, k, s).name = ""
    <3>1. NoEntry.name = ""
      BY DEF NoEntry
    <3>2. k \in Nat
      BY <1>2
    <3>3. CASE k = n /\ s = t - 1
      <4>1. Ent(e, D, k, s) = NoEntry
        BY <1>15, <3>3
      <4> QED
        BY <3>1, <4>1
    <3>4. CASE ~(k = n /\ s = t - 1)
      <4>1. ~Has(d, D, k, s)
        BY <1>13, <2>2, <3>2, <3>4
      <4>2. ~(k = K /\ s = S)
        BY <4>1 DEF Child
      <4>3. Ent(e, D, k, s) = Ent(d, D, k, s)
        BY <1>15, <3>4, <4>2
      <4> QED
        BY <4>1, <4>3 DEF Shape
    <3> QED
      BY <3>3, <3>4
  <2> QED
    BY <1>2, <1>11, <1>12, <2>1, <2>2 DEF Shape
<1>18. Removed(d, e, D, K, S, n, t - 1)
  BY <1>2, <1>13, <1>16, <1>17 DEF Removed
<1> QED
  BY <1>8, <1>9, <1>10, <1>11, <1>18

\* The last entry is alone in its block, which is given back.
LEMMA RemoveLast ==
  ASSUME NEW d \in Disk, NEW D \in InUse(d), BlocksAgree(d), Shape(d, D),
         NEW K \in Nat, NEW S \in Slot, Child(d, D, K, S),
         NEW n, n = Len(d.inode[D].block), Level(d.inode[D]) = 1,
         NEW v, v = IF K = n /\ S = 0 THEN NoEntry ELSE Ent(d, D, n, 0),
         NEW f, BlockCounts(f), GaveBack(d, f, {Blk(d, D, n)}),
         NEW g, Dropped(f, g, D), NEW e, Unwrote(g, e, D, Blk(d, D, K), S, v)
  PROVE  /\ BlocksAgree(e) /\ BlockCounts(e) /\ SameInodes(d, e) /\ OthersSame(d, e, D)
         /\ Blk(e, D, 1) = Blk(d, D, 1) /\ Removed(d, e, D, K, S, n, 0)
<1>1. PICK z : z = d.inode[D].size
  OBVIOUS
<1>2. PICK t : t = Level(d.inode[D])
  OBVIOUS
<1>3. /\ n \in Nat /\ n \in Nat \ {0} /\ n >= 2 /\ z \in Nat /\ z >= 2 /\ D \in Inode
      /\ 1 \in 1 .. EntriesPerBlock /\ 0 \in Slot
      /\ 1 = z - (n - 1) * EntriesPerBlock
      /\ K \in 1 .. n /\ S \in Nat
      /\ K < n \/ S = 0
      /\ Child(d, D, n, 0)
  <2>1. t = 1
    BY <1>2
  <2>2. /\ n \in Nat /\ n \in Nat \ {0} /\ n >= 1 /\ z \in Nat /\ z >= 2 /\ D \in Inode
        /\ t \in 1 .. EntriesPerBlock /\ t - 1 \in Slot
        /\ t = z - (n - 1) * EntriesPerBlock
        /\ K \in 1 .. n /\ S \in Nat
        /\ K < n \/ S < t
        /\ Child(d, D, n, t - 1)
        /\ t = 1 => n >= 2
    BY <1>1, <1>2, ChildFacts, SMTT(60)
  <2>3. t - 1 = 0 /\ (S < 1 <=> S = 0)
    BY <2>1, <2>2
  <2> QED
    BY <2>1, <2>2, <2>3
<1>4. /\ EntriesPerBlock \in Nat /\ EntriesPerBlock >= 3
      /\ EntriesPerBlock \in 1 .. EntriesPerBlock
      /\ \A s \in Slot : s \in Nat /\ s < EntriesPerBlock /\ (s < 1 <=> s = 0)
  BY Constants DEF Slot
<1>5. PICK p \in Seq(Block) : p = d.inode[D].block
  BY <1>3, DiskFacts
<1>6. PICK b : b = Blk(d, D, n)
  OBVIOUS
<1>7. PICK c : c = Blk(d, D, K)
  OBVIOUS
<1>8. Len(Front(d.inode[D].block)) = n - 1
      /\ \A k \in 1 .. n - 1 : Front(d.inode[D].block)[k] = d.inode[D].block[k]
  <2>1. Len(d.inode[D].block) >= 1
    BY <1>3
  <2>2. /\ Len(Front(d.inode[D].block)) = Len(d.inode[D].block) - 1
        /\ \A k \in 1 .. Len(d.inode[D].block) - 1 :
             Front(d.inode[D].block)[k] = d.inode[D].block[k]
    BY <1>3, <2>1, DropLast, ZenonT(60)
  <2> QED
    BY <2>2
<1>9. /\ e.block_bitmap = d.block_bitmap \ {b} /\ e.inode_bitmap = d.inode_bitmap
      /\ \A j \in Inode : j # D => e.inode[j] = d.inode[j]
      /\ e.inode[D].block = Front(d.inode[D].block)
      /\ e.inode[D].size = z - 1 /\ e.inode[D].dir = d.inode[D].dir
      /\ \A x \in Block : x # c => e.data[x] = d.data[x]
      /\ \A s \in Slot : e.data[c][s] = IF s = S THEN v ELSE d.data[c][s]
      /\ \A h \in Group : e.gd[h].free_inodes = d.gd[h].free_inodes
      /\ e.gd = f.gd /\ e.block_bitmap = f.block_bitmap
  BY <1>1, <1>6, <1>7 DEF GaveBack, Dropped, Unwrote
<1>10. InUse(e) = InUse(d)
  BY <1>9 DEF InUse
<1>11. /\ Len(e.inode[D].block) = n - 1
       /\ \A k \in 1 .. n - 1 : Blk(e, D, k) = Blk(d, D, k)
  BY <1>8, <1>9 DEF Blk
<1>12. \A k \in 1 .. n : Own(d, D, k) /\ k \in Nat
  BY <1>3 DEF Own
<1>13. \A k, l \in 1 .. n : /\ Blk(d, D, k) \in Block
                            /\ Blk(d, D, k) = Blk(d, D, l) => k = l
  <2>1. \A k \in 1 .. n : Blk(d, D, k) \in Block
    BY <1>3, DiskFacts DEF Blk
  <2> QED
    BY <1>3, <1>12, <2>1 DEF BlocksAgree
<1>14. \A k \in Nat : k \in 1 .. n - 1 <=> k \in 1 .. n /\ k # n
  BY <1>3
<1>15. n \in 1 .. n
  BY <1>3
<1>16. \A i \in Inode, k \in Nat : Own(e, i, k) <=> Own(d, i, k) /\ Blk(d, i, k) \notin {b}
  <2> SUFFICES ASSUME NEW i \in Inode, NEW k \in Nat
               PROVE  Own(e, i, k) <=> Own(d, i, k) /\ Blk(d, i, k) # b
    OBVIOUS
  <2>1. CASE i = D
    <3>1. Own(e, i, k) <=> k \in 1 .. n - 1
      BY <1>10, <1>11, <2>1 DEF Own
    <3>2. Own(d, i, k) <=> k \in 1 .. n
      BY <2>1 DEF Own
    <3>3. k \in 1 .. n => (Blk(d, i, k) = b <=> k = n)
      BY <1>6, <1>13, <1>15, <2>1
    <3> QED
      BY <1>14, <3>1, <3>2, <3>3
  <2>2. CASE i # D
    <3>1. Own(e, i, k) <=> Own(d, i, k)
      BY <1>9, <1>10, <2>2 DEF Own
    <3>2. Own(d, i, k) => Blk(d, i, k) # b
      BY <1>3, <1>6, <1>12, <1>15, <2>2, SMTT(60) DEF BlocksAgree
    <3> QED
      BY <3>1, <3>2
  <2> QED
    BY <2>1, <2>2
<1>17. \A i \in Inode, k \in Nat : Own(e, i, k) => Blk(e, i, k) = Blk(d, i, k)
  <2> SUFFICES ASSUME NEW i \in Inode, NEW k \in Nat, Own(e, i, k)
               PROVE  Blk(e, i, k) = Blk(d, i, k)
    OBVIOUS
  <2>1. CASE i = D
    BY <1>11, <2>1 DEF Own
  <2>2. CASE i # D
    BY <1>9, <2>2 DEF Blk
  <2> QED
    BY <2>1, <2>2
<1>18. BlocksAgree(e)
  <2>1. \A x \in {b} : x \notin MetadataBlocks
    BY <1>3, <1>6, <1>12, <1>15 DEF BlocksAgree
  <2> QED
    BY <1>9, <1>16, <1>17, <2>1, OwnShrinks
<1>19. BlockCounts(e)
  BY <1>9 DEF BlockCounts, FreeBlocks
<1>20. SameInodes(d, e)
  BY <1>9 DEF SameInodes
<1>21. OthersSame(d, e, D)
  <2> SUFFICES ASSUME NEW j \in InUse(d), j # D PROVE Same(d, e, j)
    BY DEF OthersSame
  <2>1. j \in Inode
    BY DEF InUse
  <2>2. ASSUME NEW l \in 1 .. Len(d.inode[j].block)
        PROVE  e.data[Blk(d, j, l)] = d.data[Blk(d, j, l)]
    <3>1. Own(d, j, l) /\ l \in Nat /\ Blk(d, j, l) \in Block
      BY <2>1, DiskFacts DEF Own, Blk
    <3>2. Blk(d, j, l) # c
      BY <1>3, <1>7, <1>12, <2>1, <3>1 DEF BlocksAgree
    <3> QED
      BY <1>9, <3>1, <3>2
  <2> QED
    BY <1>9, <2>1, <2>2 DEF Same
<1>22. Level(e.inode[D]) = EntriesPerBlock
  <2>1. z - 1 - ((n - 1) - 1) * EntriesPerBlock = EntriesPerBlock
    <3>1. PICK u \in 1 .. EntriesPerBlock : u = 1
      BY <1>3
    <3>2. u = z - (n - 1) * EntriesPerBlock
      BY <1>3, <3>1
    <3> QED
      BY <1>3, <3>1, <3>2, Sizes
  <2>2. Level(e.inode[D]) = (z - 1) - ((n - 1) - 1) * EntriesPerBlock
    BY <1>9, <1>11, ZenonT(60) DEF Level
  <2> QED
    BY <1>3, <1>4, <2>1, <2>2
<1>23. \A k \in Nat, s \in Slot : Has(d, D, k, s) <=> k \in 1 .. n /\ (k < n \/ s = 0)
  BY <1>4 DEF Has
<1>24. \A k \in Nat, s \in Slot : Has(e, D, k, s) <=> k \in 1 .. n - 1
  BY <1>4, <1>11, <1>22 DEF Has
<1>25. \A k \in Nat, s \in Slot : Has(e, D, k, s) <=> Has(d, D, k, s) /\ ~(k = n /\ s = 0)
  <2>1. \A k \in Nat : k \in 1 .. n => (k < n <=> k # n)
    BY <1>3
  <2> QED
    BY <1>14, <1>23, <1>24, <2>1
<1>26. \A k \in 1 .. n - 1, s \in Slot :
         Ent(e, D, k, s) = IF k = K /\ s = S THEN Ent(d, D, n, 0) ELSE Ent(d, D, k, s)
  <2> SUFFICES ASSUME NEW k \in 1 .. n - 1, NEW s \in Slot
               PROVE  Ent(e, D, k, s) = IF k = K /\ s = S THEN Ent(d, D, n, 0)
                                        ELSE Ent(d, D, k, s)
    OBVIOUS
  <2>1. k \in Nat /\ k \in 1 .. n /\ k # n
    BY <1>3
  <2>2. Blk(e, D, k) = Blk(d, D, k) /\ Blk(d, D, k) \in Block
        /\ (Blk(d, D, k) = c <=> k = K)
    BY <1>3, <1>7, <1>11, <1>13, <2>1
  <2>3. Ent(e, D, k, s) = IF k = K /\ s = S THEN v ELSE Ent(d, D, k, s)
    BY <1>9, <2>2, SMTT(60) DEF Ent
  <2>4. k = K => v = Ent(d, D, n, 0)
    BY <2>1
  <2> QED
    BY <2>3, <2>4
<1>27. Shape(e, D)
  <2>1. n - 1 >= 1 /\ z - 1 >= 2
    <3>1. z > EntriesPerBlock
      BY <1>3, Sizes, ZenonT(60)
    <3>2. n \in Nat /\ n >= 2 /\ z \in Nat /\ EntriesPerBlock \in Nat /\ EntriesPerBlock >= 3
      BY <1>3, <1>4
    <3> QED
      BY <3>1, <3>2
  <2>2. ASSUME NEW k \in 1 .. n - 1, NEW s \in Slot, ~Has(e, D, k, s) PROVE FALSE
    <3>1. k \in Nat
      BY <1>3
    <3> QED
      BY <1>24, <2>2, <3>1
  <2> QED
    BY <1>4, <1>9, <1>11, <1>22, <2>1, <2>2 DEF Shape
<1>28. Removed(d, e, D, K, S, n, 0)
  BY <1>3, <1>24, <1>25, <1>26, <1>27 DEF Removed
<1>29. Blk(e, D, 1) = Blk(d, D, 1)
  <2>1. 1 \in 1 .. n - 1
    BY <1>3
  <2> QED
    BY <1>11, <2>1
<1> QED
  BY <1>18, <1>19, <1>20, <1>21, <1>28, <1>29

\* What release_dir_entry does to a directory D.
LEMMA ReleaseEntry ==
  ASSUME NEW d \in Disk, NEW D \in InUse(d), BlocksAgree(d), BlockCounts(d), Shape(d, D),
         NEW K \in Nat, NEW S \in Slot, Child(d, D, K, S),
         \A k \in Nat, s \in Slot :
           Child(d, D, k, s) /\ Ent(d, D, k, s).inode = Ent(d, D, K, S).inode
             => k = K /\ s = S,
         NEW r, r = release_dir_entry(d, D, <<Blk(d, D, K), S>>)
  PROVE  /\ r \in Disk /\ BlocksAgree(r) /\ BlockCounts(r) /\ SameInodes(d, r)
         /\ OthersSame(d, r, D) /\ Blk(r, D, 1) = Blk(d, D, 1)
         /\ r.block_bitmap \subseteq d.block_bitmap
         /\ \E L \in Nat, M \in Slot : Removed(d, r, D, K, S, L, M)
<1>n. PICK n : n = Len(d.inode[D].block)
  OBVIOUS
<1>t. PICK t : t = Level(d.inode[D])
  OBVIOUS
<1>z. PICK z : z = d.inode[D].size
  OBVIOUS
<1>1. n = Len(d.inode[D].block) /\ t = Level(d.inode[D]) /\ z = d.inode[D].size
  BY <1>n, <1>t, <1>z
<1>2. /\ n \in Nat /\ n \in Nat \ {0} /\ n >= 1 /\ z \in Nat /\ z >= 2 /\ D \in Inode
      /\ t \in 1 .. EntriesPerBlock /\ t - 1 \in Slot
      /\ t = z - (n - 1) * EntriesPerBlock
      /\ K \in 1 .. n /\ S \in Nat
      /\ Child(d, D, n, t - 1)
  <2>1. /\ n \in Nat /\ n \in Nat \ {0} /\ n >= 1 /\ z \in Nat /\ z >= 2 /\ D \in Inode
        /\ t \in 1 .. EntriesPerBlock /\ t - 1 \in Slot
        /\ t = z - (n - 1) * EntriesPerBlock
        /\ K \in 1 .. n /\ S \in Nat
        /\ K < n \/ S < t
        /\ Child(d, D, n, t - 1)
        /\ t = 1 => n >= 2
    BY <1>n, <1>t, <1>z, ChildFacts, SMTT(60)
  <2> QED
    BY <2>1
<1>3. (z - 1) % EntriesPerBlock = t - 1
  <2>1. Fits(z, n, t)
    BY <1>2 DEF Fits
  <2> QED
    BY <1>2, <2>1, SizeUnder
<1>4. PICK b : b = Blk(d, D, n)
  OBVIOUS
<1>5. PICK c : c = Blk(d, D, K)
  OBVIOUS
<1>6. Last(d.inode[D].block) = b
  BY <1>1, <1>4 DEF Last, Blk
<1>7. b \in Block /\ c \in Block /\ b \in d.block_bitmap /\ b \notin MetadataBlocks
  <2>1. n \in 1 .. n
    BY <1>2
  <2>2. Own(d, D, n)
    BY <1>1, <2>1 DEF Own
  <2> QED
    BY <1>1, <1>2, <1>4, <1>5, <2>1, <2>2, DiskFacts, SMTT(60) DEF Blk, BlocksAgree
<1>8. PICK v : v = IF K = n /\ S = t - 1 THEN NoEntry ELSE Ent(d, D, n, t - 1)
  OBVIOUS
<1>9. v \in Entry
  <2>1. Ent(d, D, n, t - 1) \in Entry
    BY <1>2, <1>4, <1>7, DiskFacts DEF Ent
  <2>2. NoEntry \in Entry
    BY DEF NoEntry, Entry
  <2> QED
    BY <1>8, <2>1, <2>2
<1>10. (IF At(d, <<c, S>>).inode = At(d, <<b, t - 1>>).inode
        THEN NoEntry ELSE At(d, <<b, t - 1>>)) = v
  <2>1. At(d, <<c, S>>) = Ent(d, D, K, S) /\ At(d, <<b, t - 1>>) = Ent(d, D, n, t - 1)
    BY <1>4, <1>5 DEF At, Ent
  <2>2. Ent(d, D, n, t - 1).inode = Ent(d, D, K, S).inode <=> K = n /\ S = t - 1
    BY <1>2
  <2> QED
    BY <1>8, <2>1, <2>2
<1>11. CASE t # 1
  <2>1. PICK f : f = [d EXCEPT !.data[b][t - 1] = NoEntry]
    OBVIOUS
  <2>2. f \in Disk /\ SlotSet(d, f, b, t - 1, NoEntry)
    <3>1. NoEntry \in Entry
      BY DEF NoEntry, Entry
    <3> QED
      BY <1>2, <1>7, <2>1, <3>1, WriteSlot
  <2>3. PICK e : e = [f EXCEPT !.inode[D].size = @ - 1, !.data[c][S] = v]
    OBVIOUS
  <2>4. r = e
    <3>1. t - 1 # 0
      BY <1>2, <1>11
    <3> QED
      BY <1>1, <1>3, <1>5, <1>6, <1>10, <2>1, <2>3, <3>1 DEF release_dir_entry
  <2>5. e \in Disk /\ Unwrote(f, e, D, c, S, v)
    <3>1. f.inode[D].size >= 1
      BY <1>1, <1>2, <2>2 DEF SlotSet
    <3> QED
      BY <1>2, <1>7, <1>9, <2>2, <2>3, <3>1, UnwriteEntry
  <2>6. /\ BlocksAgree(e) /\ BlockCounts(e) /\ SameInodes(d, e) /\ OthersSame(d, e, D)
        /\ Blk(e, D, 1) = Blk(d, D, 1) /\ Removed(d, e, D, K, S, n, t - 1)
    BY <1>1, <1>4, <1>5, <1>8, <1>11, <2>2, <2>5, RemoveInside
  <2>7. e.block_bitmap = d.block_bitmap
    BY <2>2, <2>5 DEF SlotSet, Unwrote
  <2> QED
    BY <1>2, <2>4, <2>5, <2>6, <2>7
<1>12. CASE t = 1
  <2>1. PICK f : f = Released(d, {b})
    OBVIOUS
  <2>2. f \in Disk /\ BlockCounts(f) /\ GaveBack(d, f, {b})
    BY <1>7, <2>1, ReleasedFacts
  <2>3. PICK g : g = [f EXCEPT !.inode[D].block = Front(@)]
    OBVIOUS
  <2>4. g \in Disk /\ Dropped(f, g, D)
    <3>1. Len(f.inode[D].block) >= 1
      BY <1>1, <1>2, <2>2 DEF GaveBack
    <3> QED
      BY <1>2, <2>2, <2>3, <3>1, DropLast
  <2>5. PICK e : e = [g EXCEPT !.inode[D].size = @ - 1, !.data[c][S] = v]
    OBVIOUS
  <2>6. r = e
    <3>1. t - 1 = 0
      BY <1>2, <1>12
    <3> QED
      BY <1>1, <1>3, <1>5, <1>6, <1>10, <2>1, <2>3, <2>5, <3>1 DEF release_dir_entry
  <2>7. e \in Disk /\ Unwrote(g, e, D, c, S, v)
    <3>1. g.inode[D].size >= 1
      BY <1>1, <1>2, <2>2, <2>4 DEF GaveBack, Dropped
    <3> QED
      BY <1>2, <1>7, <1>9, <2>4, <2>5, <3>1, UnwriteEntry
  <2>8. /\ BlocksAgree(e) /\ BlockCounts(e) /\ SameInodes(d, e) /\ OthersSame(d, e, D)
        /\ Blk(e, D, 1) = Blk(d, D, 1) /\ Removed(d, e, D, K, S, n, 0)
    <3>1. v = IF K = n /\ S = 0 THEN NoEntry ELSE Ent(d, D, n, 0)
      <4>1. t - 1 = 0
        BY <1>12
      <4> QED
        BY <1>8, <4>1
    <3>2. Level(d.inode[D]) = 1
      BY <1>1, <1>12
    <3> QED
      BY <1>1, <1>4, <1>5, <2>2, <2>4, <2>7, <3>1, <3>2, RemoveLast
  <2>9. 0 \in Slot
    BY Constants DEF Slot
  <2>10. e.block_bitmap = d.block_bitmap \ {b}
    BY <2>2, <2>4, <2>7 DEF GaveBack, Dropped, Unwrote
  <2> QED
    BY <1>2, <2>6, <2>7, <2>8, <2>9, <2>10
<1> QED
  BY <1>11, <1>12

LEMMA MarkInode ==
  ASSUME NEW d \in Disk, NEW i \in Inode
  PROVE  LET f == [d EXCEPT !.inode_bitmap = @ \ {i}]
         IN  /\ f \in Disk /\ f.inode_bitmap = d.inode_bitmap \ {i}
             /\ f.block_bitmap = d.block_bitmap /\ f.gd = d.gd
             /\ f.inode = d.inode /\ f.data = d.data
<1>1. PICK z : z = d.inode_bitmap \ {i}
  OBVIOUS
<1>2. z \in SUBSET Inode
  BY <1>1, DiskFacts
<1>3. [d EXCEPT !.inode_bitmap = @ \ {i}] = [d EXCEPT !.inode_bitmap = z]
  BY <1>1
<1> QED
  BY <1>1, <1>2, <1>3 DEF Disk

LEMMA CountInode ==
  ASSUME NEW d \in Disk
  PROVE  LET e == [d EXCEPT !.gd[0].free_inodes = @ + 1]
         IN  /\ e \in Disk /\ e.inode_bitmap = d.inode_bitmap
             /\ e.block_bitmap = d.block_bitmap
             /\ e.inode = d.inode /\ e.data = d.data
             /\ \A g \in Group : e.gd[g].free_blocks = d.gd[g].free_blocks
             /\ \A g \in Group : e.gd[g].free_inodes =
                  IF g = 0 THEN d.gd[g].free_inodes + 1 ELSE d.gd[g].free_inodes
<1>1. PICK n \in Nat : n = d.gd[0].free_inodes
  BY Root, DiskFacts
<1>2. PICK y : y = [d.gd EXCEPT ![0].free_inodes = n + 1]
  OBVIOUS
<1>3. /\ y \in [Group -> [free_blocks : Nat, free_inodes : Nat]]
      /\ \A g \in Group : y[g].free_blocks = d.gd[g].free_blocks
      /\ \A g \in Group : y[g].free_inodes = IF g = 0 THEN n + 1 ELSE d.gd[g].free_inodes
  <2>1. 0 \in Group /\ d.gd \in [Group -> [free_blocks : Nat, free_inodes : Nat]]
    BY Root DEF Disk
  <2> QED
    BY <1>2, <2>1
<1>4. [d EXCEPT !.gd[0].free_inodes = @ + 1] = [d EXCEPT !.gd = y]
  BY <1>1, <1>2 DEF Disk
<1> QED
  BY <1>1, <1>3, <1>4 DEF Disk

\* Inode i is no longer marked and owns no blocks.
FreedInode(d, e, i) ==
  /\ e.inode_bitmap = d.inode_bitmap \ {i}
  /\ e.inode = d.inode /\ e.data = d.data

\* What release_inode does.
LEMMA ReleaseInode ==
  ASSUME NEW d \in Disk, InodesAgree(d), BlocksAgree(d), BlockCounts(d), InodeCounts(d),
         NEW i \in InUse(d), i # ROOT, NEW e, e = release_inode(d, i)
  PROVE  /\ e \in Disk /\ InodesAgree(e) /\ BlocksAgree(e) /\ BlockCounts(e)
         /\ InodeCounts(e) /\ FreedInode(d, e, i)
<1>0. /\ i \in Inode /\ i \in d.inode_bitmap /\ i \notin 1 .. ReservedInodes
      /\ i \in 1 .. inode_per_group /\ 0 \in Group
  BY Root, DirectoriesInUse DEF InUse
<1>1. InodeGroup(i) = 0
  BY <1>0, FirstGroupInodes
<1>2. PICK f : f = [d EXCEPT !.inode_bitmap = @ \ {i}]
  OBVIOUS
<1>3. /\ f \in Disk /\ f.inode_bitmap = d.inode_bitmap \ {i}
      /\ f.block_bitmap = d.block_bitmap /\ f.gd = d.gd
      /\ f.inode = d.inode /\ f.data = d.data
  BY <1>0, <1>2, MarkInode
<1>4. PICK q \in Seq(Block) : q = d.inode[i].block
  BY <1>0, DiskFacts
<1>5. PICK B : B = Range(q)
  OBVIOUS
<1>6. \A b : b \in B <=> \E k \in 1 .. Len(q) : b = q[k]
  BY <1>4, <1>5 DEF Range
<1>7. \A b \in B : b \in d.block_bitmap /\ b \notin MetadataBlocks
  BY <1>0, <1>4, <1>6 DEF BlocksAgree, Own, Blk
<1>8. PICK h : h = Released(f, B)
  OBVIOUS
<1>9. h \in Disk /\ BlockCounts(h) /\ GaveBack(f, h, B)
  <2>1. BlockCounts(f)
    BY <1>3 DEF BlockCounts, FreeBlocks
  <2>2. B \subseteq f.block_bitmap /\ B \cap MetadataBlocks = {}
    BY <1>3, <1>7
  <2> QED
    BY <1>3, <1>8, <2>1, <2>2, ReleasedFacts
<1>10. \E b \in B : BlockGroup(b) = 0
  <2>1. Len(q) >= 1 /\ BlockGroup(q[1]) = 0 /\ Len(q) \in Nat
    BY <1>4 DEF InodesAgree
  <2>2. q[1] \in B
    BY <1>6, <2>1
  <2> QED
    BY <2>1, <2>2
<1>11. e = [h EXCEPT !.gd[0].free_inodes = @ + 1]
  BY <1>1, <1>2, <1>4, <1>5, <1>8, <1>10 DEF release_inode
<1>12. /\ e \in Disk /\ e.inode_bitmap = h.inode_bitmap
       /\ e.block_bitmap = h.block_bitmap
       /\ e.inode = h.inode /\ e.data = h.data
       /\ \A g \in Group : e.gd[g].free_blocks = h.gd[g].free_blocks
       /\ \A g \in Group : e.gd[g].free_inodes =
            IF g = 0 THEN h.gd[g].free_inodes + 1 ELSE h.gd[g].free_inodes
  BY <1>9, <1>11, CountInode
<1>13. /\ e.block_bitmap = d.block_bitmap \ B
       /\ e.inode_bitmap = d.inode_bitmap \ {i}
       /\ e.inode = d.inode /\ e.data = d.data
       /\ \A g \in Group : e.gd[g].free_inodes =
            IF g = 0 THEN d.gd[g].free_inodes + 1 ELSE d.gd[g].free_inodes
  BY <1>3, <1>9, <1>12 DEF GaveBack
<1>14. \A j : j \in InUse(e) <=> j \in InUse(d) /\ j # i
  BY <1>0, <1>13 DEF InUse
<1>15. InodesAgree(e)
  BY <1>0, <1>13, <1>14 DEF InodesAgree
<1>16. BlocksAgree(e)
  <2>1. \A j \in Inode, k \in Nat : Own(e, j, k) => Blk(e, j, k) = Blk(d, j, k)
    BY <1>13 DEF Blk
  <2>2. ASSUME NEW j \in Inode, NEW k \in Nat
        PROVE  Own(e, j, k) <=> Own(d, j, k) /\ Blk(d, j, k) \notin B
    <3>1. Own(e, j, k) <=> Own(d, j, k) /\ j # i
      BY <1>13, <1>14 DEF Own
    <3>2. Own(d, i, k) => Blk(d, i, k) \in B
      BY <1>4, <1>6 DEF Own, Blk
    <3>3. Own(d, j, k) /\ j # i => Blk(d, j, k) \notin B
      <4> SUFFICES ASSUME Own(d, j, k), j # i, NEW l \in 1 .. Len(q), Blk(d, j, k) = q[l]
                   PROVE  FALSE
        BY <1>6
      <4>1. l \in Nat /\ Own(d, i, l) /\ Blk(d, i, l) = q[l]
        BY <1>4 DEF Own, Blk
      <4> QED
        BY <1>0, <4>1 DEF BlocksAgree
    <3> QED
      BY <3>1, <3>2, <3>3
  <2> QED
    BY <1>7, <1>13, <2>1, <2>2, OwnShrinks
<1>17. BlockCounts(e)
  BY <1>9, <1>12 DEF BlockCounts, FreeBlocks
<1>18. InodeCounts(e)
  <2> SUFFICES ASSUME NEW g \in Group
               PROVE  e.gd[g].free_inodes = Cardinality(FreeInodes(e, g))
    BY DEF InodeCounts
  <2>1. Cardinality(FreeInodes(e, g)) =
          IF g = InodeGroup(i) THEN Cardinality(FreeInodes(d, g)) + 1
          ELSE Cardinality(FreeInodes(d, g))
    BY <1>0, <1>13, FreeInodesAfterReleasing
  <2> QED
    BY <1>1, <1>13, <2>1 DEF InodeCounts
<1> QED
  BY <1>12, <1>13, <1>15, <1>16, <1>17, <1>18 DEF FreedInode

-----------------------------------------------------------------------------
(* Removed and moved entries *)

\* One directory has changed, but kept its first block.
LEMMA InodesStay ==
  ASSUME NEW d \in Disk, NEW e \in Disk, InodesAgree(d), SameInodes(d, e),
         NEW D \in InUse(d), OthersSame(d, e, D), Shape(e, D), Blk(e, D, 1) = Blk(d, D, 1)
  PROVE  /\ InodeCounts(d) => InodeCounts(e)
         /\ InodesAgree(e) /\ InUse(e) = InUse(d) /\ Directories(e) = Directories(d)
<1>1. InUse(e) = InUse(d)
  BY DEF InUse, SameInodes
<1>2. Directories(e) = Directories(d)
  BY DEF Directories, SameInodes
<1>3. \A i \in InUse(d) : Len(e.inode[i].block) >= 1 /\ BlockGroup(e.inode[i].block[1]) = 0
  <2> SUFFICES ASSUME NEW i \in InUse(d)
               PROVE  Len(e.inode[i].block) >= 1 /\ BlockGroup(e.inode[i].block[1]) = 0
    OBVIOUS
  <2>1. Len(d.inode[i].block) >= 1 /\ BlockGroup(d.inode[i].block[1]) = 0
    BY DEF InodesAgree
  <2>2. CASE i = D
    <3>1. Len(e.inode[D].block) >= 1
      BY DEF Shape
    <3> QED
      BY <2>1, <2>2, <3>1 DEF Blk
  <2>3. CASE i # D
    BY <2>1, <2>3 DEF OthersSame, Same
  <2> QED
    BY <2>2, <2>3
<1>4. InodesAgree(e)
  <2>1. ROOT \in Inode /\ \A i \in 1 .. ReservedInodes : i \in Inode
    BY Root, DiskFacts DEF InodesAgree
  <2> QED
    BY <1>1, <1>3, <2>1 DEF InodesAgree, SameInodes
<1>5. InodeCounts(d) => InodeCounts(e)
  <2>1. \A g \in Group : FreeInodes(e, g) = FreeInodes(d, g)
    BY DEF FreeInodes, SameInodes
  <2> QED
    BY <2>1 DEF InodeCounts, SameInodes
<1> QED
  BY <1>1, <1>2, <1>4, <1>5

\* The other children stay entered.
LEMMA StillIn ==
  ASSUME NEW d, NEW e, NEW D, NEW K, NEW S, NEW L, NEW M, Removed(d, e, D, K, S, L, M),
         NEW up, up # D => Same(d, e, up),
         NEW j, j # Ent(d, D, K, S).inode, IsIn(d, j, up)
  PROVE  IsIn(e, j, up)
<1>1. PICK k \in Nat, s \in Slot : Child(d, up, k, s) /\ Ent(d, up, k, s).inode = j
  BY DEF IsIn
<1>2. CASE up # D
  <2>1. Child(e, up, k, s) /\ Ent(e, up, k, s) = Ent(d, up, k, s)
    BY <1>1, <1>2, SameEntries DEF Child
  <2> QED
    BY <1>1, <2>1 DEF IsIn
<1>3. CASE up = D /\ k = L /\ s = M
  <2>1. ~(K = L /\ S = M) /\ K \in Nat /\ S \in Slot
    BY <1>1, <1>3 DEF Removed
  <2>2. Has(e, D, K, S) /\ Child(d, D, K, S)
    BY <2>1 DEF Removed, Child
  <2>3. Child(e, D, K, S)
    BY <2>2 DEF Child
  <2>4. Ent(e, D, K, S) = Ent(d, D, L, M)
    BY <2>1, <2>2 DEF Removed
  <2> QED
    BY <1>1, <1>3, <2>1, <2>3, <2>4 DEF IsIn
<1>4. CASE up = D /\ ~(k = L /\ s = M)
  <2>1. ~(k = K /\ s = S)
    BY <1>1, <1>4
  <2>2. Has(e, D, k, s)
    BY <1>1, <1>4 DEF Removed, Child
  <2>3. Child(e, D, k, s)
    BY <1>1, <1>4, <2>2 DEF Child
  <2>4. Ent(e, D, k, s) = Ent(d, D, k, s)
    BY <1>1, <2>1, <2>2 DEF Removed
  <2> QED
    BY <1>1, <1>4, <2>3, <2>4 DEF IsIn
<1> QED
  BY <1>2, <1>3, <1>4

\* The entry of y is out, y itself as it was.
TookOut(d, r, D, K, S) ==
  /\ r \in Disk /\ InodesAgree(r) /\ BlocksAgree(r) /\ BlockCounts(r) /\ InodeCounts(r)
  /\ InUse(r) = InUse(d) /\ Directories(r) = Directories(d)
  /\ r.inode_bitmap = d.inode_bitmap /\ OthersSame(d, r, D)
  /\ r.block_bitmap \subseteq d.block_bitmap
  /\ \E L \in Nat, M \in Slot : Removed(d, r, D, K, S, L, M)

\* release_dir_entry on a disk in order.
LEMMA TakeOut ==
  ASSUME NEW d, DiskAgrees(d), NEW D \in Directories(d),
         NEW K \in Nat, NEW S \in Slot, Child(d, D, K, S),
         NEW r, r = release_dir_entry(d, D, <<Blk(d, D, K), S>>)
  PROVE  TookOut(d, r, D, K, S)
<1>1. /\ d \in Disk /\ InodesAgree(d) /\ BlocksAgree(d) /\ BlockCounts(d)
      /\ InodeCounts(d) /\ DirectoriesAgree(d)
  BY DEF DiskAgrees
<1>2. D \in InUse(d) /\ Shape(d, D)
  BY <1>1, DirectoriesInUse DEF DirectoriesAgree
<1>3. \A k \in Nat, s \in Slot :
        Child(d, D, k, s) /\ Ent(d, D, k, s).inode = Ent(d, D, K, S).inode
          => k = K /\ s = S
  BY <1>1 DEF DirectoriesAgree, EnteredOnce
<1>4. /\ r \in Disk /\ BlocksAgree(r) /\ BlockCounts(r) /\ SameInodes(d, r)
      /\ OthersSame(d, r, D) /\ Blk(r, D, 1) = Blk(d, D, 1)
      /\ r.block_bitmap \subseteq d.block_bitmap
      /\ \E L \in Nat, M \in Slot : Removed(d, r, D, K, S, L, M)
  BY <1>1, <1>2, <1>3, ReleaseEntry
<1>5. Shape(r, D)
  BY <1>4 DEF Removed
<1>6. /\ InodesAgree(r) /\ InodeCounts(r)
      /\ InUse(r) = InUse(d) /\ Directories(r) = Directories(d)
  BY <1>1, <1>2, <1>4, <1>5, InodesStay
<1> QED
  BY <1>4, <1>6 DEF TookOut, SameInodes

\* Entry t has gone, and its directory with it if it is one.
Leaves(d, e, t) ==
  /\ EntryOf(d, t) /\ Loses(d, e, t)
  /\ \A u : EntryOf(d, u) => u[1] # t[3]
  /\ Directories(e) = Directories(d) \ {t[3]}

\* The inodes of entries are in use, and their directories are ones.
LEMMA EntryFacts ==
  ASSUME NEW d, DirectoriesAgree(d), NEW t, EntryOf(d, t)
  PROVE  /\ t = <<t[1], t[2], t[3]>> /\ t[1] \in Directories(d) /\ t[2] \in Name
         /\ t[3] \in InUse(d) /\ t[3] # ROOT
         /\ \E k \in Nat, s \in Slot : /\ Child(d, t[1], k, s)
                                     /\ t[2] = Ent(d, t[1], k, s).name
                                     /\ t[3] = Ent(d, t[1], k, s).inode
<1>1. PICK i \in Directories(d), k \in Nat, s \in Slot :
        Child(d, i, k, s) /\ t = <<i, Ent(d, i, k, s).name, Ent(d, i, k, s).inode>>
  BY DEF EntryOf
<1>2. Filled(d, i)
  BY DEF DirectoriesAgree
<1> QED
  BY <1>1, <1>2 DEF Filled

\* An entry whose inode has no children leaves.
LEMMA EntryLeaves ==
  ASSUME NEW d, DirectoriesAgree(d), NEW e, NEW D \in Directories(d),
         NEW K, NEW S, NEW L, NEW M, Removed(d, e, D, K, S, L, M),
         NEW y, y = Ent(d, D, K, S).inode, Directories(e) = Directories(d) \ {y},
         y \in Directories(d) => \A k \in Nat, s \in Slot : ~Child(d, y, k, s),
         \A i \in Directories(e) : i # D => Same(d, e, i)
  PROVE  Leaves(d, e, <<D, Ent(d, D, K, S).name, y>>)
<1>1. PICK t : t = <<D, Ent(d, D, K, S).name, y>>
  OBVIOUS
<1>2. t[1] = D /\ t[3] = y
  BY <1>1
<1>3. EnteredOnce(d)
  BY DEF DirectoriesAgree
<1>4. Loses(d, e, t)
  BY <1>1, <1>3, EntriesShrink
<1>5. EntryOf(d, t)
  BY <1>1 DEF EntryOf, Removed
<1>6. \A u : EntryOf(d, u) => u[1] # y
  BY EntryFacts
<1> QED
  BY <1>1, <1>2, <1>4, <1>5, <1>6 DEF Leaves

\* The file or the empty directory y is removed from D.
Deleted(d, e, y) ==
  /\ DiskAgrees(e)
  /\ e.inode_bitmap = d.inode_bitmap \ {y}
  /\ Directories(e) = Directories(d) \ {y}
  /\ \A j, up \in Directories(e) : IsIn(d, j, up) => IsIn(e, j, up)

LEMMA DeleteAgrees ==
  ASSUME NEW d, DiskAgrees(d), NEW D \in Directories(d),
         NEW K \in Nat, NEW S \in Slot, Child(d, D, K, S),
         NEW y, y = Ent(d, D, K, S).inode,
         y \in Directories(d) => \A k \in Nat, s \in Slot : ~Child(d, y, k, s),
         NEW e, e = release_inode(release_dir_entry(d, D, <<Blk(d, D, K), S>>), y)
  PROVE  /\ Deleted(d, e, y) /\ InUse(e) = InUse(d) \ {y}
         /\ Leaves(d, e, <<D, Ent(d, D, K, S).name, y>>)
         /\ FilesChange(d, e)
<1>1. d \in Disk /\ InodesAgree(d) /\ DirectoriesAgree(d)
  BY DEF DiskAgrees
<1>2. PICK r : r = release_dir_entry(d, D, <<Blk(d, D, K), S>>)
  OBVIOUS
<1>3. TookOut(d, r, D, K, S)
  BY <1>2, TakeOut
<1>4. /\ r \in Disk /\ InodesAgree(r) /\ BlocksAgree(r) /\ BlockCounts(r) /\ InodeCounts(r)
      /\ InUse(r) = InUse(d) /\ Directories(r) = Directories(d)
      /\ r.inode_bitmap = d.inode_bitmap /\ OthersSame(d, r, D)
  BY <1>3 DEF TookOut
<1>5. PICK L \in Nat, M \in Slot : Removed(d, r, D, K, S, L, M)
  BY <1>3 DEF TookOut
<1>6. y \in InUse(d) /\ y # ROOT
  BY <1>1 DEF DirectoriesAgree, Filled
<1>7. /\ e \in Disk /\ InodesAgree(e) /\ BlocksAgree(e) /\ BlockCounts(e)
      /\ InodeCounts(e) /\ FreedInode(r, e, y)
  BY <1>2, <1>4, <1>6, ReleaseInode
<1>8. \A i : Same(r, e, i)
  BY <1>7 DEF FreedInode, Same
<1>9. e.inode_bitmap = d.inode_bitmap \ {y} /\ Directories(e) = Directories(d) \ {y}
  <2>1. e.inode_bitmap = r.inode_bitmap \ {y} /\ e.inode = r.inode
    BY <1>7 DEF FreedInode
  <2> QED
    BY <1>4, <2>1 DEF Directories
<1>10. \A i \in InUse(d) : i # y => i \in InUse(e)
  BY <1>4, <1>9 DEF InUse
<1>11. \A i \in InUse(d) : i # D => Same(d, e, i)
  BY <1>4, <1>8, SameTrans DEF OthersSame
<1>12. \A i \in Directories(e) : i # D => Same(d, e, i)
  BY <1>1, <1>9, <1>11, DirectoriesInUse
<1>13. Removed(d, e, D, K, S, L, M)
  <2>1. /\ \A k \in Nat, s \in Slot : Has(e, D, k, s) <=> Has(r, D, k, s)
        /\ \A k \in Nat, s \in Slot : Has(r, D, k, s) => Ent(e, D, k, s) = Ent(r, D, k, s)
        /\ Shape(r, D) => Shape(e, D)
    BY <1>8, SameEntries
  <2> QED
    BY <1>5, <2>1 DEF Removed
<1>14. DirectoriesAgree(e)
  <2>1. ROOT \in Directories(d) /\ ROOT \in Inode
    BY <1>1, DirectoriesInUse, Root
  <2> QED
    BY <1>1, <1>9, <1>10, <1>12, <1>13, <2>1, DirectoriesShrink
<1>15. \A j, up \in Directories(e) : IsIn(d, j, up) => IsIn(e, j, up)
  BY <1>9, <1>12, <1>13, StillIn
<1>16. InUse(e) = InUse(d) \ {y}
  BY <1>6, <1>9 DEF InUse
<1>17. Leaves(d, e, <<D, Ent(d, D, K, S).name, y>>)
  BY <1>1, <1>9, <1>12, <1>13, EntryLeaves
<1>18. FilesChange(d, e)
  BY <1>9, <1>11, <1>16 DEF FilesChange
<1> QED
  BY <1>7, <1>9, <1>14, <1>15, <1>16, <1>17, <1>18 DEF Deleted, DiskAgrees

LEMMA AlsoIn ==
  ASSUME NEW d, NEW e, NEW D, NEW x, NEW K, NEW S, Added(d, e, D, x, K, S),
         NEW up, up # D => Same(d, e, up), NEW j, IsIn(d, j, up)
  PROVE  IsIn(e, j, up)
<1>1. PICK k \in Nat, s \in Slot : Child(d, up, k, s) /\ Ent(d, up, k, s).inode = j
  BY DEF IsIn
<1>2. CASE up # D
  <2>1. Child(e, up, k, s) /\ Ent(e, up, k, s) = Ent(d, up, k, s)
    BY <1>1, <1>2, SameEntries DEF Child
  <2> QED
    BY <1>1, <2>1 DEF IsIn
<1>3. CASE up = D
  <2>1. Child(e, up, k, s) /\ Ent(e, up, k, s) = Ent(d, up, k, s)
    BY <1>1, <1>3 DEF Added, Child
  <2> QED
    BY <1>1, <2>1 DEF IsIn
<1> QED
  BY <1>2, <1>3

\* A file's entry has gone from one directory to another, or is lost.
Moved(d, e) ==
  /\ DiskAgrees(e)
  /\ e.inode_bitmap = d.inode_bitmap /\ Directories(e) = Directories(d)
  /\ \A j, up \in Directories(e) : IsIn(d, j, up) => IsIn(e, j, up)

\* Entry t, a file's, has come to directory T, or is lost on a full disk.
Relocates(d, e, t, T) ==
  /\ EntryOf(d, t) /\ t[3] \notin Directories(d) /\ T \in Directories(d)
  /\ InUse(e) = InUse(d)
  /\ \/ NoneFree(d) /\ Leaves(d, e, t)
     \/ \A u : EntryOf(e, u) <=> (EntryOf(d, u) /\ u # t) \/ u = <<T, t[2], t[3]>>

LEMMA MoveAgrees ==
  ASSUME NEW d, DiskAgrees(d), NEW D \in Directories(d),
         NEW K \in Nat, NEW S \in Slot, Child(d, D, K, S),
         Ent(d, D, K, S).inode \notin Directories(d),
         NEW T \in Directories(d), NEW x, x = Ent(d, D, K, S),
         NEW e, e = insert_entry(release_dir_entry(d, D, <<Blk(d, D, K), S>>), T, x).disk
  PROVE  /\ Moved(d, e) /\ Relocates(d, e, <<D, x.name, x.inode>>, T)
         /\ FilesChange(d, e)
<1>1. d \in Disk /\ InodesAgree(d) /\ DirectoriesAgree(d)
  BY DEF DiskAgrees
<1>2. PICK r : r = release_dir_entry(d, D, <<Blk(d, D, K), S>>)
  OBVIOUS
<1>3. TookOut(d, r, D, K, S)
  BY <1>2, TakeOut
<1>4. /\ r \in Disk /\ InodesAgree(r) /\ BlocksAgree(r) /\ BlockCounts(r) /\ InodeCounts(r)
      /\ InUse(r) = InUse(d) /\ Directories(r) = Directories(d)
      /\ r.inode_bitmap = d.inode_bitmap /\ OthersSame(d, r, D)
  BY <1>3 DEF TookOut
<1>5. PICK L \in Nat, M \in Slot : Removed(d, r, D, K, S, L, M)
  BY <1>3 DEF TookOut
<1>6. PICK y : y = x.inode
  OBVIOUS
<1>7. /\ y = Ent(d, D, K, S).inode /\ y \notin Directories(d) /\ y \in InUse(d)
      /\ y # ROOT /\ x.name \in Name
  BY <1>1, <1>6 DEF DirectoriesAgree, Filled
<1>8. \A i \in Directories(d) : i # D => Same(d, r, i)
  BY <1>1, <1>4, DirectoriesInUse DEF OthersSame
<1>9. ROOT \in Directories(d) /\ ROOT \in Inode
  BY <1>1, DirectoriesInUse, Root
<1>10. /\ DirectoriesAgree(r)
       /\ \A i \in Directories(r), k \in Nat, s \in Slot :
            Child(r, i, k, s) => Ent(r, i, k, s).inode # y
  <2>1. Directories(r) = Directories(d) \ {y}
    BY <1>4, <1>7
  <2> QED
    BY <1>1, <1>4, <1>5, <1>7, <1>8, <1>9, <2>1, DirectoriesShrink
<1>11. \A j, up \in Directories(d) : IsIn(d, j, up) => IsIn(r, j, up)
  BY <1>5, <1>7, <1>8, StillIn
<1>12. T \in Directories(r) /\ T \in InUse(r) /\ Shape(r, T) /\ r.inode[T].dir
  BY <1>4, <1>10, DirectoriesInUse DEF DirectoriesAgree
<1>13. x \in Entry
  <2>1. Blk(d, D, K) \in Block
    BY <1>1, DirectoriesInUse, DiskFacts DEF Child, Has, Blk
  <2> QED
    BY <1>1, <2>1, DiskFacts DEF Ent
<1>14. PICK w : w = insert_entry(r, T, x)
  OBVIOUS
<1>15. /\ w.disk \in Disk /\ w.ok \in BOOLEAN
       /\ ~w.ok => w.disk = r /\ \A g \in Group : FreeBlocks(r, g) = {}
       /\ w.ok => /\ BlocksAgree(w.disk) /\ BlockCounts(w.disk)
                  /\ OthersSame(r, w.disk, T) /\ SameInodes(r, w.disk)
                  /\ Blk(w.disk, T, 1) = Blk(r, T, 1)
                  /\ \E k \in Nat, s \in Slot : Added(r, w.disk, T, x, k, s)
  BY <1>4, <1>12, <1>13, <1>14, InsertEntry
<1>16. e = w.disk
  BY <1>2, <1>14
<1>17. r.block_bitmap \subseteq d.block_bitmap
  BY <1>3 DEF TookOut
<1>18. PICK t : t = <<D, x.name, y>>
  OBVIOUS
<1>19. /\ Leaves(d, r, t) /\ t = <<D, x.name, x.inode>>
       /\ t[1] = D /\ t[2] = x.name /\ t[3] = y /\ t[3] \notin Directories(d)
       /\ T \in Directories(d)
  <2>1. Directories(r) = Directories(d) \ {y}
    BY <1>4, <1>7
  <2>2. Leaves(d, r, <<D, Ent(d, D, K, S).name, y>>)
    BY <1>1, <1>5, <1>7, <1>8, <2>1, EntryLeaves
  <2> QED
    BY <1>6, <1>7, <1>18, <2>2
<1>20. CASE w.ok = FALSE
  <2>1. e = r /\ \A g \in Group : FreeBlocks(r, g) = {}
    BY <1>15, <1>16, <1>20
  <2>2. NoneFree(d)
    BY <1>17, <2>1 DEF NoneFree, FreeBlocks
  <2>3. InUse(e) = InUse(d)
    BY <1>4, <2>1
  <2>4. Relocates(d, e, t, T)
    BY <1>19, <2>1, <2>2, <2>3 DEF Relocates, Leaves
  <2>5. FilesChange(d, e)
    BY <1>4, <2>1 DEF FilesChange, OthersSame
  <2> QED
    BY <1>4, <1>10, <1>11, <1>19, <2>1, <2>4, <2>5 DEF Moved, DiskAgrees
<1>21. CASE w.ok = TRUE
  <2>1. /\ BlocksAgree(e) /\ BlockCounts(e) /\ OthersSame(r, e, T) /\ SameInodes(r, e)
        /\ Blk(e, T, 1) = Blk(r, T, 1) /\ e \in Disk
        /\ \E k \in Nat, s \in Slot : Added(r, e, T, x, k, s)
    BY <1>15, <1>16, <1>21
  <2>2. PICK k \in Nat, s \in Slot : Added(r, e, T, x, k, s)
    BY <2>1
  <2>3. Shape(e, T)
    BY <2>2 DEF Added
  <2>4. InodesAgree(e) /\ InodeCounts(e) /\ InUse(e) = InUse(r)
        /\ Directories(e) = Directories(r)
    BY <1>4, <1>12, <2>1, <2>3, InodesStay
  <2>5. \A i \in Directories(r) : i # T => Same(r, e, i)
    BY <1>4, <2>1, DirectoriesInUse DEF OthersSame
  <2>6. DirectoriesAgree(e)
    <3>1. PICK N : N = {}
      OBVIOUS
    <3>2. Directories(e) = Directories(r) \cup N /\ x.inode \in InUse(e)
      BY <1>4, <1>6, <1>7, <2>4, <3>1
    <3>3. \A i \in Directories(r), l \in Nat, m \in Slot :
            Child(r, i, l, m) => Ent(r, i, l, m).inode # x.inode
      BY <1>6, <1>10
    <3>4. /\ N = {} \/ N = {x.inode}
          /\ \A i \in N : /\ i \notin Directories(r) /\ Shape(e, i)
                          /\ Has(e, i, 1, 0) /\ Ent(e, i, 1, 0) = Named(i, ".")
                          /\ Has(e, i, 1, 1) /\ Ent(e, i, 1, 1) = Named(T, "..")
                          /\ \A l \in Nat, m \in Slot : ~Child(e, i, l, m)
      BY <3>1
    <3>5. /\ \A i \in InUse(r) : i \in InUse(e)
          /\ x.name \in Name /\ x.inode # ROOT /\ ROOT \in Directories(r)
      BY <1>4, <1>6, <1>7, <1>9, <2>4
    <3> QED
      BY <1>9, <1>10, <1>12, <2>2, <2>5, <3>2, <3>3, <3>4, <3>5, DirectoriesGrow, SMTT(60)
  <2>7. \A j, up \in Directories(r) : IsIn(r, j, up) => IsIn(e, j, up)
    BY <2>2, <2>5, AlsoIn
  <2>8. e.inode_bitmap = d.inode_bitmap
    BY <1>4, <2>1 DEF SameInodes
  <2>9. Gains(r, e, <<T, x.name, x.inode>>)
    <3>1. PICK N : N = {}
      OBVIOUS
    <3>2. /\ Directories(e) = Directories(r) \cup N
          /\ \A i \in N, l \in Nat, m \in Slot : ~Child(e, i, l, m)
      BY <2>4, <3>1
    <3>3. Filled(r, T)
      BY <1>10, <1>12 DEF DirectoriesAgree
    <3> QED
      BY <1>12, <2>2, <2>5, <3>2, <3>3, EntriesGrow
  <2>10. Relocates(d, e, t, T)
    <3>1. \A u : EntryOf(e, u) <=> (EntryOf(d, u) /\ u # t) \/ u = <<T, t[2], t[3]>>
      BY <1>6, <1>19, <2>9 DEF Leaves, Loses, Gains
    <3>2. InUse(e) = InUse(d)
      BY <1>4, <2>4
    <3> QED
      BY <1>19, <3>1, <3>2 DEF Relocates, Leaves
  <2>11. FilesChange(d, e)
    <3> SUFFICES ASSUME NEW j \in InUse(e), j \notin Directories(e)
                 PROVE  j \in InUse(d) /\ j \notin Directories(d) /\ Same(d, e, j)
      BY DEF FilesChange
    <3>1. j \in InUse(d) /\ j \notin Directories(d) /\ j \in InUse(r) /\ j # D /\ j # T
      BY <1>4, <1>12, <2>4
    <3>2. Same(d, r, j) /\ Same(r, e, j)
      BY <1>4, <2>1, <3>1 DEF OthersSame
    <3> QED
      BY <3>1, <3>2, SameTrans
  <2> QED
    BY <1>4, <1>11, <1>19, <2>1, <2>4, <2>6, <2>7, <2>8, <2>10, <2>11 DEF Moved, DiskAgrees
<1> QED
  BY <1>15, <1>20, <1>21

-----------------------------------------------------------------------------
(* Written files *)

\* Grown's function, with its cases as operators.
GrowFirst(d, i) == [disk |-> d, group |-> InodeGroup(i), ok |-> TRUE]

GrowNext(last, i) ==
  LET b == AllocFrom(last.disk, last.group)
  IN  IF ~last.ok \/ b.number = 0 THEN [last EXCEPT !.ok = FALSE]
      ELSE [disk |-> set_inode_block(b.disk, i, WholeDisk(b.group, b.number)),
            group |-> b.group, ok |-> TRUE]

GrowTable(g, d, i, n) ==
  g = [k \in 0 .. n |-> IF k = 0 THEN GrowFirst(d, i) ELSE GrowNext(g[k - 1], i)]

LEMMA GrowTables ==
  ASSUME NEW d, NEW i, NEW n \in Nat
  PROVE  \E g : GrowTable(g, d, i, n)
<1> DEFINE G == {m \in Nat : \E g : GrowTable(g, d, i, m)}
<1>1. 0 \in G
  <2>1. PICK g : g = [k \in 0 .. 0 |-> GrowFirst(d, i)]
    OBVIOUS
  <2>2. \A k \in 0 .. 0 : k = 0
    OBVIOUS
  <2>3. g = [k \in 0 .. 0 |-> IF k = 0 THEN GrowFirst(d, i) ELSE GrowNext(g[k - 1], i)]
    BY <2>1, <2>2
  <2> QED
    BY <2>3 DEF GrowTable
<1>2. ASSUME NEW m \in G PROVE m + 1 \in G
  <2>1. PICK g : GrowTable(g, d, i, m)
    OBVIOUS
  <2>2. PICK h : h = [k \in 0 .. m + 1 |-> IF k = m + 1 THEN GrowNext(g[m], i) ELSE g[k]]
    OBVIOUS
  <2>3. \A k \in 0 .. m : h[k] = g[k] /\ g[k] = IF k = 0 THEN GrowFirst(d, i)
                                                ELSE GrowNext(g[k - 1], i)
    <3>1. \A k \in 0 .. m : k \in 0 .. m + 1 /\ k # m + 1
      OBVIOUS
    <3>2. g = [k \in 0 .. m |-> IF k = 0 THEN GrowFirst(d, i) ELSE GrowNext(g[k - 1], i)]
      BY <2>1 DEF GrowTable
    <3> QED
      BY <2>2, <3>1, <3>2
  <2>4. ASSUME NEW k \in 0 .. m + 1
        PROVE  h[k] = IF k = 0 THEN GrowFirst(d, i) ELSE GrowNext(h[k - 1], i)
    <3>1. CASE k = m + 1
      <4>1. k # 0 /\ k - 1 = m /\ m \in 0 .. m
        BY <3>1
      <4>2. h[k] = GrowNext(g[m], i)
        BY <2>2, <3>1
      <4> QED
        BY <2>3, <4>1, <4>2
    <3>2. CASE k # m + 1
      <4>1. k \in 0 .. m /\ (k # 0 => k - 1 \in 0 .. m)
        BY <3>2
      <4> QED
        BY <2>3, <4>1
    <3> QED
      BY <3>1, <3>2
  <2>5. h = [k \in 0 .. m + 1 |-> IF k = 0 THEN GrowFirst(d, i) ELSE GrowNext(h[k - 1], i)]
    BY <2>2, <2>4
  <2> QED
    BY <2>5 DEF GrowTable
<1>3. G = Nat
  <2> HIDE DEF G
  <2> QED
    BY <1>1, <1>2, InductNat DEF G
<1> QED
  BY <1>3

LEMMA GrownOpened ==
  ASSUME NEW d, NEW i, NEW n \in Nat
  PROVE  \E g : GrowTable(g, d, i, n) /\ Grown(d, i, n) = g[n]
<1>1. PICK g : g = CHOOSE f : GrowTable(f, d, i, n)
  OBVIOUS
<1>2. GrowTable(g, d, i, n)
  BY <1>1, GrowTables
<1>3. Grown(d, i, n) = (CHOOSE f : GrowTable(f, d, i, n))[n]
  BY DEF Grown, GrowTable, GrowFirst, GrowNext
<1> QED
  BY <1>1, <1>2, <1>3

\* w is the state of the loop for inode i, begun on disk d.
Growing(d, w, i) ==
  /\ w \in [disk : Disk, group : Group, ok : BOOLEAN]
  /\ BlocksAgree(w.disk) /\ BlockCounts(w.disk)
  /\ InUse(w.disk) = InUse(d) /\ OthersSame(d, w.disk, i) /\ SameInodes(d, w.disk)
  /\ Len(w.disk.inode[i].block) >= 1 /\ Blk(w.disk, i, 1) = Blk(d, i, 1)

LEMMA GrowingOn ==
  ASSUME NEW d \in Disk, NEW i \in InUse(d), NEW w, Growing(d, w, i)
  PROVE  Growing(d, GrowNext(w, i), i)
<1>1. PICK c \in Disk, g \in Group, o \in BOOLEAN : c = w.disk /\ g = w.group /\ o = w.ok
  BY DEF Growing
<1>2. /\ BlocksAgree(c) /\ BlockCounts(c)
      /\ InUse(c) = InUse(d) /\ OthersSame(d, c, i) /\ SameInodes(d, c)
      /\ Len(c.inode[i].block) >= 1 /\ Blk(c, i, 1) = Blk(d, i, 1) /\ i \in Inode
  BY <1>1 DEF Growing, InUse
<1>3. PICK r : r = AllocFrom(c, g)
  OBVIOUS
<1>4. /\ r.group \in Group /\ r.number \in Nat /\ r.disk \in Disk
      /\ r.number # 0 => /\ BlockCounts(r.disk)
                         /\ Took(c, r.disk, WholeDisk(r.group, r.number))
  BY <1>2, <1>3, AllocFacts
<1>5. PICK v : v = GrowNext(w, i)
  OBVIOUS
<1>6. CASE o = FALSE \/ r.number = 0
  <2>1. v = [w EXCEPT !.ok = FALSE]
    BY <1>1, <1>3, <1>5, <1>6 DEF GrowNext
  <2>2. /\ v.disk = w.disk
        /\ v \in [disk : Disk, group : Group, ok : BOOLEAN]
    BY <2>1 DEF Growing
  <2> QED
    BY <1>5, <2>2 DEF Growing
<1>7. CASE o = TRUE /\ r.number # 0
  <2>1. PICK f \in Disk : f = r.disk
    BY <1>4
  <2>2. PICK b : b = WholeDisk(r.group, r.number)
    OBVIOUS
  <2>3. Took(c, f, b) /\ BlockCounts(f) /\ b \in Block
    BY <1>4, <1>7, <2>1, <2>2 DEF Took
  <2>4. PICK e : e = set_inode_block(f, i, b)
    OBVIOUS
  <2>5. e \in Disk /\ Got(f, e, i, b)
    BY <1>2, <2>3, <2>4, SetInodeBlock
  <2>6. v.disk = e /\ v \in [disk : Disk, group : Group, ok : BOOLEAN]
    <3>1. v = [disk |-> e, group |-> r.group, ok |-> TRUE]
      BY <1>1, <1>3, <1>5, <1>7, <2>1, <2>2, <2>4 DEF GrowNext
    <3> QED
      BY <1>4, <2>5, <3>1
  <2>7. PICK n \in Nat : n = Len(c.inode[i].block)
    BY <1>2, DiskFacts
  <2>8. /\ BlocksAgree(e) /\ BlockCounts(e) /\ InUse(e) = InUse(c)
        /\ OthersSame(c, e, i) /\ SameInodes(c, e)
        /\ Len(e.inode[i].block) = n + 1
        /\ \A k \in 1 .. n : /\ Blk(e, i, k) = Blk(c, i, k)
    BY <1>2, <2>3, <2>5, <2>7, Grow
  <2>9. Len(e.inode[i].block) >= 1 /\ Blk(e, i, 1) = Blk(d, i, 1)
    BY <1>2, <2>7, <2>8
  <2>10. OthersSame(d, e, i)
    BY <1>2, <2>8, SameTrans DEF OthersSame
  <2>11. SameInodes(d, e)
    BY <1>2, <2>8 DEF SameInodes
  <2> QED
    BY <1>2, <1>5, <2>5, <2>6, <2>8, <2>9, <2>10, <2>11 DEF Growing
<1> QED
  BY <1>5, <1>6, <1>7

\* After n turns the file has n more blocks, or a turn found the disk full.
Progress(d, w, i, n) ==
  /\ w.disk.inode[i].size = d.inode[i].size
  /\ \/ w.ok = TRUE /\ Len(w.disk.inode[i].block) = Len(d.inode[i].block) + n
     \/ /\ w.ok = FALSE /\ Len(w.disk.inode[i].block) < Len(d.inode[i].block) + n
        /\ NoneFree(w.disk)

LEMMA ProgressOn ==
  ASSUME NEW d \in Disk, NEW i \in InUse(d), d.inode[i].dir = FALSE, NEW w, Growing(d, w, i),
         NEW n \in Nat, Progress(d, w, i, n)
  PROVE  Progress(d, GrowNext(w, i), i, n + 1)
<1>1. PICK c \in Disk, g \in Group, o \in BOOLEAN : c = w.disk /\ g = w.group /\ o = w.ok
  BY DEF Growing
<1>2. /\ BlocksAgree(c) /\ BlockCounts(c) /\ i \in Inode /\ i \in InUse(c)
      /\ c.inode[i].dir = FALSE
  BY <1>1 DEF Growing, InUse, SameInodes
<1>3. PICK l, m \in Nat : l = Len(d.inode[i].block) /\ m = Len(c.inode[i].block)
  BY <1>2, DiskFacts
<1>4. /\ c.inode[i].size = d.inode[i].size
      /\ \/ o = TRUE /\ m = l + n
         \/ o = FALSE /\ m < l + n /\ NoneFree(c)
  BY <1>1, <1>3 DEF Progress
<1>5. PICK r : r = AllocFrom(c, g)
  OBVIOUS
<1>6. /\ r.group \in Group /\ r.number \in Nat /\ r.disk \in Disk
      /\ r.number = 0 => NoneFree(c)
      /\ r.number # 0 => /\ BlockCounts(r.disk)
                         /\ Took(c, r.disk, WholeDisk(r.group, r.number))
  BY <1>2, <1>5, AllocFacts DEF NoneFree
<1>7. PICK v : v = GrowNext(w, i)
  OBVIOUS
<1>8. CASE o = FALSE \/ r.number = 0
  <2>1. v = [w EXCEPT !.ok = FALSE]
    BY <1>1, <1>5, <1>7, <1>8 DEF GrowNext
  <2>2. v.disk = c /\ v.ok = FALSE
    BY <1>1, <2>1 DEF Growing
  <2>3. NoneFree(c)
    BY <1>4, <1>6, <1>8
  <2>4. m < l + (n + 1)
    <3>1. m = l + n \/ m < l + n
      BY <1>4
    <3> QED
      BY <3>1
  <2> QED
    BY <1>3, <1>4, <1>7, <2>2, <2>3, <2>4 DEF Progress
<1>9. CASE o = TRUE /\ r.number # 0
  <2>1. PICK f \in Disk : f = r.disk
    BY <1>6
  <2>2. PICK b : b = WholeDisk(r.group, r.number)
    OBVIOUS
  <2>3. Took(c, f, b) /\ BlockCounts(f) /\ b \in Block
    BY <1>6, <1>9, <2>1, <2>2 DEF Took
  <2>4. PICK e : e = set_inode_block(f, i, b)
    OBVIOUS
  <2>5. Got(f, e, i, b)
    BY <1>2, <2>3, <2>4, SetInodeBlock
  <2>6. v.disk = e /\ v.ok = TRUE
    BY <1>1, <1>5, <1>7, <1>9, <2>1, <2>2, <2>4 DEF GrowNext
  <2>7. Len(e.inode[i].block) = m + 1 /\ e.inode[i].size = c.inode[i].size
    BY <1>2, <1>3, <2>3, <2>5, Grow
  <2>8. m + 1 = l + (n + 1)
    <3>1. m = l + n
      BY <1>4, <1>9
    <3> QED
      BY <3>1
  <2> QED
    BY <1>3, <1>4, <1>7, <2>6, <2>7, <2>8 DEF Progress
<1> QED
  BY <1>8, <1>9

LEMMA GrownFacts ==
  ASSUME NEW d \in Disk, NEW i \in InUse(d), InodesAgree(d), BlocksAgree(d),
         BlockCounts(d), d.inode[i].dir = FALSE, NEW n \in Nat
  PROVE  Growing(d, Grown(d, i, n), i) /\ Progress(d, Grown(d, i, n), i, n)
<1>1. PICK g : GrowTable(g, d, i, n) /\ Grown(d, i, n) = g[n]
  BY GrownOpened
<1>2. \A k \in 0 .. n : g[k] = IF k = 0 THEN GrowFirst(d, i) ELSE GrowNext(g[k - 1], i)
  <2>1. g = [k \in 0 .. n |-> IF k = 0 THEN GrowFirst(d, i) ELSE GrowNext(g[k - 1], i)]
    BY <1>1 DEF GrowTable
  <2> QED
    BY <2>1
<1> DEFINE G == {k \in Nat : k <= n => Growing(d, g[k], i) /\ Progress(d, g[k], i, k)}
<1>3. 0 \in G
  <2>1. InodeGroup(i) \in Group
    <3>1. i \in Inode /\ i \in 1 .. inode_per_group
      BY DirectoriesInUse DEF InUse
    <3> QED
      BY <3>1, FirstGroupInodes, Root
  <2>2. \A j \in InUse(d) : Same(d, d, j)
    BY DEF Same
  <2>3. Len(d.inode[i].block) >= 1
    BY DEF InodesAgree
  <2>4. Growing(d, GrowFirst(d, i), i)
    BY <2>1, <2>2, <2>3 DEF Growing, GrowFirst, OthersSame, SameInodes
  <2>5. 0 \in 0 .. n
    OBVIOUS
  <2>6. Progress(d, GrowFirst(d, i), i, 0)
    <3>1. Len(d.inode[i].block) \in Nat
      BY DiskFacts DEF InUse
    <3>2. Len(d.inode[i].block) = Len(d.inode[i].block) + 0
      BY <3>1
    <3> QED
      BY <3>2 DEF Progress, GrowFirst
  <2> QED
    BY <1>2, <2>4, <2>5, <2>6
<1>4. ASSUME NEW k \in G PROVE k + 1 \in G
  <2>1. SUFFICES ASSUME k + 1 <= n
                 PROVE  Growing(d, g[k + 1], i) /\ Progress(d, g[k + 1], i, k + 1)
    OBVIOUS
  <2>2. Growing(d, g[k], i) /\ Progress(d, g[k], i, k)
    BY <2>1
  <2>3. k + 1 \in 0 .. n /\ k + 1 # 0 /\ (k + 1) - 1 = k
    BY <2>1
  <2>4. g[k + 1] = GrowNext(g[k], i)
    BY <1>2, <2>3
  <2> QED
    BY <2>2, <2>4, GrowingOn, ProgressOn
<1>5. G = Nat
  <2>1. G \in SUBSET Nat
    OBVIOUS
  <2> HIDE DEF G
  <2> QED
    BY <1>3, <1>4, <2>1, InductNat
<1>6. n \in G
  BY <1>5
<1> QED
  BY <1>1, <1>6

\* The size and the contents of file i may have changed, and it may have got
\* blocks.
WrittenTo(d, e) ==
  /\ DiskAgrees(e)
  /\ e.inode_bitmap = d.inode_bitmap /\ Directories(e) = Directories(d)
  /\ InUse(e) = InUse(d) /\ SameTree(d, e)
  /\ \A j, up \in Directories(e) : IsIn(d, j, up) => IsIn(e, j, up)

LEMMA SetSize ==
  ASSUME NEW d \in Disk, NEW i \in Inode, NEW length \in Nat
  PROVE  LET e == [d EXCEPT !.inode[i].size = IF @ < length THEN length ELSE @]
         IN  /\ e \in Disk
             /\ e.block_bitmap = d.block_bitmap /\ e.inode_bitmap = d.inode_bitmap
             /\ e.gd = d.gd /\ e.data = d.data
             /\ \A j \in Inode : j # i => e.inode[j] = d.inode[j]
             /\ e.inode[i].block = d.inode[i].block /\ e.inode[i].dir = d.inode[i].dir
             /\ d.inode[i].size = 0 => e.inode[i].size = length
<1>1. PICK p \in INODE : p = d.inode[i]
  BY DiskFacts
<1>2. PICK z \in Nat : z = IF p.size < length THEN length ELSE p.size
  BY DEF INODE
<1>3. PICK w : w = [p EXCEPT !.size = z]
  OBVIOUS
<1>4. /\ w \in INODE /\ w.block = p.block /\ w.dir = p.dir
      /\ p.size = 0 => w.size = length
  <2>1. w \in INODE /\ w.block = p.block /\ w.dir = p.dir /\ w.size = z
    BY <1>3 DEF INODE
  <2>2. p.size = 0 => z = length
    BY <1>2
  <2> QED
    BY <2>1, <2>2
<1>5. [d EXCEPT !.inode[i].size = IF @ < length THEN length ELSE @] = [d EXCEPT !.inode[i] = w]
  BY <1>1, <1>2, <1>3 DEF Disk
<1>6. PICK e : e = [d EXCEPT !.inode[i] = w]
  OBVIOUS
<1>7. /\ e \in Disk
      /\ e.block_bitmap = d.block_bitmap /\ e.inode_bitmap = d.inode_bitmap
      /\ e.gd = d.gd /\ e.data = d.data
      /\ \A j \in Inode : e.inode[j] = IF j = i THEN w ELSE d.inode[j]
  BY <1>4, <1>6, SetInode, ZenonT(60)
<1> QED
  BY <1>1, <1>4, <1>5, <1>6, <1>7

\* The contents of some blocks of i have changed.
Rewrote(d, e, i) ==
  /\ e.block_bitmap = d.block_bitmap /\ e.inode_bitmap = d.inode_bitmap
  /\ e.gd = d.gd /\ e.inode = d.inode
  /\ \A b \in Block : (\A k \in 1 .. Len(d.inode[i].block) : d.inode[i].block[k] # b)
                        => e.data[b] = d.data[b]

\* The first slots of the blocks that i has in d.
Filling(d, e, i, length) ==
  \A k \in 1 .. Len(d.inode[i].block), s \in Slot :
    (k - 1) * EntriesPerBlock + s < length => e.data[Blk(d, i, k)][s] = Data

LEMMA RewriteData ==
  ASSUME NEW d \in Disk, NEW i \in Inode, NEW length
  PROVE  LET e == [d EXCEPT !.data =
                     [b \in Block |-> [s \in Slot |->
                        IF Written(d.inode[i].block, b, s, length) THEN Data
                        ELSE @[b][s]]]]
         IN  e \in Disk /\ Rewrote(d, e, i) /\ Filling(d, e, i, length)
<1>1. PICK q \in Seq(Block) : q = d.inode[i].block
  BY DiskFacts
<1>2. PICK u \in [Block -> [Slot -> Entry]] : u = d.data
  BY DEF Disk
<1>3. PICK v : v = [b \in Block |-> [s \in Slot |->
                      IF Written(q, b, s, length) THEN Data ELSE u[b][s]]]
  OBVIOUS
<1>4. v \in [Block -> [Slot -> Entry]]
  <2>1. Data \in Entry
    BY DEF Data, Entry
  <2> QED
    BY <1>3, <2>1
<1>5. \A b \in Block : (\A k \in 1 .. Len(q) : q[k] # b) => v[b] = u[b]
  <2> SUFFICES ASSUME NEW b \in Block, \A k \in 1 .. Len(q) : q[k] # b
               PROVE  v[b] = u[b]
    OBVIOUS
  <2>1. \A s \in Slot : ~Written(q, b, s, length)
    BY DEF Written
  <2>2. v[b] = [s \in Slot |-> u[b][s]]
    BY <1>3, <2>1
  <2> QED
    BY <2>2
<1>6. PICK e : e = [d EXCEPT !.data = v]
  OBVIOUS
<1>7. e = [d EXCEPT !.data = [b \in Block |-> [s \in Slot |->
                        IF Written(d.inode[i].block, b, s, length) THEN Data
                        ELSE @[b][s]]]]
  BY <1>1, <1>2, <1>3, <1>6
<1>8. /\ e \in Disk /\ e.block_bitmap = d.block_bitmap /\ e.inode_bitmap = d.inode_bitmap
      /\ e.gd = d.gd /\ e.inode = d.inode /\ e.data = v
  BY <1>4, <1>6 DEF Disk
<1>9. Rewrote(d, e, i)
  BY <1>1, <1>2, <1>5, <1>8 DEF Rewrote
<1>10. \A k \in 1 .. Len(q), s \in Slot :
         (k - 1) * EntriesPerBlock + s < length => v[q[k]][s] = Data
  <2> SUFFICES ASSUME NEW k \in 1 .. Len(q), NEW s \in Slot,
                      (k - 1) * EntriesPerBlock + s < length
               PROVE  v[q[k]][s] = Data
    OBVIOUS
  <2>1. PICK b \in Block : b = q[k]
    OBVIOUS
  <2>2. k \in DOMAIN q
    OBVIOUS
  <2>3. Written(q, b, s, length)
    BY <2>1, <2>2 DEF Written
  <2> QED
    BY <1>3, <2>1, <2>3
<1>11. Filling(d, e, i, length)
  BY <1>1, <1>8, <1>10 DEF Filling, Blk
<1> QED
  BY <1>7, <1>8, <1>9, <1>11

\* With m blocks, the one that a file is created with and those that a write
\* adds, a file has room for what is written; with less it has not.
LEMMA RoomAdded ==
  ASSUME NEW length \in Nat, NEW n, n = BlocksToAdd(1, length), NEW m \in Nat
  PROVE  /\ n \in Nat
         /\ m = 1 + n => length <= m * EntriesPerBlock
         /\ m >= 1 /\ m < 1 + n => ~(length <= m * EntriesPerBlock)
<1>1. PICK E \in Nat \ {0} : E = EntriesPerBlock
  BY Constants
<1>2. PICK q, r : q = length \div E /\ r = length % E
  OBVIOUS
<1>3. q \in Nat /\ r \in 0 .. E - 1 /\ length = q * E + r /\ q * E \in Nat
  BY <1>1, <1>2, DivMod, Multiply
<1>4. n = IF 1 > q THEN 0 ELSE (q - 1) + (IF r > 0 THEN 1 ELSE 0)
  BY <1>1, <1>2 DEF BlocksToAdd
<1>5. n \in Nat
  BY <1>3, <1>4
<1>6. PICK x : x = m * E
  OBVIOUS
<1>7. /\ x \in Nat
      /\ m < q <=> x + E <= q * E
      /\ q < m <=> q * E + E <= x
      /\ m = q => x = q * E
  BY <1>1, <1>3, <1>6, Multiply
<1>8. ASSUME m = 1 + n PROVE length <= x
  <2>1. q < m \/ (m = q /\ r = 0)
    BY <1>3, <1>4, <1>8
  <2> QED
    BY <1>1, <1>3, <1>7, <2>1
<1>9. ASSUME m >= 1, m < 1 + n PROVE ~(length <= x)
  <2>1. m < q \/ (m = q /\ r > 0)
    BY <1>3, <1>4, <1>9
  <2> QED
    BY <1>1, <1>3, <1>7, <2>1
<1> QED
  BY <1>1, <1>5, <1>6, <1>8, <1>9

LEMMA WriteAgrees ==
  ASSUME NEW d, DiskAgrees(d), NEW i \in InUse(d), i \notin Directories(d),
         NEW length \in Nat, NEW e, e = ext2_write(d, i, length).disk
  PROVE  /\ WrittenTo(d, e)
         /\ \A j \in InUse(d) : j # i => Same(d, e, j)
         /\ d.inode[i].size = 0 /\ Len(d.inode[i].block) = 1 => Stored(e, i)
<1>0. /\ d \in Disk /\ InodesAgree(d) /\ BlocksAgree(d) /\ BlockCounts(d)
      /\ InodeCounts(d) /\ DirectoriesAgree(d) /\ i \in Inode
  BY DEF DiskAgrees, InUse
<1>1. PICK f : f = [d EXCEPT !.inode[i].size = IF @ < length THEN length ELSE @]
  OBVIOUS
<1>2. /\ f \in Disk
      /\ f.block_bitmap = d.block_bitmap /\ f.inode_bitmap = d.inode_bitmap
      /\ f.gd = d.gd /\ f.data = d.data
      /\ \A j \in Inode : j # i => f.inode[j] = d.inode[j]
      /\ f.inode[i].block = d.inode[i].block /\ f.inode[i].dir = d.inode[i].dir
      /\ d.inode[i].size = 0 => f.inode[i].size = length
  BY <1>0, <1>1, SetSize
<1>3. /\ \A j \in Inode : f.inode[j].block = d.inode[j].block /\ f.inode[j].dir = d.inode[j].dir
      /\ InUse(f) = InUse(d) /\ Directories(f) = Directories(d)
  BY <1>2 DEF InUse, Directories
<1>4. InodesAgree(f) /\ BlocksAgree(f) /\ BlockCounts(f) /\ InodeCounts(f)
  <2>1. InodesAgree(f)
    <3>1. ROOT \in Inode /\ \A j \in 1 .. ReservedInodes : j \in Inode
      BY <1>0, Root, DiskFacts DEF InodesAgree
    <3>2. \A j \in InUse(d) : j \in Inode
      BY DEF InUse
    <3> QED
      BY <1>0, <1>2, <1>3, <3>1, <3>2 DEF InodesAgree
  <2>2. BlocksAgree(f)
    <3>1. /\ \A j \in Inode, k \in Nat : Own(f, j, k) <=> Own(d, j, k)
          /\ \A j \in Inode, k \in Nat : Own(d, j, k) => Blk(f, j, k) = Blk(d, j, k)
      BY <1>3 DEF Own, Blk
    <3> QED
      BY <1>0, <1>2, <3>1, OwnSame
  <2> QED
    BY <1>0, <1>2, <2>1, <2>2 DEF BlockCounts, InodeCounts, FreeBlocks, FreeInodes
<1>5. \A j \in InUse(d) : j # i => Same(d, f, j)
  BY <1>2 DEF Same, InUse
<1>6. PICK n \in Nat : n = BlocksToAdd(Len(d.inode[i].block), length)
  <2>1. Len(d.inode[i].block) \in Nat
    BY <1>0, DiskFacts
  <2>2. length \div EntriesPerBlock \in Nat
    BY Constants
  <2> QED
    BY <2>1, <2>2 DEF BlocksToAdd
<1>7. PICK w : w = Grown(f, i, n)
  OBVIOUS
<1>8. Growing(f, w, i) /\ Progress(f, w, i, n)
  <2>1. ROOT \in Directories(d)
    BY <1>0, DirectoriesInUse
  <2>2. d.inode[i].dir \in BOOLEAN
    BY <1>0, DiskFacts
  <2>3. f.inode[i].dir = FALSE
    BY <1>0, <1>2, <2>1, <2>2 DEF Directories, InUse
  <2> QED
    BY <1>2, <1>3, <1>4, <1>7, <2>3, GrownFacts
<1>9. PICK g \in Disk : g = w.disk
  BY <1>8 DEF Growing
<1>10. /\ BlocksAgree(g) /\ BlockCounts(g)
       /\ InUse(g) = InUse(f) /\ OthersSame(f, g, i) /\ SameInodes(f, g)
       /\ Len(g.inode[i].block) >= 1 /\ Blk(g, i, 1) = Blk(f, i, 1)
  BY <1>8, <1>9 DEF Growing
<1>11. PICK h : h = [g EXCEPT !.data =
                       [b \in Block |-> [s \in Slot |->
                          IF Written(g.inode[i].block, b, s, length) THEN Data
                          ELSE @[b][s]]]]
  OBVIOUS
<1>12. h \in Disk /\ Rewrote(g, h, i) /\ Filling(g, h, i, length)
  BY <1>0, <1>11, RewriteData
<1>13. (w.ok = TRUE /\ e = h) \/ (w.ok = FALSE /\ e = g)
  <2>1. ext2_write(d, i, length) =
          IF ~w.ok THEN [disk |-> w.disk, ok |-> FALSE]
          ELSE [disk |-> h, ok |-> TRUE]
    BY <1>1, <1>6, <1>7, <1>9, <1>11 DEF ext2_write
  <2>2. CASE w.ok = TRUE
    BY <2>1, <2>2
  <2>3. CASE w.ok = FALSE
    BY <1>9, <2>1, <2>3
  <2> QED
    BY <1>8, <2>2, <2>3 DEF Growing
<1>14. /\ e \in Disk /\ e.block_bitmap = g.block_bitmap /\ e.inode_bitmap = g.inode_bitmap
       /\ e.gd = g.gd /\ e.inode = g.inode
       /\ \A b \in Block : (\A k \in 1 .. Len(g.inode[i].block) : g.inode[i].block[k] # b)
                             => e.data[b] = g.data[b]
  BY <1>12, <1>13 DEF Rewrote
<1>15. InUse(e) = InUse(d) /\ Directories(e) = Directories(d)
  <2>1. InUse(e) = InUse(g)
    BY <1>14 DEF InUse
  <2>2. Directories(e) = Directories(f)
    BY <1>10, <1>14 DEF Directories, SameInodes
  <2> QED
    BY <1>3, <1>10, <2>1, <2>2
<1>16. BlocksAgree(e)
  <2>1. InUse(e) = InUse(g)
    BY <1>14 DEF InUse
  <2>2. /\ \A j \in Inode, k \in Nat : Own(e, j, k) <=> Own(g, j, k)
        /\ \A j \in Inode, k \in Nat : Own(g, j, k) => Blk(e, j, k) = Blk(g, j, k)
    BY <1>14, <2>1 DEF Own, Blk
  <2> QED
    BY <1>10, <1>14, <2>2, OwnSame
<1>17. BlockCounts(e)
  BY <1>10, <1>14 DEF BlockCounts, FreeBlocks
<1>18. InodeCounts(e) /\ e.inode_bitmap = d.inode_bitmap
  <2>1. e.inode_bitmap = f.inode_bitmap
    BY <1>10, <1>14 DEF SameInodes
  <2>2. \A c \in Group : e.gd[c].free_inodes = f.gd[c].free_inodes
    BY <1>10, <1>14 DEF SameInodes
  <2> QED
    BY <1>2, <1>4, <2>1, <2>2 DEF InodeCounts, FreeInodes
<1>19. \A j \in InUse(d) : j # i => Same(d, e, j)
  <2> SUFFICES ASSUME NEW j \in InUse(d), j # i PROVE Same(d, e, j)
    OBVIOUS
  <2>1. Same(d, f, j) /\ Same(f, g, j)
    BY <1>3, <1>5, <1>10 DEF OthersSame
  <2>2. j \in InUse(g) /\ j \in Inode /\ i \in InUse(g)
    BY <1>3, <1>10 DEF InUse
  <2>3. ASSUME NEW l \in 1 .. Len(g.inode[j].block)
        PROVE  e.data[Blk(g, j, l)] = g.data[Blk(g, j, l)]
    <3>1. Own(g, j, l) /\ l \in Nat /\ Blk(g, j, l) \in Block
      BY <2>2, DiskFacts DEF Own, Blk
    <3>2. ASSUME NEW k \in 1 .. Len(g.inode[i].block) PROVE g.inode[i].block[k] # Blk(g, j, l)
      <4>1. Own(g, i, k) /\ k \in Nat
        BY <1>0, <2>2, DiskFacts DEF Own
      <4> QED
        BY <1>0, <1>10, <2>2, <3>1, <4>1 DEF BlocksAgree, Blk
    <3> QED
      BY <1>14, <3>1, <3>2
  <2>4. Same(g, e, j)
    BY <1>14, <2>3 DEF Same
  <2> QED
    BY <2>1, <2>4, SameTrans
<1>20. InodesAgree(e)
  <2>1. ROOT \in Inode /\ \A j \in 1 .. ReservedInodes : j \in Inode
    BY <1>0, Root, DiskFacts DEF InodesAgree
  <2>2. \A j \in Inode : e.inode[j].dir = d.inode[j].dir
    BY <1>3, <1>10, <1>14 DEF SameInodes
  <2>3. \A j \in InUse(d) : Len(e.inode[j].block) >= 1 /\ BlockGroup(e.inode[j].block[1]) = 0
    <3> SUFFICES ASSUME NEW j \in InUse(d)
                 PROVE  Len(e.inode[j].block) >= 1 /\ BlockGroup(e.inode[j].block[1]) = 0
      OBVIOUS
    <3>1. Len(d.inode[j].block) >= 1 /\ BlockGroup(d.inode[j].block[1]) = 0
      BY <1>0 DEF InodesAgree
    <3>2. CASE j = i
      BY <1>2, <1>10, <1>14, <3>1, <3>2 DEF Blk
    <3>3. CASE j # i
      BY <1>19, <3>1, <3>3 DEF Same
    <3> QED
      BY <3>2, <3>3
  <2> QED
    BY <1>0, <1>15, <1>18, <2>1, <2>2, <2>3 DEF InodesAgree
<1>21. \A j \in Directories(d) : Same(d, e, j)
  BY <1>0, <1>19, DirectoriesInUse
<1>22. DirectoriesAgree(e)
  <2>1. ROOT \in Directories(d)
    BY <1>0, DirectoriesInUse
  <2> QED
    BY <1>0, <1>15, <1>21, <2>1, DirectoriesSame
<1>23. \A j, up \in Directories(e) : IsIn(d, j, up) => IsIn(e, j, up)
  <2> SUFFICES ASSUME NEW j \in Directories(d), NEW up \in Directories(d), IsIn(d, j, up)
               PROVE  IsIn(e, j, up)
    BY <1>15
  <2>1. PICK k \in Nat, s \in Slot : Child(d, up, k, s) /\ Ent(d, up, k, s).inode = j
    BY DEF IsIn
  <2>2. Child(e, up, k, s) /\ Ent(e, up, k, s) = Ent(d, up, k, s)
    BY <1>21, <2>1, SameEntries DEF Child
  <2> QED
    BY <2>1, <2>2 DEF IsIn
<1>24. WrittenTo(d, e)
  <2>1. SameTree(d, e)
    BY <1>15, <1>21, EntriesSame
  <2> QED
    BY <1>14, <1>15, <1>16, <1>17, <1>18, <1>20, <1>22, <1>23, <2>1
       DEF WrittenTo, DiskAgrees
<1>25. ASSUME d.inode[i].size = 0, Len(d.inode[i].block) = 1
       PROVE  Stored(e, i)
  <2>1. PICK m \in Nat : m = Len(g.inode[i].block)
    BY <1>0, DiskFacts
  <2>2. /\ e.inode[i].size = length /\ Len(e.inode[i].block) = m /\ m >= 1
        /\ e.inode[i].block = g.inode[i].block
        /\ \/ w.ok = TRUE /\ e = h /\ m = 1 + n
           \/ w.ok = FALSE /\ e = g /\ m < 1 + n /\ NoneFree(e)
    BY <1>2, <1>8, <1>9, <1>10, <1>13, <1>14, <1>25, <2>1 DEF Progress
  <2>3. n = BlocksToAdd(1, length)
    BY <1>6, <1>25
  <2>4. /\ m = 1 + n => length <= m * EntriesPerBlock
        /\ m < 1 + n => ~(length <= m * EntriesPerBlock)
    BY <2>2, <2>3, RoomAdded
  <2>5. Roomy(e, i) <=> length <= m * EntriesPerBlock
    BY <2>2 DEF Roomy
  <2>6. w.ok = TRUE /\ e = h => Holds(e, i)
    BY <1>12, <2>1, <2>2 DEF Filling, Holds, Ent, Blk
  <2> QED
    BY <2>2, <2>4, <2>5, <2>6 DEF Stored
<1> QED
  BY <1>19, <1>24, <1>25

-----------------------------------------------------------------------------
(* A new file system *)

LEMMA FirstEntries ==
  ASSUME NEW i \in Inode, NEW D \in Inode,
         NEW z, z = [Zeroed EXCEPT ![0] = Named(i, "."), ![1] = Named(D, "..")]
  PROVE  /\ z \in [Slot -> Entry] /\ z[0] = Named(i, ".") /\ z[1] = Named(D, "..")
         /\ \A s \in Slot : s > 1 => z[s].name = ""
<1>0. 0 \in Slot /\ 1 \in Slot /\ Slot \subseteq Nat
  BY Constants DEF Slot
<1>1. Named(i, ".") \in Entry /\ Named(D, "..") \in Entry
  BY DEF Named, Entry
<1>2. NoEntry.name = ""
  BY DEF NoEntry
<1>3. PICK p, q : p = Named(i, ".") /\ q = Named(D, "..")
  OBVIOUS
<1>4. PICK y : y = [Zeroed EXCEPT ![0] = p]
  OBVIOUS
<1>5. z = [y EXCEPT ![1] = q]
  BY <1>3, <1>4
<1>6. y \in [Slot -> Entry] /\ \A s \in Slot : y[s] = IF s = 0 THEN p ELSE NoEntry
  BY <1>0, <1>1, <1>3, <1>4, ZeroedType
<1>7. z \in [Slot -> Entry] /\ \A s \in Slot : z[s] = IF s = 1 THEN q ELSE y[s]
  BY <1>0, <1>1, <1>3, <1>5, <1>6
<1>8. y[0] = p /\ z[0] = y[0] /\ z[1] = q
  BY <1>0, <1>6, <1>7
<1>9. \A s \in Slot : s > 1 => z[s] = NoEntry
  <2>1. \A s \in Slot : s > 1 => s # 0 /\ s # 1
    BY <1>0
  <2> QED
    BY <1>6, <1>7, <2>1
<1> QED
  BY <1>2, <1>3, <1>7, <1>8, <1>9

\* All blocks but the metadata are free, as the descriptors say.
LEMMA FreshBlocks ==
  ASSUME NEW d, d.block_bitmap = MetadataBlocks, NEW g \in Group
  PROVE  Cardinality(FreeBlocks(d, g)) = block_per_group - FirstDataBlock
<1>1. \A b \in FirstDataBlock .. block_per_group - 1 : WholeDisk(g, b) \notin MetadataBlocks
  <2> SUFFICES ASSUME NEW b \in FirstDataBlock .. block_per_group - 1
               PROVE  WholeDisk(g, b) \notin MetadataBlocks
    OBVIOUS
  <2>1. b \in 0 .. block_per_group - 1 /\ ~(b < FirstDataBlock)
    BY Constants
  <2> QED
    BY <2>1, Numbered, MetadataNumbers
<1>2. FreeBlocks(d, g) = FirstDataBlock .. block_per_group - 1
  BY <1>1 DEF FreeBlocks
<1>3. FirstDataBlock \in Int /\ block_per_group - 1 \in Int
      /\ ~(FirstDataBlock > block_per_group - 1)
      /\ block_per_group - 1 - FirstDataBlock + 1 = block_per_group - FirstDataBlock
  BY Constants
<1> QED
  BY <1>2, <1>3, FS_Interval

\* The inodes of a group.
LEMMA GroupInodes ==
  ASSUME NEW g \in Group
  PROVE  /\ g * inode_per_group \in Nat
         /\ \A i : i \in Inode /\ InodeGroup(i) = g
                     <=> i \in g * inode_per_group + 1 .. g * inode_per_group + inode_per_group
<1>0. g \in Nat /\ g < NUMBER_OF_GROUPS /\ inode_per_group \in Nat \ {0}
      /\ NUMBER_OF_GROUPS \in Nat
  BY Constants DEF Group
<1>1. /\ g * inode_per_group \in Nat /\ NUMBER_OF_GROUPS * inode_per_group \in Nat
      /\ g * inode_per_group + inode_per_group <= NUMBER_OF_GROUPS * inode_per_group
  BY <1>0, Multiply
<1>2. PICK a \in Nat : a = g * inode_per_group
  BY <1>1
<1>3. ASSUME NEW i \in a + 1 .. a + inode_per_group
      PROVE  i \in Inode /\ InodeGroup(i) = g
  <2>1. i \in Inode
    BY <1>0, <1>1, <1>2 DEF Inode
  <2>2. i - 1 \in Nat /\ i - 1 - a \in 0 .. inode_per_group - 1 /\ i - 1 = a + (i - 1 - a)
    BY <1>0
  <2>3. PICK n \in Nat, r \in 0 .. inode_per_group - 1 : n = i - 1 /\ r = i - 1 - a
    BY <2>2
  <2>4. n = g * inode_per_group + r
    BY <1>2, <2>2, <2>3
  <2>5. n \div inode_per_group = g
    BY <1>0, <2>4, DivUnique
  <2> QED
    BY <2>1, <2>3, <2>5 DEF InodeGroup
<1>4. ASSUME NEW i \in Inode, InodeGroup(i) = g
      PROVE  i \in a + 1 .. a + inode_per_group
  <2>1. i - 1 \in Nat /\ i \in Nat
    BY <1>1 DEF Inode
  <2>2. PICK n \in Nat : n = i - 1
    BY <2>1
  <2>3. n \div inode_per_group = g
    BY <1>4, <2>2 DEF InodeGroup
  <2>4. PICK r \in 0 .. inode_per_group - 1 : n = g * inode_per_group + r
    BY <1>0, <2>3, DivMod
  <2>5. n = a + r
    BY <1>2, <2>4
  <2> QED
    BY <1>0, <2>1, <2>2, <2>5
<1> QED
  BY <1>1, <1>2, <1>3, <1>4

LEMMA FreshInodes ==
  ASSUME NEW d, d.inode_bitmap = 1 .. ReservedInodes, NEW g \in Group
  PROVE  Cardinality(FreeInodes(d, g)) = FormattedGd(g).free_inodes
<1>1. FormattedGd(g).free_inodes = inode_per_group - (IF g = 0 THEN ReservedInodes ELSE 0)
  BY DEF FormattedGd
<1>2. CASE g = 0
  <2>1. ASSUME NEW i PROVE i \in FreeInodes(d, g) <=> i \in ReservedInodes + 1 .. inode_per_group
    <3>1. i \in FreeInodes(d, g)
            <=> i \in Inode /\ InodeGroup(i) = 0 /\ i \notin 1 .. ReservedInodes
      BY <1>2 DEF FreeInodes
    <3>2. i \in Inode /\ InodeGroup(i) = 0 <=> i \in 1 .. inode_per_group
      BY FirstGroupInodes, Root
    <3>3. i \in 1 .. inode_per_group /\ i \notin 1 .. ReservedInodes
            <=> i \in ReservedInodes + 1 .. inode_per_group
      BY Constants
    <3> QED
      BY <3>1, <3>2, <3>3
  <2>2. FreeInodes(d, g) = ReservedInodes + 1 .. inode_per_group
    BY <2>1
  <2>3. /\ ReservedInodes + 1 \in Int /\ inode_per_group \in Int
        /\ (IF ReservedInodes + 1 > inode_per_group THEN 0
            ELSE inode_per_group - (ReservedInodes + 1) + 1)
             = inode_per_group - ReservedInodes
    BY Constants
  <2> QED
    BY <1>1, <1>2, <2>2, <2>3, FS_Interval
<1>3. CASE g # 0
  <2>1. PICK a \in Nat : a = g * inode_per_group
    BY GroupInodes
  <2>2. ASSUME NEW i PROVE i \in FreeInodes(d, g) <=> i \in a + 1 .. a + inode_per_group
    <3>1. i \in FreeInodes(d, g)
            <=> i \in Inode /\ InodeGroup(i) = g /\ i \notin 1 .. ReservedInodes
      BY DEF FreeInodes
    <3>2. i \in 1 .. ReservedInodes => i \in 1 .. inode_per_group
      BY Constants
    <3>3. i \in Inode /\ InodeGroup(i) = g => i \notin 1 .. ReservedInodes
      BY <1>3, <3>2, FirstGroupInodes
    <3>4. i \in Inode /\ InodeGroup(i) = g <=> i \in a + 1 .. a + inode_per_group
      BY <2>1, GroupInodes
    <3> QED
      BY <3>1, <3>3, <3>4
  <2>3. FreeInodes(d, g) = a + 1 .. a + inode_per_group
    BY <2>2
  <2>4. PICK lo \in Int, hi \in Int : lo = a + 1 /\ hi = a + inode_per_group
    BY <2>1, Constants
  <2>5. Cardinality(lo .. hi) = IF lo > hi THEN 0 ELSE hi - lo + 1
    BY FS_Interval
  <2>6. ~(lo > hi) /\ hi - lo + 1 = inode_per_group
    BY <2>1, <2>4, Constants
  <2>7. inode_per_group - (IF g = 0 THEN ReservedInodes ELSE 0) = inode_per_group
    BY <1>3, Constants
  <2> QED
    BY <1>1, <2>3, <2>4, <2>5, <2>6, <2>7
<1> QED
  BY <1>2, <1>3

\* What the first format leaves.
Fresh(e) ==
  /\ e \in Disk
  /\ e.block_bitmap = MetadataBlocks \cup {RootBlock}
  /\ e.inode_bitmap = 1 .. ReservedInodes
  /\ \A i \in Inode : i # ROOT => e.inode[i] = Unwritten
  /\ e.inode[ROOT] = [dir |-> TRUE, size |-> 2, block |-> <<RootBlock>>]
  /\ e.data[RootBlock][0] = Named(ROOT, ".") /\ e.data[RootBlock][1] = Named(ROOT, "..")
  /\ \A s \in Slot : s > 1 => e.data[RootBlock][s].name = ""
  /\ \A g \in Group : e.gd[g].free_blocks =
                        IF g = 0 THEN block_per_group - FirstDataBlock - 1
                        ELSE block_per_group - FirstDataBlock
  /\ \A g \in Group : e.gd[g].free_inodes = FormattedGd(g).free_inodes

LEMMA RootBlockFacts ==
  /\ RootBlock \in Block /\ RootBlock \notin MetadataBlocks /\ BlockGroup(RootBlock) = 0
  /\ MetadataBlocks \subseteq Block
<1>1. FirstDataBlock \in 0 .. block_per_group - 1 /\ 0 \in Group
  BY Constants, Root
<1>2. PICK b \in Block : b = RootBlock
  BY <1>1, Numbered DEF RootBlock
<1>3. BlockGroup(b) = 0 /\ b % block_per_group = FirstDataBlock
  BY <1>1, <1>2, Numbered DEF RootBlock
<1>4. b \notin MetadataBlocks
  BY <1>3, MetadataNumbers, Constants
<1>5. MetadataBlocks \subseteq Block
  <2> SUFFICES ASSUME NEW g \in Group, NEW n \in 0 .. FirstDataBlock - 1
               PROVE  WholeDisk(g, n) \in Block
    BY DEF MetadataBlocks
  <2>1. n \in 0 .. block_per_group - 1
    BY Constants
  <2> QED
    BY <2>1, Numbered
<1> QED
  BY <1>2, <1>3, <1>4, <1>5

LEMMA FormatFresh ==
  ASSUME NEW d \in Disk
  PROVE  Fresh(ext2_format(d, FALSE))
<1>0. /\ ROOT \in Inode /\ 0 \in Group /\ ROOT \in 1 .. ReservedInodes
      /\ RootBlock \in Block /\ MetadataBlocks \subseteq Block
  BY Root, RootBlockFacts
<1>1. PICK y : y = [g \in Group |-> FormattedGd(g)]
  OBVIOUS
<1>2. /\ y \in [Group -> [free_blocks : Nat, free_inodes : Nat]]
      /\ \A g \in Group : y[g].free_blocks = block_per_group - FirstDataBlock
      /\ \A g \in Group : y[g].free_inodes = FormattedGd(g).free_inodes
  <2>1. ASSUME NEW g \in Group
        PROVE  /\ FormattedGd(g) \in [free_blocks : Nat, free_inodes : Nat]
               /\ FormattedGd(g).free_blocks = block_per_group - FirstDataBlock
    <3>1. block_per_group - FirstDataBlock \in Nat /\ inode_per_group \in Nat
          /\ inode_per_group - ReservedInodes \in Nat
      BY Constants
    <3>2. inode_per_group - (IF g = 0 THEN ReservedInodes ELSE 0) \in Nat
      BY <3>1, Constants
    <3> QED
      BY <3>1, <3>2 DEF FormattedGd
  <2> QED
    BY <1>1, <2>1
<1>3. PICK y1 : y1 = [y EXCEPT ![0].free_blocks = Less1(@)]
  OBVIOUS
<1>4. /\ y1 \in [Group -> [free_blocks : Nat, free_inodes : Nat]]
      /\ \A g \in Group : y1[g].free_blocks =
                            IF g = 0 THEN block_per_group - FirstDataBlock - 1
                            ELSE block_per_group - FirstDataBlock
      /\ \A g \in Group : y1[g].free_inodes = FormattedGd(g).free_inodes
  <2>1. PICK n \in Nat : n = block_per_group - FirstDataBlock /\ n >= 1 /\ n - 1 \in Nat
    BY Constants
  <2>2. Less1(n) = n - 1
    BY <2>1 DEF Less1
  <2>3. y1 = [y EXCEPT ![0].free_blocks = n - 1]
    BY <1>0, <1>2, <1>3, <2>1, <2>2
  <2> QED
    BY <1>0, <1>2, <2>1, <2>3
<1>5. PICK z : z = [Zeroed EXCEPT ![0] = Named(ROOT, "."), ![1] = Named(ROOT, "..")]
  OBVIOUS
<1>6. /\ z \in [Slot -> Entry] /\ z[0] = Named(ROOT, ".") /\ z[1] = Named(ROOT, "..")
      /\ \A s \in Slot : s > 1 => z[s].name = ""
  BY <1>0, <1>5, FirstEntries
<1>7. PICK p : p = [dir |-> TRUE, size |-> 2, block |-> <<RootBlock>>]
  OBVIOUS
<1>8. p \in INODE /\ Unwritten \in INODE
  BY <1>0, <1>7 DEF INODE, Unwritten
<1>9. PICK u : u = [i \in Inode |-> Unwritten]
  OBVIOUS
<1>10. PICK v : v = [u EXCEPT ![ROOT] = p]
  OBVIOUS
<1>11. /\ v \in [Inode -> INODE] /\ v[ROOT] = p
       /\ \A i \in Inode : i # ROOT => v[i] = Unwritten
  BY <1>0, <1>8, <1>9, <1>10
<1>12. PICK m : m = [d.data EXCEPT ![RootBlock] = z]
  OBVIOUS
<1>13. m \in [Block -> [Slot -> Entry]] /\ m[RootBlock] = z
  BY <1>0, <1>6, <1>12 DEF Disk
<1>14. PICK c : c = [gd |-> y, block_bitmap |-> MetadataBlocks,
                     inode_bitmap |-> 1 .. ReservedInodes, inode |-> u, data |-> d.data]
  OBVIOUS
<1>15. PICK e : e = [gd |-> y1, block_bitmap |-> MetadataBlocks \cup {RootBlock},
                     inode_bitmap |-> (1 .. ReservedInodes) \cup {ROOT}, inode |-> v,
                     data |-> m]
  OBVIOUS
<1>16. ext2_format(d, FALSE) = create_root(c)
  BY <1>1, <1>9, <1>14 DEF ext2_format
<1>17. create_root(c) = e
  <2>1. PICK h1 : h1 = [c EXCEPT !.data[RootBlock] = z]
    OBVIOUS
  <2>2. PICK h2 : h2 = [h1 EXCEPT !.block_bitmap = c.block_bitmap \cup {RootBlock}]
    OBVIOUS
  <2>3. PICK h3 : h3 = [h2 EXCEPT !.inode[ROOT] = p]
    OBVIOUS
  <2>4. PICK h4 : h4 = [h3 EXCEPT !.inode_bitmap = c.inode_bitmap \cup {ROOT}]
    OBVIOUS
  <2>5. PICK h5 : h5 = [h4 EXCEPT !.gd[0].free_blocks = Less1(c.gd[0].free_blocks)]
    OBVIOUS
  <2>6. create_root(c) = h5
    BY <1>5, <1>7, <2>1, <2>2, <2>3, <2>4, <2>5, ZenonT(60) DEF create_root
  <2>7. h1 = [gd |-> y, block_bitmap |-> MetadataBlocks,
              inode_bitmap |-> 1 .. ReservedInodes, inode |-> u, data |-> m]
    BY <1>12, <1>14, <2>1
  <2>8. h2 = [gd |-> y, block_bitmap |-> MetadataBlocks \cup {RootBlock},
              inode_bitmap |-> 1 .. ReservedInodes, inode |-> u, data |-> m]
    BY <1>14, <2>2, <2>7
  <2>9. h3 = [gd |-> y, block_bitmap |-> MetadataBlocks \cup {RootBlock},
              inode_bitmap |-> 1 .. ReservedInodes, inode |-> v, data |-> m]
    BY <1>10, <2>3, <2>8
  <2>10. h4 = [gd |-> y, block_bitmap |-> MetadataBlocks \cup {RootBlock},
               inode_bitmap |-> (1 .. ReservedInodes) \cup {ROOT}, inode |-> v, data |-> m]
    BY <1>14, <2>4, <2>9
  <2>11. y1 = [y EXCEPT ![0].free_blocks = Less1(c.gd[0].free_blocks)]
    BY <1>3, <1>14
  <2>12. h5 = e
    BY <1>15, <2>5, <2>10, <2>11, SMTT(60)
  <2> QED
    BY <2>6, <2>12
<1>18. (1 .. ReservedInodes) \cup {ROOT} = 1 .. ReservedInodes
  BY <1>0
<1>19. /\ e.block_bitmap = MetadataBlocks \cup {RootBlock}
       /\ e.inode_bitmap = 1 .. ReservedInodes /\ e.inode = v /\ e.data = m /\ e.gd = y1
  BY <1>15, <1>18
<1>20. e \in Disk
  <2>1. 1 .. ReservedInodes \in SUBSET Inode
    BY Root, Constants
  <2>2. MetadataBlocks \cup {RootBlock} \in SUBSET Block
    BY <1>0
  <2> QED
    BY <1>4, <1>11, <1>13, <1>15, <1>18, <2>1, <2>2 DEF Disk
<1> QED
  BY <1>4, <1>6, <1>7, <1>11, <1>13, <1>16, <1>17, <1>19, <1>20 DEF Fresh

LEMMA FreshAgrees ==
  ASSUME NEW e, Fresh(e)
  PROVE  DiskAgrees(e) /\ \A i \in Directories(e) : i = ROOT
<1>0. /\ ROOT \in Inode /\ 0 \in Group /\ ROOT \in 1 .. ReservedInodes
      /\ RootBlock \in Block /\ MetadataBlocks \subseteq Block
      /\ RootBlock \notin MetadataBlocks /\ BlockGroup(RootBlock) = 0
      /\ \A i \in 1 .. inode_per_group : i \in Inode
  BY Root, RootBlockFacts
<1>1. /\ e \in Disk
      /\ e.block_bitmap = MetadataBlocks \cup {RootBlock}
      /\ e.inode_bitmap = 1 .. ReservedInodes
      /\ \A i \in Inode : i # ROOT => e.inode[i] = Unwritten
      /\ e.inode[ROOT] = [dir |-> TRUE, size |-> 2, block |-> <<RootBlock>>]
      /\ e.data[RootBlock][0] = Named(ROOT, ".") /\ e.data[RootBlock][1] = Named(ROOT, "..")
      /\ \A s \in Slot : s > 1 => e.data[RootBlock][s].name = ""
  BY DEF Fresh
<1>2. /\ e.inode[ROOT].dir = TRUE /\ e.inode[ROOT].size = 2
      /\ e.inode[ROOT].block = <<RootBlock>>
  <2>1. PICK p : p = [dir |-> TRUE, size |-> 2, block |-> <<RootBlock>>]
    OBVIOUS
  <2>2. p.dir = TRUE /\ p.size = 2 /\ p.block = <<RootBlock>>
    BY <2>1
  <2>3. e.inode[ROOT] = p
    BY <1>1, <2>1, ZenonT(60)
  <2> QED
    BY <2>2, <2>3
<1>n. \A i \in Inode : i # ROOT => e.inode[i].dir = FALSE
  <2>1. Unwritten.dir = FALSE
    BY DEF Unwritten
  <2>2. \A i \in Inode : i # ROOT => e.inode[i] = Unwritten
    BY <1>1
  <2> QED
    BY <2>1, <2>2
<1>3. \A i : i \in InUse(e) <=> i = ROOT
  BY <1>0, <1>1 DEF InUse
<1>4. \A i : i \in Directories(e) <=> i = ROOT
  <2>2. \A i \in Inode : e.inode[i].dir = TRUE <=> i = ROOT
    BY <1>2, <1>n
  <2>3. \A i : i \in Directories(e) <=> i \in Inode /\ i \in e.inode_bitmap /\ e.inode[i].dir
    BY DEF Directories
  <2> QED
    BY <1>0, <1>1, <2>2, <2>3, DiskFacts
<1>5. InodesAgree(e)
  <2>1. \A i \in 1 .. ReservedInodes : i \in Inode /\ i \in 1 .. inode_per_group
    BY <1>0, Constants
  <2>2. \A i \in Inode : i # ROOT => ~e.inode[i].dir
    BY <1>n
  <2>3. e.inode[ROOT].dir
    BY <1>2
  <2>4. Len(e.inode[ROOT].block) >= 1 /\ BlockGroup(e.inode[ROOT].block[1]) = 0
    BY <1>0, <1>2
  <2> QED
    BY <1>1, <1>3, <2>1, <2>2, <2>3, <2>4 DEF InodesAgree
<1>6. BlocksAgree(e)
  <2>1. \A i \in Inode, k \in Nat : Own(e, i, k) <=> i = ROOT /\ k = 1
    <3>1. PICK q : q = e.inode[ROOT].block
      OBVIOUS
    <3>2. Len(q) = 1
      BY <1>2, <3>1
    <3>3. \A k \in Nat : k \in 1 .. 1 <=> k = 1
      OBVIOUS
    <3> QED
      BY <1>3, <3>1, <3>2, <3>3 DEF Own
  <2>2. Blk(e, ROOT, 1) = RootBlock /\ 1 \in Nat
    BY <1>2 DEF Blk
  <2> QED
    BY <1>0, <1>1, <2>1, <2>2 DEF BlocksAgree
<1>7. BlockCounts(e)
  <2> SUFFICES ASSUME NEW g \in Group
               PROVE  e.gd[g].free_blocks = Cardinality(FreeBlocks(e, g))
    BY DEF BlockCounts
  <2>1. PICK c : c = [block_bitmap |-> MetadataBlocks]
    OBVIOUS
  <2>2. c.block_bitmap = MetadataBlocks
    BY <2>1
  <2>3. Cardinality(FreeBlocks(c, g)) = block_per_group - FirstDataBlock
    BY <2>2, FreshBlocks
  <2>4. /\ g # BlockGroup(RootBlock) => FreeBlocks(e, g) = FreeBlocks(c, g)
        /\ g = BlockGroup(RootBlock) =>
             /\ Cardinality(FreeBlocks(c, g)) >= 1
             /\ Cardinality(FreeBlocks(e, g)) = Cardinality(FreeBlocks(c, g)) - 1
    BY <1>0, <1>1, <2>2, FreeAfterTaking, ZenonT(60)
  <2>5. e.gd[g].free_blocks = IF g = 0 THEN block_per_group - FirstDataBlock - 1
                              ELSE block_per_group - FirstDataBlock
    BY DEF Fresh
  <2> QED
    BY <1>0, <2>3, <2>4, <2>5
<1>8. InodeCounts(e)
  BY <1>1, FreshInodes DEF InodeCounts, Fresh
<1>9. /\ Shape(e, ROOT) /\ Has(e, ROOT, 1, 0) /\ Ent(e, ROOT, 1, 0) = Named(ROOT, ".")
      /\ Has(e, ROOT, 1, 1) /\ Ent(e, ROOT, 1, 1) = Named(ROOT, "..")
      /\ \A k \in Nat, s \in Slot : ~Child(e, ROOT, k, s)
  <2>1. NewDir(e, ROOT, RootBlock, e.inode[ROOT], ROOT)
    BY <1>1, <1>2 DEF NewDir
  <2>2. e.inode[ROOT].dir
    BY <1>2
  <2> QED
    BY <1>2, <2>1, <2>2, NewDirectory
<1>10. DirectoriesAgree(e)
  <2>1. Ent(e, ROOT, 1, 1).inode = ROOT /\ Ent(e, ROOT, 1, 1).name = ".."
    BY <1>9 DEF Named
  <2>2. Filled(e, ROOT)
    BY <1>4, <1>9, <2>1 DEF Filled
  <2>3. EnteredOnce(e)
    BY <1>4, <1>9 DEF EnteredOnce
  <2>4. Rooted(e)
    BY <1>4, <2>1 DEF Rooted
  <2> QED
    BY <1>4, <1>9, <2>2, <2>3, <2>4 DEF DirectoriesAgree
<1> QED
  BY <1>1, <1>4, <1>5, <1>6, <1>7, <1>8, <1>10 DEF DiskAgrees

-----------------------------------------------------------------------------
(* Walks and lookups *)

\* The entry x of directory D is ".", "..", or a child.
KindOf(d, D, k, s, x) ==
  /\ x.name # "" /\ x.inode \in InUse(d)
  /\ \/ k = 1 /\ s = 0 /\ x.name = "." /\ x.inode = D
     \/ k = 1 /\ s = 1 /\ x.name = ".." /\ x.inode \in Directories(d)
     \/ Child(d, D, k, s) /\ x.name \in Name

\* Every entry is of one of the three kinds, and none is a terminator.
LEMMA EntryKinds ==
  ASSUME NEW d, DiskAgrees(d), NEW D \in Directories(d), NEW k \in Nat, NEW s \in Slot,
         Has(d, D, k, s), NEW x, x = Ent(d, D, k, s)
  PROVE  KindOf(d, D, k, s, x)
<1>1. Filled(d, D) /\ D \in InUse(d)
  BY DirectoriesInUse DEF DiskAgrees, DirectoriesAgree
<1>2. Name \cap {".", "..", "", "data"} = {}
  BY Ext2Assumption
<1>3. k \in Nat /\ s \in Nat /\ k >= 1
  BY Constants DEF Slot, Has
<1>4. CASE k > 1 \/ s > 1
  <2>1. Child(d, D, k, s)
    BY <1>4 DEF Child
  <2>2. x.name \in Name /\ x.inode \in InUse(d)
    BY <1>1, <2>1 DEF Filled
  <2> QED
    BY <1>2, <2>1, <2>2 DEF KindOf
<1>5. CASE k = 1 /\ s = 0
  <2>1. x = Named(D, ".")
    BY <1>1, <1>5 DEF Filled
  <2>2. x.name = "." /\ x.inode = D
    BY <2>1 DEF Named
  <2> QED
    BY <1>1, <1>5, <2>2 DEF KindOf
<1>6. CASE k = 1 /\ s = 1
  <2>1. x.name = ".." /\ x.inode \in Directories(d)
    BY <1>1, <1>6 DEF Filled
  <2>2. x.inode \in InUse(d)
    BY <2>1, DirectoriesInUse DEF DiskAgrees
  <2> QED
    BY <1>6, <2>1, <2>2 DEF KindOf
<1>7. (k > 1 \/ s > 1) \/ (k = 1 /\ s = 0) \/ (k = 1 /\ s = 1)
  BY <1>3
<1> QED
  BY <1>4, <1>5, <1>6, <1>7, ZenonT(60)

\* A walk visits the entries that the size counts.
LEMMA VisitedHas ==
  ASSUME NEW d, DiskAgrees(d), NEW D \in Directories(d),
         NEW k \in 1 .. Len(d.inode[D].block), NEW s \in Slot
  PROVE  s \in Visited(d, d.inode[D].block[k]) <=> Has(d, D, k, s)
<1>0. /\ D \in Inode /\ d \in Disk /\ Shape(d, D) /\ EntriesPerBlock \in Nat
      /\ Slot = 0 .. EntriesPerBlock - 1
  BY Constants DEF DiskAgrees, DirectoriesAgree, Directories, Slot
<1>1. PICK n \in Nat : n = Len(d.inode[D].block)
  BY <1>0, DiskFacts
<1>2. PICK t : t = Level(d.inode[D])
  OBVIOUS
<1>3. t \in 1 .. EntriesPerBlock
  BY <1>0, <1>2, ZenonT(60) DEF Shape
<1>4. k \in Nat /\ k \in 1 .. n /\ s \in Nat
  BY <1>0, <1>1
<1>5. ASSUME NEW r \in Slot PROVE Has(d, D, k, r) <=> k < n \/ r < t
  BY <1>1, <1>2, <1>4 DEF Has
<1>6. \A r \in Slot : Has(d, D, k, r) => Ent(d, D, k, r).name # ""
  BY <1>4, EntryKinds DEF KindOf
<1>7. \A r \in Slot : ~Has(d, D, k, r) => Ent(d, D, k, r).name = ""
  BY <1>0 DEF Shape
<1>8. \A r \in Slot : Ent(d, D, k, r) = d.data[d.inode[D].block[k]][r]
  BY DEF Ent, Blk
<1>9. \A r \in 1 .. s : r \in Slot /\ r <= s
  BY <1>0, <1>4
<1>10. ASSUME Has(d, D, k, s) PROVE s \in Visited(d, d.inode[D].block[k])
  <2>1. \A r \in 1 .. s : Has(d, D, k, r)
    <3>1. \A r \in 1 .. s : s < t => r < t
      BY <1>0, <1>3, <1>4
    <3> QED
      BY <1>5, <1>9, <1>10, <3>1
  <2> QED
    BY <1>6, <1>8, <1>9, <2>1 DEF Visited
<1>11. ASSUME ~Has(d, D, k, s) PROVE s \notin Visited(d, d.inode[D].block[k])
  <2>1. ~(s < t)
    BY <1>5, <1>11
  <2>2. s \in 1 .. s
    BY <1>3, <1>4, <2>1
  <2> QED
    BY <1>7, <1>8, <1>11, <2>2 DEF Visited
<1> QED
  BY <1>10, <1>11

LEMMA WalkHas ==
  ASSUME NEW d, DiskAgrees(d), NEW D \in Directories(d), NEW w
  PROVE  w \in Walk(d, D) <=> \E k \in Nat, s \in Slot : w = <<k, s>> /\ Has(d, D, k, s)
<1>0. D \in Inode /\ d \in Disk
  BY DEF DiskAgrees, Directories
<1>1. PICK q \in Seq(Block) : q = d.inode[D].block
  BY <1>0, DiskFacts
<1>2. DOMAIN q = 1 .. Len(q) /\ \A k \in 1 .. Len(q) : k \in Nat
  BY <1>1
<1>3. w \in Walk(d, D) <=> \E k \in DOMAIN q : \E s \in Visited(d, q[k]) : w = <<k, s>>
  BY <1>1 DEF Walk
<1>4. \A k \in DOMAIN q : \A s : s \in Visited(d, q[k]) <=> s \in Slot /\ Has(d, D, k, s)
  <2>1. \A k \in DOMAIN q : \A s : s \in Visited(d, q[k]) => s \in Slot
    BY DEF Visited
  <2>2. \A k \in DOMAIN q, s \in Slot : s \in Visited(d, q[k]) <=> Has(d, D, k, s)
    BY <1>1, <1>2, VisitedHas
  <2> QED
    BY <2>1, <2>2
<1>5. \A k \in Nat, s \in Slot : Has(d, D, k, s) => k \in DOMAIN q
  BY <1>1, <1>2 DEF Has
<1> QED
  BY <1>2, <1>3, <1>4, <1>5

\* What ext2_lookup finds is an entry of that name.
LEMMA LookupFinds ==
  ASSUME NEW d, DiskAgrees(d), NEW D \in Directories(d), NEW name,
         NEW r, r = ext2_lookup(d, D, name), r # << >>
  PROVE  \E k \in Nat, s \in Slot :
           /\ Has(d, D, k, s) /\ r = <<Blk(d, D, k), s>>
           /\ Ent(d, D, k, s).name = name /\ At(d, r) = Ent(d, D, k, s)
<1>1. PICK found : found = {step \in Walk(d, D) : EntryAt(d, D, step).name = name}
  OBVIOUS
<1>2. PICK K : K = {step[1] : step \in found}
  OBVIOUS
<1>3. PICK k : k = Min(K)
  OBVIOUS
<1>4. PICK S : S = {step[2] : step \in {f \in found : f[1] = k}}
  OBVIOUS
<1>5. PICK s : s = Min(S)
  OBVIOUS
<1>6. r = IF found = {} THEN << >> ELSE <<d.inode[D].block[k], s>>
  BY <1>1, <1>2, <1>3, <1>4, <1>5, ZenonT(60) DEF ext2_lookup
<1>7. found # {} /\ r = <<d.inode[D].block[k], s>>
  BY <1>6
<1>8. \A f \in found : \E m \in Nat, t \in Slot : f = <<m, t>> /\ Has(d, D, m, t)
  BY <1>1, WalkHas
<1>9. \A f \in found : f[1] \in Nat /\ f[2] \in Nat /\ f[2] \in Slot /\ f = <<f[1], f[2]>>
  <2>1. \A t \in Slot : t \in Nat
    BY Constants DEF Slot
  <2> QED
    BY <1>8, <2>1
<1>10. k \in K
  <2>1. K \in SUBSET Nat /\ K # {}
    BY <1>2, <1>7, <1>9
  <2> QED
    BY <1>3, <2>1, MinIn
<1>11. s \in S
  <2>1. S \in SUBSET Nat /\ S # {}
    BY <1>2, <1>4, <1>9, <1>10
  <2> QED
    BY <1>5, <2>1, MinIn
<1>12. PICK f \in found : f[1] = k /\ f[2] = s
  BY <1>4, <1>11
<1>13. k \in Nat /\ s \in Slot /\ f = <<k, s>>
  BY <1>9, <1>12
<1>14. Has(d, D, k, s)
  BY <1>8, <1>13
<1>15. Ent(d, D, k, s).name = name
  <2>1. EntryAt(d, D, f).name = name
    BY <1>1
  <2>2. EntryAt(d, D, f) = d.data[d.inode[D].block[k]][s]
    BY <1>12 DEF EntryAt
  <2> QED
    BY <2>1, <2>2 DEF Ent, Blk
<1>16. At(d, r) = Ent(d, D, k, s)
  BY <1>7 DEF At, Ent, Blk
<1> QED
  BY <1>7, <1>13, <1>14, <1>15, <1>16 DEF Blk

\* A directory of size 2 has no entries but the first two.
LEMMA SmallIsEmpty ==
  ASSUME NEW d, DiskAgrees(d), NEW D \in Directories(d), d.inode[D].size <= 2
  PROVE  \A k \in Nat, s \in Slot : ~Child(d, D, k, s)
<1>0. /\ D \in Inode /\ d \in Disk /\ Shape(d, D) /\ EntriesPerBlock \in Nat
      /\ EntriesPerBlock >= 3 /\ \A s \in Slot : s \in Nat
  BY Constants DEF DiskAgrees, DirectoriesAgree, Directories, Slot
<1>1. PICK n \in Nat, z \in Nat : n = Len(d.inode[D].block) /\ z = d.inode[D].size
  BY <1>0, DiskFacts
<1>2. PICK t : t = Level(d.inode[D])
  OBVIOUS
<1>3. n >= 1 /\ t \in 1 .. EntriesPerBlock /\ z >= 2
  BY <1>0, <1>1, <1>2, ZenonT(60) DEF Shape
<1>4. t = z - (n - 1) * EntriesPerBlock /\ z = 2
  BY <1>1, <1>2, <1>3 DEF Level
<1>5. n \in Nat \ {0}
  BY <1>3
<1>6. n = 1
  <2>1. n >= 2 => z > EntriesPerBlock
    BY <1>1, <1>3, <1>4, <1>5, Sizes, ZenonT(60)
  <2> QED
    BY <1>0, <1>3, <1>4, <2>1
<1>7. t = 2
  <2>1. (1 - 1) * EntriesPerBlock = 0
    BY <1>0
  <2> QED
    BY <1>4, <1>6, <2>1
<1> QED
  BY <1>0, <1>1, <1>2, <1>6, <1>7 DEF Child, Has

\* The tree of entries, as walks over all directories show it.
TreeAt(d) ==
  UNION {{<<i, x.name, x.inode>> :
            x \in {y \in {EntryAt(d, i, w) : w \in Walk(d, i)} :
                     y.name \notin {".", ".."}}} : i \in Directories(d)}

\* Walks show the children of directories.
LEMMA TreeHas ==
  ASSUME NEW d, DiskAgrees(d), NEW t
  PROVE  t \in TreeAt(d) <=> EntryOf(d, t)
<1>1. \A i, k, s : EntryAt(d, i, <<k, s>>) = Ent(d, i, k, s)
  BY DEF EntryAt, Ent, Blk
<1>2. Name \cap {".", "..", "", "data"} = {}
  BY Ext2Assumption
<1>3. ASSUME t \in TreeAt(d) PROVE EntryOf(d, t)
  <2>0. PICK i \in Directories(d) :
          \E v \in Walk(d, i) :
            /\ EntryAt(d, i, v).name \notin {".", ".."}
            /\ t = <<i, EntryAt(d, i, v).name, EntryAt(d, i, v).inode>>
    BY <1>3 DEF TreeAt
  <2>1. PICK w \in Walk(d, i) :
          /\ EntryAt(d, i, w).name \notin {".", ".."}
          /\ t = <<i, EntryAt(d, i, w).name, EntryAt(d, i, w).inode>>
    BY <2>0
  <2>2. PICK k \in Nat, s \in Slot : w = <<k, s>> /\ Has(d, i, k, s)
    BY <2>1, WalkHas
  <2>3. PICK x : x = Ent(d, i, k, s)
    OBVIOUS
  <2>4. EntryAt(d, i, w) = x
    BY <1>1, <2>2, <2>3
  <2>5. KindOf(d, i, k, s, x)
    BY <2>2, <2>3, EntryKinds
  <2>6. Child(d, i, k, s)
    BY <2>1, <2>4, <2>5 DEF KindOf
  <2> QED
    BY <2>1, <2>3, <2>4, <2>6 DEF EntryOf
<1>4. ASSUME EntryOf(d, t) PROVE t \in TreeAt(d)
  <2>1. PICK i \in Directories(d), k \in Nat, s \in Slot :
          Child(d, i, k, s) /\ t = <<i, Ent(d, i, k, s).name, Ent(d, i, k, s).inode>>
    BY <1>4 DEF EntryOf
  <2>2. PICK x : x = Ent(d, i, k, s)
    OBVIOUS
  <2>3. x.name \in Name
    BY <2>1, <2>2 DEF DiskAgrees, DirectoriesAgree, Filled
  <2>4. PICK w : w = <<k, s>>
    OBVIOUS
  <2>5. w \in Walk(d, i)
    BY <2>1, <2>4, WalkHas DEF Child
  <2>6. EntryAt(d, i, w) = x
    BY <1>1, <2>2, <2>4
  <2>7. x.name \notin {".", ".."}
    BY <1>2, <2>3
  <2>8. t = <<i, x.name, x.inode>>
    BY <2>1, <2>2
  <2> QED
    BY <2>5, <2>6, <2>7, <2>8 DEF TreeAt
<1> QED
  BY <1>3, <1>4

\* Directory D has no entry of that name.
Unnamed(d, D, name) == \A t : EntryOf(d, t) /\ t[1] = D => t[2] # name

LEMMA NotWalkedTo ==
  ASSUME NEW d, DiskAgrees(d), NEW D \in Directories(d), NEW name,
         \A w \in Walk(d, D) : EntryAt(d, D, w).name # name
  PROVE  Unnamed(d, D, name)
<1> SUFFICES ASSUME NEW t, EntryOf(d, t), t[1] = D
             PROVE  t[2] # name
  BY DEF Unnamed
<1>1. PICK k \in Nat, s \in Slot : Child(d, D, k, s) /\ t[2] = Ent(d, D, k, s).name
  BY EntryFacts DEF DiskAgrees
<1>2. PICK w : w = <<k, s>>
  OBVIOUS
<1>3. w \in Walk(d, D)
  BY <1>1, <1>2, WalkHas DEF Child
<1>4. EntryAt(d, D, w) = Ent(d, D, k, s)
  BY <1>2 DEF EntryAt, Ent, Blk
<1> QED
  BY <1>1, <1>3, <1>4

LEMMA NotFound ==
  ASSUME NEW d, DiskAgrees(d), NEW D \in Directories(d), NEW name,
         ext2_lookup(d, D, name) = << >>
  PROVE  Unnamed(d, D, name)
<1>1. \A w \in Walk(d, D) : EntryAt(d, D, w).name # name
  <2>1. {w \in Walk(d, D) : EntryAt(d, D, w).name = name} = {}
    BY DEF ext2_lookup
  <2> QED
    BY <2>1
<1> QED
  BY <1>1, NotWalkedTo

\* A new file system has no entries.
LEMMA FreshTree ==
  ASSUME NEW e, Fresh(e)
  PROVE  Directories(e) = {ROOT} /\ \A t : ~EntryOf(e, t)
<1>1. DiskAgrees(e) /\ \A i \in Directories(e) : i = ROOT
  BY FreshAgrees
<1>2. ROOT \in Directories(e)
  BY <1>1, DirectoriesInUse DEF DiskAgrees
<1>3. e.inode[ROOT].size <= 2
  <2>1. e.inode[ROOT] = [dir |-> TRUE, size |-> 2, block |-> <<RootBlock>>]
    BY DEF Fresh
  <2>2. e.inode[ROOT].size = 2
    BY <2>1
  <2> QED
    BY <2>2
<1>4. \A k \in Nat, s \in Slot : ~Child(e, ROOT, k, s)
  BY <1>1, <1>2, <1>3, SmallIsEmpty
<1> QED
  BY <1>1, <1>2, <1>4 DEF EntryOf

-----------------------------------------------------------------------------
(* ext2_read *)

\* n slots of what fill writes.
Filler(n) == [s \in 1 .. n |-> Data]

LEMMA FillerFacts ==
  ASSUME NEW n \in Nat
  PROVE  /\ Filler(n) \in Seq({Data}) /\ Len(Filler(n)) = n
         /\ \A s \in 1 .. n : Filler(n)[s] = Data
BY DEF Filler

LEMMA FillerIs ==
  ASSUME NEW n \in Nat, NEW q \in Seq({Data}), Len(q) = n
  PROVE  q = Filler(n)
<1>1. Filler(n) \in Seq({Data}) /\ Len(Filler(n)) = n
  BY FillerFacts
<1>2. \A s \in 1 .. n : q[s] = Data /\ Filler(n)[s] = Data
  BY FillerFacts
<1> QED
  BY <1>1, <1>2

LEMMA FillerJoin ==
  ASSUME NEW n \in Nat, NEW m \in Nat
  PROVE  Filler(n) \o Filler(m) = Filler(n + m)
<1>1. PICK a \in Seq({Data}), b \in Seq({Data}) :
        a = Filler(n) /\ b = Filler(m) /\ Len(a) = n /\ Len(b) = m
  BY FillerFacts
<1>2. a \o b \in Seq({Data}) /\ Len(a \o b) = n + m
  BY <1>1
<1>3. n + m \in Nat
  OBVIOUS
<1> QED
  BY <1>1, <1>2, <1>3, FillerIs

\* The first n slots of a sequence.
LEMMA FillerPart ==
  ASSUME NEW S, NEW q \in Seq(S), NEW n \in Nat, n <= Len(q),
         \A s \in 1 .. n : q[s] = Data
  PROVE  SubSeq(q, 1, n) = Filler(n)
<1>1. PICK p : p = SubSeq(q, 1, n)
  OBVIOUS
<1>2. p \in Seq(S) /\ Len(p) = n /\ \A s \in 1 .. n : p[s] = q[s]
  BY <1>1
<1>3. Filler(n) \in Seq({Data}) /\ Len(Filler(n)) = n /\ \A s \in 1 .. n : Filler(n)[s] = Data
  BY FillerFacts
<1> QED
  BY <1>1, <1>2, <1>3

\* m blocks in a row.
LEMMA FlattenFiller ==
  ASSUME NEW E \in Nat \ {0}, NEW m \in Nat, NEW q, q = [k \in 1 .. m |-> Filler(E)]
  PROVE  FlattenSeq(q) = Filler(m * E)
<1> DEFINE Joins(f) == f = [i \in 1 .. m |-> IF i = 1 THEN q[i] ELSE f[i - 1] \o q[i]]
           c == CHOOSE f : Joins(f)
<1>1. Len(q) = m
  OBVIOUS
<1>2. CASE m = 0
  <2>1. q = << >> /\ Filler(0 * E) = << >>
    BY <1>2 DEF Filler
  <2> QED
    BY <1>1, <1>2, <2>1 DEF FlattenSeq
<1>3. CASE m # 0
  <2>1. FlattenSeq(q) = c[m]
    BY <1>1, <1>3 DEF FlattenSeq
  <2>2. Joins(c)
    <3>1. PICK g : g = [i \in 1 .. m |-> Filler(i * E)]
      OBVIOUS
    <3>2. ASSUME NEW i \in 1 .. m
          PROVE  g[i] = IF i = 1 THEN q[i] ELSE g[i - 1] \o q[i]
      <4>1. CASE i = 1
        BY <3>1, <4>1
      <4>2. CASE i # 1
        <5>1. i - 1 \in 1 .. m /\ i - 1 \in Nat /\ (i - 1) * E \in Nat
          BY <4>2, Multiply
        <5>2. (i - 1) * E + E = i * E
          OBVIOUS
        <5>3. g[i - 1] \o q[i] = Filler((i - 1) * E) \o Filler(E)
          BY <3>1, <5>1
        <5>4. g[i - 1] \o q[i] = Filler(i * E)
          BY <5>1, <5>2, <5>3, FillerJoin
        <5> QED
          BY <3>1, <4>2, <5>4
      <4> QED
        BY <4>1, <4>2
    <3>3. g = [i \in 1 .. m |-> IF i = 1 THEN q[i] ELSE g[i - 1] \o q[i]]
      BY <3>1, <3>2
    <3>4. Joins(g)
      BY <3>3
    <3> QED
      BY <3>4
  <2> HIDE DEF c
  <2>3. \A i \in 1 .. m : c[i] = IF i = 1 THEN q[i] ELSE c[i - 1] \o q[i]
    BY <2>2
  <2> DEFINE G == {n \in Nat : n + 1 <= m => c[n + 1] = Filler((n + 1) * E)}
  <2>4. 0 \in G
    <3>1. c[1] = Filler(1 * E)
      BY <1>3, <2>3
    <3> QED
      BY <3>1
  <2>5. ASSUME NEW n \in G
        PROVE  n + 1 \in G
    <3>0. n \in Nat
      OBVIOUS
    <3> SUFFICES ASSUME n + 2 <= m PROVE c[n + 2] = Filler((n + 2) * E)
      BY <3>0
    <3>1. c[n + 1] = Filler((n + 1) * E)
      BY <3>0
    <3>2. n + 2 \in 1 .. m /\ n + 2 # 1 /\ (n + 2) - 1 = n + 1
      BY <3>0
    <3>3. c[n + 2] = c[n + 1] \o q[n + 2]
      BY <2>3, <3>2
    <3>4. q[n + 2] = Filler(E)
      BY <3>2
    <3>5. (n + 1) * E \in Nat /\ (n + 1) * E + E = (n + 2) * E
      BY <3>0, Multiply
    <3> QED
      BY <3>1, <3>3, <3>4, <3>5, FillerJoin
  <2> HIDE DEF G
  <2>6. G = Nat
    <3>1. G \in SUBSET Nat
      BY DEF G
    <3> QED
      BY <2>4, <2>5, <3>1, InductNat
  <2>7. c[m] = Filler(m * E)
    <3>1. m - 1 \in G /\ (m - 1) + 1 = m
      BY <1>3, <2>6
    <3> QED
      BY <3>1 DEF G
  <2> QED
    BY <2>1, <2>7
<1> QED
  BY <1>2, <1>3

\* z slots in n blocks: the first, w whole ones, and p slots of one more.
Divided(z, n, w, p) == z = EntriesPerBlock + w * EntriesPerBlock + p /\ z <= n * EntriesPerBlock

LEMMA DividedFacts ==
  ASSUME NEW z \in Nat, NEW n \in Nat, NEW w \in Nat, NEW p \in 0 .. EntriesPerBlock - 1,
         Divided(z, n, w, p)
  PROVE  /\ w + 1 <= n
         /\ p # 0 => w + 2 <= n
         /\ \A k \in 1 .. w + 1 : k * EntriesPerBlock <= z
         /\ (w + 1) * EntriesPerBlock + p = z
<1>1. PICK E \in Nat \ {0} : E = EntriesPerBlock
  BY Constants
<1>2. (w + 1) * E = w * E + E
  BY <1>1
<1>3. (w + 1) * E + p = z
  BY <1>1, <1>2 DEF Divided
<1>4. (w + 1) * E <= n * E
  BY <1>1, <1>3 DEF Divided
<1>5. w + 1 <= n
  <2>1. n < w + 1 => n * E + E <= (w + 1) * E
    BY <1>1, Multiply
  <2>2. n * E \in Nat /\ (w + 1) * E \in Nat
    BY <1>1, Multiply
  <2> QED
    BY <1>1, <1>4, <2>1, <2>2
<1>6. p # 0 => w + 2 <= n
  <2> SUFFICES ASSUME p # 0, n < w + 2 PROVE FALSE
    BY <1>1
  <2>1. n = w + 1
    BY <1>5
  <2>2. (w + 1) * E + p <= (w + 1) * E
    BY <1>1, <1>3, <2>1 DEF Divided
  <2>3. (w + 1) * E \in Nat
    BY <1>1, Multiply
  <2> QED
    BY <2>2, <2>3
<1>7. \A k \in 1 .. w + 1 : k * E <= z
  <2> TAKE k \in 1 .. w + 1
  <2>1. k * E \in Nat /\ (w + 1) * E \in Nat
    BY <1>1, Multiply
  <2>2. CASE k = w + 1
    BY <1>1, <1>3, <2>1, <2>2
  <2>3. CASE k # w + 1
    <3>1. k * E + E <= (w + 1) * E
      BY <1>1, <2>3, Multiply
    <3> QED
      BY <1>1, <1>3, <2>1, <3>1
  <2> QED
    BY <2>2, <2>3
<1> QED
  BY <1>1, <1>3, <1>5, <1>6, <1>7

\* Block k of a file up to slot t, if the file has so many.
LEMMA BlockFilled ==
  ASSUME NEW d \in Disk, NEW i \in Inode, Holds(d, i),
         NEW k \in 1 .. Len(d.inode[i].block), NEW t \in 0 .. EntriesPerBlock,
         (k - 1) * EntriesPerBlock + t <= d.inode[i].size
  PROVE  SubSeq(BlockOf(d, i, k), 1, t) = Filler(t)
<1>0. d.inode[i].size \in Nat /\ Len(d.inode[i].block) \in Nat /\ EntriesPerBlock \in Nat \ {0}
  BY Constants, DiskFacts
<1>1. PICK E \in Nat \ {0}, n \in Nat, z \in Nat :
        E = EntriesPerBlock /\ n = Len(d.inode[i].block) /\ z = d.inode[i].size
  BY <1>0
<1>2. PICK a \in Nat : a = (k - 1) * E
  BY <1>1, Multiply
<1>3. PICK q : q = BlockOf(d, i, k)
  OBVIOUS
<1>4. d.inode[i].block[k] \in Block
  BY DiskFacts
<1>5. q \in Seq(Entry) /\ Len(q) = E /\ \A s \in 1 .. E : q[s] = Ent(d, i, k, s - 1)
  <2>1. \A s \in 1 .. E : Ent(d, i, k, s - 1) \in Entry
    BY <1>1, <1>4, DiskFacts DEF Ent, Blk, Slot
  <2>2. q = [s \in 1 .. E |-> Ent(d, i, k, s - 1)]
    BY <1>1, <1>3 DEF BlockOf, Ent, Blk
  <2> QED
    BY <2>1, <2>2
<1>6. ASSUME NEW s \in 1 .. t
      PROVE  q[s] = Data
  <2>1. s - 1 \in Slot /\ s \in 1 .. E
    BY <1>1 DEF Slot
  <2>2. (k - 1) * E + (s - 1) < z
    BY <1>1, <1>2
  <2>3. Ent(d, i, k, s - 1) = Data
    BY <1>1, <2>1, <2>2 DEF Holds
  <2> QED
    BY <1>5, <2>1, <2>3
<1>7. t \in Nat /\ t <= Len(q)
  BY <1>1, <1>5
<1> QED
  BY <1>3, <1>5, <1>6, <1>7, FillerPart

\* A file is read as it was written.
LEMMA ReadFiller ==
  ASSUME NEW d \in Disk, NEW i \in Inode, Roomy(d, i), Holds(d, i),
         Len(d.inode[i].block) >= 1
  PROVE  ext2_read(d, i, 0, d.inode[i].size) = Filler(d.inode[i].size)
<1>0. d.inode[i].size \in Nat /\ Len(d.inode[i].block) \in Nat /\ EntriesPerBlock \in Nat \ {0}
  BY Constants, DiskFacts
<1>1. PICK E \in Nat \ {0}, n \in Nat, z \in Nat :
        E = EntriesPerBlock /\ n = Len(d.inode[i].block) /\ z = d.inode[i].size
  BY <1>0
<1>2. 0 \div E + 1 = 1 /\ 0 % E = 0 /\ ~(0 > z) /\ 1 \in 1 .. n /\ z <= n * E
  BY <1>1 DEF Roomy
<1>3. CASE z < E
  <2>1. ext2_read(d, i, 0, z) = SubSeq(BlockOf(d, i, 1), 1, z)
    <3>1. 0 + z < E /\ 0 + 1 = 1 /\ 0 + z = z
      BY <1>3
    <3> QED
      BY <1>1, <1>2, <3>1 DEF ext2_read
  <2>2. z \in 0 .. E /\ (1 - 1) * E + z <= z
    BY <1>1, <1>3
  <2> QED
    BY <1>1, <1>2, <2>1, <2>2, BlockFilled
<1>4. CASE ~(z < E)
  <2>1. PICK w \in Nat, p \in 0 .. E - 1 :
          w = (z - E) \div E /\ p = (z - E) % E /\ z - E = w * E + p
    <3>1. z - E \in Nat
      BY <1>4
    <3> QED
      BY <3>1, DivMod
  <2>2. Divided(z, n, w, p)
    <3>1. w * E \in Nat
      BY Multiply
    <3>2. z = E + w * E + p
      BY <2>1, <3>1
    <3> QED
      BY <1>1, <1>2, <3>2 DEF Divided
  <2>3. /\ w + 1 <= n
        /\ p # 0 => w + 2 <= n
        /\ \A k \in 1 .. w + 1 : k * E <= z
        /\ (w + 1) * E + p = z
    <3>1. p \in 0 .. EntriesPerBlock - 1
      BY <1>1
    <3>2. /\ w + 1 <= n
          /\ p # 0 => w + 2 <= n
          /\ \A k \in 1 .. w + 1 : k * EntriesPerBlock <= z
          /\ (w + 1) * EntriesPerBlock + p = z
      BY <2>2, <3>1, DividedFacts
    <3> QED
      BY <1>1, <3>2
  <2>4. ASSUME NEW k \in 1 .. w + 1
        PROVE  SubSeq(BlockOf(d, i, k), 1, E) = Filler(E) /\ BlockOf(d, i, k) = Filler(E)
    <3>1. k \in 1 .. n /\ E \in 0 .. E
      BY <2>3
    <3>2. (k - 1) * E + E <= z
      <4>1. (k - 1) * E + E = k * E
        OBVIOUS
      <4> QED
        BY <2>3, <4>1
    <3>3. SubSeq(BlockOf(d, i, k), 1, E) = Filler(E)
      BY <1>1, <3>1, <3>2, BlockFilled
    <3>4. BlockOf(d, i, k) = SubSeq(BlockOf(d, i, k), 1, E)
      <4>1. PICK q : q = BlockOf(d, i, k)
        OBVIOUS
      <4>2. q \in Seq(Entry) /\ Len(q) = E
        <5>1. d.inode[i].block[k] \in Block
          BY <1>1, <3>1, DiskFacts
        <5>2. \A s \in 1 .. E : d.data[d.inode[i].block[k]][s - 1] \in Entry
          BY <1>1, <5>1, DiskFacts DEF Slot
        <5>3. q = [s \in 1 .. E |-> d.data[d.inode[i].block[k]][s - 1]]
          BY <1>1, <4>1 DEF BlockOf
        <5> QED
          BY <5>2, <5>3
      <4>3. SubSeq(q, 1, E) = q
        BY <4>2
      <4> QED
        BY <4>1, <4>3
    <3> QED
      BY <3>3, <3>4
  <2>5. PICK middle : middle = FlattenSeq([k \in 1 .. w |-> BlockOf(d, i, 1 + k)])
    OBVIOUS
  <2>6. PICK end : end = IF p = 0 THEN << >> ELSE SubSeq(BlockOf(d, i, 1 + w + 1), 1, p)
    OBVIOUS
  <2>7. ext2_read(d, i, 0, z) = SubSeq(BlockOf(d, i, 1), 1, E) \o middle \o end
    <3>1. ~(0 + z < E) /\ 0 + 1 = 1 /\ E - 0 = E
      BY <1>4
    <3> QED
      BY <1>1, <1>2, <2>1, <2>5, <2>6, <3>1 DEF ext2_read
  <2>8. middle = Filler(w * E)
    <3>1. \A k \in 1 .. w : BlockOf(d, i, 1 + k) = Filler(E)
      <4> TAKE k \in 1 .. w
      <4>1. 1 + k \in 1 .. w + 1
        OBVIOUS
      <4> QED
        BY <2>4, <4>1
    <3>2. [k \in 1 .. w |-> BlockOf(d, i, 1 + k)] = [k \in 1 .. w |-> Filler(E)]
      BY <3>1
    <3> QED
      BY <2>5, <3>2, FlattenFiller
  <2>9. end = Filler(p)
    <3>1. CASE p = 0
      BY <2>6, <3>1 DEF Filler
    <3>2. CASE p # 0
      <4>1. w + 2 \in 1 .. n /\ (w + 2) - 1 = w + 1 /\ 1 + w + 1 = w + 2 /\ p \in 0 .. E
        BY <2>3, <3>2
      <4>2. ((w + 2) - 1) * E + p <= z
        BY <2>3, <4>1
      <4>3. SubSeq(BlockOf(d, i, w + 2), 1, p) = Filler(p)
        BY <1>1, <4>1, <4>2, BlockFilled
      <4> QED
        BY <2>6, <3>2, <4>1, <4>3
    <3> QED
      BY <3>1, <3>2
  <2>10. SubSeq(BlockOf(d, i, 1), 1, E) = Filler(E)
    BY <2>4
  <2>11. w * E \in Nat /\ E + w * E \in Nat /\ (E + w * E) + p = z
    <3>1. w * E \in Nat
      BY Multiply
    <3> QED
      BY <2>1, <3>1
  <2>12. Filler(E) \o Filler(w * E) = Filler(E + w * E)
    BY <2>11, FillerJoin
  <2>13. Filler(E + w * E) \o Filler(p) = Filler(z)
    <3>1. PICK a \in Nat : a = E + w * E
      BY <2>11
    <3>2. p \in Nat /\ a + p = z
      BY <2>11, <3>1
    <3> QED
      BY <3>1, <3>2, FillerJoin
  <2> QED
    <3>1. ext2_read(d, i, 0, z) = Filler(z)
      BY <2>7, <2>8, <2>9, <2>10, <2>12, <2>13, Zenon
    <3> QED
      BY <1>1, <3>1
<1> QED
  BY <1>1, <1>3, <1>4

-----------------------------------------------------------------------------
(* The lowest inodes are used *)

\* Inode i, each of its predecessors and three free blocks fit in a group.
Early(i) == i + 3 <= ReservedInodes + block_per_group - FirstDataBlock

\* Every inode below i that is not reserved has a block of group 0 of its own,
\* and so has the root directory.
LEMMA LowInodes ==
  ASSUME NEW d \in Disk, InodesAgree(d), BlocksAgree(d), NEW i \in Inode \ d.inode_bitmap,
         \A k \in 1 .. i - 1 : k \in d.inode_bitmap, Cardinality(FreeBlocks(d, 0)) >= 3
  PROVE  Early(i)
<1>0. /\ ReservedInodes \in Nat /\ ReservedInodes >= 2 /\ i \in Nat /\ i > ReservedInodes
      /\ block_per_group \in Nat /\ FirstDataBlock \in Nat /\ 0 \in Group
      /\ block_per_group - FirstDataBlock \in Nat
      /\ \A k \in 1 .. i : k \in Inode
  <2>1. /\ ReservedInodes \in Nat /\ ReservedInodes >= 2
        /\ block_per_group \in Nat /\ FirstDataBlock \in Nat /\ 0 \in Group
        /\ block_per_group - FirstDataBlock \in Nat
    BY Constants, Root
  <2>2. i \in Nat /\ \A k \in 1 .. i : k \in Inode
    BY Constants, Multiply DEF Inode
  <2>3. i \notin 1 .. ReservedInodes /\ i >= 1
    BY Constants, Multiply DEF InodesAgree, Inode
  <2> QED
    BY <2>1, <2>2, <2>3
<1> DEFINE J == ReservedInodes + 1 .. i
           h(j) == IF j = i THEN ROOT ELSE j
           D == FirstDataBlock .. block_per_group - 1
           T == D \ FreeBlocks(d, 0)
           f == [j \in J |-> Blk(d, h(j), 1) % block_per_group]
<1>1. ASSUME NEW j \in J
      PROVE  /\ h(j) \in Inode /\ Own(d, h(j), 1)
             /\ Blk(d, h(j), 1) \in Block \ MetadataBlocks
             /\ Blk(d, h(j), 1) \in d.block_bitmap /\ BlockGroup(Blk(d, h(j), 1)) = 0
  <2>1. PICK k : k = h(j)
    OBVIOUS
  <2>2. k \in InUse(d) /\ k \in Inode
    <3>1. CASE j = i
      BY <2>1, <3>1, Root DEF InUse
    <3>2. CASE j # i
      <4>1. j \in 1 .. i - 1 /\ j \in 1 .. i /\ j \notin 1 .. ReservedInodes
        BY <1>0, <3>2
      <4> QED
        BY <1>0, <2>1, <3>2, <4>1 DEF InUse
    <3> QED
      BY <3>1, <3>2
  <2>3. Len(d.inode[k].block) >= 1 /\ Len(d.inode[k].block) \in Nat
        /\ BlockGroup(Blk(d, k, 1)) = 0
    BY <2>2, DiskFacts DEF InodesAgree, Blk
  <2>4. Own(d, k, 1)
    BY <2>2, <2>3 DEF Own
  <2>5. Blk(d, k, 1) \in d.block_bitmap /\ Blk(d, k, 1) \notin MetadataBlocks
    BY <2>2, <2>4 DEF BlocksAgree
  <2>6. Blk(d, k, 1) \in Block
    BY <2>5, DiskFacts
  <2> QED
    BY <2>1, <2>2, <2>3, <2>4, <2>5, <2>6
<1>2. ASSUME NEW j \in J
      PROVE  f[j] \in T
  <2>1. PICK b \in Block \ MetadataBlocks : b = Blk(d, h(j), 1)
    BY <1>1
  <2>2. b \in d.block_bitmap /\ BlockGroup(b) = 0
    BY <1>1, <2>1
  <2>3. b % block_per_group \in D
    BY <2>1, BlockNumber, MetadataNumbers, Constants
  <2>4. b % block_per_group \notin FreeBlocks(d, 0)
    BY <2>1, <2>2, FreeMeans
  <2> QED
    BY <2>1, <2>3, <2>4
<1>3. ASSUME NEW j \in J, NEW l \in J, f[j] = f[l]
      PROVE  j = l
  <2>1. PICK b \in Block, c \in Block : b = Blk(d, h(j), 1) /\ c = Blk(d, h(l), 1)
    BY <1>1
  <2>2. BlockGroup(b) = 0 /\ BlockGroup(c) = 0 /\ b % block_per_group = c % block_per_group
    BY <1>1, <1>3, <2>1
  <2>3. b = c
    BY <2>2, BlockNumber
  <2>4. h(j) = h(l)
    <3>1. PICK k, m \in Inode : k = h(j) /\ m = h(l)
      BY <1>1
    <3>2. Own(d, k, 1) /\ Own(d, m, 1) /\ Blk(d, k, 1) = Blk(d, m, 1) /\ k \in Inode
      BY <1>1, <2>1, <2>3, <3>1
    <3>3. k = m
      BY <3>1, <3>2 DEF BlocksAgree
    <3> QED
      BY <3>1, <3>3
  <2>5. j # ROOT /\ l # ROOT
    BY <1>0 DEF ROOT
  <2> QED
    BY <2>4, <2>5
<1>4. f \in Injection(J, T)
  <2> HIDE DEF J, T, h
  <2> QED
    BY <1>2, <1>3 DEF Injection, IsInjective
<1>5. IsFiniteSet(D) /\ Cardinality(D) = block_per_group - FirstDataBlock
  <2>1. PICK a \in Nat, b \in Int : a = FirstDataBlock /\ b = block_per_group - 1
    BY <1>0
  <2>2. Cardinality(a .. b) = b - a + 1 /\ IsFiniteSet(a .. b)
    <3>1. ~(a > b)
      BY <2>1, Constants
    <3> QED
      BY <2>1, <3>1, FS_Interval
  <2> QED
    BY <1>0, <2>1, <2>2
<1>6. IsFiniteSet(T) /\ Cardinality(T) <= block_per_group - FirstDataBlock - 3
  <2>1. FreeBlocks(d, 0) \in SUBSET D
    BY DEF FreeBlocks
  <2> HIDE DEF D
  <2>2. IsFiniteSet(T)
    BY <1>5, FS_Subset
  <2>3. D = T \cup FreeBlocks(d, 0) /\ T \cap FreeBlocks(d, 0) = {}
    BY <2>1
  <2> HIDE DEF T
  <2>4. IsFiniteSet(FreeBlocks(d, 0)) /\ Cardinality(FreeBlocks(d, 0)) \in Nat
    BY <1>0, FreeFinite
  <2>5. Cardinality(D) = Cardinality(T) + Cardinality(FreeBlocks(d, 0)) - 0
    BY <2>2, <2>3, <2>4, FS_Union, FS_EmptySet
  <2>6. Cardinality(T) \in Nat
    BY <2>2, FS_CardinalityType
  <2> QED
    BY <1>0, <1>5, <2>2, <2>4, <2>5, <2>6
<1> HIDE DEF f, T, D
<1>7. Cardinality(J) <= Cardinality(T) /\ Cardinality(T) \in Nat
  BY <1>4, <1>6, FS_Injection, FS_CardinalityType
<1>8. Cardinality(J) = i - ReservedInodes
  <2>1. PICK a \in Nat : a = ReservedInodes + 1
    BY <1>0
  <2>2. Cardinality(a .. i) = i - a + 1
    <3>1. ~(a > i) /\ a \in Int /\ i \in Int
      BY <1>0, <2>1
    <3> QED
      BY <3>1, FS_Interval
  <2> QED
    BY <1>0, <2>1, <2>2
<1> HIDE DEF J
<1> QED
  BY <1>0, <1>6, <1>7, <1>8 DEF Early

\* The inodes of e that were not marked in d are early ones.
InodesChange(d, e) == \A i \in e.inode_bitmap : i \in d.inode_bitmap \/ Early(i)

LEMMA CreatedInodes ==
  ASSUME NEW d, DiskAgrees(d), NEW r, Created(d, r)
  PROVE  InodesChange(d, r.disk)
<1> SUFFICES ASSUME r.inode # 0, r.inode \notin d.inode_bitmap
             PROVE  Early(r.inode)
  BY DEF Created, InodesChange
<1>1. PICK i : i = r.inode
  OBVIOUS
<1>2. /\ i \in Inode \ d.inode_bitmap /\ \A k \in 1 .. i - 1 : k \in d.inode_bitmap
      /\ Cardinality(FreeBlocks(d, 0)) >= 3
  BY <1>1 DEF Created, InUse
<1>3. d \in Disk /\ InodesAgree(d) /\ BlocksAgree(d)
  BY DEF DiskAgrees
<1> QED
  BY <1>1, <1>2, <1>3, LowInodes
=============================================================================
