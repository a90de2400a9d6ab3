----------------------------- MODULE Ext2Props -----------------------------
(***************************************************************************)
(* What the file system of Ext2Shell.tla promises.                         *)
(***************************************************************************)
EXTENDS Ext2Shell

Formatted == formats > 0

Dirs == IF ~Formatted THEN {}
        ELSE {i \in disk.inode_bitmap : disk.inode[i].dir}

Used == IF ~Formatted THEN {}
        ELSE {ROOT} \cup {i \in disk.inode_bitmap :
                            i \notin 1 .. ReservedInodes}

\* The entries of a directory, as a walk of the code sees them.
Entries(d) == {EntryAt(disk, d, step) : step \in Walk(disk, d)}

Tree ==
  UNION {{<<d, e.name, e.inode>> :
            e \in {f \in Entries(d) : f.name \notin {".", ".."}}} : d \in Dirs}

\* The inodes that have an entry.
Entered == {e[3] : e \in Tree}

Full == \A g \in Group : FreeBlocks(disk, g) = {}

\* Every block that is marked in a bitmap is metadata or belongs to exactly
\* one inode in use, at one place: the blocks that release_inode and
\* release_dir_entry clear and those that alloc_free_block sets are the same
\* ones, across groups and however directories grow and shrink.
BlocksOwnedOnce ==
  Formatted =>
    LET Owns(i, b) == b \in Range(disk.inode[i].block)
    IN  /\ \A i \in Used : IsInjective(disk.inode[i].block)
        /\ \A i, j \in Used : \A b \in Block : Owns(i, b) /\ Owns(j, b) => i = j
        /\ disk.block_bitmap =
             MetadataBlocks \cup {b \in Block : \E i \in Used : Owns(i, b)}

\* The group descriptors count the zero bits of their bitmaps.
\* alloc_free_inode relies on it: it searches a bitmap for a zero bit that
\* only the descriptor promises.
CountsExact ==
  Formatted =>
    \A g \in Group :
      /\ disk.gd[g].free_blocks = Cardinality(FreeBlocks(disk, g))
      /\ disk.gd[g].free_inodes =
           Cardinality({i \in Inode \ disk.inode_bitmap : InodeGroup(i) = g})

\* A directory of size n is read as n entries, although a walk does not look
\* at the size: it stops at the terminator of a block, which entries are moved
\* around and blocks are released and taken again.  Its first two entries are
\* itself and the directory it is entered in.
DirectoriesWellFormed ==
  \A d \in Dirs :
    LET ip == disk.inode[d]
        up == EntryAt(disk, d, <<1, 1>>)
    IN  /\ Cardinality(Walk(disk, d)) = ip.size
        /\ Len(ip.block) =
             (ip.size + EntriesPerBlock - 1) \div EntriesPerBlock
        /\ EntryAt(disk, d, <<1, 0>>) = Named(d, ".")
        /\ up.name = ".."
        /\ IF d = ROOT THEN up.inode = ROOT
           ELSE up.inode \in Dirs /\ \E e \in Entries(up.inode) :
                                       e.inode = d /\ e.name \in Name

\* No inode outside its group's table is in use.  inode_per_group is far more
\* than the table holds (175 and 32): only the lack of blocks keeps
\* alloc_free_inode from going past its end, into the root directory.
InodesInTable ==
  \A i \in disk.inode_bitmap : (i - 1) % inode_per_group < InodeTableSlots

\* The directory that commands are given in exists, wherever cd went since the
\* disk was mounted, and so do those that cd .. returns to.  (Entries that the
\* path stack kept from an earlier mount are another matter.)
CurrentDirExists ==
  \A n \in {g_currentDir} \cup Range(path) :
    g_isMounted /\ n.fs = mounts => n.inode \in Dirs

\* Whatever was written, removed and allocated since, cat prints a file as
\* fill wrote it, if the disk had room for it.
FilesReadBack ==
  \A i \in Used \ Dirs :
    LET ip == disk.inode[i]
    IN  Len(ip.block) * EntriesPerBlock >= ip.size =>
          fs_cat(i) = [s \in 1 .. ip.size |-> Data]

\* ls reads each entry of the directory into one page, shows them in order,
\* without the first two unless asked for all, and gives back every page once:
\* the exchange of neighbours by their pointers loses no item, closes no
\* circle, and list->count agrees with the chain.
ListedInOrder ==
  Here =>
    \A all \in BOOLEAN, order \in Order :
      \E list \in {fs_ls(g_currentDir.inode, all, order)} :
        LET n     == disk.inode[g_currentDir.inode].size
            shown == Chain(list)
            freed == release_entry_list(list).freed
        IN  /\ Len(list.entry) = n
            /\ Len(shown) = list.count
            /\ ToSet(shown) = (IF all THEN 1 ELSE 3) .. n
            /\ \A k \in 1 .. Len(shown) - 1 :
                 ~Exceeds(order, list.entry[shown[k]],
                                 list.entry[shown[k + 1]])
            /\ Len(freed) = n /\ ToSet(freed) = 1 .. n

\* No call fails half way: an inode that becomes allocated is entered in a
\* directory.  The three free blocks that alloc_free_inode asks for are what
\* guarantees it.
NewInodesEntered == [][Formatted => Used' \subseteq Used \cup Entered']_vars

\* An entry whose inode is not released is lost only in an mv on a full disk.
LostOnlyWhenFull == [][Full \/ Entered \cap Used' \subseteq Entered']_vars

\* A file has the blocks for its size, unless the disk was full when it was
\* written: the search for a block goes through every group.
ShortOnlyWhenFull ==
  [][\A i \in Used' \ Used :
       LET ip == disk'.inode[i]
       IN  Len(ip.block) * EntriesPerBlock < ip.size => Full']_vars

F == INSTANCE FileTree WITH tree <- Tree, dirs <- Dirs

\* The commands act on directories as on a set of entries.
ImplementsFileTree == F!Spec

\* ext2.c:1045: get_inode_block returns the number of a block on the whole
\* disk.  For the first block of a new inode that is one that was taken for
\* it.  (Does not hold: it is stored by its number within the group.)
FirstBlockIsWholeDisk ==
  [][\A i \in Used' \ Used :
       disk'.inode[i].block[1] \in disk'.block_bitmap \ disk.block_bitmap]_vars

\* ext2.c:276: format copies the group descriptors of all groups.  (Does not
\* hold.)
FormatWritesDescriptors ==
  [][formats' # formats =>
       \A g \in Group : disk'.gd[g].free_inodes = FormattedGd(g).free_inodes]_vars
=============================================================================
