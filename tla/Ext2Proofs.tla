----------------------------- MODULE Ext2Proofs -----------------------------
(***************************************************************************)
(* The commands of the shell keep the disk in order and stand in existing  *)
(* directories.                                                            *)
(***************************************************************************)
EXTENDS Ext2Props, Ext2DiskProofs

\* The commands that the theorems are about: the disk is formatted once, files
\* only are moved, new inodes come from the first group, and no command is
\* given in a directory that the path stack kept from an earlier mount.
Disciplined ==
  MaxFormats = 1 /\ MoveDirs = FALSE /\ Spill = FALSE /\ StaleDir = FALSE

-----------------------------------------------------------------------------
(* The invariant *)

\* Directories that were there still are, but y, and so are their entries.
Keeps(d, e, y) ==
  /\ DiskAgrees(e)
  /\ \A i \in Directories(d) : i # y => i \in Directories(e)
  /\ \A j, up \in Directories(d) :
       j # y /\ up # y /\ IsIn(d, j, up) => IsIn(e, j, up)

\* The path stack since the mount: a chain of directories from the current one
\* upwards, each of them entered in the one below it on the stack.
PathAgrees(d) ==
  \A k \in 1 .. Len(path) :
    /\ path[k].fs <= mounts
    /\ path[k].fs = mounts =>
         /\ path[k].inode \in Directories(d)
         /\ k + 1 \in 1 .. Len(path) =>
              path[k + 1].fs = mounts /\ IsIn(d, path[k + 1].inode, path[k].inode)

\* Where commands are given.
HereAgrees ==
  /\ mounts > 0
  /\ g_rootDir = [inode |-> ROOT, fs |-> mounts]
  /\ g_currentDir = g_rootDir \/ (path # << >> /\ g_currentDir = path[Len(path)])
  /\ path # << >> /\ path[Len(path)].fs = mounts => g_currentDir = path[Len(path)]

ShellAgrees ==
  /\ formats > 0 => DiskAgrees(disk)
  /\ \A k \in 1 .. Len(path) : path[k].fs <= mounts
  /\ g_isMounted => formats > 0 /\ HereAgrees /\ PathAgrees(disk)

ShellInv == TypeOK /\ ShellAgrees

-----------------------------------------------------------------------------
(* What commands know of the directory that they are given in *)

LEMMA BlankDiskType == BlankDisk \in Disk
<1>1. /\ [g \in Group |-> ZeroGd] \in [Group -> [free_blocks : Nat, free_inodes : Nat]]
      /\ [i \in Inode |-> Unwritten] \in [Inode -> INODE]
      /\ [b \in Block |-> Zeroed] \in [Block -> [Slot -> Entry]]
  BY ZeroedType DEF ZeroGd, Unwritten, INODE
<1> QED
  BY <1>1 DEF BlankDisk, Disk

\* Commands are given in an existing directory of the mounted disk.
LEMMA HereFacts ==
  ASSUME ShellInv, Here, StaleDir = FALSE
  PROVE  /\ DiskAgrees(disk) /\ g_isMounted = TRUE
         /\ g_currentDir.inode \in Directories(disk) /\ g_currentDir.fs = mounts
         /\ mounts \in 1 .. MaxMounts
         /\ path # << >> /\ path[Len(path)].fs = mounts => g_currentDir = path[Len(path)]
         /\ path = << >> => g_currentDir.inode = ROOT
<1>1. /\ g_isMounted = TRUE /\ g_currentDir.fs = mounts /\ path \in Seq(Node)
      /\ mounts \in 0 .. MaxMounts /\ MaxMounts \in Nat
  BY Ext2ShellAssumption DEF Here, ShellInv, TypeOK
<1>2. DiskAgrees(disk) /\ HereAgrees /\ PathAgrees(disk)
  BY <1>1 DEF ShellInv, ShellAgrees
<1>3. mounts \in 1 .. MaxMounts
  BY <1>1, <1>2 DEF HereAgrees
<1>4. ROOT \in Directories(disk)
  BY <1>2, DirectoriesInUse DEF DiskAgrees
<1>5. CASE g_currentDir = g_rootDir
  <2>1. g_currentDir.inode = ROOT
    BY <1>2, <1>5 DEF HereAgrees
  <2> QED
    BY <1>1, <1>2, <1>3, <1>4, <2>1 DEF HereAgrees
<1>6. CASE path # << >> /\ g_currentDir = path[Len(path)]
  <2>1. Len(path) \in 1 .. Len(path)
    BY <1>1, <1>6
  <2>2. g_currentDir.inode \in Directories(disk)
    BY <1>1, <1>2, <1>6, <2>1 DEF PathAgrees
  <2> QED
    BY <1>1, <1>2, <1>3, <1>6, <2>2 DEF HereAgrees
<1> QED
  BY <1>2, <1>5, <1>6 DEF HereAgrees

\* What a name stands for there.
LEMMA FoundFacts ==
  ASSUME ShellInv, Here, StaleDir = FALSE, NEW name, Found(name) # << >>,
         NEW D, D = g_currentDir.inode
  PROVE  \E k \in Nat, s \in Slot :
           /\ Has(disk, D, k, s) /\ Found(name) = <<Blk(disk, D, k), s>>
           /\ At(disk, Found(name)) = Ent(disk, D, k, s)
           /\ InodeOf(name) = Ent(disk, D, k, s).inode
           /\ InodeOf(name) \in InUse(disk)
           /\ disk.inode[InodeOf(name)].dir => InodeOf(name) \in Directories(disk)
           /\ name \in Name => Child(disk, D, k, s)
           /\ name = ".." => InodeOf(name) = Ent(disk, D, 1, 1).inode
<1>1. DiskAgrees(disk) /\ D \in Directories(disk)
  BY HereFacts
<1>2. PICK k \in Nat, s \in Slot :
        /\ Has(disk, D, k, s) /\ Found(name) = <<Blk(disk, D, k), s>>
        /\ Ent(disk, D, k, s).name = name /\ At(disk, Found(name)) = Ent(disk, D, k, s)
  BY <1>1, LookupFinds DEF Found
<1>3. PICK x : x = Ent(disk, D, k, s)
  OBVIOUS
<1>4. /\ x.name # "" /\ x.inode \in InUse(disk)
      /\ \/ k = 1 /\ s = 0 /\ x.name = "." /\ x.inode = D
         \/ k = 1 /\ s = 1 /\ x.name = ".." /\ x.inode \in Directories(disk)
         \/ Child(disk, D, k, s) /\ x.name \in Name
  <2>1. Has(disk, D, k, s)
    BY <1>2
  <2>2. KindOf(disk, D, k, s, x)
    BY <1>1, <1>3, <2>1, EntryKinds, ZenonT(60)
  <2> QED
    BY <2>2 DEF KindOf
<1>5. InodeOf(name) = x.inode /\ x.name = name
  BY <1>2, <1>3 DEF InodeOf
<1>6. Name \cap {".", "..", "", "data"} = {}
  BY Ext2Assumption
<1>7. name \in Name => Child(disk, D, k, s)
  BY <1>4, <1>5, <1>6
<1>8. name = ".." => k = 1 /\ s = 1
  <2>1. "." # ".." /\ ".." \notin Name
    BY <1>6
  <2> QED
    BY <1>4, <1>5, <2>1
<1>9. disk.inode[x.inode].dir => x.inode \in Directories(disk)
  BY <1>1, <1>4, DirectoriesInUse DEF DiskAgrees
<1> QED
  BY <1>2, <1>3, <1>4, <1>5, <1>7, <1>8, <1>9

-----------------------------------------------------------------------------
(* The steps *)

LEMMA ShellInit == Init => ShellInv
<1> SUFFICES ASSUME Init PROVE ShellInv
  OBVIOUS
<1>1. /\ MaxFormats \in Nat /\ MaxMounts \in Nat /\ MaxDepth \in Nat
  BY Ext2ShellAssumption
<1>2. /\ path = << >> /\ Len(path) = 0 /\ path \in Seq(Node)
  BY DEF Init
<1>3. g_rootDir \in Node /\ g_currentDir \in Node
  BY <1>1 DEF Init, Node, NoNode
<1>4. cached \in [1 .. MaxMounts -> Nat]
  BY DEF Init
<1>5. TypeOK
  <2>1. formats \in 0 .. MaxFormats /\ mounts \in 0 .. MaxMounts
    BY <1>1 DEF Init
  <2>2. Len(path) <= MaxDepth
    BY <1>1, <1>2
  <2>3. disk \in Disk /\ g_isMounted \in BOOLEAN
    BY BlankDiskType DEF Init
  <2> QED
    BY <1>2, <1>3, <1>4, <2>1, <2>2, <2>3, ZenonT(60) DEF TypeOK
<1>6. ShellAgrees
  BY <1>2 DEF Init, ShellAgrees
<1> QED
  BY <1>5, <1>6 DEF ShellInv

\* A command that leaves the current directory and the path stack alone.
LEMMA TypeStays ==
  ASSUME TypeOK, Unmoved, disk' \in Disk, cached' \in [1 .. MaxMounts -> Nat]
  PROVE  TypeOK'
BY DEF TypeOK, Unmoved

\* So does one that keeps the directories on the stack.
LEMMA PathStays ==
  ASSUME ShellInv, Here, StaleDir = FALSE, Unmoved, NEW y, Keeps(disk, disk', y),
         \A k \in 1 .. Len(path) : path[k].fs = mounts => path[k].inode # y
  PROVE  ShellAgrees'
<1>1. /\ path' = path /\ mounts' = mounts /\ formats' = formats
      /\ g_isMounted' = g_isMounted /\ g_rootDir' = g_rootDir
      /\ g_currentDir' = g_currentDir
  BY DEF Unmoved
<1>2. /\ g_isMounted /\ formats > 0 /\ HereAgrees /\ PathAgrees(disk)
      /\ \A k \in 1 .. Len(path) : path[k].fs <= mounts
  BY DEF ShellInv, ShellAgrees, Here
<1>3. HereAgrees'
  BY <1>1, <1>2 DEF HereAgrees
<1>4. DiskAgrees(disk')
  BY DEF Keeps
<1>5. PICK e : e = disk'
  OBVIOUS
<1>6. PathAgrees(e)
  <2> SUFFICES ASSUME NEW k \in 1 .. Len(path), path[k].fs = mounts
               PROVE  /\ path[k].inode \in Directories(e)
                      /\ k + 1 \in 1 .. Len(path) =>
                           /\ path[k + 1].fs = mounts
                           /\ IsIn(e, path[k + 1].inode, path[k].inode)
    BY <1>2 DEF PathAgrees
  <2>1. path[k].inode \in Directories(disk) /\ path[k].inode # y
    BY <1>2 DEF PathAgrees
  <2>2. path[k].inode \in Directories(e)
    BY <1>5, <2>1 DEF Keeps
  <2>3. ASSUME k + 1 \in 1 .. Len(path)
        PROVE  path[k + 1].fs = mounts /\ IsIn(e, path[k + 1].inode, path[k].inode)
    <3>1. path[k + 1].fs = mounts /\ IsIn(disk, path[k + 1].inode, path[k].inode)
      BY <1>2, <2>3 DEF PathAgrees
    <3>2. path[k + 1].inode \in Directories(disk) /\ path[k + 1].inode # y
      BY <1>2, <2>3, <3>1 DEF PathAgrees
    <3> QED
      BY <1>5, <2>1, <3>1, <3>2 DEF Keeps
  <2> QED
    BY <2>2, <2>3
<1>7. PathAgrees(disk)'
  BY <1>1, <1>5, <1>6 DEF PathAgrees
<1> QED
  BY <1>1, <1>2, <1>3, <1>4, <1>7 DEF ShellAgrees

\* With no directory that went away.
LEMMA AllStay ==
  ASSUME ShellInv, Here, StaleDir = FALSE, Unmoved, NEW e, e = disk', DiskAgrees(e),
         \A i \in Directories(disk) : i \in Directories(e),
         \A j, up \in Directories(disk) : IsIn(disk, j, up) => IsIn(e, j, up),
         cached' \in [1 .. MaxMounts -> Nat]
  PROVE  ShellInv'
<1>1. Keeps(disk, disk', 0)
  BY DEF Keeps
<1>2. \A k \in 1 .. Len(path) : path[k].fs = mounts => path[k].inode # 0
  <2> SUFFICES ASSUME NEW k \in 1 .. Len(path), path[k].fs = mounts
               PROVE  path[k].inode # 0
    OBVIOUS
  <2>1. path[k].inode \in Directories(disk)
    BY DEF ShellInv, ShellAgrees, Here, PathAgrees
  <2>2. path[k].inode \in Inode
    BY <2>1 DEF Directories
  <2> QED
    BY <2>2, Constants DEF Inode
<1>3. ShellAgrees'
  BY <1>1, <1>2, PathStays
<1>4. e \in Disk
  BY DEF DiskAgrees
<1>5. TypeOK'
  BY <1>4, TypeStays DEF ShellInv
<1> QED
  BY <1>3, <1>5 DEF ShellInv

LEMMA Caches ==
  ASSUME NEW d, NEW r, Created(d, r), NEW c \in [1 .. MaxMounts -> Nat],
         NEW fs \in 1 .. MaxMounts
  PROVE  (IF r.inode = 0 THEN c
          ELSE [c EXCEPT ![fs] = r.disk.gd[r.group].free_inodes])
           \in [1 .. MaxMounts -> Nat]
<1>1. r.group = 0 /\ r.disk \in Disk
  BY DEF Created, DiskAgrees
<1>2. r.disk.gd[r.group].free_inodes \in Nat
  BY <1>1, Root, DiskFacts
<1> QED
  BY <1>2

\* What a command does to the tree: nothing, a new entry of a new name, an
\* entry less, or a file's entry elsewhere.
TreeChanges(d, e) ==
  \/ SameTree(d, e) /\ Directories(e) = Directories(d) /\ InUse(e) = InUse(d)
  \/ \E D, name, i : Enters(d, e, D, name, i) /\ Unnamed(d, D, name)
  \/ \E t : Leaves(d, e, t) /\ InUse(e) = InUse(d) \ {t[3]}
  \/ \E t, T : Relocates(d, e, t, T) /\ Directories(e) = Directories(d)

\* And what it does to the files and the inodes.
Changes(d, e) == TreeChanges(d, e) /\ FilesChange(d, e) /\ InodesChange(d, e)

LEMMA NoChange == ASSUME NEW d PROVE Changes(d, d)
BY FilesStay DEF Changes, TreeChanges, SameTree, InodesChange

\* Writing to a file that was entered changes nothing more.
LEMMA EnteredAndWritten ==
  ASSUME NEW d, NEW f, NEW e, NEW D, NEW name, NEW i, Enters(d, f, D, name, i),
         WrittenTo(f, e)
  PROVE  Enters(d, e, D, name, i)
BY DEF Enters, WrittenTo, Gains, SameTree

\* Only that file is stored anew then.
LEMMA FilledFiles ==
  ASSUME NEW d, NEW f, NEW e, NEW D \in Directories(d), NEW name, NEW i,
         Enters(d, f, D, name, i), OthersSame(d, f, D), WrittenTo(f, e),
         OthersSame(f, e, i), Stored(e, i)
  PROVE  FilesChange(d, e)
<1> SUFFICES ASSUME NEW j \in InUse(e), j \notin Directories(e), j # i
             PROVE  j \in InUse(d) /\ j \notin Directories(d) /\ Same(d, e, j)
  BY DEF FilesChange
<1>1. j \in InUse(f) /\ j \notin Directories(f)
  BY DEF WrittenTo
<1>2. j \in InUse(d) /\ j \notin Directories(d)
  BY <1>1 DEF Enters
<1>3. Same(d, f, j) /\ Same(f, e, j)
  BY <1>1, <1>2 DEF OthersSame
<1> QED
  BY <1>2, <1>3, SameTrans

LEMMA TouchStep ==
  ASSUME ShellInv, Disciplined, NEW name \in Name, Touch(name)
  PROVE  ShellInv' /\ Changes(disk, disk')
<1>1. Here /\ Unmoved /\ StaleDir = FALSE /\ InFirstGroup /\ Spill = FALSE
  BY DEF Touch, CanCreate, Disciplined
<1>2. PICK D : D = g_currentDir.inode
  OBVIOUS
<1>3. /\ DiskAgrees(disk) /\ D \in Directories(disk)
      /\ g_currentDir.fs = mounts /\ mounts \in 1 .. MaxMounts
  BY <1>1, <1>2, HereFacts
<1>4. PICK r : r = ext2_create(disk, D, name)
  OBVIOUS
<1>5. /\ Created(disk, r)
      /\ (r.inode # 0 => Enters(disk, r.disk, D, name, r.inode))
      /\ FilesChange(disk, r.disk)
  <2>1. 0 \in GroupsWithRoom(disk) \/ GroupsWithRoom(disk) = {}
    BY <1>1 DEF InFirstGroup
  <2> QED
    BY <1>3, <1>4, <2>1, CreateAgrees, ZenonT(60)
<1>6. disk' = r.disk /\ Cache(r)
  BY <1>2, <1>4 DEF Touch
<1>7. cached' \in [1 .. MaxMounts -> Nat]
  <2>1. cached \in [1 .. MaxMounts -> Nat]
    BY DEF ShellInv, TypeOK
  <2>2. cached' = IF r.inode = 0 THEN cached
                  ELSE [cached EXCEPT ![mounts] = r.disk.gd[r.group].free_inodes]
    BY <1>3, <1>6 DEF Cache
  <2> QED
    BY <1>3, <1>5, <2>1, <2>2, Caches, ZenonT(60)
<1>8. PICK e : e = r.disk
  OBVIOUS
<1>9. /\ DiskAgrees(e) /\ e = disk'
      /\ \A i \in Directories(disk) : i \in Directories(e)
      /\ \A j, up \in Directories(disk) : IsIn(disk, j, up) => IsIn(e, j, up)
  BY <1>5, <1>6, <1>8 DEF Created
<1>10. ShellInv'
  BY <1>1, <1>7, <1>9, AllStay, ZenonT(60)
<1>11. Unnamed(disk, D, name)
  BY <1>1, <1>2, <1>3, NotFound DEF Touch, CanCreate, Found
<1>12. TreeChanges(disk, e)
  <2>1. CASE r.inode = 0
    BY <1>5, <1>8, <2>1, NoChange DEF Created, Changes
  <2>2. CASE r.inode # 0
    BY <1>5, <1>8, <1>11, <2>2 DEF TreeChanges
  <2> QED
    BY <2>1, <2>2
<1> QED
  BY <1>3, <1>5, <1>8, <1>9, <1>10, <1>12, CreatedInodes DEF Changes

LEMMA MkdirStep ==
  ASSUME ShellInv, Disciplined, NEW name \in Name, Mkdir(name)
  PROVE  ShellInv' /\ Changes(disk, disk')
<1>1. Here /\ Unmoved /\ StaleDir = FALSE /\ InFirstGroup /\ Spill = FALSE
  BY DEF Mkdir, Disciplined
<1>2. PICK D : D = g_currentDir.inode
  OBVIOUS
<1>3. /\ DiskAgrees(disk) /\ D \in Directories(disk)
      /\ g_currentDir.fs = mounts /\ mounts \in 1 .. MaxMounts
  BY <1>1, <1>2, HereFacts
<1>4. PICK r : r = ext2_mkdir(disk, D, name)
  OBVIOUS
<1>5. /\ Created(disk, r)
      /\ (r.inode # 0 => Enters(disk, r.disk, D, name, r.inode))
      /\ FilesChange(disk, r.disk)
  <2>1. 0 \in GroupsWithRoom(disk) \/ GroupsWithRoom(disk) = {}
    BY <1>1 DEF InFirstGroup
  <2> QED
    BY <1>3, <1>4, <2>1, MkdirAgrees, ZenonT(60)
<1>6. disk' = r.disk /\ Cache(r)
  BY <1>2, <1>4 DEF Mkdir
<1>7. cached' \in [1 .. MaxMounts -> Nat]
  <2>1. cached \in [1 .. MaxMounts -> Nat]
    BY DEF ShellInv, TypeOK
  <2>2. cached' = IF r.inode = 0 THEN cached
                  ELSE [cached EXCEPT ![mounts] = r.disk.gd[r.group].free_inodes]
    BY <1>3, <1>6 DEF Cache
  <2> QED
    BY <1>3, <1>5, <2>1, <2>2, Caches, ZenonT(60)
<1>8. PICK e : e = r.disk
  OBVIOUS
<1>9. /\ DiskAgrees(e) /\ e = disk'
      /\ \A i \in Directories(disk) : i \in Directories(e)
      /\ \A j, up \in Directories(disk) : IsIn(disk, j, up) => IsIn(e, j, up)
  BY <1>5, <1>6, <1>8 DEF Created
<1>10. ShellInv'
  BY <1>1, <1>7, <1>9, AllStay, ZenonT(60)
<1>11. Unnamed(disk, D, name)
  BY <1>2, <1>3, NotWalkedTo DEF Mkdir, is_exist
<1>12. TreeChanges(disk, e)
  <2>1. CASE r.inode = 0
    BY <1>5, <1>8, <2>1, NoChange DEF Created, Changes
  <2>2. CASE r.inode # 0
    BY <1>5, <1>8, <1>11, <2>2 DEF TreeChanges
  <2> QED
    BY <2>1, <2>2
<1> QED
  BY <1>3, <1>5, <1>8, <1>9, <1>10, <1>12, CreatedInodes DEF Changes

LEMMA FillStep ==
  ASSUME ShellInv, Disciplined, NEW name \in Name, NEW length \in FillSizes,
         Fill(name, length)
  PROVE  ShellInv' /\ Changes(disk, disk')
<1>1. Here /\ Unmoved /\ StaleDir = FALSE /\ InFirstGroup /\ Spill = FALSE
  BY DEF Fill, CanCreate, Disciplined
<1>2. PICK D : D = g_currentDir.inode
  OBVIOUS
<1>3. /\ DiskAgrees(disk) /\ D \in Directories(disk)
      /\ g_currentDir.fs = mounts /\ mounts \in 1 .. MaxMounts
  BY <1>1, <1>2, HereFacts
<1>4. PICK r : r = ext2_create(disk, D, name)
  OBVIOUS
<1>5. /\ Created(disk, r)
      /\ r.inode # 0 => /\ r.disk.inode[r.inode].dir = FALSE
                        /\ r.disk.inode[r.inode].size = 0
                        /\ Len(r.disk.inode[r.inode].block) = 1
                        /\ Enters(disk, r.disk, D, name, r.inode)
                        /\ \A j \in InUse(disk) : j # D => Same(disk, r.disk, j)
  <2>1. 0 \in GroupsWithRoom(disk) \/ GroupsWithRoom(disk) = {}
    BY <1>1 DEF InFirstGroup
  <2> QED
    BY <1>3, <1>4, <2>1, CreateAgrees, ZenonT(60)
<1>6. /\ disk' = IF r.inode = 0 THEN r.disk
                 ELSE ext2_write(r.disk, r.inode, length).disk
      /\ Cache(r)
  BY <1>2, <1>4 DEF Fill
<1>7. cached' \in [1 .. MaxMounts -> Nat]
  <2>1. cached \in [1 .. MaxMounts -> Nat]
    BY DEF ShellInv, TypeOK
  <2>2. cached' = IF r.inode = 0 THEN cached
                  ELSE [cached EXCEPT ![mounts] = r.disk.gd[r.group].free_inodes]
    BY <1>3, <1>6 DEF Cache
  <2> QED
    BY <1>3, <1>5, <2>1, <2>2, Caches, ZenonT(60)
<1>8. PICK f : f = r.disk
  OBVIOUS
<1>9. /\ DiskAgrees(f)
      /\ \A i \in Directories(disk) : i \in Directories(f)
      /\ \A j, up \in Directories(disk) : IsIn(disk, j, up) => IsIn(f, j, up)
  BY <1>5, <1>8 DEF Created
<1>10. CASE r.inode = 0
  <2>1. f = disk'
    BY <1>6, <1>8, <1>10
  <2>2. ShellInv'
    BY <1>1, <1>7, <1>9, <2>1, AllStay, ZenonT(60)
  <2>3. f = disk
    BY <1>5, <1>8, <1>10 DEF Created
  <2> QED
    BY <2>1, <2>2, <2>3, NoChange
<1>11. CASE r.inode # 0
  <2>1. PICK i : i = r.inode
    OBVIOUS
  <2>2. i \in InUse(f) /\ f.inode[i].dir = FALSE
    BY <1>5, <1>8, <1>11, <2>1 DEF Created
  <2>3. i \notin Directories(f)
    BY <2>2 DEF Directories
  <2>4. length \in Nat
    BY Ext2ShellAssumption
  <2>5. PICK e : e = ext2_write(f, i, length).disk
    OBVIOUS
  <2>6. WrittenTo(f, e) /\ Stored(e, i) /\ OthersSame(f, e, i)
    <3>1. f.inode[i].size = 0 /\ Len(f.inode[i].block) = 1
      BY <1>5, <1>8, <1>11, <2>1
    <3>2. /\ WrittenTo(f, e)
          /\ \A j \in InUse(f) : j # i => Same(f, e, j)
          /\ f.inode[i].size = 0 /\ Len(f.inode[i].block) = 1 => Stored(e, i)
      BY <1>9, <2>2, <2>3, <2>4, <2>5, WriteAgrees, ZenonT(60)
    <3> QED
      BY <3>1, <3>2 DEF OthersSame
  <2>7. e = disk'
    BY <1>6, <1>8, <1>11, <2>1, <2>5
  <2>8. /\ DiskAgrees(e)
        /\ \A j \in Directories(disk) : j \in Directories(e)
        /\ \A j, up \in Directories(disk) : IsIn(disk, j, up) => IsIn(e, j, up)
    BY <1>9, <2>6 DEF WrittenTo
  <2>9. ShellInv'
    BY <1>1, <1>7, <2>7, <2>8, AllStay, ZenonT(60)
  <2>10. Enters(disk, f, D, name, i) /\ OthersSame(disk, f, D)
    BY <1>5, <1>8, <1>11, <2>1 DEF OthersSame
  <2>11. Enters(disk, e, D, name, i)
    BY <2>6, <2>10, EnteredAndWritten
  <2>12. Unnamed(disk, D, name)
    BY <1>1, <1>2, <1>3, NotFound DEF Fill, CanCreate, Found
  <2>13. FilesChange(disk, e)
    BY <1>3, <2>6, <2>10, FilledFiles
  <2>14. TreeChanges(disk, e)
    BY <2>11, <2>12 DEF TreeChanges
  <2>15. InodesChange(disk, e)
    <3>1. InodesChange(disk, f)
      BY <1>3, <1>5, <1>8, CreatedInodes
    <3> QED
      BY <2>6, <3>1 DEF InodesChange, WrittenTo
  <2> QED
    BY <2>7, <2>9, <2>13, <2>14, <2>15 DEF Changes
<1> QED
  BY <1>10, <1>11

LEMMA MaxIn ==
  ASSUME NEW T \in SUBSET Group, T # {}
  PROVE  Max(T) \in T
<1> DEFINE U == {(NUMBER_OF_GROUPS - 1) - n : n \in T}
<1>1. /\ \A n \in T : n \in Nat /\ n <= NUMBER_OF_GROUPS - 1
      /\ NUMBER_OF_GROUPS \in Nat
  BY Constants DEF Group
<1>2. U \in SUBSET Nat /\ U # {}
  BY <1>1
<1>3. PICK u \in U : \A m \in U : u <= m
  BY <1>2, LeastNat
<1>4. PICK x \in T : u = (NUMBER_OF_GROUPS - 1) - x
  BY <1>3
<1>5. \A n \in T : x >= n
  BY <1>1, <1>3, <1>4
<1> QED
  BY <1>5 DEF Max

\* The counters that a removal copies to the file system.
LEMMA DeleteCaches ==
  ASSUME ShellInv, NEW e \in Disk, NEW i \in InUse(disk), DiskAgrees(disk),
         NEW c, c = [cached EXCEPT ![mounts] =
           e.gd[Max({BlockGroup(b) : b \in Range(disk.inode[i].block)})].free_inodes]
  PROVE  c \in [1 .. MaxMounts -> Nat]
<1> DEFINE T == {BlockGroup(b) : b \in Range(disk.inode[i].block)}
<1>1. disk \in Disk /\ InodesAgree(disk)
  BY DEF DiskAgrees
<1>2. i \in Inode /\ Len(disk.inode[i].block) >= 1
  BY <1>1 DEF InodesAgree, InUse
<1>3. PICK q : q = disk.inode[i].block
  OBVIOUS
<1>4. /\ q \in Seq(Block) /\ Len(q) \in Nat /\ Len(q) >= 1
      /\ \A k \in 1 .. Len(q) : q[k] \in Block
  BY <1>1, <1>2, <1>3, DiskFacts
<1>5. T \in SUBSET Group /\ T # {}
  <2>1. Range(q) \subseteq Block /\ q[1] \in Range(q)
    BY <1>4 DEF Range
  <2>2. \A b \in Range(q) : BlockGroup(b) \in Group
    BY <2>1, BlockNumber
  <2> QED
    BY <1>3, <2>1, <2>2
<1> HIDE DEF T
<1>6. Max(T) \in Group
  BY <1>5, MaxIn
<1>7. e.gd[Max(T)].free_inodes \in Nat
  BY <1>6, DiskFacts
<1>8. cached \in [1 .. MaxMounts -> Nat]
  BY DEF ShellInv, TypeOK
<1> QED
  BY <1>7, <1>8 DEF T

\* What the directory entry of a name leads to.
LEMMA DeleteStep ==
  ASSUME ShellInv, Here, StaleDir = FALSE, NEW name \in Name, Found(name) # << >>,
         NEW y, y = InodeOf(name),
         y \in Directories(disk) => disk.inode[y].size <= 2,
         Delete(name), Unmoved
  PROVE  ShellInv' /\ Changes(disk, disk')
<1>1. PICK D : D = g_currentDir.inode
  OBVIOUS
<1>2. DiskAgrees(disk) /\ D \in Directories(disk)
  BY <1>1, HereFacts
<1>3. PICK K \in Nat, S \in Slot :
        /\ Child(disk, D, K, S) /\ Found(name) = <<Blk(disk, D, K), S>>
        /\ y = Ent(disk, D, K, S).inode /\ y \in InUse(disk)
  BY <1>1, FoundFacts
<1>4. y \in Directories(disk) => \A k \in Nat, s \in Slot : ~Child(disk, y, k, s)
  BY <1>2, SmallIsEmpty
<1>5. PICK e : e = release_inode(release_dir_entry(disk, D, <<Blk(disk, D, K), S>>), y)
  OBVIOUS
<1>6. /\ Deleted(disk, e, y) /\ InUse(e) = InUse(disk) \ {y}
      /\ Leaves(disk, e, <<D, Ent(disk, D, K, S).name, y>>)
      /\ FilesChange(disk, e)
  <2>1. /\ DiskAgrees(disk) /\ D \in Directories(disk)
        /\ Child(disk, D, K, S) /\ y = Ent(disk, D, K, S).inode
    BY <1>2, <1>3
  <2> QED
    BY <2>1, <1>4, <1>5, DeleteAgrees, SMTT(60)
<1>7. disk' = e
  BY <1>1, <1>3, <1>5 DEF Delete
<1>8. e \in Disk
  BY <1>6 DEF Deleted, DiskAgrees
<1>9. cached' \in [1 .. MaxMounts -> Nat]
  <2>1. cached' = [cached EXCEPT ![mounts] =
          e.gd[Max({BlockGroup(b) : b \in Range(disk.inode[y].block)})].free_inodes]
    BY <1>7 DEF Delete
  <2> QED
    BY <1>2, <1>3, <1>8, <2>1, DeleteCaches, ZenonT(60)
<1>10. TypeOK'
  BY <1>7, <1>8, <1>9, TypeStays DEF ShellInv
<1>11. Keeps(disk, disk', y)
  BY <1>6, <1>7 DEF Deleted, Keeps
<1>12. \A k \in 1 .. Len(path) : path[k].fs = mounts => path[k].inode # y
  <2> SUFFICES ASSUME NEW k \in 1 .. Len(path), path[k].fs = mounts, path[k].inode = y
               PROVE  FALSE
    OBVIOUS
  <2>1. PathAgrees(disk) /\ path \in Seq(Node)
    BY DEF ShellInv, ShellAgrees, TypeOK, Here
  <2>2. y \in Directories(disk)
    BY <2>1 DEF PathAgrees
  <2>3. CASE k = Len(path)
    <3>1. path # << >>
      BY <2>1
    <3>2. g_currentDir = path[Len(path)]
      BY <2>3, <3>1, HereFacts
    <3>3. D = y
      BY <1>1, <2>3, <3>2
    <3> QED
      BY <1>3, <1>4, <2>2, <3>3
  <2>4. CASE k # Len(path)
    <3>1. k + 1 \in 1 .. Len(path)
      BY <2>1, <2>4
    <3>2. IsIn(disk, path[k + 1].inode, y)
      BY <2>1, <3>1 DEF PathAgrees
    <3> QED
      BY <1>4, <2>2, <3>2 DEF IsIn
  <2> QED
    BY <2>3, <2>4
<1>13. ShellAgrees'
  BY <1>11, <1>12, PathStays
<1>14. TreeChanges(disk, e)
  <2>1. PICK t : t = <<D, Ent(disk, D, K, S).name, y>>
    OBVIOUS
  <2>2. t[3] = y
    BY <2>1
  <2> QED
    BY <1>6, <2>1, <2>2 DEF TreeChanges
<1>15. InodesChange(disk, e)
  BY <1>6 DEF InodesChange, Deleted
<1> QED
  BY <1>6, <1>7, <1>10, <1>13, <1>14, <1>15 DEF ShellInv, Changes

LEMMA RmStep ==
  ASSUME ShellInv, Disciplined, NEW name \in Name, Rm(name)
  PROVE  ShellInv' /\ Changes(disk, disk')
<1>1. /\ Here /\ Unmoved /\ StaleDir = FALSE /\ Delete(name)
      /\ Found(name) # << >>
  BY DEF Rm, Disciplined, IsFile
<1>2. PICK y : y = InodeOf(name)
  OBVIOUS
<1>3. y \notin Directories(disk)
  BY <1>2 DEF Rm, IsFile, Directories
<1> QED
  BY <1>1, <1>2, <1>3, DeleteStep, ZenonT(60)

LEMMA RmdirStep ==
  ASSUME ShellInv, Disciplined, NEW name \in Name \cup {".", ".."}, Rmdir(name)
  PROVE  ShellInv' /\ Changes(disk, disk')
<1>1. /\ Here /\ Unmoved /\ StaleDir = FALSE /\ Delete(name)
      /\ Found(name) # << >> /\ name \in Name
      /\ disk.inode[InodeOf(name)].size <= 2
  BY DEF Rmdir, Disciplined, IsDir
<1>2. PICK y : y = InodeOf(name)
  OBVIOUS
<1> QED
  BY <1>1, <1>2, DeleteStep, ZenonT(60)

LEMMA MvStep ==
  ASSUME ShellInv, Disciplined, NEW name \in Name, NEW target, Mv(name, target)
  PROVE  ShellInv' /\ Changes(disk, disk')
<1>1. /\ Here /\ Unmoved /\ StaleDir = FALSE
      /\ Found(name) # << >> /\ Found(target) # << >>
      /\ ~disk.inode[InodeOf(name)].dir /\ disk.inode[InodeOf(target)].dir
  BY DEF Mv, Disciplined, IsFile, IsDir
<1>2. PICK D : D = g_currentDir.inode
  OBVIOUS
<1>3. /\ DiskAgrees(disk) /\ D \in Directories(disk)
      /\ mounts \in 1 .. MaxMounts
  BY <1>1, <1>2, HereFacts
<1>4. PICK K \in Nat, S \in Slot :
        /\ Child(disk, D, K, S) /\ Found(name) = <<Blk(disk, D, K), S>>
        /\ At(disk, Found(name)) = Ent(disk, D, K, S)
        /\ InodeOf(name) = Ent(disk, D, K, S).inode
  BY <1>1, <1>2, FoundFacts
<1>5. PICK T : T = InodeOf(target)
  OBVIOUS
<1>6. T \in Directories(disk)
  BY <1>1, <1>2, <1>5, FoundFacts
<1>7. Ent(disk, D, K, S).inode \notin Directories(disk)
  BY <1>1, <1>4 DEF Directories
<1>8. PICK x : x = Ent(disk, D, K, S)
  OBVIOUS
<1>9. PICK out : out = release_dir_entry(disk, D, <<Blk(disk, D, K), S>>)
  OBVIOUS
<1>10. PICK e : e = insert_entry(out, T, x).disk
  OBVIOUS
<1>11. /\ Moved(disk, e) /\ Relocates(disk, e, <<D, x.name, x.inode>>, T)
       /\ FilesChange(disk, e)
  BY <1>3, <1>4, <1>6, <1>7, <1>8, <1>9, <1>10, MoveAgrees, ZenonT(60)
<1>12. out \in Disk
  <2>1. TookOut(disk, out, D, K, S)
    BY <1>3, <1>4, <1>9, TakeOut, ZenonT(60)
  <2> QED
    BY <2>1 DEF TookOut
<1>13. e = disk'
  BY <1>2, <1>4, <1>5, <1>8, <1>9, <1>10 DEF Mv
<1>14. cached' \in [1 .. MaxMounts -> Nat]
  <2>1. PICK g : g = BlockGroup(Last(disk.inode[D].block))
    OBVIOUS
  <2>2. g \in Group
    <3>1. disk \in Disk /\ Shape(disk, D) /\ D \in Inode
      BY <1>3 DEF DiskAgrees, DirectoriesAgree, Directories
    <3>2. PICK q : q = disk.inode[D].block
      OBVIOUS
    <3>3. /\ Len(q) \in Nat /\ Len(q) >= 1
          /\ \A k \in 1 .. Len(q) : q[k] \in Block
      BY <3>1, <3>2, DiskFacts DEF Shape
    <3>4. Last(q) \in Block
      BY <3>3 DEF Last
    <3> QED
      BY <2>1, <3>2, <3>4, BlockNumber
  <2>3. out.gd[g].free_inodes \in Nat
    BY <1>12, <2>2, DiskFacts
  <2>4. cached' = IF out.block_bitmap = disk.block_bitmap THEN cached
                  ELSE [cached EXCEPT ![mounts] = out.gd[g].free_inodes]
    BY <1>2, <1>4, <1>9, <2>1 DEF Mv
  <2>5. cached \in [1 .. MaxMounts -> Nat]
    BY DEF ShellInv, TypeOK
  <2> QED
    BY <2>3, <2>4, <2>5
<1>15. /\ DiskAgrees(e)
       /\ \A j \in Directories(disk) : j \in Directories(e)
       /\ \A j, up \in Directories(disk) : IsIn(disk, j, up) => IsIn(e, j, up)
  BY <1>11 DEF Moved
<1>16. ShellInv'
  BY <1>1, <1>13, <1>14, <1>15, AllStay, ZenonT(60)
<1>17. TreeChanges(disk, e) /\ InodesChange(disk, e)
  BY <1>11 DEF TreeChanges, InodesChange, Moved
<1> QED
  BY <1>11, <1>13, <1>16, <1>17 DEF Changes

LEMMA FormatStep ==
  ASSUME ShellInv, Disciplined, Format
  PROVE  ShellInv' /\ formats = 0 /\ Fresh(disk')
<1>1. /\ g_isMounted = FALSE /\ formats = 0 /\ formats' = 1 /\ MaxFormats = 1
      /\ mounts' = mounts /\ path' = path /\ g_isMounted' = g_isMounted
      /\ disk \in Disk
  BY DEF Format, Disciplined, ShellInv, TypeOK
<1>2. disk' = ext2_format(disk, FALSE)
  <2>1. (formats > 0) = FALSE
    BY <1>1
  <2> QED
    BY <2>1, ZenonT(60) DEF Format
<1>3. PICK e : e = disk'
  OBVIOUS
<1>4. Fresh(e) /\ DiskAgrees(e)
  <2>1. Fresh(e)
    BY <1>1, <1>2, <1>3, FormatFresh
  <2> QED
    BY <2>1, FreshAgrees
<1>5. e \in Disk
  BY <1>4 DEF DiskAgrees
<1>6. TypeOK'
  BY <1>1, <1>3, <1>5 DEF ShellInv, TypeOK, Format
<1>7. ShellAgrees'
  BY <1>1, <1>3, <1>4 DEF ShellInv, ShellAgrees
<1> QED
  BY <1>1, <1>3, <1>4, <1>6, <1>7 DEF ShellInv

LEMMA MountStep ==
  ASSUME ShellInv, Disciplined, Mount
  PROVE  ShellInv'
<1>1. /\ formats > 0 /\ mounts < MaxMounts /\ mounts' = mounts + 1
      /\ disk' = disk /\ formats' = formats /\ path' = path
      /\ g_isMounted' = TRUE /\ g_currentDir' = g_rootDir'
      /\ cached' = [cached EXCEPT ![mounts'] = disk.gd[0].free_inodes]
  BY DEF Mount, fs_mount
<1>2. /\ mounts \in Nat /\ MaxMounts \in Nat /\ path \in Seq(Node)
      /\ \A k \in 1 .. Len(path) : path[k] \in Node
      /\ cached \in [1 .. MaxMounts -> Nat] /\ DiskAgrees(disk)
  <2>1. /\ path \in Seq(Node) /\ mounts \in 0 .. MaxMounts
        /\ cached \in [1 .. MaxMounts -> Nat]
    BY DEF ShellInv, TypeOK
  <2>2. DiskAgrees(disk)
    BY <1>1 DEF ShellInv, ShellAgrees
  <2> QED
    BY <2>1, <2>2, Ext2ShellAssumption
<1>3. g_rootDir' = [inode |-> ROOT, fs |-> mounts']
  <2>1. ROOT \in Directories(disk)
    BY <1>2, DirectoriesInUse DEF DiskAgrees
  <2>2. Ent(disk, ROOT, 1, 0) = Named(ROOT, ".")
    BY <1>2, <2>1 DEF DiskAgrees, DirectoriesAgree, Filled
  <2>3. disk.data[disk.inode[ROOT].block[1]][0].inode = ROOT
    BY <2>2 DEF Ent, Blk, Named
  <2> QED
    BY <2>3 DEF Mount, fill_node_struct
<1>4. disk.gd[0].free_inodes \in Nat
  BY <1>2, Root, DiskFacts DEF DiskAgrees
<1>5. cached' \in [1 .. MaxMounts -> Nat] /\ mounts' \in 0 .. MaxMounts
  BY <1>1, <1>2, <1>4
<1>6. g_rootDir' \in Node
  BY <1>3, <1>5, Root DEF Node
<1>7. TypeOK'
  BY <1>1, <1>5, <1>6 DEF ShellInv, TypeOK
<1>8. \A k \in 1 .. Len(path) : path[k].fs < mounts'
  <2>1. \A k \in 1 .. Len(path) : path[k].fs \in Int
    BY <1>2, Ext2ShellAssumption DEF Node
  <2> QED
    BY <1>1, <1>2, <2>1 DEF ShellInv, ShellAgrees
<1>9. \A k \in 1 .. Len(path) : path[k].fs <= mounts' /\ path[k].fs # mounts'
  <2>1. \A k \in 1 .. Len(path) : path[k].fs \in Int
    BY <1>2, Ext2ShellAssumption DEF Node
  <2> QED
    BY <1>1, <1>2, <1>8, <2>1
<1>10. PathAgrees(disk)'
  BY <1>1, <1>9 DEF PathAgrees
<1>11. HereAgrees'
  <2>1. path # << >> => Len(path) \in 1 .. Len(path)
    BY <1>2
  <2> QED
    BY <1>1, <1>2, <1>3, <1>9, <2>1 DEF HereAgrees
<1>12. ShellAgrees'
  BY <1>1, <1>2, <1>9, <1>10, <1>11 DEF ShellAgrees
<1> QED
  BY <1>7, <1>12 DEF ShellInv

LEMMA UmountStep ==
  ASSUME ShellInv, Umount
  PROVE  ShellInv'
<1>1. TypeOK'
  BY DEF ShellInv, TypeOK, Umount
<1>2. ShellAgrees'
  BY DEF ShellInv, ShellAgrees, Umount
<1> QED
  BY <1>1, <1>2 DEF ShellInv

\* cd to where the path stack says, if it says so rightly.
LEMMA GoStep ==
  ASSUME ShellInv, g_isMounted, NEW stack \in Seq(Node), Len(stack) <= MaxDepth,
         GoTo(stack),
         \A k \in 1 .. Len(stack) :
           /\ stack[k].fs <= mounts
           /\ stack[k].fs = mounts =>
                /\ stack[k].inode \in Directories(disk)
                /\ k + 1 \in 1 .. Len(stack) =>
                     stack[k + 1].fs = mounts /\ IsIn(disk, stack[k + 1].inode, stack[k].inode)
  PROVE  ShellInv'
<1>1. /\ path' = stack /\ disk' = disk /\ formats' = formats /\ mounts' = mounts
      /\ cached' = cached /\ g_isMounted' = g_isMounted /\ g_rootDir' = g_rootDir
      /\ g_currentDir' = IF stack = << >> THEN g_rootDir ELSE Last(stack)
  BY DEF GoTo
<1>2. Last(stack) = stack[Len(stack)]
  BY DEF Last
<1>3. stack # << >> => stack[Len(stack)] \in Node
  OBVIOUS
<1>4. g_currentDir' \in Node
  BY <1>1, <1>2, <1>3 DEF ShellInv, TypeOK
<1>5. TypeOK'
  BY <1>1, <1>4 DEF ShellInv, TypeOK
<1>6. PathAgrees(disk)' /\ \A k \in 1 .. Len(path') : path'[k].fs <= mounts'
  BY <1>1 DEF PathAgrees
<1>7. HereAgrees'
  BY <1>1, <1>2 DEF ShellInv, ShellAgrees, HereAgrees
<1>8. ShellAgrees'
  BY <1>1, <1>6, <1>7 DEF ShellInv, ShellAgrees
<1> QED
  BY <1>5, <1>8 DEF ShellInv

LEMMA CdRootStep ==
  ASSUME ShellInv, CdRoot
  PROVE  ShellInv'
<1>1. g_isMounted /\ GoTo(<< >>)
  BY DEF CdRoot
<1>2. << >> \in Seq(Node) /\ Len(<< >>) = 0
  OBVIOUS
<1>3. Len(<< >>) <= MaxDepth
  BY <1>2, Ext2ShellAssumption
<1>4. \A k \in 1 .. Len(<< >>) : FALSE
  BY <1>2
<1> QED
  BY <1>1, <1>2, <1>3, <1>4, GoStep

LEMMA CdUpStep ==
  ASSUME ShellInv, CdUp
  PROVE  ShellInv'
<1>1. g_isMounted /\ path # << >> /\ GoTo(Front(path)) /\ path \in Seq(Node)
  BY DEF CdUp, ShellInv, TypeOK
<1>2. /\ Front(path) \in Seq(Node) /\ Len(Front(path)) = Len(path) - 1
      /\ \A k \in 1 .. Len(path) - 1 : Front(path)[k] = path[k]
  BY <1>1, FrontFacts
<1>3. /\ Len(Front(path)) \in Nat /\ Len(path) \in Nat /\ Len(path) <= MaxDepth
      /\ MaxDepth \in Nat
  BY <1>1, <1>2, Ext2ShellAssumption DEF ShellInv, TypeOK
<1>4. PathAgrees(disk) /\ \A k \in 1 .. Len(path) : path[k].fs <= mounts
  BY <1>1 DEF ShellInv, ShellAgrees
<1>5. PICK stack : stack = Front(path)
  OBVIOUS
<1>6. /\ stack \in Seq(Node) /\ Len(stack) = Len(path) - 1 /\ Len(stack) <= MaxDepth
      /\ \A k \in 1 .. Len(stack) : stack[k] = path[k] /\ k \in 1 .. Len(path)
      /\ \A k \in Nat : k + 1 \in 1 .. Len(stack) =>
           stack[k + 1] = path[k + 1] /\ k + 1 \in 1 .. Len(path)
  BY <1>2, <1>3, <1>5
<1>7. \A k \in 1 .. Len(stack) :
        /\ stack[k].fs <= mounts
        /\ stack[k].fs = mounts =>
             /\ stack[k].inode \in Directories(disk)
             /\ k + 1 \in 1 .. Len(stack) =>
                  stack[k + 1].fs = mounts /\ IsIn(disk, stack[k + 1].inode, stack[k].inode)
  <2> SUFFICES ASSUME NEW k \in 1 .. Len(stack)
               PROVE  /\ stack[k].fs <= mounts
                      /\ stack[k].fs = mounts =>
                           /\ stack[k].inode \in Directories(disk)
                           /\ k + 1 \in 1 .. Len(stack) =>
                                /\ stack[k + 1].fs = mounts
                                /\ IsIn(disk, stack[k + 1].inode, stack[k].inode)
    OBVIOUS
  <2>1. stack[k] = path[k] /\ k \in 1 .. Len(path) /\ k \in Nat
    BY <1>6
  <2>2. k + 1 \in 1 .. Len(stack) =>
          stack[k + 1] = path[k + 1] /\ k + 1 \in 1 .. Len(path)
    BY <1>6, <2>1
  <2> QED
    BY <1>4, <2>1, <2>2 DEF PathAgrees
<1> QED
  BY <1>1, <1>5, <1>6, <1>7, GoStep, ZenonT(60)

LEMMA CdIntoStep ==
  ASSUME ShellInv, Disciplined, NEW name \in Name \cup {".."}, CdInto(name)
  PROVE  ShellInv'
<1>1. /\ Here /\ StaleDir = FALSE /\ (name = ".." => path = << >>)
      /\ Len(path) < MaxDepth /\ Found(name) # << >> /\ disk.inode[InodeOf(name)].dir
  BY DEF CdInto, Disciplined, IsDir
<1>2. PICK D : D = g_currentDir.inode
  OBVIOUS
<1>3. /\ DiskAgrees(disk) /\ D \in Directories(disk) /\ g_isMounted = TRUE
      /\ g_currentDir.fs = mounts /\ mounts \in 1 .. MaxMounts
      /\ path # << >> /\ path[Len(path)].fs = mounts => g_currentDir = path[Len(path)]
      /\ path = << >> => D = ROOT
  BY <1>1, <1>2, HereFacts
<1>4. PICK i : i = InodeOf(name)
  OBVIOUS
<1>5. i \in Directories(disk) /\ (name \in Name => IsIn(disk, i, D))
  BY <1>1, <1>2, <1>4, FoundFacts DEF IsIn
<1>6. PICK x : x = [inode |-> i, fs |-> mounts]
  OBVIOUS
<1>7. /\ x \in Node /\ path \in Seq(Node) /\ MaxDepth \in Nat /\ Len(path) \in Nat
      /\ x.inode = i /\ x.fs = mounts /\ mounts \in Int
  <2>1. i \in Inode
    BY <1>5 DEF Directories
  <2>2. mounts \in 0 .. MaxMounts /\ path \in Seq(Node)
    BY DEF ShellInv, TypeOK
  <2> QED
    BY <1>6, <2>1, <2>2, Ext2ShellAssumption DEF Node
<1>8. PICK stack : stack = Append(path, x)
  OBVIOUS
<1>9. /\ stack \in Seq(Node) /\ Len(stack) = Len(path) + 1 /\ Len(stack) <= MaxDepth
      /\ \A k \in 1 .. Len(path) : stack[k] = path[k]
      /\ stack[Len(path) + 1] = x
  BY <1>1, <1>7, <1>8
<1>10. GoTo(stack)
  BY <1>2, <1>3, <1>4, <1>6, <1>8 DEF CdInto
<1>11. PathAgrees(disk) /\ \A k \in 1 .. Len(path) : path[k].fs <= mounts
  BY <1>3 DEF ShellInv, ShellAgrees
<1>12. \A k \in 1 .. Len(stack) :
         /\ stack[k].fs <= mounts
         /\ stack[k].fs = mounts =>
              /\ stack[k].inode \in Directories(disk)
              /\ k + 1 \in 1 .. Len(stack) =>
                   stack[k + 1].fs = mounts /\ IsIn(disk, stack[k + 1].inode, stack[k].inode)
  <2> SUFFICES ASSUME NEW k \in 1 .. Len(stack)
               PROVE  /\ stack[k].fs <= mounts
                      /\ stack[k].fs = mounts =>
                           /\ stack[k].inode \in Directories(disk)
                           /\ k + 1 \in 1 .. Len(stack) =>
                                /\ stack[k + 1].fs = mounts
                                /\ IsIn(disk, stack[k + 1].inode, stack[k].inode)
    OBVIOUS
  <2>1. CASE k = Len(path) + 1
    <3>1. stack[k] = x /\ k + 1 \notin 1 .. Len(stack)
      BY <1>7, <1>9, <2>1
    <3> QED
      BY <1>5, <1>7, <3>1
  <2>2. CASE k = Len(path)
    <3>1. /\ stack[k] = path[k] /\ stack[k + 1] = x /\ k \in 1 .. Len(path)
          /\ path # << >>
      BY <1>7, <1>9, <2>2
    <3>2. name \in Name
      BY <1>1, <3>1
    <3>3. path[k].fs = mounts => path[k].inode = D
      BY <1>2, <1>3, <2>2, <3>1
    <3> QED
      BY <1>5, <1>7, <1>11, <3>1, <3>2, <3>3 DEF PathAgrees
  <2>3. CASE k + 1 \in 1 .. Len(path)
    <3>1. /\ stack[k] = path[k] /\ stack[k + 1] = path[k + 1] /\ k \in 1 .. Len(path)
      BY <1>7, <1>9, <2>3
    <3> QED
      BY <1>11, <2>3, <3>1 DEF PathAgrees
  <2> QED
    BY <1>7, <1>9, <2>1, <2>2, <2>3
<1> QED
  BY <1>3, <1>9, <1>10, <1>12, GoStep, ZenonT(60)

-----------------------------------------------------------------------------
(* The invariant holds, and what it says of the properties *)

LEMMA ShellSteps ==
  ASSUME ShellInv, Disciplined, [Next]_vars
  PROVE  /\ ShellInv'
         /\ \/ formats = 0 /\ formats' = 1 /\ Fresh(disk')
            \/ formats' = formats /\ Changes(disk, disk')
<1>1. CASE Format
  <2>1. formats' = formats + 1
    BY <1>1 DEF Format
  <2> QED
    BY <1>1, <2>1, FormatStep
<1>2. CASE Mount
  BY <1>2, MountStep, NoChange DEF Mount
<1>3. CASE Umount
  BY <1>3, UmountStep, NoChange DEF Umount
<1>4. CASE CdRoot
  BY <1>4, CdRootStep, NoChange DEF CdRoot, GoTo
<1>5. CASE CdUp
  BY <1>5, CdUpStep, NoChange DEF CdUp, GoTo
<1>6. CASE \E n \in Name \cup {".."} : CdInto(n)
  BY <1>6, CdIntoStep, NoChange DEF CdInto, GoTo
<1>7. ASSUME NEW n \in Name, Touch(n)
      PROVE  ShellInv' /\ formats' = formats /\ Changes(disk, disk')
  BY <1>7, TouchStep DEF Touch, Unmoved
<1>8. ASSUME NEW n \in Name, Mkdir(n)
      PROVE  ShellInv' /\ formats' = formats /\ Changes(disk, disk')
  BY <1>8, MkdirStep DEF Mkdir, Unmoved
<1>9. ASSUME NEW n \in Name, Rm(n)
      PROVE  ShellInv' /\ formats' = formats /\ Changes(disk, disk')
  BY <1>9, RmStep DEF Rm, Unmoved
<1>10. ASSUME NEW n \in Name, NEW length \in FillSizes, Fill(n, length)
       PROVE  ShellInv' /\ formats' = formats /\ Changes(disk, disk')
  BY <1>10, FillStep DEF Fill, Unmoved
<1>11. ASSUME NEW n \in Name, NEW t \in Name \cup {".", ".."}, Mv(n, t)
       PROVE  ShellInv' /\ formats' = formats /\ Changes(disk, disk')
  BY <1>11, MvStep DEF Mv, Unmoved
<1>12. CASE \E n \in Name \cup {".", ".."} : Rmdir(n)
  BY <1>12, RmdirStep DEF Rmdir, Unmoved
<1>13. CASE UNCHANGED vars
  <2>1. ShellInv'
    BY <1>13 DEF ShellInv, TypeOK, ShellAgrees, HereAgrees, PathAgrees, vars
  <2>2. disk' = disk /\ formats' = formats
    BY <1>13 DEF vars
  <2> QED
    BY <2>1, <2>2, NoChange
<1> QED
  BY <1>1, <1>2, <1>3, <1>4, <1>5, <1>6, <1>7, <1>8, <1>9, <1>10, <1>11, <1>12,
     <1>13 DEF Next

LEMMA ShellNext ==
  ASSUME ShellInv, Disciplined, [Next]_vars
  PROVE  ShellInv'
BY ShellSteps

\* The shell keeps the disk in order, with every counter, owner and entry
\* where it belongs, and stands in a directory of it.
THEOREM ShellKeepsOrder == Disciplined => (Spec => []ShellInv)
<1> SUFFICES ASSUME Disciplined PROVE Spec => []ShellInv
  OBVIOUS
<1>1. Init => ShellInv
  BY ShellInit
<1>2. ShellInv /\ [Next]_vars => ShellInv'
  BY ShellNext
<1> QED
  BY <1>1, <1>2, PTL DEF Spec

\* Every variable of the shell keeps its type: no counter of the descriptors
\* falls below zero, no block or inode number leaves the disk.
THEOREM TypesKept == Disciplined => (Spec => []TypeOK)
<1> SUFFICES ASSUME Disciplined PROVE Spec => []TypeOK
  OBVIOUS
<1>1. ShellInv => TypeOK
  BY DEF ShellInv
<1> QED
  BY <1>1, ShellKeepsOrder, PTL

LEMMA NamesAgree ==
  ASSUME ShellInv, Formatted
  PROVE  /\ DiskAgrees(disk) /\ Dirs = Directories(disk) /\ Used = InUse(disk)
<1>1. DiskAgrees(disk)
  BY DEF ShellInv, ShellAgrees, Formatted
<1>2. disk \in Disk /\ disk.inode_bitmap \subseteq Inode
  BY <1>1, DiskFacts DEF DiskAgrees
<1>3. Dirs = Directories(disk)
  BY <1>2 DEF Dirs, Directories
<1>4. Used = InUse(disk)
  BY <1>2, Root DEF Used, InUse
<1> QED
  BY <1>1, <1>3, <1>4

LEMMA OwnedOnce == ShellInv => BlocksOwnedOnce
<1> SUFFICES ASSUME ShellInv, Formatted
             PROVE  LET Owns(i, b) == b \in Range(disk.inode[i].block)
                    IN  /\ \A i \in Used : IsInjective(disk.inode[i].block)
                        /\ \A i, j \in Used : \A b \in Block :
                             Owns(i, b) /\ Owns(j, b) => i = j
                        /\ disk.block_bitmap =
                             MetadataBlocks
                               \cup {b \in Block : \E i \in Used : Owns(i, b)}
  BY DEF BlocksOwnedOnce
<1> DEFINE Owns(i, b) == b \in Range(disk.inode[i].block)
<1>1. DiskAgrees(disk) /\ Used = InUse(disk)
  BY NamesAgree
<1>2. disk \in Disk /\ BlocksAgree(disk) /\ disk.block_bitmap \subseteq Block
  BY <1>1, DiskFacts DEF DiskAgrees
<1>3. ASSUME NEW i \in Used
      PROVE  /\ i \in InUse(disk) /\ i \in Inode
             /\ DOMAIN disk.inode[i].block = 1 .. Len(disk.inode[i].block)
             /\ \A k \in DOMAIN disk.inode[i].block : k \in Nat /\ Own(disk, i, k)
             /\ \A k \in Nat : Own(disk, i, k) => k \in DOMAIN disk.inode[i].block
  <2>1. i \in InUse(disk) /\ i \in Inode
    BY <1>1 DEF InUse
  <2>2. PICK q \in Seq(Block) : q = disk.inode[i].block
    BY <1>2, <2>1, DiskFacts
  <2>3. DOMAIN q = 1 .. Len(q) /\ Len(q) \in Nat
    OBVIOUS
  <2> QED
    BY <2>1, <2>2, <2>3 DEF Own
<1>4. ASSUME NEW i \in Used, NEW b
      PROVE  Owns(i, b) <=> \E k \in Nat : Own(disk, i, k) /\ Blk(disk, i, k) = b
  BY <1>3 DEF Range, Blk
<1>5. ASSUME NEW i \in Used PROVE IsInjective(disk.inode[i].block)
  BY <1>2, <1>3 DEF IsInjective, BlocksAgree, Blk
<1>6. ASSUME NEW i \in Used, NEW j \in Used, NEW b \in Block, Owns(i, b), Owns(j, b)
      PROVE  i = j
  <2> HIDE DEF Owns
  <2>1. PICK k \in Nat : Own(disk, i, k) /\ Blk(disk, i, k) = b
    BY <1>4, <1>6
  <2>2. PICK l \in Nat : Own(disk, j, l) /\ Blk(disk, j, l) = b
    BY <1>4, <1>6
  <2> QED
    BY <1>2, <1>3, <2>1, <2>2 DEF BlocksAgree
<1>7. ASSUME NEW b
      PROVE  b \in disk.block_bitmap
               <=> b \in MetadataBlocks \/ (b \in Block /\ \E i \in Used : Owns(i, b))
  <2> HIDE DEF Owns
  <2>1. ASSUME b \in disk.block_bitmap, b \notin MetadataBlocks
        PROVE  b \in Block /\ \E i \in Used : Owns(i, b)
    <3>1. PICK i \in Inode, k \in Nat : Own(disk, i, k) /\ Blk(disk, i, k) = b
      BY <1>2, <2>1 DEF BlocksAgree
    <3>2. i \in Used
      BY <1>1, <3>1 DEF Own
    <3> QED
      BY <1>2, <1>4, <2>1, <3>1, <3>2
  <2>2. ASSUME b \in MetadataBlocks PROVE b \in disk.block_bitmap
    BY <1>2, <2>2 DEF BlocksAgree
  <2>3. ASSUME NEW i \in Used, Owns(i, b) PROVE b \in disk.block_bitmap
    <3>1. PICK k \in Nat : Own(disk, i, k) /\ Blk(disk, i, k) = b
      BY <1>4, <2>3
    <3> QED
      BY <1>2, <1>3, <3>1 DEF BlocksAgree
  <2> QED
    BY <2>1, <2>2, <2>3
<1>8. disk.block_bitmap = MetadataBlocks \cup {b \in Block : \E i \in Used : Owns(i, b)}
  <2> HIDE DEF Owns
  <2> QED
    BY <1>7
<1> QED
  BY <1>5, <1>6, <1>8

\* Whatever is created, written, moved and removed: a block that is marked is
\* metadata or belongs to one inode in use, at one place, and what an inode in
\* use holds is marked.
THEOREM BlocksAreOwnedOnce == Disciplined => (Spec => []BlocksOwnedOnce)
<1> SUFFICES ASSUME Disciplined PROVE Spec => []BlocksOwnedOnce
  OBVIOUS
<1> QED
  BY OwnedOnce, ShellKeepsOrder, PTL

LEMMA CountsAgree == ShellInv => CountsExact
<1> SUFFICES ASSUME ShellInv, Formatted, NEW g \in Group
             PROVE  /\ disk.gd[g].free_blocks = Cardinality(FreeBlocks(disk, g))
                    /\ disk.gd[g].free_inodes =
                         Cardinality({i \in Inode \ disk.inode_bitmap : InodeGroup(i) = g})
  BY DEF CountsExact
<1> QED
  BY NamesAgree DEF DiskAgrees, BlockCounts, InodeCounts, FreeInodes

\* The group descriptors always count the zero bits of their bitmaps.
THEOREM CountsStayExact == Disciplined => (Spec => []CountsExact)
<1> SUFFICES ASSUME Disciplined PROVE Spec => []CountsExact
  OBVIOUS
<1> QED
  BY CountsAgree, ShellKeepsOrder, PTL

LEMMA DirExists == ShellInv => CurrentDirExists
<1> SUFFICES ASSUME ShellInv, NEW n \in {g_currentDir} \cup Range(path),
                    g_isMounted, n.fs = mounts
             PROVE  n.inode \in Dirs
  BY DEF CurrentDirExists
<1>1. /\ formats > 0 /\ HereAgrees /\ PathAgrees(disk) /\ path \in Seq(Node)
  BY DEF ShellInv, ShellAgrees, TypeOK
<1>2. DiskAgrees(disk) /\ Dirs = Directories(disk)
  BY <1>1, NamesAgree DEF Formatted
<1>3. ROOT \in Directories(disk)
  BY <1>2, DirectoriesInUse DEF DiskAgrees
<1>4. CASE n = g_rootDir
  <2>1. n.inode = ROOT
    BY <1>1, <1>4 DEF HereAgrees
  <2> QED
    BY <1>2, <1>3, <2>1
<1>5. CASE n # g_rootDir
  <2>1. PICK k \in 1 .. Len(path) : n = path[k]
    <3>1. path # << >> => Len(path) \in 1 .. Len(path)
      BY <1>1
    <3>2. DOMAIN path = 1 .. Len(path)
      BY <1>1
    <3> QED
      BY <1>1, <1>5, <3>1, <3>2 DEF HereAgrees, Range
  <2> QED
    BY <1>1, <1>2, <2>1 DEF PathAgrees
<1> QED
  BY <1>4, <1>5

\* Commands are given in directories that exist, wherever cd went and
\* whatever was removed since.
THEOREM CurrentDirAlwaysExists == Disciplined => (Spec => []CurrentDirExists)
<1> SUFFICES ASSUME Disciplined PROVE Spec => []CurrentDirExists
  OBVIOUS
<1> QED
  BY DirExists, ShellKeepsOrder, PTL

\* The steps of a walk, counted: as many as the size says.
LEMMA WalkSize ==
  ASSUME NEW d, DiskAgrees(d), NEW D \in Directories(d),
         NEW n, n = Len(d.inode[D].block), NEW z, z = d.inode[D].size
  PROVE  /\ Cardinality(Walk(d, D)) = z
         /\ n = (z + EntriesPerBlock - 1) \div EntriesPerBlock
<1>1. PICK E : E = EntriesPerBlock
  OBVIOUS
<1>2. E \in Nat \ {0} /\ E \in Nat /\ E >= 3 /\ Slot = 0 .. E - 1
  BY <1>1, Constants DEF Slot
<1>3. PICK t : t = Level(d.inode[D])
  OBVIOUS
<1>4. /\ n \in Nat /\ n >= 1 /\ z \in Nat /\ z >= 2 /\ t \in 1 .. E
      /\ t = z - (n - 1) * E
  <2>1. d \in Disk /\ D \in Inode /\ Shape(d, D)
    BY DEF DiskAgrees, DirectoriesAgree, Directories
  <2>2. n \in Nat /\ z \in Nat
    BY <2>1, DiskFacts
  <2> QED
    BY <1>1, <1>3, <2>1, <2>2 DEF Shape, Level
<1>5. PICK p : p = (n - 1) * E
  OBVIOUS
<1>6. /\ p \in Nat /\ z = p + t /\ n - 1 \in Nat
      /\ n \in Nat /\ n >= 1 /\ z \in Nat /\ t \in 1 .. E
  <2>1. n - 1 \in Nat
    BY <1>4
  <2>2. p \in Nat
    BY <1>2, <1>5, <2>1, Multiply
  <2> QED
    BY <1>4, <1>5, <2>1, <2>2
<1>7. \A k \in Nat, s \in Slot :
        Has(d, D, k, s) <=> k \in 1 .. n /\ (k < n \/ s < t)
  BY <1>3 DEF Has
<1>8. n = (z + EntriesPerBlock - 1) \div EntriesPerBlock
  <2>1. PICK r : r = z + E - 1
    OBVIOUS
  <2>2. PICK a : a = n * E
    OBVIOUS
  <2>3. a = p + E
    BY <1>2, <1>6, <1>5, <2>2
  <2>4. r \in Nat /\ t - 1 \in 0 .. E - 1 /\ r = a + (t - 1)
    BY <1>2, <1>6, <2>1, <2>3
  <2>5. r = n * E + (t - 1)
    BY <2>2, <2>4, ZenonT(60)
  <2>6. r \div E = n
    BY <1>2, <1>6, <2>4, <2>5, DivUnique, ZenonT(60)
  <2> QED
    BY <1>1, <2>1, <2>6
<1> DEFINE f == [m \in 1 .. z |-> <<(m - 1) \div E + 1, (m - 1) % E>>]
<1>9. ASSUME NEW m \in 1 .. z
      PROVE  \E k \in Nat, s \in Slot :
               /\ f[m] = <<k, s>> /\ Has(d, D, k, s) /\ k >= 1
               /\ m - 1 = (k - 1) * E + s
  <2>1. m - 1 \in Nat
    BY <1>4
  <2>2. PICK q : q = (m - 1) \div E
    OBVIOUS
  <2>3. PICK r : r = (m - 1) % E
    OBVIOUS
  <2>4. q \in Nat /\ r \in 0 .. E - 1 /\ m - 1 = q * E + r
    BY <1>2, <2>1, <2>2, <2>3, DivMod
  <2>5. PICK a : a = q * E
    OBVIOUS
  <2>6. a \in Nat /\ (n - 1 < q <=> p + E <= a)
    BY <1>2, <1>5, <1>6, <2>4, <2>5, Multiply
  <2>7. /\ q \in Nat /\ r \in 0 .. E - 1 /\ m - 1 = a + r
        /\ q = n - 1 => a = p
    BY <1>5, <2>4, <2>5, ZenonT(60)
  <2>8. a + r < p + t
    BY <1>6, <2>6, <2>7
  <2>9. q <= n - 1 /\ (q = n - 1 => r < t)
    BY <1>2, <1>6, <2>6, <2>7, <2>8
  <2>10. q + 1 \in Nat /\ q + 1 \in 1 .. n /\ (q + 1 < n \/ r < t) /\ (q + 1) - 1 = q
    BY <1>6, <2>7, <2>9
  <2>11. Has(d, D, q + 1, r) /\ r \in Slot
    BY <1>2, <1>7, <2>4, <2>10
  <2>12. f[m] = <<q + 1, r>>
    BY <2>2, <2>3
  <2> QED
    BY <2>4, <2>10, <2>11, <2>12
<1>10. ASSUME NEW k \in Nat, NEW s \in Slot, Has(d, D, k, s)
       PROVE  \E m \in 1 .. z : f[m] = <<k, s>>
  <2>1. k \in 1 .. n /\ (k < n \/ s < t) /\ s \in 0 .. E - 1 /\ k - 1 \in Nat
    BY <1>2, <1>4, <1>7, <1>10
  <2>2. PICK a : a = (k - 1) * E
    OBVIOUS
  <2>3. a \in Nat /\ (k - 1 < n - 1 <=> a + E <= p)
    BY <1>2, <1>5, <1>6, <2>1, <2>2, Multiply
  <2>4. k = n => a = p
    BY <1>5, <2>2, ZenonT(60)
  <2>5. a + s < z
    BY <1>2, <1>6, <2>1, <2>3, <2>4
  <2>6. PICK m : m = a + s + 1
    OBVIOUS
  <2>7. m \in 1 .. z /\ m - 1 \in Nat /\ m - 1 = a + s
    BY <1>2, <1>6, <2>1, <2>3, <2>5, <2>6
  <2>8. (m - 1) \div E = k - 1 /\ (m - 1) % E = s
    <3>1. m - 1 = (k - 1) * E + s
      BY <2>2, <2>7, ZenonT(60)
    <3> QED
      <4>1. m - 1 \in Nat /\ k - 1 \in Nat /\ E \in Nat \ {0} /\ s \in 0 .. E - 1
        BY <1>2, <2>1, <2>7
      <4> QED
        BY <3>1, <4>1, DivUnique, ZenonT(60)
  <2>9. f[m] = <<(m - 1) \div E + 1, (m - 1) % E>>
    BY <2>7, ZenonT(60)
  <2>10. (k - 1) + 1 = k
    OBVIOUS
  <2> QED
    BY <2>7, <2>8, <2>9, <2>10, ZenonT(60)
<1>11. f \in [1 .. z -> Walk(d, D)]
  <2>1. \A m \in 1 .. z : f[m] \in Walk(d, D)
    BY <1>9, WalkHas
  <2> QED
    BY <2>1
<1>12. \A a, b \in 1 .. z : f[a] = f[b] => a = b
  <2> SUFFICES ASSUME NEW a \in 1 .. z, NEW b \in 1 .. z, f[a] = f[b]
               PROVE  a = b
    OBVIOUS
  <2> HIDE DEF f
  <2>1. PICK k \in Nat, s \in Slot : f[a] = <<k, s>> /\ a - 1 = (k - 1) * E + s
    BY <1>9
  <2>2. PICK l \in Nat, r \in Slot : f[b] = <<l, r>> /\ b - 1 = (l - 1) * E + r
    BY <1>9
  <2>3. <<k, s>> = <<l, r>>
    BY <2>1, <2>2, ZenonT(60)
  <2>4. k = l /\ s = r
    BY <2>3
  <2>5. a - 1 = b - 1
    BY <2>1, <2>2, <2>4, ZenonT(60)
  <2> QED
    BY <2>5
<1>13. \A w \in Walk(d, D) : \E m \in 1 .. z : f[m] = w
  <2> SUFFICES ASSUME NEW w \in Walk(d, D) PROVE \E m \in 1 .. z : f[m] = w
    OBVIOUS
  <2> HIDE DEF f
  <2>1. PICK k \in Nat, s \in Slot : w = <<k, s>> /\ Has(d, D, k, s)
    BY WalkHas
  <2> QED
    BY <1>10, <2>1, ZenonT(60)
<1> HIDE DEF f
<1>14. f \in Bijection(1 .. z, Walk(d, D))
  <2>1. DOMAIN f = 1 .. z
    BY <1>11
  <2> QED
    BY <1>11, <1>12, <1>13, <2>1 DEF Bijection, Injection, Surjection, IsInjective
<1>15. ExistsBijection(1 .. z, Walk(d, D))
  BY <1>14 DEF ExistsBijection
<1>16. Cardinality(Walk(d, D)) = z
  BY <1>4, <1>15, FS_CountingElements
<1> QED
  BY <1>8, <1>16

LEMMA WellFormed == ShellInv => DirectoriesWellFormed
<1> SUFFICES ASSUME ShellInv, NEW D \in Dirs
             PROVE  LET ip == disk.inode[D]
                        up == EntryAt(disk, D, <<1, 1>>)
                    IN  /\ Cardinality(Walk(disk, D)) = ip.size
                        /\ Len(ip.block) =
                             (ip.size + EntriesPerBlock - 1) \div EntriesPerBlock
                        /\ EntryAt(disk, D, <<1, 0>>) = Named(D, ".")
                        /\ up.name = ".."
                        /\ IF D = ROOT THEN up.inode = ROOT
                           ELSE up.inode \in Dirs /\ \E e \in Entries(up.inode) :
                                                       e.inode = D /\ e.name \in Name
  BY DEF DirectoriesWellFormed
<1>1. Formatted
  BY DEF Dirs
<1>2. DiskAgrees(disk) /\ Dirs = Directories(disk) /\ D \in Directories(disk)
  BY <1>1, NamesAgree
<1>3. Filled(disk, D) /\ Rooted(disk)
  BY <1>2 DEF DiskAgrees, DirectoriesAgree
<1>4. \A i, k, s : EntryAt(disk, i, <<k, s>>) = Ent(disk, i, k, s)
  BY DEF EntryAt, Ent, Blk
<1>5. /\ Cardinality(Walk(disk, D)) = disk.inode[D].size
      /\ Len(disk.inode[D].block) =
           (disk.inode[D].size + EntriesPerBlock - 1) \div EntriesPerBlock
  BY <1>2, WalkSize, ZenonT(60)
<1>6. PICK up : up = EntryAt(disk, D, <<1, 1>>)
  OBVIOUS
<1>7. /\ EntryAt(disk, D, <<1, 0>>) = Named(D, ".")
      /\ up.name = ".." /\ up.inode \in Directories(disk) /\ up = Ent(disk, D, 1, 1)
  BY <1>3, <1>4, <1>6 DEF Filled
<1>8. CASE D = ROOT
  <2>1. up.inode = ROOT
    BY <1>3, <1>7, <1>8 DEF Rooted
  <2> QED
    BY <1>5, <1>6, <1>7, <1>8, <2>1
<1>9. CASE D # ROOT
  <2>1. IsIn(disk, D, up.inode)
    BY <1>2, <1>3, <1>7, <1>9 DEF Rooted
  <2>2. PICK k \in Nat, s \in Slot :
          Child(disk, up.inode, k, s) /\ Ent(disk, up.inode, k, s).inode = D
    BY <2>1 DEF IsIn
  <2>3. Has(disk, up.inode, k, s)
    BY <2>2 DEF Child
  <2>4. <<k, s>> \in Walk(disk, up.inode)
    BY <1>2, <1>7, <2>3, WalkHas
  <2>5. Ent(disk, up.inode, k, s).name \in Name
    <3>1. Filled(disk, up.inode)
      BY <1>2, <1>7 DEF DiskAgrees, DirectoriesAgree
    <3> QED
      BY <2>2, <3>1 DEF Filled
  <2>6. \E e \in Entries(up.inode) : e.inode = D /\ e.name \in Name
    <3>1. Ent(disk, up.inode, k, s) \in Entries(up.inode)
      BY <1>4, <2>4 DEF Entries
    <3> QED
      BY <2>2, <2>5, <3>1
  <2> QED
    BY <1>2, <1>5, <1>6, <1>7, <1>9, <2>6
<1> QED
  BY <1>8, <1>9

\* Every directory of size n has n entries for a walk, in as many blocks as
\* they need, begins with . and .., and is entered in the directory that ..
\* stands for.
THEOREM DirectoriesStayWellFormed == Disciplined => (Spec => []DirectoriesWellFormed)
<1> SUFFICES ASSUME Disciplined PROVE Spec => []DirectoriesWellFormed
  OBVIOUS
<1> QED
  BY WellFormed, ShellKeepsOrder, PTL

-----------------------------------------------------------------------------
(* The tree of files *)

\* The tree and the inodes of Ext2Props are those of the disk.
TreeIs ==
  /\ Dirs = Directories(disk) /\ Used = InUse(disk) /\ DirectoriesAgree(disk)
  /\ \A t : t \in Tree <=> EntryOf(disk, t)

LEMMA TreeAgrees == ShellInv /\ Formatted => TreeIs
<1> SUFFICES ASSUME ShellInv, Formatted PROVE TreeIs
  OBVIOUS
<1>1. DiskAgrees(disk) /\ Dirs = Directories(disk) /\ Used = InUse(disk)
  BY NamesAgree
<1>2. Tree = TreeAt(disk)
  BY <1>1 DEF Tree, TreeAt, Entries
<1>3. \A t : t \in Tree <=> EntryOf(disk, t)
  BY <1>1, <1>2, TreeHas
<1> QED
  BY <1>1, <1>3 DEF TreeIs, DiskAgrees

\* Before the first format there is no tree.
LEMMA NoTree == ~Formatted => Dirs = {} /\ Used = {} /\ Tree = {}
<1> SUFFICES ASSUME ~Formatted PROVE Dirs = {} /\ Used = {} /\ Tree = {}
  OBVIOUS
<1>1. Dirs = {} /\ Used = {}
  BY DEF Dirs, Used
<1> QED
  BY <1>1 DEF Tree

Bare == Dirs = {} /\ Used = {} /\ Tree = {}

LEMMA BareFirst == ~Formatted => Bare
BY NoTree DEF Bare

\* What is known of the tree before and after a step.
LEMMA BeforeAndAfter ==
  ASSUME ShellInv, Disciplined, [Next]_vars
  PROVE  /\ ShellInv'
         /\ \/ ~Formatted /\ Formatted' /\ TreeIs' /\ Fresh(disk')
            \/ ~Formatted /\ ~Formatted'
            \/ Formatted /\ Formatted' /\ TreeIs /\ TreeIs' /\ Changes(disk, disk')
<1>1. /\ ShellInv'
      /\ \/ formats = 0 /\ formats' = 1 /\ Fresh(disk')
         \/ formats' = formats /\ Changes(disk, disk')
  BY ShellSteps
<1>2. ShellInv /\ Formatted => TreeIs
  BY TreeAgrees
<1>3. ShellInv' /\ Formatted' => TreeIs'
  BY TreeAgrees, PTL
<1>4. formats \in Nat /\ (Formatted <=> formats # 0) /\ (Formatted' <=> formats' > 0)
  BY Ext2ShellAssumption DEF Formatted, ShellInv, TypeOK
<1>5. CASE formats = 0 /\ formats' = 1 /\ Fresh(disk')
  <2>1. ~Formatted /\ Formatted'
    BY <1>4, <1>5
  <2> QED
    BY <1>1, <1>3, <1>5, <2>1
<1>6. CASE formats' = formats /\ Changes(disk, disk')
  <2>1. Formatted' <=> Formatted
    BY <1>4, <1>6
  <2> QED
    BY <1>1, <1>2, <1>3, <1>6, <2>1
<1> QED
  BY <1>1, <1>5, <1>6

\* A step of the shell is a step on the tree, or leaves it alone.
LEMMA TreeSteps ==
  ASSUME ShellInv, Disciplined, [Next]_vars
  PROVE  [F!Next]_<<Tree, Dirs>>
<1>1. PICK T0, T1, D0, D1 : T0 = Tree /\ T1 = Tree' /\ D0 = Dirs /\ D1 = Dirs'
  OBVIOUS
<1>2. PICK e : e = disk'
  OBVIOUS
<1>3. CASE ~Formatted /\ Formatted' /\ TreeIs' /\ Fresh(e)
  <2>1. Dirs' = {ROOT} /\ Tree' = {}
    BY <1>2, <1>3, FreshTree DEF TreeIs
  <2> QED
    BY <2>1 DEF F!Next, F!Change, F!Format
<1>4. CASE ~Formatted /\ ~Formatted'
  <2>1. Dirs = {} /\ Tree = {}
    BY <1>4, NoTree
  <2>2. Dirs' = {} /\ Tree' = {}
    <3>1. ~Formatted' => Bare'
      BY BareFirst, PTL
    <3> QED
      BY <1>4, <3>1 DEF Bare
  <2> QED
    BY <2>1, <2>2
<1>5. CASE Formatted /\ TreeIs /\ TreeIs' /\ Changes(disk, e)
  <2>1. /\ D0 = Directories(disk) /\ DirectoriesAgree(disk)
        /\ \A t : t \in T0 <=> EntryOf(disk, t)
    BY <1>1, <1>5 DEF TreeIs
  <2>2. D1 = Directories(e) /\ \A t : t \in T1 <=> EntryOf(e, t)
    BY <1>1, <1>2, <1>5 DEF TreeIs
  <2>3. CASE SameTree(disk, e) /\ Directories(e) = Directories(disk)
    <3>1. T1 = T0 /\ D1 = D0
      BY <2>1, <2>2, <2>3 DEF SameTree
    <3> QED
      BY <1>1, <3>1
  <2>4. CASE \E D, name, i : Enters(disk, e, D, name, i) /\ Unnamed(disk, D, name)
    <3>1. PICK D, name, i : Enters(disk, e, D, name, i) /\ Unnamed(disk, D, name)
      BY <2>4
    <3>2. PICK x : x = <<D, name, i>>
      OBVIOUS
    <3>3. x[1] = D /\ x[2] = name /\ x[3] = i
      BY <3>2
    <3>4. /\ D \in D0 /\ i # ROOT /\ i \notin InUse(disk)
          /\ \A j : j # i => (j \in D1 <=> j \in D0)
          /\ \A t : t \in T1 <=> t \in T0 \/ t = x
      BY <2>1, <2>2, <3>1, <3>2 DEF Enters, Gains
    <3>5. \A u \in T0 : u[3] # i /\ (u[1] # D \/ u[2] # name)
      BY <2>1, <3>1, <3>4, EntryFacts DEF Unnamed
    <3>6. x \in T1 \ T0 /\ T1 = T0 \cup {x}
      BY <3>3, <3>4, <3>5
    <3>7. D1 \ {i} = D0
      <4>1. i \notin D0
        <5>1. DiskAgrees(disk)
          BY NamesAgree, <1>5
        <5> QED
          BY <2>1, <3>4, <5>1, DirectoriesInUse DEF DiskAgrees
      <4> QED
        BY <3>4, <4>1
    <3>8. F!Make(T0, x)
      BY <1>1, <3>3, <3>4, <3>5, <3>7 DEF F!Make
    <3> QED
      BY <1>1, <3>6, <3>8 DEF F!Next, F!Change
  <2>5. CASE \E t : Leaves(disk, e, t)
    <3>1. PICK t : Leaves(disk, e, t)
      BY <2>5
    <3>2. /\ t \in T0 \ T1 /\ T1 = T0 \ {t}
          /\ \A u \in T0 : u[1] # t[3]
          /\ D1 = D0 \ {t[3]}
      BY <2>1, <2>2, <3>1 DEF Leaves, Loses
    <3>3. F!Remove(T0, t)
      BY <1>1, <3>2 DEF F!Remove
    <3> QED
      BY <1>1, <3>2, <3>3 DEF F!Next, F!Change
  <2>6. CASE \E t, T : /\ Relocates(disk, e, t, T) /\ ~Leaves(disk, e, t)
                       /\ Directories(e) = Directories(disk)
    <3>1. PICK t, T : /\ Relocates(disk, e, t, T) /\ ~Leaves(disk, e, t)
                      /\ Directories(e) = Directories(disk)
      BY <2>6
    <3>2. PICK x : x = <<T, t[2], t[3]>>
      OBVIOUS
    <3>3. x[1] = T /\ x[2] = t[2] /\ x[3] = t[3]
      BY <3>2
    <3>4. /\ t \in T0 /\ t[3] \notin D0 /\ T \in D0 /\ D1 = D0
          /\ \A u : u \in T1 <=> (u \in T0 /\ u # t) \/ u = x
      BY <2>1, <2>2, <3>1, <3>2 DEF Relocates
    <3>5. CASE x = t
      <4>1. T1 = T0
        BY <3>4, <3>5
      <4> QED
        BY <1>1, <3>4, <4>1
    <3>6. CASE x # t
      <4>1. x \notin T0
        <5> SUFFICES ASSUME x \in T0 PROVE FALSE
          OBVIOUS
        <5>1. EntryOf(disk, x) /\ EntryOf(disk, t)
          BY <2>1, <3>4
        <5>2. PICK k \in Nat, s \in Slot :
                /\ Child(disk, t[1], k, s) /\ t[3] = Ent(disk, t[1], k, s).inode
                /\ t = <<t[1], t[2], t[3]>> /\ t[1] \in Directories(disk)
          BY <2>1, <5>1, EntryFacts
        <5>3. PICK l \in Nat, r \in Slot :
                Child(disk, T, l, r) /\ t[3] = Ent(disk, T, l, r).inode
          BY <2>1, <3>3, <5>1, EntryFacts
        <5>4. T = t[1]
          BY <2>1, <3>4, <5>2, <5>3 DEF DirectoriesAgree, EnteredOnce
        <5> QED
          BY <3>2, <3>6, <5>2, <5>4
      <4>2. x \in T1 \ T0 /\ t \in T0 \ T1 /\ T1 = (T0 \ {t}) \cup {x}
        BY <3>4, <3>6, <4>1
      <4>3. F!MoveFile(t, x)
        BY <1>1, <3>3, <3>4 DEF F!MoveFile
      <4> QED
        BY <1>1, <4>2, <4>3 DEF F!Next, F!Change
    <3> QED
      BY <3>5, <3>6
  <2> QED
    BY <1>5, <2>3, <2>4, <2>5, <2>6 DEF Changes, TreeChanges
<1> QED
  BY <1>2, <1>3, <1>4, <1>5, BeforeAndAfter

\* The commands act on directories as on a set of entries: each of them makes,
\* removes or moves one entry of the tree, with the guards of FileTree, or
\* leaves the tree alone, whatever is searched, taken and shifted on the disk.
THEOREM ShellImplementsTree == Disciplined => (Spec => ImplementsFileTree)
<1> SUFFICES ASSUME Disciplined PROVE Spec => ImplementsFileTree
  OBVIOUS
<1>1. Init => F!Init
  BY NoTree DEF Init, Formatted, F!Init
<1>2. ShellInv /\ [Next]_vars => [F!Next]_<<Tree, Dirs>>
  BY TreeSteps
<1> QED
  BY <1>1, <1>2, ShellKeepsOrder, PTL DEF Spec, ImplementsFileTree, F!Spec

LEMMA NewAreEntered ==
  ASSUME ShellInv, Disciplined, [Next]_vars, Formatted
  PROVE  Used' \subseteq Used \cup Entered'
<1>1. PICK e, T1, U0, U1 : e = disk' /\ T1 = Tree' /\ U0 = Used /\ U1 = Used'
  OBVIOUS
<1>2. TreeIs /\ TreeIs' /\ TreeChanges(disk, e)
  BY <1>1, BeforeAndAfter DEF Changes
<1>3. /\ U0 = InUse(disk) /\ U1 = InUse(e)
      /\ \A t : t \in T1 <=> EntryOf(e, t)
  BY <1>1, <1>2 DEF TreeIs
<1>4. SUFFICES ASSUME NEW i \in U1, i \notin U0
               PROVE  \E t \in T1 : t[3] = i
  BY <1>1 DEF Entered
<1>5. PICK D, name, j : Enters(disk, e, D, name, j)
  BY <1>2, <1>3, <1>4 DEF TreeChanges, Relocates
<1>6. i = j /\ EntryOf(e, <<D, name, j>>)
  BY <1>3, <1>4, <1>5 DEF Enters, Gains
<1> QED
  BY <1>3, <1>6

\* No command fails half way: an inode that becomes used has an entry.
THEOREM NewInodesAreEntered == Disciplined => (Spec => NewInodesEntered)
<1> SUFFICES ASSUME Disciplined PROVE Spec => NewInodesEntered
  OBVIOUS
<1>1. ShellInv /\ [Next]_vars => (Formatted => Used' \subseteq Used \cup Entered')
  BY NewAreEntered
<1>2. ShellInv /\ [Next]_vars => [Formatted => Used' \subseteq Used \cup Entered']_vars
  BY <1>1
<1> QED
  BY <1>2, ShellKeepsOrder, PTL DEF Spec, NewInodesEntered

LEMMA LostWhenFull ==
  ASSUME ShellInv, Disciplined, [Next]_vars
  PROVE  Full \/ Entered \cap Used' \subseteq Entered'
<1>1. PICK e, T0, T1, U1 : e = disk' /\ T0 = Tree /\ T1 = Tree' /\ U1 = Used'
  OBVIOUS
<1>2. SUFFICES ASSUME ~Full, NEW t \in T0, t[3] \in U1
               PROVE  \E u \in T1 : u[3] = t[3]
  BY <1>1 DEF Entered
<1>3. Formatted
  BY <1>1, <1>2, NoTree
<1>4. TreeIs /\ TreeIs' /\ TreeChanges(disk, e)
  BY <1>1, <1>3, BeforeAndAfter DEF Changes
<1>5. /\ U1 = InUse(e) /\ \A u : u \in T0 <=> EntryOf(disk, u)
      /\ \A u : u \in T1 <=> EntryOf(e, u)
  BY <1>1, <1>4 DEF TreeIs
<1>6. EntryOf(disk, t)
  BY <1>5
<1>7. CASE SameTree(disk, e)
  BY <1>5, <1>6, <1>7 DEF SameTree
<1>8. CASE \E D, name, i : Enters(disk, e, D, name, i)
  BY <1>5, <1>6, <1>8 DEF Enters, Gains
<1>9. CASE \E u : Leaves(disk, e, u) /\ InUse(e) = InUse(disk) \ {u[3]}
  <2>1. PICK u : Leaves(disk, e, u) /\ InUse(e) = InUse(disk) \ {u[3]}
    BY <1>9
  <2>2. t # u
    BY <1>2, <1>5, <2>1
  <2> QED
    BY <1>5, <1>6, <2>1, <2>2 DEF Leaves, Loses
<1>10. CASE \E u, T : Relocates(disk, e, u, T)
  <2>1. PICK u, T : Relocates(disk, e, u, T)
    BY <1>10
  <2>2. PICK x : x = <<T, u[2], u[3]>>
    OBVIOUS
  <2>3. x[3] = u[3]
    BY <2>2
  <2>4. \A v : EntryOf(e, v) <=> (EntryOf(disk, v) /\ v # u) \/ v = x
    BY <1>2, <2>1, <2>2 DEF Relocates, NoneFree, Full
  <2> QED
    BY <1>5, <1>6, <2>3, <2>4
<1> QED
  BY <1>4, <1>7, <1>8, <1>9, <1>10 DEF TreeChanges

\* An inode that stays in use keeps an entry, but for the mv that finds no
\* block on a full disk.
THEOREM LossesNeedFullDisk == Disciplined => (Spec => LostOnlyWhenFull)
<1> SUFFICES ASSUME Disciplined PROVE Spec => LostOnlyWhenFull
  OBVIOUS
<1>1. ShellInv /\ [Next]_vars => [Full \/ Entered \cap Used' \subseteq Entered']_vars
  BY LostWhenFull
<1> QED
  BY <1>1, ShellKeepsOrder, PTL DEF Spec, LostOnlyWhenFull

-----------------------------------------------------------------------------
(* The contents of files *)

\* A file that has the blocks for its size holds what fill wrote.
FilesRight(d) ==
  \A i \in InUse(d) : i \notin Directories(d) /\ Roomy(d, i) => Holds(d, i)

FilesInv == Formatted => FilesRight(disk)

LEMMA FilesStayRight ==
  ASSUME NEW d, NEW e, FilesRight(d), FilesChange(d, e)
  PROVE  FilesRight(e)
<1> SUFFICES ASSUME NEW i \in InUse(e), i \notin Directories(e), Roomy(e, i)
             PROVE  Holds(e, i)
  BY DEF FilesRight
<1>1. CASE Stored(e, i)
  BY <1>1 DEF Stored
<1>2. CASE i \in InUse(d) /\ i \notin Directories(d) /\ Same(d, e, i)
  <2>1. e.inode[i] = d.inode[i]
    BY <1>2 DEF Same
  <2>2. Holds(d, i)
    BY <1>2, <2>1 DEF FilesRight, Roomy
  <2>3. \A k \in 1 .. Len(d.inode[i].block), s \in Slot : Ent(e, i, k, s) = Ent(d, i, k, s)
    BY <1>2, <2>1 DEF Same, Ent, Blk
  <2> QED
    BY <2>1, <2>2, <2>3 DEF Holds
<1> QED
  BY <1>1, <1>2 DEF FilesChange

\* The only inode in use after format is the root directory.
LEMMA FreshUse ==
  ASSUME NEW e, Fresh(e)
  PROVE  \A i \in InUse(e) : i \in Directories(e)
<1>1. ROOT \in Directories(e) /\ e.inode_bitmap = 1 .. ReservedInodes
  BY FreshTree DEF Fresh
<1> QED
  BY <1>1 DEF InUse

LEMMA FilesNext ==
  ASSUME ShellInv, FilesInv, Disciplined, [Next]_vars
  PROVE  FilesInv'
<1>1. PICK e : e = disk'
  OBVIOUS
<1> SUFFICES ASSUME Formatted' PROVE FilesRight(e)
  BY <1>1 DEF FilesInv
<1>2. CASE Fresh(e)
  BY <1>2, FreshUse DEF FilesRight
<1>3. CASE Formatted /\ Changes(disk, e)
  BY <1>3, FilesStayRight DEF FilesInv, Changes
<1> QED
  BY <1>1, <1>2, <1>3, BeforeAndAfter

LEMMA FilesRead ==
  ASSUME ShellInv, FilesInv
  PROVE  FilesReadBack
<1> SUFFICES ASSUME NEW i \in Used, i \notin Dirs,
                    disk.inode[i].size <= Len(disk.inode[i].block) * EntriesPerBlock
             PROVE  fs_cat(i) = Filler(disk.inode[i].size)
  <2>1. \A i \in Used : Len(disk.inode[i].block) * EntriesPerBlock >= disk.inode[i].size =>
                          disk.inode[i].size <= Len(disk.inode[i].block) * EntriesPerBlock
    OBVIOUS
  <2> QED
    BY <2>1 DEF FilesReadBack, Filler
<1>1. Formatted
  BY NoTree
<1>2. DiskAgrees(disk) /\ Dirs = Directories(disk) /\ Used = InUse(disk)
  BY <1>1, NamesAgree
<1>3. disk \in Disk /\ InodesAgree(disk)
  BY <1>2 DEF DiskAgrees
<1>4. i \in Inode /\ Len(disk.inode[i].block) >= 1
  BY <1>2, <1>3 DEF InodesAgree, InUse
<1>5. Roomy(disk, i) /\ Holds(disk, i)
  BY <1>1, <1>2 DEF FilesInv, FilesRight, Roomy
<1> QED
  BY <1>3, <1>4, <1>5, ReadFiller DEF fs_cat

\* cat prints each file as fill wrote it, if the disk had the blocks for it:
\* no other command has written to, moved or given away a block of it since.
THEOREM FilesAlwaysReadBack == Disciplined => (Spec => []FilesReadBack)
<1> SUFFICES ASSUME Disciplined PROVE Spec => []FilesReadBack
  OBVIOUS
<1>1. Init => FilesInv
  BY DEF Init, Formatted, FilesInv
<1>2. ShellInv /\ FilesInv /\ [Next]_vars => FilesInv'
  BY FilesNext
<1>3. ShellInv /\ FilesInv => FilesReadBack
  BY FilesRead
<1> QED
  BY <1>1, <1>2, <1>3, ShellKeepsOrder, PTL DEF Spec

\* The last of n blocks of E slots holds the rest of z.
LastFilled(z, n, E) == z - (n - 1) * E \in 1 .. E

LEMMA FilledFits ==
  ASSUME NEW z \in Nat, NEW n \in Nat, NEW E \in Nat, LastFilled(z, n, E)
  PROVE  z <= n * E
<1>1. PICK a \in Int : a = (n - 1) * E
  OBVIOUS
<1>2. n * E = a + E
  BY <1>1
<1>3. z - a <= E
  BY <1>1 DEF LastFilled
<1> QED
  BY <1>1, <1>2, <1>3

\* An inode that becomes used has the blocks for its size, or there are none.
LEMMA ShortWhenFull ==
  ASSUME ShellInv, Disciplined, [Next]_vars, NEW i \in Used' \ Used,
         Len(disk'.inode[i].block) * EntriesPerBlock < disk'.inode[i].size
  PROVE  Full'
<1>1. PICK e : e = disk'
  OBVIOUS
<1>2. Formatted'
  <2>1. ~Formatted' => Bare'
    BY BareFirst, PTL
  <2> QED
    BY <2>1 DEF Bare
<1>3. ShellInv' /\ TreeIs'
  BY <1>2, BeforeAndAfter
<1>4. i \in InUse(e) /\ DirectoriesAgree(e) /\ e \in Disk
  BY <1>1, <1>3 DEF TreeIs, ShellInv, TypeOK
<1>5. i \in Inode /\ ~Roomy(e, i)
  <2>1. i \in Inode
    BY <1>4 DEF InUse
  <2>2. PICK n \in Nat, z \in Nat, E \in Nat :
          n = Len(e.inode[i].block) /\ z = e.inode[i].size /\ E = EntriesPerBlock
    <3>1. Len(e.inode[i].block) \in Nat /\ e.inode[i].size \in Nat /\ EntriesPerBlock \in Nat
      BY <1>4, <2>1, DiskFacts, Constants
    <3> QED
      BY <3>1
  <2>3. n * E < z
    BY <1>1, <2>2
  <2>4. ~(z <= n * E)
    BY <2>3
  <2> QED
    BY <2>1, <2>2, <2>4 DEF Roomy
<1>6. i \notin Directories(e)
  <2> SUFFICES ASSUME i \in Directories(e) PROVE FALSE
    OBVIOUS
  <2>1. Shape(e, i)
    BY <1>4 DEF DirectoriesAgree
  <2>2. PICK n \in Nat, z \in Nat, E \in Nat :
          n = Len(e.inode[i].block) /\ z = e.inode[i].size /\ E = EntriesPerBlock
    <3>1. Len(e.inode[i].block) \in Nat /\ e.inode[i].size \in Nat /\ EntriesPerBlock \in Nat
      BY <1>4, <1>5, DiskFacts, Constants
    <3> QED
      BY <3>1
  <2>3. LastFilled(z, n, E)
    BY <2>1, <2>2, Zenon DEF Shape, Level, LastFilled
  <2>4. z <= n * E
    BY <2>3, FilledFits
  <2> QED
    BY <1>5, <2>2, <2>4 DEF Roomy
<1>7. FilesChange(disk, e) /\ Formatted
  <2>1. CASE Fresh(e)
    BY <1>4, <1>6, <2>1, FreshUse
  <2>2. CASE Formatted /\ Changes(disk, e)
    BY <2>2 DEF Changes
  <2> QED
    BY <1>1, <1>2, <2>1, <2>2, BeforeAndAfter
<1>8. i \notin InUse(disk)
  BY <1>7, NamesAgree
<1>9. NoneFree(e)
  BY <1>4, <1>5, <1>6, <1>7, <1>8 DEF FilesChange, Stored
<1> QED
  BY <1>1, <1>9 DEF NoneFree, Full, FreeBlocks

\* A command that ran out of blocks has taken the last one of every group.
THEOREM ShortFilesNeedFullDisk == Disciplined => (Spec => ShortOnlyWhenFull)
<1> SUFFICES ASSUME Disciplined PROVE Spec => ShortOnlyWhenFull
  OBVIOUS
<1>1. ShellInv /\ [Next]_vars =>
        [\A i \in Used' \ Used :
           LET ip == disk'.inode[i]
           IN  Len(ip.block) * EntriesPerBlock < ip.size => Full']_vars
  BY ShortWhenFull
<1> QED
  BY <1>1, ShellKeepsOrder, PTL DEF Spec, ShortOnlyWhenFull

-----------------------------------------------------------------------------
(* The inode table *)

\* A group's data blocks are used up before its inode table: each inode takes
\* one, and three are left when the last one is taken.  (The code's numbers
\* are 10 + 30 - 9 and 32 + 3.)
TableSuffices == ReservedInodes + block_per_group - FirstDataBlock <= InodeTableSlots + 3

TableInv == \A i \in disk.inode_bitmap : i \in 1 .. InodeTableSlots

LEMMA TableNext ==
  ASSUME ShellInv, TableInv, Disciplined, TableSuffices, [Next]_vars
  PROVE  TableInv'
<1>1. PICK e : e = disk'
  OBVIOUS
<1>2. e \in Disk
  BY <1>1, ShellSteps DEF ShellInv, TypeOK
<1> SUFFICES ASSUME NEW i \in e.inode_bitmap PROVE i \in 1 .. InodeTableSlots
  BY <1>1 DEF TableInv
<1>3. CASE Fresh(e)
  <2>1. e.inode_bitmap = 1 .. ReservedInodes
    BY <1>3 DEF Fresh
  <2>2. ReservedInodes \in Nat /\ InodeTableSlots \in Nat /\ ReservedInodes <= InodeTableSlots
    BY Constants
  <2> QED
    BY <2>1, <2>2
<1>4. CASE InodesChange(disk, e)
  <2>1. CASE i \in disk.inode_bitmap
    BY <2>1 DEF TableInv
  <2>2. CASE Early(i)
    <3>1. i \in Inode
      BY <1>2, DiskFacts
    <3>2. i \in Nat /\ i >= 1
      BY <3>1, Constants, Multiply DEF Inode
    <3> QED
      BY <2>2, <3>2, Constants DEF Early, TableSuffices
  <2> QED
    BY <1>4, <2>1, <2>2 DEF InodesChange
<1> QED
  BY <1>1, <1>3, <1>4, ShellSteps DEF Changes

LEMMA TableHolds == TableInv => InodesInTable
<1> SUFFICES ASSUME TableInv, NEW i \in disk.inode_bitmap
             PROVE  (i - 1) % inode_per_group < InodeTableSlots
  BY DEF InodesInTable
<1>1. PICK n \in Nat, m \in Nat \ {0} : n = i - 1 /\ m = inode_per_group
  BY Constants DEF TableInv
<1>2. n \in 0 .. m - 1 /\ n < InodeTableSlots
  BY <1>1, Constants DEF TableInv
<1>3. n = 0 * m + n
  OBVIOUS
<1>4. n % m = n
  BY <1>2, <1>3, DivUnique
<1> QED
  BY <1>1, <1>2, <1>4

\* alloc_free_inode never takes an inode that its group's table has no room
\* for, although the bitmap offers it: if the data blocks of a group are few
\* enough, it refuses for lack of blocks first.
THEOREM InodesStayInTable == Disciplined /\ TableSuffices => (Spec => []InodesInTable)
<1> SUFFICES ASSUME Disciplined, TableSuffices PROVE Spec => []InodesInTable
  OBVIOUS
<1>1. Init => TableInv
  BY DEF Init, BlankDisk, TableInv
<1>2. ShellInv /\ TableInv /\ [Next]_vars => TableInv'
  BY TableNext
<1>3. TableInv => InodesInTable
  BY TableHolds
<1> QED
  BY <1>1, <1>2, <1>3, ShellKeepsOrder, PTL DEF Spec
=============================================================================
