----------------------------- MODULE Ext2Shell -----------------------------
(***************************************************************************)
(* The commands of the shell (shell.c) and the functions of ext2_shell.c   *)
(* that they call, over the disk of Ext2.tla.  The shell is one task and   *)
(* nothing else touches the disk: a command is a step.  cat and ls change  *)
(* nothing and are operators; df and pwd, which only print counters and    *)
(* names, and chmod, which changes permission bits, are left out.          *)
(***************************************************************************)
EXTENDS Ext2, EntryList

CONSTANTS
  FillSizes,     \* bound: the lengths given to fill, up to 12 blocks
  MaxFormats,    \* bound: how often the disk is formatted
  MaxMounts,     \* bound: how often it is mounted
  MaxDepth,      \* bound: entries of cd's path stack
  MoveDirs,      \* bound: is mv given directories?
  Spill,         \* bound: may a new inode come from a group after the first?
  StaleDir       \* bound: are commands given in a directory that cd's path
                 \* stack kept from before the mount?

ASSUME Ext2ShellAssumption ==
  /\ FillSizes \subseteq 0 .. 12 * EntriesPerBlock
  /\ MaxFormats \in Nat /\ MaxMounts \in Nat /\ MaxDepth \in Nat
  /\ MoveDirs \in BOOLEAN /\ Spill \in BOOLEAN /\ StaleDir \in BOOLEAN

VARIABLES
  disk,          \* disksim.c: the sectors
  formats,       \* ext2_format: calls so far, which its static counter knows
  mounts,        \* fs_mount: EXT2_FILESYSTEM pages given out; the last is fs
  cached,        \* free_inodes_count in the gd of each of them
  g_isMounted, g_rootDir, g_currentDir,
  path           \* shell_cmd_cd: path[1 .. top]

vars == <<disk, formats, mounts, cached, g_isMounted, g_rootDir, g_currentDir,
          path>>

\* A SHELL_ENTRY, by the inode and the file system page of its EXT2_NODE.
Node   == [inode : Inode \cup {0}, fs : 0 .. MaxMounts]
NoNode == [inode |-> 0, fs |-> 0]

BlankDisk ==
  [gd |-> [g \in Group |-> ZeroGd], block_bitmap |-> {}, inode_bitmap |-> {},
   inode |-> [i \in Inode |-> Unwritten], data |-> [b \in Block |-> Zeroed]]

TypeOK ==
  /\ disk \in Disk
  /\ formats \in 0 .. MaxFormats
  /\ mounts \in 0 .. MaxMounts
  /\ cached \in [1 .. MaxMounts -> Nat]
  /\ g_isMounted \in BOOLEAN
  /\ g_rootDir \in Node /\ g_currentDir \in Node
  /\ path \in Seq(Node) /\ Len(path) <= MaxDepth

Init ==
  /\ disk = BlankDisk
  /\ formats = 0 /\ mounts = 0
  /\ cached = [m \in 1 .. MaxMounts |-> 0]
  /\ g_isMounted = FALSE
  /\ g_rootDir = NoNode /\ g_currentDir = NoNode
  /\ path = << >>

-----------------------------------------------------------------------------
(* format, mount, umount: neither of them resets the path stack *)

Format ==
  /\ ~g_isMounted
  /\ formats < MaxFormats
  /\ formats' = formats + 1
  /\ disk' = ext2_format(disk, formats > 0)
  /\ UNCHANGED <<mounts, cached, g_isMounted, g_rootDir, g_currentDir, path>>

\* A new file system page, with a copy of the descriptor of group 0.
fs_mount ==
  /\ mounts' = mounts + 1
  /\ cached' = [cached EXCEPT ![mounts'] = disk.gd[0].free_inodes]

\* The node of the root directory is the first entry in its block.
fill_node_struct(fs) ==
  [inode |-> disk.data[disk.inode[ROOT].block[1]][0].inode, fs |-> fs]

\* Before the first format the magic number is missing and mount fails.  The
\* page it took stays taken, and g_currentDir is set (shell.c:284): nothing
\* reads it before a mount that succeeds sets it again.
Mount ==
  /\ ~g_isMounted
  /\ formats > 0
  /\ mounts < MaxMounts
  /\ fs_mount
  /\ g_rootDir' = fill_node_struct(mounts')
  /\ g_currentDir' = g_rootDir'
  /\ g_isMounted' = TRUE
  /\ UNCHANGED <<disk, formats, path>>

Umount ==
  /\ g_isMounted
  /\ g_isMounted' = FALSE
  /\ UNCHANGED <<disk, formats, mounts, cached, g_rootDir, g_currentDir, path>>

-----------------------------------------------------------------------------
(* cd *)

Unmoved == UNCHANGED <<formats, mounts, g_isMounted, g_rootDir, g_currentDir,
                       path>>

\* path[0] is the root directory.
GoTo(stack) ==
  /\ path' = stack
  /\ g_currentDir' = IF stack = << >> THEN g_rootDir ELSE Last(stack)
  /\ UNCHANGED <<disk, formats, mounts, cached, g_isMounted, g_rootDir>>

CdRoot == g_isMounted /\ GoTo(<< >>)

CdUp == g_isMounted /\ path # << >> /\ GoTo(Front(path))

Found(name) == ext2_lookup(disk, g_currentDir.inode, name)

InodeOf(name) == At(disk, Found(name)).inode

\* Commands are given in a directory of the mounted volume.
Here == g_isMounted /\ (g_currentDir.fs = mounts \/ StaleDir)

IsDir(name) == Found(name) # << >> /\ disk.inode[InodeOf(name)].dir

IsFile(name) == Found(name) # << >> /\ ~disk.inode[InodeOf(name)].dir

CdInto(name) ==
  /\ Here
  /\ name = ".." => path = << >>
  /\ Len(path) < MaxDepth
  /\ IsDir(name)
  /\ GoTo(Append(path, [inode |-> InodeOf(name), fs |-> g_currentDir.fs]))

-----------------------------------------------------------------------------
(* touch, fill, mkdir *)

InFirstGroup ==
  Spill \/ 0 \in GroupsWithRoom(disk) \/ GroupsWithRoom(disk) = {}

\* The descriptor that a call updated is copied to the parent's fs->gd.
Cache(result) ==
  cached' = IF result.inode = 0 THEN cached
            ELSE [cached EXCEPT ![g_currentDir.fs] =
                    result.disk.gd[result.group].free_inodes]

CanCreate(name) ==
  /\ Here /\ InFirstGroup
  /\ cached[g_currentDir.fs] # 0
  /\ Found(name) = << >>

Touch(name) ==
  LET created == ext2_create(disk, g_currentDir.inode, name)
  IN  /\ CanCreate(name)
      /\ disk' = created.disk
      /\ Cache(created)
      /\ Unmoved

\* fill creates a file and writes it.
Fill(name, length) ==
  LET created == ext2_create(disk, g_currentDir.inode, name)
  IN  /\ CanCreate(name)
      /\ disk' = IF created.inode = 0 THEN created.disk
                 ELSE ext2_write(created.disk, created.inode, length).disk
      /\ Cache(created)
      /\ Unmoved

is_exist(name) ==
  \E step \in Walk(disk, g_currentDir.inode) :
    EntryAt(disk, g_currentDir.inode, step).name = name

Mkdir(name) ==
  LET created == ext2_mkdir(disk, g_currentDir.inode, name)
  IN  /\ Here /\ InFirstGroup
      /\ ~is_exist(name)
      /\ disk' = created.disk
      /\ Cache(created)
      /\ Unmoved

-----------------------------------------------------------------------------
(* rm, rmdir, mv *)

\* release_dir_entry and release_inode, which copies the last descriptor it
\* updates to fs->gd.
Delete(name) ==
  LET i      == InodeOf(name)
      groups == {BlockGroup(b) : b \in Range(disk.inode[i].block)}
  IN  /\ disk' = release_inode(
                   release_dir_entry(disk, g_currentDir.inode, Found(name)), i)
      /\ cached' = [cached EXCEPT ![mounts] = disk'.gd[Max(groups)].free_inodes]

Rm(name) == Here /\ IsFile(name) /\ Delete(name) /\ Unmoved

\* Mutated form: the names "." and ".." are not refused.
Rmdir_Dots(name) ==
  /\ Here
  /\ IsDir(name)
  /\ disk.inode[InodeOf(name)].size <= 2
  /\ Delete(name)
  /\ Unmoved

Rmdir(name) ==
  /\ Here
  /\ name \notin {".", ".."}
  /\ IsDir(name)
  /\ disk.inode[InodeOf(name)].size <= 2
  /\ Delete(name)
  /\ Unmoved

\* The entry is taken out before it is inserted, and a failure to insert it
\* goes unnoticed.  The entry ".." of a directory stays as it was.
Mv(name, target) ==
  LET dir  == disk.inode[g_currentDir.inode]
      out  == release_dir_entry(disk, g_currentDir.inode, Found(name))
      last == BlockGroup(Last(dir.block))
  IN  /\ Here
      /\ IsFile(name) \/ (MoveDirs /\ IsDir(name))
      /\ IsDir(target)
      /\ disk' = insert_entry(out, InodeOf(target), At(disk, Found(name))).disk
      /\ cached' = IF out.block_bitmap = disk.block_bitmap THEN cached
                   ELSE [cached EXCEPT ![mounts] = out.gd[last].free_inodes]
      /\ Unmoved

-----------------------------------------------------------------------------
(* cat, ls *)

\* What cat prints of a file.
fs_cat(i) == ext2_read(disk, i, 0, disk.inode[i].size)

\* The order of strcmp: '.' stands before the letters.
Alphabet == <<".", "..">> \o SetToSeq(Name)

Rank(name) == CHOOSE k \in DOMAIN Alphabet : Alphabet[k] = name

ext2_add_shell_list(list, e) ==
  add_entry_list(list, [name |-> e.name, size |-> disk.inode[e.inode].size])

\* The items of a directory, in the order of its blocks.
fs_read_dir(dir) ==
  LET InBlock(b) == [s \in 1 .. Cardinality(Visited(disk, b)) |->
                       disk.data[b][s - 1]]
      blocks     == disk.inode[dir].block
  IN  FoldLeft(ext2_add_shell_list, init_entry_list,
               FlattenSeq([k \in DOMAIN blocks |-> InBlock(blocks[k])]))

\* The orders of ls: by default, with -r and with -S.
Order == {"alpha", "reverse", "size"}

Exceeds(order, e, f) ==
  CASE order = "alpha"   -> Rank(e.name) > Rank(f.name)
    [] order = "reverse" -> Rank(e.name) < Rank(f.name)
    [] order = "size"    -> e.size > f.size

fs_ls(dir, all, order) ==
  LET list  == fs_read_dir(dir)
      Items == ToSet(list.entry)
      above == {pair \in Items \X Items : Exceeds(order, pair[1], pair[2])}
  IN  Sorted(IF all THEN list ELSE DropDots(list), above)

-----------------------------------------------------------------------------
Next ==
  \/ Format \/ Mount \/ Umount
  \/ CdRoot \/ CdUp \/ \E n \in Name \cup {".."} : CdInto(n)
  \/ \E n \in Name : \/ Touch(n) \/ Mkdir(n) \/ Rm(n)
                     \/ \E length \in FillSizes : Fill(n, length)
                     \/ \E t \in Name \cup {".", ".."} : Mv(n, t)
  \/ \E n \in Name \cup {".", ".."} : Rmdir(n)

Spec == Init /\ [][Next]_vars
=============================================================================
