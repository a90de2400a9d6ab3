------------------------------ MODULE FileTree ------------------------------
(***************************************************************************)
(* What the commands of the shell do to the tree of files: a set of        *)
(* entries <<directory, name, inode>> and the set of directories.  Inodes  *)
(* in use are entered once.                                                *)
(***************************************************************************)
EXTENDS FiniteSets

CONSTANT ROOT

VARIABLES tree, dirs

Init == tree = {} /\ dirs = {}

Format == tree' = {} /\ dirs' = {ROOT}

\* A new file or directory: no entry of that name is there, and the inode is
\* not that of another one.
Make(old, e) ==
  /\ e[1] \in dirs
  /\ e[3] # ROOT
  /\ \A f \in old : f[3] # e[3] /\ (f[1] # e[1] \/ f[2] # e[2])
  /\ dirs' \ {e[3]} = dirs

\* A file, or a directory without entries.  (A file that is lost is taken away
\* like one that is removed.)
Remove(old, e) ==
  /\ \A f \in old : f[1] # e[3]
  /\ dirs' = dirs \ {e[3]}

MoveFile(e, f) ==
  /\ f[1] \in dirs
  /\ f[2] = e[2] /\ f[3] = e[3] /\ e[3] \notin dirs
  /\ UNCHANGED dirs

\* A step, by the entries that it takes away and adds.
Change(old, new) ==
  \/ Format
  \/ \E e \in new \ old : new = old \cup {e} /\ Make(old, e)
  \/ \E e \in old \ new : new = old \ {e} /\ Remove(old, e)
  \/ \E e \in old \ new, f \in new \ old :
        new = (old \ {e}) \cup {f} /\ MoveFile(e, f)

Next == \E old \in {tree}, new \in {tree'} : Change(old, new)

Spec == Init /\ [][Next]_<<tree, dirs>>
=============================================================================
