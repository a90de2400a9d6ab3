------------------------------- MODULE Ext2MC -------------------------------
(***************************************************************************)
(* Ext2Props for TLC.  What free blocks and free inodes hold is not looked *)
(* at before it is overwritten: View leaves it out of the states TLC tells *)
(* apart.                                                                  *)
(***************************************************************************)
EXTENDS Ext2Props

View ==
  <<[gd |-> disk.gd, block_bitmap |-> disk.block_bitmap,
     inode_bitmap |-> disk.inode_bitmap,
     inode |-> [i \in Inode |-> IF i \in disk.inode_bitmap THEN disk.inode[i]
                                ELSE Unwritten],
     data |-> [b \in Block |-> IF b \in disk.block_bitmap THEN disk.data[b]
                               ELSE Zeroed]],
    formats, mounts, cached, g_isMounted, g_rootDir, g_currentDir, path>>
=============================================================================
