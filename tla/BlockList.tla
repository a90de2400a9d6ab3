----------------------------- MODULE BlockList -----------------------------
(***************************************************************************)
(* What a file's block pointers stand for: the list of its data blocks,    *)
(* which a write extends by blocks the file does not have yet, and which   *)
(* rm empties.  Ext2.tla keeps an inode's blocks as such a list.           *)
(***************************************************************************)
EXTENDS Sequences, SequencesExt

CONSTANT Block

VARIABLE list

Init == list = << >>

Extend == \E b \in Block \ ToSet(list) : list' = Append(list, b)

Clear == list' = << >>

Next == Extend \/ Clear

Spec == Init /\ [][Next]_list
=============================================================================
