------------------------------ MODULE Timeline ------------------------------
(***************************************************************************)
(* What fair.c needs of its red-black tree, and what CFS.tla takes it for: *)
(* a sequence of the queued entities, where one is put between any two     *)
(* neighbours, any one is taken out, and the first is known at once.       *)
(***************************************************************************)
EXTENDS Integers, Sequences, SequencesExt

CONSTANTS Node, NIL

VARIABLES timeline, first

Init == timeline = << >> /\ first = NIL

Enqueue(n, g) ==
  /\ ~Contains(timeline, n)
  /\ timeline' = InsertAt(timeline, g + 1, n)

Dequeue(i) == timeline' = RemoveAt(timeline, i)

Next ==
  /\ \/ \E n \in Node, g \in 0 .. Len(timeline) : Enqueue(n, g)
     \/ \E i \in 1 .. Len(timeline) : Dequeue(i)
  /\ first' = IF timeline' = << >> THEN NIL ELSE Head(timeline')

Spec == Init /\ [][Next]_<<timeline, first>>
=============================================================================
