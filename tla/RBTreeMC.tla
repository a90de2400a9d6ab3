------------------------------ MODULE RBTreeMC ------------------------------
(* RBTree with one state per shape: nodes are named by their place in order. *)
EXTENDS RBTree

Place(n) == IF n = NIL THEN 0
            ELSE CHOOSE i \in 1 .. Cardinality(Node) :
                   InOrder(tree)[i] = n

Shape ==
  LET s == InOrder(tree)
  IN  <<[i \in DOMAIN s |-> <<tree.color[s[i]], Place(tree.par[s[i]])>>],
        Place(tree.root), Place(leftmost), phase, Place(node), Place(parent)>>
=============================================================================
