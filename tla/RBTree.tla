------------------------------- MODULE RBTree -------------------------------
(***************************************************************************)
(* The red-black tree of rbtree.c with the leftmost node cached, pointer   *)
(* by pointer.  fair.c links a node at any free place that the comparisons *)
(* lead to, and erases any node; both run with preemption disabled, so a   *)
(* step of another task never comes between.  A case of one of the two     *)
(* rebalancing loops is an action, where case 3 includes the case 4 it     *)
(* falls through to.  The code spells out every case twice, for the left   *)
(* and the right: here a side is a parameter.                              *)
(***************************************************************************)
EXTENDS Integers, Sequences, FiniteSets, SequencesExt

CONSTANTS Node, NIL   \* rb_nodes, which are named by numbers, and NULL

ASSUME RBTreeAssumption == IsFiniteSet(Node) /\ Node \subseteq Nat /\ NIL \notin Node

VARIABLES
  tree,      \* rb_root and the fields of every rb_node
  leftmost,  \* rb_root_cached.rb_leftmost
  phase,     \* "idle", or the loop that runs: "insert" or "erase"
  node,      \* the local node of that loop
  parent     \* and its parent

rbvars == <<tree, leftmost, phase, node, parent>>

Side    == {"left", "right"}
Other(s) == IF s = "left" THEN "right" ELSE "left"

Tree ==
  [root : Node \cup {NIL}, kid : [Node -> [Side -> Node \cup {NIL}]],
   par : [Node -> Node \cup {NIL}], color : [Node -> {"red", "black"}]]

\* Every pointer is a node or NULL, and where a loop goes on its code may
\* follow its local ones: an insertion's node, an erasure's parent
\* (the while(true) loops of rbtree.c test neither again).
TypeOK ==
  /\ tree \in Tree
  /\ {leftmost, node, parent} \subseteq Node \cup {NIL}
  /\ phase \in {"idle", "insert", "erase"}
  /\ phase = "idle" <=> {node, parent} = {NIL}
  /\ phase = "insert" => node # NIL
  /\ phase = "erase" => parent # NIL

-----------------------------------------------------------------------------
(* rb_node fields *)

Kid(t, n, s)  == t.kid[n][s]
IsRed(t, n)   == n # NIL /\ t.color[n] = "red"
IsBlack(t, n) == ~IsRed(t, n)

SetKid(t, n, s, k)              == [t EXCEPT !.kid[n][s] = k]
rb_set_parent(t, n, p)          == [t EXCEPT !.par[n] = p]
rb_set_parent_color(t, n, p, c) == [t EXCEPT !.par[n] = p, !.color[n] = c]

\* rb_set_parent_color(n, p, RB_BLACK) if there is a node n.
Blacken(t, n, p) == IF n = NIL THEN t ELSE rb_set_parent_color(t, n, p, "black")

__rb_change_child(t, old, new, p) ==
  IF p = NIL THEN [t EXCEPT !.root = new]
  ELSE IF Kid(t, p, "left") = old THEN SetKid(t, p, "left", new)
  ELSE SetKid(t, p, "right", new)

__rb_rotate_set_parents(t, old, new, color) ==
  LET p     == t.par[old]
      moved == rb_set_parent_color(t, new, p, t.color[old])
  IN  __rb_change_child(rb_set_parent_color(moved, old, new, color), old, new, p)

\* The nodes of the upper levels, for each number of levels.
Upper(t) ==
  LET down[d \in 0 .. Cardinality(Node)] ==
        IF d = 0 THEN {}
        ELSE ({t.root} \cup {Kid(t, n, s) : n \in down[d - 1], s \in Side}) \ {NIL}
  IN  down

\* The nodes that the pointers lead to from the root.
NodesOf(t) == Upper(t)[Cardinality(Node)]

InTree == NodesOf(tree)

Farthest(t, n, s) ==
  LET end[m \in NodesOf(t)] ==
        IF Kid(t, m, s) = NIL THEN m ELSE end[Kid(t, m, s)]
  IN  end[n]

Climb(t, n) ==
  LET up[m \in NodesOf(t)] ==
        LET p == t.par[m]
        IN  IF p # NIL /\ m = Kid(t, p, "right") THEN up[p] ELSE p
  IN  up[n]

rb_next(t, n) ==
  IF Kid(t, n, "right") # NIL THEN Farthest(t, Kid(t, n, "right"), "left")
                              ELSE Climb(t, n)

InOrder(t) ==
  LET order[n \in NodesOf(t)] ==
        LET below(s) == IF Kid(t, n, s) = NIL THEN << >> ELSE order[Kid(t, n, s)]
        IN  below("left") \o <<n>> \o below("right")
  IN  IF t.root = NIL THEN << >> ELSE order[t.root]

-----------------------------------------------------------------------------
(* Insertion *)

Init ==
  /\ tree = [root  |-> NIL, kid |-> [n \in Node |-> [s \in Side |-> NIL]],
             par   |-> [n \in Node |-> NIL],
             color |-> [n \in Node |-> "red"]]
  /\ leftmost = NIL /\ phase = "idle" /\ node = NIL /\ parent = NIL

\* The descent of __enqueue_entity never went right.
LeftmostLink(p, s) ==
  p = NIL \/ (s = "left" /\ p = Farthest(tree, tree.root, "left"))

\* Mutated form: the tree is linked without the cache being told.
Link_Uncached(n, p, s) ==
  LET blank == [tree EXCEPT !.kid[n] = [x \in Side |-> NIL],
                            !.par[n] = p, !.color[n] = "red"]
  IN  /\ phase = "idle"
      /\ IF p = NIL THEN tree.root = NIL ELSE p \in InTree /\ Kid(tree, p, s) = NIL
      /\ tree' = IF p = NIL THEN [blank EXCEPT !.root = n] ELSE SetKid(blank, p, s, n)
      /\ leftmost' = IF leftmost = NIL THEN n ELSE leftmost
      /\ phase' = "insert" /\ node' = n /\ parent' = p

\* rb_link_node and the cached leftmost: n becomes the s kid of p, or root.
Link(n, p, s) ==
  LET blank == [tree EXCEPT !.kid[n] = [x \in Side |-> NIL],
                            !.par[n] = p, !.color[n] = "red"]
  IN  /\ phase = "idle"
      /\ IF p = NIL THEN tree.root = NIL ELSE p \in InTree /\ Kid(tree, p, s) = NIL
      /\ tree' = IF p = NIL THEN [blank EXCEPT !.root = n] ELSE SetKid(blank, p, s, n)
      /\ leftmost' = IF LeftmostLink(p, s) THEN n ELSE leftmost
      /\ phase' = "insert" /\ node' = n /\ parent' = p

Stop == phase' = "idle" /\ node' = NIL /\ parent' = NIL

InsertRoot ==
  /\ phase = "insert" /\ parent = NIL
  /\ tree' = rb_set_parent_color(tree, node, NIL, "black")
  /\ Stop /\ UNCHANGED leftmost

InsertBelowBlack ==
  /\ phase = "insert" /\ parent # NIL /\ IsBlack(tree, parent)
  /\ Stop /\ UNCHANGED <<tree, leftmost>>

\* The parent is red: it has a parent, and stands on side s of it.
RedParent(s) ==
  phase = "insert" /\ IsRed(tree, parent) /\ Kid(tree, tree.par[parent], s) = parent

\* Case 1: the uncle is red.
InsertRecolor(s) ==
  LET gparent == tree.par[parent]
      uncle   == Kid(tree, gparent, Other(s))
      black   == Blacken(Blacken(tree, uncle, gparent), parent, gparent)
  IN  /\ RedParent(s) /\ IsRed(tree, uncle)
      /\ node' = gparent /\ parent' = tree.par[gparent]
      /\ tree' = rb_set_parent_color(black, gparent, parent', "red")
      /\ UNCHANGED <<leftmost, phase>>

\* Case 2: the inner grandchild is rotated out.
RotateOut(t, n, p, s) ==
  LET tmp   == Kid(t, n, s)
      moved == SetKid(SetKid(t, p, Other(s), tmp), n, s, p)
  IN  rb_set_parent_color(Blacken(moved, tmp, p), p, n, "red")

\* Mutated form: the kid that changes sides keeps its old parent.
RotateUp_OldParent(t, p, g, s) ==
  LET moved == SetKid(SetKid(t, g, s, Kid(t, p, Other(s))), p, Other(s), g)
  IN  __rb_rotate_set_parents(moved, g, p, "red")

\* Case 3: p takes the place of its parent g.
RotateUp(t, p, g, s) ==
  LET tmp   == Kid(t, p, Other(s))
      moved == SetKid(SetKid(t, g, s, tmp), p, Other(s), g)
  IN  __rb_rotate_set_parents(Blacken(moved, tmp, g), g, p, "red")

\* The uncle is black.
InsertRotate(s) ==
  LET gparent == tree.par[parent]
      inner   == node = Kid(tree, parent, Other(s))
  IN  /\ RedParent(s) /\ IsBlack(tree, Kid(tree, gparent, Other(s)))
      /\ tree' = IF inner
                 THEN RotateUp(RotateOut(tree, node, parent, s), node, gparent, s)
                 ELSE RotateUp(tree, parent, gparent, s)
      /\ Stop /\ UNCHANGED leftmost

-----------------------------------------------------------------------------
(* Erasure *)

\* Mutated form: the place of a red leaf is rebalanced too.
Splice_RedToo(t, n) ==
  LET kid   == IF Kid(t, n, "left") = NIL THEN Kid(t, n, "right")
                                          ELSE Kid(t, n, "left")
      p     == t.par[n]
      moved == __rb_change_child(t, n, kid, p)
  IN  IF kid = NIL
      THEN [tree |-> moved, rebalance |-> p]
      ELSE [tree |-> rb_set_parent_color(moved, kid, p, t.color[n]),
            rebalance |-> NIL]

\* __rb_erase_augmented of a node with at most one kid: the kid, if any, takes
\* its place and its colour.  The tree and the node to rebalance at, if any.
Splice(t, n) ==
  LET kid   == IF Kid(t, n, "left") = NIL THEN Kid(t, n, "right")
                                          ELSE Kid(t, n, "left")
      p     == t.par[n]
      moved == __rb_change_child(t, n, kid, p)
  IN  IF kid = NIL
      THEN [tree |-> moved, rebalance |-> IF IsBlack(t, n) THEN p ELSE NIL]
      ELSE [tree |-> rb_set_parent_color(moved, kid, p, t.color[n]),
            rebalance |-> NIL]

\* And of a node with two: its successor s takes its place and its colour.
Replace(t, n) ==
  LET right  == Kid(t, n, "right")
      s      == Farthest(t, right, "left")
      child2 == Kid(t, s, "right")
      p      == IF s = right THEN s ELSE t.par[s]
      opened == IF s = right THEN t
                ELSE rb_set_parent(
                       SetKid(SetKid(t, p, "left", child2), s, "right", right),
                       right, s)
      left   == Kid(t, n, "left")
      joined == rb_set_parent(SetKid(opened, s, "left", left), left, s)
      placed == rb_set_parent_color(
                  __rb_change_child(joined, n, s, t.par[n]), s, t.par[n], t.color[n])
  IN  [tree |-> Blacken(placed, child2, p),
       rebalance |-> IF child2 = NIL /\ IsBlack(t, s) THEN p ELSE NIL]

\* rb_erase_cached up to the rebalancing loop.
Unlink(n) ==
  LET twoKids == \A s \in Side : Kid(tree, n, s) # NIL
      erased  == IF twoKids THEN Replace(tree, n) ELSE Splice(tree, n)
  IN  /\ phase = "idle" /\ n \in InTree
      /\ leftmost' = IF leftmost = n THEN rb_next(tree, n) ELSE leftmost
      /\ tree' = erased.tree
      /\ node' = NIL /\ parent' = erased.rebalance
      /\ phase' = IF erased.rebalance = NIL THEN "idle" ELSE "erase"

\* The double black node stands on side s of parent, where the code first
\* tests whether node is the right kid.
DoubleBlack(s) ==
  phase = "erase" /\ s = IF node # Kid(tree, parent, "right") THEN "left" ELSE "right"

Sibling(s) == Kid(tree, parent, Other(s))

\* Case 1: a red sibling is rotated up; the new one is black.
EraseRedSibling(s) ==
  LET tmp   == Kid(tree, Sibling(s), s)
      moved == SetKid(SetKid(tree, parent, Other(s), tmp), Sibling(s), s, parent)
  IN  /\ DoubleBlack(s) /\ IsRed(tree, Sibling(s))
      /\ tree' = __rb_rotate_set_parents(
                   rb_set_parent_color(moved, tmp, parent, "black"),
                   parent, Sibling(s), "red")
      /\ UNCHANGED <<leftmost, phase, node, parent>>

\* Mutated form: the loop does not stop at the root.
EraseRecolor_PastRoot(s) ==
  LET recolored == rb_set_parent_color(tree, Sibling(s), parent, "red")
  IN  /\ DoubleBlack(s) /\ IsBlack(tree, Sibling(s))
      /\ \A x \in Side : IsBlack(tree, Kid(tree, Sibling(s), x))
      /\ IF IsRed(tree, parent)
         THEN tree' = [recolored EXCEPT !.color[parent] = "black"] /\ Stop
         ELSE /\ tree' = recolored /\ UNCHANGED phase
              /\ node' = parent /\ parent' = tree.par[parent]
      /\ UNCHANGED leftmost

\* Mutated form: below a black parent the loop goes round without climbing.
EraseRecolor_Stays(s) ==
  LET recolored == rb_set_parent_color(tree, Sibling(s), parent, "red")
  IN  /\ DoubleBlack(s) /\ IsBlack(tree, Sibling(s))
      /\ \A x \in Side : IsBlack(tree, Kid(tree, Sibling(s), x))
      /\ IF IsRed(tree, parent) \/ tree.par[parent] = NIL
         THEN tree' = [recolored EXCEPT !.color[parent] = "black"] /\ Stop
         ELSE tree' = recolored /\ UNCHANGED <<phase, node, parent>>
      /\ UNCHANGED leftmost

\* Case 2: the sibling and its kids are black.
EraseRecolor(s) ==
  LET recolored == rb_set_parent_color(tree, Sibling(s), parent, "red")
  IN  /\ DoubleBlack(s) /\ IsBlack(tree, Sibling(s))
      /\ \A x \in Side : IsBlack(tree, Kid(tree, Sibling(s), x))
      /\ IF IsRed(tree, parent)
         THEN tree' = [recolored EXCEPT !.color[parent] = "black"] /\ Stop
         ELSE /\ tree' = recolored
              /\ IF tree.par[parent] = NIL THEN Stop
                 ELSE /\ node' = parent /\ parent' = tree.par[parent]
                      /\ UNCHANGED phase
      /\ UNCHANGED leftmost

\* Case 4: the black sibling sib takes the place and colour of the parent.
RotateSibling(t, sib, outer, s) ==
  LET tmp    == Kid(t, sib, s)
      moved  == SetKid(SetKid(t, parent, Other(s), tmp), sib, s, parent)
      colored == rb_set_parent_color(moved, outer, sib, "black")
      joined == IF tmp = NIL THEN colored ELSE rb_set_parent(colored, tmp, parent)
  IN  __rb_rotate_set_parents(joined, parent, sib, "black")

\* Case 3: the inner kid of the sibling, which is red, is rotated up first.
RotateInner(t, sib, inner, s) ==
  LET tmp   == Kid(t, inner, Other(s))
      moved == SetKid(SetKid(SetKid(t, sib, s, tmp), inner, Other(s), sib),
                      parent, Other(s), inner)
  IN  Blacken(moved, tmp, sib)

\* Mutated form: case 4 is applied whether or not the outer kid is red.
EraseRotate_NoInner(s) ==
  LET sib   == Sibling(s)
      outer == Kid(tree, sib, Other(s))
      inner == Kid(tree, sib, s)
  IN  /\ DoubleBlack(s) /\ IsBlack(tree, sib)
      /\ IsRed(tree, outer) \/ IsRed(tree, inner)
      /\ tree' = IF outer = NIL THEN tree ELSE RotateSibling(tree, sib, outer, s)
      /\ Stop /\ UNCHANGED leftmost

EraseRotate(s) ==
  LET sib   == Sibling(s)
      outer == Kid(tree, sib, Other(s))
      inner == Kid(tree, sib, s)
  IN  /\ DoubleBlack(s) /\ IsBlack(tree, sib)
      /\ IsRed(tree, outer) \/ IsRed(tree, inner)
      /\ tree' = IF IsRed(tree, outer) THEN RotateSibling(tree, sib, outer, s)
                 ELSE RotateSibling(RotateInner(tree, sib, inner, s), inner, sib, s)
      /\ Stop /\ UNCHANGED leftmost

Rebalance ==
  \/ InsertRoot \/ InsertBelowBlack
  \/ \E s \in Side : \/ InsertRecolor(s) \/ InsertRotate(s)
                     \/ EraseRedSibling(s) \/ EraseRecolor(s) \/ EraseRotate(s)

Next ==
  \/ \E n \in Node \ InTree, p \in InTree \cup {NIL}, s \in Side : Link(n, p, s)
  \/ \E n \in InTree : Unlink(n)
  \/ Rebalance

Spec == Init /\ [][Next]_rbvars

-----------------------------------------------------------------------------
(* Properties *)

\* The numbers of black nodes on the paths from the root down to a NULL.
BlackHeights(t) ==
  LET heights[n \in NodesOf(t)] ==
        LET below(s) == IF Kid(t, n, s) = NIL THEN {0} ELSE heights[Kid(t, n, s)]
        IN  {h + (IF IsBlack(t, n) THEN 1 ELSE 0) :
               h \in below("left") \cup below("right")}
  IN  IF t.root = NIL THEN {0} ELSE heights[t.root]

\* Between operations the tree is red-black: a black root, no red kid of a red
\* node, and as many black nodes on every path.  Every case of __rb_insert and
\* __rb_erase_color (rbtree.c) is there for it, in two mirror images.
RedBlack ==
  phase = "idle" =>
    /\ IsBlack(tree, tree.root)
    /\ \A n \in InTree, s \in Side :
         IsRed(tree, n) => IsBlack(tree, Kid(tree, n, s))
    /\ Cardinality(BlackHeights(tree)) = 1

\* Up and down pointers agree, in the loops too: __rb_change_child and rb_next
\* follow the parents that the rotations write.
ParentsAgree ==
  /\ tree.root # NIL => tree.par[tree.root] = NIL
  /\ \A n \in InTree, s \in Side :
       Kid(tree, n, s) # NIL => tree.par[Kid(tree, n, s)] = n

\* A fault in one of the pointers would also show here: no rotation loses a
\* node or moves it in the order, and the cached leftmost node is the first.
Abstract == INSTANCE Timeline WITH
  timeline <- InOrder(tree), first <- leftmost

ImplementsTimeline == Abstract!Spec

\* What the loops follow without a test is there: the grandparent of a node
\* with a red parent (rbtree.c:101), the sibling of a double black place
\* (rbtree.c:305), and the inner kid of a red sibling (rbtree.c:312).  Only the
\* balance that earlier operations left makes it so.
CasesMeetNodes ==
  /\ phase = "insert" /\ IsRed(tree, parent) => tree.par[parent] # NIL
  /\ \A s \in Side :
       DoubleBlack(s) =>
         /\ Sibling(s) # NIL
         /\ IsRed(tree, Sibling(s)) => Kid(tree, Sibling(s), s) # NIL

\* The level of a node: 1 for the root.
Level(t, n) == Min({d \in 0 .. Cardinality(Node) : n \in Upper(t)[d]})

\* The turns that the running loop may still take, at most: an insertion climbs
\* from its node, an erasure from its parent, and below a red parent it ends.
TurnsLeft ==
  CASE phase = "idle"   -> 0
    [] phase = "insert" -> Level(tree, node)
    [] phase = "erase"  -> IF IsRed(tree, parent) THEN 1 ELSE 1 + Level(tree, parent)

\* Both while(true) loops of rbtree.c end: every turn leaves fewer of them.
\* A red sibling takes the erasure one level down, but then its parent is red.
TurnsRunOut == [][phase # "idle" => TurnsLeft' < TurnsLeft]_rbvars
=============================================================================
