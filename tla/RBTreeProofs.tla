---------------------------- MODULE RBTreeProofs ----------------------------
(***************************************************************************)
(* The red-black tree keeps its order, its parents and its balance, for    *)
(* trees of any size, and implements the sequence of Timeline.             *)
(***************************************************************************)
EXTENDS RBTree, Lemmas

Ptr == Node \cup {NIL}

-----------------------------------------------------------------------------
(* The fields after one write *)

LEMMA SideFacts ==
  ASSUME NEW s \in Side
  PROVE  /\ Other(s) \in Side /\ Other(s) # s /\ Other(Other(s)) = s
         /\ s = "left" => Other(s) = "right"
         /\ s = "right" => Other(s) = "left"
BY DEF Side, Other

LEMMA TreeFields ==
  ASSUME NEW t \in Tree
  PROVE  /\ t.root \in Ptr /\ NIL \notin Node
         /\ \A x \in Node : t.par[x] \in Ptr /\ t.color[x] \in {"red", "black"}
         /\ \A x \in Node, y \in Side : t.kid[x][y] \in Ptr
BY RBTreeAssumption DEF Tree, Ptr

\* What a write of a kid, of a parent and of a colour leaves.
KidSet(t, u, n, s, k) ==
  /\ u \in Tree /\ u.root = t.root /\ u.par = t.par /\ u.color = t.color
  /\ \A x \in Node, y \in Side :
       u.kid[x][y] = IF x = n /\ y = s THEN k ELSE t.kid[x][y]

LEMMA SetKidIs ==
  ASSUME NEW t \in Tree, NEW n \in Node, NEW s \in Side, NEW k \in Ptr
  PROVE  KidSet(t, SetKid(t, n, s, k), n, s, k)
BY DEF Tree, KidSet, SetKid, Ptr

ParColorSet(t, u, n, p, c) ==
  /\ u \in Tree /\ u.root = t.root /\ u.kid = t.kid
  /\ \A x \in Node : /\ u.par[x] = IF x = n THEN p ELSE t.par[x]
                     /\ u.color[x] = IF x = n THEN c ELSE t.color[x]

LEMMA SetParColorIs ==
  ASSUME NEW t \in Tree, NEW n \in Node, NEW p \in Ptr, NEW c \in {"red", "black"}
  PROVE  ParColorSet(t, rb_set_parent_color(t, n, p, c), n, p, c)
BY DEF Tree, ParColorSet, rb_set_parent_color, Ptr

ParSet(t, u, n, p) ==
  /\ u \in Tree /\ u.root = t.root /\ u.kid = t.kid /\ u.color = t.color
  /\ \A x \in Node : u.par[x] = IF x = n THEN p ELSE t.par[x]

LEMMA SetParIs ==
  ASSUME NEW t \in Tree, NEW n \in Node, NEW p \in Ptr
  PROVE  ParSet(t, rb_set_parent(t, n, p), n, p)
BY DEF Tree, ParSet, rb_set_parent, Ptr

LEMMA BlackenIs ==
  ASSUME NEW t \in Tree, NEW n \in Ptr, NEW p \in Ptr
  PROVE  ParColorSet(t, Blacken(t, n, p), n, p, "black")
<1>1. CASE n = NIL
  BY <1>1, RBTreeAssumption DEF Blacken, ParColorSet
<1>2. CASE n # NIL
  BY <1>2, SetParColorIs DEF Blacken, Ptr
<1> QED
  BY <1>1, <1>2

\* Where the node old was below p, or the root, there is new.
ChildChanged(t, u, old, new, p) ==
  /\ u \in Tree /\ u.par = t.par /\ u.color = t.color
  /\ u.root = IF p = NIL THEN new ELSE t.root
  /\ \A x \in Node, y \in Side :
       u.kid[x][y] = IF x = p /\ t.kid[x][y] = old THEN new ELSE t.kid[x][y]

LEMMA ChangeChildIs ==
  ASSUME NEW t \in Tree, NEW old \in Node, NEW new \in Ptr, NEW p \in Ptr,
         p # NIL => /\ \E s \in Side : t.kid[p][s] = old
                    /\ t.kid[p]["left"] # t.kid[p]["right"]
  PROVE  ChildChanged(t, __rb_change_child(t, old, new, p), old, new, p)
<1> DEFINE u == __rb_change_child(t, old, new, p)
<1>1. CASE p = NIL
  BY <1>1, RBTreeAssumption DEF __rb_change_child, ChildChanged, Tree, Ptr
<1>2. CASE p # NIL
  <2>1. PICK s \in Side : t.kid[p][s] = old
    BY <1>2
  <2>2. u = SetKid(t, p, s, new)
    BY <1>2, <2>1 DEF __rb_change_child, Side, Kid
  <2>3. KidSet(t, u, p, s, new)
    BY <1>2, <2>2, SetKidIs DEF Ptr
  <2>4. \A y \in Side : t.kid[p][y] = old <=> y = s
    BY <1>2, <2>1 DEF Side
  <2> QED
    BY <1>2, <2>3, <2>4 DEF KidSet, ChildChanged
<1> QED
  BY <1>1, <1>2

-----------------------------------------------------------------------------
(* The order *)

\* The kid k of x on side s, for the places pos of the nodes and the places
\* lo .. hi of the nodes below each: nothing is missing between x and k.
Below(t, S, pos, lo, hi, x, s) ==
  LET k == t.kid[x][s]
  IN  IF s = "left"
      THEN IF k = NIL THEN lo[x] = pos[x]
           ELSE k \in S /\ t.par[k] = x /\ lo[k] = lo[x] /\ hi[k] = pos[x] - 1
      ELSE IF k = NIL THEN hi[x] = pos[x]
           ELSE k \in S /\ t.par[k] = x /\ lo[k] = pos[x] + 1 /\ hi[k] = hi[x]

\* The nodes of S have the places 1 .. m.
Placed(S, m, pos) ==
  /\ S \subseteq Node /\ m \in Nat /\ pos \in [S -> 1 .. m]
  /\ \A x, y \in S : pos[x] = pos[y] => x = y
  /\ \A i \in 1 .. m : \E x \in S : pos[x] = i

Spans(S, m, pos, lo, hi) ==
  /\ lo \in [S -> Int] /\ hi \in [S -> Int]
  /\ \A x \in S : 1 <= lo[x] /\ lo[x] <= pos[x] /\ pos[x] <= hi[x] /\ hi[x] <= m

Rooted(t, S, m, lo, hi) ==
  IF t.root = NIL THEN S = {} /\ m = 0
  ELSE /\ t.root \in S /\ t.par[t.root] = NIL
       /\ lo[t.root] = 1 /\ hi[t.root] = m

\* Every node but the root is a kid of its parent.
Hung(t, S) ==
  \A x \in S : IF t.par[x] = NIL THEN x = t.root
               ELSE t.par[x] \in S /\ \E s \in Side : t.kid[t.par[x]][s] = x

Ordered(t, S, m, pos, lo, hi) ==
  /\ Placed(S, m, pos) /\ Spans(S, m, pos, lo, hi)
  /\ Rooted(t, S, m, lo, hi) /\ Hung(t, S)
  /\ \A x \in S, s \in Side : Below(t, S, pos, lo, hi, x, s)

\* What follows for one node and its kids.
LEMMA OrderedFacts ==
  ASSUME NEW t \in Tree, NEW S, NEW m, NEW pos, NEW lo, NEW hi,
         Ordered(t, S, m, pos, lo, hi), NEW x \in S
  PROVE  /\ x \in Node /\ pos[x] \in 1 .. m /\ lo[x] \in Int /\ hi[x] \in Int
         /\ 1 <= lo[x] /\ lo[x] <= pos[x] /\ pos[x] <= hi[x] /\ hi[x] <= m
         /\ t.par[x] \in S \cup {NIL} /\ t.par[x] # x
         /\ t.par[x] = NIL <=> x = t.root
         /\ \A s \in Side : /\ t.kid[x][s] \in S \cup {NIL} /\ t.kid[x][s] # x
                            /\ t.kid[x][s] # NIL => /\ t.par[t.kid[x][s]] = x
                                                    /\ t.kid[x][s] # t.par[x]
                                                    /\ t.kid[x][Other(s)] # t.kid[x][s]
<1>1. S \subseteq Node /\ m \in Nat /\ pos[x] \in 1 .. m /\ x \in Node
  BY DEF Ordered, Placed
<1>2. \A y \in S : /\ lo[y] \in Int /\ hi[y] \in Int /\ pos[y] \in Int
                   /\ 1 <= lo[y] /\ lo[y] <= pos[y] /\ pos[y] <= hi[y] /\ hi[y] <= m
  BY DEF Ordered, Spans, Placed
<1>3. \A y \in S : t.par[y] \in S \cup {NIL} /\ (t.par[y] = NIL <=> y = t.root)
  BY <1>1, TreeFields DEF Ordered, Hung, Rooted
<1>4. \A y \in S, s \in Side : t.kid[y][s] # NIL =>
         t.kid[y][s] \in S /\ t.par[t.kid[y][s]] = y
  BY DEF Ordered, Below, Side
<1>5. \A y \in S : t.kid[y]["left"] # NIL =>
         lo[t.kid[y]["left"]] = lo[y] /\ hi[t.kid[y]["left"]] < pos[y]
  BY <1>2 DEF Ordered, Below, Side
<1>6. \A y \in S : t.kid[y]["right"] # NIL =>
         lo[t.kid[y]["right"]] > pos[y] /\ hi[t.kid[y]["right"]] = hi[y]
  BY <1>2 DEF Ordered, Below, Side
<1>7. \A y \in S, s \in Side : t.kid[y][s] # y
  <2> TAKE y \in S, s \in Side
  <2>1. CASE s = "left"
    BY <2>1, <1>2, <1>4, <1>5, TreeFields, <1>1
  <2>2. CASE s = "right"
    BY <2>2, <1>2, <1>4, <1>6, TreeFields, <1>1
  <2> QED
    BY <2>1, <2>2 DEF Side
<1>8. \A y \in S, s \in Side : t.kid[y][s] # NIL =>
         hi[t.kid[y][s]] - lo[t.kid[y][s]] < hi[y] - lo[y]
  <2> TAKE y \in S, s \in Side
  <2> HAVE t.kid[y][s] # NIL
  <2>1. t.kid[y][s] \in S
    BY <1>4
  <2>2. CASE s = "left"
    BY <2>1, <2>2, <1>2, <1>5
  <2>3. CASE s = "right"
    BY <2>1, <2>3, <1>2, <1>6
  <2> QED
    BY <2>2, <2>3 DEF Side
<1>9. t.par[x] # x
  <2> SUFFICES ASSUME t.par[x] = x PROVE FALSE
    OBVIOUS
  <2>1. PICK s \in Side : t.kid[x][s] = x
    BY <1>1, TreeFields DEF Ordered, Hung
  <2> QED
    BY <2>1, <1>7
<1>10. \A s \in Side : t.kid[x][s] # NIL => t.kid[x][s] # t.par[x]
  <2> TAKE s \in Side
  <2> HAVE t.kid[x][s] # NIL
  <2> SUFFICES ASSUME t.kid[x][s] = t.par[x] PROVE FALSE
    OBVIOUS
  <2>1. PICK k : k = t.par[x]
    OBVIOUS
  <2>2. PICK y \in Side : t.kid[k][y] = x
    BY <2>1 DEF Ordered, Hung
  <2>3. k \in S /\ x # NIL
    BY <2>1, <1>1, <1>3, TreeFields
  <2>4. hi[x] - lo[x] < hi[k] - lo[k] /\ hi[k] - lo[k] < hi[x] - lo[x]
    BY <2>1, <2>2, <2>3, <1>8
  <2> QED
    BY <2>3, <2>4, <1>2
<1>11. \A s \in Side : t.kid[x][s] # NIL => t.kid[x][Other(s)] # t.kid[x][s]
  <2> SUFFICES ASSUME t.kid[x]["left"] # NIL, t.kid[x]["right"] = t.kid[x]["left"] PROVE FALSE
    BY SideFacts DEF Side
  <2>1. t.kid[x]["left"] \in S
    BY <1>4 DEF Side
  <2> QED
    BY <2>1, <1>2, <1>5, <1>6
<1> QED
  BY <1>1, <1>2, <1>3, <1>4, <1>7, <1>9, <1>10, <1>11

-----------------------------------------------------------------------------
(* Rotations *)

\* In u the kid p of g on side s has taken the place of g, which took the
\* inner kid of p in exchange.
TurnedKid(t, g, s, p, x, y) ==
  IF x = g /\ y = s THEN t.kid[p][Other(s)]
  ELSE IF x = p /\ y = Other(s) THEN g
  ELSE IF x = t.par[g] /\ t.kid[x][y] = g THEN p
  ELSE t.kid[x][y]

TurnedPar(t, g, s, p, x) ==
  IF x = g THEN p ELSE IF x = p THEN t.par[g]
  ELSE IF x = t.kid[p][Other(s)] THEN g ELSE t.par[x]

Turned(t, u, g, s) ==
  /\ u \in Tree
  /\ u.root = IF t.par[g] = NIL THEN t.kid[g][s] ELSE t.root
  /\ \A x \in Node, y \in Side : u.kid[x][y] = TurnedKid(t, g, s, t.kid[g][s], x, y)
  /\ \A x \in Node : u.par[x] = TurnedPar(t, g, s, t.kid[g][s], x)

TurnedLo(lo, pos, g, s, p) ==
  [x \in DOMAIN lo |-> IF x = p THEN lo[g]
                       ELSE IF x = g /\ s = "left" THEN pos[p] + 1 ELSE lo[x]]
TurnedHi(hi, pos, g, s, p) ==
  [x \in DOMAIN hi |-> IF x = p THEN hi[g]
                       ELSE IF x = g /\ s = "right" THEN pos[p] - 1 ELSE hi[x]]

LEMMA TurnKeepsOrder ==
  ASSUME NEW t \in Tree, NEW u, NEW S, NEW m, NEW pos, NEW lo, NEW hi,
         Ordered(t, S, m, pos, lo, hi), NEW g \in S, NEW s \in Side,
         NEW p \in S, t.kid[g][s] = p, Turned(t, u, g, s)
  PROVE  Ordered(u, S, m, pos, TurnedLo(lo, pos, g, s, p), TurnedHi(hi, pos, g, s, p))
<1> DEFINE lo2 == TurnedLo(lo, pos, g, s, p)
           hi2 == TurnedHi(hi, pos, g, s, p)
           c == t.kid[p][Other(s)]
           a == t.par[g]
<1>1. S \subseteq Node /\ m \in Nat /\ NIL \notin S
  BY TreeFields DEF Ordered, Placed
<1>2. \A x \in S : /\ lo[x] \in Int /\ hi[x] \in Int /\ pos[x] \in Int
                   /\ 1 <= lo[x] /\ lo[x] <= pos[x] /\ pos[x] <= hi[x] /\ hi[x] <= m
  BY DEF Ordered, Spans, Placed
<1>3. \A x \in S : t.par[x] \in S \cup {NIL} /\ t.par[x] # x /\ (t.par[x] = NIL <=> x = t.root)
  BY OrderedFacts
<1>4. \A x \in S, y \in Side :
         /\ t.kid[x][y] \in S \cup {NIL} /\ t.kid[x][y] # x
         /\ t.kid[x][y] # NIL => /\ t.par[t.kid[x][y]] = x
                                 /\ t.kid[x][y] # t.par[x]
                                 /\ t.kid[x][Other(y)] # t.kid[x][y]
  BY OrderedFacts
<1>5. p # g /\ t.par[p] = g /\ a # p /\ a # g /\ c # p /\ c # g /\ (c # NIL => t.par[c] = p)
  BY <1>1, <1>3, <1>4, SideFacts
<1>6. \A x, y \in S : pos[x] = pos[y] => x = y
  BY DEF Ordered, Placed
<1>7. \A x \in S, y \in Side : Below(t, S, pos, lo, hi, x, y)
  BY DEF Ordered
<1>8. /\ DOMAIN lo = S /\ DOMAIN hi = S
      /\ \A x \in S : /\ lo2[x] = IF x = p THEN lo[g]
                                  ELSE IF x = g /\ s = "left" THEN pos[p] + 1 ELSE lo[x]
                      /\ hi2[x] = IF x = p THEN hi[g]
                                  ELSE IF x = g /\ s = "right" THEN pos[p] - 1 ELSE hi[x]
  BY DEF Ordered, Spans, TurnedLo, TurnedHi
<1>9. IF s = "left"
      THEN /\ lo[p] = lo[g] /\ hi[p] = pos[g] - 1
           /\ IF c = NIL THEN hi[p] = pos[p] ELSE c \in S /\ lo[c] = pos[p] + 1 /\ hi[c] = hi[p]
      ELSE /\ lo[p] = pos[g] + 1 /\ hi[p] = hi[g]
           /\ IF c = NIL THEN lo[p] = pos[p] ELSE c \in S /\ lo[c] = lo[p] /\ hi[c] = pos[p] - 1
  BY <1>1, <1>5, <1>7, SideFacts DEF Below, Side
<1>10. Spans(S, m, pos, lo2, hi2)
  <2>1. lo2 \in [S -> Int] /\ hi2 \in [S -> Int]
    BY <1>2, <1>8 DEF TurnedLo, TurnedHi
  <2>2. ASSUME NEW x \in S
        PROVE  1 <= lo2[x] /\ lo2[x] <= pos[x] /\ pos[x] <= hi2[x] /\ hi2[x] <= m
    BY <1>2, <1>8, <1>9, <1>1
  <2> QED
    BY <2>1, <2>2 DEF Spans
<1>11. Rooted(u, S, m, lo2, hi2)
  <2>1. t.root \in S /\ t.par[t.root] = NIL /\ lo[t.root] = 1 /\ hi[t.root] = m
    BY DEF Ordered, Rooted
  <2>2. CASE a = NIL
    <3>1. u.root = p /\ u.par[p] = NIL
      BY <2>2, <1>1, <1>5 DEF Turned, TurnedPar
    <3>2. t.root = g
      BY <2>2, <1>3
    <3> QED
      BY <3>1, <3>2, <2>1, <1>1, <1>8 DEF Rooted
  <2>3. CASE a # NIL
    <3>1. u.root = t.root /\ t.root # g /\ t.root # p /\ t.root # c
      BY <2>3, <2>1, <1>1, <1>3, <1>5, TreeFields DEF Turned
    <3>2. u.par[t.root] = NIL
      BY <3>1, <2>1, <1>1 DEF Turned, TurnedPar
    <3> QED
      BY <3>1, <3>2, <2>1, <1>1, <1>8 DEF Rooted
  <2> QED
    BY <2>2, <2>3
<1>12. Hung(u, S)
  <2>1. SUFFICES ASSUME NEW x \in S
                 PROVE  IF u.par[x] = NIL THEN x = u.root
                        ELSE u.par[x] \in S /\ \E y \in Side : u.kid[u.par[x]][y] = x
    BY DEF Hung
  <2>2. u.par[x] = TurnedPar(t, g, s, p, x)
    BY <1>1 DEF Turned
  <2>3. \A z \in S, y \in Side : u.kid[z][y] = TurnedKid(t, g, s, p, z, y)
    BY <1>1 DEF Turned
  <2>4. CASE x = g
    BY <2>2, <2>3, <2>4, <1>1, <1>5, SideFacts DEF TurnedPar, TurnedKid
  <2>5. CASE x = p
    <3>1. u.par[x] = a
      BY <2>2, <2>5, <1>5 DEF TurnedPar
    <3>2. CASE a = NIL
      BY <3>1, <3>2, <2>5 DEF Turned
    <3>3. CASE a # NIL
      <4>1. a \in S
        BY <3>3, <1>3
      <4>2. PICK y \in Side : t.kid[a][y] = g
        BY <3>3 DEF Ordered, Hung
      <4>3. u.kid[a][y] = p
        BY <4>1, <4>2, <2>3, <1>5 DEF TurnedKid
      <4> QED
        BY <4>1, <4>3, <3>1, <3>3, <2>5
    <3> QED
      BY <3>2, <3>3
  <2>6. CASE x = c /\ x # g /\ x # p
    <3>1. u.par[x] = g
      BY <2>2, <2>6 DEF TurnedPar
    <3>2. u.kid[g][s] = c
      BY <2>3 DEF TurnedKid
    <3> QED
      BY <3>1, <3>2, <2>6, <1>1
  <2>7. CASE x # g /\ x # p /\ x # c
    <3>1. u.par[x] = t.par[x]
      BY <2>2, <2>7 DEF TurnedPar
    <3>2. CASE t.par[x] = NIL
      <4>1. x = t.root
        BY <3>2, <1>3
      <4>2. a # NIL
        BY <4>1, <2>7, <1>3
      <4> QED
        BY <3>1, <3>2, <4>1, <4>2 DEF Turned
    <3>3. CASE t.par[x] # NIL
      <4>1. PICK z \in S : z = t.par[x]
        BY <3>3, <1>3
      <4>2. PICK y \in Side : t.kid[z][y] = x
        BY <4>1, <3>3 DEF Ordered, Hung
      <4>3. u.kid[z][y] = x
        BY <4>1, <4>2, <2>3, <2>7 DEF TurnedKid
      <4> QED
        BY <4>1, <4>3, <3>1, <1>1
    <3> QED
      BY <3>2, <3>3
  <2> QED
    BY <2>4, <2>5, <2>6, <2>7
<1>13. ASSUME NEW x \in S, NEW y \in Side
       PROVE  Below(u, S, pos, lo2, hi2, x, y)
  <2>1. u.kid[x][y] = TurnedKid(t, g, s, p, x, y)
    BY <1>1 DEF Turned
  <2>2. \A k \in S : u.par[k] = TurnedPar(t, g, s, p, k)
    BY <1>1 DEF Turned
  <2>3. Below(t, S, pos, lo, hi, x, y)
    BY <1>7
  <2>4. CASE x = g /\ y = s
    <3>1. u.kid[x][y] = c
      BY <2>1, <2>4 DEF TurnedKid
    <3>2. c # NIL => u.par[c] = g
      BY <2>2, <1>5, <1>9 DEF TurnedPar
    <3> QED
      BY <3>1, <3>2, <2>4, <1>1, <1>2, <1>5, <1>8, <1>9, SideFacts DEF Below, Side
  <2>5. CASE x = p /\ y = Other(s)
    <3>1. u.kid[x][y] = g
      BY <2>1, <2>5, <1>5 DEF TurnedKid
    <3>2. u.par[g] = p
      BY <2>2 DEF TurnedPar
    <3> QED
      BY <3>1, <3>2, <2>5, <1>1, <1>2, <1>5, <1>8, <1>9, SideFacts DEF Below, Side
  <2>6. CASE x = a /\ t.kid[x][y] = g
    <3>1. u.kid[x][y] = p
      BY <2>1, <2>6, <1>5 DEF TurnedKid
    <3>2. u.par[p] = a
      BY <2>2, <1>5 DEF TurnedPar
    <3> QED
      BY <3>1, <3>2, <2>6, <2>3, <1>1, <1>2, <1>5, <1>8, <1>9, SideFacts DEF Below, Side
  <2>7. CASE ~(x = g /\ y = s) /\ ~(x = p /\ y = Other(s)) /\ ~(x = a /\ t.kid[x][y] = g)
    <3>1. u.kid[x][y] = t.kid[x][y]
      BY <2>1, <2>7 DEF TurnedKid
    <3>2. PICK k : k = t.kid[x][y]
      OBVIOUS
    <3>3. k \in S \cup {NIL} /\ (k # NIL => t.par[k] = x)
      BY <3>2, <1>4
    <3>4. k # g /\ (x = g => k # p)
      <4>1. k = g => x = a
        BY <3>3, <1>1
      <4>2. x = g /\ k = p => y = s
        BY <3>2, <1>4, <1>1, SideFacts DEF Side, Other
      <4> QED
        BY <4>1, <4>2, <2>7, <3>2
    <3>5. k # p
      BY <3>3, <3>4, <1>1, <1>5
    <3>6. k = c => k = NIL
      <4> SUFFICES ASSUME k = c, k # NIL PROVE FALSE
        OBVIOUS
      <4>1. x = p
        BY <3>3, <1>5
      <4>2. y = Other(s)
        <5>1. y = s \/ y = Other(s)
          BY DEF Side, Other
        <5>2. ASSUME y = s PROVE FALSE
          <6>1. t.kid[p][s] # NIL => t.kid[p][Other(s)] # t.kid[p][s]
            BY <1>4
          <6>2. t.kid[p][s] = k
            BY <5>2, <4>1, <3>2
          <6> QED
            BY <6>1, <6>2
        <5> QED
          BY <5>1, <5>2
      <4> QED
        BY <4>1, <4>2, <2>7
    <3>7. k # NIL => u.par[k] = x
      BY <3>3, <3>4, <3>5, <3>6, <2>2 DEF TurnedPar
    <3>8. k # NIL => lo2[k] = lo[k] /\ hi2[k] = hi[k]
      BY <3>3, <3>4, <3>5, <1>8
    <3>9. Below(u, S, pos, lo2, hi2, x, y) <=>
            IF y = "left"
            THEN IF k = NIL THEN lo2[x] = pos[x]
                 ELSE k \in S /\ u.par[k] = x /\ lo2[k] = lo2[x] /\ hi2[k] = pos[x] - 1
            ELSE IF k = NIL THEN hi2[x] = pos[x]
                 ELSE k \in S /\ u.par[k] = x /\ lo2[k] = pos[x] + 1 /\ hi2[k] = hi2[x]
      BY <3>1, <3>2 DEF Below
    <3>10. IF y = "left"
            THEN IF k = NIL THEN lo[x] = pos[x]
                 ELSE lo[k] = lo[x] /\ hi[k] = pos[x] - 1
            ELSE IF k = NIL THEN hi[x] = pos[x]
                 ELSE lo[k] = pos[x] + 1 /\ hi[k] = hi[x]
      BY <2>3, <3>2 DEF Below
    <3>11. IF y = "left" THEN lo2[x] = lo[x] ELSE hi2[x] = hi[x]
      BY <2>7, <1>8, <1>9, <1>5, SideFacts DEF Side
    <3> QED
      BY <3>3, <3>7, <3>8, <3>9, <3>10, <3>11
  <2> QED
    BY <2>4, <2>5, <2>6, <2>7
<1> QED
  BY <1>10, <1>11, <1>12, <1>13 DEF Ordered

\* The order does not depend on the colours.
LEMMA ColorsKeepOrder ==
  ASSUME NEW t, NEW u, u.root = t.root, u.kid = t.kid, u.par = t.par,
         NEW S, NEW m, NEW pos, NEW lo, NEW hi, Ordered(t, S, m, pos, lo, hi)
  PROVE  Ordered(u, S, m, pos, lo, hi)
<1>1. Rooted(u, S, m, lo, hi)
  BY DEF Ordered, Rooted
<1>2. Hung(u, S)
  BY DEF Ordered, Hung
<1>3. \A x \in S, s \in Side : Below(u, S, pos, lo, hi, x, s)
  BY DEF Ordered, Below
<1> QED
  BY <1>1, <1>2, <1>3 DEF Ordered

-----------------------------------------------------------------------------
(* A node more *)

\* In u the node n is below p on side s, or the root, and has no kids.
Linked(t, u, n, p, s) ==
  /\ u \in Tree /\ u.root = IF p = NIL THEN n ELSE t.root
  /\ \A x \in Node, y \in Side :
       u.kid[x][y] = IF x = n THEN NIL ELSE IF x = p /\ y = s THEN n ELSE t.kid[x][y]
  /\ \A x \in Node : u.par[x] = IF x = n THEN p ELSE t.par[x]

\* The place of a node below p, where it takes the place at and the later
\* nodes come one later.
PlaceBelow(pos, p, s) == IF s = "left" THEN pos[p] ELSE pos[p] + 1

OneLater(k, first) == IF k >= first THEN k + 1 ELSE k

LinkedPos(pos, S, n, at) ==
  [x \in S \cup {n} |-> IF x = n THEN at ELSE OneLater(pos[x], at)]
LinkedLo(lo, S, n, at, p0) ==
  [x \in S \cup {n} |-> IF x = n THEN at ELSE OneLater(lo[x], p0 + 1)]
LinkedHi(hi, S, n, at, p0) ==
  [x \in S \cup {n} |-> IF x = n THEN at ELSE OneLater(hi[x], p0)]

LEMMA LinkKeepsOrder ==
  ASSUME NEW t \in Tree, NEW u, NEW S, NEW m, NEW pos, NEW lo, NEW hi,
         Ordered(t, S, m, pos, lo, hi), NEW n \in Node, n \notin S,
         NEW p \in S, NEW s \in Side, t.kid[p][s] = NIL, Linked(t, u, n, p, s),
         NEW at, at = PlaceBelow(pos, p, s)
  PROVE  Ordered(u, S \cup {n}, m + 1, LinkedPos(pos, S, n, at),
                 LinkedLo(lo, S, n, at, pos[p]), LinkedHi(hi, S, n, at, pos[p]))
<1> DEFINE S2 == S \cup {n}
           pos2 == LinkedPos(pos, S, n, at)
           lo2 == LinkedLo(lo, S, n, at, pos[p])
           hi2 == LinkedHi(hi, S, n, at, pos[p])
<1>1. S \subseteq Node /\ m \in Nat /\ NIL \notin S /\ n # NIL /\ p # n
  BY TreeFields DEF Ordered, Placed
<1>2. \A x \in S : /\ lo[x] \in Int /\ hi[x] \in Int /\ pos[x] \in Int
                   /\ 1 <= lo[x] /\ lo[x] <= pos[x] /\ pos[x] <= hi[x] /\ hi[x] <= m
  BY DEF Ordered, Spans, Placed
<1>3. \A x \in S : t.par[x] \in S \cup {NIL} /\ (t.par[x] = NIL <=> x = t.root)
  BY OrderedFacts
<1>4. \A x \in S, y \in Side : t.kid[x][y] \in S \cup {NIL}
  BY OrderedFacts
<1>5. \A x, y \in S : pos[x] = pos[y] => x = y
  BY DEF Ordered, Placed
<1>6. \A x \in S, y \in Side : Below(t, S, pos, lo, hi, x, y)
  BY DEF Ordered
<1>7. /\ (s = "left" /\ at = pos[p]) \/ (s = "right" /\ at = pos[p] + 1)
      /\ at \in 1 .. m + 1
  BY <1>1, <1>2 DEF PlaceBelow, Side
<1>8. /\ \A x \in S : /\ pos2[x] = IF pos[x] >= at THEN pos[x] + 1 ELSE pos[x]
                      /\ lo2[x] = IF lo[x] >= pos[p] + 1 THEN lo[x] + 1 ELSE lo[x]
                      /\ hi2[x] = IF hi[x] >= pos[p] THEN hi[x] + 1 ELSE hi[x]
      /\ pos2[n] = at /\ lo2[n] = at /\ hi2[n] = at
  BY DEF LinkedPos, LinkedLo, LinkedHi, OneLater
<1>9. Placed(S2, m + 1, pos2)
  <2>1. pos2 \in [S2 -> 1 .. m + 1]
    <3>1. \A x \in S2 : pos2[x] \in 1 .. m + 1
      BY <1>1, <1>2, <1>7, <1>8
    <3> QED
      BY <3>1 DEF LinkedPos
  <2>2. \A x, y \in S2 : pos2[x] = pos2[y] => x = y
    BY <1>1, <1>2, <1>5, <1>7, <1>8
  <2>3. ASSUME NEW i \in 1 .. m + 1 PROVE \E x \in S2 : pos2[x] = i
    <3>1. CASE i = at
      BY <3>1, <1>8
    <3>2. CASE i < at
      <4>1. i \in 1 .. m
        BY <3>2, <1>1, <1>7
      <4>2. PICK x \in S : pos[x] = i
        BY <4>1 DEF Ordered, Placed
      <4> QED
        BY <4>2, <3>2, <1>2, <1>7, <1>8
    <3>3. CASE i > at
      <4>1. i - 1 \in 1 .. m
        BY <3>3, <1>1, <1>7
      <4>2. PICK x \in S : pos[x] = i - 1
        BY <4>1 DEF Ordered, Placed
      <4> QED
        BY <4>2, <3>3, <1>2, <1>7, <1>8
    <3> QED
      BY <3>1, <3>2, <3>3, <1>7
  <2> QED
    BY <2>1, <2>2, <2>3, <1>1 DEF Placed
<1>10. Spans(S2, m + 1, pos2, lo2, hi2)
  <2>1. \A x \in S2 : /\ lo2[x] \in Int /\ hi2[x] \in Int
                      /\ 1 <= lo2[x] /\ lo2[x] <= pos2[x]
                      /\ pos2[x] <= hi2[x] /\ hi2[x] <= m + 1
    BY <1>1, <1>2, <1>7, <1>8
  <2>2. DOMAIN lo2 = S2 /\ DOMAIN hi2 = S2 /\ lo2 = [x \in S2 |-> lo2[x]]
        /\ hi2 = [x \in S2 |-> hi2[x]]
    BY DEF LinkedLo, LinkedHi
  <2> HIDE DEF lo2, hi2
  <2> QED
    BY <2>1, <2>2 DEF Spans
<1>11. Rooted(u, S2, m + 1, lo2, hi2)
  <2>1. t.root \in S /\ t.par[t.root] = NIL /\ lo[t.root] = 1 /\ hi[t.root] = m
    BY DEF Ordered, Rooted
  <2>2. u.root = t.root /\ u.par[t.root] = NIL
    BY <2>1, <1>1 DEF Linked
  <2> QED
    BY <2>1, <2>2, <1>1, <1>2, <1>8 DEF Rooted
<1>12. Hung(u, S2)
  <2>1. \A x \in S, y \in Side : t.kid[x][y] # NIL => u.kid[x][y] = t.kid[x][y]
    BY <1>1 DEF Linked
  <2>2. u.kid[p][s] = n /\ u.par[n] = p /\ u.root = t.root
    BY <1>1 DEF Linked
  <2>3. \A x \in S : u.par[x] = t.par[x]
    BY <1>1 DEF Linked
  <2>4. ASSUME NEW x \in S
        PROVE  IF t.par[x] = NIL THEN x = t.root
               ELSE t.par[x] \in S /\ \E y \in Side : u.kid[t.par[x]][y] = x
    BY <2>1, <1>1 DEF Ordered, Hung
  <2> QED
    BY <2>2, <2>3, <2>4, <1>1 DEF Hung
<1>13. ASSUME NEW x \in S2, NEW y \in Side
       PROVE  Below(u, S2, pos2, lo2, hi2, x, y)
  <2>1. CASE x = n
    <3>1. u.kid[n][y] = NIL
      BY DEF Linked
    <3> QED
      BY <3>1, <2>1, <1>8 DEF Below
  <2>2. CASE x = p /\ y = s
    <3>1. u.kid[x][y] = n /\ u.par[n] = p
      BY <2>2, <1>1 DEF Linked
    <3>2. IF s = "left" THEN lo[p] = pos[p] ELSE hi[p] = pos[p]
      BY <1>6, <1>1 DEF Below
    <3> QED
      BY <3>1, <3>2, <2>2, <1>1, <1>2, <1>7, <1>8 DEF Below
  <2>3. CASE x # n /\ ~(x = p /\ y = s)
    <3>1. x \in S /\ u.kid[x][y] = t.kid[x][y]
      BY <2>3, <1>1 DEF Linked
    <3>2. PICK k : k = t.kid[x][y]
      OBVIOUS
    <3>3. k \in S \cup {NIL} /\ (k # NIL => u.par[k] = t.par[k])
      BY <3>1, <3>2, <1>1, <1>4 DEF Linked
    <3>4. Below(t, S, pos, lo, hi, x, y)
      BY <3>1, <1>6
    <3>5. x = p \/ pos[x] # pos[p]
      BY <3>1, <1>5
    <3>6. CASE y = "left"
      <4>1. IF k = NIL THEN lo[x] = pos[x]
            ELSE k \in S /\ t.par[k] = x /\ lo[k] = lo[x] /\ hi[k] = pos[x] - 1
        BY <3>2, <3>4, <3>6 DEF Below
      <4>2. IF k = NIL THEN lo2[x] = pos2[x]
            ELSE k \in S /\ u.par[k] = x /\ lo2[k] = lo2[x] /\ hi2[k] = pos2[x] - 1
        BY <4>1, <3>1, <3>3, <3>5, <3>6, <2>3, <1>2, <1>7, <1>8
      <4> QED
        BY <4>2, <3>1, <3>2, <3>6 DEF Below
    <3>7. CASE y = "right"
      <4>1. IF k = NIL THEN hi[x] = pos[x]
            ELSE k \in S /\ t.par[k] = x /\ lo[k] = pos[x] + 1 /\ hi[k] = hi[x]
        BY <3>2, <3>4, <3>7 DEF Below
      <4>2. IF k = NIL THEN hi2[x] = pos2[x]
            ELSE k \in S /\ u.par[k] = x /\ lo2[k] = pos2[x] + 1 /\ hi2[k] = hi2[x]
        BY <4>1, <3>1, <3>3, <3>5, <3>7, <2>3, <1>2, <1>7, <1>8
      <4> QED
        BY <4>2, <3>1, <3>2, <3>7 DEF Below
    <3> QED
      BY <3>6, <3>7 DEF Side
  <2> QED
    BY <2>1, <2>2, <2>3
<1> QED
  BY <1>9, <1>10, <1>11, <1>12, <1>13 DEF Ordered

-----------------------------------------------------------------------------
(* A node less *)

OneEarlier(k, first) == IF k >= first THEN k - 1 ELSE k

\* The places when the place at is taken out.
LessPos(pos, S, at) == [x \in S |-> OneEarlier(pos[x], at)]
LessLo(lo, S, at)   == [x \in S |-> OneEarlier(lo[x], at + 1)]
LessHi(hi, S, at)   == [x \in S |-> OneEarlier(hi[x], at)]

\* In u the kid k of n, its only one, or NIL has the place of n.
Spliced(t, u, S, n, k) ==
  /\ u \in Tree /\ u.root = IF t.par[n] = NIL THEN k ELSE t.root
  /\ \A x \in S \ {n}, y \in Side :
       u.kid[x][y] = IF t.kid[x][y] = n THEN k ELSE t.kid[x][y]
  /\ \A x \in S \ {n} : u.par[x] = IF x = k THEN t.par[n] ELSE t.par[x]

LEMMA SpliceKeepsOrder ==
  ASSUME NEW t \in Tree, NEW u, NEW S, NEW m, NEW pos, NEW lo, NEW hi,
         Ordered(t, S, m, pos, lo, hi), NEW n \in S, NEW z \in Side,
         t.kid[n][z] = NIL, NEW k, k = t.kid[n][Other(z)], Spliced(t, u, S, n, k),
         NEW at, at = pos[n]
  PROVE  Ordered(u, S \ {n}, m - 1, LessPos(pos, S \ {n}, at),
                 LessLo(lo, S \ {n}, at), LessHi(hi, S \ {n}, at))
<1> DEFINE S2 == S \ {n}
           pos2 == LessPos(pos, S2, at)
           lo2 == LessLo(lo, S2, at)
           hi2 == LessHi(hi, S2, at)
<1>1. S \subseteq Node /\ m \in Nat /\ NIL \notin S
  BY TreeFields DEF Ordered, Placed
<1>2. \A x \in S : /\ lo[x] \in Int /\ hi[x] \in Int /\ pos[x] \in Int
                   /\ 1 <= lo[x] /\ lo[x] <= pos[x] /\ pos[x] <= hi[x] /\ hi[x] <= m
  BY DEF Ordered, Spans, Placed
<1>3. \A x \in S : t.par[x] \in S \cup {NIL} /\ t.par[x] # x /\ (t.par[x] = NIL <=> x = t.root)
  BY OrderedFacts
<1>4. \A x \in S, y \in Side : /\ t.kid[x][y] \in S \cup {NIL} /\ t.kid[x][y] # x
                               /\ t.kid[x][y] # NIL => t.par[t.kid[x][y]] = x
  BY OrderedFacts
<1>5. at \in 1 .. m /\ \A x \in S2 : pos[x] # at
  BY DEF Ordered, Placed
<1>6. \A x \in S, y \in Side : Below(t, S, pos, lo, hi, x, y)
  BY DEF Ordered
<1>7. k \in S2 \cup {NIL} /\ (k # NIL => t.par[k] = n)
  BY <1>4, SideFacts
<1>8. /\ \A x \in S2 : /\ pos2[x] = IF pos[x] >= at THEN pos[x] - 1 ELSE pos[x]
                       /\ lo2[x] = IF lo[x] >= at + 1 THEN lo[x] - 1 ELSE lo[x]
                       /\ hi2[x] = IF hi[x] >= at THEN hi[x] - 1 ELSE hi[x]
      /\ pos2 = [x \in S2 |-> pos2[x]]
      /\ lo2 = [x \in S2 |-> lo2[x]] /\ hi2 = [x \in S2 |-> hi2[x]]
  BY DEF LessPos, LessLo, LessHi, OneEarlier
<1> HIDE DEF pos2, lo2, hi2
<1>9. Placed(S2, m - 1, pos2)
  <2>1. m - 1 \in Nat
    BY <1>1, <1>2
  <2>2. pos2 \in [S2 -> 1 .. m - 1]
    <3>1. \A x \in S2 : pos2[x] \in 1 .. m - 1
      <4> TAKE x \in S2
      <4>1. pos[x] < at => pos[x] \in 1 .. m - 1
        BY <1>1, <1>2, <1>5
      <4>2. pos[x] >= at => pos[x] - 1 \in 1 .. m - 1
        BY <1>1, <1>2, <1>5
      <4> QED
        BY <4>1, <4>2, <1>2, <1>5, <1>8
    <3> QED
      BY <3>1, <1>8
  <2>3. \A x, y \in S2 : pos2[x] = pos2[y] => x = y
    <3>1. \A x, y \in S : pos[x] = pos[y] => x = y
      BY DEF Ordered, Placed
    <3> QED
      BY <3>1, <1>2, <1>5, <1>8
  <2>4. ASSUME NEW i \in 1 .. m - 1 PROVE \E x \in S2 : pos2[x] = i
    <3>1. CASE i < at
      <4>1. PICK x \in S : pos[x] = i
        BY <3>1, <1>1, <1>2 DEF Ordered, Placed
      <4> QED
        BY <4>1, <3>1, <1>2, <1>8
    <3>2. CASE i >= at
      <4>1. PICK x \in S : pos[x] = i + 1
        BY <3>2, <1>1, <1>2 DEF Ordered, Placed
      <4>2. x \in S2
        BY <4>1, <3>2, <1>2
      <4> QED
        BY <4>1, <4>2, <3>2, <1>2, <1>8
    <3> QED
      BY <3>1, <3>2, <1>5
  <2> QED
    BY <2>1, <2>2, <2>3, <2>4, <1>1 DEF Placed
<1>10. Spans(S2, m - 1, pos2, lo2, hi2)
  <2>1. \A x \in S2 : /\ lo2[x] \in Int /\ hi2[x] \in Int
                      /\ 1 <= lo2[x] /\ lo2[x] <= pos2[x]
                      /\ pos2[x] <= hi2[x] /\ hi2[x] <= m - 1
    BY <1>1, <1>2, <1>5, <1>8
  <2> QED
    BY <2>1, <1>8 DEF Spans
<1>11. IF z = "left" THEN lo[n] = at ELSE hi[n] = at
  BY <1>6 DEF Below
<1>12. IF k = NIL THEN lo[n] = at /\ hi[n] = at
       ELSE IF z = "left" THEN lo[k] = at + 1 /\ hi[k] = hi[n]
       ELSE lo[k] = lo[n] /\ hi[k] = at - 1
  BY <1>6, <1>11, SideFacts DEF Below, Side
<1>13. Rooted(u, S2, m - 1, lo2, hi2)
  <2>1. t.root \in S /\ t.par[t.root] = NIL /\ lo[t.root] = 1 /\ hi[t.root] = m
    BY DEF Ordered, Rooted
  <2>2. CASE t.par[n] = NIL
    <3>1. u.root = k /\ n = t.root /\ (k # NIL => u.par[k] = NIL)
      BY <2>2, <1>3, <1>7 DEF Spliced
    <3>2. CASE k = NIL
      <4>1. m = 1 /\ at = 1
        BY <3>1, <3>2, <2>1, <1>12
      <4>2. \A x \in S2 : FALSE
        BY <4>1, <1>2, <1>5
      <4> QED
        BY <4>1, <4>2, <3>1, <3>2 DEF Rooted
    <3>3. CASE k # NIL
      <4>1. lo2[k] = 1 /\ hi2[k] = m - 1
        <5>1. lo[n] = 1 /\ hi[n] = m /\ k \in S2 /\ at \in Int /\ 1 <= at
          BY <3>1, <3>3, <2>1, <1>1, <1>5, <1>7
        <5>2. lo[k] \in Int /\ hi[k] \in Int /\ at <= m
          BY <5>1, <1>1, <1>2, <1>5
        <5>3. CASE z = "left"
          <6>1. at = 1 /\ lo[k] = 2 /\ hi[k] = m
            BY <5>1, <5>3, <3>3, <1>11, <1>12
          <6>2. lo2[k] = (IF 2 >= 1 + 1 THEN 2 - 1 ELSE 2)
            BY <5>1, <6>1, <1>8
          <6>3. hi2[k] = IF m >= 1 THEN m - 1 ELSE m
            BY <5>1, <6>1, <1>8
          <6> QED
            BY <5>2, <6>1, <6>2, <6>3, <1>1
        <5>4. CASE z # "left"
          BY <5>1, <5>2, <5>4, <3>3, <1>1, <1>8, <1>11, <1>12
        <5> QED
          BY <5>3, <5>4
      <4> QED
        BY <4>1, <3>1, <3>3, <1>7 DEF Rooted
    <3> QED
      BY <3>2, <3>3
  <2>3. CASE t.par[n] # NIL
    <3>1. t.root \in S2 /\ u.root = t.root /\ t.root # k
      BY <2>1, <2>3, <1>1, <1>7 DEF Spliced
    <3>2. u.par[t.root] = NIL
      BY <3>1, <2>1 DEF Spliced
    <3> QED
      BY <3>1, <3>2, <2>1, <1>1, <1>2, <1>5, <1>8 DEF Rooted
  <2> QED
    BY <2>2, <2>3
<1>14. Hung(u, S2)
  <2>1. SUFFICES ASSUME NEW x \in S2
                 PROVE  IF u.par[x] = NIL THEN x = u.root
                        ELSE u.par[x] \in S2 /\ \E y \in Side : u.kid[u.par[x]][y] = x
    BY DEF Hung
  <2>2. PICK w : w = IF x = k THEN n ELSE x
    OBVIOUS
  <2>3. w \in S /\ u.par[x] = t.par[w] /\ t.par[w] \in S2 \cup {NIL}
    <3>1. x # k => t.par[x] # n
      <4> SUFFICES ASSUME x # k, t.par[x] = n PROVE FALSE
        OBVIOUS
      <4>1. PICK y \in Side : t.kid[n][y] = x
        BY <1>1 DEF Ordered, Hung
      <4>2. y = z \/ y = Other(z)
        BY DEF Side, Other
      <4> QED
        BY <4>1, <4>2, <1>1
    <3> QED
      BY <2>2, <3>1, <1>3 DEF Spliced
  <2>4. CASE t.par[w] = NIL
    <3>1. w = t.root
      BY <2>3, <2>4, <1>3
    <3>2. x = u.root
      BY <3>1, <2>2, <2>4, <1>3 DEF Spliced
    <3> QED
      BY <3>2, <2>3, <2>4
  <2>5. CASE t.par[w] # NIL
    <3>1. PICK y \in Side : t.kid[t.par[w]][y] = w
      BY <2>3, <2>5 DEF Ordered, Hung
    <3>2. u.kid[t.par[w]][y] = x
      BY <3>1, <2>2, <2>3, <2>5 DEF Spliced
    <3> QED
      BY <3>2, <2>3, <2>5
  <2> QED
    BY <2>4, <2>5
<1>15. ASSUME NEW x \in S2, NEW y \in Side
       PROVE  Below(u, S2, pos2, lo2, hi2, x, y)
  <2>1. PICK j : j = t.kid[x][y]
    OBVIOUS
  <2>2. Below(t, S, pos, lo, hi, x, y)
    BY <1>6
  <2>3. j \in S \cup {NIL} /\ (j # NIL => t.par[j] = x)
    BY <2>1, <1>4
  <2>4. CASE j = n
    <3>1. u.kid[x][y] = k /\ (k # NIL => u.par[k] = x)
      <4>1. u.kid[x][y] = k
        <5>1. \A w \in S2, d \in Side :
                u.kid[w][d] = IF t.kid[w][d] = n THEN k ELSE t.kid[w][d]
          BY DEF Spliced
        <5>2. t.kid[x][y] = n
          BY <2>1, <2>4
        <5>3. u.kid[x][y] = IF t.kid[x][y] = n THEN k ELSE t.kid[x][y]
          BY <5>1
        <5> QED
          BY <5>2, <5>3
      <4>2. t.par[n] = x
        BY <2>3, <2>4, <1>1
      <4>3. k # NIL => u.par[k] = t.par[n]
        BY <1>7 DEF Spliced
      <4> QED
        BY <4>1, <4>2, <4>3
    <3>2. IF y = "left" THEN lo[n] = lo[x] /\ hi[n] = pos[x] - 1
          ELSE lo[n] = pos[x] + 1 /\ hi[n] = hi[x]
      BY <2>1, <2>2, <2>4, <1>1 DEF Below
    <3>3. CASE k = NIL
      <4>1. IF y = "left" THEN lo2[x] = pos2[x] ELSE hi2[x] = pos2[x]
        BY <3>2, <3>3, <1>1, <1>2, <1>5, <1>8, <1>12
      <4> QED
        BY <4>1, <3>1, <3>3 DEF Below
    <3>4. CASE k # NIL
      <4>1. IF y = "left" THEN lo2[k] = lo2[x] /\ hi2[k] = pos2[x] - 1
            ELSE lo2[k] = pos2[x] + 1 /\ hi2[k] = hi2[x]
        BY <3>2, <3>4, <1>2, <1>7, <1>8, <1>11, <1>12
      <4> QED
        BY <4>1, <3>1, <3>4, <1>7 DEF Below
    <3> QED
      BY <3>3, <3>4
  <2>5. CASE j # n
    <3>1. u.kid[x][y] = j /\ (j # NIL => j \in S2 /\ u.par[j] = x)
      BY <2>1, <2>3, <2>5, <1>7 DEF Spliced
    <3>2. IF y = "left"
          THEN IF j = NIL THEN lo[x] = pos[x] ELSE lo[j] = lo[x] /\ hi[j] = pos[x] - 1
          ELSE IF j = NIL THEN hi[x] = pos[x] ELSE lo[j] = pos[x] + 1 /\ hi[j] = hi[x]
      BY <2>1, <2>2 DEF Below
    <3>3. IF y = "left"
          THEN IF j = NIL THEN lo2[x] = pos2[x] ELSE lo2[j] = lo2[x] /\ hi2[j] = pos2[x] - 1
          ELSE IF j = NIL THEN hi2[x] = pos2[x] ELSE lo2[j] = pos2[x] + 1 /\ hi2[j] = hi2[x]
      BY <3>1, <3>2, <1>2, <1>5, <1>8
    <3> QED
      BY <3>1, <3>3 DEF Below
  <2> QED
    BY <2>4, <2>5
<1> QED
  BY <1>9, <1>10, <1>13, <1>14, <1>15 DEF Ordered, pos2, lo2, hi2

\* In u the node e, which came next, has the place and the kids of n, and its
\* own right kid c, or NIL, has the place that e had.
Successor(kid, n, e, c) == IF kid = e THEN c ELSE IF kid = n THEN e ELSE kid

Replaced(t, u, S, n, e, c) ==
  /\ u \in Tree /\ u.root = IF t.par[n] = NIL THEN e ELSE t.root
  /\ \A y \in Side : u.kid[e][y] = Successor(t.kid[n][y], n, e, c)
  /\ \A x \in S \ {n, e}, y \in Side : u.kid[x][y] = Successor(t.kid[x][y], n, e, c)
  /\ u.par[e] = t.par[n]
  /\ c # NIL => u.par[c] = IF t.par[e] = n THEN e ELSE t.par[e]
  /\ \A x \in S \ {n, e, c} : u.par[x] = IF t.par[x] = n THEN e ELSE t.par[x]

\* The places, where e is put in the place of n.
Former(x, n, e) == IF x = e THEN n ELSE x

MovedTo(f, S, n, e) == [x \in S \ {n} |-> f[Former(x, n, e)]]

LEMMA ReplaceKeepsOrder ==
  ASSUME NEW t \in Tree, NEW u, NEW S, NEW m, NEW pos, NEW lo, NEW hi,
         Ordered(t, S, m, pos, lo, hi), NEW n \in S, NEW e \in S, NEW at,
         pos[e] = at, pos[n] = at - 1,
         t.kid[n]["left"] # NIL, t.kid[n]["right"] # NIL, t.kid[e]["left"] = NIL,
         NEW c, c = t.kid[e]["right"], Replaced(t, u, S, n, e, c)
  PROVE  Ordered(u, S \ {n}, m - 1,
                 LessPos(MovedTo(pos, S, n, e), S \ {n}, at),
                 LessLo(MovedTo(lo, S, n, e), S \ {n}, at),
                 LessHi(MovedTo(hi, S, n, e), S \ {n}, at))
<1> DEFINE S2 == S \ {n}
           pos2 == LessPos(MovedTo(pos, S, n, e), S2, at)
           lo2 == LessLo(MovedTo(lo, S, n, e), S2, at)
           hi2 == LessHi(MovedTo(hi, S, n, e), S2, at)
<1>1. S \subseteq Node /\ m \in Nat /\ NIL \notin S
  BY TreeFields DEF Ordered, Placed
<1>2. \A x \in S : /\ lo[x] \in Int /\ hi[x] \in Int /\ pos[x] \in Int
                   /\ 1 <= lo[x] /\ lo[x] <= pos[x] /\ pos[x] <= hi[x] /\ hi[x] <= m
  BY DEF Ordered, Spans, Placed
<1>3. \A x \in S : t.par[x] \in S \cup {NIL} /\ t.par[x] # x /\ (t.par[x] = NIL <=> x = t.root)
  BY OrderedFacts
<1>4. \A x \in S, y \in Side : /\ t.kid[x][y] \in S \cup {NIL} /\ t.kid[x][y] # x
                               /\ t.kid[x][y] # NIL => t.par[t.kid[x][y]] = x
  BY OrderedFacts
<1>5. at \in Int /\ 2 <= at /\ at <= m /\ e # n
      /\ \A x \in S : (x # e => pos[x] # at) /\ (x # n => pos[x] # at - 1)
  <2>1. \A x, y \in S : pos[x] = pos[y] => x = y
    BY DEF Ordered, Placed
  <2>2. at \in Int /\ at <= m
    <3>1. pos[e] \in Int /\ lo[e] \in Int /\ pos[e] <= hi[e] /\ hi[e] <= m /\ hi[e] \in Int
      BY <1>2
    <3> QED
      BY <3>1, <1>1
  <2>3. 2 <= at
    <3>1. lo[n] \in Int /\ 1 <= lo[n] /\ lo[n] <= at - 1
      BY <1>2
    <3> QED
      BY <3>1, <2>2
  <2> QED
    BY <2>1, <2>2, <2>3, <1>2
<1>6. \A x \in S, y \in Side : Below(t, S, pos, lo, hi, x, y)
  BY DEF Ordered
<1>7. c \in S \cup {NIL} /\ (c # NIL => t.par[c] = e) /\ c # e
  BY <1>4 DEF Side
<1>8. lo[e] = at /\ IF c = NIL THEN hi[e] = at ELSE lo[c] = at + 1 /\ hi[c] = hi[e]
  BY <1>6 DEF Below, Side
<1>9. /\ \A x \in S2 : x # e =>
           /\ pos2[x] = IF pos[x] >= at THEN pos[x] - 1 ELSE pos[x]
           /\ lo2[x] = IF lo[x] >= at + 1 THEN lo[x] - 1 ELSE lo[x]
           /\ hi2[x] = IF hi[x] >= at THEN hi[x] - 1 ELSE hi[x]
      /\ pos2[e] = IF pos[n] >= at THEN pos[n] - 1 ELSE pos[n]
      /\ lo2[e] = IF lo[n] >= at + 1 THEN lo[n] - 1 ELSE lo[n]
      /\ hi2[e] = IF hi[n] >= at THEN hi[n] - 1 ELSE hi[n]
      /\ pos2 = [x \in S2 |-> pos2[x]]
      /\ lo2 = [x \in S2 |-> lo2[x]] /\ hi2 = [x \in S2 |-> hi2[x]]
  BY <1>5 DEF LessPos, LessLo, LessHi, OneEarlier, MovedTo, Former
<1> HIDE DEF pos2, lo2, hi2
\* n is not below e, and e is below another node.
<1>10. t.par[n] # e /\ t.par[e] # NIL /\ c # n /\ t.kid[n]["left"] # e
  <2>1. t.par[e] # NIL
    <3> SUFFICES ASSUME t.par[e] = NIL PROVE FALSE
      OBVIOUS
    <3>1. lo[e] = 1
      BY <1>1, <1>3 DEF Ordered, Rooted
    <3> QED
      BY <3>1, <1>5, <1>8
  <2>2. c # n
    <3> SUFFICES ASSUME c = n PROVE FALSE
      OBVIOUS
    <3>1. lo[n] = at + 1 /\ lo[n] <= pos[n]
      BY <1>1, <1>2, <1>8
    <3> QED
      BY <3>1, <1>5
  <2>3. t.par[n] # e
    <3> SUFFICES ASSUME t.par[n] = e PROVE FALSE
      OBVIOUS
    <3>1. PICK y \in Side : t.kid[e][y] = n
      BY <1>1 DEF Ordered, Hung
    <3> QED
      BY <3>1, <2>2, <1>1 DEF Side
  <2>4. t.kid[n]["left"] # e
    <3> SUFFICES ASSUME t.kid[n]["left"] = e PROVE FALSE
      OBVIOUS
    <3>1. hi[e] = pos[n] - 1
      BY <1>1, <1>6 DEF Below, Side
    <3>2. pos[e] <= hi[e]
      BY <1>2
    <3> QED
      BY <3>1, <3>2, <1>5
  <2> QED
    BY <2>1, <2>2, <2>3, <2>4
<1>11. lo2[e] = lo[n] /\ pos2[e] = at - 1 /\ hi2[e] = hi[n] - 1 /\ hi[n] >= at
  <2>1. hi[n] >= at
    <3>1. PICK k \in S : k = t.kid[n]["right"]
      BY <1>4 DEF Side
    <3>2. lo[k] = pos[n] + 1 /\ hi[k] = hi[n]
      BY <3>1, <1>1, <1>6 DEF Below, Side
    <3> QED
      BY <3>1, <3>2, <1>2, <1>5
  <2>2. lo[n] < at + 1
    BY <1>2, <1>5
  <2> QED
    BY <2>1, <2>2, <1>2, <1>5, <1>9
<1>12. Placed(S2, m - 1, pos2)
  <2>1. m - 1 \in Nat
    BY <1>1, <1>5
  <2>2. pos2 \in [S2 -> 1 .. m - 1]
    <3>1. ASSUME NEW x \in S2 PROVE pos2[x] \in 1 .. m - 1
      <4>1. CASE x = e
        BY <4>1, <1>1, <1>5, <1>11
      <4>2. CASE x # e /\ pos[x] >= at
        BY <4>2, <1>1, <1>2, <1>5, <1>9
      <4>3. CASE x # e /\ pos[x] < at
        BY <4>3, <1>1, <1>2, <1>5, <1>9
      <4> QED
        BY <4>1, <4>2, <4>3, <1>2, <1>5
    <3> QED
      BY <3>1, <1>9
  <2>3. ASSUME NEW x \in S2, NEW y \in S2, pos2[x] = pos2[y] PROVE x = y
    <3>1. \A v, w \in S : pos[v] = pos[w] => v = w
      BY DEF Ordered, Placed
    <3>2. CASE x # e /\ y # e
      BY <3>1, <3>2, <2>3, <1>2, <1>5, <1>9
    <3>3. \A v \in S2 : v # e => pos2[v] # at - 1
      BY <1>2, <1>5, <1>9
    <3> QED
      BY <3>2, <3>3, <2>3, <1>11
  <2>4. ASSUME NEW i \in 1 .. m - 1 PROVE \E x \in S2 : pos2[x] = i
    <3>1. CASE i = at - 1
      BY <3>1, <1>5, <1>11
    <3>2. CASE i < at - 1
      <4>1. PICK x \in S : pos[x] = i
        BY <3>2, <1>1, <1>5 DEF Ordered, Placed
      <4>2. x \in S2 /\ x # e
        BY <4>1, <3>2, <1>5
      <4> QED
        BY <4>1, <4>2, <3>2, <1>2, <1>5, <1>9
    <3>3. CASE i >= at
      <4>1. PICK x \in S : pos[x] = i + 1
        BY <3>3, <1>1, <1>5 DEF Ordered, Placed
      <4>2. x \in S2 /\ x # e
        BY <4>1, <3>3, <1>5
      <4> QED
        BY <4>1, <4>2, <3>3, <1>2, <1>5, <1>9
    <3> QED
      BY <3>1, <3>2, <3>3, <1>5
  <2> QED
    BY <2>1, <2>2, <2>3, <2>4, <1>1 DEF Placed
<1>13. Spans(S2, m - 1, pos2, lo2, hi2)
  <2>1. ASSUME NEW x \in S2
        PROVE  /\ lo2[x] \in Int /\ hi2[x] \in Int
               /\ 1 <= lo2[x] /\ lo2[x] <= pos2[x] /\ pos2[x] <= hi2[x] /\ hi2[x] <= m - 1
    <3>1. CASE x = e
      BY <3>1, <1>1, <1>2, <1>5, <1>11
    <3>2. CASE x # e
      BY <3>2, <1>1, <1>2, <1>5, <1>9
    <3> QED
      BY <3>1, <3>2
  <2> QED
    BY <2>1, <1>9 DEF Spans
<1>14. Rooted(u, S2, m - 1, lo2, hi2)
  <2>1. t.root \in S /\ t.par[t.root] = NIL /\ lo[t.root] = 1 /\ hi[t.root] = m
    BY DEF Ordered, Rooted
  <2>2. CASE t.par[n] = NIL
    <3>1. u.root = e /\ n = t.root /\ u.par[e] = NIL
      BY <2>2, <1>3 DEF Replaced
    <3> QED
      BY <3>1, <2>1, <1>1, <1>5, <1>11 DEF Rooted
  <2>3. CASE t.par[n] # NIL
    <3>1. t.root \in S2 \ {e} /\ u.root = t.root /\ t.root # c
      BY <2>1, <2>3, <1>1, <1>7, <1>10 DEF Replaced
    <3>2. u.par[t.root] = NIL
      BY <3>1, <2>1, <1>1 DEF Replaced
    <3>3. lo2[t.root] = 1 /\ hi2[t.root] = m - 1
      BY <3>1, <2>1, <1>1, <1>5, <1>9
    <3> QED
      BY <3>1, <3>2, <3>3, <1>1 DEF Rooted
  <2> QED
    BY <2>2, <2>3
<1>15. Hung(u, S2)
  <2>1. SUFFICES ASSUME NEW x \in S2
                 PROVE  IF u.par[x] = NIL THEN x = u.root
                        ELSE u.par[x] \in S2 /\ \E y \in Side : u.kid[u.par[x]][y] = x
    BY DEF Hung
  <2>2. \A b \in S2, y \in Side :
          u.kid[b][y] = Successor(t.kid[Former(b, n, e)][y], n, e, c)
    BY <1>5 DEF Replaced, Former
  <2>3. CASE x = e
    <3>1. u.par[x] = t.par[n]
      BY <2>3 DEF Replaced
    <3>2. CASE t.par[n] = NIL
      BY <2>3, <3>1, <3>2 DEF Replaced
    <3>3. CASE t.par[n] # NIL
      <4>1. t.par[n] \in S2 /\ t.par[n] # e
        BY <3>3, <1>3, <1>10
      <4>2. PICK y \in Side : t.kid[t.par[n]][y] = n
        BY <3>3 DEF Ordered, Hung
      <4>3. u.kid[t.par[n]][y] = e
        BY <4>1, <4>2, <2>2, <1>5 DEF Former, Successor
      <4> QED
        BY <4>1, <4>3, <3>1, <3>3, <2>3
    <3> QED
      BY <3>2, <3>3
  <2>4. CASE x = c
    <3>1. PICK b : b = IF t.par[e] = n THEN e ELSE t.par[e]
      OBVIOUS
    <3>2. u.par[x] = b /\ b \in S2 /\ Former(b, n, e) = t.par[e]
      BY <3>1, <2>4, <1>1, <1>3, <1>5, <1>10 DEF Replaced, Former
    <3>3. PICK y \in Side : t.kid[t.par[e]][y] = e
      BY <1>10 DEF Ordered, Hung
    <3>4. u.kid[b][y] = c
      BY <3>2, <3>3, <2>2 DEF Successor
    <3> QED
      BY <3>2, <3>4, <2>4, <1>1
  <2>5. CASE x # e /\ x # c
    <3>1. u.par[x] = IF t.par[x] = n THEN e ELSE t.par[x]
      BY <2>5 DEF Replaced
    <3>2. CASE t.par[x] = NIL
      <4>1. x = t.root /\ t.par[n] # NIL
        BY <3>2, <1>3
      <4> QED
        BY <4>1, <3>1, <3>2, <1>1 DEF Replaced
    <3>3. CASE t.par[x] # NIL
      <4>1. PICK y \in Side : t.kid[t.par[x]][y] = x
        BY <3>3 DEF Ordered, Hung
      <4>2. t.par[x] # e
        BY <4>1, <2>5, <1>1 DEF Side
      <4>3. PICK b : b = u.par[x]
        OBVIOUS
      <4>4. b \in S2 /\ Former(b, n, e) = t.par[x]
        BY <4>2, <4>3, <3>1, <3>3, <1>3, <1>5 DEF Former
      <4>5. u.kid[b][y] = x
        BY <4>1, <4>4, <2>2, <2>5 DEF Successor
      <4> QED
        BY <4>3, <4>4, <4>5, <1>1
    <3> QED
      BY <3>2, <3>3
  <2> QED
    BY <2>3, <2>4, <2>5
<1>16. ASSUME NEW x \in S2, NEW y \in Side
       PROVE  Below(u, S2, pos2, lo2, hi2, x, y)
  <2>1. PICK w : w = Former(x, n, e)
    OBVIOUS
  <2>2. PICK j : j = t.kid[w][y]
    OBVIOUS
  <2>3. w \in S /\ w # e /\ (w = n <=> x = e) /\ (x # e => w = x)
    BY <2>1, <1>5 DEF Former
  <2>4. j \in S \cup {NIL} /\ (j # NIL => t.par[j] = w) /\ j # w
    BY <2>2, <2>3, <1>4
  <2>5. u.kid[x][y] = Successor(j, n, e, c)
    BY <2>1, <2>2, <1>5 DEF Replaced, Former
  <2>6. pos2[x] = (IF pos[w] >= at THEN pos[w] - 1 ELSE pos[w])
        /\ lo2[x] = (IF lo[w] >= at + 1 THEN lo[w] - 1 ELSE lo[w])
        /\ hi2[x] = (IF hi[w] >= at THEN hi[w] - 1 ELSE hi[w])
    BY <2>3, <1>9
  <2>7. pos[w] # at /\ pos[w] \in Int /\ lo[w] \in Int /\ hi[w] \in Int
    BY <2>3, <1>2, <1>5
  <2>8. IF y = "left"
        THEN IF j = NIL THEN lo[w] = pos[w] ELSE lo[j] = lo[w] /\ hi[j] = pos[w] - 1
        ELSE IF j = NIL THEN hi[w] = pos[w] ELSE lo[j] = pos[w] + 1 /\ hi[j] = hi[w]
    BY <2>2, <2>3, <1>6 DEF Below
  <2>9. CASE j = NIL
    <3>1. u.kid[x][y] = NIL /\ x # e
      BY <2>9, <2>2, <2>3, <2>5, <1>1 DEF Successor, Side
    <3>2. IF y = "left" THEN lo2[x] = pos2[x] ELSE hi2[x] = pos2[x]
      BY <2>6, <2>7, <2>8, <2>9, <1>5
    <3> QED
      BY <3>1, <3>2 DEF Below
  <2>10. CASE j = n
    <3>1. u.kid[x][y] = e /\ u.par[e] = x
      BY <2>3, <2>4, <2>5, <2>10, <1>1, <1>5 DEF Successor, Replaced
    <3>2. pos[n] \in Int /\ hi[n] \in Int /\ lo[n] \in Int /\ lo[n] <= pos[n]
      BY <1>2
    <3>3. IF y = "left" THEN lo2[e] = lo2[x] /\ hi2[e] = pos2[x] - 1
          ELSE lo2[e] = pos2[x] + 1 /\ hi2[e] = hi2[x]
      BY <3>2, <2>6, <2>7, <2>8, <2>10, <1>1, <1>5, <1>11
    <3> QED
      BY <3>1, <3>3, <1>1, <1>5 DEF Below
  <2>11. CASE j = e
    <3>1. u.kid[x][y] = c /\ (c # NIL => u.par[c] = x)
      BY <2>3, <2>4, <2>5, <2>11, <1>1, <1>5 DEF Successor, Replaced
    <3>2. CASE c = NIL
      <4>1. IF y = "left" THEN lo2[x] = pos2[x] ELSE hi2[x] = pos2[x]
        BY <3>2, <2>6, <2>7, <2>8, <2>11, <1>1, <1>5, <1>8
      <4> QED
        BY <4>1, <3>1, <3>2 DEF Below
    <3>3. CASE c # NIL
      <4>1. c \in S2 /\ c # e /\ lo2[c] = at /\ hi2[c] = hi[e] - 1 /\ hi[e] \in Int /\ hi[e] >= at
        <5>1. c \in S2 /\ c # e /\ lo[c] = at + 1 /\ hi[c] = hi[e]
          BY <3>3, <1>7, <1>8, <1>10
        <5>2. hi[e] \in Int /\ hi[e] >= at
          BY <1>2
        <5> QED
          BY <5>1, <5>2, <1>5, <1>9
      <4>2. IF y = "left" THEN lo2[c] = lo2[x] /\ hi2[c] = pos2[x] - 1
            ELSE lo2[c] = pos2[x] + 1 /\ hi2[c] = hi2[x]
        BY <4>1, <2>6, <2>7, <2>8, <2>11, <1>1, <1>5, <1>8
      <4> QED
        BY <4>1, <4>2, <3>1, <3>3 DEF Below
    <3> QED
      BY <3>2, <3>3
  <2>12. CASE j # NIL /\ j # n /\ j # e
    <3>1. u.kid[x][y] = j /\ j \in S2 /\ j # e /\ j # c
      BY <2>3, <2>4, <2>5, <2>12, <1>7 DEF Successor
    <3>2. u.par[j] = x
      BY <3>1, <2>3, <2>4, <2>12 DEF Replaced
    <3>3. lo[j] \in Int /\ hi[j] \in Int
          /\ lo2[j] = (IF lo[j] >= at + 1 THEN lo[j] - 1 ELSE lo[j])
          /\ hi2[j] = (IF hi[j] >= at THEN hi[j] - 1 ELSE hi[j])
      BY <3>1, <1>2, <1>9
    <3>4. IF y = "left" THEN lo2[j] = lo2[x] /\ hi2[j] = pos2[x] - 1
          ELSE lo2[j] = pos2[x] + 1 /\ hi2[j] = hi2[x]
      BY <3>3, <2>6, <2>7, <2>8, <2>12, <1>5
    <3> QED
      BY <3>1, <3>2, <3>4, <2>12 DEF Below
  <2> QED
    BY <2>9, <2>10, <2>11, <2>12
<1> QED
  BY <1>12, <1>13, <1>14, <1>15, <1>16 DEF Ordered, pos2, lo2, hi2

-----------------------------------------------------------------------------
(* What the walks of the tree find *)

\* A kid has fewer nodes below it.
LEMMA KidIsNarrower ==
  ASSUME NEW t \in Tree, NEW S, NEW m, NEW pos, NEW lo, NEW hi,
         Ordered(t, S, m, pos, lo, hi), NEW x \in S, NEW s \in Side,
         NEW k, k = t.kid[x][s], k # NIL
  PROVE  /\ k \in S /\ t.par[k] = x
         /\ hi[k] - lo[k] \in Nat /\ hi[x] - lo[x] \in Nat
         /\ hi[k] - lo[k] < hi[x] - lo[x]
<1>1. k \in S /\ t.par[k] = x
  BY OrderedFacts, TreeFields DEF Ordered, Placed
<1>2. /\ lo[x] \in Int /\ hi[x] \in Int /\ pos[x] \in Int /\ lo[k] \in Int /\ hi[k] \in Int
      /\ lo[x] <= pos[x] /\ pos[x] <= hi[x] /\ lo[k] <= pos[k] /\ pos[k] <= hi[k] /\ pos[k] \in Int
  BY <1>1 DEF Ordered, Spans, Placed
<1>3. IF s = "left" THEN lo[k] = lo[x] /\ hi[k] = pos[x] - 1
      ELSE lo[k] = pos[x] + 1 /\ hi[k] = hi[x]
  BY DEF Ordered, Below
<1> QED
  BY <1>1, <1>2, <1>3

\* What holds of a node when it holds of its kids holds of all nodes.
LEMMA UpTheTree ==
  ASSUME NEW t \in Tree, NEW S, NEW m, NEW pos, NEW lo, NEW hi,
         Ordered(t, S, m, pos, lo, hi), NEW G \in SUBSET S,
         \A x \in S : (\A s \in Side : t.kid[x][s] # NIL => t.kid[x][s] \in G) => x \in G
  PROVE  G = S
<1> SUFFICES ASSUME S \ G # {} PROVE FALSE
  OBVIOUS
<1> DEFINE T == {hi[x] - lo[x] : x \in S \ G}
<1>1. T \in SUBSET Nat /\ T # {}
  <2>1. \A x \in S : hi[x] - lo[x] \in Nat
    <3> TAKE x \in S
    <3>1. lo[x] \in Int /\ hi[x] \in Int /\ pos[x] \in Int /\ lo[x] <= pos[x] /\ pos[x] <= hi[x]
      BY DEF Ordered, Spans, Placed
    <3> QED
      BY <3>1
  <2> QED
    BY <2>1
<1> HIDE DEF T
<1>2. PICK w \in T : \A v \in T : w <= v
  BY <1>1, LeastNat
<1>3. PICK x \in S \ G : w = hi[x] - lo[x]
  BY <1>2 DEF T
<1>4. PICK s \in Side : t.kid[x][s] # NIL /\ t.kid[x][s] \notin G
  BY <1>3
<1>5. PICK k : k = t.kid[x][s]
  OBVIOUS
<1>6. k \in S \ G /\ hi[k] - lo[k] \in Nat /\ hi[k] - lo[k] < w /\ w \in Nat
  BY <1>3, <1>4, <1>5, KidIsNarrower
<1>7. hi[k] - lo[k] \in T
  BY <1>6 DEF T
<1> QED
  BY <1>2, <1>6, <1>7

\* The nodes have as many places as there are nodes.
LEMMA PlacesCount ==
  ASSUME NEW S, NEW m, NEW pos, Placed(S, m, pos)
  PROVE  Cardinality(Node) \in Nat /\ m <= Cardinality(Node)
<1>1. IsFiniteSet(Node) /\ S \subseteq Node /\ m \in Nat
  BY RBTreeAssumption DEF Placed
<1>2. IsFiniteSet(S) /\ Cardinality(S) \in Nat /\ Cardinality(Node) \in Nat
      /\ Cardinality(S) <= Cardinality(Node)
  BY <1>1, FS_Subset, FS_CardinalityType
<1>3. PICK f : f = [i \in 1 .. m |-> CHOOSE x \in S : pos[x] = i]
  OBVIOUS
<1>4. f \in [1 .. m -> S] /\ \A i \in 1 .. m : pos[f[i]] = i
  BY <1>3 DEF Placed
<1>5. \A i, j \in 1 .. m : f[i] = f[j] => i = j
  BY <1>4
<1>6. f \in Injection(1 .. m, S)
  BY <1>4, <1>5 DEF Injection, IsInjective
<1>7. IsFiniteSet(1 .. m) /\ Cardinality(1 .. m) = m
  BY <1>1, FS_Interval
<1>8. Cardinality(1 .. m) <= Cardinality(S)
  BY <1>2, <1>6, FS_Injection
<1> QED
  BY <1>1, <1>2, <1>7, <1>8

NextLevel(t, A) == ({t.root} \cup {Kid(t, n, s) : n \in A, s \in Side}) \ {NIL}

Levels(t, f, k) == f = [d \in 0 .. k |-> IF d = 0 THEN {} ELSE NextLevel(t, f[d - 1])]

LEMMA LevelsExist ==
  ASSUME NEW t, NEW k \in Nat
  PROVE  \E f : Levels(t, f, k)
<1> DEFINE G == {n \in Nat : \E f : Levels(t, f, n)}
<1>1. 0 \in G
  <2>1. PICK f : f = [d \in 0 .. 0 |-> {}]
    OBVIOUS
  <2>2. f = [d \in 0 .. 0 |-> IF d = 0 THEN {} ELSE NextLevel(t, f[d - 1])]
    BY <2>1
  <2> QED
    BY <2>2 DEF Levels
<1>2. ASSUME NEW n \in G PROVE n + 1 \in G
  <2>1. PICK f : Levels(t, f, n)
    OBVIOUS
  <2>2. PICK g : g = [d \in 0 .. n + 1 |-> IF d = 0 THEN {} ELSE NextLevel(t, f[d - 1])]
    OBVIOUS
  <2>3. \A d \in 0 .. n : g[d] = f[d]
    <3> TAKE d \in 0 .. n
    <3>1. d \in 0 .. n + 1
      OBVIOUS
    <3> QED
      BY <2>1, <2>2, <3>1 DEF Levels
  <2>4. g = [d \in 0 .. n + 1 |-> IF d = 0 THEN {} ELSE NextLevel(t, g[d - 1])]
    <3>1. \A d \in 0 .. n + 1 : d # 0 => d - 1 \in 0 .. n
      OBVIOUS
    <3>2. \A d \in 0 .. n + 1 : d # 0 => g[d - 1] = f[d - 1]
      BY <2>3, <3>1
    <3> QED
      BY <2>2, <3>2
  <2> QED
    BY <2>4 DEF Levels
<1> HIDE DEF G
<1>3. G = Nat
  <2>1. G \in SUBSET Nat
    BY DEF G
  <2> QED
    BY <1>1, <1>2, <2>1, InductNat
<1> QED
  BY <1>3 DEF G

\* Each level holds the root and the kids of the one above.
LEMMA UpperIs ==
  ASSUME NEW t, NEW f, f = Upper(t), NEW N, N = Cardinality(Node)
  PROVE  /\ N \in Nat /\ f[0] = {}
         /\ \A n \in Nat : n + 1 <= N => f[n + 1] = NextLevel(t, f[n])
<1>1. N \in Nat
  BY RBTreeAssumption, FS_CardinalityType
<1>2. f = CHOOSE g : Levels(t, g, N)
  BY DEF Upper, Levels, NextLevel
<1>3. f = [d \in 0 .. N |-> IF d = 0 THEN {} ELSE NextLevel(t, f[d - 1])]
  <2>1. \E g : Levels(t, g, N)
    BY <1>1, LevelsExist
  <2>2. Levels(t, f, N)
    BY <1>2, <2>1
  <2> QED
    BY <2>2 DEF Levels
<1>4. ASSUME NEW n \in Nat, n + 1 <= N PROVE f[n + 1] = NextLevel(t, f[n])
  <2>1. n + 1 \in 0 .. N /\ n + 1 # 0 /\ (n + 1) - 1 = n
    BY <1>1, <1>4
  <2> QED
    BY <1>3, <2>1
<1>5. 0 \in 0 .. N
  BY <1>1
<1> QED
  BY <1>1, <1>3, <1>4, <1>5

\* The walk down from the root meets the nodes of the order.
LEMMA NodesAre ==
  ASSUME NEW t \in Tree, NEW S, NEW m, NEW pos, NEW lo, NEW hi,
         Ordered(t, S, m, pos, lo, hi)
  PROVE  NodesOf(t) = S
<1>1. PICK N : N = Cardinality(Node)
  OBVIOUS
<1>2. N \in Nat /\ m <= N /\ m \in Nat
  BY <1>1, PlacesCount DEF Ordered, Placed
<1>3. PICK f : f = Upper(t)
  OBVIOUS
<1>4. NodesOf(t) = f[N]
  BY <1>1, <1>3 DEF NodesOf
<1>6. f[0] = {} /\ \A n \in Nat : n + 1 <= N => f[n + 1] = NextLevel(t, f[n])
  BY <1>1, <1>3, UpperIs
<1>7. NIL \notin S /\ S \subseteq Node
  BY TreeFields DEF Ordered, Placed
<1>8. f[N] \subseteq S
  <2> DEFINE G == {n \in Nat : n <= N => f[n] \subseteq S}
  <2>1. 0 \in G
    BY <1>6
  <2>2. ASSUME NEW n \in G PROVE n + 1 \in G
    <3>1. SUFFICES ASSUME n + 1 <= N PROVE f[n + 1] \subseteq S
      OBVIOUS
    <3>2. f[n] \subseteq S /\ f[n + 1] = NextLevel(t, f[n])
      BY <1>2, <1>6, <3>1
    <3>3. \A x \in S, s \in Side : Kid(t, x, s) \in S \cup {NIL}
      BY OrderedFacts DEF Kid
    <3>4. t.root \in S \cup {NIL}
      BY DEF Ordered, Rooted
    <3> QED
      BY <3>2, <3>3, <3>4 DEF NextLevel
  <2> HIDE DEF G
  <2>3. G = Nat
    <3>1. G \in SUBSET Nat
      BY DEF G
    <3> QED
      BY <2>1, <2>2, <3>1, InductNat
  <2> QED
    BY <1>2, <2>3 DEF G
<1>9. S \subseteq f[N]
  <2> DEFINE G == {n \in Nat : n <= N => \A x \in S : hi[x] - lo[x] >= N - n => x \in f[n]}
  <2>1. 0 \in G
    <3>1. \A x \in S : ~(hi[x] - lo[x] >= N - 0)
      <4> TAKE x \in S
      <4>1. lo[x] \in Int /\ hi[x] \in Int /\ 1 <= lo[x] /\ hi[x] <= m
        BY DEF Ordered, Spans
      <4> QED
        BY <4>1, <1>2
    <3> QED
      BY <3>1
  <2>2. ASSUME NEW n \in G PROVE n + 1 \in G
    <3>1. SUFFICES ASSUME n + 1 <= N, NEW x \in S, hi[x] - lo[x] >= N - (n + 1)
                   PROVE  x \in f[n + 1]
      OBVIOUS
    <3>2. f[n + 1] = NextLevel(t, f[n]) /\ x # NIL
      BY <1>6, <1>7, <3>1
    <3>3. CASE t.par[x] = NIL
      <4>1. x = t.root
        BY <3>3, OrderedFacts
      <4> QED
        BY <4>1, <3>2 DEF NextLevel
    <3>4. CASE t.par[x] # NIL
      <4>1. PICK p : p = t.par[x]
        OBVIOUS
      <4>2. p \in S
        BY <3>4, <4>1, OrderedFacts
      <4>3. PICK s \in Side : t.kid[p][s] = x
        BY <3>4, <4>1 DEF Ordered, Hung
      <4>4. hi[x] - lo[x] \in Nat /\ hi[p] - lo[p] \in Nat /\ hi[x] - lo[x] < hi[p] - lo[p]
        BY <3>2, <4>2, <4>3, KidIsNarrower
      <4>5. hi[p] - lo[p] >= N - n
        BY <1>2, <3>1, <4>4
      <4>6. p \in f[n]
        BY <1>2, <3>1, <4>2, <4>5
      <4> QED
        BY <3>2, <4>3, <4>6 DEF NextLevel, Kid
    <3> QED
      BY <3>3, <3>4
  <2> HIDE DEF G
  <2>3. G = Nat
    <3>1. G \in SUBSET Nat
      BY DEF G
    <3> QED
      BY <2>1, <2>2, <3>1, InductNat
  <2>4. ASSUME NEW x \in S PROVE x \in f[N]
    <3>1. lo[x] \in Int /\ hi[x] \in Int /\ pos[x] \in Int /\ lo[x] <= pos[x] /\ pos[x] <= hi[x]
      BY DEF Ordered, Spans, Placed
    <3>2. hi[x] - lo[x] >= N - N
      BY <1>2, <3>1
    <3> QED
      BY <1>2, <2>3, <3>2 DEF G
  <2> QED
    BY <2>4
<1> QED
  BY <1>4, <1>8, <1>9

\* The node at each place.
Sequence(S, m, pos) == [i \in 1 .. m |-> CHOOSE x \in S : pos[x] = i]

LEMMA SequenceIs ==
  ASSUME NEW S, NEW m, NEW pos, Placed(S, m, pos), NEW q, q = Sequence(S, m, pos)
  PROVE  /\ q \in Seq(S) /\ Len(q) = m /\ m \in Nat
         /\ \A x \in S : pos[x] \in 1 .. m /\ q[pos[x]] = x
         /\ \A i \in 1 .. m : q[i] \in S /\ pos[q[i]] = i
<1>1. m \in Nat /\ \A x \in S : pos[x] \in 1 .. m
  BY DEF Placed
<1>2. \A i \in 1 .. m : q[i] \in S /\ pos[q[i]] = i
  BY DEF Sequence, Placed
<1>3. q = [i \in 1 .. m |-> q[i]]
  BY DEF Sequence
<1>4. q \in Seq(S) /\ Len(q) = m
  BY <1>1, <1>2, <1>3
<1>5. \A x \in S : q[pos[x]] = x
  BY <1>1, <1>2 DEF Placed
<1> QED
  BY <1>1, <1>2, <1>4, <1>5

\* The walk to the left ends at the first node below x.
LEMMA FarthestIs ==
  ASSUME NEW t \in Tree, NEW S, NEW m, NEW pos, NEW lo, NEW hi,
         Ordered(t, S, m, pos, lo, hi), NEW x \in S,
         NEW e, e = Farthest(t, x, "left")
  PROVE  e \in S /\ pos[e] = lo[x] /\ t.kid[e]["left"] = NIL
<1> DEFINE Ends(f) == f = [y \in S |-> IF Kid(t, y, "left") = NIL THEN y
                                       ELSE f[Kid(t, y, "left")]]
<1>1. PICK q : q = Sequence(S, m, pos)
  OBVIOUS
<1>2. PICK f : f = CHOOSE g : Ends(g)
  OBVIOUS
<1>3. e = f[x]
  <2>1. NodesOf(t) = S
    BY NodesAre
  <2> QED
    BY <1>2, <2>1 DEF Farthest
<1>4. \A y \in S : LET k == t.kid[y]["left"]
                   IN  IF k = NIL THEN lo[y] = pos[y] ELSE k \in S /\ lo[k] = lo[y]
  BY DEF Ordered, Below, Side
<1>5. \A y \in S : lo[y] \in 1 .. m
  BY DEF Ordered, Spans, Placed
<1>6. \E g : Ends(g)
  <2>1. PICK g : g = [y \in S |-> q[lo[y]]]
    OBVIOUS
  <2>2. ASSUME NEW y \in S
        PROVE  g[y] = IF Kid(t, y, "left") = NIL THEN y ELSE g[Kid(t, y, "left")]
    <3>1. q[pos[y]] = y
      BY <1>1, SequenceIs DEF Ordered
    <3> QED
      BY <2>1, <3>1, <1>4 DEF Kid
  <2>3. Ends(g)
    BY <2>1, <2>2
  <2> QED
    BY <2>3
<1>7. Ends(f)
  BY <1>2, <1>6
<1>8. \A y \in S : f[y] = IF t.kid[y]["left"] = NIL THEN y ELSE f[t.kid[y]["left"]]
  BY <1>7 DEF Kid
<1> DEFINE G == {y \in S : f[y] \in S /\ pos[f[y]] = lo[y] /\ t.kid[f[y]]["left"] = NIL}
<1>9. \A y \in S : (\A s \in Side : t.kid[y][s] # NIL => t.kid[y][s] \in G) => y \in G
  BY <1>4, <1>8 DEF Side
<1> HIDE DEF G
<1>10. G = S
  <2>1. G \in SUBSET S
    BY DEF G
  <2> QED
    BY <1>9, <2>1, UpTheTree
<1> QED
  BY <1>3, <1>10 DEF G

\* After the first node comes the second, if there is one.
LEMMA NextOfFirst ==
  ASSUME NEW t \in Tree, NEW S, NEW m, NEW pos, NEW lo, NEW hi,
         Ordered(t, S, m, pos, lo, hi), NEW x \in S, pos[x] = 1,
         NEW e, e = rb_next(t, x)
  PROVE  IF m = 1 THEN e = NIL ELSE e \in S /\ pos[e] = 2
<1>1. /\ \A y \in S : /\ lo[y] \in Int /\ hi[y] \in Int /\ pos[y] \in Int
                      /\ 1 <= lo[y] /\ lo[y] <= pos[y] /\ pos[y] <= hi[y] /\ hi[y] <= m
      /\ m \in Nat
  BY DEF Ordered, Spans, Placed
<1>2. \A y \in S, s \in Side : Below(t, S, pos, lo, hi, y, s)
  BY DEF Ordered
<1>3. PICK k : k = t.kid[x]["right"]
  OBVIOUS
<1>4. CASE k # NIL
  <2>1. k \in S /\ lo[k] = 2
    BY <1>2, <1>3, <1>4 DEF Below, Side
  <2>2. e = Farthest(t, k, "left")
    BY <1>3, <1>4 DEF rb_next, Kid
  <2>3. e \in S /\ pos[e] = 2
    BY <2>1, <2>2, FarthestIs
  <2>4. m # 1
    BY <2>3, <1>1
  <2> QED
    BY <2>3, <2>4
<1>5. CASE k = NIL
  <2> DEFINE Ups(f) == f = [y \in S |-> LET p == t.par[y]
                                        IN  IF p # NIL /\ y = Kid(t, p, "right")
                                            THEN f[p] ELSE p]
  <2>1. PICK q : q = Sequence(S, m, pos)
    OBVIOUS
  <2>2. PICK f : f = CHOOSE g : Ups(g)
    OBVIOUS
  <2>3. e = f[x]
    <3>1. NodesOf(t) = S
      BY NodesAre
    <3>2. e = Climb(t, x)
      BY <1>3, <1>5 DEF rb_next, Kid
    <3> QED
      BY <2>2, <3>1, <3>2 DEF Climb
  <2>4. \A y \in S : t.par[y] # NIL => t.par[y] \in S
    BY OrderedFacts
  <2>5. \A y \in S : t.par[y] = NIL => hi[y] = m
    BY DEF Ordered, Hung, Rooted
  <2>6. ASSUME NEW y \in S, NEW p, p = t.par[y], p # NIL
        PROVE  IF y = t.kid[p]["right"] THEN hi[y] = hi[p] /\ lo[y] = pos[p] + 1
               ELSE hi[y] = pos[p] - 1
    <3>1. p \in S /\ y # NIL
      BY <2>4, <2>6, TreeFields DEF Ordered, Placed
    <3>2. PICK s \in Side : t.kid[p][s] = y
      BY <2>6 DEF Ordered, Hung
    <3> QED
      BY <3>1, <3>2, <1>2 DEF Below, Side
  <2>7. \E g : Ups(g)
    <3>1. PICK g : g = [y \in S |-> IF hi[y] = m THEN NIL ELSE q[hi[y] + 1]]
      OBVIOUS
    <3>2. ASSUME NEW y \in S, NEW p, p = t.par[y]
          PROVE  g[y] = IF p # NIL /\ y = Kid(t, p, "right") THEN g[p] ELSE p
      <4>1. CASE p = NIL
        BY <4>1, <3>1, <3>2, <2>5
      <4>2. CASE p # NIL /\ y = t.kid[p]["right"]
        BY <4>2, <3>1, <3>2, <2>4, <2>6 DEF Kid
      <4>3. CASE p # NIL /\ y # t.kid[p]["right"]
        <5>1. p \in S /\ hi[y] = pos[p] - 1
          BY <4>3, <3>2, <2>4, <2>6
        <5>2. q[pos[p]] = p
          BY <5>1, <2>1, SequenceIs DEF Ordered
        <5>3. hi[y] # m /\ hi[y] + 1 = pos[p]
          BY <5>1, <1>1
        <5>4. g[y] = p
          BY <5>2, <5>3, <3>1
        <5> QED
          BY <5>4, <4>3 DEF Kid
      <4> QED
        BY <4>1, <4>2, <4>3
    <3>3. Ups(g)
      <4>1. \A y \in S : g[y] = LET p == t.par[y]
                                IN  IF p # NIL /\ y = Kid(t, p, "right") THEN g[p] ELSE p
        BY <3>2
      <4>2. g = [y \in S |-> g[y]]
        BY <3>1
      <4> QED
        BY <4>1, <4>2
    <3> QED
      BY <3>3
  <2>8. Ups(f)
    BY <2>2, <2>7
  <2>9. PICK p : p = t.par[x]
    OBVIOUS
  <2>10. ~(p # NIL /\ x = t.kid[p]["right"])
    <3> SUFFICES ASSUME p # NIL, x = t.kid[p]["right"] PROVE FALSE
      OBVIOUS
    <3>1. p \in S /\ lo[x] = pos[p] + 1
      BY <2>4, <2>6, <2>9
    <3> QED
      BY <3>1, <1>1
  <2>11. e = p
    BY <2>3, <2>8, <2>9, <2>10 DEF Kid
  <2>12. hi[x] = 1
    BY <1>2, <1>3, <1>5 DEF Below, Side
  <2>13. CASE p = NIL
    BY <2>5, <2>9, <2>11, <2>12, <2>13
  <2>14. CASE p # NIL
    <3>1. p \in S /\ hi[x] = pos[p] - 1
      BY <2>4, <2>6, <2>9, <2>10, <2>14
    <3>2. pos[p] = 2 /\ m # 1
      BY <3>1, <2>12, <1>1
    <3> QED
      BY <3>1, <3>2, <2>11
  <2> QED
    BY <2>13, <2>14
<1> QED
  BY <1>4, <1>5

\* A part of a sequence, around one of its elements.
Parts(S, q, a, p, b, x) ==
  /\ q \in Seq(S) /\ a \in Int /\ p \in Int /\ b \in Int
  /\ 1 <= a /\ a <= p /\ p <= b /\ b <= Len(q) /\ x = q[p]

Joined(q, a, p, b, x) ==
  SubSeq(q, a, p - 1) \o <<x>> \o SubSeq(q, p + 1, b) = SubSeq(q, a, b)

LEMMA PartsJoin ==
  ASSUME NEW S, NEW q, NEW a, NEW p, NEW b, NEW x, Parts(S, q, a, p, b, x)
  PROVE  Joined(q, a, p, b, x)
<1>0. /\ q \in Seq(S) /\ a \in Int /\ p \in Int /\ b \in Int
      /\ 1 <= a /\ a <= p /\ p <= b /\ b <= Len(q) /\ x = q[p]
  BY DEF Parts
<1>1. PICK l \in Nat : l = Len(q)
  BY <1>0
<1>2. /\ a \in 1 .. l + 1 /\ p - 1 \in a - 1 .. l /\ p \in p - 1 .. l
      /\ p \in a - 1 .. l /\ b \in p .. l /\ (p - 1) + 1 = p
  BY <1>0, <1>1
<1>4. SubSeq(q, a, p - 1) \o <<x>> = SubSeq(q, a, p)
  <2>1. a \in 1 .. Len(q) /\ p \in a .. Len(q)
    BY <1>0, <1>1
  <2> QED
    BY <2>1, <1>0, SubSeqRecursiveSecond
<1>5. SubSeq(q, a, p) \o SubSeq(q, p + 1, b) = SubSeq(q, a, b)
  BY <1>0, <1>1, <1>2, ConcatAdjacentSubSeq
<1> QED
  BY <1>4, <1>5 DEF Joined

\* InOrder gives the nodes in the order of their places.
LEMMA InOrderIs ==
  ASSUME NEW t \in Tree, NEW S, NEW m, NEW pos, NEW lo, NEW hi,
         Ordered(t, S, m, pos, lo, hi)
  PROVE  InOrder(t) = Sequence(S, m, pos)
<1>1. PICK q : q = Sequence(S, m, pos)
  OBVIOUS
<1>2. /\ q \in Seq(S) /\ Len(q) = m /\ m \in Nat
      /\ \A x \in S : pos[x] \in 1 .. m /\ q[pos[x]] = x
  BY <1>1, SequenceIs DEF Ordered
<1> DEFINE Lower(f, y, s) == IF Kid(t, y, s) = NIL THEN << >> ELSE f[Kid(t, y, s)]
           Orders(f) == f = [y \in S |-> Lower(f, y, "left") \o <<y>> \o Lower(f, y, "right")]
           W(y) == SubSeq(q, lo[y], hi[y])
<1>3. \A y \in S, s \in Side : Below(t, S, pos, lo, hi, y, s)
  BY DEF Ordered
<1>4. ASSUME NEW y \in S, NEW u, NEW v,
             LET k == t.kid[y]["left"] IN u = IF k = NIL THEN << >> ELSE W(k),
             LET k == t.kid[y]["right"] IN v = IF k = NIL THEN << >> ELSE W(k)
      PROVE  u \o <<y>> \o v = W(y)
  <2>1. /\ lo[y] \in Int /\ hi[y] \in Int /\ pos[y] \in Int
        /\ 1 <= lo[y] /\ lo[y] <= pos[y] /\ pos[y] <= hi[y] /\ hi[y] <= m /\ q[pos[y]] = y
    BY <1>2 DEF Ordered, Spans, Placed
  <2>2. u = SubSeq(q, lo[y], pos[y] - 1)
    <3>1. PICK k : k = t.kid[y]["left"]
      OBVIOUS
    <3>2. CASE k = NIL
      <4>1. lo[y] = pos[y]
        BY <3>1, <3>2, <1>3 DEF Below, Side
      <4>2. SubSeq(q, pos[y], pos[y] - 1) = << >>
        BY <2>1, <1>2, SubSeqEmpty
      <4> QED
        BY <3>1, <3>2, <4>1, <4>2, <1>4
    <3>3. CASE k # NIL
      <4>1. lo[k] = lo[y] /\ hi[k] = pos[y] - 1
        BY <3>1, <3>3, <1>3 DEF Below, Side
      <4> QED
        BY <3>1, <3>3, <4>1, <1>4
    <3> QED
      BY <3>2, <3>3
  <2>3. v = SubSeq(q, pos[y] + 1, hi[y])
    <3>1. PICK k : k = t.kid[y]["right"]
      OBVIOUS
    <3>2. CASE k = NIL
      <4>1. hi[y] = pos[y]
        BY <3>1, <3>2, <1>3 DEF Below, Side
      <4>2. SubSeq(q, pos[y] + 1, pos[y]) = << >>
        BY <2>1, <1>2, SubSeqEmpty
      <4> QED
        BY <3>1, <3>2, <4>1, <4>2, <1>4
    <3>3. CASE k # NIL
      <4>1. lo[k] = pos[y] + 1 /\ hi[k] = hi[y]
        BY <3>1, <3>3, <1>3 DEF Below, Side
      <4> QED
        BY <3>1, <3>3, <4>1, <1>4
    <3> QED
      BY <3>2, <3>3
  <2>4. PICK a \in Int, p \in Int, b \in Int : a = lo[y] /\ p = pos[y] /\ b = hi[y]
    BY <2>1
  <2>5. SubSeq(q, a, p - 1) \o <<y>> \o SubSeq(q, p + 1, b) = SubSeq(q, a, b)
    <3>1. 1 <= a
      BY <2>1, <2>4
    <3>2. a <= p
      BY <2>1, <2>4
    <3>3. p <= b
      BY <2>1, <2>4
    <3>4. b <= Len(q)
      BY <2>1, <2>4, <1>2
    <3>5. y = q[p]
      BY <2>1, <2>4
    <3>6. q \in Seq(S)
      BY <1>2
    <3>7. Parts(S, q, a, p, b, y)
      BY <3>1, <3>2, <3>3, <3>4, <3>5, <3>6 DEF Parts
    <3>8. Joined(q, a, p, b, y)
      BY <3>7, PartsJoin
    <3> QED
      BY <3>8 DEF Joined
  <2> QED
    BY <2>2, <2>3, <2>4, <2>5
<1> HIDE DEF W
<1>5. PICK f : f = CHOOSE g : Orders(g)
  OBVIOUS
<1>6. InOrder(t) = IF t.root = NIL THEN << >> ELSE f[t.root]
  <2>1. NodesOf(t) = S
    BY NodesAre
  <2> QED
    BY <1>5, <2>1 DEF InOrder
<1>7. \A y \in S, s \in Side : Kid(t, y, s) = t.kid[y][s] /\ t.kid[y][s] \in S \cup {NIL}
  BY OrderedFacts DEF Kid
<1>8. \E g : Orders(g)
  <2>1. PICK g : g = [y \in S |-> W(y)]
    OBVIOUS
  <2>2. ASSUME NEW y \in S
        PROVE  g[y] = Lower(g, y, "left") \o <<y>> \o Lower(g, y, "right")
    <3>1. ASSUME NEW s \in Side
          PROVE  LET k == t.kid[y][s] IN Lower(g, y, s) = IF k = NIL THEN << >> ELSE W(k)
      BY <2>1, <1>7
    <3>2. Lower(g, y, "left") \o <<y>> \o Lower(g, y, "right") = W(y)
      BY <3>1, <1>4 DEF Side
    <3> QED
      BY <2>1, <3>2
  <2>3. Orders(g)
    <3>1. g = [y \in S |-> g[y]]
      BY <2>1
    <3> HIDE DEF Lower
    <3> QED
      BY <2>2, <3>1
  <2> QED
    BY <2>3
<1>9. Orders(f)
  BY <1>5, <1>8
<1> DEFINE G == {y \in S : f[y] = W(y)}
<1>10. ASSUME NEW y \in S, \A s \in Side : t.kid[y][s] # NIL => t.kid[y][s] \in G
       PROVE  y \in G
  <2>1. ASSUME NEW s \in Side
        PROVE  LET k == t.kid[y][s] IN Lower(f, y, s) = IF k = NIL THEN << >> ELSE W(k)
    BY <1>7, <1>10
  <2>2. PICK u : u = Lower(f, y, "left")
    OBVIOUS
  <2>3. PICK v : v = Lower(f, y, "right")
    OBVIOUS
  <2>4. u \o <<y>> \o v = W(y)
    BY <2>1, <2>2, <2>3, <1>4 DEF Side
  <2>5. f[y] = u \o <<y>> \o v
    BY <2>2, <2>3, <1>9
  <2> QED
    BY <2>4, <2>5
<1> HIDE DEF G
<1>11. G = S
  <2>1. G \in SUBSET S
    BY DEF G
  <2> QED
    BY <1>10, <2>1, UpTheTree
<1>12. CASE t.root = NIL
  <2>1. m = 0
    BY <1>12 DEF Ordered, Rooted
  <2>2. q = << >>
    BY <2>1, <1>2, EmptySeq
  <2> QED
    BY <2>2, <1>1, <1>6, <1>12
<1>13. CASE t.root # NIL
  <2>1. t.root \in S /\ lo[t.root] = 1 /\ hi[t.root] = m
    BY <1>13 DEF Ordered, Rooted
  <2>2. f[t.root] = SubSeq(q, 1, Len(q))
    BY <2>1, <1>2, <1>11 DEF G, W
  <2>3. SubSeq(q, 1, Len(q)) = q
    BY <1>2, SubSeqFull
  <2> QED
    BY <2>2, <2>3, <1>1, <1>6, <1>13
<1> QED
  BY <1>12, <1>13

-----------------------------------------------------------------------------
(* Colours and black heights *)

Ink(t, n) == IF IsBlack(t, n) THEN 1 ELSE 0

\* The black nodes on a path down from the kid k.
Deep(h, k) == IF k = NIL THEN 0 ELSE h[k]

\* Every path down from x on side s has h[x] black nodes, and one less where
\* the gap is.
Even(t, h, x, s, gap) ==
  h[x] = Deep(h, t.kid[x][s]) + Ink(t, x) + (IF gap = <<x, s>> THEN 1 ELSE 0)

Balanced(t, S, h, gap) ==
  /\ h \in [S -> Nat]
  /\ \A x \in S, s \in Side : Even(t, h, x, s, gap)

NoGap == <<NIL, "left">>

\* No node but extra is red below a red one, or a red root.
RedsApart(t, S, extra) ==
  /\ \A x \in S, s \in Side :
       IsRed(t, x) /\ IsRed(t, t.kid[x][s]) => t.kid[x][s] = extra
  /\ IsRed(t, t.root) => t.root = extra

\* All paths of a tree without a gap have as many black nodes.
LEMMA BlackHeightsAre ==
  ASSUME NEW t \in Tree, NEW S, NEW m, NEW pos, NEW lo, NEW hi,
         Ordered(t, S, m, pos, lo, hi), NEW h, Balanced(t, S, h, NoGap)
  PROVE  Cardinality(BlackHeights(t)) = 1
<1> DEFINE Lower(f, y, s) == IF Kid(t, y, s) = NIL THEN {0} ELSE f[Kid(t, y, s)]
           Step(f, y) == {i + (IF IsBlack(t, y) THEN 1 ELSE 0) :
                            i \in Lower(f, y, "left") \cup Lower(f, y, "right")}
           Heights(f) == f = [y \in S |-> Step(f, y)]
<1>1. PICK f : f = CHOOSE g : Heights(g)
  OBVIOUS
<1>2. BlackHeights(t) = IF t.root = NIL THEN {0} ELSE f[t.root]
  <2>1. NodesOf(t) = S
    BY NodesAre
  <2> QED
    BY <1>1, <2>1 DEF BlackHeights
<1>3. \A y \in S, s \in Side : Kid(t, y, s) = t.kid[y][s] /\ t.kid[y][s] \in S \cup {NIL}
  BY OrderedFacts DEF Kid
<1>4. NIL \notin S
  BY TreeFields DEF Ordered, Placed
<1>5. \A y \in S, s \in Side :
        h[y] \in Nat /\ Deep(h, t.kid[y][s]) \in Nat
        /\ h[y] = Deep(h, t.kid[y][s]) + (IF IsBlack(t, y) THEN 1 ELSE 0)
  <2> TAKE y \in S, s \in Side
  <2>1. h[y] \in Nat /\ Deep(h, t.kid[y][s]) \in Nat
    BY <1>3 DEF Balanced, Deep
  <2>2. Even(t, h, y, s, NoGap) /\ NoGap # <<y, s>>
    BY <1>4 DEF Balanced, NoGap
  <2>3. (IF IsBlack(t, y) THEN 1 ELSE 0) \in Nat
    OBVIOUS
  <2> QED
    BY <2>1, <2>2, <2>3 DEF Even, Ink
<1>6. ASSUME NEW y \in S, NEW g,
             \A s \in Side : t.kid[y][s] # NIL => g[t.kid[y][s]] = {h[t.kid[y][s]]}
      PROVE  Step(g, y) = {h[y]}
  <2>1. \A s \in Side : Lower(g, y, s) = {Deep(h, t.kid[y][s])}
    BY <1>3, <1>6 DEF Deep
  <2>2. Lower(g, y, "left") = {Deep(h, t.kid[y]["left"])}
        /\ Lower(g, y, "right") = {Deep(h, t.kid[y]["right"])}
    BY <2>1 DEF Side
  <2>3. \A i \in Lower(g, y, "left") \cup Lower(g, y, "right") :
          i + (IF IsBlack(t, y) THEN 1 ELSE 0) = h[y]
    BY <2>2, <1>5 DEF Side
  <2>4. Lower(g, y, "left") # {}
    BY <2>2
  <2> HIDE DEF Lower
  <2> QED
    BY <2>3, <2>4
<1> HIDE DEF Step
<1>7. \E g : Heights(g)
  <2>1. PICK g : g = [y \in S |-> {h[y]}]
    OBVIOUS
  <2>2. \A y \in S : g[y] = Step(g, y)
    BY <2>1, <1>3, <1>6
  <2>3. Heights(g)
    BY <2>1, <2>2
  <2> QED
    BY <2>3
<1>8. Heights(f)
  BY <1>1, <1>7
<1> DEFINE G == {y \in S : f[y] = {h[y]}}
<1>9. ASSUME NEW y \in S, \A s \in Side : t.kid[y][s] # NIL => t.kid[y][s] \in G
      PROVE  y \in G
  <2>1. Step(f, y) = {h[y]}
    BY <1>6, <1>9
  <2> QED
    BY <2>1, <1>8
<1> HIDE DEF G
<1>10. G = S
  <2>1. G \in SUBSET S
    BY DEF G
  <2> QED
    BY <1>9, <2>1, UpTheTree
<1>11. \E i : BlackHeights(t) = {i}
  <2>1. t.root # NIL => t.root \in S
    BY DEF Ordered, Rooted
  <2> QED
    BY <2>1, <1>2, <1>10 DEF G
<1> QED
  BY <1>11, FS_Singleton

-----------------------------------------------------------------------------
(* The rotations of the code *)

\* p has taken the place and the colour of g, which is now below it and has the
\* colour c; o, if it is a node, is below p, and dark, if it is one, is black.
Raised(t, u, p, g, s, c, o, dark) ==
  /\ u \in Tree
  /\ u.root = IF t.par[g] = NIL THEN p ELSE t.root
  /\ \A x \in Node, y \in Side : u.kid[x][y] = TurnedKid(t, g, s, p, x, y)
  /\ \A x \in Node :
       /\ u.par[x] = IF x = o THEN p ELSE TurnedPar(t, g, s, p, x)
       /\ u.color[x] = IF x = p THEN t.color[g] ELSE IF x = g THEN c
                       ELSE IF x = dark THEN "black" ELSE t.color[x]

\* The two nodes and those next to them are not the same, and the parent of g
\* has it on one side.
Apart(t, p, g, tmp) ==
  /\ p \in Node /\ g \in Node /\ p # g /\ tmp \in Ptr /\ tmp # p /\ tmp # g
  /\ t.par[g] # p /\ t.par[g] # g
  /\ t.par[g] # NIL => /\ \E s \in Side : t.kid[t.par[g]][s] = g
                       /\ t.kid[t.par[g]]["left"] # t.kid[t.par[g]]["right"]

\* __rb_rotate_set_parents, after the kids of old and new are set.
LEMMA RotateParentsAre ==
  ASSUME NEW t \in Tree, NEW old \in Node, NEW new \in Node, old # new,
         NEW c \in {"red", "black"}, NEW p, p = t.par[old], p # old,
         p # NIL => /\ \E s \in Side : t.kid[p][s] = old
                    /\ t.kid[p]["left"] # t.kid[p]["right"],
         NEW u, u = __rb_rotate_set_parents(t, old, new, c)
  PROVE  /\ u \in Tree /\ u.root = (IF p = NIL THEN new ELSE t.root)
         /\ \A x \in Node, y \in Side :
              u.kid[x][y] = IF x = p /\ t.kid[x][y] = old THEN new ELSE t.kid[x][y]
         /\ \A x \in Node :
              /\ u.par[x] = IF x = old THEN new ELSE IF x = new THEN p ELSE t.par[x]
              /\ u.color[x] = IF x = old THEN c
                              ELSE IF x = new THEN t.color[old] ELSE t.color[x]
<1>1. p \in Ptr /\ t.color[old] \in {"red", "black"}
  BY TreeFields
<1>2. PICK v : v = rb_set_parent_color(t, new, p, t.color[old])
  OBVIOUS
<1>3. ParColorSet(t, v, new, p, t.color[old])
  BY <1>1, <1>2, SetParColorIs
<1>4. PICK w : w = rb_set_parent_color(v, old, new, c)
  OBVIOUS
<1>4a. v \in Tree /\ new \in Ptr
  BY <1>3 DEF ParColorSet, Ptr
<1>5. ParColorSet(v, w, old, new, c)
  BY <1>4, <1>4a, SetParColorIs
<1>6. u = __rb_change_child(w, old, new, p)
  BY <1>2, <1>4 DEF __rb_rotate_set_parents
<1>7. w \in Tree /\ w.kid = t.kid /\ w.root = t.root
  BY <1>3, <1>5 DEF ParColorSet
<1>8. ChildChanged(w, u, old, new, p)
  BY <1>1, <1>6, <1>7, ChangeChildIs DEF Ptr
<1> QED
  BY <1>3, <1>5, <1>7, <1>8 DEF ChildChanged, ParColorSet

LEMMA RotateUpIs ==
  ASSUME NEW t \in Tree, NEW p, NEW g, NEW s \in Side,
         NEW tmp, tmp = t.kid[p][Other(s)], Apart(t, p, g, tmp)
  PROVE  Raised(t, RotateUp(t, p, g, s), p, g, s, "red", NIL, tmp)
<1> DEFINE a == t.par[g]
<1>1. p \in Node /\ g \in Node /\ p # g /\ tmp \in Ptr /\ tmp # p /\ tmp # g
      /\ a \in Ptr /\ a # p /\ a # g /\ Other(s) \in Side /\ Other(s) # s
  BY TreeFields, SideFacts DEF Apart
<1>2. PICK t1 : t1 = SetKid(t, g, s, tmp)
  OBVIOUS
<1>3. KidSet(t, t1, g, s, tmp)
  BY <1>1, <1>2, SetKidIs
<1>4. PICK t2 : t2 = SetKid(t1, p, Other(s), g)
  OBVIOUS
<1>4a. t1 \in Tree /\ g \in Ptr
  BY <1>1, <1>3 DEF KidSet, Ptr
<1>5. KidSet(t1, t2, p, Other(s), g)
  BY <1>1, <1>4, <1>4a, SetKidIs
<1>6. PICK t3 : t3 = Blacken(t2, tmp, g)
  OBVIOUS
<1>6a. t2 \in Tree
  BY <1>5 DEF KidSet
<1>7. ParColorSet(t2, t3, tmp, g, "black")
  BY <1>1, <1>4a, <1>6, <1>6a, BlackenIs
<1>8. PICK u : u = RotateUp(t, p, g, s)
  OBVIOUS
<1>9. u = __rb_rotate_set_parents(t3, g, p, "red")
  BY <1>2, <1>4, <1>6, <1>8 DEF RotateUp, Kid
<1>10. /\ t3 \in Tree /\ t3.root = t.root /\ t3.par[g] = a /\ t3.color[g] = t.color[g]
       /\ \A x \in Node, y \in Side :
            t3.kid[x][y] = IF x = p /\ y = Other(s) THEN g
                           ELSE IF x = g /\ y = s THEN tmp ELSE t.kid[x][y]
       /\ \A x \in Node : /\ t3.par[x] = IF x = tmp THEN g ELSE t.par[x]
                          /\ t3.color[x] = IF x = tmp THEN "black" ELSE t.color[x]
  BY <1>1, <1>3, <1>5, <1>7 DEF KidSet, ParColorSet
<1>11. a # NIL => /\ \E y \in Side : t3.kid[a][y] = g
                  /\ t3.kid[a]["left"] # t3.kid[a]["right"]
  <2>1. a # NIL => \A y \in Side : t3.kid[a][y] = t.kid[a][y]
    BY <1>1, <1>10 DEF Ptr
  <2> QED
    BY <2>1 DEF Apart, Side
<1>12. /\ u \in Tree /\ u.root = (IF a = NIL THEN p ELSE t3.root)
       /\ \A x \in Node, y \in Side :
            u.kid[x][y] = IF x = a /\ t3.kid[x][y] = g THEN p ELSE t3.kid[x][y]
       /\ \A x \in Node :
            /\ u.par[x] = IF x = g THEN p ELSE IF x = p THEN a ELSE t3.par[x]
            /\ u.color[x] = IF x = g THEN "red"
                            ELSE IF x = p THEN t3.color[g] ELSE t3.color[x]
  BY <1>1, <1>9, <1>10, <1>11, RotateParentsAre
<1>13. \A x \in Node, y \in Side : u.kid[x][y] = TurnedKid(t, g, s, p, x, y)
  BY <1>1, <1>10, <1>12 DEF TurnedKid
<1>14. \A x \in Node : u.par[x] = TurnedPar(t, g, s, p, x)
  BY <1>1, <1>10, <1>12 DEF TurnedPar
<1>15. NIL \notin Node
  BY RBTreeAssumption
<1> QED
  BY <1>1, <1>8, <1>10, <1>12, <1>13, <1>14, <1>15 DEF Raised

\* The rotation of the sibling sib over the parent, whose kid on side s is short
\* of a black node.
LEMMA RotateSiblingIs ==
  ASSUME NEW t \in Tree, NEW sib, NEW outer \in Node, NEW s \in Side,
         NEW tmp, tmp = t.kid[sib][s], Apart(t, sib, parent, tmp),
         outer \notin {sib, parent, tmp}
  PROVE  Raised(t, RotateSibling(t, sib, outer, s), sib, parent, Other(s),
                "black", outer, outer)
<1> DEFINE g == parent
           a == t.par[g]
<1>1. sib \in Node /\ g \in Node /\ sib # g /\ tmp \in Ptr /\ tmp # sib /\ tmp # g
      /\ a \in Ptr /\ a # sib /\ a # g /\ Other(s) \in Side /\ Other(s) # s
      /\ Other(Other(s)) = s /\ sib \in Ptr /\ g \in Ptr
  BY TreeFields, SideFacts DEF Apart, Ptr
<1>2. PICK t1 : t1 = SetKid(t, g, Other(s), tmp)
  OBVIOUS
<1>3. KidSet(t, t1, g, Other(s), tmp)
  BY <1>1, <1>2, SetKidIs
<1>3a. t1 \in Tree
  BY <1>3 DEF KidSet
<1>4. PICK t2 : t2 = SetKid(t1, sib, s, g)
  OBVIOUS
<1>5. KidSet(t1, t2, sib, s, g)
  BY <1>1, <1>3a, <1>4, SetKidIs
<1>5a. t2 \in Tree
  BY <1>5 DEF KidSet
<1>6. PICK t3 : t3 = rb_set_parent_color(t2, outer, sib, "black")
  OBVIOUS
<1>7. ParColorSet(t2, t3, outer, sib, "black")
  BY <1>1, <1>5a, <1>6, SetParColorIs
<1>7a. t3 \in Tree
  BY <1>7 DEF ParColorSet
<1>8. PICK t4 : t4 = IF tmp = NIL THEN t3 ELSE rb_set_parent(t3, tmp, g)
  OBVIOUS
<1>9. ParSet(t3, t4, tmp, g)
  <2>1. CASE tmp = NIL
    BY <2>1, <1>7a, <1>8, RBTreeAssumption DEF ParSet
  <2>2. CASE tmp # NIL
    <3>1. tmp \in Node
      BY <2>2, <1>1 DEF Ptr
    <3> QED
      BY <2>2, <3>1, <1>1, <1>7a, <1>8, SetParIs
  <2> QED
    BY <2>1, <2>2
<1>10. PICK u : u = RotateSibling(t, sib, outer, s)
  OBVIOUS
<1>11. u = __rb_rotate_set_parents(t4, g, sib, "black")
  BY <1>2, <1>4, <1>6, <1>8, <1>10 DEF RotateSibling, Kid
<1>12. /\ t4 \in Tree /\ t4.root = t.root /\ t4.par[g] = a /\ t4.color[g] = t.color[g]
       /\ \A x \in Node, y \in Side :
            t4.kid[x][y] = IF x = sib /\ y = s THEN g
                           ELSE IF x = g /\ y = Other(s) THEN tmp ELSE t.kid[x][y]
       /\ \A x \in Node : /\ t4.par[x] = IF x = tmp THEN g
                                         ELSE IF x = outer THEN sib ELSE t.par[x]
                          /\ t4.color[x] = IF x = outer THEN "black" ELSE t.color[x]
  BY <1>1, <1>3, <1>5, <1>7, <1>9 DEF KidSet, ParColorSet, ParSet
<1>13. a # NIL => /\ \E y \in Side : t4.kid[a][y] = g
                  /\ t4.kid[a]["left"] # t4.kid[a]["right"]
  <2>1. a # NIL => \A y \in Side : t4.kid[a][y] = t.kid[a][y]
    BY <1>1, <1>12 DEF Ptr
  <2> QED
    BY <2>1 DEF Apart, Side
<1>14. /\ u \in Tree /\ u.root = (IF a = NIL THEN sib ELSE t4.root)
       /\ \A x \in Node, y \in Side :
            u.kid[x][y] = IF x = a /\ t4.kid[x][y] = g THEN sib ELSE t4.kid[x][y]
       /\ \A x \in Node :
            /\ u.par[x] = IF x = g THEN sib ELSE IF x = sib THEN a ELSE t4.par[x]
            /\ u.color[x] = IF x = g THEN "black"
                            ELSE IF x = sib THEN t4.color[g] ELSE t4.color[x]
  <2>1. t4 \in Tree /\ g \in Node /\ sib \in Node /\ g # sib
    BY <1>1, <1>12
  <2>2. "black" \in {"red", "black"}
    OBVIOUS
  <2>3. a = t4.par[g] /\ a # g
    BY <1>1, <1>12
  <2> QED
    BY <2>1, <2>2, <2>3, <1>11, <1>13, RotateParentsAre
<1>15. Raised(t, u, sib, g, Other(s), "black", outer, outer)
  <2>1. u \in Tree /\ u.root = IF t.par[g] = NIL THEN sib ELSE t.root
    BY <1>12, <1>14
  <2>2. ASSUME NEW x \in Node, NEW y \in Side
        PROVE  u.kid[x][y] = TurnedKid(t, g, Other(s), sib, x, y)
    BY <1>1, <1>12, <1>14 DEF TurnedKid
  <2>3. ASSUME NEW x \in Node
        PROVE  u.par[x] = IF x = outer THEN sib ELSE TurnedPar(t, g, Other(s), sib, x)
    BY <1>1, <1>12, <1>14 DEF TurnedPar
  <2>4. ASSUME NEW x \in Node
        PROVE  u.color[x] = IF x = sib THEN t.color[g] ELSE IF x = g THEN "black"
                            ELSE IF x = outer THEN "black" ELSE t.color[x]
    BY <1>1, <1>12, <1>14
  <2> QED
    BY <2>1, <2>2, <2>3, <2>4 DEF Raised
<1> QED
  BY <1>10, <1>15

-----------------------------------------------------------------------------
(* Colours after a rotation *)

\* The kids of the two nodes of a rotation, and of the others.
TurnedNear(t, u, S, g, s, p) ==
  /\ p # g /\ S \subseteq Node /\ NIL \notin S
  /\ u.kid[g][s] = t.kid[p][Other(s)]
  /\ u.kid[g][Other(s)] = t.kid[g][Other(s)]
  /\ u.kid[p][Other(s)] = g
  /\ u.kid[p][s] = t.kid[p][s]
  /\ \A x \in S \ {p, g}, y \in Side :
       u.kid[x][y] = IF t.kid[x][y] = g THEN p ELSE t.kid[x][y]
  /\ {t.kid[p][s], t.kid[p][Other(s)], t.kid[g][Other(s)]}
       \subseteq (S \ {p, g}) \cup {NIL}
  /\ \A x \in S \ {p, g}, y \in Side : t.kid[x][y] \in (S \ {p}) \cup {NIL}

LEMMA TurnedKids ==
  ASSUME NEW t \in Tree, NEW u, NEW S, NEW m, NEW pos, NEW lo, NEW hi,
         Ordered(t, S, m, pos, lo, hi), NEW g \in S, NEW s \in Side,
         NEW p \in S, t.kid[g][s] = p, Turned(t, u, g, s)
  PROVE  TurnedNear(t, u, S, g, s, p)
<1>1. S \subseteq Node /\ NIL \notin S
  BY TreeFields DEF Ordered, Placed
<1>2. \A x \in S, y \in Side :
         /\ t.kid[x][y] \in S \cup {NIL} /\ t.kid[x][y] # x
         /\ t.kid[x][y] # NIL => /\ t.par[t.kid[x][y]] = x
                                 /\ t.kid[x][y] # t.par[x]
                                 /\ t.kid[x][Other(y)] # t.kid[x][y]
  BY OrderedFacts
<1>3. t.par[p] = g /\ p # g /\ t.par[g] # p /\ Other(s) \in Side /\ Other(s) # s
  BY <1>1, <1>2, SideFacts
<1>4. \A x \in Node, y \in Side : u.kid[x][y] = TurnedKid(t, g, s, p, x, y)
  BY DEF Turned
<1>5. t.par[g] # g /\ t.par[p] # p
  BY OrderedFacts
<1>6. \A x \in S \ {p, g}, y \in Side : t.kid[x][y] \in (S \ {p}) \cup {NIL}
  BY <1>1, <1>2, <1>3
<1>7. {t.kid[p][s], t.kid[p][Other(s)], t.kid[g][Other(s)]}
        \subseteq (S \ {p, g}) \cup {NIL}
  BY <1>1, <1>2, <1>3
<1>8. \A x \in S \ {p, g}, y \in Side :
        u.kid[x][y] = IF t.kid[x][y] = g THEN p ELSE t.kid[x][y]
  BY <1>1, <1>2, <1>4 DEF TurnedKid
<1>9. u.kid[g][s] = t.kid[p][Other(s)] /\ u.kid[p][Other(s)] = g
  BY <1>1, <1>3, <1>4 DEF TurnedKid
<1>10. u.kid[g][Other(s)] = t.kid[g][Other(s)] /\ u.kid[p][s] = t.kid[p][s]
  BY <1>1, <1>3, <1>4, <1>5 DEF TurnedKid
<1> QED
  BY <1>1, <1>3, <1>6, <1>7, <1>8, <1>9, <1>10 DEF TurnedNear

\* A red node takes the colour of its parent, which becomes red.
SwappedInk(h, g, p) == [h EXCEPT ![p] = h[g], ![g] = h[p]]

LEMMA TurnRed ==
  ASSUME NEW t \in Tree, NEW u, NEW S, NEW m, NEW pos, NEW lo, NEW hi,
         Ordered(t, S, m, pos, lo, hi), NEW g \in S, NEW s \in Side,
         NEW p \in S, t.kid[g][s] = p, Turned(t, u, g, s),
         NEW h, NEW gap, Balanced(t, S, h, gap), t.color[p] = "red",
         gap # <<g, s>>, \A y \in Side : gap # <<p, y>>,
         \A x \in S : u.color[x] = IF x = p THEN t.color[g]
                                   ELSE IF x = g THEN "red" ELSE t.color[x]
  PROVE  Balanced(u, S, SwappedInk(h, g, p), gap)
<1>1. PICK h2 : h2 = SwappedInk(h, g, p)
  OBVIOUS
<1>2. /\ p # g /\ S \subseteq Node /\ NIL \notin S
      /\ u.kid[g][s] = t.kid[p][Other(s)]
      /\ u.kid[g][Other(s)] = t.kid[g][Other(s)]
      /\ u.kid[p][Other(s)] = g
      /\ u.kid[p][s] = t.kid[p][s]
      /\ \A x \in S \ {p, g}, y \in Side :
           u.kid[x][y] = IF t.kid[x][y] = g THEN p ELSE t.kid[x][y]
      /\ {t.kid[p][s], t.kid[p][Other(s)], t.kid[g][Other(s)]}
           \subseteq (S \ {p, g}) \cup {NIL}
      /\ \A x \in S \ {p, g}, y \in Side : t.kid[x][y] \in (S \ {p}) \cup {NIL}
  <2>1. TurnedNear(t, u, S, g, s, p)
    BY TurnedKids
  <2> QED
    BY <2>1 DEF TurnedNear
<1>3. h \in [S -> Nat] /\ \A x \in S, y \in Side : Even(t, h, x, y, gap)
  BY DEF Balanced
<1>4. /\ h2 \in [S -> Nat] /\ h2[p] = h[g] /\ h2[g] = h[p]
      /\ \A k \in (S \ {p, g}) \cup {NIL} : Deep(h2, k) = Deep(h, k) /\ Deep(h, k) \in Nat
      /\ \A x \in S \ {p, g} : h2[x] = h[x]
  BY <1>1, <1>2, <1>3 DEF SwappedInk, Deep
<1>5. /\ Ink(u, p) = Ink(t, g) /\ Ink(u, g) = 0 /\ Ink(t, p) = 0 /\ Ink(t, g) \in {0, 1}
      /\ \A x \in S \ {p, g} : Ink(u, x) = Ink(t, x)
  BY <1>2 DEF Ink, IsBlack, IsRed
<1>6. h[g] = h[p] + Ink(t, g)
  <2>1. Even(t, h, g, s, gap)
    BY <1>3
  <2> QED
    BY <2>1, <1>2, <1>3, <1>5 DEF Even, Deep
<1>7. Other(s) \in Side /\ Other(s) # s /\ \A y \in Side : y = s \/ y = Other(s)
  BY SideFacts DEF Side
<1>8. ASSUME NEW x \in S, NEW y \in Side PROVE Even(u, h2, x, y, gap)
  <2>1. CASE x = g /\ y = s
    <3>1. Even(t, h, p, Other(s), gap)
      BY <1>3, <1>7
    <3>2. PICK c : c = t.kid[p][Other(s)]
      OBVIOUS
    <3>3. h[p] = Deep(h, c) /\ Deep(h2, c) = Deep(h, c) /\ Deep(h, c) \in Nat
      BY <3>1, <3>2, <1>2, <1>4, <1>5, <1>7 DEF Even
    <3>4. h2[g] = Deep(h2, u.kid[g][s]) + Ink(u, g) + 0
      BY <3>2, <3>3, <1>2, <1>4, <1>5
    <3> QED
      BY <2>1, <3>4 DEF Even
  <2>2. CASE x = g /\ y = Other(s)
    <3>1. Even(t, h, g, y, gap)
      BY <1>3
    <3>2. PICK c : c = t.kid[g][Other(s)]
      OBVIOUS
    <3>3. PICK q : q = IF gap = <<g, y>> THEN 1 ELSE 0
      OBVIOUS
    <3>4. Deep(h2, c) = Deep(h, c) /\ Deep(h, c) \in Nat /\ q \in {0, 1}
      BY <3>2, <3>3, <1>2, <1>4
    <3>5. h[g] = Deep(h, c) + Ink(t, g) + q
      BY <3>1, <3>2, <3>3, <2>2 DEF Even
    <3>6. h[p] = Deep(h, c) + q
      BY <3>4, <3>5, <1>3, <1>5, <1>6
    <3>7. h2[g] = Deep(h2, u.kid[g][y]) + Ink(u, g) + q
      BY <2>2, <3>2, <3>4, <3>6, <1>2, <1>4, <1>5
    <3> QED
      BY <2>2, <3>3, <3>7 DEF Even
  <2>3. CASE x = p /\ y = Other(s)
    <3>1. Deep(h2, g) = h[p]
      BY <1>2, <1>4 DEF Deep
    <3>2. h2[p] = Deep(h2, u.kid[p][y]) + Ink(u, p) + 0
      BY <2>3, <3>1, <1>2, <1>3, <1>4, <1>5, <1>6
    <3> QED
      BY <2>3, <3>2 DEF Even
  <2>4. CASE x = p /\ y = s
    <3>1. Even(t, h, p, s, gap)
      BY <1>3
    <3>2. PICK c : c = t.kid[p][s]
      OBVIOUS
    <3>3. h[p] = Deep(h, c) /\ Deep(h2, c) = Deep(h, c) /\ Deep(h, c) \in Nat
      BY <3>1, <3>2, <1>2, <1>4, <1>5, <1>7 DEF Even
    <3>4. h2[p] = Deep(h2, u.kid[p][s]) + Ink(u, p) + 0
      BY <3>2, <3>3, <1>2, <1>4, <1>5, <1>6
    <3> QED
      BY <2>4, <3>4 DEF Even
  <2>5. CASE x \notin {p, g}
    <3>1. Even(t, h, x, y, gap)
      BY <1>3
    <3>2. h2[x] = h[x] /\ Ink(u, x) = Ink(t, x)
      BY <2>5, <1>4, <1>5
    <3>3. CASE t.kid[x][y] = g
      <4>1. u.kid[x][y] = p /\ Deep(h2, p) = Deep(h, g)
        BY <2>5, <3>3, <1>2, <1>4 DEF Deep
      <4> QED
        BY <3>1, <3>2, <3>3, <4>1 DEF Even
    <3>4. CASE t.kid[x][y] # g
      <4>1. PICK k : k = t.kid[x][y]
        OBVIOUS
      <4>2. k \in (S \ {p, g}) \cup {NIL} /\ u.kid[x][y] = k
        BY <2>5, <3>4, <4>1, <1>2
      <4>3. Deep(h2, k) = Deep(h, k)
        BY <4>2, <1>4
      <4> QED
        BY <3>1, <3>2, <4>1, <4>2, <4>3 DEF Even
    <3> QED
      BY <3>3, <3>4
  <2> QED
    BY <1>7, <2>1, <2>2, <2>3, <2>4, <2>5
<1> QED
  BY <1>1, <1>4, <1>8 DEF Balanced

\* The black kid of the node with the gap is rotated over it; its outer kid,
\* which was red, is black.
FilledInk(h, g, p, o) == [h EXCEPT ![p] = h[g], ![g] = h[p], ![o] = h[o] + 1]

LEMMA TurnFillsGap ==
  ASSUME NEW t \in Tree, NEW u, NEW S, NEW m, NEW pos, NEW lo, NEW hi,
         Ordered(t, S, m, pos, lo, hi), NEW g \in S, NEW s \in Side,
         NEW p \in S, t.kid[g][s] = p, Turned(t, u, g, s),
         NEW h, Balanced(t, S, h, <<g, Other(s)>>), t.color[p] = "black",
         NEW o \in S, o = t.kid[p][s], t.color[o] = "red",
         \A x \in S : u.color[x] = IF x = p THEN t.color[g]
                                   ELSE IF x \in {g, o} THEN "black" ELSE t.color[x]
  PROVE  Balanced(u, S, FilledInk(h, g, p, o), NoGap)
<1>1. PICK h2 : h2 = FilledInk(h, g, p, o)
  OBVIOUS
<1>a. TurnedNear(t, u, S, g, s, p)
  BY TurnedKids
<1>2. /\ p # g /\ S \subseteq Node /\ NIL \notin S
      /\ u.kid[g][s] = t.kid[p][Other(s)]
      /\ u.kid[g][Other(s)] = t.kid[g][Other(s)]
      /\ u.kid[p][Other(s)] = g
      /\ u.kid[p][s] = o /\ o \notin {p, g}
      /\ \A x \in S \ {p, g}, y \in Side :
           u.kid[x][y] = IF t.kid[x][y] = g THEN p ELSE t.kid[x][y]
      /\ {t.kid[p][s], t.kid[p][Other(s)], t.kid[g][Other(s)]}
           \subseteq (S \ {p, g}) \cup {NIL}
      /\ \A x \in S \ {p, g}, y \in Side : t.kid[x][y] \in (S \ {p}) \cup {NIL}
  BY <1>a DEF TurnedNear
<1>b. Other(s) \in Side /\ Other(s) # s /\ \A y \in Side : y = s \/ y = Other(s)
  BY SideFacts DEF Side
<1>c. /\ t.par[p] = g /\ t.par[o] = p
      /\ \A x \in S, y \in Side : t.kid[x][y] = o => x = p
      /\ o # t.kid[p][Other(s)] /\ o # t.kid[g][Other(s)]
  <2>1. \A x \in S, y \in Side : t.kid[x][y] # NIL =>
          t.par[t.kid[x][y]] = x /\ t.kid[x][Other(y)] # t.kid[x][y]
    BY OrderedFacts
  <2> QED
    BY <2>1, <1>2, <1>b
<1>3. h \in [S -> Nat] /\ \A x \in S, y \in Side : Even(t, h, x, y, <<g, Other(s)>>)
  BY DEF Balanced
<1>4. /\ h2 \in [S -> Nat] /\ h2[p] = h[g] /\ h2[g] = h[p] /\ h2[o] = h[o] + 1
      /\ \A k \in (S \ {p, g, o}) \cup {NIL} : Deep(h2, k) = Deep(h, k) /\ Deep(h, k) \in Nat
      /\ \A x \in S \ {p, g, o} : h2[x] = h[x]
  BY <1>1, <1>2, <1>3 DEF FilledInk, Deep
<1>5. /\ Ink(u, p) = Ink(t, g) /\ Ink(u, g) = 1 /\ Ink(t, p) = 1 /\ Ink(t, g) \in {0, 1}
      /\ Ink(u, o) = 1 /\ Ink(t, o) = 0
      /\ \A x \in S \ {p, g, o} : Ink(u, x) = Ink(t, x)
  BY <1>2 DEF Ink, IsBlack, IsRed
<1>6. h[g] = h[p] + Ink(t, g)
  <2>1. Even(t, h, g, s, <<g, Other(s)>>)
    BY <1>3
  <2> QED
    BY <2>1, <1>2, <1>3, <1>5, <1>b DEF Even, Deep
<1>7. h[p] = h[o] + 1
  <2>1. Even(t, h, p, s, <<g, Other(s)>>)
    BY <1>3
  <2> QED
    BY <2>1, <1>2, <1>3, <1>5, <1>b DEF Even, Deep
<1>8. ASSUME NEW x \in S, NEW y \in Side PROVE Even(u, h2, x, y, NoGap)
  <2>a. NoGap # <<x, y>>
    BY <1>2 DEF NoGap
  <2>b. Even(t, h, x, y, <<g, Other(s)>>)
    BY <1>3
  <2>1. CASE x = g /\ y = s
    <3>1. Even(t, h, p, Other(s), <<g, Other(s)>>)
      BY <1>3, <1>b
    <3>2. PICK c : c = t.kid[p][Other(s)]
      OBVIOUS
    <3>3. Deep(h2, c) = Deep(h, c) /\ Deep(h, c) \in Nat
      BY <3>2, <1>2, <1>4, <1>c
    <3>4. h[p] = Deep(h, c) + 1
      BY <3>1, <3>2, <3>3, <1>2, <1>5 DEF Even
    <3>5. h2[g] = Deep(h2, u.kid[g][s]) + Ink(u, g) + 0
      BY <3>2, <3>3, <3>4, <1>2, <1>4, <1>5
    <3> QED
      BY <2>1, <2>a, <3>5 DEF Even
  <2>2. CASE x = g /\ y = Other(s)
    <3>2. PICK c : c = t.kid[g][Other(s)]
      OBVIOUS
    <3>4. Deep(h2, c) = Deep(h, c) /\ Deep(h, c) \in Nat
      BY <3>2, <1>2, <1>4, <1>c
    <3>5. h[g] = Deep(h, c) + Ink(t, g) + 1
      BY <2>b, <3>2, <2>2 DEF Even
    <3>6. h[p] = Deep(h, c) + 1
      BY <3>4, <3>5, <1>3, <1>5, <1>6
    <3>7. h2[g] = Deep(h2, u.kid[g][y]) + Ink(u, g) + 0
      BY <2>2, <3>2, <3>4, <3>6, <1>2, <1>4, <1>5
    <3> QED
      BY <2>2, <2>a, <3>7 DEF Even
  <2>3. CASE x = p /\ y = Other(s)
    <3>1. Deep(h2, g) = h[p]
      BY <1>2, <1>4 DEF Deep
    <3>2. h2[p] = Deep(h2, u.kid[p][y]) + Ink(u, p) + 0
      BY <2>3, <3>1, <1>2, <1>3, <1>4, <1>5, <1>6
    <3> QED
      BY <2>3, <2>a, <3>2 DEF Even
  <2>4. CASE x = p /\ y = s
    <3>1. Deep(h2, o) = h[p]
      BY <1>2, <1>4, <1>7 DEF Deep
    <3>2. h2[p] = Deep(h2, u.kid[p][y]) + Ink(u, p) + 0
      BY <2>4, <3>1, <1>2, <1>3, <1>4, <1>5, <1>6
    <3> QED
      BY <2>4, <2>a, <3>2 DEF Even
  <2>5. CASE x \notin {p, g}
    <3>1. PICK k : k = t.kid[x][y]
      OBVIOUS
    <3>2. PICK k2 : k2 = u.kid[x][y]
      OBVIOUS
    <3>3. Deep(h2, k2) = Deep(h, k) /\ Deep(h, k) \in Nat
      <4>1. CASE k = g
        <5>0. u.kid[x][y] = IF t.kid[x][y] = g THEN p ELSE t.kid[x][y]
          BY <2>5, <1>2
        <5>1. k2 = p
          BY <5>0, <3>1, <3>2, <4>1
        <5> QED
          BY <4>1, <5>1, <1>2, <1>3, <1>4 DEF Deep
      <4>2. CASE k # g
        <5>1. k \in (S \ {p, g, o}) \cup {NIL} /\ k2 = k
          BY <2>5, <3>1, <3>2, <4>2, <1>2, <1>c
        <5> QED
          BY <5>1, <1>4
      <4> QED
        BY <4>1, <4>2
    <3>4. h[x] = Deep(h, k) + Ink(t, x) + 0
      BY <2>5, <2>b, <3>1 DEF Even
    <3>5. h2[x] = Deep(h2, k2) + Ink(u, x) + 0
      <4>1. CASE x = o
        BY <4>1, <3>3, <3>4, <1>4, <1>5
      <4>2. CASE x # o
        BY <4>2, <2>5, <3>3, <3>4, <1>4, <1>5
      <4> QED
        BY <4>1, <4>2
    <3> QED
      BY <3>2, <3>5, <2>a DEF Even
  <2> QED
    BY <1>b, <2>1, <2>2, <2>3, <2>4, <2>5
<1> QED
  BY <1>1, <1>4, <1>8 DEF Balanced

\* Around the rotation no red kid of a red node is made but extra2, and the one
\* there was is near it.
RedsNear(t, u, p, g, extra, extra2) ==
  /\ u.color[p] = t.color[g]
  /\ g # extra
  /\ extra = NIL \/ \E x \in {p, g}, y \in Side : t.kid[x][y] = extra
  /\ \A x \in {p, g}, y \in Side :
       IsRed(u, x) /\ IsRed(u, u.kid[x][y]) => u.kid[x][y] = extra2

NoNewReds(t, u, X) == \A x \in X : u.color[x] = "red" => t.color[x] = "red"

LEMMA TurnedReds ==
  ASSUME NEW t \in Tree, NEW u, NEW S, NEW m, NEW pos, NEW lo, NEW hi,
         Ordered(t, S, m, pos, lo, hi), NEW g \in S, NEW s \in Side,
         NEW p \in S, t.kid[g][s] = p, Turned(t, u, g, s),
         NEW extra, NEW extra2, RedsApart(t, S, extra),
         RedsNear(t, u, p, g, extra, extra2), NoNewReds(t, u, S \ {p, g})
  PROVE  RedsApart(u, S, extra2)
<1>a. TurnedNear(t, u, S, g, s, p)
  BY TurnedKids
<1>1. /\ p # g /\ S \subseteq Node /\ NIL \notin S
      /\ \A x \in S \ {p, g}, y \in Side :
           u.kid[x][y] = IF t.kid[x][y] = g THEN p ELSE t.kid[x][y]
      /\ \A x \in S \ {p, g}, y \in Side : t.kid[x][y] \in (S \ {p}) \cup {NIL}
  BY <1>a DEF TurnedNear
<1>2. /\ \A x \in S, y \in Side : t.kid[x][y] # NIL => t.par[t.kid[x][y]] = x
      /\ t.par[p] = g /\ (t.par[g] = NIL <=> g = t.root)
  <2>1. \A x \in S, y \in Side : t.kid[x][y] # NIL => t.par[t.kid[x][y]] = x
    BY OrderedFacts
  <2>2. t.par[g] = NIL <=> g = t.root
    BY OrderedFacts
  <2> QED
    BY <1>1, <2>1, <2>2
<1>3. t.root \in S /\ t.par[t.root] = NIL
  BY DEF Ordered, Rooted
<1>4. ASSUME extra # NIL PROVE t.par[extra] \in {p, g}
  BY <1>2, <1>4 DEF RedsNear
<1>5. ASSUME NEW x \in S, NEW y \in Side, IsRed(u, x), IsRed(u, u.kid[x][y])
      PROVE  u.kid[x][y] = extra2
  <2>1. CASE x \in {p, g}
    BY <2>1, <1>5 DEF RedsNear
  <2>2. CASE x \notin {p, g}
    <3>1. PICK k : k = t.kid[x][y]
      OBVIOUS
    <3>2. u.kid[x][y] = IF k = g THEN p ELSE k
      BY <2>2, <3>1, <1>1
    <3>3. k \in (S \ {p}) \cup {NIL} /\ IsRed(t, x)
      BY <2>2, <3>1, <1>1, <1>5 DEF IsRed, NoNewReds
    <3>4. CASE k = g
      <4>1. IsRed(t, k)
        BY <3>2, <3>4, <1>1, <1>5 DEF IsRed, RedsNear
      <4> QED
        BY <3>1, <3>3, <3>4, <4>1 DEF RedsApart, RedsNear
    <3>5. CASE k # g
      <4>1. IsRed(t, k)
        BY <3>2, <3>3, <3>5, <1>1, <1>5 DEF IsRed, NoNewReds
      <4>2. k = extra /\ k # NIL
        BY <3>1, <3>3, <4>1 DEF RedsApart, IsRed
      <4> QED
        BY <2>2, <3>1, <4>2, <1>2, <1>4
    <3> QED
      BY <3>4, <3>5
  <2> QED
    BY <2>1, <2>2
<1>6. ~IsRed(u, u.root)
  <2> SUFFICES ASSUME IsRed(u, u.root) PROVE FALSE
    OBVIOUS
  <2>1. u.root = IF t.par[g] = NIL THEN p ELSE t.root
    BY DEF Turned
  <2>2. CASE t.par[g] = NIL
    <3>1. IsRed(t, g)
      BY <2>1, <2>2, <1>1 DEF IsRed, RedsNear
    <3> QED
      BY <2>2, <3>1, <1>2 DEF RedsApart, RedsNear
  <2>3. CASE t.par[g] # NIL
    <3>1. t.root \in S \ {p, g}
      BY <2>3, <1>1, <1>2, <1>3
    <3>2. IsRed(t, t.root)
      BY <2>1, <2>3, <3>1 DEF IsRed, NoNewReds
    <3> QED
      BY <3>2, <1>1, <1>3, <1>4 DEF RedsApart, IsRed
  <2> QED
    BY <2>2, <2>3
<1> QED
  BY <1>5, <1>6 DEF RedsApart

\* The tree of the nodes S with the places pos, with its black heights; it may
\* have one gap, and one red node below a red one.
Sound(t, S, m, pos, gap, extra) ==
  /\ t \in Tree
  /\ \E lo, hi, h : /\ Ordered(t, S, m, pos, lo, hi)
                    /\ Balanced(t, S, h, gap) /\ RedsApart(t, S, extra)

LEMMA ApartIs ==
  ASSUME NEW t \in Tree, NEW S, NEW m, NEW pos, NEW lo, NEW hi,
         Ordered(t, S, m, pos, lo, hi), NEW g \in S, NEW s \in Side,
         NEW p \in S, t.kid[g][s] = p
  PROVE  Apart(t, p, g, t.kid[p][Other(s)])
<1>1. S \subseteq Node /\ NIL \notin S
  BY TreeFields DEF Ordered, Placed
<1>2. \A x \in S, y \in Side : t.kid[x][y] # x /\
         (t.kid[x][y] # NIL => /\ t.par[t.kid[x][y]] = x
                               /\ t.kid[x][y] # t.par[x]
                               /\ t.kid[x][Other(y)] # t.kid[x][y])
  BY OrderedFacts
<1>3. t.par[p] = g /\ p # g /\ t.par[g] # p /\ Other(s) \in Side
  BY <1>1, <1>2, SideFacts
<1>4. t.par[g] # g
  BY OrderedFacts
<1>5. t.kid[p][Other(s)] \in Ptr /\ t.kid[p][Other(s)] # p /\ t.kid[p][Other(s)] # g
  BY <1>1, <1>2, <1>3, TreeFields
<1>6. ASSUME t.par[g] # NIL
      PROVE  /\ \E y \in Side : t.kid[t.par[g]][y] = g
             /\ t.kid[t.par[g]]["left"] # t.kid[t.par[g]]["right"]
  <2>1. t.par[g] \in S
    BY <1>6, OrderedFacts
  <2>2. PICK y \in Side : t.kid[t.par[g]][y] = g
    BY <1>6 DEF Ordered, Hung
  <2>3. t.kid[t.par[g]][Other(y)] # g
    BY <2>1, <2>2, <1>1, <1>2
  <2> QED
    BY <2>2, <2>3, SideFacts DEF Side
<1> QED
  BY <1>1, <1>3, <1>4, <1>5, <1>6 DEF Apart

Outer(t, p, s, o) == o \in {NIL, t.kid[p][s]}

LEMMA RaisedIs ==
  ASSUME NEW t \in Tree, NEW u, NEW S, NEW m, NEW pos, NEW lo, NEW hi,
         Ordered(t, S, m, pos, lo, hi), NEW g \in S, NEW s \in Side,
         NEW p \in S, t.kid[g][s] = p, NEW c, NEW o, NEW dark,
         Outer(t, p, s, o), Raised(t, u, p, g, s, c, o, dark)
  PROVE  Turned(t, u, g, s)
<1>1. S \subseteq Node /\ NIL \notin S /\ NIL \notin Node
  BY TreeFields DEF Ordered, Placed
<1>2. \A x \in S, y \in Side : t.kid[x][y] # x /\
         (t.kid[x][y] # NIL => /\ t.par[t.kid[x][y]] = x
                               /\ t.kid[x][y] # t.par[x]
                               /\ t.kid[x][Other(y)] # t.kid[x][y])
  BY OrderedFacts
<1>3. t.par[p] = g
  BY <1>1, <1>2
<1>4. ASSUME o # NIL
      PROVE  o \notin {p, g, t.kid[p][Other(s)]} /\ t.par[o] = p
  BY <1>2, <1>3, <1>4 DEF Outer
<1>5. ASSUME NEW x \in Node
      PROVE  u.par[x] = TurnedPar(t, g, s, p, x)
  <2>1. CASE x = o
    BY <2>1, <1>1, <1>4 DEF Raised, TurnedPar
  <2>2. CASE x # o
    BY <2>2 DEF Raised
  <2> QED
    BY <2>1, <2>2
<1> QED
  BY <1>5 DEF Raised, Turned

\* There is the tree that a rotation makes, with the colours exchanged.
LEMMA TurnedExists ==
  ASSUME NEW t \in Tree, NEW S, NEW m, NEW pos, NEW lo, NEW hi,
         Ordered(t, S, m, pos, lo, hi), NEW g \in S, NEW s \in Side,
         NEW p \in S, t.kid[g][s] = p
  PROVE  \E v : /\ Turned(t, v, g, s)
                /\ \A x \in Node : v.color[x] = IF x = p THEN t.color[g]
                                     ELSE IF x = g THEN t.color[p] ELSE t.color[x]
<1> DEFINE v == [root  |-> IF t.par[g] = NIL THEN p ELSE t.root,
                 kid   |-> [x \in Node |-> [y \in Side |-> TurnedKid(t, g, s, p, x, y)]],
                 par   |-> [x \in Node |-> TurnedPar(t, g, s, p, x)],
                 color |-> [x \in Node |-> IF x = p THEN t.color[g]
                                     ELSE IF x = g THEN t.color[p] ELSE t.color[x]]]
<1>1. S \subseteq Node /\ p \in Ptr /\ g \in Ptr /\ g \in Node /\ p \in Node
  BY DEF Ordered, Placed, Ptr
<1>2. \A x \in Node, y \in Side : TurnedKid(t, g, s, p, x, y) \in Ptr
  BY <1>1, TreeFields, SideFacts DEF TurnedKid
<1>3. \A x \in Node : TurnedPar(t, g, s, p, x) \in Ptr
  BY <1>1, TreeFields DEF TurnedPar
<1>4. v.root \in Ptr
  BY <1>1, TreeFields
<1>5. v.kid \in [Node -> [Side -> Ptr]]
  BY <1>2
<1>6. v.par \in [Node -> Ptr]
  BY <1>3
<1>7. v.color \in [Node -> {"red", "black"}]
  BY <1>1, TreeFields
<1>8. v \in Tree
  BY <1>4, <1>5, <1>6, <1>7 DEF Tree, Ptr
<1>9. Turned(t, v, g, s)
  BY <1>8 DEF Turned
<1> QED
  BY <1>9

\* An insertion's red node below a red parent that is the kid of gparent on
\* side s: gparent is black, and the other kids near them are.
LEMMA RedParentFacts ==
  ASSUME NEW t \in Tree, NEW S, NEW m, NEW pos, NEW lo, NEW hi,
         Ordered(t, S, m, pos, lo, hi), NEW n \in S, NEW p, p = t.par[n],
         RedsApart(t, S, n), IsRed(t, p), IsRed(t, n)
  PROVE  /\ p \in S /\ p # n /\ t.par[p] \in S /\ t.color[t.par[p]] = "black"
         /\ \E s \in Side : t.kid[p][s] = n
         /\ \E s \in Side : t.kid[t.par[p]][s] = p
         /\ \A y \in Side : t.kid[p][y] # n => IsBlack(t, t.kid[p][y])
         /\ \A y \in Side : IsBlack(t, t.kid[n][y])
<1>1. p \in S /\ p # n /\ NIL \notin S
  <2>1. p \in S \cup {NIL} /\ p # n
    BY OrderedFacts
  <2>2. NIL \notin S
    BY TreeFields DEF Ordered, Placed
  <2> QED
    BY <2>1, <2>2 DEF IsRed
<1>2. PICK g : g = t.par[p]
  OBVIOUS
<1>3. g \in S
  <2>1. g \in S \cup {NIL} /\ (g = NIL <=> p = t.root)
    BY <1>1, <1>2, OrderedFacts
  <2> QED
    BY <1>1, <2>1 DEF RedsApart
<1>4. (\E s \in Side : t.kid[p][s] = n) /\ (\E s \in Side : t.kid[g][s] = p)
  BY <1>1, <1>2, <1>3, TreeFields DEF Ordered, Hung
<1>5. t.color[g] # "red"
  BY <1>1, <1>3, <1>4 DEF RedsApart, IsRed
<1>6. t.color[g] = "black"
  BY <1>3, <1>5, TreeFields DEF Ordered, Placed
<1>7. \A y \in Side : t.kid[p][y] # n => IsBlack(t, t.kid[p][y])
  BY <1>1 DEF RedsApart, IsBlack
<1>8. \A y \in Side : t.kid[n][y] # n
  BY OrderedFacts
<1>9. \A y \in Side : IsBlack(t, t.kid[n][y])
  BY <1>8 DEF RedsApart, IsBlack
<1> QED
  BY <1>1, <1>2, <1>3, <1>4, <1>6, <1>7, <1>9

\* n and its parent p are red, p is the kid of its black parent g on side s, n
\* that of p on side y, and the other kid of g is black.
RedPair(t, n, p, g, s, y) ==
  /\ t.par[n] = p /\ t.par[p] = g /\ t.kid[g][s] = p /\ t.kid[p][y] = n
  /\ IsRed(t, p) /\ IsRed(t, n) /\ IsBlack(t, t.kid[g][Other(s)])

LEMMA InsertOuterIs ==
  ASSUME NEW t \in Tree, NEW S, NEW m, NEW pos, NEW n \in S,
         Sound(t, S, m, pos, NoGap, n),
         NEW p, NEW g, NEW s \in Side, RedPair(t, n, p, g, s, s),
         NEW u, Raised(t, u, p, g, s, "red", NIL, t.kid[p][Other(s)])
  PROVE  Sound(u, S, m, pos, NoGap, NIL)
<1>1. PICK lo, hi, h : /\ Ordered(t, S, m, pos, lo, hi)
                       /\ Balanced(t, S, h, NoGap) /\ RedsApart(t, S, n)
  BY DEF Sound
<1>2. /\ p \in S /\ p # n /\ g \in S /\ t.color[g] = "black"
      /\ \A y \in Side : t.kid[p][y] # n => IsBlack(t, t.kid[p][y])
  <2>1. p = t.par[n] /\ g = t.par[p] /\ IsRed(t, p) /\ IsRed(t, n)
    BY DEF RedPair
  <2> QED
    BY <2>1, <1>1, RedParentFacts
<1>2a. /\ t.kid[g][s] = p /\ t.kid[p][s] = n /\ IsRed(t, p) /\ IsRed(t, n)
       /\ IsBlack(t, t.kid[g][Other(s)])
  BY DEF RedPair
<1>3. Turned(t, u, g, s)
  <2>1. Outer(t, p, s, NIL)
    BY DEF Outer
  <2> QED
    BY <2>1, <1>1, <1>2, <1>2a, RaisedIs
<1>4. TurnedNear(t, u, S, g, s, p)
  BY <1>1, <1>2, <1>2a, <1>3, TurnedKids
<1>5. t.kid[p][Other(s)] # n /\ Other(s) \in Side /\ t.color[p] = "red"
      /\ \A y \in Side : y = s \/ y = Other(s)
  <2>1. n # NIL
    BY <1>1, TreeFields DEF Ordered, Placed
  <2> QED
    BY <1>1, <1>2, <1>2a, <2>1, OrderedFacts, SideFacts DEF IsRed, Side
<1>6. \A x \in S : u.color[x] = IF x = p THEN t.color[g]
                                ELSE IF x = g THEN "red" ELSE t.color[x]
  <2>1. S \subseteq Node /\ NIL \notin S
    BY <1>4 DEF TurnedNear
  <2> TAKE x \in S
  <2>2. CASE x \in {p, g}
    BY <2>1, <2>2 DEF Raised
  <2>3. CASE x \notin {p, g} /\ x = t.kid[p][Other(s)]
    <3>1. IsBlack(t, x)
      BY <2>3, <1>2, <1>2a, <1>5
    <3>2. t.color[x] = "black"
      BY <2>1, <3>1, TreeFields DEF IsBlack, IsRed
    <3> QED
      BY <2>1, <2>3, <3>2 DEF Raised
  <2>4. CASE x \notin {p, g} /\ x # t.kid[p][Other(s)]
    BY <2>1, <2>4 DEF Raised
  <2> QED
    BY <2>2, <2>3, <2>4
<1>7. Balanced(u, S, SwappedInk(h, g, p), NoGap)
  <2>1. NoGap # <<g, s>> /\ \A y \in Side : NoGap # <<p, y>>
    BY <1>4, <1>2, <1>2a DEF NoGap, TurnedNear
  <2> QED
    BY <2>1, <1>1, <1>2, <1>2a, <1>3, <1>5, <1>6, TurnRed
<1>8. RedsNear(t, u, p, g, n, NIL)
  <2>1. u.color[p] = t.color[g]
    BY <1>2, <1>2a, <1>6
  <2>2. g # n
    BY <1>2, <1>2a DEF IsRed
  <2>3. ASSUME NEW x \in {p, g}, NEW y \in Side, IsRed(u, x), IsRed(u, u.kid[x][y])
        PROVE  FALSE
    <3>1. x = g
      BY <2>3, <1>2, <1>2a, <1>6 DEF IsRed
    <3>2. PICK k : k = u.kid[g][y]
      OBVIOUS
    <3>3. k \in {t.kid[p][Other(s)], t.kid[g][Other(s)]} /\ k \in S \ {p, g}
      BY <2>3, <3>1, <3>2, <1>4, <1>5 DEF TurnedNear, IsRed
    <3>4. IsBlack(t, k)
      BY <3>3, <1>2, <1>2a, <1>5
    <3> QED
      BY <2>3, <3>1, <3>2, <3>3, <3>4, <1>6 DEF IsBlack, IsRed
  <2> QED
    BY <1>2a, <2>1, <2>2, <2>3 DEF RedsNear
<1>9. RedsApart(u, S, NIL)
  <2>1. NoNewReds(t, u, S \ {p, g})
    BY <1>6 DEF NoNewReds
  <2> QED
    BY <2>1, <1>1, <1>2, <1>2a, <1>3, <1>8, TurnedReds
<1>10. Ordered(u, S, m, pos, TurnedLo(lo, pos, g, s, p), TurnedHi(hi, pos, g, s, p))
  BY <1>1, <1>2, <1>2a, <1>3, TurnKeepsOrder
<1> QED
  BY <1>3, <1>7, <1>9, <1>10 DEF Sound, Turned

\* The tree between the two rotations differs from a rotated one in what the
\* second rotation writes.
LEMMA RotateOutIs ==
  ASSUME NEW t \in Tree, NEW n \in Node, NEW p \in Node, NEW s \in Side, n # p,
         NEW tmp, tmp = t.kid[n][s], tmp # n, tmp # p,
         NEW w, w = RotateOut(t, n, p, s)
  PROVE  /\ w \in Tree /\ w.root = t.root
         /\ \A x \in Node, y \in Side :
              w.kid[x][y] = IF x = n /\ y = s THEN p
                            ELSE IF x = p /\ y = Other(s) THEN tmp ELSE t.kid[x][y]
         /\ \A x \in Node :
              /\ w.par[x] = IF x = p THEN n ELSE IF x = tmp THEN p ELSE t.par[x]
              /\ w.color[x] = IF x = p THEN "red"
                              ELSE IF x = tmp THEN "black" ELSE t.color[x]
<1>1. tmp \in Ptr /\ p \in Ptr /\ n \in Ptr /\ Other(s) \in Side
  BY TreeFields, SideFacts DEF Ptr
<1>2. PICK t1 : t1 = SetKid(t, p, Other(s), tmp)
  OBVIOUS
<1>3. KidSet(t, t1, p, Other(s), tmp)
  BY <1>1, <1>2, SetKidIs
<1>3a. t1 \in Tree
  BY <1>3 DEF KidSet
<1>4. PICK t2 : t2 = SetKid(t1, n, s, p)
  OBVIOUS
<1>5. KidSet(t1, t2, n, s, p)
  BY <1>1, <1>3a, <1>4, SetKidIs
<1>5a. t2 \in Tree
  BY <1>5 DEF KidSet
<1>6. PICK t3 : t3 = Blacken(t2, tmp, p)
  OBVIOUS
<1>7. ParColorSet(t2, t3, tmp, p, "black")
  BY <1>1, <1>5a, <1>6, BlackenIs
<1>7a. t3 \in Tree
  BY <1>7 DEF ParColorSet
<1>8. w = rb_set_parent_color(t3, p, n, "red")
  BY <1>2, <1>4, <1>6 DEF RotateOut, Kid
<1>9. ParColorSet(t3, w, p, n, "red")
  BY <1>1, <1>7a, <1>8, SetParColorIs
<1> QED
  BY <1>3, <1>5, <1>7, <1>9 DEF KidSet, ParColorSet

LEMMA InsertInnerIs ==
  ASSUME NEW t \in Tree, NEW S, NEW m, NEW pos, NEW n \in S,
         Sound(t, S, m, pos, NoGap, n),
         NEW p, NEW g, NEW s \in Side, RedPair(t, n, p, g, s, Other(s)),
         NEW u, u = RotateUp(RotateOut(t, n, p, s), n, g, s)
  PROVE  Sound(u, S, m, pos, NoGap, NIL)
<1>1. PICK lo, hi, h : /\ Ordered(t, S, m, pos, lo, hi)
                       /\ Balanced(t, S, h, NoGap) /\ RedsApart(t, S, n)
  BY DEF Sound
<1>2. /\ p \in S /\ p # n /\ g \in S /\ t.color[g] = "black"
      /\ \A y \in Side : t.kid[p][y] # n => IsBlack(t, t.kid[p][y])
      /\ \A y \in Side : IsBlack(t, t.kid[n][y])
  <2>1. p = t.par[n] /\ g = t.par[p] /\ IsRed(t, p) /\ IsRed(t, n)
    BY DEF RedPair
  <2> QED
    BY <2>1, <1>1, RedParentFacts
<1>2a. /\ t.kid[g][s] = p /\ t.kid[p][Other(s)] = n /\ IsRed(t, p) /\ IsRed(t, n)
       /\ IsBlack(t, t.kid[g][Other(s)])
  BY DEF RedPair
<1>2b. t.par[n] = p /\ t.par[p] = g
  BY DEF RedPair
<1>3. /\ Other(s) \in Side /\ Other(s) # s /\ Other(Other(s)) = s
      /\ \A y \in Side : y = s \/ y = Other(s)
      /\ S \subseteq Node /\ NIL \notin S /\ NIL \notin Node
      /\ t.color[p] = "red" /\ t.color[n] = "red"
  <2>1. S \subseteq Node /\ NIL \notin S /\ NIL \notin Node
    BY <1>1, TreeFields DEF Ordered, Placed
  <2> QED
    BY <1>2a, <2>1, SideFacts DEF Side, IsRed
<1>4. PICK v : /\ Turned(t, v, p, Other(s))
               /\ \A x \in Node : v.color[x] = IF x = n THEN t.color[p]
                                    ELSE IF x = p THEN t.color[n] ELSE t.color[x]
  BY <1>1, <1>2, <1>2a, <1>3, TurnedExists
<1>5. v \in Tree /\ \A x \in Node : v.color[x] = t.color[x]
  BY <1>3, <1>4 DEF Turned
<1>6. TurnedNear(t, v, S, p, Other(s), n)
  BY <1>1, <1>2, <1>2a, <1>3, <1>4, TurnedKids
<1>7. Ordered(v, S, m, pos, TurnedLo(lo, pos, p, Other(s), n),
                            TurnedHi(hi, pos, p, Other(s), n))
  BY <1>1, <1>2, <1>2a, <1>3, <1>4, TurnKeepsOrder
<1>8. Balanced(v, S, SwappedInk(h, p, n), NoGap)
  <2>1. NoGap # <<p, Other(s)>> /\ \A y \in Side : NoGap # <<n, y>>
    BY <1>2, <1>2a, <1>3 DEF NoGap
  <2>2. \A x \in S : v.color[x] = IF x = n THEN t.color[p]
                                  ELSE IF x = p THEN "red" ELSE t.color[x]
    BY <1>3, <1>4
  <2> QED
    BY <2>1, <2>2, <1>1, <1>2, <1>2a, <1>3, <1>4, TurnRed
<1>9. RedsNear(t, v, n, p, n, p)
  <2>1. v.color[n] = t.color[p]
    BY <1>3, <1>4
  <2>2. \E x \in {n, p}, y \in Side : t.kid[x][y] = n
    BY <1>2a, <1>3
  <2>3. ASSUME NEW x \in {n, p}, NEW y \in Side, IsRed(v, x), IsRed(v, v.kid[x][y])
        PROVE  v.kid[x][y] = p
    <3>1. PICK k : k = v.kid[x][y]
      OBVIOUS
    <3>2. k \in {p, t.kid[n][Other(s)], t.kid[n][s], t.kid[p][s]}
      BY <3>1, <1>3, <1>6 DEF TurnedNear
    <3>3. CASE k # p
      <4>1. t.kid[p][s] # n
        BY <1>1, <1>2, <1>2a, <1>3, OrderedFacts
      <4>2. IsBlack(t, k) /\ k \in Ptr
        BY <3>2, <3>3, <4>1, <1>2, <1>2a, <1>3, TreeFields
      <4> QED
        BY <3>1, <4>2, <2>3, <1>5 DEF IsBlack, IsRed, Ptr
    <3> QED
      BY <3>1, <3>3
  <2> QED
    BY <2>1, <2>2, <2>3, <1>2, <1>2a DEF RedsNear
<1>10. RedsApart(v, S, p)
  <2>1. NoNewReds(t, v, S \ {n, p})
    BY <1>3, <1>5 DEF NoNewReds
  <2> QED
    BY <2>1, <1>1, <1>2, <1>2a, <1>3, <1>4, <1>9, TurnedReds
<1>11. Sound(v, S, m, pos, NoGap, p)
  BY <1>5, <1>7, <1>8, <1>10 DEF Sound
<1>12. v.par[p] = n /\ v.par[n] = g
  BY <1>2, <1>2a, <1>2b, <1>3, <1>4 DEF Turned, TurnedPar
<1>13. v.kid[g][s] = n /\ v.kid[n][s] = p /\ v.kid[n][Other(s)] = t.kid[n][Other(s)]
       /\ v.kid[g][Other(s)] = t.kid[g][Other(s)] /\ g \notin {n, p}
       /\ v.kid[p][Other(s)] = t.kid[n][s]
  <2>1. g \notin {n, p}
    BY <1>2, <1>2a, <1>3
  <2>2. t.kid[g][Other(s)] # p
    BY <1>1, <1>2, <1>2a, <1>3, OrderedFacts
  <2> QED
    BY <2>1, <2>2, <1>2, <1>2a, <1>3, <1>6 DEF TurnedNear
<1>14. IsRed(v, n) /\ IsRed(v, p) /\ IsBlack(v, v.kid[g][Other(s)])
  <2>1. t.kid[g][Other(s)] \in Ptr
    BY <1>2, <1>2a, <1>3, TreeFields
  <2> QED
    BY <2>1, <1>2, <1>2a, <1>3, <1>5, <1>13 DEF IsRed, IsBlack, Ptr
<1>15. PICK w : w = RotateOut(t, n, p, s)
  OBVIOUS
<1>16. PICK tmp : tmp = t.kid[n][s]
  OBVIOUS
<1>17. tmp # n /\ tmp # p /\ tmp \in Ptr
  BY <1>1, <1>2, <1>2a, <1>3, <1>16, OrderedFacts, TreeFields
<1>18. /\ w \in Tree /\ w.root = t.root
       /\ \A x \in Node, y \in Side :
            w.kid[x][y] = IF x = n /\ y = s THEN p
                          ELSE IF x = p /\ y = Other(s) THEN tmp ELSE t.kid[x][y]
       /\ \A x \in Node :
            /\ w.par[x] = IF x = p THEN n ELSE IF x = tmp THEN p ELSE t.par[x]
            /\ w.color[x] = IF x = p THEN "red"
                            ELSE IF x = tmp THEN "black" ELSE t.color[x]
  BY <1>2, <1>2a, <1>3, <1>15, <1>16, <1>17, RotateOutIs
\* Where w and v agree.
<1>19. /\ w.root = v.root
       /\ \A x \in Node, y \in Side : ~(x = g /\ y = s) => w.kid[x][y] = v.kid[x][y]
       /\ \A x \in Node : x # n => w.par[x] = v.par[x]
       /\ \A x \in Node : w.color[x] = v.color[x]
  <2>1. t.par[p] # NIL
    BY <1>2, <1>2a, <1>2b, <1>3
  <2>2. w.root = v.root
    BY <2>1, <1>4, <1>18 DEF Turned
  <2>3. ASSUME NEW x \in Node, NEW y \in Side, ~(x = g /\ y = s)
        PROVE  w.kid[x][y] = v.kid[x][y]
    <3>1. v.kid[x][y] = TurnedKid(t, p, Other(s), n, x, y)
      BY <1>2a, <1>4 DEF Turned
    <3>2. x = g => t.kid[x][y] # p
      <4>1. t.kid[g][Other(s)] # t.kid[g][s]
        BY <1>1, <1>2, <1>2a, <1>3, OrderedFacts
      <4> QED
        BY <4>1, <2>3, <1>2a, <1>3
    <3> QED
      BY <3>1, <3>2, <1>2a, <1>2b, <1>3, <1>16, <1>18 DEF TurnedKid
  <2>4. ASSUME NEW x \in Node, x # n
        PROVE  w.par[x] = v.par[x]
    BY <2>4, <1>2a, <1>2b, <1>3, <1>4, <1>16, <1>18 DEF Turned, TurnedPar
  <2>5. ASSUME NEW x \in Node
        PROVE  w.color[x] = v.color[x]
    <3>1. x = tmp => t.color[x] = "black"
      BY <1>2, <1>2a, <1>3, <1>16, TreeFields DEF IsBlack, IsRed
    <3> QED
      BY <3>1, <1>3, <1>5, <1>18
  <2> QED
    BY <2>2, <2>3, <2>4, <2>5
<1>20. PICK c : c = v.kid[n][Other(s)]
  OBVIOUS
<1>21. Apart(v, n, g, c)
  BY <1>2, <1>2a, <1>3, <1>5, <1>7, <1>13, <1>20, ApartIs
<1>22. Apart(w, n, g, c) /\ c = w.kid[n][Other(s)]
  <2>1. c = w.kid[n][Other(s)]
    BY <1>3, <1>13, <1>19, <1>20
  <2>2. w.par[g] = v.par[g] /\ v.par[g] # g /\ v.par[g] \in Ptr
    BY <1>2, <1>2a, <1>3, <1>5, <1>13, <1>19, <1>21, TreeFields DEF Apart
  <2>3. v.par[g] # NIL => \A y \in Side : w.kid[v.par[g]][y] = v.kid[v.par[g]][y]
    BY <2>2, <1>19 DEF Ptr
  <2> QED
    BY <2>1, <2>2, <2>3, <1>21 DEF Apart, Side
<1>23. Raised(w, u, n, g, s, "red", NIL, c)
  BY <1>15, <1>18, <1>22, RotateUpIs
<1>24. Raised(v, u, n, g, s, "red", NIL, c)
  <2>1. g \in Node /\ n \in Node /\ g # n /\ w.par[g] = v.par[g] /\ w.color[g] = v.color[g]
        /\ w.kid[n][Other(s)] = v.kid[n][Other(s)]
    BY <1>2, <1>2a, <1>3, <1>13, <1>19
  <2>2. u \in Tree /\ u.root = IF v.par[g] = NIL THEN n ELSE v.root
    BY <2>1, <1>19, <1>23 DEF Raised
  <2>3. ASSUME NEW x \in Node, NEW y \in Side
        PROVE  u.kid[x][y] = TurnedKid(v, g, s, n, x, y)
    <3>1. u.kid[x][y] = TurnedKid(w, g, s, n, x, y)
      BY <1>23 DEF Raised
    <3>2. CASE x = g /\ y = s
      BY <2>1, <3>1, <3>2 DEF TurnedKid
    <3>3. CASE ~(x = g /\ y = s)
      <4>1. w.kid[x][y] = v.kid[x][y]
        BY <3>3, <1>19
      <4> QED
        BY <2>1, <3>1, <3>3, <4>1 DEF TurnedKid
    <3> QED
      BY <3>2, <3>3
  <2>4. ASSUME NEW x \in Node
        PROVE  u.par[x] = IF x = NIL THEN n ELSE TurnedPar(v, g, s, n, x)
    <3>1. u.par[x] = TurnedPar(w, g, s, n, x)
      BY <1>3, <1>23 DEF Raised
    <3> QED
      BY <2>1, <3>1, <1>3, <1>19 DEF TurnedPar
  <2>5. ASSUME NEW x \in Node
        PROVE  u.color[x] = IF x = n THEN v.color[g] ELSE IF x = g THEN "red"
                            ELSE IF x = c THEN "black" ELSE v.color[x]
    BY <2>1, <1>19, <1>23 DEF Raised
  <2> QED
    BY <2>2, <2>3, <2>4, <2>5 DEF Raised
<1>25. p \in S /\ RedPair(v, p, n, g, s, s)
  BY <1>2, <1>12, <1>13, <1>14 DEF RedPair
<1> QED
  BY <1>5, <1>11, <1>20, <1>24, <1>25, InsertOuterIs

-----------------------------------------------------------------------------
(* The cases of the erasure *)

\* The other kid of the node with the gap is a node, and a red one has kids.
LEMMA SiblingFacts ==
  ASSUME NEW t \in Tree, NEW S, NEW m, NEW pos, NEW lo, NEW hi,
         Ordered(t, S, m, pos, lo, hi), NEW q \in S, NEW s \in Side,
         NEW h, Balanced(t, S, h, <<q, s>>), RedsApart(t, S, NIL),
         NEW sib, sib = t.kid[q][Other(s)]
  PROVE  /\ sib \in S /\ sib # q /\ sib # t.kid[q][s]
         /\ h[sib] = Deep(h, t.kid[q][s]) + 1
         /\ t.color[sib] = "red" =>
              /\ t.color[q] = "black"
              /\ \A y \in Side : IsBlack(t, t.kid[sib][y])
              /\ t.kid[sib][s] \in S
<1>1. /\ S \subseteq Node /\ NIL \notin S /\ Other(s) \in Side /\ Other(s) # s
      /\ Other(Other(s)) = s
  BY TreeFields, SideFacts DEF Ordered, Placed
<1>2. h \in [S -> Nat] /\ \A x \in S, y \in Side : Even(t, h, x, y, <<q, s>>)
  BY DEF Balanced
<1>3. \A x \in S, y \in Side : t.kid[x][y] \in S \cup {NIL} /\ t.kid[x][y] # x
  BY OrderedFacts
<1>4. \A x \in S, y \in Side : Deep(h, t.kid[x][y]) \in Nat
  BY <1>2, <1>3 DEF Deep
<1>5. Deep(h, sib) = Deep(h, t.kid[q][s]) + 1
  <2>1. Even(t, h, q, s, <<q, s>>) /\ Even(t, h, q, Other(s), <<q, s>>)
    BY <1>1, <1>2
  <2>2. h[q] = Deep(h, t.kid[q][s]) + Ink(t, q) + 1
    BY <2>1 DEF Even
  <2>3. h[q] = Deep(h, sib) + Ink(t, q) + 0
    BY <2>1, <1>1 DEF Even
  <2>4. Ink(t, q) \in {0, 1} /\ Deep(h, sib) \in Nat /\ Deep(h, t.kid[q][s]) \in Nat
    BY <1>1, <1>4 DEF Ink
  <2> QED
    BY <2>2, <2>3, <2>4
<1>6. sib # NIL
  BY <1>4, <1>5 DEF Deep
<1>7. sib \in S /\ h[sib] = Deep(h, t.kid[q][s]) + 1
  BY <1>1, <1>3, <1>5, <1>6 DEF Deep
<1>8. sib # t.kid[q][s]
  BY <1>1, <1>6, OrderedFacts
<1>9. ASSUME t.color[sib] = "red"
      PROVE  /\ t.color[q] = "black"
             /\ \A y \in Side : IsBlack(t, t.kid[sib][y])
             /\ t.kid[sib][s] \in S
  <2>1. IsRed(t, sib)
    BY <1>6, <1>9 DEF IsRed
  <2>2. t.color[q] # "red"
    BY <2>1, <1>1, <1>6 DEF RedsApart, IsRed
  <2>3. \A y \in Side : IsBlack(t, t.kid[sib][y])
    BY <2>1, <1>7 DEF RedsApart, IsBlack, IsRed
  <2>4. Even(t, h, sib, s, <<q, s>>) /\ sib # q
    BY <1>2, <1>1, <1>3, <1>7
  <2>5. h[sib] = Deep(h, t.kid[sib][s]) + 0 + 0
    BY <2>1, <2>4 DEF Even, Ink, IsBlack
  <2>6. t.kid[sib][s] # NIL
    BY <2>5, <1>2, <1>4, <1>7 DEF Deep
  <2> QED
    BY <2>2, <2>3, <2>6, <1>1, <1>3, <1>7, TreeFields
<1> QED
  BY <1>1, <1>3, <1>7, <1>8, <1>9

LEMMA EraseRedSiblingIs ==
  ASSUME NEW t \in Tree, NEW S, NEW m, NEW pos, NEW q \in S, NEW s \in Side,
         Sound(t, S, m, pos, <<q, s>>, NIL), IsBlack(t, t.kid[q][s]),
         NEW sib, sib = t.kid[q][Other(s)], IsRed(t, sib),
         NEW u, Raised(t, u, sib, q, Other(s), "red", NIL, t.kid[sib][s])
  PROVE  /\ Sound(u, S, m, pos, <<q, s>>, NIL)
         /\ u.kid[q][s] = t.kid[q][s] /\ IsBlack(u, u.kid[q][s])
<1>1. PICK lo, hi, h : /\ Ordered(t, S, m, pos, lo, hi)
                       /\ Balanced(t, S, h, <<q, s>>) /\ RedsApart(t, S, NIL)
  BY DEF Sound
<1>2. /\ sib \in S /\ sib # q /\ t.color[sib] = "red" /\ t.color[q] = "black"
      /\ \A y \in Side : IsBlack(t, t.kid[sib][y])
      /\ t.kid[sib][s] \in S
  <2>1. t.color[sib] = "red"
    BY DEF IsRed
  <2> QED
    BY <2>1, <1>1, SiblingFacts
<1>3. /\ Other(s) \in Side /\ Other(s) # s /\ Other(Other(s)) = s
      /\ S \subseteq Node /\ NIL \notin S /\ \A y \in Side : y = s \/ y = Other(s)
  BY <1>1, TreeFields, SideFacts DEF Ordered, Placed, Side
<1>4. Turned(t, u, q, Other(s))
  <2>1. Outer(t, sib, Other(s), NIL)
    BY DEF Outer
  <2> QED
    BY <2>1, <1>1, <1>2, <1>3, RaisedIs
<1>5. TurnedNear(t, u, S, q, Other(s), sib)
  BY <1>1, <1>2, <1>3, <1>4, TurnedKids
<1>6. \A x \in S : u.color[x] = IF x = sib THEN t.color[q]
                                ELSE IF x = q THEN "red" ELSE t.color[x]
  <2> TAKE x \in S
  <2>1. CASE x = t.kid[sib][s]
    <3>1. x \notin {sib, q}
      BY <2>1, <1>3, <1>5 DEF TurnedNear
    <3>2. t.color[x] = "black"
      BY <2>1, <1>2, <1>3, TreeFields DEF IsBlack, IsRed
    <3> QED
      BY <2>1, <3>1, <3>2, <1>3 DEF Raised
  <2>2. CASE x # t.kid[sib][s]
    BY <2>2, <1>3 DEF Raised
  <2> QED
    BY <2>1, <2>2
<1>7. Balanced(u, S, SwappedInk(h, q, sib), <<q, s>>)
  <2>1. <<q, s>> # <<q, Other(s)>> /\ \A y \in Side : <<q, s>> # <<sib, y>>
    BY <1>2, <1>3
  <2> QED
    BY <2>1, <1>1, <1>2, <1>3, <1>4, <1>6, TurnRed
<1>8. u.kid[q][s] = t.kid[q][s] /\ u.kid[q][Other(s)] = t.kid[sib][s]
  BY <1>3, <1>5 DEF TurnedNear
<1>9. \A y \in Side : IsBlack(u, u.kid[q][y])
  <2>1. ASSUME NEW k \in (S \ {sib, q}) \cup {NIL}, IsBlack(t, k)
        PROVE  IsBlack(u, k)
    BY <2>1, <1>6 DEF IsBlack, IsRed
  <2>2. t.kid[q][s] \in (S \ {sib, q}) \cup {NIL} /\ t.kid[sib][s] \in (S \ {sib, q}) \cup {NIL}
    BY <1>3, <1>5 DEF TurnedNear
  <2> QED
    BY <2>1, <2>2, <1>2, <1>3, <1>8
<1>10. RedsNear(t, u, sib, q, NIL, NIL)
  <2>1. u.color[sib] = t.color[q] /\ u.color[sib] = "black"
    BY <1>2, <1>6
  <2>2. \A y \in Side : ~IsRed(u, u.kid[q][y])
    BY <1>9 DEF IsBlack
  <2>3. ~IsRed(u, sib)
    BY <2>1 DEF IsRed
  <2> QED
    BY <2>1, <2>2, <2>3, <1>3 DEF RedsNear
<1>11. RedsApart(u, S, NIL)
  <2>1. NoNewReds(t, u, S \ {sib, q})
    BY <1>6 DEF NoNewReds
  <2> QED
    BY <2>1, <1>1, <1>2, <1>3, <1>4, <1>10, TurnedReds
<1>12. Ordered(u, S, m, pos, TurnedLo(lo, pos, q, Other(s), sib),
                             TurnedHi(hi, pos, q, Other(s), sib))
  BY <1>1, <1>2, <1>3, <1>4, TurnKeepsOrder
<1> QED
  BY <1>3, <1>4, <1>7, <1>8, <1>9, <1>11, <1>12 DEF Sound, Turned

LEMMA EraseOuterIs ==
  ASSUME NEW t \in Tree, NEW S, NEW m, NEW pos, NEW q \in S, NEW s \in Side,
         Sound(t, S, m, pos, <<q, s>>, NIL), IsBlack(t, t.kid[q][s]),
         NEW sib, sib = t.kid[q][Other(s)], IsBlack(t, sib),
         NEW o, o = t.kid[sib][Other(s)], IsRed(t, o),
         NEW u, Raised(t, u, sib, q, Other(s), "black", o, o)
  PROVE  Sound(u, S, m, pos, NoGap, NIL)
<1>1. PICK lo, hi, h : /\ Ordered(t, S, m, pos, lo, hi)
                       /\ Balanced(t, S, h, <<q, s>>) /\ RedsApart(t, S, NIL)
  BY DEF Sound
<1>2. sib \in S /\ sib # q
  BY <1>1, SiblingFacts
<1>3. /\ Other(s) \in Side /\ Other(s) # s /\ Other(Other(s)) = s
      /\ S \subseteq Node /\ NIL \notin S /\ \A y \in Side : y = s \/ y = Other(s)
  BY <1>1, TreeFields, SideFacts DEF Ordered, Placed, Side
<1>4. Turned(t, u, q, Other(s))
  <2>1. Outer(t, sib, Other(s), o)
    BY DEF Outer
  <2> QED
    BY <2>1, <1>1, <1>2, <1>3, RaisedIs
<1>5. TurnedNear(t, u, S, q, Other(s), sib)
  BY <1>1, <1>2, <1>3, <1>4, TurnedKids
<1>6. o \in S /\ o \notin {sib, q} /\ t.color[o] = "red" /\ t.color[sib] = "black"
  <2>1. o \in (S \ {sib, q}) \cup {NIL} /\ o # NIL /\ t.color[o] = "red"
    BY <1>5 DEF TurnedNear, IsRed
  <2>2. t.color[sib] = "black"
    BY <1>2, <1>3, TreeFields DEF IsBlack, IsRed
  <2> QED
    BY <2>1, <2>2
<1>7. \A x \in S : u.color[x] = IF x = sib THEN t.color[q]
                                ELSE IF x \in {q, o} THEN "black" ELSE t.color[x]
  BY <1>3, <1>6 DEF Raised
<1>8. Balanced(u, S, FilledInk(h, q, sib, o), NoGap)
  <2>1. PICK side \in Side : side = Other(s)
    BY <1>3
  <2>2. Balanced(t, S, h, <<q, Other(side)>>)
    BY <2>1, <1>1, <1>3
  <2>3. o = t.kid[sib][side] /\ t.kid[q][side] = sib /\ Turned(t, u, q, side)
    BY <2>1, <1>4
  <2> QED
    BY <2>2, <2>3, <1>1, <1>2, <1>6, <1>7, TurnFillsGap
<1>9. RedsNear(t, u, sib, q, NIL, NIL)
  <2>1. u.color[sib] = t.color[q]
    BY <1>2, <1>7
  <2>2. ~IsRed(u, q) /\ ~IsRed(u, o)
    BY <1>2, <1>6, <1>7 DEF IsRed
  <2>3. \A y \in Side : u.kid[sib][y] \in {q, o}
    BY <1>3, <1>5 DEF TurnedNear
  <2> QED
    BY <2>1, <2>2, <2>3, <1>3 DEF RedsNear
<1>10. RedsApart(u, S, NIL)
  <2>1. NoNewReds(t, u, S \ {sib, q})
    BY <1>6, <1>7 DEF NoNewReds
  <2> QED
    BY <2>1, <1>1, <1>2, <1>3, <1>4, <1>9, TurnedReds
<1>11. Ordered(u, S, m, pos, TurnedLo(lo, pos, q, Other(s), sib),
                             TurnedHi(hi, pos, q, Other(s), sib))
  BY <1>1, <1>2, <1>3, <1>4, TurnKeepsOrder
<1> QED
  BY <1>4, <1>8, <1>10, <1>11 DEF Sound, Turned

LEMMA RotateInnerIs ==
  ASSUME NEW t \in Tree, NEW sib \in Node, NEW inner \in Node, NEW s \in Side,
         parent \in Node, sib # inner, sib # parent, inner # parent,
         NEW tmp, tmp = t.kid[inner][Other(s)],
         NEW w, w = RotateInner(t, sib, inner, s)
  PROVE  /\ w \in Tree /\ w.root = t.root
         /\ \A x \in Node, y \in Side :
              w.kid[x][y] = IF x = parent /\ y = Other(s) THEN inner
                            ELSE IF x = inner /\ y = Other(s) THEN sib
                            ELSE IF x = sib /\ y = s THEN tmp ELSE t.kid[x][y]
         /\ \A x \in Node :
              /\ w.par[x] = IF x = tmp THEN sib ELSE t.par[x]
              /\ w.color[x] = IF x = tmp THEN "black" ELSE t.color[x]
<1>1. tmp \in Ptr /\ sib \in Ptr /\ inner \in Ptr /\ Other(s) \in Side
  BY TreeFields, SideFacts DEF Ptr
<1>2. PICK t1 : t1 = SetKid(t, sib, s, tmp)
  OBVIOUS
<1>3. KidSet(t, t1, sib, s, tmp)
  BY <1>1, <1>2, SetKidIs
<1>3a. t1 \in Tree
  BY <1>3 DEF KidSet
<1>4. PICK t2 : t2 = SetKid(t1, inner, Other(s), sib)
  OBVIOUS
<1>5. KidSet(t1, t2, inner, Other(s), sib)
  BY <1>1, <1>3a, <1>4, SetKidIs
<1>5a. t2 \in Tree
  BY <1>5 DEF KidSet
<1>6. PICK t3 : t3 = SetKid(t2, parent, Other(s), inner)
  OBVIOUS
<1>7. KidSet(t2, t3, parent, Other(s), inner)
  BY <1>1, <1>5a, <1>6, SetKidIs
<1>7a. t3 \in Tree
  BY <1>7 DEF KidSet
<1>8. w = Blacken(t3, tmp, sib)
  BY <1>2, <1>4, <1>6 DEF RotateInner, Kid
<1>9. ParColorSet(t3, w, tmp, sib, "black")
  BY <1>1, <1>7a, <1>8, BlackenIs
<1> QED
  BY <1>3, <1>5, <1>7, <1>9 DEF KidSet, ParColorSet

\* The inner kid of the sibling is red, and the outer one is not.
InnerRed(t, q, s, sib, inner) ==
  /\ IsBlack(t, t.kid[q][s])
  /\ sib = t.kid[q][Other(s)] /\ IsBlack(t, sib)
  /\ inner = t.kid[sib][s] /\ IsRed(t, inner)
  /\ IsBlack(t, t.kid[sib][Other(s)])

LEMMA EraseInnerIs ==
  ASSUME NEW t \in Tree, NEW S, NEW m, NEW pos, NEW q \in S, q = parent,
         NEW s \in Side,
         Sound(t, S, m, pos, <<q, s>>, NIL),
         NEW sib, NEW inner, InnerRed(t, q, s, sib, inner),
         NEW u, u = RotateSibling(RotateInner(t, sib, inner, s), inner, sib, s)
  PROVE  Sound(u, S, m, pos, NoGap, NIL)
<1>1. PICK lo, hi, h : /\ Ordered(t, S, m, pos, lo, hi)
                       /\ Balanced(t, S, h, <<q, s>>) /\ RedsApart(t, S, NIL)
  BY DEF Sound
<1>2. sib \in S /\ sib # q /\ sib # t.kid[q][s]
  <2>1. sib = t.kid[q][Other(s)]
    BY DEF InnerRed
  <2> QED
    BY <1>1, <2>1, SiblingFacts
<1>2a. t.kid[q][Other(s)] = sib /\ t.kid[sib][s] = inner
  BY DEF InnerRed
<1>3. /\ Other(s) \in Side /\ Other(s) # s /\ Other(Other(s)) = s
      /\ S \subseteq Node /\ NIL \notin S /\ NIL \notin Node
      /\ \A y \in Side : y = s \/ y = Other(s)
  BY <1>1, TreeFields, SideFacts DEF Ordered, Placed, Side
<1>4. inner \in S /\ t.color[inner] = "red" /\ t.color[sib] = "black"
  <2>1. inner \in S \cup {NIL}
    BY <1>1, <1>2, <1>2a, OrderedFacts
  <2>2. t.color[sib] = "black"
    BY <1>2, <1>3, TreeFields DEF InnerRed, IsBlack, IsRed
  <2>3. IsRed(t, inner)
    BY DEF InnerRed
  <2> QED
    BY <2>1, <2>2, <2>3 DEF IsRed
<1>5. inner # q /\ inner # sib /\ t.par[sib] = q /\ t.par[inner] = sib
  <2>1. \A x \in S, y \in Side : t.kid[x][y] # NIL => t.par[t.kid[x][y]] = x
    BY <1>1, OrderedFacts
  <2>2. inner # t.par[sib] /\ inner # sib
    BY <1>1, <1>2, <1>2a, <1>3, <1>4, OrderedFacts
  <2> QED
    BY <2>1, <2>2, <1>2, <1>2a, <1>3, <1>4
<1>6. PICK v : /\ Turned(t, v, sib, s)
               /\ \A x \in Node : v.color[x] = IF x = inner THEN t.color[sib]
                                    ELSE IF x = sib THEN t.color[inner] ELSE t.color[x]
  BY <1>1, <1>2, <1>2a, <1>4, TurnedExists
<1>7. v \in Tree
  BY <1>6 DEF Turned
<1>8. TurnedNear(t, v, S, sib, s, inner)
  BY <1>1, <1>2, <1>4, <1>2a, <1>6, TurnedKids
<1>9. Ordered(v, S, m, pos, TurnedLo(lo, pos, sib, s, inner),
                            TurnedHi(hi, pos, sib, s, inner))
  BY <1>1, <1>2, <1>4, <1>2a, <1>6, TurnKeepsOrder
<1>10. Balanced(v, S, SwappedInk(h, sib, inner), <<q, s>>)
  <2>1. <<q, s>> # <<sib, s>> /\ \A y \in Side : <<q, s>> # <<inner, y>>
    BY <1>2, <1>5
  <2>2. \A x \in S : v.color[x] = IF x = inner THEN t.color[sib]
                                  ELSE IF x = sib THEN "red" ELSE t.color[x]
    BY <1>3, <1>4, <1>6
  <2> QED
    BY <2>1, <2>2, <1>1, <1>2, <1>4, <1>2a, <1>6, TurnRed
<1>11. RedsNear(t, v, inner, sib, NIL, NIL)
  <2>1. v.color[inner] = "black" /\ v.color[sib] = "red"
    BY <1>2, <1>3, <1>4, <1>5, <1>6
  <2>2. ~IsRed(v, inner)
    BY <2>1 DEF IsRed
  <2>3. ASSUME NEW y \in Side PROVE ~IsRed(v, v.kid[sib][y])
    <3>1. PICK k : k = v.kid[sib][y]
      OBVIOUS
    <3>2. k \in {t.kid[inner][Other(s)], t.kid[sib][Other(s)]}
          /\ k \in (S \ {inner, sib}) \cup {NIL}
      <4>1. CASE y = s
        BY <4>1, <3>1, <1>8 DEF TurnedNear
      <4>2. CASE y = Other(s)
        BY <4>2, <3>1, <1>8 DEF TurnedNear
      <4> QED
        BY <4>1, <4>2, <1>3
    <3>3. IsBlack(t, t.kid[inner][Other(s)])
      BY <1>1, <1>3, <1>4 DEF RedsApart, IsBlack, IsRed
    <3>4. IsBlack(t, k)
      BY <3>2, <3>3 DEF InnerRed
    <3> QED
      BY <3>1, <3>2, <3>4, <1>3, <1>6 DEF IsBlack, IsRed
  <2> QED
    BY <2>1, <2>2, <2>3, <1>2, <1>3, <1>4 DEF RedsNear
<1>12. RedsApart(v, S, NIL)
  <2>1. NoNewReds(t, v, S \ {inner, sib})
    BY <1>3, <1>6 DEF NoNewReds
  <2> QED
    BY <2>1, <1>1, <1>2, <1>4, <1>6, <1>2a, <1>11, TurnedReds
<1>13. Sound(v, S, m, pos, <<q, s>>, NIL)
  BY <1>7, <1>9, <1>10, <1>12 DEF Sound
<1>14. /\ v.kid[q][Other(s)] = inner /\ v.kid[q][s] = t.kid[q][s]
       /\ v.kid[inner][Other(s)] = sib /\ v.kid[inner][s] = t.kid[inner][s]
  <2>1. q \in S \ {inner, sib} /\ t.kid[q][s] # sib
    BY <1>2, <1>5
  <2>2. v.kid[q][Other(s)] = inner /\ v.kid[q][s] = t.kid[q][s]
    BY <2>1, <1>2a, <1>3, <1>8 DEF TurnedNear
  <2> QED
    BY <2>2, <1>8 DEF TurnedNear
<1>15. IsBlack(v, v.kid[q][s]) /\ IsBlack(v, inner) /\ IsRed(v, sib)
  <2>1. v.kid[q][s] \in (S \ {inner}) \cup {NIL} /\ v.kid[q][s] # sib
    BY <1>2, <1>5, <1>8, <1>14 DEF TurnedNear
  <2>2. IsBlack(t, v.kid[q][s])
    BY <1>14 DEF InnerRed
  <2>3. IsBlack(v, v.kid[q][s])
    BY <2>1, <2>2, <1>3, <1>6 DEF IsBlack, IsRed
  <2> QED
    BY <2>3, <1>2, <1>3, <1>4, <1>5, <1>6 DEF IsBlack, IsRed
<1>16. PICK w : w = RotateInner(t, sib, inner, s)
  OBVIOUS
<1>17. PICK tmp : tmp = t.kid[inner][Other(s)]
  OBVIOUS
<1>18. /\ w \in Tree /\ w.root = t.root
       /\ \A x \in Node, y \in Side :
            w.kid[x][y] = IF x = q /\ y = Other(s) THEN inner
                          ELSE IF x = inner /\ y = Other(s) THEN sib
                          ELSE IF x = sib /\ y = s THEN tmp ELSE t.kid[x][y]
       /\ \A x \in Node :
            /\ w.par[x] = IF x = tmp THEN sib ELSE t.par[x]
            /\ w.color[x] = IF x = tmp THEN "black" ELSE t.color[x]
  BY <1>2, <1>3, <1>4, <1>5, <1>16, <1>17, RotateInnerIs
\* Where w and v agree.
<1>19. /\ w.root = v.root
       /\ \A x \in Node, y \in Side : w.kid[x][y] = v.kid[x][y]
       /\ \A x \in Node \ {sib, inner} : w.par[x] = v.par[x]
       /\ \A x \in Node \ {sib, inner} : w.color[x] = v.color[x]
  <2>1. w.root = v.root
    BY <1>3, <1>5, <1>6, <1>18 DEF Turned
  <2>2. ASSUME NEW x \in Node, NEW y \in Side
        PROVE  w.kid[x][y] = v.kid[x][y]
    <3>1. v.kid[x][y] = TurnedKid(t, sib, s, inner, x, y)
      BY <1>2a, <1>6 DEF Turned
    <3> QED
      BY <3>1, <1>2, <1>2a, <1>3, <1>5, <1>17, <1>18 DEF TurnedKid
  <2>3. ASSUME NEW x \in Node \ {sib, inner}
        PROVE  w.par[x] = v.par[x]
    <3>1. v.par[x] = TurnedPar(t, sib, s, inner, x)
      BY <1>2a, <1>6 DEF Turned
    <3>2. w.par[x] = IF x = tmp THEN sib ELSE t.par[x]
      BY <1>18
    <3> QED
      BY <2>3, <3>1, <3>2, <1>17 DEF TurnedPar
  <2>4. ASSUME NEW x \in Node \ {sib, inner}
        PROVE  w.color[x] = v.color[x]
    <3>1. x = tmp => t.color[x] = "black"
      <4>1. IsBlack(t, t.kid[inner][Other(s)])
        BY <1>1, <1>3, <1>4 DEF RedsApart, IsBlack, IsRed
      <4> QED
        BY <4>1, <1>3, <1>17, TreeFields DEF IsBlack, IsRed
    <3> QED
      BY <3>1, <1>6, <1>18
  <2> QED
    BY <2>1, <2>2, <2>3, <2>4
<1>20. PICK c : c = v.kid[inner][s]
  OBVIOUS
<1>21. Apart(v, inner, q, c)
  <2>1. PICK side \in Side : side = Other(s)
    BY <1>3
  <2>2. Apart(v, inner, q, v.kid[inner][Other(side)])
    BY <2>1, <1>4, <1>7, <1>9, <1>14, ApartIs
  <2> QED
    BY <2>1, <2>2, <1>3, <1>20
<1>22. Apart(w, inner, q, c) /\ c = w.kid[inner][s]
  <2>1. c = w.kid[inner][s]
    BY <1>3, <1>4, <1>19, <1>20
  <2>2. w.par[q] = v.par[q] /\ v.par[q] \in Ptr
    BY <1>2, <1>3, <1>5, <1>7, <1>19, TreeFields
  <2>3. v.par[q] # NIL => \A y \in Side : w.kid[v.par[q]][y] = v.kid[v.par[q]][y]
    BY <2>2, <1>19 DEF Ptr
  <2> QED
    BY <2>1, <2>2, <2>3, <1>21 DEF Apart, Side
<1>23. Raised(w, u, inner, q, Other(s), "black", sib, sib)
  <2>1. sib \notin {inner, q, c} /\ sib \in Node
    <3>1. c \in (S \ {inner, sib}) \cup {NIL}
      BY <1>8, <1>14, <1>20 DEF TurnedNear
    <3> QED
      BY <3>1, <1>2, <1>3, <1>5
  <2>2. Apart(w, inner, parent, c) /\ sib \notin {inner, parent, c}
    BY <2>1, <1>22
  <2> QED
    BY <2>1, <2>2, <1>16, <1>18, <1>22, RotateSiblingIs
<1>24. Raised(v, u, inner, q, Other(s), "black", sib, sib)
  <2>1. q \in Node /\ inner \in Node /\ sib \in Node
        /\ w.par[q] = v.par[q] /\ w.color[q] = v.color[q]
        /\ w.kid[inner][Other(Other(s))] = v.kid[inner][Other(Other(s))]
    BY <1>2, <1>3, <1>4, <1>5, <1>19
  <2>2. u \in Tree /\ u.root = IF v.par[q] = NIL THEN inner ELSE v.root
    BY <2>1, <1>19, <1>23 DEF Raised
  <2>3. ASSUME NEW x \in Node, NEW y \in Side
        PROVE  u.kid[x][y] = TurnedKid(v, q, Other(s), inner, x, y)
    <3>1. u.kid[x][y] = TurnedKid(w, q, Other(s), inner, x, y)
      BY <1>23 DEF Raised
    <3> QED
      BY <2>1, <3>1, <1>19 DEF TurnedKid
  <2>4. ASSUME NEW x \in Node
        PROVE  u.par[x] = IF x = sib THEN inner ELSE TurnedPar(v, q, Other(s), inner, x)
    <3>1. u.par[x] = IF x = sib THEN inner ELSE TurnedPar(w, q, Other(s), inner, x)
      BY <1>23 DEF Raised
    <3> QED
      BY <2>1, <3>1, <1>19 DEF TurnedPar
  <2>5. ASSUME NEW x \in Node
        PROVE  u.color[x] = IF x = inner THEN v.color[q] ELSE IF x = q THEN "black"
                            ELSE IF x = sib THEN "black" ELSE v.color[x]
    BY <2>1, <1>19, <1>23 DEF Raised
  <2> QED
    BY <2>2, <2>3, <2>4, <2>5 DEF Raised
<1> QED
  BY <1>7, <1>13, <1>14, <1>15, <1>24, EraseOuterIs

\* The sibling becomes red and q black; the gap below q is filled, or is where
\* q is below a.
Recolored(t, u, q, sib) ==
  /\ u \in Tree /\ u.root = t.root /\ u.kid = t.kid /\ u.par = t.par
  /\ \A x \in Node : u.color[x] = IF x = sib THEN "red"
                                  ELSE IF x = q THEN "black" ELSE t.color[x]

GapAbove(t, q, gap) ==
  \/ gap = NoGap /\ (IsRed(t, q) \/ t.par[q] = NIL)
  \/ /\ IsBlack(t, q) /\ t.par[q] # NIL
     /\ \E y \in Side : gap = <<t.par[q], y>> /\ t.kid[t.par[q]][y] = q

RecoloredInk(t, h, q, sib) ==
  [h EXCEPT ![sib] = h[sib] - 1, ![q] = h[q] - Ink(t, q)]

LEMMA EraseRecolorIs ==
  ASSUME NEW t \in Tree, NEW S, NEW m, NEW pos, NEW q \in S, NEW s \in Side,
         Sound(t, S, m, pos, <<q, s>>, NIL),
         NEW sib, sib = t.kid[q][Other(s)], IsBlack(t, sib),
         \A y \in Side : IsBlack(t, t.kid[sib][y]),
         NEW u, Recolored(t, u, q, sib), NEW gap, GapAbove(t, q, gap)
  PROVE  Sound(u, S, m, pos, gap, NIL)
<1>1. PICK lo, hi, h : /\ Ordered(t, S, m, pos, lo, hi)
                       /\ Balanced(t, S, h, <<q, s>>) /\ RedsApart(t, S, NIL)
  BY DEF Sound
<1>2. sib \in S /\ sib # q /\ sib # t.kid[q][s] /\ h[sib] = Deep(h, t.kid[q][s]) + 1
  BY <1>1, SiblingFacts
<1>3. /\ Other(s) \in Side /\ Other(s) # s /\ Other(Other(s)) = s
      /\ S \subseteq Node /\ NIL \notin S /\ NIL \notin Node
      /\ \A y \in Side : y = s \/ y = Other(s)
  BY <1>1, TreeFields, SideFacts DEF Ordered, Placed, Side
<1>4. /\ \A x \in S, y \in Side :
           /\ t.kid[x][y] \in S \cup {NIL} /\ t.kid[x][y] # x
           /\ t.kid[x][y] # NIL => /\ t.par[t.kid[x][y]] = x
                                   /\ t.kid[x][Other(y)] # t.kid[x][y]
      /\ \A x \in S : t.par[x] = NIL <=> x = t.root
  BY <1>1, OrderedFacts
<1>5. /\ t.color[sib] = "black" /\ t.par[sib] = q
      /\ \A x \in S, y \in Side : t.kid[x][y] = sib => x = q /\ y = Other(s)
  <2>1. t.color[sib] = "black" /\ t.par[sib] = q
    BY <1>2, <1>3, <1>4, TreeFields DEF IsBlack, IsRed
  <2>2. \A x \in S, y \in Side : t.kid[x][y] = sib => x = q
    BY <2>1, <1>2, <1>3, <1>4
  <2> QED
    BY <2>1, <2>2, <1>2, <1>3
<1>6. /\ h \in [S -> Nat] /\ \A x \in S, y \in Side : Even(t, h, x, y, <<q, s>>)
      /\ \A x \in S, y \in Side : Deep(h, t.kid[x][y]) \in Nat
  BY <1>1, <1>4 DEF Balanced, Deep
<1>7. PICK h2 : h2 = RecoloredInk(t, h, q, sib)
  OBVIOUS
<1>8. Ink(t, q) \in {0, 1} /\ Ink(u, q) = 1 /\ Ink(u, sib) = 0 /\ Ink(t, sib) = 1
      /\ \A x \in S \ {q, sib} : Ink(u, x) = Ink(t, x)
  BY <1>2, <1>3, <1>5 DEF Ink, IsBlack, IsRed, Recolored
<1>9. h[q] = h[sib] + Ink(t, q)
  <2>1. Even(t, h, q, Other(s), <<q, s>>)
    BY <1>3, <1>6
  <2> QED
    BY <2>1, <1>2, <1>3, <1>6, <1>8 DEF Even, Deep
<1>10. /\ h2 \in [S -> Nat] /\ h2[sib] = h[sib] - 1 /\ h2[q] = h[q] - Ink(t, q)
       /\ \A x \in S \ {q, sib} : h2[x] = h[x]
       /\ \A k \in (S \ {q, sib}) \cup {NIL} : Deep(h2, k) = Deep(h, k)
  <2>1. h[sib] \in Nat /\ h[sib] - 1 \in Nat
    BY <1>2, <1>6
  <2>2. h[q] - Ink(t, q) \in Nat
    BY <2>1, <1>8, <1>9
  <2> QED
    BY <2>1, <2>2, <1>2, <1>3, <1>6, <1>7 DEF RecoloredInk, Deep
<1>11. \A x \in Node, y \in Side : u.kid[x][y] = t.kid[x][y]
  BY DEF Recolored
<1>12. ASSUME NEW x \in S, NEW y \in Side
       PROVE  gap = <<x, y>> <=> t.kid[x][y] = q /\ IsBlack(t, q)
  <2>1. CASE gap = NoGap /\ (IsRed(t, q) \/ t.par[q] = NIL)
    <3>1. gap # <<x, y>>
      BY <2>1, <1>3 DEF NoGap
    <3>2. t.par[q] = NIL => t.kid[x][y] # q
      BY <1>3, <1>4
    <3> QED
      BY <2>1, <3>1, <3>2 DEF IsBlack
  <2>2. CASE /\ IsBlack(t, q) /\ t.par[q] # NIL
             /\ \E z \in Side : gap = <<t.par[q], z>> /\ t.kid[t.par[q]][z] = q
    <3>1. PICK a : a = t.par[q]
      OBVIOUS
    <3>2. PICK z \in Side : gap = <<a, z>> /\ t.kid[a][z] = q
      BY <2>2, <3>1
    <3>3. ASSUME t.kid[x][y] = q PROVE gap = <<x, y>>
      <4>1. a = x
        BY <3>1, <3>3, <1>3, <1>4
      <4>2. t.kid[x][Other(y)] # q
        BY <3>3, <1>3, <1>4
      <4> QED
        BY <3>2, <4>1, <4>2, SideFacts DEF Side
    <3> QED
      BY <2>2, <3>2, <3>3
  <2> QED
    BY <2>1, <2>2 DEF GapAbove
<1>13. ASSUME NEW x \in S, NEW y \in Side PROVE Even(u, h2, x, y, gap)
  <2>1. PICK k : k = t.kid[x][y]
    OBVIOUS
  <2>2. PICK g1 : g1 = IF <<q, s>> = <<x, y>> THEN 1 ELSE 0
    OBVIOUS
  <2>3. PICK g2 : g2 = IF gap = <<x, y>> THEN 1 ELSE 0
    OBVIOUS
  <2>4. h[x] = Deep(h, k) + Ink(t, x) + g1
    <3>1. Even(t, h, x, y, <<q, s>>)
      BY <1>6
    <3> QED
      BY <3>1, <2>1, <2>2 DEF Even
  <2>5. h[x] \in Nat /\ Deep(h, k) \in Nat /\ k \in S \cup {NIL} /\ k # x
    BY <2>1, <1>4, <1>6
  <2>6. h2[x] = Deep(h2, k) + Ink(u, x) + g2
    <3>1. CASE x = q /\ y = s
      <4>1. g1 = 1 /\ g2 = 0 /\ k \notin {q, sib}
        BY <3>1, <2>1, <2>2, <2>3, <2>5, <1>2, <1>3, <1>12
      <4>2. Deep(h2, k) = Deep(h, k)
        BY <4>1, <2>5, <1>10
      <4> QED
        BY <3>1, <4>1, <4>2, <2>4, <2>5, <1>8, <1>10
    <3>2. CASE x = q /\ y = Other(s)
      <4>1. g2 = 0 /\ k = sib
        BY <3>2, <2>1, <2>3, <1>2, <1>12
      <4>2. Deep(h2, k) = h[sib] - 1
        BY <4>1, <1>2, <1>3, <1>10 DEF Deep
      <4> QED
        BY <3>2, <4>1, <4>2, <1>2, <1>6, <1>8, <1>9, <1>10
    <3>3. CASE x = sib
      <4>1. g1 = 0 /\ g2 = 0 /\ k \notin {q, sib}
        <5>1. k # q
          <6> SUFFICES ASSUME k = q PROVE FALSE
            OBVIOUS
          <6>0. t.kid[x][y] = q /\ q # NIL
            BY <2>1, <1>3
          <6>1. t.par[sib] = q /\ t.par[q] = sib
            BY <6>0, <3>3, <1>4, <1>5
          <6>2. sib # t.par[q]
            <7>1. t.kid[q][Other(s)] # NIL => t.kid[q][Other(s)] # t.par[q]
              BY <1>1, <1>3, OrderedFacts
            <7> QED
              BY <7>1, <1>2, <1>3
          <6> QED
            BY <6>1, <6>2
        <5> QED
          BY <5>1, <3>3, <2>1, <2>2, <2>3, <2>5, <1>2, <1>12
      <4>2. Deep(h2, k) = Deep(h, k)
        BY <4>1, <2>5, <1>10
      <4> QED
        BY <3>3, <4>1, <4>2, <2>4, <2>5, <1>8, <1>10
    <3>4. CASE x \notin {q, sib}
      <4>1. g1 = 0 /\ k # sib /\ Ink(u, x) = Ink(t, x) /\ h2[x] = h[x]
            /\ Ink(t, x) \in {0, 1}
        BY <3>4, <2>1, <2>2, <1>5, <1>8, <1>10 DEF Ink
      <4>2. CASE k = q
        <5>1. g2 = Ink(t, q)
          BY <4>2, <2>1, <2>3, <1>12 DEF Ink
        <5>2. Deep(h2, k) = h[q] - Ink(t, q) /\ Deep(h, k) = h[q]
          BY <4>2, <1>3, <1>10 DEF Deep
        <5> QED
          BY <4>1, <5>1, <5>2, <2>4, <2>5, <1>8
      <4>3. CASE k # q
        <5>1. g2 = 0
          BY <4>3, <2>1, <2>3, <1>12
        <5>2. Deep(h2, k) = Deep(h, k)
          BY <4>1, <4>3, <2>5, <1>10
        <5> QED
          BY <4>1, <5>1, <5>2, <2>4, <2>5
      <4> QED
        BY <4>2, <4>3
    <3> QED
      BY <3>1, <3>2, <3>3, <3>4, <1>3
  <2>7. u.kid[x][y] = k
    BY <2>1 DEF Recolored
  <2> QED
    BY <2>3, <2>6, <2>7 DEF Even
<1>14. RedsApart(u, S, NIL)
  <2>1. ASSUME NEW x \in S, NEW y \in Side, IsRed(u, x), IsRed(u, u.kid[x][y])
        PROVE  FALSE
    <3>1. PICK k : k = t.kid[x][y]
      OBVIOUS
    <3>2. u.kid[x][y] = k /\ IsRed(u, k) /\ k \in S /\ k # x
      BY <2>1, <3>1, <1>4 DEF Recolored, IsRed
    <3>3. x # q /\ k # q
      BY <2>1, <3>2, <1>2, <1>3 DEF Recolored, IsRed
    <3>4. k # sib
      BY <3>1, <3>3, <1>5
    <3>5. IsRed(t, k)
      BY <3>2, <3>3, <3>4, <1>3 DEF Recolored, IsRed
    <3>6. CASE x = sib
      BY <3>1, <3>5, <3>6 DEF IsBlack
    <3>7. CASE x # sib
      <4>1. IsRed(t, x)
        BY <2>1, <3>3, <3>7, <1>3 DEF Recolored, IsRed
      <4> QED
        BY <3>1, <3>2, <3>5, <4>1, <1>1, <1>3 DEF RedsApart
    <3> QED
      BY <3>6, <3>7
  <2>2. ~IsRed(u, u.root)
    <3> SUFFICES ASSUME IsRed(u, t.root) PROVE FALSE
      BY DEF Recolored
    <3>1. t.root \in S /\ t.par[t.root] = NIL
      BY <1>1 DEF Ordered, Rooted
    <3>2. t.root # sib /\ t.root # q
      BY <3>1, <1>2, <1>3, <1>5 DEF Recolored, IsRed
    <3>3. IsRed(t, t.root)
      BY <3>1, <3>2, <1>3 DEF Recolored, IsRed
    <3> QED
      BY <3>1, <3>3, <1>1, <1>3 DEF RedsApart
  <2> QED
    BY <2>1, <2>2 DEF RedsApart
<1>15. Ordered(u, S, m, pos, lo, hi)
  BY <1>1, ColorsKeepOrder DEF Recolored
<1> QED
  BY <1>10, <1>13, <1>14, <1>15 DEF Sound, Balanced, Recolored

-----------------------------------------------------------------------------
(* The recolouring of the insertion *)

\* Both kids of g become black, and g red.
Lightened(t, u, g, p, uncle) ==
  /\ u \in Tree /\ u.root = t.root /\ u.kid = t.kid /\ u.par = t.par
  /\ \A x \in Node : u.color[x] = IF x = g THEN "red"
                                  ELSE IF x \in {p, uncle} THEN "black" ELSE t.color[x]

LightenedInk(h, p, uncle) == [h EXCEPT ![p] = h[p] + 1, ![uncle] = h[uncle] + 1]

\* The red parent p of n is the kid of g on side s, and the other kid is red.
UncleRed(t, n, p, g, s, uncle) ==
  /\ p = t.par[n] /\ g = t.par[p] /\ IsRed(t, p) /\ IsRed(t, n)
  /\ t.kid[g][s] = p /\ t.kid[g][Other(s)] = uncle /\ IsRed(t, uncle)

LEMMA InsertRecolorIs ==
  ASSUME NEW t \in Tree, NEW S, NEW m, NEW pos, NEW n \in S,
         Sound(t, S, m, pos, NoGap, n),
         NEW p, NEW g, NEW s \in Side, NEW uncle, UncleRed(t, n, p, g, s, uncle),
         NEW u, Lightened(t, u, g, p, uncle)
  PROVE  Sound(u, S, m, pos, NoGap, g) /\ g \in S /\ IsRed(u, g)
<1>1. PICK lo, hi, h : /\ Ordered(t, S, m, pos, lo, hi)
                       /\ Balanced(t, S, h, NoGap) /\ RedsApart(t, S, n)
  BY DEF Sound
<1>2. p \in S /\ p # n /\ g \in S /\ t.color[g] = "black"
  <2>1. p = t.par[n] /\ g = t.par[p] /\ IsRed(t, p) /\ IsRed(t, n)
    BY DEF UncleRed
  <2> QED
    BY <1>1, <2>1, RedParentFacts
<1>2a. t.kid[g][s] = p /\ t.kid[g][Other(s)] = uncle /\ t.par[n] = p
  BY DEF UncleRed
<1>3. /\ Other(s) \in Side /\ Other(s) # s /\ \A y \in Side : y = s \/ y = Other(s)
      /\ S \subseteq Node /\ NIL \notin S /\ NIL \notin Node
  BY <1>1, TreeFields, SideFacts DEF Ordered, Placed, Side
<1>4. /\ \A x \in S, y \in Side :
           /\ t.kid[x][y] \in S \cup {NIL} /\ t.kid[x][y] # x
           /\ t.kid[x][y] # NIL => /\ t.par[t.kid[x][y]] = x
                                   /\ t.kid[x][Other(y)] # t.kid[x][y]
      /\ \A x \in S : t.par[x] = NIL <=> x = t.root
  BY <1>1, OrderedFacts
<1>5. /\ uncle \in S /\ uncle # p /\ uncle # g /\ p # g /\ t.par[uncle] = g
      /\ t.color[p] = "red" /\ t.color[uncle] = "red"
  <2>1. uncle # NIL /\ t.color[p] = "red" /\ t.color[uncle] = "red"
    BY DEF UncleRed, IsRed
  <2>2. t.kid[g][s] \in S \cup {NIL} /\ t.kid[g][s] # g /\ t.kid[g][Other(s)] # g
        /\ t.kid[g][Other(s)] \in S \cup {NIL}
        /\ (t.kid[g][Other(s)] # NIL => t.par[t.kid[g][Other(s)]] = g)
        /\ (t.kid[g][s] # NIL => t.kid[g][Other(s)] # t.kid[g][s])
    BY <1>2, <1>3, <1>4
  <2> QED
    BY <2>1, <2>2, <1>2, <1>2a, <1>3
<1>6. /\ h \in [S -> Nat] /\ \A x \in S, y \in Side : Even(t, h, x, y, NoGap)
      /\ \A x \in S, y \in Side : Deep(h, t.kid[x][y]) \in Nat
  BY <1>1, <1>4 DEF Balanced, Deep
<1>7. PICK h2 : h2 = LightenedInk(h, p, uncle)
  OBVIOUS
<1>8. /\ h2 \in [S -> Nat] /\ h2[p] = h[p] + 1 /\ h2[uncle] = h[uncle] + 1
      /\ \A x \in S \ {p, uncle} : h2[x] = h[x]
      /\ \A k \in (S \ {p, uncle}) \cup {NIL} : Deep(h2, k) = Deep(h, k)
  BY <1>2, <1>3, <1>5, <1>6, <1>7 DEF LightenedInk, Deep
<1>9. /\ Ink(t, g) = 1 /\ Ink(u, g) = 0
      /\ \A x \in {p, uncle} : Ink(t, x) = 0 /\ Ink(u, x) = 1
      /\ \A x \in S \ {g, p, uncle} : Ink(u, x) = Ink(t, x)
  BY <1>2, <1>3, <1>5 DEF Ink, IsBlack, IsRed, Lightened
<1>10. ASSUME NEW x \in S, NEW y \in Side PROVE Even(u, h2, x, y, NoGap)
  <2>1. PICK k : k = t.kid[x][y]
    OBVIOUS
  <2>2. h[x] = Deep(h, k) + Ink(t, x) + 0
    <3>1. Even(t, h, x, y, NoGap) /\ NoGap # <<x, y>>
      BY <1>3, <1>6 DEF NoGap
    <3> QED
      BY <3>1, <2>1 DEF Even
  <2>3. h[x] \in Nat /\ Deep(h, k) \in Nat /\ k \in S \cup {NIL} /\ k # x
    BY <2>1, <1>4, <1>6
  <2>4. h2[x] = Deep(h2, k) + Ink(u, x) + 0
    <3>1. CASE x = g
      <4>1. k \in {p, uncle}
        BY <3>1, <2>1, <1>2a, <1>3
      <4>2. Deep(h2, k) = h[k] + 1 /\ Deep(h, k) = h[k] /\ h[k] \in Nat
        BY <4>1, <1>2, <1>3, <1>5, <1>6, <1>8 DEF Deep
      <4> QED
        BY <3>1, <4>2, <2>2, <1>2, <1>5, <1>8, <1>9
    <3>2. CASE x # g
      <4>1. k \notin {p, uncle}
        <5>1. k # NIL => t.par[k] = x
          BY <2>1, <1>4
        <5>2. t.par[p] = g /\ t.par[uncle] = g
          BY <1>5 DEF UncleRed
        <5> QED
          BY <3>2, <5>1, <5>2, <1>2, <1>3, <1>5
      <4>2. Deep(h2, k) = Deep(h, k)
        BY <4>1, <2>3, <1>8
      <4>3. CASE x \in {p, uncle}
        BY <4>2, <4>3, <2>2, <2>3, <1>8, <1>9
      <4>4. CASE x \notin {p, uncle}
        BY <3>2, <4>2, <4>4, <2>2, <1>8, <1>9
      <4> QED
        BY <4>3, <4>4
    <3> QED
      BY <3>1, <3>2
  <2>5. u.kid[x][y] = k /\ NoGap # <<x, y>>
    BY <2>1, <1>3 DEF Lightened, NoGap
  <2> QED
    BY <2>4, <2>5 DEF Even
<1>11. RedsApart(u, S, g)
  <2>1. ASSUME NEW x \in S, NEW y \in Side, IsRed(u, x), IsRed(u, u.kid[x][y]),
               u.kid[x][y] # g
        PROVE  FALSE
    <3>1. PICK k : k = t.kid[x][y]
      OBVIOUS
    <3>2. u.kid[x][y] = k /\ IsRed(u, k) /\ k \in S /\ k # g
      BY <2>1, <3>1, <1>4 DEF Lightened, IsRed
    <3>3. k \notin {p, uncle} /\ x \notin {p, uncle}
      BY <2>1, <3>2, <1>2, <1>3, <1>5 DEF Lightened, IsRed
    <3>4. IsRed(t, k)
      BY <3>2, <3>3, <1>3 DEF Lightened, IsRed
    <3>5. x # g
      BY <3>1, <3>3, <1>2a, <1>3
    <3>6. IsRed(t, x)
      BY <2>1, <3>3, <3>5, <1>3 DEF Lightened, IsRed
    <3>7. k = n
      BY <3>1, <3>4, <3>6, <1>1 DEF RedsApart
    <3> QED
      <4>1. t.kid[x][y] # NIL => t.par[t.kid[x][y]] = x
        BY <1>4
      <4> QED
        BY <4>1, <3>1, <3>3, <3>7, <1>2a, <1>3
  <2>2. ASSUME IsRed(u, t.root), t.root # g PROVE FALSE
    <3>1. t.root \in S /\ t.par[t.root] = NIL
      BY <1>1 DEF Ordered, Rooted
    <3>2. t.root \notin {p, uncle, n}
      <4>1. t.par[p] = g /\ t.par[uncle] = g /\ t.par[n] = p
        BY <1>5 DEF UncleRed
      <4> QED
        BY <3>1, <4>1, <1>2, <1>3
    <3>3. IsRed(t, t.root)
      BY <2>2, <3>1, <3>2, <1>3 DEF Lightened, IsRed
    <3> QED
      BY <3>2, <3>3, <1>1 DEF RedsApart
  <2>3. u.root = t.root
    BY DEF Lightened
  <2> QED
    BY <2>1, <2>2, <2>3 DEF RedsApart
<1>12. Ordered(u, S, m, pos, lo, hi)
  BY <1>1, ColorsKeepOrder DEF Lightened
<1>13. IsRed(u, g) /\ u \in Tree
  BY <1>2, <1>3 DEF Lightened, IsRed
<1> QED
  BY <1>2, <1>8, <1>10, <1>11, <1>12, <1>13 DEF Sound, Balanced

\* The root becomes black.
LEMMA BlackRootIs ==
  ASSUME NEW t \in Tree, NEW S, NEW m, NEW pos, NEW n \in S,
         Sound(t, S, m, pos, NoGap, n), t.par[n] = NIL, IsRed(t, n),
         NEW u, ParColorSet(t, u, n, NIL, "black")
  PROVE  Sound(u, S, m, pos, NoGap, NIL)
<1>1. PICK lo, hi, h : /\ Ordered(t, S, m, pos, lo, hi)
                       /\ Balanced(t, S, h, NoGap) /\ RedsApart(t, S, n)
  BY DEF Sound
<1>2. S \subseteq Node /\ NIL \notin S
  BY <1>1, TreeFields DEF Ordered, Placed
<1>3. /\ \A x \in S, y \in Side :
           /\ t.kid[x][y] \in S \cup {NIL} /\ t.kid[x][y] # x
           /\ t.kid[x][y] # NIL => t.par[t.kid[x][y]] = x
      /\ n = t.root
  BY <1>1, OrderedFacts
<1>4. \A x \in S, y \in Side : t.kid[x][y] # n
  BY <1>2, <1>3
<1>5. /\ h \in [S -> Nat] /\ \A x \in S, y \in Side : Even(t, h, x, y, NoGap)
      /\ \A x \in S, y \in Side : Deep(h, t.kid[x][y]) \in Nat
  BY <1>1, <1>3 DEF Balanced, Deep
<1>6. PICK h2 : h2 = [h EXCEPT ![n] = h[n] + 1]
  OBVIOUS
<1>7. /\ h2 \in [S -> Nat] /\ h2[n] = h[n] + 1
      /\ \A x \in S \ {n} : h2[x] = h[x]
      /\ \A k \in (S \ {n}) \cup {NIL} : Deep(h2, k) = Deep(h, k)
  BY <1>2, <1>5, <1>6 DEF Deep
<1>8. /\ Ink(t, n) = 0 /\ Ink(u, n) = 1 /\ \A x \in S \ {n} : Ink(u, x) = Ink(t, x)
  BY <1>2 DEF Ink, IsBlack, IsRed, ParColorSet
<1>9. ASSUME NEW x \in S, NEW y \in Side PROVE Even(u, h2, x, y, NoGap)
  <2>1. PICK k : k = t.kid[x][y]
    OBVIOUS
  <2>2. h[x] = Deep(h, k) + Ink(t, x) + 0
    <3>1. Even(t, h, x, y, NoGap) /\ NoGap # <<x, y>>
      BY <1>2, <1>5 DEF NoGap
    <3> QED
      BY <3>1, <2>1 DEF Even
  <2>3. Deep(h2, k) = Deep(h, k) /\ Deep(h, k) \in Nat
    BY <2>1, <1>3, <1>4, <1>5, <1>7
  <2>4. h2[x] = Deep(h2, k) + Ink(u, x) + 0
    <3>1. CASE x = n
      BY <3>1, <2>2, <2>3, <1>7, <1>8
    <3>2. CASE x # n
      BY <3>2, <2>2, <2>3, <1>7, <1>8
    <3> QED
      BY <3>1, <3>2
  <2>5. u.kid[x][y] = k /\ NoGap # <<x, y>>
    BY <2>1, <1>2 DEF ParColorSet, NoGap
  <2> QED
    BY <2>4, <2>5 DEF Even
<1>10. RedsApart(u, S, NIL)
  <2>1. ASSUME NEW x \in S, NEW y \in Side, IsRed(u, x), IsRed(u, u.kid[x][y])
        PROVE  FALSE
    <3>1. PICK k : k = t.kid[x][y]
      OBVIOUS
    <3>2. k \in S /\ k # n /\ IsRed(u, k)
      BY <2>1, <3>1, <1>3, <1>4 DEF ParColorSet, IsRed
    <3>3. IsRed(t, k) /\ IsRed(t, x)
      BY <2>1, <3>2, <1>2 DEF ParColorSet, IsRed
    <3> QED
      BY <3>1, <3>2, <3>3, <1>1 DEF RedsApart
  <2>2. ~IsRed(u, u.root)
    BY <1>2, <1>3 DEF ParColorSet, IsRed
  <2> QED
    BY <2>1, <2>2 DEF RedsApart
<1>11. Ordered(u, S, m, pos, lo, hi)
  <2>1. u.par = t.par
    BY <1>2 DEF ParColorSet, Tree
  <2> QED
    BY <2>1, <1>1, ColorsKeepOrder DEF ParColorSet
<1> QED
  BY <1>7, <1>9, <1>10, <1>11 DEF Sound, Balanced, ParColorSet

-----------------------------------------------------------------------------
(* The sequence of the nodes *)

LEMMA SequenceInserts ==
  ASSUME NEW S, NEW m, NEW pos, Placed(S, m, pos), NEW n, n \notin S,
         NEW at \in 1 .. m + 1,
         Placed(S \cup {n}, m + 1, LinkedPos(pos, S, n, at))
  PROVE  Sequence(S \cup {n}, m + 1, LinkedPos(pos, S, n, at))
           = InsertAt(Sequence(S, m, pos), at, n)
<1>1. PICK q : q = Sequence(S, m, pos)
  OBVIOUS
<1>2. PICK pos2 : pos2 = LinkedPos(pos, S, n, at)
  OBVIOUS
<1>3. PICK r : r = Sequence(S \cup {n}, m + 1, pos2)
  OBVIOUS
<1>4. /\ q \in Seq(S) /\ Len(q) = m /\ m \in Nat
      /\ \A i \in 1 .. m : q[i] \in S /\ pos[q[i]] = i
  BY <1>1, SequenceIs
<1>5. /\ r \in Seq(S \cup {n}) /\ Len(r) = m + 1
      /\ \A x \in S \cup {n} : pos2[x] \in 1 .. m + 1 /\ r[pos2[x]] = x
  <2>1. PICK S2, m2 : S2 = S \cup {n} /\ m2 = m + 1
    OBVIOUS
  <2>2. Placed(S2, m2, pos2) /\ r = Sequence(S2, m2, pos2)
    BY <2>1, <1>2, <1>3
  <2>3. /\ r \in Seq(S2) /\ Len(r) = m2
        /\ \A x \in S2 : pos2[x] \in 1 .. m2 /\ r[pos2[x]] = x
    BY <2>2, SequenceIs
  <2> QED
    BY <2>1, <2>3
<1>6. q \in Seq(S \cup {n}) /\ n \in S \cup {n} /\ at \in 1 .. Len(q) + 1
  BY <1>4
<1>7. PICK v : v = InsertAt(q, at, n)
  OBVIOUS
<1>8. /\ v \in Seq(S \cup {n}) /\ Len(v) = m + 1
      /\ \A i \in 1 .. at - 1 : v[i] = q[i]
      /\ v[at] = n
      /\ \A i \in at .. m : v[i + 1] = q[i]
  <2>1. PICK S2 : S2 = S \cup {n}
    OBVIOUS
  <2>2. q \in Seq(S2) /\ n \in S2
    BY <2>1, <1>6
  <2>3. /\ v \in Seq(S2) /\ Len(v) = Len(q) + 1
        /\ \A i \in 1 .. at - 1 : v[i] = q[i]
        /\ v[at] = n
        /\ \A i \in at .. Len(q) : v[i + 1] = q[i]
    BY <2>2, <1>6, <1>7, InsertAtFacts
  <2> QED
    BY <2>1, <2>3, <1>4
<1>9. \A x \in S \cup {n} : pos2[x] = IF x = n THEN at ELSE OneLater(pos[x], at)
  BY <1>2 DEF LinkedPos
<1>10. ASSUME NEW i \in 1 .. m + 1 PROVE r[i] = v[i]
  <2>1. CASE i < at
    <3>1. i \in 1 .. m /\ i \in 1 .. at - 1
      BY <2>1, <1>4
    <3>2. q[i] \in S /\ pos[q[i]] = i /\ v[i] = q[i]
      BY <3>1, <1>4, <1>8
    <3>3. pos2[q[i]] = i
      BY <2>1, <3>2, <1>9 DEF OneLater
    <3> QED
      BY <3>2, <3>3, <1>5
  <2>2. CASE i = at
    BY <2>2, <1>5, <1>8, <1>9
  <2>3. CASE i > at
    <3>1. PICK j \in 1 .. m : j = i - 1
      BY <2>3, <1>4
    <3>2. j \in at .. m /\ j + 1 = i
      BY <2>3, <3>1, <1>4
    <3>3. q[j] \in S /\ pos[q[j]] = j /\ v[i] = q[j]
      BY <3>1, <3>2, <1>4, <1>8
    <3>4. pos2[q[j]] = i
      BY <3>2, <3>3, <1>9 DEF OneLater
    <3> QED
      BY <3>3, <3>4, <1>5
  <2> QED
    BY <2>1, <2>2, <2>3, <1>4
<1>11. r = v
  BY <1>5, <1>8, <1>10, SeqEqual
<1> QED
  BY <1>1, <1>2, <1>3, <1>7, <1>11

LEMMA SequenceRemoves ==
  ASSUME NEW S, NEW m, NEW pos, Placed(S, m, pos), NEW n \in S,
         NEW at, at = pos[n],
         Placed(S \ {n}, m - 1, LessPos(pos, S \ {n}, at))
  PROVE  Sequence(S \ {n}, m - 1, LessPos(pos, S \ {n}, at))
           = RemoveAt(Sequence(S, m, pos), at)
<1>1. PICK q : q = Sequence(S, m, pos)
  OBVIOUS
<1>2. PICK pos2 : pos2 = LessPos(pos, S \ {n}, at)
  OBVIOUS
<1>3. PICK r : r = Sequence(S \ {n}, m - 1, pos2)
  OBVIOUS
<1>4. /\ q \in Seq(S) /\ Len(q) = m /\ m \in Nat /\ at \in 1 .. m
      /\ \A i \in 1 .. m : q[i] \in S /\ pos[q[i]] = i
  BY <1>1, SequenceIs
<1>5. /\ r \in Seq(S \ {n}) /\ Len(r) = m - 1
      /\ \A x \in S \ {n} : pos2[x] \in 1 .. m - 1 /\ r[pos2[x]] = x
  <2>1. PICK S2, m2 : S2 = S \ {n} /\ m2 = m - 1
    OBVIOUS
  <2>2. Placed(S2, m2, pos2) /\ r = Sequence(S2, m2, pos2)
    BY <2>1, <1>2, <1>3
  <2>3. /\ r \in Seq(S2) /\ Len(r) = m2
        /\ \A x \in S2 : pos2[x] \in 1 .. m2 /\ r[pos2[x]] = x
    BY <2>2, SequenceIs
  <2> QED
    BY <2>1, <2>3
<1>6. at \in 1 .. Len(q)
  BY <1>4
<1>7. PICK v : v = RemoveAt(q, at)
  OBVIOUS
<1>8. /\ v \in Seq(S) /\ Len(v) = m - 1
      /\ \A i \in 1 .. at - 1 : v[i] = q[i]
      /\ \A i \in at + 1 .. m : v[i - 1] = q[i]
  BY <1>4, <1>6, <1>7, RemoveAtFacts
<1>9. \A x \in S \ {n} : pos2[x] = OneEarlier(pos[x], at)
  BY <1>2 DEF LessPos
<1>10. ASSUME NEW i \in 1 .. m - 1 PROVE r[i] = v[i]
  <2>1. CASE i < at
    <3>1. i \in 1 .. m /\ i \in 1 .. at - 1
      BY <2>1, <1>4
    <3>2. q[i] \in S /\ pos[q[i]] = i /\ v[i] = q[i]
      BY <3>1, <1>4, <1>8
    <3>3. q[i] # n
      BY <2>1, <3>2
    <3>4. pos2[q[i]] = i
      <4>1. PICK x \in S \ {n} : x = q[i] /\ pos[x] = i
        BY <3>2, <3>3
      <4>2. ~(i >= at)
        BY <2>1, <1>4
      <4> QED
        BY <4>1, <4>2, <1>9 DEF OneEarlier
    <3> QED
      BY <3>2, <3>3, <3>4, <1>5
  <2>2. CASE i >= at
    <3>1. PICK j \in 1 .. m : j = i + 1
      BY <2>2, <1>4
    <3>2. j \in at + 1 .. m /\ j - 1 = i /\ j > at
      BY <2>2, <3>1, <1>4
    <3>3. q[j] \in S /\ pos[q[j]] = j /\ v[i] = q[j]
      BY <3>1, <3>2, <1>4, <1>8
    <3>4. q[j] # n
      BY <3>2, <3>3
    <3>5. pos2[q[j]] = i
      <4>1. PICK x \in S \ {n} : x = q[j] /\ pos[x] = j
        BY <3>3, <3>4
      <4>2. j >= at
        BY <3>2, <1>4
      <4> QED
        BY <4>1, <4>2, <3>2, <1>9 DEF OneEarlier
    <3> QED
      BY <3>3, <3>4, <3>5, <1>5
  <2> QED
    BY <2>1, <2>2, <1>4
<1>11. r \in Seq(S)
  <2>1. S \ {n} \subseteq S
    OBVIOUS
  <2> QED
    BY <2>1, <1>5
<1>12. r = v
  BY <1>5, <1>8, <1>10, <1>11, SeqEqual
<1> QED
  BY <1>1, <1>2, <1>3, <1>7, <1>12

-----------------------------------------------------------------------------
(* A red node more *)

LinkedInk(h, S, n) == [x \in S \cup {n} |-> IF x = n THEN 0 ELSE h[x]]

LEMMA LinkIs ==
  ASSUME NEW t \in Tree, NEW S, NEW m, NEW pos, Sound(t, S, m, pos, NoGap, NIL),
         NEW n \in Node, n \notin S, NEW p \in S, NEW s \in Side, t.kid[p][s] = NIL,
         NEW u, Linked(t, u, n, p, s),
         \A x \in Node : u.color[x] = IF x = n THEN "red" ELSE t.color[x],
         NEW at, at = PlaceBelow(pos, p, s)
  PROVE  /\ Sound(u, S \cup {n}, m + 1, LinkedPos(pos, S, n, at), NoGap, n)
         /\ at \in 1 .. m + 1
<1>1. PICK lo, hi, h : /\ Ordered(t, S, m, pos, lo, hi)
                       /\ Balanced(t, S, h, NoGap) /\ RedsApart(t, S, NIL)
  BY DEF Sound
<1>2. S \subseteq Node /\ NIL \notin S /\ p # n /\ NIL # n /\ m \in Nat /\ pos[p] \in 1 .. m
  BY <1>1, TreeFields DEF Ordered, Placed
<1>3. \A x \in S, y \in Side : t.kid[x][y] \in S \cup {NIL}
  BY <1>1, OrderedFacts
<1>4. Ordered(u, S \cup {n}, m + 1, LinkedPos(pos, S, n, at),
              LinkedLo(lo, S, n, at, pos[p]), LinkedHi(hi, S, n, at, pos[p]))
  BY <1>1, LinkKeepsOrder
<1>5. h \in [S -> Nat] /\ \A x \in S, y \in Side : Even(t, h, x, y, NoGap)
  BY <1>1 DEF Balanced
<1>6. PICK h2 : h2 = LinkedInk(h, S, n)
  OBVIOUS
<1>7. /\ h2 \in [S \cup {n} -> Nat] /\ h2[n] = 0 /\ \A x \in S : h2[x] = h[x]
      /\ \A k \in S \cup {NIL} : Deep(h2, k) = Deep(h, k)
      /\ Deep(h2, n) = 0 /\ Deep(h, NIL) = 0 /\ Deep(h2, NIL) = 0
  BY <1>2, <1>5, <1>6 DEF LinkedInk, Deep
<1>8. Ink(u, n) = 0 /\ \A x \in S : Ink(u, x) = Ink(t, x)
  BY <1>2 DEF Ink, IsBlack, IsRed
<1>9. ASSUME NEW x \in S \cup {n}, NEW y \in Side PROVE Even(u, h2, x, y, NoGap)
  <2>1. u.kid[x][y] = IF x = n THEN NIL ELSE IF x = p /\ y = s THEN n ELSE t.kid[x][y]
    BY <1>2 DEF Linked
  <2>2. NoGap # <<x, y>>
    BY <1>2 DEF NoGap
  <2>3. CASE x = n
    BY <2>1, <2>2, <2>3, <1>7, <1>8 DEF Even
  <2>4. CASE x \in S
    <3>1. Even(t, h, x, y, NoGap) /\ x # n
      BY <2>4, <1>5
    <3>2. Deep(h2, u.kid[x][y]) = Deep(h, t.kid[x][y])
      <4>1. CASE x = p /\ y = s
        BY <4>1, <3>1, <2>1, <1>7
      <4>2. CASE ~(x = p /\ y = s)
        BY <4>2, <3>1, <2>1, <2>4, <1>3, <1>7
      <4> QED
        BY <4>1, <4>2
    <3> QED
      BY <3>1, <3>2, <2>4, <1>7, <1>8 DEF Even
  <2> QED
    BY <2>3, <2>4
<1>10. RedsApart(u, S \cup {n}, n)
  <2>1. ASSUME NEW x \in S \cup {n}, NEW y \in Side, IsRed(u, x), IsRed(u, u.kid[x][y])
        PROVE  u.kid[x][y] = n
    <3>1. u.kid[x][y] = IF x = n THEN NIL ELSE IF x = p /\ y = s THEN n ELSE t.kid[x][y]
      BY <1>2 DEF Linked
    <3>2. CASE x = n
      BY <2>1, <3>1, <3>2 DEF IsRed
    <3>3. CASE x \in S /\ ~(x = p /\ y = s)
      <4>1. u.kid[x][y] = t.kid[x][y] /\ t.kid[x][y] \in S
        BY <2>1, <3>1, <3>3, <1>3 DEF IsRed
      <4>2. IsRed(t, x) /\ IsRed(t, t.kid[x][y])
        BY <2>1, <3>3, <4>1, <1>2 DEF IsRed
      <4> QED
        BY <3>3, <4>1, <4>2, <1>1, <1>2 DEF RedsApart
    <3> QED
      BY <3>1, <3>2, <3>3
  <2>2. ~IsRed(u, u.root)
    <3>1. u.root = t.root /\ t.root \in S
      BY <1>1, <1>2 DEF Linked, Ordered, Rooted
    <3> QED
      BY <3>1, <1>1, <1>2 DEF RedsApart, IsRed
  <2> QED
    BY <2>1, <2>2 DEF RedsApart
<1>11. at \in 1 .. m + 1
  BY <1>2 DEF PlaceBelow
<1> QED
  BY <1>4, <1>7, <1>9, <1>10, <1>11 DEF Sound, Balanced, Linked

\* The first node is the root.
LEMMA LinkRootIs ==
  ASSUME NEW t \in Tree, NEW S, NEW m, NEW pos, Sound(t, S, m, pos, NoGap, NIL),
         t.root = NIL, NEW n \in Node, NEW s, NEW u, Linked(t, u, n, NIL, s),
         u.color[n] = "red"
  PROVE  /\ Sound(u, S \cup {n}, m + 1, LinkedPos(pos, S, n, 1), NoGap, n)
         /\ S = {} /\ m = 0
<1>1. PICK lo, hi : Ordered(t, S, m, pos, lo, hi)
  BY DEF Sound
<1>2. S = {} /\ m = 0 /\ n # NIL /\ NIL \notin Node
  BY <1>1, TreeFields DEF Ordered, Rooted
<1>3. PICK pos2 : pos2 = LinkedPos(pos, S, n, 1)
  OBVIOUS
<1>4. pos2 = [x \in {n} |-> 1]
  BY <1>2, <1>3 DEF LinkedPos
<1>5. Placed({n}, 1, pos2)
  BY <1>4 DEF Placed
<1>6. Spans({n}, 1, pos2, pos2, pos2)
  BY <1>4 DEF Spans
<1>7. u.root = n /\ u.par[n] = NIL /\ \A y \in Side : u.kid[n][y] = NIL
  BY <1>2 DEF Linked
<1>8. Ordered(u, {n}, 1, pos2, pos2, pos2)
  <2>1. Rooted(u, {n}, 1, pos2, pos2)
    BY <1>2, <1>4, <1>7 DEF Rooted
  <2>2. Hung(u, {n})
    BY <1>7 DEF Hung
  <2>3. \A x \in {n}, y \in Side : Below(u, {n}, pos2, pos2, pos2, x, y)
    BY <1>7 DEF Below
  <2> QED
    BY <2>1, <2>2, <2>3, <1>5, <1>6 DEF Ordered
<1>9. Balanced(u, {n}, [x \in {n} |-> 0], NoGap)
  BY <1>2, <1>7 DEF Balanced, Even, Deep, Ink, IsBlack, IsRed, NoGap
<1>10. RedsApart(u, {n}, n)
  BY <1>7 DEF RedsApart, IsRed
<1> QED
  BY <1>2, <1>3, <1>8, <1>9, <1>10 DEF Sound, Linked

-----------------------------------------------------------------------------
(* A node less *)

\* The gap that the black node n leaves, where no kid takes its place.
GapLeft(t, S, n, k, gap) ==
  \A x \in S, y \in Side :
    gap = <<x, y>> <=> t.kid[x][y] = n /\ k = NIL /\ IsBlack(t, n)

SplicedInk(h, S, n, k) == [x \in S \ {n} |-> IF x = k THEN h[n] ELSE h[x]]

LEMMA SpliceBalance ==
  ASSUME NEW t \in Tree, NEW u, NEW S, NEW m, NEW pos, NEW lo, NEW hi,
         Ordered(t, S, m, pos, lo, hi), NEW h, Balanced(t, S, h, NoGap),
         RedsApart(t, S, NIL), NEW n \in S, NEW z \in Side,
         t.kid[n][z] = NIL, NEW k, t.kid[n][Other(z)] = k, Spliced(t, u, S, n, k),
         \A x \in S \ {n} : u.color[x] = IF x = k THEN t.color[n] ELSE t.color[x],
         NEW gap, GapLeft(t, S, n, k, gap)
  PROVE  /\ Balanced(u, S \ {n}, SplicedInk(h, S, n, k), gap)
         /\ RedsApart(u, S \ {n}, NIL)
<1>1. S \subseteq Node /\ NIL \notin S /\ Other(z) \in Side
  BY TreeFields, SideFacts DEF Ordered, Placed
<1>2. \A x \in S, y \in Side : /\ t.kid[x][y] \in S \cup {NIL} /\ t.kid[x][y] # x
                               /\ t.kid[x][y] # NIL => t.par[t.kid[x][y]] = x
  BY OrderedFacts
<1>3. k \in (S \ {n}) \cup {NIL} /\ (k # NIL => t.par[k] = n)
      /\ \A x \in S, y \in Side : t.kid[x][y] = k => k = NIL \/ x = n
  BY <1>1, <1>2
<1>4. h \in [S -> Nat] /\ \A x \in S, y \in Side : Even(t, h, x, y, NoGap)
  BY DEF Balanced
<1>5. ASSUME NEW x \in S, NEW y \in Side
      PROVE  h[x] = Deep(h, t.kid[x][y]) + Ink(t, x) /\ Deep(h, t.kid[x][y]) \in Nat
  <2>1. Even(t, h, x, y, NoGap) /\ NoGap # <<x, y>>
    BY <1>1, <1>4 DEF NoGap
  <2>2. Deep(h, t.kid[x][y]) \in Nat
    BY <1>2, <1>4 DEF Deep
  <2>3. Ink(t, x) \in Nat
    BY DEF Ink
  <2> QED
    BY <2>1, <2>2, <2>3 DEF Even
<1>6. \A x \in S : Ink(t, x) \in {0, 1} /\ Ink(u, x) \in {0, 1}
  BY DEF Ink
<1>7. h[n] = Ink(t, n)
  <2>1. Deep(h, t.kid[n][z]) = 0
    BY DEF Deep
  <2> QED
    BY <2>1, <1>5, <1>6
<1>8. ASSUME k # NIL
      PROVE  h[k] = 0 /\ Ink(t, k) = 0 /\ t.color[k] = "red" /\ t.color[n] = "black"
             /\ k \in S
  <2>1. k \in S
    BY <1>3, <1>8
  <2>2. h[n] = h[k] + Ink(t, n) /\ h[k] \in Nat
    BY <2>1, <1>1, <1>4, <1>5, <1>8 DEF Deep
  <2>3. h[k] = 0
    BY <2>2, <1>6, <1>7
  <2>4. Ink(t, k) = 0
    BY <2>1, <2>3, <1>5, <1>6
  <2>5. IsRed(t, k)
    BY <2>4 DEF Ink, IsBlack
  <2>6. ~IsRed(t, n)
    BY <2>5, <1>1, <1>8 DEF RedsApart
  <2> QED
    BY <2>1, <2>3, <2>4, <2>5, <2>6, <1>1, TreeFields DEF IsRed
<1>9. \A x \in S \ {n}, y \in Side :
        u.kid[x][y] = IF t.kid[x][y] = n THEN k ELSE t.kid[x][y]
  BY DEF Spliced
<1>10. PICK h2 : h2 = SplicedInk(h, S, n, k)
  OBVIOUS
<1>11. /\ h2 \in [S \ {n} -> Nat] /\ \A x \in S \ {n, k} : h2[x] = h[x]
       /\ k # NIL => h2[k] = h[n]
       /\ \A c \in (S \ {n, k}) \cup {NIL} : Deep(h2, c) = Deep(h, c)
  BY <1>1, <1>3, <1>4, <1>10 DEF SplicedInk, Deep
<1>12. /\ \A x \in S \ {n, k} : Ink(u, x) = Ink(t, x)
       /\ k # NIL => Ink(u, k) = Ink(t, n)
  BY <1>1, <1>3 DEF Ink, IsBlack, IsRed
<1>13. ASSUME NEW x \in S \ {n}, NEW y \in Side PROVE Even(u, h2, x, y, gap)
  <2>1. PICK c : c = t.kid[x][y]
    OBVIOUS
  <2>2. PICK g : g = IF gap = <<x, y>> THEN 1 ELSE 0
    OBVIOUS
  <2>3. h[x] = Deep(h, c) + Ink(t, x) /\ Deep(h, c) \in Nat /\ c \in (S \cup {NIL}) \ {x}
    BY <2>1, <1>2, <1>5
  <2>4. u.kid[x][y] = IF c = n THEN k ELSE c
    BY <2>1, <1>9
  <2>5. h2[x] = Deep(h2, u.kid[x][y]) + Ink(u, x) + g
    <3>1. CASE x = k
      <4>1. c # n
        <5>1. k # NIL /\ t.par[k] = n
          BY <3>1, <1>1, <1>3
        <5>2. \A s \in Side : t.kid[k][s] # NIL => t.kid[k][s] # t.par[k]
          BY <3>1, OrderedFacts
        <5> QED
          BY <3>1, <5>1, <5>2, <2>1, <1>1
      <4>2. g = 0
        BY <4>1, <2>1, <2>2 DEF GapLeft
      <4>3. Deep(h2, c) = Deep(h, c)
        BY <3>1, <4>1, <2>3, <1>11
      <4>4. k # NIL
        BY <3>1, <1>1
      <4>5. Deep(h, c) = 0
        BY <3>1, <4>4, <2>3, <1>8
      <4> QED
        BY <3>1, <4>1, <4>2, <4>3, <4>4, <4>5, <2>4, <1>6, <1>7, <1>11, <1>12
    <3>2. CASE x # k /\ c = n /\ k # NIL
      <4>1. g = 0
        BY <3>2, <2>2 DEF GapLeft
      <4>2. Deep(h2, k) = h[n] /\ Deep(h, c) = h[n]
        BY <3>2, <1>1, <1>11 DEF Deep
      <4> QED
        BY <3>2, <4>1, <4>2, <2>3, <2>4, <1>6, <1>11, <1>12
    <3>3. CASE x # k /\ c = n /\ k = NIL
      <4>1. g = Ink(t, n)
        BY <3>3, <2>1, <2>2 DEF GapLeft, Ink
      <4>2. Deep(h2, k) = 0 /\ Deep(h, c) = h[n]
        BY <3>3, <1>1 DEF Deep
      <4> QED
        BY <3>3, <4>1, <4>2, <2>3, <2>4, <1>6, <1>7, <1>11, <1>12
    <3>4. CASE x # k /\ c # n
      <4>1. g = 0
        BY <3>4, <2>1, <2>2 DEF GapLeft
      <4>2. c # k \/ k = NIL
        BY <2>1, <1>3
      <4>3. Deep(h2, c) = Deep(h, c)
        BY <3>4, <4>2, <2>3, <1>11
      <4> QED
        BY <3>4, <4>1, <4>3, <2>3, <2>4, <1>6, <1>11, <1>12
    <3> QED
      BY <3>1, <3>2, <3>3, <3>4
  <2> QED
    BY <2>2, <2>5 DEF Even
<1>14. k # NIL => ~IsRed(u, k)
  BY <1>3, <1>8 DEF IsRed
<1>15. RedsApart(u, S \ {n}, NIL)
  <2>1. ASSUME NEW x \in S \ {n}, NEW y \in Side, IsRed(u, x), IsRed(u, u.kid[x][y])
        PROVE  FALSE
    <3>1. PICK c : c = t.kid[x][y]
      OBVIOUS
    <3>2. c # n /\ x # k /\ u.kid[x][y] = c
      BY <2>1, <3>1, <1>9, <1>14 DEF IsRed
    <3>3. c \in S \ {n, k}
      BY <2>1, <3>1, <3>2, <1>2, <1>14 DEF IsRed
    <3>4. IsRed(t, c) /\ IsRed(t, x)
      BY <2>1, <3>2, <3>3, <1>1 DEF IsRed
    <3> QED
      BY <3>1, <3>3, <3>4, <1>1 DEF RedsApart
  <2>2. ~IsRed(u, u.root)
    <3>1. u.root = IF t.par[n] = NIL THEN k ELSE t.root
      BY DEF Spliced
    <3>2. CASE t.par[n] = NIL
      BY <3>1, <3>2, <1>14 DEF IsRed
    <3>3. CASE t.par[n] # NIL
      <4>1. t.root \in S \ {n} /\ t.par[t.root] = NIL
        BY <3>3 DEF Ordered, Rooted
      <4>2. t.root # k
        BY <4>1, <1>1, <1>3
      <4> QED
        BY <3>1, <3>3, <4>1, <4>2, <1>1 DEF RedsApart, IsRed
    <3> QED
      BY <3>2, <3>3
  <2> QED
    BY <2>1, <2>2 DEF RedsApart
<1> QED
  BY <1>10, <1>11, <1>13, <1>15 DEF Balanced

LEMMA SpliceFields ==
  ASSUME NEW t \in Tree, NEW S, NEW m, NEW pos, NEW lo, NEW hi,
         Ordered(t, S, m, pos, lo, hi), NEW n \in S, NEW z \in Side,
         t.kid[n][z] = NIL, NEW k, t.kid[n][Other(z)] = k, NEW e, e = Splice(t, n)
  PROVE  /\ Spliced(t, e.tree, S, n, k)
         /\ \A x \in S \ {n} : e.tree.color[x] = IF x = k THEN t.color[n] ELSE t.color[x]
         /\ e.rebalance = IF k = NIL /\ IsBlack(t, n) THEN t.par[n] ELSE NIL
<1>1. S \subseteq Node /\ NIL \notin S /\ Other(z) \in Side
  BY TreeFields, SideFacts DEF Ordered, Placed
<1>2. /\ \A x \in S, y \in Side : t.kid[x][y] # NIL =>
           t.par[t.kid[x][y]] = x /\ t.kid[x][Other(y)] # t.kid[x][y]
      /\ k \in S \cup {NIL} /\ k # n
  BY <1>1, OrderedFacts
<1>3. PICK p : p = t.par[n]
  OBVIOUS
<1>4. p \in S \cup {NIL} /\ p # n
  BY <1>3, OrderedFacts
<1>5. p # NIL => (\E s \in Side : t.kid[p][s] = n) /\ t.kid[p]["left"] # t.kid[p]["right"]
  <2> SUFFICES ASSUME p # NIL
               PROVE  (\E s \in Side : t.kid[p][s] = n) /\ t.kid[p]["left"] # t.kid[p]["right"]
    OBVIOUS
  <2>1. PICK s \in Side : t.kid[p][s] = n
    BY <1>3 DEF Ordered, Hung
  <2>2. t.kid[p][Other(s)] # n
    BY <2>1, <1>1, <1>2, <1>4
  <2> QED
    BY <2>1, <2>2, SideFacts DEF Side
<1>6. k = IF Kid(t, n, "left") = NIL THEN Kid(t, n, "right") ELSE Kid(t, n, "left")
  BY SideFacts DEF Kid, Side
<1>7. PICK v : v = __rb_change_child(t, n, k, p)
  OBVIOUS
<1>8. ChildChanged(t, v, n, k, p)
  <2>1. n \in Node /\ k \in Ptr /\ p \in Ptr
    BY <1>1, <1>2, <1>4 DEF Ptr
  <2> QED
    BY <2>1, <1>5, <1>7, ChangeChildIs
<1>9. \A x \in S \ {n}, y \in Side :
        v.kid[x][y] = IF t.kid[x][y] = n THEN k ELSE t.kid[x][y]
  <2> TAKE x \in S \ {n}, y \in Side
  <2>1. t.kid[x][y] = n => x = p
    BY <1>1, <1>2, <1>3
  <2> QED
    BY <2>1, <1>1, <1>8 DEF ChildChanged
<1>10. v \in Tree /\ v.root = (IF p = NIL THEN k ELSE t.root) /\ v.par = t.par
       /\ v.color = t.color
  BY <1>8 DEF ChildChanged
<1>11. CASE k = NIL
  <2>1. e.tree = v /\ e.rebalance = IF IsBlack(t, n) THEN p ELSE NIL
    BY <1>3, <1>6, <1>7, <1>11 DEF Splice
  <2> QED
    BY <2>1, <1>1, <1>3, <1>9, <1>10, <1>11 DEF Spliced
<1>12. CASE k # NIL
  <2>1. e.tree = rb_set_parent_color(v, k, p, t.color[n]) /\ e.rebalance = NIL
    BY <1>3, <1>6, <1>7, <1>12 DEF Splice
  <2>2. k \in Node /\ p \in Ptr /\ t.color[n] \in {"red", "black"}
    BY <1>1, <1>2, <1>4, <1>12, TreeFields DEF Ptr
  <2>3. ParColorSet(v, e.tree, k, p, t.color[n])
    BY <2>1, <2>2, <1>10, SetParColorIs
  <2> QED
    BY <2>1, <2>3, <1>1, <1>3, <1>9, <1>10, <1>12 DEF ParColorSet, Spliced
<1> QED
  BY <1>11, <1>12

\* The tree that an erasure leaves: sound, or with one gap where nothing hangs.
Erased(e, S, m, pos) ==
  IF e.rebalance = NIL THEN Sound(e.tree, S, m, pos, NoGap, NIL)
  ELSE /\ e.rebalance \in S
       /\ \E s \in Side : /\ e.tree.kid[e.rebalance][s] = NIL
                          /\ Sound(e.tree, S, m, pos, <<e.rebalance, s>>, NIL)

LEMMA SpliceIs ==
  ASSUME NEW t \in Tree, NEW S, NEW m, NEW pos, Sound(t, S, m, pos, NoGap, NIL),
         NEW n \in S, NEW z \in Side, t.kid[n][z] = NIL, NEW e, e = Splice(t, n)
  PROVE  Erased(e, S \ {n}, m - 1, LessPos(pos, S \ {n}, pos[n]))
<1>1. PICK lo, hi, h : /\ Ordered(t, S, m, pos, lo, hi)
                       /\ Balanced(t, S, h, NoGap) /\ RedsApart(t, S, NIL)
  BY DEF Sound
<1>2. PICK k : t.kid[n][Other(z)] = k
  OBVIOUS
<1>3. PICK u : u = e.tree
  OBVIOUS
<1>4. /\ Spliced(t, u, S, n, k)
      /\ \A x \in S \ {n} : u.color[x] = IF x = k THEN t.color[n] ELSE t.color[x]
      /\ e.rebalance = IF k = NIL /\ IsBlack(t, n) THEN t.par[n] ELSE NIL
  BY <1>1, <1>2, <1>3, SpliceFields
<1>5. PICK pos2, lo2, hi2 : /\ pos2 = LessPos(pos, S \ {n}, pos[n])
                            /\ Ordered(u, S \ {n}, m - 1, pos2, lo2, hi2)
  <2>1. Ordered(u, S \ {n}, m - 1, LessPos(pos, S \ {n}, pos[n]),
                LessLo(lo, S \ {n}, pos[n]), LessHi(hi, S \ {n}, pos[n]))
    BY <1>1, <1>2, <1>4, SpliceKeepsOrder
  <2> QED
    BY <2>1
<1>6. S \subseteq Node /\ NIL \notin S
  BY <1>1, TreeFields DEF Ordered, Placed
<1>7. /\ \A x \in S, y \in Side : t.kid[x][y] # NIL =>
           t.par[t.kid[x][y]] = x /\ t.kid[x][Other(y)] # t.kid[x][y]
      /\ t.par[n] \in S \cup {NIL} /\ t.par[n] # n
  BY <1>1, OrderedFacts
<1>8. ASSUME NEW gap, GapLeft(t, S, n, k, gap)
      PROVE  Sound(u, S \ {n}, m - 1, pos2, gap, NIL)
  <2>1. /\ Balanced(u, S \ {n}, SplicedInk(h, S, n, k), gap)
        /\ RedsApart(u, S \ {n}, NIL)
    BY <1>1, <1>2, <1>4, <1>8, SpliceBalance
  <2>2. u \in Tree
    BY <1>4 DEF Spliced
  <2> QED
    BY <2>1, <2>2, <1>5 DEF Sound
<1>9. CASE e.rebalance = NIL
  <2>1. GapLeft(t, S, n, k, NoGap)
    <3>1. ASSUME NEW x \in S, NEW y \in Side PROVE NoGap # <<x, y>>
      BY <1>6 DEF NoGap
    <3>2. ASSUME NEW x \in S, NEW y \in Side, t.kid[x][y] = n PROVE t.par[n] # NIL
      BY <3>2, <1>6, <1>7
    <3> QED
      BY <3>1, <3>2, <1>4, <1>9 DEF GapLeft
  <2> QED
    BY <2>1, <1>3, <1>5, <1>8, <1>9 DEF Erased
<1>10. CASE e.rebalance # NIL
  <2>1. PICK p : p = t.par[n]
    OBVIOUS
  <2>2. k = NIL /\ IsBlack(t, n) /\ e.rebalance = p /\ p \in S \ {n}
    BY <2>1, <1>4, <1>7, <1>10
  <2>3. PICK s \in Side : t.kid[p][s] = n
    BY <2>1, <2>2, <1>1, <1>6 DEF Ordered, Hung
  <2>4. GapLeft(t, S, n, k, <<p, s>>)
    <3>1. ASSUME NEW x \in S, NEW y \in Side, t.kid[x][y] = n PROVE x = p /\ y = s
      <4>1. x = p
        BY <3>1, <2>1, <1>6, <1>7
      <4>2. t.kid[p][Other(s)] # n
        BY <2>2, <2>3, <1>6, <1>7
      <4> QED
        BY <3>1, <4>1, <4>2, SideFacts DEF Side
    <3> QED
      BY <3>1, <2>2, <2>3 DEF GapLeft
  <2>5. u.kid[p][s] = NIL
    BY <2>2, <2>3, <1>4 DEF Spliced
  <2> QED
    BY <2>2, <2>4, <2>5, <1>3, <1>5, <1>8, <1>10 DEF Erased
<1> QED
  BY <1>9, <1>10

ReplacedInk(h, S, n, e, c) ==
  [x \in S \ {n} |-> IF x = e THEN h[n] ELSE IF x = c THEN h[e] ELSE h[x]]

\* The gap that the black successor e leaves, where no kid takes its place.
GapMoved(t, S, n, e, c, gap) ==
  \A x \in S \ {n}, y \in Side :
    gap = <<x, y>> <=> t.kid[Former(x, n, e)][y] = e /\ c = NIL /\ IsBlack(t, e)

\* e has taken n's color, and e's kid c is black.
Repainted(t, u, S, n, e, c) ==
  \A x \in S \ {n} : u.color[x] = IF x = e THEN t.color[n]
                                  ELSE IF x = c THEN "black" ELSE t.color[x]

LEMMA ReplaceBalance ==
  ASSUME NEW t \in Tree, NEW u, NEW S, NEW m, NEW pos, NEW lo, NEW hi,
         Ordered(t, S, m, pos, lo, hi), NEW h, Balanced(t, S, h, NoGap),
         RedsApart(t, S, NIL), NEW n \in S, NEW e \in S, pos[n] = pos[e] - 1,
         t.kid[e]["left"] = NIL, NEW c, t.kid[e]["right"] = c,
         Replaced(t, u, S, n, e, c), Repainted(t, u, S, n, e, c),
         NEW gap, GapMoved(t, S, n, e, c, gap)
  PROVE  /\ Balanced(u, S \ {n}, ReplacedInk(h, S, n, e, c), gap)
         /\ RedsApart(u, S \ {n}, NIL)
<1> USE DEF Repainted
<1>1. S \subseteq Node /\ NIL \notin S /\ "left" \in Side /\ "right" \in Side
  BY TreeFields DEF Ordered, Placed, Side
<1>2. /\ \A x \in S, y \in Side : /\ t.kid[x][y] \in S \cup {NIL} /\ t.kid[x][y] # x
                                  /\ t.kid[x][y] # NIL => /\ t.par[t.kid[x][y]] = x
                                                          /\ t.kid[x][y] # t.par[x]
  BY OrderedFacts
<1>2a. e # n /\ pos[e] \in Int /\ pos[n] \in Int /\ 1 <= pos[n]
  BY DEF Ordered, Placed
<1>3. /\ c \in (S \ {e}) \cup {NIL} /\ (c # NIL => t.par[c] = e)
      /\ \A x \in S \ {e}, y \in Side : t.kid[x][y] = c => c = NIL
  BY <1>1, <1>2
<1>4. h \in [S -> Nat] /\ \A x \in S, y \in Side : Even(t, h, x, y, NoGap)
  BY DEF Balanced
<1>5. ASSUME NEW x \in S, NEW y \in Side
      PROVE  h[x] = Deep(h, t.kid[x][y]) + Ink(t, x) /\ Deep(h, t.kid[x][y]) \in Nat
  <2>1. Even(t, h, x, y, NoGap) /\ NoGap # <<x, y>>
    BY <1>1, <1>4 DEF NoGap
  <2>2. Deep(h, t.kid[x][y]) \in Nat
    BY <1>2, <1>4 DEF Deep
  <2>3. Ink(t, x) \in Nat
    BY DEF Ink
  <2> QED
    BY <2>1, <2>2, <2>3 DEF Even
<1>6. \A x \in S : Ink(t, x) \in {0, 1} /\ Ink(u, x) \in {0, 1}
  BY DEF Ink
<1>7. h[e] = Ink(t, e)
  <2>1. Deep(h, t.kid[e]["left"]) = 0
    BY DEF Deep
  <2> QED
    BY <2>1, <1>1, <1>5, <1>6
<1>8. ASSUME c # NIL
      PROVE  h[c] = 0 /\ Ink(t, c) = 0 /\ Ink(t, e) = 1 /\ c \in S
  <2>1. c \in S
    BY <1>3, <1>8
  <2>2. h[e] = h[c] + Ink(t, e) /\ h[c] \in Nat
    BY <2>1, <1>1, <1>4, <1>5, <1>8 DEF Deep
  <2>3. h[c] = 0
    BY <2>2, <1>6, <1>7
  <2>4. Ink(t, c) = 0
    BY <2>1, <2>3, <1>1, <1>5, <1>6
  <2>5. IsRed(t, c)
    BY <2>4 DEF Ink, IsBlack
  <2>6. ~IsRed(t, e)
    BY <2>5, <1>1, <1>8 DEF RedsApart
  <2> QED
    BY <2>1, <2>3, <2>4, <2>6 DEF Ink, IsBlack
<1>8a. c # n
  <2> SUFFICES ASSUME c = n PROVE FALSE
    OBVIOUS
  <2>1. n \in S /\ pos[n] \in Int /\ lo[n] \in Int /\ lo[n] <= pos[n]
    BY DEF Ordered, Spans, Placed
  <2>2. Below(t, S, pos, lo, hi, e, "right")
    BY <1>1 DEF Ordered
  <2>3. lo[n] = pos[e] + 1
    BY <2>2, <1>1, <1>3 DEF Below
  <2> QED
    BY <2>1, <2>3, <1>2a
<1>9. ASSUME NEW x \in S \ {n}
      PROVE  /\ Former(x, n, e) \in S \ {e} /\ (x = e => Former(x, n, e) = n)
             /\ (x # e => Former(x, n, e) = x)
             /\ \A y \in Side :
                  u.kid[x][y] = Successor(t.kid[Former(x, n, e)][y], n, e, c)
  BY <1>2a, <1>9 DEF Former, Replaced
<1>10. PICK h2 : h2 = ReplacedInk(h, S, n, e, c)
  OBVIOUS
<1>11. /\ h2 \in [S \ {n} -> Nat] /\ h2[e] = h[n] /\ (c # NIL => h2[c] = h[e])
       /\ \A x \in S \ {n, e, c} : h2[x] = h[x]
       /\ \A k \in (S \ {n, e, c}) \cup {NIL} : Deep(h2, k) = Deep(h, k)
  BY <1>1, <1>2a, <1>3, <1>4, <1>8a, <1>10 DEF ReplacedInk, Deep
<1>12. /\ Ink(u, e) = Ink(t, n) /\ (c # NIL => Ink(u, c) = 1)
       /\ \A x \in S \ {n, e, c} : Ink(u, x) = Ink(t, x)
  BY <1>1, <1>2a, <1>3, <1>8a DEF Ink, IsBlack, IsRed
<1>13. ASSUME NEW x \in S \ {n}, NEW y \in Side PROVE Even(u, h2, x, y, gap)
  <2>1. PICK f : f = Former(x, n, e)
    OBVIOUS
  <2>2. f \in S \ {e} /\ (x = e => f = n) /\ (x # e => f = x)
    BY <2>1, <1>9
  <2>3. PICK k : k = t.kid[f][y]
    OBVIOUS
  <2>4. PICK g : g = IF gap = <<x, y>> THEN 1 ELSE 0
    OBVIOUS
  <2>5. h[f] = Deep(h, k) + Ink(t, f) /\ Deep(h, k) \in Nat /\ k \in (S \cup {NIL}) \ {f}
    BY <2>2, <2>3, <1>2, <1>5
  <2>6. u.kid[x][y] = Successor(k, n, e, c)
    BY <2>1, <2>3, <1>9
  <2>7. k = c => c = NIL
    BY <2>2, <2>3, <1>3
  <2>8. h2[x] = Deep(h2, u.kid[x][y]) + Ink(u, x) + g
    <3>1. CASE x = c
      <4>1. c # NIL /\ f = c
        BY <3>1, <2>2, <1>1, <1>3
      <4>2. k # e
        <5>1. k # NIL => k # t.par[c]
          BY <4>1, <2>2, <2>3, <1>2
        <5> QED
          BY <4>1, <5>1, <1>1, <1>3
      <4>3. g = 0
        BY <4>2, <2>1, <2>3, <2>4 DEF GapMoved
      <4>4. Deep(h, k) = 0
        BY <4>1, <2>5, <1>6, <1>8
      <4>5. CASE k = n
        <5>1. u.kid[x][y] = e /\ Deep(h2, e) = 0
          BY <4>4, <4>5, <2>6, <1>1, <1>2a, <1>11 DEF Successor, Deep
        <5> QED
          BY <3>1, <4>1, <4>3, <5>1, <1>7, <1>8, <1>11, <1>12
      <4>6. CASE k # n
        <5>1. u.kid[x][y] = k /\ Deep(h2, k) = 0
          BY <4>1, <4>2, <4>4, <4>6, <2>5, <2>6, <2>7, <1>11 DEF Successor
        <5> QED
          BY <3>1, <4>1, <4>3, <5>1, <1>7, <1>8, <1>11, <1>12
      <4> QED
        BY <4>5, <4>6
    <3>2. CASE x # c
      <4>1. h2[x] = h[f] /\ Ink(u, x) = Ink(t, f)
        BY <3>2, <2>2, <1>11, <1>12
      <4>2. Ink(t, f) \in {0, 1} /\ h[f] \in Nat
        BY <2>2, <1>4, <1>6
      <4>3. CASE k = e
        <5>1. u.kid[x][y] = c /\ Deep(h, k) = h[e]
          BY <4>3, <2>6, <1>1 DEF Successor, Deep
        <5>2. CASE c = NIL
          <6>1. g = Ink(t, e) /\ Deep(h2, c) = 0
            BY <4>3, <5>2, <2>1, <2>3, <2>4 DEF GapMoved, Ink, Deep
          <6> QED
            BY <4>1, <4>2, <5>1, <6>1, <2>5, <1>6, <1>7
        <5>3. CASE c # NIL
          <6>1. g = 0 /\ Deep(h2, c) = h[e]
            BY <5>3, <2>4, <1>11 DEF GapMoved, Deep
          <6> QED
            BY <4>1, <4>2, <5>1, <6>1, <2>5
        <5> QED
          BY <5>2, <5>3
      <4>4. CASE k # e
        <5>1. g = 0
          BY <4>4, <2>1, <2>3, <2>4 DEF GapMoved
        <5>2. Deep(h2, u.kid[x][y]) = Deep(h, k)
          <6>1. CASE k = n
            BY <6>1, <2>6, <1>1, <1>2a, <1>11 DEF Successor, Deep
          <6>2. CASE k # n
            BY <4>4, <6>2, <2>5, <2>6, <2>7, <1>11 DEF Successor
          <6> QED
            BY <6>1, <6>2
        <5> QED
          BY <4>1, <4>2, <5>1, <5>2, <2>5
      <4> QED
        BY <4>3, <4>4
    <3> QED
      BY <3>1, <3>2
  <2> QED
    BY <2>4, <2>8 DEF Even
<1>14. c # NIL => ~IsRed(u, c)
  BY <1>3, <1>8a DEF IsRed
<1>15. RedsApart(u, S \ {n}, NIL)
  <2>1. ASSUME NEW x \in S \ {n}, NEW y \in Side, IsRed(u, x), IsRed(u, u.kid[x][y])
        PROVE  FALSE
    <3>1. PICK f : f = Former(x, n, e)
      OBVIOUS
    <3>2. f \in S \ {e} /\ (x = e => f = n) /\ (x # e => f = x)
      BY <3>1, <1>9
    <3>3. PICK k : k = t.kid[f][y]
      OBVIOUS
    <3>4. x # c
      BY <2>1, <1>14 DEF IsRed
    <3>5. IsRed(t, f)
      BY <2>1, <3>2, <3>4, <1>1 DEF IsRed
    <3>6. u.kid[x][y] = Successor(k, n, e, c) /\ k \in S \cup {NIL}
      BY <3>1, <3>2, <3>3, <1>2, <1>9
    <3>7. CASE k = e
      <4>1. u.kid[x][y] = c
        BY <3>6, <3>7 DEF Successor
      <4> QED
        BY <4>1, <2>1, <1>14 DEF IsRed
    <3>8. CASE k = n
      <4>1. u.kid[x][y] = e
        BY <3>6, <3>8, <1>2a DEF Successor
      <4>2. IsRed(t, n)
        BY <4>1, <2>1, <1>1, <1>2a DEF IsRed
      <4>3. n = t.kid[f][y] /\ f \in S
        BY <3>2, <3>3, <3>8
      <4>4. IsRed(t, t.kid[f][y])
        BY <4>2, <4>3
      <4> QED
        BY <3>5, <4>3, <4>4, <1>1 DEF RedsApart
    <3>9. CASE k \notin {e, n}
      <4>1. u.kid[x][y] = k
        BY <3>6, <3>9 DEF Successor
      <4>2. k \in S /\ k # c
        BY <4>1, <2>1, <3>2, <3>3, <3>6, <1>3 DEF IsRed
      <4>3. IsRed(t, k)
        BY <4>1, <4>2, <2>1, <3>9 DEF IsRed
      <4> QED
        BY <3>2, <3>3, <3>5, <4>2, <4>3, <1>1 DEF RedsApart
    <3> QED
      BY <3>7, <3>8, <3>9
  <2>2. ~IsRed(u, u.root)
    <3>1. u.root = IF t.par[n] = NIL THEN e ELSE t.root
      BY DEF Replaced
    <3>2. CASE t.par[n] = NIL
      <4>1. n = t.root
        BY <3>2, OrderedFacts
      <4> QED
        BY <3>1, <3>2, <4>1, <1>1, <1>2a DEF RedsApart, IsRed
    <3>3. CASE t.par[n] # NIL
      <4>1. t.root \in S \ {n} /\ t.par[t.root] = NIL /\ lo[t.root] = 1
        BY <3>3 DEF Ordered, Rooted
      <4>2. t.root # c
        BY <4>1, <1>1, <1>3
      <4>3. t.root # e
        <5>1. Below(t, S, pos, lo, hi, e, "left")
          BY <1>1 DEF Ordered
        <5>2. lo[e] = pos[e]
          BY <5>1 DEF Below
        <5> QED
          BY <4>1, <5>2, <1>2a
      <4> QED
        BY <3>1, <3>3, <4>1, <4>2, <4>3, <1>1 DEF RedsApart, IsRed
    <3> QED
      BY <3>2, <3>3
  <2> QED
    BY <2>1, <2>2 DEF RedsApart
<1> QED
  BY <1>10, <1>11, <1>13, <1>15 DEF Balanced

\* Where the successor e of n stands: it is the right kid of n, or the left kid
\* of a node below.
LEMMA SuccessorPlace ==
  ASSUME NEW t \in Tree, NEW S, NEW m, NEW pos, NEW lo, NEW hi,
         Ordered(t, S, m, pos, lo, hi), NEW n \in S, NEW e \in S, pos[n] = pos[e] - 1,
         t.kid[e]["left"] = NIL, NEW l, t.kid[n]["left"] = l, NEW r,
         t.kid[n]["right"] = r, l # NIL, r # NIL, NEW p, t.par[e] = p
  PROVE  /\ l \in S /\ r \in S /\ p \in S
         /\ l # e /\ l # r /\ l # n /\ r # n /\ e # n /\ p # e
         /\ t.par[l] = n /\ t.par[r] = n
         /\ p = n <=> r = e
         /\ r # e => t.kid[p]["left"] = e /\ t.par[n] # p
         /\ t.par[n] # e /\ t.par[n] # n /\ t.par[n] \in S \cup {NIL}
<1>1. /\ \A x \in S : /\ lo[x] \in Int /\ hi[x] \in Int /\ pos[x] \in Int
                      /\ lo[x] <= pos[x] /\ pos[x] <= hi[x] /\ 1 <= lo[x]
      /\ \A x, y \in S : pos[x] = pos[y] => x = y
  BY DEF Ordered, Spans, Placed
<1>2. S \subseteq Node /\ NIL \notin S /\ "left" \in Side /\ "right" \in Side
  BY TreeFields DEF Ordered, Placed, Side
<1>3. \A x \in S, y \in Side : Below(t, S, pos, lo, hi, x, y)
  BY DEF Ordered
<1>4. /\ \A x \in S, y \in Side : t.kid[x][y] \in S \cup {NIL} /\ t.kid[x][y] # x
      /\ \A x \in S : t.par[x] \in S \cup {NIL} /\ t.par[x] # x
  BY OrderedFacts
<1>5. l \in S /\ t.par[l] = n /\ hi[l] = pos[n] - 1
  BY <1>2, <1>3 DEF Below
<1>6. r \in S /\ t.par[r] = n /\ lo[r] = pos[n] + 1
  BY <1>2, <1>3 DEF Below
<1>7. l # e /\ l # r /\ l # n /\ r # n /\ e # n
  <2>1. pos[l] < pos[n] /\ pos[r] > pos[n] /\ pos[e] > pos[n]
    BY <1>1, <1>5, <1>6
  <2>2. pos[l] \in Int /\ pos[n] \in Int /\ pos[r] \in Int /\ pos[e] \in Int
    BY <1>1, <1>5, <1>6
  <2> QED
    BY <2>1, <2>2, <1>4, <1>2
<1>8. lo[e] = pos[e]
  <2>1. Below(t, S, pos, lo, hi, e, "left")
    BY <1>2, <1>3
  <2> QED
    BY <2>1 DEF Below
<1>9. p \in S /\ p # e
  <2>1. ASSUME p = NIL PROVE FALSE
    <3>1. e = t.root
      BY <2>1, OrderedFacts
    <3>2. lo[e] = 1
      BY <3>1, <1>2 DEF Ordered, Rooted
    <3> QED
      BY <3>2, <1>1, <1>8
  <2> QED
    BY <2>1, <1>4
<1>10. PICK s \in Side : t.kid[p][s] = e
  BY <1>2, <1>9 DEF Ordered, Hung
<1>11. t.par[n] # e
  <2> SUFFICES ASSUME t.par[n] = e PROVE FALSE
    OBVIOUS
  <2>1. PICK y \in Side : t.kid[e][y] = n
    BY <1>2 DEF Ordered, Hung
  <2>2. y = "right"
    BY <2>1, <1>2 DEF Side
  <2>3. lo[n] = pos[e] + 1
    BY <2>1, <2>2, <1>2, <1>3 DEF Below
  <2> QED
    BY <2>3, <1>1
<1>12. CASE s = "right"
  <2>1. lo[e] = pos[p] + 1
    BY <1>2, <1>3, <1>9, <1>10, <1>12 DEF Below
  <2>2. p = n
    BY <2>1, <1>1, <1>8, <1>9
  <2>3. r = e
    BY <2>2, <1>10, <1>12
  <2> QED
    BY <2>2, <2>3, <1>4, <1>5, <1>6, <1>7, <1>9, <1>11
<1>13. CASE s = "left"
  <2>1. hi[e] = pos[p] - 1
    BY <1>2, <1>3, <1>9, <1>10, <1>13 DEF Below
  <2>2. pos[e] < pos[p]
    BY <2>1, <1>1, <1>9
  <2>3. p # n
    BY <2>2, <1>1
  <2>4. r # e
    BY <2>3, <1>6
  <2>5. t.par[n] # p
    <3> SUFFICES ASSUME t.par[n] = p PROVE FALSE
      OBVIOUS
    <3>1. PICK y \in Side : t.kid[p][y] = n
      BY <1>2, <1>9 DEF Ordered, Hung
    <3>2. y = "right"
      BY <3>1, <1>7, <1>10, <1>13 DEF Side
    <3>3. lo[n] = pos[p] + 1
      BY <3>1, <3>2, <1>2, <1>3, <1>9 DEF Below
    <3> QED
      BY <3>3, <2>2, <1>1, <1>9
  <2> QED
    BY <2>3, <2>4, <2>5, <1>4, <1>5, <1>6, <1>7, <1>9, <1>10, <1>11, <1>13
<1> QED
  BY <1>12, <1>13 DEF Side

LEMMA ReplaceFields ==
  ASSUME NEW t \in Tree, NEW S, NEW m, NEW pos, NEW lo, NEW hi,
         Ordered(t, S, m, pos, lo, hi), NEW n \in S, NEW e \in S, pos[n] = pos[e] - 1,
         t.kid[e]["left"] = NIL, t.kid[n]["left"] # NIL, t.kid[n]["right"] # NIL,
         e = Farthest(t, t.kid[n]["right"], "left"), NEW c, t.kid[e]["right"] = c,
         NEW r, r = Replace(t, n)
  PROVE  /\ Replaced(t, r.tree, S, n, e, c)
         /\ \A x \in S \ {n} : r.tree.color[x] = IF x = e THEN t.color[n]
                                    ELSE IF x = c THEN "black" ELSE t.color[x]
         /\ r.rebalance = IF c = NIL /\ IsBlack(t, e)
                          THEN IF t.kid[n]["right"] = e THEN e ELSE t.par[e] ELSE NIL
<1>1. PICK left, right, p0, f :
        /\ t.kid[n]["left"] = left /\ t.kid[n]["right"] = right
        /\ t.par[n] = p0 /\ t.par[e] = f
  OBVIOUS
<1>2. PICK p : p = IF e = right THEN e ELSE f
  OBVIOUS
<1>3. /\ left \in S /\ right \in S /\ f \in S
      /\ left # e /\ left # right /\ left # n /\ right # n /\ e # n /\ f # e
      /\ t.par[left] = n /\ t.par[right] = n
      /\ f = n <=> right = e
      /\ right # e => t.kid[f]["left"] = e /\ p0 # f
      /\ p0 # e /\ p0 # n /\ p0 \in S \cup {NIL}
  BY <1>1, SuccessorPlace
<1>4. /\ S \subseteq Node /\ NIL \notin S /\ "left" \in Side /\ "right" \in Side
      /\ "left" # "right"
  BY TreeFields DEF Ordered, Placed, Side
<1>5. /\ \A x \in S, y \in Side :
           /\ t.kid[x][y] \in S \cup {NIL} /\ t.kid[x][y] # x
           /\ t.kid[x][y] # NIL => /\ t.par[t.kid[x][y]] = x
                                   /\ t.kid[x][Other(y)] # t.kid[x][y]
  BY OrderedFacts
<1>6. c \in S \cup {NIL} /\ c # e /\ (c # NIL => t.par[c] = e) /\ c # n /\ c # left /\ c # right
  BY <1>1, <1>3, <1>4, <1>5
<1>7. PICK opened : opened = IF e = right THEN t
                      ELSE rb_set_parent(
                             SetKid(SetKid(t, p, "left", c), e, "right", right), right, e)
  OBVIOUS
<1>8. PICK joined : joined = rb_set_parent(SetKid(opened, e, "left", left), left, e)
  OBVIOUS
<1>9. PICK moved : moved = __rb_change_child(joined, n, e, p0)
  OBVIOUS
<1>10. PICK placed : placed = rb_set_parent_color(moved, e, p0, t.color[n])
  OBVIOUS
<1>11. /\ r.tree = Blacken(placed, c, p)
       /\ r.rebalance = IF c = NIL /\ IsBlack(t, e) THEN p ELSE NIL
  BY <1>1, <1>2, <1>7, <1>8, <1>9, <1>10 DEF Replace, Kid
<1>12. /\ n \in Node /\ e \in Node /\ left \in Node /\ right \in Node /\ p \in Node
       /\ {n, e, left, right, p, p0, c} \subseteq Ptr
  BY <1>2, <1>3, <1>4, <1>6 DEF Ptr
<1>13. /\ opened \in Tree /\ opened.root = t.root /\ opened.color = t.color
       /\ \A x \in Node : opened.par[x] = IF x = right /\ e # right THEN e ELSE t.par[x]
       /\ \A x \in Node, y \in Side :
            opened.kid[x][y] = IF e # right /\ x = p /\ y = "left" THEN c
                               ELSE IF e # right /\ x = e /\ y = "right" THEN right
                               ELSE t.kid[x][y]
  <2>1. CASE e = right
    BY <2>1, <1>7
  <2>2. CASE e # right
    <3>1. PICK v, w : v = SetKid(t, p, "left", c) /\ w = SetKid(v, e, "right", right)
      OBVIOUS
    <3>2. KidSet(t, v, p, "left", c)
      BY <3>1, <1>4, <1>12, SetKidIs
    <3>3. KidSet(v, w, e, "right", right)
      <4>1. v \in Tree
        BY <3>2 DEF KidSet
      <4> QED
        BY <4>1, <3>1, <1>4, <1>12, SetKidIs
    <3>4. ParSet(w, opened, right, e)
      <4>1. w \in Tree /\ opened = rb_set_parent(w, right, e)
        BY <2>2, <3>1, <3>3, <1>7 DEF KidSet
      <4> QED
        BY <4>1, <1>12, SetParIs
    <3>5. p # e
      BY <2>2, <1>2, <1>3
    <3> QED
      BY <2>2, <3>2, <3>3, <3>4, <3>5, <1>4 DEF KidSet, ParSet
  <2> QED
    BY <2>1, <2>2
<1>14. /\ joined \in Tree /\ joined.root = t.root /\ joined.color = t.color
       /\ \A x \in Node : joined.par[x] = IF x = left THEN e ELSE opened.par[x]
       /\ \A x \in Node, y \in Side :
            joined.kid[x][y] = IF x = e /\ y = "left" THEN left ELSE opened.kid[x][y]
  <2>1. PICK v : v = SetKid(opened, e, "left", left)
    OBVIOUS
  <2>2. KidSet(opened, v, e, "left", left)
    BY <2>1, <1>4, <1>12, <1>13, SetKidIs
  <2>3. ParSet(v, joined, left, e)
    <3>1. v \in Tree
      BY <2>2 DEF KidSet
    <3> QED
      BY <3>1, <2>1, <1>8, <1>12, SetParIs
  <2> QED
    BY <2>2, <2>3, <1>13 DEF KidSet, ParSet
<1>15. ChildChanged(joined, moved, n, e, p0)
  <2>1. ASSUME p0 # NIL
        PROVE  (\E s \in Side : joined.kid[p0][s] = n)
               /\ joined.kid[p0]["left"] # joined.kid[p0]["right"]
    <3>1. PICK s \in Side : t.kid[p0][s] = n
      BY <2>1, <1>1 DEF Ordered, Hung
    <3>2. t.kid[p0][Other(s)] # n
      BY <2>1, <3>1, <1>3, <1>4, <1>5
    <3>3. t.kid[p0]["left"] # t.kid[p0]["right"]
      BY <3>1, <3>2, SideFacts DEF Side
    <3>4. p0 # p \/ e = right
      BY <1>2, <1>3
    <3>5. \A y \in Side : joined.kid[p0][y] = t.kid[p0][y]
      BY <2>1, <3>4, <1>3, <1>4, <1>13, <1>14
    <3> QED
      BY <3>1, <3>3, <3>5, <1>4
  <2> QED
    BY <2>1, <1>9, <1>12, <1>14, ChangeChildIs
<1>16. ParColorSet(moved, placed, e, p0, t.color[n])
  <2>1. moved \in Tree /\ t.color[n] \in {"red", "black"}
    BY <1>12, <1>15, TreeFields DEF ChildChanged
  <2> QED
    BY <2>1, <1>10, <1>12, SetParColorIs
<1>17. ParColorSet(placed, r.tree, c, p, "black")
  <2>1. placed \in Tree
    BY <1>16 DEF ParColorSet
  <2> QED
    BY <2>1, <1>11, <1>12, BlackenIs
<1>18. PICK u : u = r.tree
  OBVIOUS
<1>19. /\ u \in Tree /\ u.root = IF p0 = NIL THEN e ELSE t.root
       /\ \A x \in Node, y \in Side : u.kid[x][y] = moved.kid[x][y]
       /\ \A x \in Node : /\ u.par[x] = IF x = c THEN p ELSE IF x = e THEN p0 ELSE joined.par[x]
                          /\ u.color[x] = IF x = c THEN "black"
                                          ELSE IF x = e THEN t.color[n] ELSE t.color[x]
  BY <1>14, <1>15, <1>16, <1>17, <1>18 DEF ChildChanged, ParColorSet
<1>20. \A y \in Side : u.kid[e][y] = Successor(t.kid[n][y], n, e, c)
  <2>1. \A y \in Side : u.kid[e][y] = joined.kid[e][y]
    BY <1>3, <1>12, <1>15, <1>19 DEF ChildChanged
  <2>2. u.kid[e]["left"] = left
    BY <2>1, <1>4, <1>12, <1>14
  <2>3. u.kid[e]["right"] = IF e = right THEN c ELSE right
    BY <2>1, <1>4, <1>12, <1>13, <1>14, <1>2, <1>3
  <2>4. u.kid[e]["left"] = Successor(left, n, e, c)
    BY <2>2, <1>3 DEF Successor
  <2>5. u.kid[e]["right"] = Successor(right, n, e, c)
    BY <2>3, <1>3 DEF Successor
  <2> QED
    BY <2>4, <2>5, <1>1 DEF Side
<1>21. ASSUME NEW x \in S \ {n, e}, NEW y \in Side
       PROVE  u.kid[x][y] = Successor(t.kid[x][y], n, e, c)
  <2>1. PICK k : k = t.kid[x][y]
    OBVIOUS
  <2>2. joined.kid[x][y] = IF e # right /\ x = f /\ y = "left" THEN c ELSE k
    BY <2>1, <1>2, <1>4, <1>13, <1>14
  <2>3. u.kid[x][y] = IF x = p0 /\ joined.kid[x][y] = n THEN e ELSE joined.kid[x][y]
    BY <1>4, <1>15, <1>19 DEF ChildChanged
  <2>3a. k # NIL => t.par[k] = x
    BY <2>1, <1>5
  <2>4. k = n => x = p0
    BY <2>3a, <1>1, <1>4
  <2>5. k = e => x = f
    BY <2>3a, <1>1, <1>4
  <2>6. CASE k = e
    <3>1. x = f /\ e # right
      BY <2>5, <2>6, <1>3
    <3>2. t.kid[f]["left"] = e
      BY <3>1, <1>3
    <3>3. t.kid[f]["right"] # e
      BY <3>2, <1>3, <1>4, <1>5, SideFacts
    <3>4. y = "left"
      BY <2>1, <2>6, <3>1, <3>3 DEF Side
    <3> QED
      BY <2>1, <2>2, <2>3, <2>6, <3>1, <3>4, <1>6 DEF Successor
  <2>7. CASE k # e
    <3>1. ~(e # right /\ x = f /\ y = "left")
      BY <2>1, <2>7, <1>3
    <3> QED
      BY <2>1, <2>2, <2>3, <2>4, <2>7, <3>1, <1>3 DEF Successor
  <2> QED
    BY <2>6, <2>7
<1>22. u.par[e] = p0 /\ (c # NIL => u.par[c] = IF f = n THEN e ELSE f)
  BY <1>2, <1>3, <1>4, <1>6, <1>12, <1>19
<1>23. ASSUME NEW x \in S \ {n, e, c}
       PROVE  u.par[x] = IF t.par[x] = n THEN e ELSE t.par[x]
  <2>1. u.par[x] = IF x = left THEN e ELSE IF x = right /\ e # right THEN e ELSE t.par[x]
    BY <1>4, <1>13, <1>14, <1>19
  <2>2. ASSUME t.par[x] = n PROVE x = left \/ x = right
    <3>1. PICK y \in Side : t.kid[n][y] = x
      BY <2>2, <1>4 DEF Ordered, Hung
    <3> QED
      BY <3>1, <1>1 DEF Side
  <2> QED
    BY <2>1, <2>2, <1>3
<1>24. Replaced(t, u, S, n, e, c)
  BY <1>1, <1>19, <1>20, <1>21, <1>22, <1>23 DEF Replaced
<1>25. \A x \in S \ {n} : u.color[x] = IF x = e THEN t.color[n]
                                    ELSE IF x = c THEN "black" ELSE t.color[x]
  BY <1>4, <1>6, <1>19
<1> QED
  BY <1>1, <1>2, <1>11, <1>18, <1>24, <1>25

\* With n gone its successor is the only one that has moved.
LEMMA MovedLess ==
  ASSUME NEW S, NEW m, NEW pos, Placed(S, m, pos), NEW n \in S, NEW e \in S,
         NEW at, pos[e] = at, pos[n] = at - 1
  PROVE  LessPos(MovedTo(pos, S, n, e), S \ {n}, at) = LessPos(pos, S \ {n}, pos[n])
<1>1. m \in Nat /\ \A x \in S : pos[x] \in 1 .. m
  BY DEF Placed
<1>2. \A x \in S : (pos[x] = at => x = e) /\ (pos[x] = at - 1 => x = n)
  BY DEF Placed
<1>3. at \in Int
  BY <1>1
<1>4. ASSUME NEW x \in S \ {n}
      PROVE  OneEarlier(MovedTo(pos, S, n, e)[x], at) = OneEarlier(pos[x], pos[n])
  <2>1. MovedTo(pos, S, n, e)[x] = pos[Former(x, n, e)]
    BY DEF MovedTo
  <2>2. CASE x = e
    <3>1. pos[Former(x, n, e)] = at - 1
      BY <2>2 DEF Former
    <3> QED
      BY <2>1, <2>2, <3>1, <1>3 DEF OneEarlier
  <2>3. CASE x # e
    <3>1. pos[Former(x, n, e)] = pos[x]
      BY <2>3 DEF Former
    <3>2. pos[x] # at /\ pos[x] # at - 1 /\ pos[x] \in Int
      BY <2>3, <1>1, <1>2
    <3> QED
      BY <2>1, <3>1, <3>2, <1>3 DEF OneEarlier
  <2> QED
    BY <2>2, <2>3
<1> QED
  BY <1>4 DEF LessPos

LEMMA ReplaceIs ==
  ASSUME NEW t \in Tree, NEW S, NEW m, NEW pos, Sound(t, S, m, pos, NoGap, NIL),
         NEW n \in S, t.kid[n]["left"] # NIL, t.kid[n]["right"] # NIL,
         NEW r, r = Replace(t, n)
  PROVE  Erased(r, S \ {n}, m - 1, LessPos(pos, S \ {n}, pos[n]))
<1>1. PICK lo, hi, h : /\ Ordered(t, S, m, pos, lo, hi)
                       /\ Balanced(t, S, h, NoGap) /\ RedsApart(t, S, NIL)
  BY DEF Sound
<1>2. PICK left, right : t.kid[n]["left"] = left /\ t.kid[n]["right"] = right
  OBVIOUS
<1>3. S \subseteq Node /\ NIL \notin S /\ "left" \in Side /\ "right" \in Side
  BY <1>1, TreeFields DEF Ordered, Placed, Side
<1>4. right \in S /\ lo[right] = pos[n] + 1
  <2>1. Below(t, S, pos, lo, hi, n, "right")
    BY <1>1, <1>3 DEF Ordered
  <2> QED
    BY <2>1, <1>2 DEF Below
<1>5. PICK e : e = Farthest(t, right, "left")
  OBVIOUS
<1>6. e \in S /\ pos[e] = pos[n] + 1 /\ t.kid[e]["left"] = NIL
  BY <1>1, <1>4, <1>5, FarthestIs
<1>7. PICK at, c : pos[e] = at /\ t.kid[e]["right"] = c
  OBVIOUS
<1>8. pos[n] = at - 1 /\ pos[n] = pos[e] - 1 /\ at \in Int
  <2>1. pos[n] \in Int
    BY <1>1 DEF Ordered, Placed
  <2> QED
    BY <2>1, <1>6, <1>7
<1>9. PICK f : t.par[e] = f
  OBVIOUS
<1>10. /\ f \in S /\ e # n /\ f # e
       /\ f = n <=> right = e
       /\ right # e => t.kid[f]["left"] = e
  BY <1>1, <1>2, <1>6, <1>8, <1>9, SuccessorPlace
<1>11. PICK u : u = r.tree
  OBVIOUS
<1>12. /\ Replaced(t, u, S, n, e, c)
       /\ \A x \in S \ {n} : u.color[x] = IF x = e THEN t.color[n]
                                    ELSE IF x = c THEN "black" ELSE t.color[x]
       /\ r.rebalance = IF c = NIL /\ IsBlack(t, e)
                        THEN IF right = e THEN e ELSE f ELSE NIL
  <2>1. /\ Replaced(t, r.tree, S, n, e, c)
        /\ \A x \in S \ {n} : r.tree.color[x] = IF x = e THEN t.color[n]
                                    ELSE IF x = c THEN "black" ELSE t.color[x]
        /\ r.rebalance = IF c = NIL /\ IsBlack(t, e)
                          THEN IF t.kid[n]["right"] = e THEN e ELSE t.par[e] ELSE NIL
    BY <1>1, <1>2, <1>5, <1>6, <1>7, <1>8, ReplaceFields
  <2> QED
    BY <2>1, <1>2, <1>9, <1>11
<1>13. PICK pos2, lo2, hi2 : /\ pos2 = LessPos(pos, S \ {n}, pos[n])
                             /\ Ordered(u, S \ {n}, m - 1, pos2, lo2, hi2)
  <2>1. Ordered(u, S \ {n}, m - 1,
                 LessPos(MovedTo(pos, S, n, e), S \ {n}, at),
                 LessLo(MovedTo(lo, S, n, e), S \ {n}, at),
                 LessHi(MovedTo(hi, S, n, e), S \ {n}, at))
    BY <1>1, <1>6, <1>7, <1>8, <1>12, ReplaceKeepsOrder
  <2>2. LessPos(MovedTo(pos, S, n, e), S \ {n}, at) = LessPos(pos, S \ {n}, pos[n])
    <3>1. Placed(S, m, pos)
      BY <1>1 DEF Ordered
    <3> QED
      BY <3>1, <1>6, <1>7, <1>8, MovedLess
  <2> QED
    BY <2>1, <2>2
<1>14. ASSUME NEW gap, GapMoved(t, S, n, e, c, gap)
       PROVE  Sound(u, S \ {n}, m - 1, pos2, gap, NIL)
  <2>1. /\ Balanced(u, S \ {n}, ReplacedInk(h, S, n, e, c), gap)
        /\ RedsApart(u, S \ {n}, NIL)
    <3>1. /\ pos[n] = pos[e] - 1 /\ t.kid[e]["left"] = NIL /\ t.kid[e]["right"] = c
          /\ e \in S
      BY <1>6, <1>7, <1>8
    <3>2. Replaced(t, u, S, n, e, c)
      BY <1>12
    <3>3. Repainted(t, u, S, n, e, c)
      BY <1>12 DEF Repainted
    <3>4. Ordered(t, S, m, pos, lo, hi) /\ Balanced(t, S, h, NoGap) /\ RedsApart(t, S, NIL)
      BY <1>1
    <3>5. GapMoved(t, S, n, e, c, gap)
      BY <1>14
    <3> QED
      BY <3>1, <3>2, <3>3, <3>4, <3>5, ReplaceBalance
  <2>2. u \in Tree
    BY <1>12 DEF Replaced
  <2> QED
    BY <2>1, <2>2, <1>13 DEF Sound
<1>15. CASE r.rebalance = NIL
  <2>1. ~(c = NIL /\ IsBlack(t, e))
    BY <1>3, <1>6, <1>10, <1>12, <1>15
  <2>2. GapMoved(t, S, n, e, c, NoGap)
    BY <2>1, <1>3 DEF GapMoved, NoGap
  <2> QED
    BY <2>2, <1>11, <1>13, <1>14, <1>15 DEF Erased
<1>16. CASE r.rebalance # NIL
  <2>1. PICK q : q = r.rebalance
    OBVIOUS
  <2>2. c = NIL /\ IsBlack(t, e) /\ q = IF right = e THEN e ELSE f
    BY <2>1, <1>12, <1>16
  <2>3. PICK s \in Side : s = IF right = e THEN "right" ELSE "left"
    BY <1>3
  <2>4. q \in S \ {n}
    BY <2>2, <1>6, <1>10
  <2>5. PICK p : p = Former(q, n, e)
    OBVIOUS
  <2>6. p = f
    BY <2>2, <2>5, <1>10 DEF Former
  <2>7. t.kid[p][s] = e
    BY <2>3, <2>6, <1>2, <1>10
  <2>8. t.kid[p][Other(s)] # e
    BY <2>6, <2>7, <1>1, <1>3, <1>6, <1>10, OrderedFacts
  <2>9. GapMoved(t, S, n, e, c, <<q, s>>)
    <3>1. ASSUME NEW x \in S \ {n}, NEW y \in Side, t.kid[Former(x, n, e)][y] = e
          PROVE  x = q /\ y = s
      <4>1. PICK z : z = Former(x, n, e)
        OBVIOUS
      <4>2. z \in S /\ (x = e => z = n) /\ (x # e => z = x)
        BY <4>1 DEF Former
      <4>3. t.kid[z][y] # NIL => t.par[t.kid[z][y]] = z
        BY <4>2, <1>1, OrderedFacts
      <4>4. z = f
        BY <4>1, <4>3, <3>1, <1>3, <1>6, <1>9
      <4>5. x = q
        BY <4>2, <4>4, <2>2, <1>10
      <4>6. y = s
        BY <4>1, <4>4, <3>1, <2>3, <2>6, <2>8, SideFacts DEF Side
      <4> QED
        BY <4>5, <4>6
    <3> QED
      BY <3>1, <2>2, <2>5, <2>7 DEF GapMoved
  <2>10. u.kid[q][s] = NIL
    <3>1. CASE right = e
      <4>1. u.kid[e]["right"] = Successor(t.kid[n]["right"], n, e, c)
        BY <1>3, <1>12 DEF Replaced
      <4> QED
        BY <3>1, <4>1, <2>2, <2>3, <1>2 DEF Successor
    <3>2. CASE right # e
      <4>1. u.kid[f]["left"] = Successor(t.kid[f]["left"], n, e, c)
        BY <3>2, <1>3, <1>10, <1>12 DEF Replaced
      <4> QED
        BY <3>2, <4>1, <2>2, <2>3, <1>10 DEF Successor
    <3> QED
      BY <3>1, <3>2
  <2> QED
    BY <2>1, <2>4, <2>9, <2>10, <1>11, <1>13, <1>14, <1>16 DEF Erased
<1> QED
  BY <1>15, <1>16

-----------------------------------------------------------------------------
(* The cases of the loops *)

\* What is still wrong with the tree t while a loop goes on, whose local nodes
\* are n and p: an insertion's n may be red below a red node, and below p an
\* erasure's black n has one black node too few above it.
Working(t, ph, n, p, S, m, pos) ==
  \/ /\ ph = "idle" /\ n = NIL /\ p = NIL
     /\ Sound(t, S, m, pos, NoGap, NIL)
  \/ /\ ph = "insert" /\ n \in S /\ IsRed(t, n) /\ p = t.par[n]
     /\ Sound(t, S, m, pos, NoGap, n)
  \/ /\ ph = "erase" /\ p \in S
     /\ \E s \in Side : /\ t.kid[p][s] = n /\ IsBlack(t, n)
                        /\ Sound(t, S, m, pos, <<p, s>>, NIL)

Loop(S, m, pos) == Working(tree, phase, node, parent, S, m, pos)

LEMMA StopIs ==
  ASSUME NEW S, NEW m, NEW pos, Stop, Sound(tree', S, m, pos, NoGap, NIL)
  PROVE  Loop(S, m, pos)'
BY DEF Stop, Loop, Working

LEMMA InsertLoop ==
  ASSUME NEW S, NEW m, NEW pos, Loop(S, m, pos), phase = "insert"
  PROVE  /\ node \in S /\ IsRed(tree, node) /\ parent = tree.par[node] /\ tree \in Tree
         /\ Sound(tree, S, m, pos, NoGap, node)
BY DEF Loop, Working, Sound

LEMMA InsertRootKeeps ==
  ASSUME NEW S, NEW m, NEW pos, Loop(S, m, pos), InsertRoot
  PROVE  Loop(S, m, pos)'
<1>1. /\ phase = "insert" /\ parent = NIL /\ Stop
      /\ tree' = rb_set_parent_color(tree, node, NIL, "black")
  BY DEF InsertRoot
<1>2. /\ node \in S /\ IsRed(tree, node) /\ parent = tree.par[node] /\ tree \in Tree
      /\ Sound(tree, S, m, pos, NoGap, node)
  BY <1>1, InsertLoop
<1>3. node \in Node /\ NIL \in Ptr
  BY <1>2 DEF Sound, Ordered, Placed, Ptr
<1>4. ParColorSet(tree, tree', node, NIL, "black")
  BY <1>1, <1>2, <1>3, SetParColorIs
<1>5. Sound(tree', S, m, pos, NoGap, NIL)
  BY <1>1, <1>2, <1>4, BlackRootIs
<1> QED
  BY <1>1, <1>5, StopIs

LEMMA InsertBelowBlackKeeps ==
  ASSUME NEW S, NEW m, NEW pos, Loop(S, m, pos), InsertBelowBlack
  PROVE  Loop(S, m, pos)'
<1>1. /\ phase = "insert" /\ parent # NIL /\ IsBlack(tree, parent) /\ Stop
      /\ tree' = tree
  BY DEF InsertBelowBlack
<1>2. /\ node \in S /\ IsRed(tree, node) /\ parent = tree.par[node] /\ tree \in Tree
      /\ Sound(tree, S, m, pos, NoGap, node)
  BY <1>1, InsertLoop
<1>3. PICK lo, hi, h : /\ Ordered(tree, S, m, pos, lo, hi)
                       /\ Balanced(tree, S, h, NoGap) /\ RedsApart(tree, S, node)
  BY <1>2 DEF Sound
<1>4. \A x \in S, y \in Side : tree.kid[x][y] = node => x = parent
  <2>1. \A x \in S, y \in Side : tree.kid[x][y] # NIL => tree.par[tree.kid[x][y]] = x
    BY <1>2, <1>3, OrderedFacts
  <2>2. node # NIL
    BY <1>2 DEF IsRed
  <2> QED
    BY <2>1, <2>2, <1>2
<1>5. node # tree.root
  BY <1>1, <1>2, <1>3, OrderedFacts
<1>6. RedsApart(tree, S, NIL)
  BY <1>1, <1>3, <1>4, <1>5 DEF RedsApart, IsBlack
<1>7. Sound(tree', S, m, pos, NoGap, NIL)
  BY <1>1, <1>2, <1>3, <1>6 DEF Sound
<1> QED
  BY <1>1, <1>7, StopIs

\* Only colours differ.
SamePointers(t, u) == u.root = t.root /\ u.kid = t.kid /\ u.par = t.par

\* An insertion goes on at the grandparent, in the same tree but for colours.
InsertClimbs(S) ==
  /\ SamePointers(tree, tree') /\ phase' = "insert" /\ node' = tree.par[parent]
  /\ node \in S /\ parent = tree.par[node] /\ parent \in S /\ node' \in S

LEMMA InsertRecolorKeeps ==
  ASSUME NEW S, NEW m, NEW pos, Loop(S, m, pos), NEW s \in Side, InsertRecolor(s)
  PROVE  Loop(S, m, pos)' /\ InsertClimbs(S)
<1>1. PICK t, n, p, g, uncle :
        /\ t = tree /\ n = node /\ p = parent /\ g = t.par[p]
        /\ uncle = Kid(t, g, Other(s))
  OBVIOUS
<1>2. /\ phase = "insert" /\ IsRed(t, p) /\ Kid(t, g, s) = p /\ IsRed(t, uncle)
      /\ node' = g /\ parent' = t.par[g] /\ phase' = phase
      /\ tree' = rb_set_parent_color(Blacken(Blacken(t, uncle, g), p, g), g, t.par[g], "red")
  BY <1>1 DEF InsertRecolor, RedParent
<1>3. n \in S /\ IsRed(t, n) /\ p = t.par[n] /\ t \in Tree /\ Sound(t, S, m, pos, NoGap, n)
  BY <1>1, <1>2, InsertLoop
<1>4. PICK lo, hi, h : /\ Ordered(t, S, m, pos, lo, hi)
                       /\ Balanced(t, S, h, NoGap) /\ RedsApart(t, S, n)
  BY <1>3 DEF Sound
<1>5. p \in S /\ g \in S
  BY <1>1, <1>2, <1>3, <1>4, RedParentFacts
<1>6. S \subseteq Node /\ NIL \notin S /\ Other(s) \in Side
  BY <1>3, <1>4, TreeFields, SideFacts DEF Ordered, Placed
<1>7. uncle \in S /\ uncle # g /\ t.par[uncle] = g /\ p # g /\ uncle # p
  <2>1. /\ t.kid[g][Other(s)] \in S \cup {NIL} /\ t.kid[g][Other(s)] # g
        /\ t.kid[g][Other(s)] # NIL => t.par[t.kid[g][Other(s)]] = g
        /\ t.kid[g][s] # g /\ (t.kid[g][s] # NIL => t.kid[g][Other(s)] # t.kid[g][s])
    BY <1>3, <1>4, <1>5, <1>6, OrderedFacts
  <2>2. uncle # NIL
    BY <1>2 DEF IsRed
  <2> QED
    BY <2>1, <2>2, <1>1, <1>2, <1>5, <1>6 DEF Kid
<1>8. PICK v, w, u : /\ v = Blacken(t, uncle, g) /\ w = Blacken(v, p, g) /\ u = tree'
  OBVIOUS
<1>9. /\ {uncle, g, p} \subseteq Ptr /\ t.par[g] \in Ptr /\ g \in Node /\ p \in Node
      /\ uncle \in Node
  BY <1>3, <1>5, <1>6, <1>7, TreeFields DEF Ptr
<1>10. ParColorSet(t, v, uncle, g, "black")
  BY <1>3, <1>8, <1>9, BlackenIs
<1>11. ParColorSet(v, w, p, g, "black")
  <2>1. v \in Tree
    BY <1>10 DEF ParColorSet
  <2> QED
    BY <2>1, <1>8, <1>9, BlackenIs
<1>12. ParColorSet(w, u, g, t.par[g], "red")
  <2>1. w \in Tree
    BY <1>11 DEF ParColorSet
  <2> QED
    BY <2>1, <1>2, <1>8, <1>9, SetParColorIs
<1>13. Lightened(t, u, g, p, uncle)
  <2>1. \A x \in Node : u.par[x] = t.par[x]
    BY <1>1, <1>7, <1>9, <1>10, <1>11, <1>12 DEF ParColorSet
  <2>2. u.par \in [Node -> Ptr] /\ t.par \in [Node -> Ptr]
    BY <1>3, <1>12 DEF ParColorSet, Tree, Ptr
  <2>3. u.par = t.par
    BY <2>1, <2>2
  <2>4. \A x \in Node : u.color[x] = IF x = g THEN "red"
                                     ELSE IF x \in {p, uncle} THEN "black" ELSE t.color[x]
    BY <1>10, <1>11, <1>12 DEF ParColorSet
  <2>5. u \in Tree /\ u.root = t.root /\ u.kid = t.kid
    BY <1>10, <1>11, <1>12 DEF ParColorSet
  <2> QED
    BY <2>3, <2>4, <2>5 DEF Lightened
<1>14. UncleRed(t, n, p, g, s, uncle)
  BY <1>1, <1>2, <1>3 DEF UncleRed, Kid
<1>15. Sound(u, S, m, pos, NoGap, g) /\ g \in S /\ IsRed(u, g)
  BY <1>3, <1>13, <1>14, InsertRecolorIs
<1>16. u.par = t.par
  BY <1>13 DEF Lightened
<1>17. Loop(S, m, pos)'
  BY <1>2, <1>8, <1>15, <1>16 DEF Loop, Working
<1>18. InsertClimbs(S)
  BY <1>1, <1>2, <1>3, <1>5, <1>8, <1>13 DEF InsertClimbs, SamePointers, Lightened
<1> QED
  BY <1>17, <1>18

LEMMA InsertRotateKeeps ==
  ASSUME NEW S, NEW m, NEW pos, Loop(S, m, pos), NEW s \in Side, InsertRotate(s)
  PROVE  Loop(S, m, pos)'
<1>1. PICK t, n, p, g, u : /\ t = tree /\ n = node /\ p = parent /\ g = t.par[p]
                           /\ u = tree'
  OBVIOUS
<1>2. /\ phase = "insert" /\ IsRed(t, p) /\ t.kid[g][s] = p
      /\ IsBlack(t, t.kid[g][Other(s)]) /\ Stop
      /\ u = IF n = t.kid[p][Other(s)]
             THEN RotateUp(RotateOut(t, n, p, s), n, g, s) ELSE RotateUp(t, p, g, s)
  BY <1>1 DEF InsertRotate, RedParent, Kid
<1>3. n \in S /\ IsRed(t, n) /\ p = t.par[n] /\ t \in Tree /\ Sound(t, S, m, pos, NoGap, n)
  BY <1>1, <1>2, InsertLoop
<1>4. Sound(u, S, m, pos, NoGap, NIL)
  <2>1. CASE n = t.kid[p][Other(s)]
    <3>1. RedPair(t, n, p, g, s, Other(s))
      BY <2>1, <1>1, <1>2, <1>3 DEF RedPair
    <3> QED
      BY <2>1, <3>1, <1>2, <1>3, InsertInnerIs
  <2>2. CASE n # t.kid[p][Other(s)]
    <3>1. PICK lo, hi, h : /\ Ordered(t, S, m, pos, lo, hi)
                           /\ Balanced(t, S, h, NoGap) /\ RedsApart(t, S, n)
      BY <1>3 DEF Sound
    <3>2. p \in S /\ g \in S /\ \E y \in Side : t.kid[p][y] = n
      BY <3>1, <1>1, <1>2, <1>3, RedParentFacts
    <3>3. t.kid[p][s] = n
      BY <2>2, <3>2, SideFacts DEF Side
    <3>4. Apart(t, p, g, t.kid[p][Other(s)])
      BY <3>1, <3>2, <1>2, <1>3, ApartIs
    <3>5. Raised(t, RotateUp(t, p, g, s), p, g, s, "red", NIL, t.kid[p][Other(s)])
      BY <3>4, <1>3, RotateUpIs
    <3>6. RedPair(t, n, p, g, s, s)
      BY <3>3, <1>1, <1>2, <1>3 DEF RedPair
    <3> QED
      BY <2>2, <3>5, <3>6, <1>2, <1>3, InsertOuterIs
  <2> QED
    BY <2>1, <2>2
<1> QED
  BY <1>1, <1>2, <1>4, StopIs

LEMMA EraseLoop ==
  ASSUME NEW S, NEW m, NEW pos, Loop(S, m, pos), NEW s \in Side, DoubleBlack(s)
  PROVE  /\ parent \in S /\ tree \in Tree /\ phase = "erase"
         /\ tree.kid[parent][s] = node /\ IsBlack(tree, node)
         /\ Sound(tree, S, m, pos, <<parent, s>>, NIL)
<1>1. phase = "erase" /\ s = IF node # tree.kid[parent]["right"] THEN "left" ELSE "right"
  BY DEF DoubleBlack, Kid
<1>2. parent \in S /\ IsBlack(tree, node)
  BY <1>1 DEF Loop, Working
<1>3. PICK z \in Side : /\ tree.kid[parent][z] = node
                        /\ Sound(tree, S, m, pos, <<parent, z>>, NIL)
  BY <1>1 DEF Loop, Working
<1>4. tree \in Tree
  BY <1>3 DEF Sound
<1>5. PICK sib : sib = tree.kid[parent][Other(z)]
  OBVIOUS
<1>6. sib # node
  <2>1. PICK lo, hi, h : /\ Ordered(tree, S, m, pos, lo, hi)
                         /\ Balanced(tree, S, h, <<parent, z>>) /\ RedsApart(tree, S, NIL)
    BY <1>3 DEF Sound
  <2>2. sib # tree.kid[parent][z]
    BY <2>1, <1>2, <1>4, <1>5, SiblingFacts
  <2> QED
    BY <2>2, <1>3
<1>7. s = z
  <2>1. CASE z = "right"
    BY <2>1, <1>1, <1>3
  <2>2. CASE z = "left"
    <3>1. tree.kid[parent]["right"] # node
      BY <2>2, <1>5, <1>6, SideFacts DEF Side
    <3> QED
      BY <2>2, <3>1, <1>1
  <2> QED
    BY <2>1, <2>2 DEF Side
<1> QED
  BY <1>1, <1>2, <1>3, <1>4, <1>7

\* What the cases of the loop know of the sibling.
LEMMA SiblingIs ==
  ASSUME NEW t \in Tree, NEW S, NEW m, NEW pos, NEW q \in S, NEW s \in Side,
         Sound(t, S, m, pos, <<q, s>>, NIL), NEW sib, sib = t.kid[q][Other(s)]
  PROVE  /\ sib \in S /\ sib # q /\ t.par[sib] = q
         /\ Apart(t, sib, q, t.kid[sib][s])
         /\ IsRed(t, sib) => t.kid[sib][s] \in S
         /\ t.kid[sib][Other(s)] \notin {sib, q}
         /\ t.kid[sib][Other(s)] # NIL => t.kid[sib][s] # t.kid[sib][Other(s)]
<1>1. PICK lo, hi, h : /\ Ordered(t, S, m, pos, lo, hi)
                       /\ Balanced(t, S, h, <<q, s>>) /\ RedsApart(t, S, NIL)
  BY DEF Sound
<1>2. sib \in S /\ sib # q /\ (t.color[sib] = "red" => t.kid[sib][s] \in S)
  BY <1>1, SiblingFacts
<1>3. Other(s) \in Side /\ Other(Other(s)) = s
  BY SideFacts
<1>4. Apart(t, sib, q, t.kid[sib][s])
  <2>1. Apart(t, sib, q, t.kid[sib][Other(Other(s))])
    BY <1>1, <1>2, <1>3, ApartIs
  <2> QED
    BY <2>1, <1>3
<1>5. t.par[sib] = q
  <2>1. t.kid[q][Other(s)] # NIL => t.par[t.kid[q][Other(s)]] = q
    BY <1>1, <1>3, OrderedFacts
  <2>2. sib # NIL
    BY <1>1, <1>2, TreeFields DEF Ordered, Placed
  <2> QED
    BY <2>1, <2>2
<1>6. /\ t.kid[sib][Other(s)] # sib
      /\ t.kid[sib][Other(s)] # NIL => /\ t.kid[sib][Other(s)] # t.par[sib]
                                       /\ t.kid[sib][Other(Other(s))] # t.kid[sib][Other(s)]
  BY <1>1, <1>2, <1>3, OrderedFacts
<1>7. q # NIL
  BY <1>1, TreeFields DEF Ordered, Placed
<1> QED
  BY <1>2, <1>3, <1>4, <1>5, <1>6, <1>7 DEF IsRed

\* A red sibling has a black parent.
LEMMA RedSiblingBlackParent ==
  ASSUME NEW t \in Tree, NEW S, NEW m, NEW pos, NEW q \in S, NEW s \in Side,
         Sound(t, S, m, pos, <<q, s>>, NIL), NEW sib, sib = t.kid[q][Other(s)],
         IsRed(t, sib)
  PROVE  IsBlack(t, q)
<1>1. PICK lo, hi, h : /\ Ordered(t, S, m, pos, lo, hi)
                       /\ Balanced(t, S, h, <<q, s>>) /\ RedsApart(t, S, NIL)
  BY DEF Sound
<1>2. t.color[sib] = "red"
  BY DEF IsRed
<1>3. t.color[q] = "black"
  BY <1>1, <1>2, SiblingFacts
<1> QED
  BY <1>3 DEF IsBlack, IsRed

\* An erasure goes on at the same place, whose parent is red now.
ErasePaints == phase' = "erase" /\ parent' = parent /\ IsRed(tree', parent)

LEMMA EraseRedSiblingKeeps ==
  ASSUME NEW S, NEW m, NEW pos, Loop(S, m, pos), NEW s \in Side, EraseRedSibling(s)
  PROVE  Loop(S, m, pos)' /\ IsBlack(tree, parent) /\ ErasePaints
<1>1. PICK t, q, sib, tmp, u : /\ t = tree /\ q = parent /\ sib = t.kid[q][Other(s)]
                               /\ tmp = t.kid[sib][s] /\ u = tree'
  OBVIOUS
<1>2. /\ DoubleBlack(s) /\ IsRed(t, sib)
      /\ u = __rb_rotate_set_parents(
               rb_set_parent_color(SetKid(SetKid(t, q, Other(s), tmp), sib, s, q),
                                   tmp, q, "black"), q, sib, "red")
      /\ phase' = phase /\ node' = node /\ parent' = q
  BY <1>1 DEF EraseRedSibling, Sibling, Kid
<1>3. /\ q \in S /\ t \in Tree /\ phase = "erase"
      /\ t.kid[q][s] = node /\ IsBlack(t, node) /\ Sound(t, S, m, pos, <<q, s>>, NIL)
  <2>1. /\ parent \in S /\ tree \in Tree /\ phase = "erase"
        /\ tree.kid[parent][s] = node /\ IsBlack(tree, node)
        /\ Sound(tree, S, m, pos, <<parent, s>>, NIL)
    BY <1>2, EraseLoop
  <2> QED
    BY <2>1, <1>1
<1>4. tmp \in S /\ Apart(t, sib, q, tmp)
  <2>1. sib = t.kid[q][Other(s)] /\ tmp = t.kid[sib][s]
    BY <1>1
  <2>2. q \in S /\ t \in Tree /\ Sound(t, S, m, pos, <<q, s>>, NIL) /\ IsRed(t, sib)
    BY <1>2, <1>3
  <2>3. /\ Apart(t, sib, q, t.kid[sib][s])
        /\ IsRed(t, sib) => t.kid[sib][s] \in S
    BY <2>1, <2>2, SiblingIs
  <2> QED
    BY <2>1, <2>2, <2>3
<1>5. tmp # NIL
  BY <1>3, <1>4, TreeFields DEF Sound, Ordered, Placed
<1>6. Other(s) \in Side /\ Other(Other(s)) = s
  BY SideFacts
<1>7. u = RotateUp(t, sib, q, Other(s))
  BY <1>1, <1>2, <1>5, <1>6 DEF RotateUp, Blacken, Kid
<1>8. Raised(t, u, sib, q, Other(s), "red", NIL, tmp)
  BY <1>1, <1>3, <1>4, <1>6, <1>7, RotateUpIs
<1>9. /\ Sound(u, S, m, pos, <<q, s>>, NIL)
      /\ u.kid[q][s] = t.kid[q][s] /\ IsBlack(u, u.kid[q][s])
  <2>1. IsBlack(t, t.kid[q][s]) /\ IsRed(t, sib) /\ sib = t.kid[q][Other(s)]
    BY <1>1, <1>2, <1>3
  <2>2. Raised(t, u, sib, q, Other(s), "red", NIL, t.kid[sib][s])
    BY <1>1, <1>8
  <2>3. q \in S /\ t \in Tree /\ Sound(t, S, m, pos, <<q, s>>, NIL)
    BY <1>3
  <2> QED
    BY <2>1, <2>2, <2>3, EraseRedSiblingIs
<1>10. Loop(S, m, pos)'
  BY <1>1, <1>2, <1>3, <1>9 DEF Loop, Working
<1>11. IsRed(u, q) /\ IsBlack(t, q)
  <2>1. q \in Node /\ q # NIL /\ q # sib /\ q # tmp
    BY <1>3, <1>4, TreeFields DEF Sound, Ordered, Placed, Apart
  <2>2. u.color[q] = "red"
    BY <2>1, <1>8 DEF Raised
  <2>3. IsBlack(t, q)
    BY <1>1, <1>2, <1>3, RedSiblingBlackParent
  <2> QED
    BY <2>1, <2>2, <2>3 DEF IsRed
<1>12. phase' = "erase" /\ parent' = parent /\ IsRed(tree', parent) /\ IsBlack(tree, parent)
  BY <1>1, <1>2, <1>3, <1>11
<1> QED
  BY <1>10, <1>12 DEF ErasePaints

LEMMA EraseRotateKeeps ==
  ASSUME NEW S, NEW m, NEW pos, Loop(S, m, pos), NEW s \in Side, EraseRotate(s)
  PROVE  Loop(S, m, pos)'
<1>1. PICK t, q, sib, o, i, u : /\ t = tree /\ q = parent /\ sib = t.kid[q][Other(s)]
                                /\ o = t.kid[sib][Other(s)] /\ i = t.kid[sib][s]
                                /\ u = tree'
  OBVIOUS
<1>2. /\ DoubleBlack(s) /\ IsBlack(t, sib) /\ (IsRed(t, o) \/ IsRed(t, i)) /\ Stop
      /\ u = IF IsRed(t, o) THEN RotateSibling(t, sib, o, s)
             ELSE RotateSibling(RotateInner(t, sib, i, s), i, sib, s)
  BY <1>1 DEF EraseRotate, Sibling, Kid
<1>3. /\ q \in S /\ t \in Tree
      /\ IsBlack(t, t.kid[q][s]) /\ Sound(t, S, m, pos, <<q, s>>, NIL)
  BY <1>1, <1>2, EraseLoop
<1>4. /\ sib \in S /\ Apart(t, sib, q, i) /\ o \notin {sib, q} /\ (o # NIL => i # o)
  BY <1>1, <1>3, SiblingIs
<1>5. Sound(u, S, m, pos, NoGap, NIL)
  <2>1. CASE IsRed(t, o)
    <3>1. o \notin {sib, parent, i} /\ o \in Node
      <4>1. o \in Ptr
        BY <1>1, <1>3, <1>4, TreeFields, SideFacts DEF Sound, Ordered, Placed
      <4> QED
        BY <4>1, <2>1, <1>1, <1>4 DEF IsRed, Ptr
    <3>2. Raised(t, u, sib, q, Other(s), "black", o, o)
      BY <2>1, <3>1, <1>1, <1>2, <1>3, <1>4, RotateSiblingIs
    <3> QED
      BY <2>1, <3>2, <1>1, <1>2, <1>3, EraseOuterIs
  <2>2. CASE ~IsRed(t, o)
    <3>1. InnerRed(t, q, s, sib, i)
      BY <2>2, <1>1, <1>2, <1>3 DEF InnerRed, IsBlack
    <3> QED
      BY <2>2, <3>1, <1>1, <1>2, <1>3, EraseInnerIs
  <2> QED
    BY <2>1, <2>2
<1> QED
  BY <1>1, <1>2, <1>5, StopIs

\* An erasure goes on one level up, in the same tree but for colours.
EraseClimbs(S) ==
  /\ SamePointers(tree, tree') /\ IsBlack(tree, parent) /\ phase' = "erase"
  /\ parent \in S /\ parent' = tree.par[parent] /\ parent' \in S

LEMMA EraseRecolorKeeps ==
  ASSUME NEW S, NEW m, NEW pos, Loop(S, m, pos), NEW s \in Side, EraseRecolor(s)
  PROVE  Loop(S, m, pos)' /\ (Stop \/ EraseClimbs(S))
<1>1. PICK t, q, sib, u, v : /\ t = tree /\ q = parent /\ sib = t.kid[q][Other(s)]
                             /\ u = tree' /\ v = rb_set_parent_color(t, sib, q, "red")
  OBVIOUS
<1>2. /\ DoubleBlack(s) /\ IsBlack(t, sib)
      /\ \A y \in Side : IsBlack(t, t.kid[sib][y])
      /\ IF IsRed(t, q) THEN u = [v EXCEPT !.color[q] = "black"] /\ Stop
         ELSE /\ u = v
              /\ IF t.par[q] = NIL THEN Stop
                 ELSE node' = q /\ parent' = t.par[q] /\ phase' = phase
  BY <1>1 DEF EraseRecolor, Sibling, Kid
<1>3. /\ q \in S /\ t \in Tree /\ phase = "erase" /\ Sound(t, S, m, pos, <<q, s>>, NIL)
  BY <1>1, <1>2, EraseLoop
<1>4. sib \in S /\ sib # q /\ t.par[sib] = q
  BY <1>1, <1>3, SiblingIs
<1>5. PICK lo, hi : Ordered(t, S, m, pos, lo, hi)
  BY <1>3 DEF Sound
<1>6. S \subseteq Node /\ NIL \notin S /\ sib \in Node /\ q \in Node /\ q \in Ptr
  BY <1>3, <1>4, <1>5, TreeFields DEF Ordered, Placed, Ptr
<1>7. ParColorSet(t, v, sib, q, "red")
  BY <1>1, <1>3, <1>6, SetParColorIs
<1>8. /\ v \in Tree /\ v.root = t.root /\ v.kid = t.kid /\ v.par = t.par
      /\ \A x \in Node : v.color[x] = IF x = sib THEN "red" ELSE t.color[x]
  <2>1. \A x \in Node : v.par[x] = t.par[x]
    BY <1>4, <1>7 DEF ParColorSet
  <2>2. v.par \in [Node -> Ptr] /\ t.par \in [Node -> Ptr]
    BY <1>3, <1>7 DEF ParColorSet, Tree, Ptr
  <2>3. v.par = t.par
    BY <2>1, <2>2
  <2> QED
    BY <2>3, <1>7 DEF ParColorSet
<1>9. Recolored(t, u, q, sib)
  <2>1. CASE IsRed(t, q)
    <3>1. u = [v EXCEPT !.color[q] = "black"]
      BY <2>1, <1>2
    <3>2. /\ u \in Tree /\ u.root = v.root /\ u.kid = v.kid /\ u.par = v.par
          /\ \A x \in Node : u.color[x] = IF x = q THEN "black" ELSE v.color[x]
      BY <3>1, <1>6, <1>8 DEF Tree
    <3> QED
      BY <3>2, <1>4, <1>8 DEF Recolored
  <2>2. CASE ~IsRed(t, q)
    <3>1. u = v /\ t.color[q] = "black"
      BY <2>2, <1>2, <1>3, <1>6, TreeFields DEF IsRed
    <3> QED
      BY <3>1, <1>4, <1>8 DEF Recolored
  <2> QED
    BY <2>1, <2>2
<1>10. ASSUME NEW gap, GapAbove(t, q, gap) PROVE Sound(u, S, m, pos, gap, NIL)
  BY <1>1, <1>2, <1>3, <1>9, <1>10, EraseRecolorIs
<1>11. CASE IsRed(t, q) \/ t.par[q] = NIL
  <2>1. Sound(u, S, m, pos, NoGap, NIL)
    BY <1>10, <1>11 DEF GapAbove
  <2>2. Stop
    BY <1>2, <1>11
  <2> QED
    BY <2>1, <2>2, <1>1, StopIs
<1>12. CASE ~IsRed(t, q) /\ t.par[q] # NIL
  <2>1. PICK a : a = t.par[q]
    OBVIOUS
  <2>2. a \in S
    BY <2>1, <1>3, <1>5, <1>12, OrderedFacts
  <2>3. PICK y \in Side : t.kid[a][y] = q
    BY <2>1, <1>3, <1>5, <1>12 DEF Ordered, Hung
  <2>4. GapAbove(t, q, <<a, y>>)
    BY <2>1, <2>3, <1>12 DEF GapAbove, IsBlack
  <2>5. Sound(u, S, m, pos, <<a, y>>, NIL)
    BY <2>4, <1>10
  <2>6. u.kid[a][y] = q /\ IsBlack(u, q)
    BY <2>3, <1>4, <1>6, <1>9 DEF Recolored, IsBlack, IsRed
  <2>7. node' = q /\ parent' = a /\ phase' = "erase"
    BY <2>1, <1>2, <1>3, <1>12
  <2>8. Loop(S, m, pos)'
    BY <2>2, <2>5, <2>6, <2>7, <1>1 DEF Loop, Working
  <2>9. SamePointers(t, u)
    BY <1>9 DEF Recolored, SamePointers
  <2>10. EraseClimbs(S)
    BY <2>1, <2>2, <2>7, <2>9, <1>1, <1>3, <1>12 DEF EraseClimbs, IsBlack
  <2> QED
    BY <2>8, <2>10
<1> QED
  BY <1>11, <1>12

-----------------------------------------------------------------------------
(* The operations *)

\* The cached leftmost node l has the first place.
First(l, S, m, pos) == IF m = 0 THEN l = NIL ELSE l \in S /\ pos[l] = 1

\* The nodes S are in the tree with the places pos, and the cache knows.
View(S, m, pos) == Loop(S, m, pos) /\ First(leftmost, S, m, pos)

LEMMA SoundFacts ==
  ASSUME NEW t, NEW S, NEW m, NEW pos, NEW gap, NEW extra,
         Sound(t, S, m, pos, gap, extra)
  PROVE  /\ t \in Tree /\ NodesOf(t) = S /\ InOrder(t) = Sequence(S, m, pos)
         /\ Placed(S, m, pos) /\ S \subseteq Node /\ NIL \notin S /\ m \in Nat
<1>1. PICK lo, hi : Ordered(t, S, m, pos, lo, hi) /\ t \in Tree
  BY DEF Sound
<1>2. NodesOf(t) = S
  BY <1>1, NodesAre
<1>3. InOrder(t) = Sequence(S, m, pos)
  BY <1>1, InOrderIs
<1>4. Placed(S, m, pos)
  BY <1>1 DEF Ordered
<1>5. S \subseteq Node /\ NIL \notin S /\ m \in Nat
  BY <1>1, <1>4, TreeFields DEF Placed
<1> QED
  BY <1>1, <1>2, <1>3, <1>4, <1>5

LEMMA WorkingSound ==
  ASSUME NEW t, NEW ph, NEW n, NEW p, NEW S, NEW m, NEW pos,
         Working(t, ph, n, p, S, m, pos)
  PROVE  \E gap, extra : Sound(t, S, m, pos, gap, extra)
BY DEF Working

LEMMA FirstIsHead ==
  ASSUME NEW S, NEW m, NEW pos, Placed(S, m, pos), NEW l, First(l, S, m, pos),
         NEW q, q = Sequence(S, m, pos)
  PROVE  l = IF q = << >> THEN NIL ELSE Head(q)
<1>1. /\ q \in Seq(S) /\ Len(q) = m /\ m \in Nat
      /\ \A x \in S : pos[x] \in 1 .. m /\ q[pos[x]] = x
  BY SequenceIs
<1>2. CASE m = 0
  BY <1>1, <1>2 DEF First
<1>3. CASE m # 0
  <2>1. l \in S /\ pos[l] = 1
    BY <1>3 DEF First
  <2>2. q[1] = l
    BY <2>1, <1>1
  <2>3. q # << >> /\ Head(q) = q[1]
    BY <1>1, <1>3
  <2> QED
    BY <2>2, <2>3
<1> QED
  BY <1>2, <1>3

\* The first place below p is free exactly when the descent never went right.
LEMMA LeftmostLinkIs ==
  ASSUME NEW S, NEW m, NEW pos, Sound(tree, S, m, pos, NoGap, NIL),
         NEW p \in S, NEW s \in Side, NEW at, at = PlaceBelow(pos, p, s)
  PROVE  LeftmostLink(p, s) <=> at = 1
<1>1. PICK lo, hi : Ordered(tree, S, m, pos, lo, hi) /\ tree \in Tree
  BY DEF Sound
<1>2. NIL \notin S /\ pos[p] \in 1 .. m /\ m \in Nat
      /\ \A x, y \in S : pos[x] = pos[y] => x = y
  BY <1>1, TreeFields DEF Ordered, Placed
<1>3. tree.root \in S /\ lo[tree.root] = 1
  BY <1>1, <1>2 DEF Ordered, Rooted
<1>4. PICK e : e = Farthest(tree, tree.root, "left")
  OBVIOUS
<1>5. e \in S /\ pos[e] = 1
  <2>1. e \in S /\ pos[e] = lo[tree.root]
    BY <1>1, <1>3, <1>4, FarthestIs
  <2> QED
    BY <2>1, <1>3
<1>6. LeftmostLink(p, s) <=> s = "left" /\ p = e
  BY <1>2, <1>4 DEF LeftmostLink
<1>7. CASE s = "left"
  <2>1. at = pos[p]
    BY <1>7 DEF PlaceBelow
  <2> QED
    BY <2>1, <1>2, <1>5, <1>6, <1>7
<1>8. CASE s # "left"
  <2>1. at = pos[p] + 1
    BY <1>8 DEF PlaceBelow
  <2> QED
    BY <2>1, <1>2, <1>6, <1>8
<1> QED
  BY <1>7, <1>8

\* A link puts its node at some place of the order.
LEMMA LinkKeeps ==
  ASSUME NEW S, NEW m, NEW pos, View(S, m, pos), NEW n \in Node, n \notin S,
         NEW p \in S \cup {NIL}, NEW s \in Side, Link(n, p, s)
  PROVE  \E at \in 1 .. m + 1 : View(S \cup {n}, m + 1, LinkedPos(pos, S, n, at))'
<1>1. PICK t, u : t = tree /\ u = tree'
  OBVIOUS
<1>2. PICK blank : blank = [t EXCEPT !.kid[n] = [x \in Side |-> NIL],
                                     !.par[n] = p, !.color[n] = "red"]
  OBVIOUS
<1>3. /\ phase = "idle"
      /\ IF p = NIL THEN t.root = NIL ELSE t.kid[p][s] = NIL
      /\ u = IF p = NIL THEN [blank EXCEPT !.root = n] ELSE SetKid(blank, p, s, n)
      /\ leftmost' = IF LeftmostLink(p, s) THEN n ELSE leftmost
      /\ phase' = "insert" /\ node' = n /\ parent' = p
  BY <1>1, <1>2 DEF Link, Kid
<1>4. Sound(t, S, m, pos, NoGap, NIL) /\ First(leftmost, S, m, pos)
  BY <1>1, <1>3 DEF View, Loop, Working
<1>5. t \in Tree /\ S \subseteq Node /\ NIL \notin S /\ m \in Nat /\ Placed(S, m, pos)
  BY <1>4, SoundFacts
<1>6. p \in Ptr /\ n \in Ptr /\ NIL \notin Node /\ p # n
  BY <1>5, TreeFields DEF Ptr
<1>7. /\ blank \in Tree /\ blank.root = t.root
      /\ \A x \in Node, y \in Side : blank.kid[x][y] = IF x = n THEN NIL ELSE t.kid[x][y]
      /\ \A x \in Node : /\ blank.par[x] = IF x = n THEN p ELSE t.par[x]
                         /\ blank.color[x] = IF x = n THEN "red" ELSE t.color[x]
  BY <1>2, <1>5, <1>6 DEF Tree, Ptr
<1>8. /\ Linked(t, u, n, p, s)
      /\ \A x \in Node : u.color[x] = IF x = n THEN "red" ELSE t.color[x]
  <2>1. CASE p = NIL
    <3>1. u = [blank EXCEPT !.root = n]
      BY <2>1, <1>3
    <3>2. u \in Tree /\ u.root = n /\ u.kid = blank.kid /\ u.par = blank.par
          /\ u.color = blank.color
      BY <3>1, <1>7 DEF Tree
    <3>3. \A x \in Node : x # p
      BY <2>1, <1>6
    <3> QED
      BY <2>1, <3>2, <3>3, <1>7 DEF Linked
  <2>2. CASE p # NIL
    <3>1. u = SetKid(blank, p, s, n) /\ p \in Node
      BY <2>2, <1>3, <1>5
    <3>2. KidSet(blank, u, p, s, n)
      BY <3>1, <1>6, <1>7, SetKidIs
    <3> QED
      BY <2>2, <3>2, <1>6, <1>7 DEF KidSet, Linked
  <2> QED
    BY <2>1, <2>2
<1>9. PICK at \in 1 .. m + 1 :
        /\ Sound(u, S \cup {n}, m + 1, LinkedPos(pos, S, n, at), NoGap, n)
        /\ LeftmostLink(p, s) <=> at = 1
  <2>1. CASE p = NIL
    <3>1. t.root = NIL
      BY <2>1, <1>3
    <3>2. Linked(t, u, n, NIL, s) /\ u.color[n] = "red"
      BY <2>1, <1>8
    <3>3. Sound(u, S \cup {n}, m + 1, LinkedPos(pos, S, n, 1), NoGap, n)
      BY <3>1, <3>2, <1>4, <1>5, LinkRootIs
    <3>4. LeftmostLink(p, s) /\ 1 \in 1 .. m + 1
      BY <2>1, <1>5 DEF LeftmostLink
    <3> QED
      BY <3>3, <3>4
  <2>2. CASE p # NIL
    <3>1. p \in S /\ t.kid[p][s] = NIL
      BY <2>2, <1>3
    <3>2. PICK at : at = PlaceBelow(pos, p, s)
      OBVIOUS
    <3>3. /\ Sound(u, S \cup {n}, m + 1, LinkedPos(pos, S, n, at), NoGap, n)
          /\ at \in 1 .. m + 1
      BY <3>1, <3>2, <1>4, <1>5, <1>8, LinkIs
    <3>4. LeftmostLink(p, s) <=> at = 1
      BY <3>1, <3>2, <1>1, <1>4, LeftmostLinkIs
    <3> QED
      BY <3>3, <3>4
  <2> QED
    BY <2>1, <2>2
<1>10. PICK pos2 : pos2 = LinkedPos(pos, S, n, at)
  OBVIOUS
<1>11. Working(u, "insert", n, p, S \cup {n}, m + 1, pos2)
  <2>1. IsRed(u, n) /\ p = u.par[n]
    BY <1>6, <1>8 DEF Linked, IsRed
  <2> QED
    BY <2>1, <1>9, <1>10 DEF Working
<1>12. First(leftmost', S \cup {n}, m + 1, pos2)
  <2>1. m + 1 # 0
    BY <1>5
  <2>2. CASE at = 1
    <3>1. leftmost' = n /\ pos2[n] = 1
      BY <2>2, <1>3, <1>9, <1>10 DEF LinkedPos
    <3> QED
      BY <2>1, <3>1 DEF First
  <2>3. CASE at # 1
    <3>1. leftmost' = leftmost /\ m # 0 /\ at > 1
      BY <2>3, <1>3, <1>5, <1>9
    <3>2. leftmost \in S /\ pos[leftmost] = 1
      BY <3>1, <1>4 DEF First
    <3>3. pos2[leftmost] = OneLater(pos[leftmost], at)
      BY <3>2, <1>10 DEF LinkedPos
    <3>4. pos2[leftmost] = 1
      BY <3>1, <3>2, <3>3, <1>9 DEF OneLater
    <3> QED
      BY <2>1, <3>1, <3>2, <3>4 DEF First
  <2> QED
    BY <2>2, <2>3
<1>13. View(S \cup {n}, m + 1, pos2)'
  BY <1>1, <1>3, <1>11, <1>12 DEF View, Loop
<1> QED
  BY <1>10, <1>13

\* An erasure takes its node out, and the second node is next when it was first.
LEMMA UnlinkKeeps ==
  ASSUME NEW S, NEW m, NEW pos, View(S, m, pos), NEW n \in S, Unlink(n)
  PROVE  View(S \ {n}, m - 1, LessPos(pos, S \ {n}, pos[n]))'
<1>1. PICK t, e : /\ t = tree
                  /\ e = IF \A s \in Side : t.kid[n][s] # NIL THEN Replace(t, n)
                                                              ELSE Splice(t, n)
  OBVIOUS
<1>2. /\ phase = "idle"
      /\ leftmost' = IF leftmost = n THEN rb_next(t, n) ELSE leftmost
      /\ tree' = e.tree /\ node' = NIL /\ parent' = e.rebalance
      /\ phase' = IF e.rebalance = NIL THEN "idle" ELSE "erase"
  BY <1>1 DEF Unlink, Kid
<1>3. Sound(t, S, m, pos, NoGap, NIL) /\ First(leftmost, S, m, pos)
  BY <1>1, <1>2 DEF View, Loop, Working
<1>4. PICK lo, hi : t \in Tree /\ Ordered(t, S, m, pos, lo, hi)
  BY <1>3 DEF Sound
<1>5. /\ NIL \notin S /\ m \in Nat /\ pos[n] \in 1 .. m
      /\ \A x \in S : pos[x] \in 1 .. m
      /\ \A x, y \in S : pos[x] = pos[y] => x = y
  BY <1>4, TreeFields DEF Ordered, Placed
<1>6. PICK pos2, m2 : pos2 = LessPos(pos, S \ {n}, pos[n]) /\ m2 = m - 1
  OBVIOUS
<1>7. Erased(e, S \ {n}, m2, pos2)
  <2>1. CASE \A s \in Side : t.kid[n][s] # NIL
    <3>1. t.kid[n]["left"] # NIL /\ t.kid[n]["right"] # NIL
      BY <2>1 DEF Side
    <3>2. e = Replace(t, n)
      BY <2>1, <1>1
    <3> QED
      BY <3>1, <3>2, <1>3, <1>4, <1>6, ReplaceIs
  <2>2. CASE ~(\A s \in Side : t.kid[n][s] # NIL)
    <3>1. PICK z \in Side : t.kid[n][z] = NIL
      BY <2>2
    <3>2. e = Splice(t, n)
      BY <2>2, <1>1
    <3> QED
      BY <3>1, <3>2, <1>3, <1>4, <1>6, SpliceIs
  <2> QED
    BY <2>1, <2>2
<1>8. Working(e.tree, phase', NIL, e.rebalance, S \ {n}, m2, pos2)
  <2>1. CASE e.rebalance = NIL
    BY <2>1, <1>2, <1>7 DEF Erased, Working
  <2>2. CASE e.rebalance # NIL
    <3>1. IsBlack(e.tree, NIL)
      BY DEF IsBlack, IsRed
    <3> QED
      BY <2>2, <3>1, <1>2, <1>7 DEF Erased, Working
  <2> QED
    BY <2>1, <2>2
<1>9. \A x \in S \ {n} : pos2[x] = OneEarlier(pos[x], pos[n])
  BY <1>6 DEF LessPos
<1>10. First(leftmost', S \ {n}, m2, pos2)
  <2>1. leftmost \in S /\ pos[leftmost] = 1
    BY <1>3, <1>5 DEF First
  <2>2. CASE leftmost = n
    <3>1. IF m = 1 THEN leftmost' = NIL ELSE leftmost' \in S /\ pos[leftmost'] = 2
      BY <2>1, <2>2, <1>2, <1>4, NextOfFirst
    <3>2. CASE m = 1
      BY <3>1, <3>2, <1>6 DEF First
    <3>3. CASE m # 1
      <4>1. leftmost' \in S \ {n} /\ pos[leftmost'] = 2 /\ pos[n] = 1
        BY <2>1, <2>2, <3>1, <3>3
      <4>2. pos2[leftmost'] = 1
        BY <4>1, <1>9 DEF OneEarlier
      <4>3. m2 # 0
        BY <3>3, <1>5, <1>6
      <4> QED
        BY <4>1, <4>2, <4>3 DEF First
    <3> QED
      BY <3>2, <3>3
  <2>3. CASE leftmost # n
    <3>1. leftmost' = leftmost /\ leftmost \in S \ {n} /\ pos[n] # 1
      BY <2>1, <2>3, <1>2, <1>5
    <3>2. pos[n] > 1 /\ m2 # 0
      BY <3>1, <1>5, <1>6
    <3>3. pos2[leftmost] = 1
      BY <2>1, <3>1, <3>2, <1>5, <1>9 DEF OneEarlier
    <3> QED
      BY <3>1, <3>2, <3>3 DEF First
  <2> QED
    BY <2>2, <2>3
<1>11. View(S \ {n}, m2, pos2)'
  BY <1>2, <1>8, <1>10 DEF View, Loop
<1> QED
  BY <1>6, <1>11

\* No case of a loop loses a node or moves one.
LEMMA RebalanceKeeps ==
  ASSUME NEW S, NEW m, NEW pos, View(S, m, pos), Rebalance
  PROVE  View(S, m, pos)' /\ leftmost' = leftmost
<1>1. Loop(S, m, pos) /\ First(leftmost, S, m, pos)
  BY DEF View
<1>2. Loop(S, m, pos)'
  <2>1. CASE InsertRoot
    BY <2>1, <1>1, InsertRootKeeps
  <2>2. CASE InsertBelowBlack
    BY <2>2, <1>1, InsertBelowBlackKeeps
  <2>3. ASSUME NEW s \in Side, InsertRecolor(s) PROVE Loop(S, m, pos)'
    BY <2>3, <1>1, InsertRecolorKeeps
  <2>4. ASSUME NEW s \in Side, InsertRotate(s) PROVE Loop(S, m, pos)'
    BY <2>4, <1>1, InsertRotateKeeps
  <2>5. ASSUME NEW s \in Side, EraseRedSibling(s) PROVE Loop(S, m, pos)'
    BY <2>5, <1>1, EraseRedSiblingKeeps
  <2>6. ASSUME NEW s \in Side, EraseRecolor(s) PROVE Loop(S, m, pos)'
    BY <2>6, <1>1, EraseRecolorKeeps
  <2>7. ASSUME NEW s \in Side, EraseRotate(s) PROVE Loop(S, m, pos)'
    BY <2>7, <1>1, EraseRotateKeeps
  <2> QED
    BY <2>1, <2>2, <2>3, <2>4, <2>5, <2>6, <2>7 DEF Rebalance
<1>3. leftmost' = leftmost
  BY DEF Rebalance, InsertRoot, InsertBelowBlack, InsertRecolor, InsertRotate,
         EraseRedSibling, EraseRecolor, EraseRotate
<1> QED
  BY <1>1, <1>2, <1>3 DEF View

-----------------------------------------------------------------------------
(* The loops end *)

LEMMA UpperIn ==
  ASSUME NEW t, NEW S, NEW m, NEW pos, NEW gap, NEW extra,
         Sound(t, S, m, pos, gap, extra), NEW f, f = Upper(t),
         NEW N, N = Cardinality(Node)
  PROVE  \A d \in 0 .. N : f[d] \subseteq S
<1>1. PICK lo, hi : Ordered(t, S, m, pos, lo, hi) /\ t \in Tree
  BY DEF Sound
<1>2. /\ N \in Nat /\ f[0] = {}
      /\ \A n \in Nat : n + 1 <= N => f[n + 1] = NextLevel(t, f[n])
  BY UpperIs
<1> DEFINE G == {n \in Nat : n <= N => f[n] \subseteq S}
<1>3. 0 \in G
  BY <1>2
<1>4. ASSUME NEW n \in G PROVE n + 1 \in G
  <2>1. SUFFICES ASSUME n + 1 <= N PROVE f[n + 1] \subseteq S
    OBVIOUS
  <2>2. f[n] \subseteq S /\ f[n + 1] = NextLevel(t, f[n])
    BY <1>2, <2>1
  <2>3. \A x \in S, s \in Side : Kid(t, x, s) \in S \cup {NIL}
    BY <1>1, OrderedFacts DEF Kid
  <2>4. t.root \in S \cup {NIL}
    BY <1>1 DEF Ordered, Rooted
  <2> QED
    BY <2>2, <2>3, <2>4 DEF NextLevel
<1> HIDE DEF G
<1>5. G = Nat
  <2>1. G \in SUBSET Nat
    BY DEF G
  <2> QED
    BY <1>3, <1>4, <2>1, InductNat
<1>6. ASSUME NEW d \in 0 .. N PROVE f[d] \subseteq S
  <2>1. d \in Nat /\ d <= N
    BY <1>2, <1>6
  <2> QED
    BY <2>1, <1>5 DEF G
<1> QED
  BY <1>6

\* A node is one level or more below its parent.
LEMMA LevelIs ==
  ASSUME NEW t, NEW S, NEW m, NEW pos, NEW gap, NEW extra,
         Sound(t, S, m, pos, gap, extra), NEW x \in S
  PROVE  /\ Level(t, x) \in Nat /\ Level(t, x) >= 1
         /\ t.par[x] # NIL => t.par[x] \in S /\ Level(t, t.par[x]) < Level(t, x)
<1>1. PICK lo, hi : Ordered(t, S, m, pos, lo, hi) /\ t \in Tree
  BY DEF Sound
<1>2. PICK f, N : f = Upper(t) /\ N = Cardinality(Node)
  OBVIOUS
<1>3. /\ N \in Nat /\ f[0] = {}
      /\ \A n \in Nat : n + 1 <= N => f[n + 1] = NextLevel(t, f[n])
  BY <1>2, UpperIs
<1>4. \A d \in 0 .. N : f[d] \subseteq S
  BY <1>2, UpperIn
<1>5. f[N] = S
  <2>1. NodesOf(t) = S
    BY SoundFacts
  <2> QED
    BY <2>1, <1>2 DEF NodesOf
<1>6. ASSUME NEW z \in S
      PROVE  /\ Level(t, z) \in 0 .. N /\ z \in f[Level(t, z)]
             /\ \A d \in 0 .. N : z \in f[d] => Level(t, z) <= d
  <2> DEFINE D == {d \in 0 .. N : z \in f[d]}
  <2>1. D \in SUBSET Nat /\ N \in D
    BY <1>3, <1>5, <1>6
  <2>2. PICK least \in D : \A d \in D : least <= d
    BY <2>1, LeastNat
  <2>3. Level(t, z) = Min(D)
    BY <1>2 DEF Level
  <2> HIDE DEF D
  <2>4. Min(D) \in D /\ \A d \in D : Min(D) <= d
    BY <2>2 DEF Min
  <2> QED
    BY <2>3, <2>4 DEF D
<1>7. PICK l : l = Level(t, x)
  OBVIOUS
<1>8. l \in 0 .. N /\ x \in f[l] /\ l # 0
  BY <1>3, <1>6, <1>7
<1>9. l - 1 \in Nat /\ (l - 1) + 1 = l /\ l <= N /\ l - 1 \in 0 .. N
  BY <1>3, <1>8
<1>10. x \in NextLevel(t, f[l - 1])
  BY <1>3, <1>8, <1>9
<1>11. ASSUME NEW p, p = t.par[x], p # NIL
       PROVE  p \in S /\ Level(t, p) < l
  <2>1. x # t.root /\ p \in S
    BY <1>1, <1>11, OrderedFacts
  <2>2. PICK y \in f[l - 1], s \in Side : x = t.kid[y][s] /\ x # NIL
    BY <2>1, <1>10 DEF NextLevel, Kid
  <2>3. y \in S
    BY <2>2, <1>4, <1>9
  <2>4. t.par[x] = y
    BY <2>2, <2>3, <1>1, OrderedFacts
  <2>5. Level(t, p) <= l - 1 /\ Level(t, p) \in 0 .. N
    BY <2>1, <2>2, <2>4, <1>6, <1>9, <1>11
  <2> QED
    BY <2>1, <2>5, <1>3, <1>8
<1> QED
  BY <1>3, <1>7, <1>8, <1>11

\* Colours do not move a node to another level.
LEMMA LevelStays ==
  ASSUME NEW t, NEW u, SamePointers(t, u), NEW x
  PROVE  Level(u, x) = Level(t, x)
<1>1. PICK f, g, N : f = Upper(t) /\ g = Upper(u) /\ N = Cardinality(Node)
  OBVIOUS
<1>2. /\ N \in Nat /\ f[0] = {} /\ g[0] = {}
      /\ \A n \in Nat : n + 1 <= N => /\ f[n + 1] = NextLevel(t, f[n])
                                      /\ g[n + 1] = NextLevel(u, g[n])
  BY <1>1, UpperIs
<1>3. \A A : NextLevel(u, A) = NextLevel(t, A)
  BY DEF NextLevel, Kid, SamePointers
<1> DEFINE G == {n \in Nat : n <= N => f[n] = g[n]}
<1>4. 0 \in G
  BY <1>2
<1>5. ASSUME NEW n \in G PROVE n + 1 \in G
  BY <1>2, <1>3
<1> HIDE DEF G
<1>6. G = Nat
  <2>1. G \in SUBSET Nat
    BY DEF G
  <2> QED
    BY <1>4, <1>5, <2>1, InductNat
<1>7. \A d \in 0 .. N : f[d] = g[d]
  BY <1>2, <1>6 DEF G
<1>8. {d \in 0 .. N : x \in f[d]} = {d \in 0 .. N : x \in g[d]}
  BY <1>7
<1> QED
  BY <1>1, <1>8 DEF Level

\* A turn that is not the last one leaves fewer of them.
LEMMA TurnsFall ==
  ASSUME NEW S, NEW m, NEW pos, View(S, m, pos), phase # "idle", Next
  PROVE  TurnsLeft' < TurnsLeft
<1>1. Loop(S, m, pos)
  BY DEF View
<1>2. PICK gap, extra : Sound(tree, S, m, pos, gap, extra)
  BY <1>1, WorkingSound DEF Loop
<1>3. phase \in {"insert", "erase"}
  BY <1>1 DEF Loop, Working
<1>4. phase = "insert" => node \in S /\ TurnsLeft = Level(tree, node)
  BY <1>1 DEF Loop, Working, TurnsLeft
<1>5. phase = "erase" =>
        /\ parent \in S
        /\ TurnsLeft = IF IsRed(tree, parent) THEN 1 ELSE 1 + Level(tree, parent)
  BY <1>1 DEF Loop, Working, TurnsLeft
<1>6. \A x \in S : Level(tree, x) \in Nat /\ Level(tree, x) >= 1
  BY <1>2, LevelIs
<1>7. TurnsLeft \in Nat /\ TurnsLeft >= 1
  BY <1>3, <1>4, <1>5, <1>6
<1>8. ASSUME Stop PROVE TurnsLeft' < TurnsLeft
  <2>1. TurnsLeft' = 0
    BY <1>8 DEF Stop, TurnsLeft
  <2> QED
    BY <2>1, <1>7
<1>9. ASSUME NEW s \in Side, InsertRecolor(s) PROVE TurnsLeft' < TurnsLeft
  <2>1. InsertClimbs(S) /\ phase = "insert"
    BY <1>1, <1>9, InsertRecolorKeeps DEF InsertRecolor, RedParent
  <2>2. /\ node \in S /\ parent = tree.par[node] /\ parent \in S
        /\ node' = tree.par[parent] /\ node' \in S /\ phase' = "insert"
        /\ SamePointers(tree, tree')
    BY <2>1 DEF InsertClimbs
  <2>3. NIL \notin S
    BY <1>2, SoundFacts
  <2>4. Level(tree, parent) < Level(tree, node)
    BY <2>2, <2>3, <1>2, LevelIs
  <2>5. Level(tree, tree.par[parent]) < Level(tree, parent)
    BY <2>2, <2>3, <1>2, LevelIs
  <2>6. TurnsLeft' = Level(tree, tree.par[parent])
    <3>1. TurnsLeft' = Level(tree', node')
      BY <2>2 DEF TurnsLeft
    <3>2. Level(tree', tree.par[parent]) = Level(tree, tree.par[parent])
      BY <2>2, LevelStays
    <3> QED
      BY <3>1, <3>2, <2>2
  <2>7. /\ Level(tree, parent) \in Nat /\ Level(tree, node) \in Nat
        /\ Level(tree, tree.par[parent]) \in Nat
    BY <2>2, <1>6
  <2> QED
    BY <2>1, <2>4, <2>5, <2>6, <2>7, <1>4
<1>10. ASSUME NEW s \in Side, EraseRedSibling(s) PROVE TurnsLeft' < TurnsLeft
  <2>1. phase = "erase" /\ IsBlack(tree, parent) /\ ErasePaints
    BY <1>1, <1>10, EraseRedSiblingKeeps DEF EraseRedSibling, DoubleBlack
  <2>2. TurnsLeft' = 1
    BY <2>1 DEF ErasePaints, TurnsLeft
  <2>3. TurnsLeft = 1 + Level(tree, parent)
    BY <2>1, <1>5 DEF IsBlack
  <2> QED
    BY <2>1, <2>2, <2>3, <1>5, <1>6
<1>11. ASSUME NEW s \in Side, EraseRecolor(s) PROVE TurnsLeft' < TurnsLeft
  <2>1. phase = "erase" /\ (Stop \/ EraseClimbs(S))
    BY <1>1, <1>11, EraseRecolorKeeps DEF EraseRecolor, DoubleBlack
  <2>2. CASE EraseClimbs(S)
    <3>1. /\ IsBlack(tree, parent) /\ parent \in S /\ parent' = tree.par[parent]
          /\ parent' \in S /\ phase' = "erase" /\ SamePointers(tree, tree')
      BY <2>2 DEF EraseClimbs
    <3>2. NIL \notin S
      BY <1>2, SoundFacts
    <3>3. Level(tree, tree.par[parent]) < Level(tree, parent)
      BY <3>1, <3>2, <1>2, LevelIs
    <3>4. Level(tree', tree.par[parent]) = Level(tree, tree.par[parent])
      BY <3>1, LevelStays
    <3>5. TurnsLeft' = IF IsRed(tree', parent') THEN 1
                       ELSE 1 + Level(tree, tree.par[parent])
      BY <3>1, <3>4 DEF TurnsLeft
    <3>6. TurnsLeft = 1 + Level(tree, parent)
      BY <3>1, <2>1, <1>5 DEF IsBlack
    <3>7. Level(tree, parent) \in Nat /\ Level(tree, tree.par[parent]) \in Nat
          /\ Level(tree, parent) >= 1
      BY <3>1, <1>6
    <3> QED
      BY <3>3, <3>5, <3>6, <3>7
  <2> QED
    BY <2>1, <2>2, <1>8
<1>12. ~(\E n \in Node \ InTree, p \in InTree \cup {NIL}, s \in Side : Link(n, p, s))
       /\ ~(\E n \in InTree : Unlink(n))
  BY DEF Link, Unlink
<1>13. Rebalance
  BY <1>12 DEF Next
<1>14. Stop \/ \E s \in Side : InsertRecolor(s) \/ EraseRedSibling(s) \/ EraseRecolor(s)
  BY <1>13 DEF Rebalance, InsertRoot, InsertBelowBlack, InsertRotate, EraseRotate
<1> QED
  BY <1>8, <1>9, <1>10, <1>11, <1>14

LEMMA NodesFollow ==
  ASSUME NEW S, NEW m, NEW pos, View(S, m, pos)
  PROVE  CasesMeetNodes
<1>1. Loop(S, m, pos)
  BY DEF View
<1>2. ASSUME phase = "insert", IsRed(tree, parent) PROVE tree.par[parent] # NIL
  <2>1. /\ node \in S /\ IsRed(tree, node) /\ parent = tree.par[node] /\ tree \in Tree
        /\ Sound(tree, S, m, pos, NoGap, node)
    BY <1>1, <1>2, InsertLoop
  <2>2. PICK lo, hi, h : /\ Ordered(tree, S, m, pos, lo, hi)
                         /\ Balanced(tree, S, h, NoGap) /\ RedsApart(tree, S, node)
    BY <2>1 DEF Sound
  <2>3. tree.par[parent] \in S
    BY <2>1, <2>2, <1>2, RedParentFacts
  <2> QED
    BY <2>1, <2>3, SoundFacts
<1>3. ASSUME NEW s \in Side, DoubleBlack(s)
      PROVE  /\ Sibling(s) # NIL
             /\ IsRed(tree, Sibling(s)) => Kid(tree, Sibling(s), s) # NIL
  <2>1. /\ parent \in S /\ tree \in Tree
        /\ Sound(tree, S, m, pos, <<parent, s>>, NIL)
    BY <1>1, <1>3, EraseLoop
  <2>2. PICK sib : sib = tree.kid[parent][Other(s)]
    OBVIOUS
  <2>3. sib \in S /\ (IsRed(tree, sib) => tree.kid[sib][s] \in S)
    BY <2>1, <2>2, SiblingIs
  <2>4. NIL \notin S
    BY <2>1, SoundFacts
  <2> QED
    BY <2>2, <2>3, <2>4 DEF Sibling, Kid
<1> QED
  BY <1>2, <1>3 DEF CasesMeetNodes

-----------------------------------------------------------------------------
(* The theorems *)

\* The inductive invariant: there is an order of the nodes for which the tree
\* is as the phase says.
TreeInv == \E S, m, pos : View(S, m, pos)

LEMMA InitView ==
  ASSUME Init
  PROVE  View({}, 0, [x \in {} |-> 1])
<1>1. PICK pos : pos = [x \in {} |-> 1]
  OBVIOUS
<1>2. tree \in Tree
  BY DEF Init, Tree
<1>3. Ordered(tree, {}, 0, pos, pos, pos)
  BY <1>1 DEF Init, Ordered, Placed, Spans, Rooted, Hung
<1>4. Balanced(tree, {}, pos, NoGap) /\ RedsApart(tree, {}, NIL)
  BY <1>1 DEF Init, Balanced, RedsApart
<1>5. Sound(tree, {}, 0, pos, NoGap, NIL)
  BY <1>2, <1>3, <1>4 DEF Sound
<1>6. phase = "idle" /\ node = NIL /\ parent = NIL /\ leftmost = NIL
  BY DEF Init
<1> QED
  BY <1>1, <1>5, <1>6 DEF View, Loop, Working, First

\* One step: the operations change the order as Timeline says, the loops leave
\* it alone.
LEMMA StepKeeps ==
  ASSUME NEW S, NEW m, NEW pos, View(S, m, pos), [Next]_rbvars
  PROVE  \/ \E n \in Node \ S, at \in 1 .. m + 1 :
              View(S \cup {n}, m + 1, LinkedPos(pos, S, n, at))'
         \/ \E n \in S : View(S \ {n}, m - 1, LessPos(pos, S \ {n}, pos[n]))'
         \/ View(S, m, pos)' /\ InOrder(tree)' = InOrder(tree) /\ leftmost' = leftmost
<1>1. PICK gap, extra : Sound(tree, S, m, pos, gap, extra)
  BY WorkingSound DEF View, Loop
<1>2. InTree = S
  BY <1>1, SoundFacts DEF InTree
<1>3. ASSUME NEW n \in Node \ InTree, NEW p \in InTree \cup {NIL}, NEW s \in Side,
             Link(n, p, s)
      PROVE  \E at \in 1 .. m + 1 : View(S \cup {n}, m + 1, LinkedPos(pos, S, n, at))'
  BY <1>2, <1>3, LinkKeeps
<1>4. ASSUME NEW n \in InTree, Unlink(n)
      PROVE  View(S \ {n}, m - 1, LessPos(pos, S \ {n}, pos[n]))'
  BY <1>2, <1>4, UnlinkKeeps
<1>5. ASSUME Rebalance
      PROVE  View(S, m, pos)' /\ InOrder(tree)' = InOrder(tree) /\ leftmost' = leftmost
  <2>1. View(S, m, pos)' /\ leftmost' = leftmost
    BY <1>5, RebalanceKeeps
  <2>2. PICK gap2, extra2 : Sound(tree', S, m, pos, gap2, extra2)
    <3>1. Working(tree', phase', node', parent', S, m, pos)
      BY <2>1 DEF View, Loop
    <3> QED
      BY <3>1, WorkingSound
  <2>3. InOrder(tree') = Sequence(S, m, pos)
    BY <2>2, SoundFacts
  <2>4. InOrder(tree) = Sequence(S, m, pos)
    BY <1>1, SoundFacts
  <2> QED
    BY <2>1, <2>3, <2>4
<1>6. CASE UNCHANGED rbvars
  <2>1. tree' = tree /\ leftmost' = leftmost /\ phase' = phase /\ node' = node
        /\ parent' = parent
    BY <1>6 DEF rbvars
  <2>2. View(S, m, pos)'
    BY <2>1 DEF View, Loop
  <2> QED
    BY <2>1, <2>2
<1> QED
  BY <1>2, <1>3, <1>4, <1>5, <1>6 DEF Next

LEMMA OrderIs ==
  ASSUME NEW t, NEW l, NEW ph, NEW x, NEW p, NEW S, NEW m, NEW pos,
         Working(t, ph, x, p, S, m, pos), First(l, S, m, pos)
  PROVE  /\ InOrder(t) = Sequence(S, m, pos) /\ Placed(S, m, pos) /\ NIL \notin S
         /\ l = IF InOrder(t) = << >> THEN NIL ELSE Head(InOrder(t))
<1>1. PICK gap, extra : Sound(t, S, m, pos, gap, extra)
  BY WorkingSound
<1>2. InOrder(t) = Sequence(S, m, pos) /\ Placed(S, m, pos) /\ NIL \notin S
  BY <1>1, SoundFacts
<1> QED
  BY <1>2, FirstIsHead

LEMMA LinkEnqueues ==
  ASSUME NEW S, NEW m, NEW pos, View(S, m, pos), NEW n \in Node \ S,
         NEW at \in 1 .. m + 1, View(S \cup {n}, m + 1, LinkedPos(pos, S, n, at))'
  PROVE  Abstract!Next
<1>1. PICK q, r : q = InOrder(tree) /\ r = InOrder(tree)'
  OBVIOUS
<1>2. q = Sequence(S, m, pos) /\ Placed(S, m, pos)
  BY <1>1, OrderIs DEF View, Loop
<1>3. /\ r = Sequence(S \cup {n}, m + 1, LinkedPos(pos, S, n, at))
      /\ Placed(S \cup {n}, m + 1, LinkedPos(pos, S, n, at))
      /\ leftmost' = IF r = << >> THEN NIL ELSE Head(r)
  <2>1. PICK t, l, ph, x, p, S2, m2, pos2 :
          /\ t = tree' /\ l = leftmost' /\ ph = phase' /\ x = node' /\ p = parent'
          /\ S2 = S \cup {n} /\ m2 = m + 1 /\ pos2 = LinkedPos(pos, S, n, at)
    OBVIOUS
  <2>2. Working(t, ph, x, p, S2, m2, pos2) /\ First(l, S2, m2, pos2) /\ r = InOrder(t)
    BY <2>1, <1>1 DEF View, Loop
  <2>3. /\ InOrder(t) = Sequence(S2, m2, pos2) /\ Placed(S2, m2, pos2)
        /\ l = IF InOrder(t) = << >> THEN NIL ELSE Head(InOrder(t))
    BY <2>2, OrderIs
  <2> QED
    BY <2>1, <2>2, <2>3
<1>4. r = InsertAt(q, at, n)
  BY <1>2, <1>3, SequenceInserts
<1>5. Len(q) = m /\ m \in Nat /\ \A i \in 1 .. m : q[i] \in S
  BY <1>2, SequenceIs
<1>6. ~Contains(q, n)
  BY <1>5 DEF Contains
<1>7. Abstract!Enqueue(n, at - 1)
  <2>1. (at - 1) + 1 = at
    BY <1>5
  <2> QED
    BY <2>1, <1>1, <1>4, <1>6 DEF Abstract!Enqueue, Abstract!InsertAt,
         Abstract!Contains, InsertAt, Contains
<1>8. at - 1 \in 0 .. Len(q)
  BY <1>5
<1> QED
  BY <1>1, <1>3, <1>7, <1>8 DEF Abstract!Next

LEMMA UnlinkDequeues ==
  ASSUME NEW S, NEW m, NEW pos, View(S, m, pos), NEW n \in S,
         View(S \ {n}, m - 1, LessPos(pos, S \ {n}, pos[n]))'
  PROVE  Abstract!Next
<1>1. PICK q, r, at : q = InOrder(tree) /\ r = InOrder(tree)' /\ at = pos[n]
  OBVIOUS
<1>2. q = Sequence(S, m, pos) /\ Placed(S, m, pos)
  BY <1>1, OrderIs DEF View, Loop
<1>3. /\ r = Sequence(S \ {n}, m - 1, LessPos(pos, S \ {n}, at))
      /\ Placed(S \ {n}, m - 1, LessPos(pos, S \ {n}, at))
      /\ leftmost' = IF r = << >> THEN NIL ELSE Head(r)
  <2>1. PICK t, l, ph, x, p, S2, m2, pos2 :
          /\ t = tree' /\ l = leftmost' /\ ph = phase' /\ x = node' /\ p = parent'
          /\ S2 = S \ {n} /\ m2 = m - 1 /\ pos2 = LessPos(pos, S \ {n}, at)
    OBVIOUS
  <2>2. Working(t, ph, x, p, S2, m2, pos2) /\ First(l, S2, m2, pos2) /\ r = InOrder(t)
    BY <2>1, <1>1 DEF View, Loop
  <2>3. /\ InOrder(t) = Sequence(S2, m2, pos2) /\ Placed(S2, m2, pos2)
        /\ l = IF InOrder(t) = << >> THEN NIL ELSE Head(InOrder(t))
    BY <2>2, OrderIs
  <2> QED
    BY <2>1, <2>2, <2>3
<1>4. r = RemoveAt(q, at)
  BY <1>1, <1>2, <1>3, SequenceRemoves
<1>5. Len(q) = m /\ at \in 1 .. m
  BY <1>1, <1>2, SequenceIs
<1>6. Abstract!Dequeue(at)
  BY <1>1, <1>4 DEF Abstract!Dequeue, Abstract!RemoveAt, RemoveAt
<1> QED
  BY <1>1, <1>3, <1>5, <1>6 DEF Abstract!Next

LEMMA StepsMap ==
  ASSUME TreeInv, [Next]_rbvars
  PROVE  TreeInv' /\ [Abstract!Next]_<<InOrder(tree), leftmost>>
<1>1. PICK S, m, pos : View(S, m, pos)
  BY DEF TreeInv
<1>2. CASE \E n \in Node \ S, at \in 1 .. m + 1 :
             View(S \cup {n}, m + 1, LinkedPos(pos, S, n, at))'
  <2>1. PICK n \in Node \ S, at \in 1 .. m + 1 :
          View(S \cup {n}, m + 1, LinkedPos(pos, S, n, at))'
    BY <1>2
  <2>2. Abstract!Next
    BY <2>1, <1>1, LinkEnqueues
  <2> QED
    BY <2>1, <2>2 DEF TreeInv
<1>3. CASE \E n \in S : View(S \ {n}, m - 1, LessPos(pos, S \ {n}, pos[n]))'
  <2>1. PICK n \in S : View(S \ {n}, m - 1, LessPos(pos, S \ {n}, pos[n]))'
    BY <1>3
  <2>2. Abstract!Next
    BY <2>1, <1>1, UnlinkDequeues
  <2> QED
    BY <2>1, <2>2 DEF TreeInv
<1>4. CASE View(S, m, pos)' /\ InOrder(tree)' = InOrder(tree) /\ leftmost' = leftmost
  <2>1. UNCHANGED <<InOrder(tree), leftmost>>
    BY <1>4
  <2> QED
    BY <2>1, <1>4 DEF TreeInv
<1> QED
  BY <1>1, <1>2, <1>3, <1>4, StepKeeps

\* The tree is ordered, its black heights are even but for the place where a
\* loop works, and the cached node is the first: rbtree.c and fair.c together.
THEOREM TreeKept == Spec => []TreeInv
<1>1. Init => TreeInv
  BY InitView DEF TreeInv
<1>2. TreeInv /\ [Next]_rbvars => TreeInv'
  BY StepsMap
<1> QED
  BY <1>1, <1>2, PTL DEF Spec

LEMMA TypesFollow ==
  ASSUME TreeInv
  PROVE  TypeOK
<1>1. PICK S, m, pos : View(S, m, pos)
  BY DEF TreeInv
<1>2. PICK gap, extra : Sound(tree, S, m, pos, gap, extra)
  BY <1>1, WorkingSound DEF View, Loop
<1>3. tree \in Tree /\ S \subseteq Node /\ NIL \notin S
  BY <1>2, SoundFacts
<1>4. leftmost \in S \cup {NIL}
  BY <1>1 DEF View, First
<1>5. \A x \in Node : tree.par[x] \in Ptr /\ \A y \in Side : tree.kid[x][y] \in Ptr
  BY <1>3, TreeFields
<1>6. Working(tree, phase, node, parent, S, m, pos)
  BY <1>1 DEF View, Loop
<1>7. CASE phase = "idle"
  <2>1. node = NIL /\ parent = NIL
    BY <1>6, <1>7 DEF Working
  <2> QED
    BY <2>1, <1>3, <1>4, <1>7 DEF TypeOK
<1>8. CASE phase = "insert"
  <2>1. node \in S /\ parent = tree.par[node]
    BY <1>6, <1>8 DEF Working
  <2>2. node \in Node /\ node # NIL /\ parent \in Ptr
    BY <2>1, <1>3, <1>5
  <2> QED
    BY <2>2, <1>3, <1>4, <1>8 DEF TypeOK, Ptr
<1>9. CASE phase = "erase"
  <2>1. parent \in S /\ \E s \in Side : tree.kid[parent][s] = node
    BY <1>6, <1>9 DEF Working
  <2>2. parent \in Node /\ parent # NIL /\ node \in Ptr
    BY <2>1, <1>3, <1>5
  <2> QED
    BY <2>2, <1>3, <1>4, <1>9 DEF TypeOK, Ptr
<1> QED
  BY <1>6, <1>7, <1>8, <1>9 DEF Working

\* No pointer leads outside the nodes, and a loop never goes on with a NULL
\* that the while(true) of __rb_insert or __rb_erase_color would follow.
THEOREM TreeTyped == Spec => []TypeOK
<1>1. TreeInv => TypeOK
  BY TypesFollow
<1> QED
  BY <1>1, TreeKept, PTL

LEMMA ParentsFollow ==
  ASSUME TreeInv
  PROVE  ParentsAgree
<1>1. PICK S, m, pos : View(S, m, pos)
  BY DEF TreeInv
<1>2. PICK gap, extra : Sound(tree, S, m, pos, gap, extra)
  BY <1>1, WorkingSound DEF View, Loop
<1>3. InTree = S
  BY <1>2, SoundFacts DEF InTree
<1>4. PICK lo, hi : Ordered(tree, S, m, pos, lo, hi) /\ tree \in Tree
  BY <1>2 DEF Sound
<1>5. tree.root # NIL => tree.par[tree.root] = NIL
  BY <1>4 DEF Ordered, Rooted
<1>6. ASSUME NEW n \in S, NEW s \in Side, tree.kid[n][s] # NIL
      PROVE  tree.par[tree.kid[n][s]] = n
  BY <1>4, <1>6, OrderedFacts
<1> QED
  BY <1>3, <1>5, <1>6 DEF ParentsAgree, Kid

\* Up and down pointers agree after every case of the loops, in trees of any
\* size: __rb_change_child and rb_next may follow the parents.
THEOREM TreeParentsAgree == Spec => []ParentsAgree
<1>1. TreeInv => ParentsAgree
  BY ParentsFollow
<1> QED
  BY <1>1, TreeKept, PTL

LEMMA RedBlackFollows ==
  ASSUME TreeInv
  PROVE  RedBlack
<1> SUFFICES ASSUME phase = "idle"
             PROVE  /\ IsBlack(tree, tree.root)
                    /\ \A n \in InTree, s \in Side :
                         IsRed(tree, n) => IsBlack(tree, Kid(tree, n, s))
                    /\ Cardinality(BlackHeights(tree)) = 1
  BY DEF RedBlack
<1>1. PICK S, m, pos : View(S, m, pos)
  BY DEF TreeInv
<1>2. Sound(tree, S, m, pos, NoGap, NIL)
  BY <1>1 DEF View, Loop, Working
<1>3. InTree = S
  BY <1>2, SoundFacts DEF InTree
<1>4. PICK lo, hi, h : /\ Ordered(tree, S, m, pos, lo, hi) /\ tree \in Tree
                       /\ Balanced(tree, S, h, NoGap) /\ RedsApart(tree, S, NIL)
  BY <1>2 DEF Sound
<1>5. IsBlack(tree, tree.root)
  BY <1>4 DEF RedsApart, IsBlack, IsRed
<1>6. ASSUME NEW n \in S, NEW s \in Side, IsRed(tree, n)
      PROVE  IsBlack(tree, Kid(tree, n, s))
  <2>1. IsRed(tree, tree.kid[n][s]) => tree.kid[n][s] = NIL
    BY <1>4, <1>6 DEF RedsApart
  <2> QED
    BY <2>1 DEF IsBlack, IsRed, Kid
<1>7. Cardinality(BlackHeights(tree)) = 1
  BY <1>4, BlackHeightsAre
<1> QED
  BY <1>3, <1>5, <1>6, <1>7

\* Between operations every path has as many black nodes and no red node is
\* below a red one: all that the cases of the two loops are for.
THEOREM TreeIsRedBlack == Spec => []RedBlack
<1>1. TreeInv => RedBlack
  BY RedBlackFollows
<1> QED
  BY <1>1, TreeKept, PTL

\* The sequence that CFS.tla takes the tree for is what the tree implements:
\* a link and an erasure are its two operations, a rebalancing step changes
\* nothing, and rb_leftmost is its head.
THEOREM TreeImplementsTimeline == Spec => ImplementsTimeline
<1>1. Init => Abstract!Init
  <2> SUFFICES ASSUME Init PROVE InOrder(tree) = << >> /\ leftmost = NIL
    BY DEF Abstract!Init
  <2> QED
    BY DEF Init, InOrder
<1>2. TreeInv /\ [Next]_rbvars => [Abstract!Next]_<<InOrder(tree), leftmost>>
  BY StepsMap
<1> QED
  BY <1>1, <1>2, TreeKept, PTL DEF Spec, ImplementsTimeline, Abstract!Spec
\* A loop never follows a NULL for the grandparent, the sibling or the inner
\* kid that __rb_insert and __rb_erase_color do not test for.
THEOREM TreeCasesMeetNodes == Spec => []CasesMeetNodes
<1>1. TreeInv => CasesMeetNodes
  BY NodesFollow DEF TreeInv
<1> QED
  BY <1>1, TreeKept, PTL

\* Both while(true) loops end in trees of any size, after as many turns as
\* their node or parent has levels, and one more.
THEOREM TreeTurnsRunOut == Spec => TurnsRunOut
<1>1. TreeInv /\ [Next]_rbvars => [phase # "idle" => TurnsLeft' < TurnsLeft]_rbvars
  <2> SUFFICES ASSUME TreeInv, Next, phase # "idle" PROVE TurnsLeft' < TurnsLeft
    OBVIOUS
  <2> QED
    BY TurnsFall DEF TreeInv
<1> QED
  BY <1>1, TreeKept, PTL DEF Spec, TurnsRunOut
=============================================================================
