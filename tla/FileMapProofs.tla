---------------------------- MODULE FileMapProofs ----------------------------
(***************************************************************************)
(* Theorems about the block pointers of FileMap.tla, for every number of   *)
(* direct pointers and every size of a block.  The pointers are seen as    *)
(* the nodes of a tree whose root is the inode: a node is the number of a  *)
(* level (0 for data) and the number of a block within it.                 *)
(***************************************************************************)
EXTENDS FileMap, Ext2DiskProofs

-----------------------------------------------------------------------------
(* Numbers *)

LEMMA MapSizes ==
  /\ PerBlock \in Nat /\ PerBlock >= 3 /\ Slot = 0 .. PerBlock - 1
  /\ SINGLE \in Nat /\ SINGLE >= 1 /\ SINGLE = NDIRECT
  /\ DoubleNum \in Nat /\ DoubleNum = PerBlock * PerBlock /\ DoubleNum >= PerBlock
  /\ DOUBLE \in Nat /\ DOUBLE = SINGLE + PerBlock
  /\ TRIPLE \in Nat /\ TRIPLE = DOUBLE + DoubleNum
  /\ Capacity \in Nat /\ Capacity = TRIPLE + DoubleNum * PerBlock
<1>1. PICK P \in Nat : P = PerBlock /\ P >= 3 /\ Slot = 0 .. P - 1
  BY Constants DEF PerBlock, Slot
<1>2. SINGLE \in Nat /\ SINGLE >= 1 /\ SINGLE = NDIRECT
  BY NDIRECTAssumption DEF SINGLE
<1>3. PICK Q \in Nat : Q = DoubleNum /\ Q = P * P /\ Q >= P
  BY <1>1 DEF DoubleNum
<1>4. Q * P \in Nat
  BY <1>1, <1>3
<1>5. DOUBLE = SINGLE + P /\ TRIPLE = DOUBLE + Q /\ Capacity = TRIPLE + Q * P
  BY <1>1, <1>3 DEF DOUBLE, TRIPLE, Capacity
<1> QED
  BY <1>1, <1>2, <1>3, <1>4, <1>5

\* What is left of one block of pointers is less than one of the next level.
LEMMA Smaller ==
  ASSUME NEW P \in Nat \ {0}, NEW t \in 0 .. P - 1, NEW s \in 0 .. P - 1
  PROVE  t * P + s \in 0 .. P * P - 1
<1>1. t \in Nat /\ t < P /\ s \in Nat /\ s < P
  OBVIOUS
<1>2. PICK x, y : x = t * P /\ y = P * P
  OBVIOUS
<1>3. x \in Nat /\ y \in Nat /\ x + P <= y
  BY <1>1, <1>2, Multiply
<1> QED
  BY <1>1, <1>2, <1>3

\* Pointer n below a table with P pointers to tables with P is the one with
\* number s in table m, which is pointer t of the tables of table q.
TwoLevels(P, Q, q, t, s, m, n, r) ==
  m = q * P + t /\ n = m * P + s /\ Q = P * P /\ r = t * P + s

LEMMA TwoLevelsFacts ==
  ASSUME NEW P \in Nat \ {0}, NEW Q \in Nat \ {0}, NEW q \in Nat,
         NEW t \in 0 .. P - 1, NEW s \in 0 .. P - 1,
         NEW m \in Nat, NEW n \in Nat, NEW r, TwoLevels(P, Q, q, t, s, m, n, r)
  PROVE  /\ n \div Q = q /\ n % Q = r /\ r \div P = t /\ n = q * Q + r
         /\ r \in 0 .. Q - 1
<1>1. r \in 0 .. Q - 1 /\ r \in Nat
  <2>1. t * P + s \in 0 .. P * P - 1
    BY Smaller
  <2> QED
    BY <2>1 DEF TwoLevels
<1>2. n = q * Q + r
  <2>1. (q * P + t) * P = q * (P * P) + t * P
    OBVIOUS
  <2>2. n = (q * P + t) * P + s
    BY DEF TwoLevels
  <2>3. q * (P * P) \in Nat /\ t * P \in Nat
    OBVIOUS
  <2> QED
    BY <2>1, <2>2, <2>3 DEF TwoLevels
<1>3. n \div Q = q /\ n % Q = r
  BY <1>1, <1>2, DivUnique
<1>4. r \div P = t
  <2>1. r = t * P + s
    BY DEF TwoLevels
  <2> QED
    BY <1>1, <2>1, DivUnique
<1> QED
  BY <1>1, <1>2, <1>3, <1>4

-----------------------------------------------------------------------------
(* Pointers by level *)

\* Double indirect block q, indirect block m and data block k of a file, in the
\* order of the data blocks they lead to.
Double(d, ip, q) ==
  IF q = 0 THEN ip.block[NDIRECT + 1] ELSE Points(d, ip.block[NDIRECT + 2], q - 1)

Indirect(d, ip, m) ==
  IF m = 0 THEN ip.block[NDIRECT]
  ELSE Points(d, Double(d, ip, (m - 1) \div PerBlock), (m - 1) % PerBlock)

DataBlock(d, ip, k) ==
  IF k < SINGLE THEN ip.block[k]
  ELSE Points(d, Indirect(d, ip, (k - SINGLE) \div PerBlock), (k - SINGLE) % PerBlock)

\* Block k of the file is under the tables that its number divides into.
LEMMA Coordinates ==
  ASSUME NEW k \in Nat, k >= DOUBLE
  PROVE  /\ (k - SINGLE) \div PerBlock \in Nat
         /\ (k - SINGLE) \div PerBlock # 0
         /\ ((k - SINGLE) \div PerBlock - 1) \div PerBlock = (k - DOUBLE) \div DoubleNum
         /\ ((k - SINGLE) \div PerBlock - 1) % PerBlock = DoubleSlot(k)
         /\ (k - DOUBLE) \div DoubleNum \in Nat
         /\ k < TRIPLE => (k - DOUBLE) \div DoubleNum = 0
         /\ k >= TRIPLE => /\ (k - DOUBLE) \div DoubleNum # 0
                           /\ (k - TRIPLE) \div DoubleNum = (k - DOUBLE) \div DoubleNum - 1
<1>1. PICK P \in Nat \ {0}, Q \in Nat \ {0}, D \in Nat, T \in Nat, S \in Nat :
        /\ P = PerBlock /\ Q = DoubleNum /\ D = DOUBLE /\ T = TRIPLE /\ S = SINGLE
        /\ Q = P * P /\ D = S + P /\ T = D + Q
  BY MapSizes
<1>2. PICK n \in Nat : n = k - D
  BY <1>1
<1>3. PICK h \in Nat, s \in 0 .. P - 1 : h = n \div P /\ s = n % P /\ n = h * P + s
  BY <1>1, DivMod
<1>4. PICK q \in Nat, t \in 0 .. P - 1 : q = h \div P /\ t = h % P /\ h = q * P + t
  BY <1>1, DivMod
<1>5. PICK r : r = t * P + s
  OBVIOUS
<1>6. /\ n \div Q = q /\ n % Q = r /\ r \div P = t /\ n = q * Q + r
      /\ h \div P = q /\ h % P = t /\ r \in 0 .. Q - 1
  <2>1. /\ n \div Q = q /\ n % Q = r /\ r \div P = t /\ n = q * Q + r
        /\ r \in 0 .. Q - 1
    <3>1. TwoLevels(P, Q, q, t, s, h, n, r)
      BY <1>1, <1>3, <1>4, <1>5 DEF TwoLevels
    <3> QED
      BY <3>1, TwoLevelsFacts
  <2> QED
    BY <1>4, <2>1
<1>7. (k - S) \div P = h + 1
  <2>1. k - S \in Nat /\ k - S = n + P /\ h + 1 \in Nat
    BY <1>1, <1>2
  <2>2. (h + 1) * P = h * P + P
    BY <1>1
  <2>3. h * P \in Nat
    BY <1>1, Multiply
  <2>4. k - S = (h + 1) * P + s
    BY <1>1, <1>3, <2>1, <2>2, <2>3
  <2> QED
    BY <2>1, <2>4, DivUnique
<1>8. CASE k < T
  <2>1. n < Q
    BY <1>1, <1>2, <1>8
  <2>2. q = 0
    <3>1. q * Q \in Nat /\ (q # 0 => Q <= q * Q)
      BY <1>1, Multiply
    <3> QED
      BY <1>1, <1>6, <2>1, <3>1
  <2>3. h = t
    BY <1>4, <2>2
  <2>4. DoubleSlot(k) = h
    BY <1>1, <1>2, <1>3, <1>8 DEF DoubleSlot
  <2> QED
    BY <1>1, <1>2, <1>6, <1>7, <1>8, <2>2, <2>3, <2>4
<1>9. CASE k >= T
  <2>1. n >= Q /\ k - T = n - Q /\ k - T \in Nat
    BY <1>1, <1>2, <1>9
  <2>2. q # 0
    <3>1. r \in Nat /\ r < Q
      BY <1>1, <1>6
    <3>2. q = 0 => q * Q = 0
      BY <1>1
    <3> QED
      BY <1>1, <1>6, <2>1, <3>1, <3>2
  <2>3. q - 1 \in Nat /\ k - T = (q - 1) * Q + r
    <3>1. (q - 1) * Q = q * Q - Q /\ q * Q \in Nat
      BY <1>1, Multiply
    <3>2. r \in Nat
      BY <1>1, <1>6
    <3> QED
      BY <1>1, <1>6, <2>1, <2>2, <3>1, <3>2
  <2>4. (k - T) \div Q = q - 1 /\ (k - T) % Q = r
    BY <1>1, <1>6, <2>1, <2>3, DivUnique
  <2>5. DoubleSlot(k) = t
    BY <1>1, <1>6, <1>9, <2>4 DEF DoubleSlot
  <2> QED
    BY <1>1, <1>2, <1>6, <1>7, <1>9, <2>2, <2>4, <2>5
<1> QED
  BY <1>1, <1>8, <1>9

\* The operators that divide the number of a block find the tables by level.
LEMMA DoubleIs ==
  ASSUME NEW d, NEW ip, NEW k \in Nat, k >= DOUBLE
  PROVE  DoubleOf(d, ip, k) = Double(d, ip, (k - DOUBLE) \div DoubleNum)
<1>1. PICK q \in Nat : q = (k - DOUBLE) \div DoubleNum
  BY Coordinates
<1>2. /\ k < TRIPLE => q = 0
      /\ k >= TRIPLE => q # 0 /\ (k - TRIPLE) \div DoubleNum = q - 1
  BY <1>1, Coordinates
<1>3. k < TRIPLE \/ k >= TRIPLE
  BY MapSizes
<1>4. CASE k < TRIPLE
  BY <1>1, <1>2, <1>4 DEF DoubleOf, Double
<1>5. CASE k >= TRIPLE
  <2>1. ~(k < TRIPLE)
    BY <1>5, MapSizes
  <2> QED
    BY <1>1, <1>2, <1>5, <2>1 DEF DoubleOf, Double
<1> QED
  BY <1>3, <1>4, <1>5

LEMMA IndirectIs ==
  ASSUME NEW d, NEW ip, NEW k \in Nat, k >= SINGLE
  PROVE  IndirectOf(d, ip, k) = Indirect(d, ip, (k - SINGLE) \div PerBlock)
<1>1. CASE k < DOUBLE
  <2>1. (k - SINGLE) \div PerBlock = 0
    <3>1. PICK P \in Nat \ {0}, n \in Nat : P = PerBlock /\ n = k - SINGLE /\ n < P
      BY <1>1, MapSizes
    <3>2. n \div P = 0
      BY <3>1
    <3> QED
      BY <3>1, <3>2
  <2> QED
    BY <1>1, <2>1 DEF IndirectOf, Indirect
<1>2. CASE k >= DOUBLE
  <2>1. PICK m \in Nat : m = (k - SINGLE) \div PerBlock
    BY <1>2, Coordinates
  <2>2. /\ m # 0 /\ (m - 1) \div PerBlock = (k - DOUBLE) \div DoubleNum
        /\ (m - 1) % PerBlock = DoubleSlot(k)
    BY <1>2, <2>1, Coordinates
  <2>3. ~(k < DOUBLE)
    BY <1>2, MapSizes
  <2>4. DoubleOf(d, ip, k) = Double(d, ip, (m - 1) \div PerBlock)
    BY <1>2, <2>2, DoubleIs
  <2> QED
    BY <2>1, <2>2, <2>3, <2>4 DEF IndirectOf, Indirect
<1> QED
  BY <1>1, <1>2, MapSizes

LEMMA DataIs ==
  ASSUME NEW d, NEW ip, NEW k \in Nat
  PROVE  get_inode_block(d, ip, k) = DataBlock(d, ip, k)
<1>1. CASE k < SINGLE
  BY <1>1 DEF get_inode_block, DataBlock
<1>2. CASE ~(k < SINGLE)
  <2>1. IndirectOf(d, ip, k) = Indirect(d, ip, (k - SINGLE) \div PerBlock)
    BY <1>2, IndirectIs, MapSizes
  <2> QED
    BY <1>2, <2>1 DEF get_inode_block, DataBlock, IndirectSlot
<1> QED
  BY <1>1, <1>2

-----------------------------------------------------------------------------
(* The tree of pointers *)

\* A node is a level and a number: the triple indirect block is <<3, 0>>.
Node == {v \in (0 .. 3) \X Nat : v[1] = 3 => v[2] = 0}

\* The first block of the file a node leads to.
Start(v) ==
  IF v[1] = 0 THEN v[2]
  ELSE IF v[1] = 1 THEN SINGLE + v[2] * PerBlock
  ELSE IF v[1] = 2 THEN DOUBLE + v[2] * DoubleNum
  ELSE TRIPLE

\* The nodes of a file of n blocks.
Nodes(n) == {v \in Node : Start(v) < n}

\* The block a node stands for.
Pointed(d, ip, v) ==
  IF v[1] = 0 THEN DataBlock(d, ip, v[2])
  ELSE IF v[1] = 1 THEN Indirect(d, ip, v[2])
  ELSE IF v[1] = 2 THEN Double(d, ip, v[2])
  ELSE ip.block[NDIRECT + 2]

\* Where the pointer to a node is: in the inode, or in a table.
InInode(v) == IF v[1] = 0 THEN v[2] < SINGLE ELSE v[2] = 0

InodeSlot(v) == IF v[1] = 0 THEN v[2] ELSE NDIRECT + v[1] - 1

Parent(v) ==
  IF v[1] = 0 THEN <<1, (v[2] - SINGLE) \div PerBlock>>
  ELSE IF v[1] = 1 THEN <<2, (v[2] - 1) \div PerBlock>>
  ELSE <<3, 0>>

ParentSlot(v) ==
  IF v[1] = 0 THEN (v[2] - SINGLE) % PerBlock
  ELSE IF v[1] = 1 THEN (v[2] - 1) % PerBlock
  ELSE v[2] - 1

LEMMA NodeForms ==
  ASSUME NEW v \in Node
  PROVE  /\ v[1] \in 0 .. 3 /\ v[2] \in Nat /\ v = <<v[1], v[2]>>
         /\ v[1] = 3 => v[2] = 0
         /\ v[1] = 0 \/ v[1] = 1 \/ v[1] = 2 \/ v[1] = 3
BY DEF Node

LEMMA NodeIs ==
  ASSUME NEW l \in 0 .. 3, NEW i \in Nat, l = 3 => i = 0
  PROVE  <<l, i>> \in Node
BY DEF Node

LEMMA StartFacts ==
  ASSUME NEW v \in Node
  PROVE  /\ Start(v) \in Nat
         /\ v[1] = 0 => Start(v) = v[2]
         /\ v[1] = 1 => Start(v) = SINGLE + v[2] * PerBlock
         /\ v[1] = 2 => Start(v) = DOUBLE + v[2] * DoubleNum
         /\ v[1] = 3 => Start(v) = TRIPLE
<1>1. PICK l \in 0 .. 3, i \in Nat : v = <<l, i>>
  BY NodeForms
<1>2. /\ l = 0 => Start(v) = i
      /\ l = 1 => Start(v) = SINGLE + i * PerBlock
      /\ l = 2 => Start(v) = DOUBLE + i * DoubleNum
      /\ l = 3 => Start(v) = TRIPLE
  BY <1>1 DEF Start
<1>3. i * PerBlock \in Nat /\ i * DoubleNum \in Nat
  BY MapSizes, Multiply
<1>4. Start(v) \in Nat
  BY <1>2, <1>3, MapSizes
<1> QED
  BY <1>1, <1>2, <1>4

\* A pointer is where it is read.
LEMMA PointedAt ==
  ASSUME NEW d, NEW ip, NEW v \in Node
  PROVE  /\ InInode(v) => Pointed(d, ip, v) = ip.block[InodeSlot(v)]
         /\ ~InInode(v) =>
              Pointed(d, ip, v) = Points(d, Pointed(d, ip, Parent(v)), ParentSlot(v))
<1>1. PICK l, i : v = <<l, i>> /\ l \in 0 .. 3 /\ i \in Nat /\ (l = 3 => i = 0)
  BY NodeForms
<1>2. CASE l = 0
  BY <1>1, <1>2 DEF InInode, InodeSlot, Parent, ParentSlot, Pointed, DataBlock
<1>3. CASE l = 1
  <2>1. NDIRECT + 1 - 1 = NDIRECT
    BY MapSizes
  <2> QED
    BY <1>1, <1>3, <2>1 DEF InInode, InodeSlot, Parent, ParentSlot, Pointed, Indirect
<1>4. CASE l = 2
  <2>1. NDIRECT + 2 - 1 = NDIRECT + 1
    BY MapSizes
  <2> QED
    BY <1>1, <1>4, <2>1 DEF InInode, InodeSlot, Parent, ParentSlot, Pointed, Double
<1>5. CASE l = 3
  <2>1. NDIRECT + 3 - 1 = NDIRECT + 2
    BY MapSizes
  <2> QED
    BY <1>1, <1>5, <2>1 DEF InInode, InodeSlot, Pointed
<1> QED
  BY <1>1, <1>2, <1>3, <1>4, <1>5

\* A node comes with the table it is entered in.
LEMMA ParentNode ==
  ASSUME NEW v \in Node, ~InInode(v), Start(v) < Capacity
  PROVE  /\ Parent(v) \in Node /\ Start(Parent(v)) <= Start(v)
         /\ ParentSlot(v) \in Slot /\ Parent(v)[1] = v[1] + 1
<1>0. PICK P \in Nat \ {0}, Q \in Nat \ {0}, D \in Nat, T \in Nat, S \in Nat :
        /\ P = PerBlock /\ Q = DoubleNum /\ D = DOUBLE /\ T = TRIPLE /\ S = SINGLE
        /\ Q = P * P /\ D = S + P /\ T = D + Q /\ Capacity = T + Q * P
        /\ Slot = 0 .. P - 1
  BY MapSizes
<1>1. PICK l, i : v = <<l, i>> /\ l \in 0 .. 3 /\ i \in Nat /\ (l = 3 => i = 0)
  BY NodeForms
<1>2. CASE l = 0
  <2>1. i - S \in Nat /\ Start(v) = i
    BY <1>0, <1>1, <1>2 DEF InInode, Start
  <2>2. PICK m \in Nat, s \in 0 .. P - 1 :
          m = (i - S) \div P /\ s = (i - S) % P /\ i - S = m * P + s
    <3>1. PICK n \in Nat : n = i - S
      BY <2>1
    <3>2. n \div P \in Nat /\ n % P \in 0 .. P - 1 /\ n = (n \div P) * P + (n % P)
      BY DivMod
    <3> QED
      BY <3>1, <3>2
  <2>3. Parent(v) = <<1, m>> /\ ParentSlot(v) = s
    BY <1>0, <1>1, <1>2, <2>2 DEF Parent, ParentSlot
  <2>4. Start(<<1, m>>) = S + m * P
    BY <1>0 DEF Start
  <2>5. S + m * P <= i
    <3>1. m * P \in Nat
      BY <1>0, <2>2, Multiply
    <3> QED
      BY <1>0, <1>1, <2>1, <2>2, <3>1
  <2>6. <<1, m>> \in Node
    BY <2>2, NodeIs
  <2> QED
    BY <1>0, <1>1, <1>2, <2>1, <2>2, <2>3, <2>4, <2>5, <2>6
<1>3. CASE l = 1
  <2>1. i - 1 \in Nat /\ Start(v) = S + i * P
    BY <1>0, <1>1, <1>3 DEF InInode, Start
  <2>2. PICK q \in Nat, t \in 0 .. P - 1 :
          q = (i - 1) \div P /\ t = (i - 1) % P /\ i - 1 = q * P + t
    <3>1. PICK n \in Nat : n = i - 1
      BY <2>1
    <3>2. n \div P \in Nat /\ n % P \in 0 .. P - 1 /\ n = (n \div P) * P + (n % P)
      BY DivMod
    <3> QED
      BY <3>1, <3>2
  <2>3. Parent(v) = <<2, q>> /\ ParentSlot(v) = t
    BY <1>0, <1>1, <1>3, <2>2 DEF Parent, ParentSlot
  <2>4. Start(<<2, q>>) = D + q * Q
    BY <1>0 DEF Start
  <2>5. D + q * Q <= S + i * P
    <3>1. PICK h \in Nat : h = i - 1 /\ h = q * P + t
      BY <2>1, <2>2
    <3>2. PICK n \in Nat, r \in Nat : n = h * P + 0 /\ r = t * P + 0
      BY <1>0, <3>1, Multiply
    <3>3. TwoLevels(P, Q, q, t, 0, h, n, r)
      BY <1>0, <3>1, <3>2 DEF TwoLevels
    <3>4. n = q * Q + r
      <4>1. 0 \in 0 .. P - 1
        BY <1>0
      <4> QED
        BY <3>3, <4>1, TwoLevelsFacts
    <3>5. q * Q \in Nat /\ h * P \in Nat
      BY <1>0, <2>2, <3>1, Multiply
    <3>6. i * P = h * P + P
      <4>1. i = h + 1
        BY <1>1, <3>1
      <4>2. (h + 1) * P = h * P + P
        BY <1>0, <3>1
      <4> QED
        BY <4>1, <4>2
    <3> QED
      BY <1>0, <3>2, <3>4, <3>5, <3>6
  <2>6. <<2, q>> \in Node
    BY <2>2, NodeIs
  <2> QED
    BY <1>0, <1>1, <1>3, <2>1, <2>2, <2>3, <2>4, <2>5, <2>6
<1>4. CASE l = 2
  <2>1. i # 0 /\ Start(v) = D + i * Q
    BY <1>0, <1>1, <1>4 DEF InInode, Start
  <2>2. Parent(v) = <<3, 0>> /\ ParentSlot(v) = i - 1
    BY <1>0, <1>1, <1>4 DEF Parent, ParentSlot
  <2>3. Start(<<3, 0>>) = T
    BY <1>0 DEF Start
  <2>4. i * Q \in Nat /\ Q <= i * Q
    BY <1>0, <1>1, <2>1, Multiply
  <2>5. i - 1 < P
    <3>1. i * Q < Q + Q * P
      BY <1>0, <2>1, <2>4
    <3>2. Q + Q * P = (P + 1) * Q
      BY <1>0
    <3>3. (P + 1) * Q \in Nat
      BY <1>0, Multiply
    <3>4. i < P + 1
      <4>1. P + 1 = i \/ P + 1 < i \/ i < P + 1
        BY <1>0, <1>1
      <4>2. P + 1 < i => (P + 1) * Q + Q <= i * Q
        BY <1>0, <1>1, Multiply
      <4> QED
        BY <1>0, <2>4, <3>1, <3>2, <3>3, <4>1, <4>2
    <3> QED
      BY <1>0, <1>1, <3>4
  <2>6. <<3, 0>> \in Node
    BY NodeIs
  <2> QED
    BY <1>0, <1>1, <1>4, <2>1, <2>2, <2>3, <2>4, <2>5, <2>6
<1> QED
  BY <1>1, <1>2, <1>3, <1>4 DEF InInode

\* No two nodes have their pointers at one place.
LEMMA Places ==
  ASSUME NEW u \in Node, NEW v \in Node
  PROVE  /\ InInode(v) => InodeSlot(v) \in 0 .. NDIRECT + 2
         /\ InInode(u) /\ InInode(v) /\ InodeSlot(u) = InodeSlot(v) => u = v
         /\ ~InInode(u) /\ ~InInode(v) /\ Parent(u) = Parent(v)
              /\ ParentSlot(u) = ParentSlot(v) => u = v
<1>0. /\ PerBlock \in Nat \ {0} /\ SINGLE \in Nat \ {0} /\ NDIRECT = SINGLE
  BY MapSizes
<1>1. PICK l \in 0 .. 3, i \in Nat : v = <<l, i>> /\ (l = 3 => i = 0)
  BY NodeForms
<1>2. PICK h \in 0 .. 3, j \in Nat : u = <<h, j>> /\ (h = 3 => j = 0)
  BY NodeForms
<1>3. InInode(v) => InodeSlot(v) = (IF l = 0 THEN i ELSE SINGLE + l - 1)
                    /\ (l = 0 => i < SINGLE) /\ (l # 0 => i = 0)
  BY <1>0, <1>1 DEF InInode, InodeSlot
<1>4. InInode(u) => InodeSlot(u) = (IF h = 0 THEN j ELSE SINGLE + h - 1)
                    /\ (h = 0 => j < SINGLE) /\ (h # 0 => j = 0)
  BY <1>0, <1>2 DEF InInode, InodeSlot
<1>5. InInode(u) /\ InInode(v) /\ InodeSlot(u) = InodeSlot(v) => u = v
  <2> SUFFICES ASSUME InInode(u), InInode(v), InodeSlot(u) = InodeSlot(v)
               PROVE  h = l /\ j = i
    BY <1>1, <1>2
  <2> QED
    BY <1>0, <1>3, <1>4
<1>6. InInode(v) => InodeSlot(v) \in 0 .. NDIRECT + 2
  BY <1>0, <1>3
<1>7. ~InInode(u) /\ ~InInode(v) /\ Parent(u) = Parent(v)
        /\ ParentSlot(u) = ParentSlot(v) => u = v
  <2> SUFFICES ASSUME ~InInode(u), ~InInode(v), Parent(u) = Parent(v),
                      ParentSlot(u) = ParentSlot(v)
               PROVE  u = v
    OBVIOUS
  <2>1. /\ l = 0 => Parent(v) = <<1, (i - SINGLE) \div PerBlock>>
                    /\ ParentSlot(v) = (i - SINGLE) % PerBlock /\ i >= SINGLE
        /\ l = 1 => Parent(v) = <<2, (i - 1) \div PerBlock>>
                    /\ ParentSlot(v) = (i - 1) % PerBlock /\ i # 0
        /\ l = 2 => Parent(v) = <<3, 0>> /\ ParentSlot(v) = i - 1
        /\ l # 3
    BY <1>0, <1>1 DEF InInode, Parent, ParentSlot
  <2>2. /\ h = 0 => Parent(u) = <<1, (j - SINGLE) \div PerBlock>>
                    /\ ParentSlot(u) = (j - SINGLE) % PerBlock /\ j >= SINGLE
        /\ h = 1 => Parent(u) = <<2, (j - 1) \div PerBlock>>
                    /\ ParentSlot(u) = (j - 1) % PerBlock /\ j # 0
        /\ h = 2 => Parent(u) = <<3, 0>> /\ ParentSlot(u) = j - 1
        /\ h # 3
    BY <1>0, <1>2 DEF InInode, Parent, ParentSlot
  <2>3. h = l
    BY <1>1, <1>2, <2>1, <2>2
  <2>4. \A m, n \in Nat : m \div PerBlock = n \div PerBlock /\ m % PerBlock = n % PerBlock
                            => m = n
    <3> TAKE m, n \in Nat
    <3>1. /\ m = (m \div PerBlock) * PerBlock + (m % PerBlock)
          /\ n = (n \div PerBlock) * PerBlock + (n % PerBlock)
      BY <1>0, DivMod
    <3> QED
      BY <3>1
  <2>5. CASE l = 0
    <3>1. i - SINGLE \in Nat /\ j - SINGLE \in Nat
      BY <1>0, <2>1, <2>2, <2>3, <2>5
    <3>2. /\ (i - SINGLE) \div PerBlock = (j - SINGLE) \div PerBlock
          /\ (i - SINGLE) % PerBlock = (j - SINGLE) % PerBlock
      BY <2>1, <2>2, <2>3, <2>5
    <3>3. i - SINGLE = j - SINGLE
      BY <2>4, <3>1, <3>2
    <3>4. i = j
      BY <1>0, <3>3
    <3> QED
      BY <1>1, <1>2, <2>3, <3>4
  <2>6. CASE l = 1
    <3>1. i - 1 \in Nat /\ j - 1 \in Nat
      BY <2>1, <2>2, <2>3, <2>6
    <3>2. (i - 1) \div PerBlock = (j - 1) \div PerBlock /\ (i - 1) % PerBlock = (j - 1) % PerBlock
      BY <2>1, <2>2, <2>3, <2>6
    <3>3. i - 1 = j - 1
      BY <2>4, <3>1, <3>2
    <3>4. i = j
      BY <3>3
    <3> QED
      BY <1>1, <1>2, <2>3, <3>4
  <2>7. CASE l = 2
    <3>1. i = j
      BY <2>1, <2>2, <2>3, <2>7
    <3> QED
      BY <1>1, <1>2, <2>3, <3>1
  <2> QED
    BY <2>1, <2>5, <2>6, <2>7
<1> QED
  BY <1>5, <1>6, <1>7

\* Nodes that have the tables they are entered in with them.
Linked(A) ==
  \A v \in A : v \in Node /\ Start(v) < Capacity /\ (~InInode(v) => Parent(v) \in A)

\* e with the inode jp holds the pointers of A that d with ip does.
SamePlaces(d, ip, e, jp, A) ==
  \A v \in A :
    /\ InInode(v) => jp.block[InodeSlot(v)] = ip.block[InodeSlot(v)]
    /\ ~InInode(v) => Points(e, Pointed(d, ip, Parent(v)), ParentSlot(v))
                        = Points(d, Pointed(d, ip, Parent(v)), ParentSlot(v))

SamePointed(d, ip, e, jp, A) == \A v \in A : Pointed(e, jp, v) = Pointed(d, ip, v)

LEMMA PlacesPoint ==
  ASSUME NEW d, NEW ip, NEW e, NEW jp, NEW A, Linked(A), SamePlaces(d, ip, e, jp, A)
  PROVE  SamePointed(d, ip, e, jp, A)
<1>1. \A v \in A : v \in Node /\ v[1] \in 0 .. 3
  BY NodeForms DEF Linked
<1>2. ASSUME NEW v \in A, ~InInode(v) => Pointed(e, jp, Parent(v)) = Pointed(d, ip, Parent(v))
      PROVE  Pointed(e, jp, v) = Pointed(d, ip, v)
  <2>1. CASE InInode(v)
    BY <1>1, <2>1, PointedAt DEF SamePlaces
  <2>2. CASE ~InInode(v)
    <3>1. /\ Pointed(e, jp, v) = Points(e, Pointed(e, jp, Parent(v)), ParentSlot(v))
          /\ Pointed(d, ip, v) = Points(d, Pointed(d, ip, Parent(v)), ParentSlot(v))
      BY <1>1, <2>2, PointedAt
    <3> QED
      BY <1>2, <2>2, <3>1 DEF SamePlaces
  <2> QED
    BY <2>1, <2>2
<1>3. \A v \in A : ~InInode(v) => Parent(v) \in A /\ Parent(v)[1] = v[1] + 1
  BY ParentNode DEF Linked
<1> DEFINE Keeps(l) == \A v \in A : v[1] = l => Pointed(e, jp, v) = Pointed(d, ip, v)
<1>4. Keeps(3)
  <2> SUFFICES ASSUME NEW v \in A, v[1] = 3 PROVE Pointed(e, jp, v) = Pointed(d, ip, v)
    OBVIOUS
  <2>1. InInode(v)
    BY <1>1, NodeForms DEF InInode
  <2> QED
    BY <1>2, <2>1
<1>5. ASSUME NEW l \in 0 .. 2, Keeps(l + 1)
      PROVE  Keeps(l)
  <2> SUFFICES ASSUME NEW v \in A, v[1] = l PROVE Pointed(e, jp, v) = Pointed(d, ip, v)
    OBVIOUS
  <2>1. ~InInode(v) => Pointed(e, jp, Parent(v)) = Pointed(d, ip, Parent(v))
    BY <1>3, <1>5
  <2> QED
    BY <1>2, <2>1
<1> HIDE DEF Keeps
<1>6. Keeps(2) /\ Keeps(1) /\ Keeps(0)
  <2>1. Keeps(2)
    <3>1. 2 \in 0 .. 2 /\ 2 + 1 = 3
      OBVIOUS
    <3> QED
      BY <1>4, <1>5, <3>1
  <2>2. Keeps(1)
    <3>1. 1 \in 0 .. 2 /\ 1 + 1 = 2
      OBVIOUS
    <3> QED
      BY <1>5, <2>1, <3>1
  <2>3. Keeps(0)
    <3>1. 0 \in 0 .. 2 /\ 0 + 1 = 1
      OBVIOUS
    <3> QED
      BY <1>5, <2>2, <3>1
  <2> QED
    BY <2>1, <2>2, <2>3
<1> QED
  <2> SUFFICES ASSUME NEW v \in A PROVE Pointed(e, jp, v) = Pointed(d, ip, v)
    BY DEF SamePointed
  <2>1. v[1] = 0 \/ v[1] = 1 \/ v[1] = 2 \/ v[1] = 3
    BY <1>1
  <2> QED
    BY <1>4, <1>6, <2>1 DEF Keeps

-----------------------------------------------------------------------------
(* Blocks for the nodes *)

MapEntry == [inode : Block, name : {"", "data"}]

MapDisk ==
  [gd : [Group -> [free_blocks : Nat]], block_bitmap : SUBSET Block,
   data : [Block -> [Slot -> MapEntry]]]

MapInode == [blocks : Nat, block : [0 .. NDIRECT + 2 -> Block]]

\* The nodes of A are marked blocks, not in use by the others o, and all different.
Owned(d, ip, A, o) ==
  /\ \A v \in A : Pointed(d, ip, v) \in d.block_bitmap \ o
  /\ \A u, v \in A : Pointed(d, ip, u) = Pointed(d, ip, v) => u = v

\* Block b is zeroed and marked.
Marked(d, e, b) ==
  /\ b \in Block /\ b \notin MetadataBlocks /\ b \notin d.block_bitmap
  /\ e.block_bitmap = d.block_bitmap \cup {b}
  /\ \A c \in Block : e.data[c] = IF c = b THEN Zeroed ELSE d.data[c]

LEMMA MapDiskFacts ==
  ASSUME NEW d \in MapDisk
  PROVE  /\ d.block_bitmap \in SUBSET Block
         /\ \A h \in Group : d.gd[h].free_blocks \in Nat
         /\ \A b \in Block, s \in Slot : d.data[b][s] \in MapEntry /\ Points(d, b, s) \in Block
<1>1. d.block_bitmap \in SUBSET Block /\ \A h \in Group : d.gd[h].free_blocks \in Nat
  BY DEF MapDisk
<1>2. \A b \in Block, s \in Slot : d.data[b][s] \in MapEntry
  BY DEF MapDisk
<1>3. \A x \in MapEntry : x.inode \in Block
  BY DEF MapEntry
<1> QED
  BY <1>1, <1>2, <1>3 DEF Points

LEMMA ZeroBlock == 0 \in Block /\ 0 \in Group /\ BlockGroup(0) = 0
<1>1. NUMBER_OF_GROUPS * block_per_group \in Nat \ {0}
  BY Constants
<1>2. 0 \in Block /\ 0 \in Group
  BY <1>1, Constants DEF Block, Group
<1>3. 0 \div block_per_group = 0
  BY Constants, DivUnique
<1> QED
  BY <1>2, <1>3 DEF BlockGroup

LEMMA TakenMarks ==
  ASSUME NEW d \in MapDisk, BlockCounts(d), NEW h \in Group, NEW n \in FreeBlocks(d, h)
  PROVE  /\ Taken(d, h, n) \in MapDisk /\ BlockCounts(Taken(d, h, n))
         /\ Marked(d, Taken(d, h, n), WholeDisk(h, n))
<1>1. PICK b : b = WholeDisk(h, n)
  OBVIOUS
<1>2. /\ b \in Block /\ b \notin MetadataBlocks /\ b \notin d.block_bitmap
      /\ BlockGroup(b) = h
  BY <1>1, FreeNumbers
<1>3. PICK e : e = Taken(d, h, n)
  OBVIOUS
<1>4. /\ e.block_bitmap = d.block_bitmap \cup {b}
      /\ \A c \in Block : e.data[c] = IF c = b THEN Zeroed ELSE d.data[c]
      /\ \A k \in Group : e.gd[k].free_blocks =
            IF k = h THEN Less1(d.gd[h].free_blocks) ELSE d.gd[k].free_blocks
  BY <1>1, <1>3 DEF Taken, MapDisk
<1>5. /\ Cardinality(FreeBlocks(d, h)) >= 1
      /\ \A k \in Group : Cardinality(FreeBlocks(e, k)) =
           IF k = h THEN Cardinality(FreeBlocks(d, k)) - 1
           ELSE Cardinality(FreeBlocks(d, k))
  <2>1. \A k \in Group : /\ k # BlockGroup(b) => FreeBlocks(e, k) = FreeBlocks(d, k)
                         /\ k = BlockGroup(b) =>
                              /\ Cardinality(FreeBlocks(d, k)) >= 1
                              /\ Cardinality(FreeBlocks(e, k)) =
                                   Cardinality(FreeBlocks(d, k)) - 1
    BY <1>2, <1>4, FreeAfterTaking, ZenonT(60)
  <2> QED
    BY <1>2, <2>1
<1>6. \A k \in Group : d.gd[k].free_blocks = Cardinality(FreeBlocks(d, k))
                       /\ Cardinality(FreeBlocks(d, k)) \in Nat
  BY FreeFinite DEF BlockCounts
<1>7. Less1(d.gd[h].free_blocks) = d.gd[h].free_blocks - 1
  BY <1>5, <1>6 DEF Less1
<1>8. BlockCounts(e)
  BY <1>4, <1>5, <1>6, <1>7 DEF BlockCounts
<1>9. e \in MapDisk
  <2>1. Less1(d.gd[h].free_blocks) \in Nat
    BY <1>5, <1>6, <1>7
  <2>2. PICK x : x = [d.data EXCEPT ![b] = Zeroed]
    OBVIOUS
  <2>3. Zeroed \in [Slot -> MapEntry]
    <3>1. NoEntry \in MapEntry
      BY ZeroBlock DEF NoEntry, MapEntry
    <3> QED
      BY <3>1 DEF Zeroed
  <2>4. x \in [Block -> [Slot -> MapEntry]]
    BY <1>2, <2>2, <2>3 DEF MapDisk
  <2>5. PICK y : y = [d.gd EXCEPT ![h].free_blocks = Less1(@)]
    OBVIOUS
  <2>6. y \in [Group -> [free_blocks : Nat]]
    BY <2>1, <2>5 DEF MapDisk
  <2>7. PICK z : z = d.block_bitmap \cup {b}
    OBVIOUS
  <2>8. z \in SUBSET Block
    BY <1>2, <2>7 DEF MapDisk
  <2>9. e = [d EXCEPT !.data = x, !.block_bitmap = z, !.gd = y]
    BY <1>1, <1>3, <2>2, <2>5, <2>7 DEF Taken, MapDisk
  <2> QED
    BY <2>4, <2>6, <2>8, <2>9 DEF MapDisk
<1> QED
  BY <1>1, <1>2, <1>3, <1>4, <1>8, <1>9 DEF Marked

\* A block that is newly marked is no node's, and was read through by none.
LEMMA MarkedOwned ==
  ASSUME NEW d \in MapDisk, NEW ip, NEW e, NEW b, Marked(d, e, b),
         NEW A, Linked(A), NEW o, Owned(d, ip, A, o)
  PROVE  /\ SamePointed(d, ip, e, ip, A) /\ Owned(e, ip, A, o)
         /\ \A v \in A : Pointed(e, ip, v) # b
<1>1. \A v \in A : Pointed(d, ip, v) \in Block /\ Pointed(d, ip, v) # b
  BY MapDiskFacts DEF Owned, Marked
<1>2. SamePlaces(d, ip, e, ip, A)
  <2>1. \A v \in A : ~InInode(v) =>
          e.data[Pointed(d, ip, Parent(v))] = d.data[Pointed(d, ip, Parent(v))]
    BY <1>1 DEF Linked, Marked
  <2> QED
    BY <2>1 DEF SamePlaces, Points
<1>3. SamePointed(d, ip, e, ip, A)
  BY <1>2, PlacesPoint
<1> QED
  BY <1>1, <1>3 DEF SamePointed, Owned, Marked

\* Block x is entered as node w, in the inode or in the table w is below.
Entered(d, ip, e, jp, w, x) ==
  /\ e.block_bitmap = d.block_bitmap
  /\ IF InInode(w)
     THEN /\ e.data = d.data
          /\ \A n \in 0 .. NDIRECT + 2 :
               jp.block[n] = IF n = InodeSlot(w) THEN x ELSE ip.block[n]
     ELSE /\ jp.block = ip.block
          /\ \A c \in Block, s \in Slot :
               Points(e, c, s) = IF c = Pointed(d, ip, Parent(w)) /\ s = ParentSlot(w)
                                 THEN x ELSE Points(d, c, s)

LEMMA EnteredOwned ==
  ASSUME NEW d \in MapDisk, NEW ip, NEW e, NEW jp, NEW A, Linked(A), NEW o,
         Owned(d, ip, A, o), NEW w \in Node, w \notin A, Start(w) < Capacity,
         ~InInode(w) => Parent(w) \in A,
         NEW x, x \in d.block_bitmap \ o, \A v \in A : Pointed(d, ip, v) # x,
         Entered(d, ip, e, jp, w, x)
  PROVE  /\ Linked(A \cup {w}) /\ SamePointed(d, ip, e, jp, A)
         /\ Pointed(e, jp, w) = x /\ Owned(e, jp, A \cup {w}, o)
<1>1. Linked(A \cup {w})
  BY DEF Linked
<1>2. \A v \in A : Pointed(d, ip, v) \in Block
  BY MapDiskFacts DEF Owned
<1>3. \A v \in A : v \in Node /\ v # w /\ (~InInode(v) => ParentSlot(v) \in Slot)
  BY ParentNode DEF Linked
<1>4. SamePlaces(d, ip, e, jp, A)
  <2> SUFFICES ASSUME NEW v \in A
               PROVE  /\ InInode(v) => jp.block[InodeSlot(v)] = ip.block[InodeSlot(v)]
                      /\ ~InInode(v) => Points(e, Pointed(d, ip, Parent(v)), ParentSlot(v))
                                          = Points(d, Pointed(d, ip, Parent(v)), ParentSlot(v))
    BY DEF SamePlaces
  <2>1. CASE InInode(w)
    <3>1. InInode(v) => InodeSlot(v) # InodeSlot(w) /\ InodeSlot(v) \in 0 .. NDIRECT + 2
      BY <1>3, <2>1, Places
    <3> QED
      BY <2>1, <3>1 DEF Entered, Points
  <2>2. CASE ~InInode(w)
    <3>1. ASSUME ~InInode(v)
          PROVE  ~(Pointed(d, ip, Parent(v)) = Pointed(d, ip, Parent(w))
                     /\ ParentSlot(v) = ParentSlot(w))
      <4>1. Parent(v) \in A /\ Parent(w) \in A
        BY <2>2, <3>1 DEF Linked
      <4>2. ~(Parent(v) = Parent(w) /\ ParentSlot(v) = ParentSlot(w))
        BY <1>3, <2>2, <3>1, Places
      <4> QED
        BY <4>1, <4>2 DEF Owned
    <3>2. ~InInode(v) => Pointed(d, ip, Parent(v)) \in Block /\ ParentSlot(v) \in Slot
      BY <1>2, <1>3 DEF Linked
    <3> QED
      BY <2>2, <3>1, <3>2 DEF Entered
  <2> QED
    BY <2>1, <2>2
<1>5. SamePointed(d, ip, e, jp, A)
  BY <1>4, PlacesPoint
<1>6. Pointed(e, jp, w) = x
  <2>1. CASE InInode(w)
    BY <2>1, Places, PointedAt DEF Entered
  <2>2. CASE ~InInode(w)
    <3>1. Pointed(e, jp, Parent(w)) = Pointed(d, ip, Parent(w))
      BY <1>5, <2>2 DEF SamePointed
    <3>2. Pointed(d, ip, Parent(w)) \in Block /\ ParentSlot(w) \in Slot
      BY <1>2, <2>2, ParentNode
    <3> QED
      BY <2>2, <3>1, <3>2, PointedAt DEF Entered
  <2> QED
    BY <2>1, <2>2
<1>7. Owned(e, jp, A \cup {w}, o)
  <2>1. e.block_bitmap = d.block_bitmap
    BY DEF Entered
  <2>2. \A v \in A : Pointed(e, jp, v) = Pointed(d, ip, v)
    BY <1>5 DEF SamePointed
  <2> QED
    BY <1>6, <2>1, <2>2 DEF Owned
<1> QED
  BY <1>1, <1>5, <1>6, <1>7

-----------------------------------------------------------------------------
(* set_inode_block *)

Call == [disk : MapDisk, ip : MapInode, new : Block, ok : BOOLEAN]

LEMMA SameCounts ==
  ASSUME NEW d, NEW e, BlockCounts(d), e.block_bitmap = d.block_bitmap, e.gd = d.gd
  PROVE  BlockCounts(e)
BY DEF BlockCounts, FreeBlocks

LEMMA AllocatedFacts ==
  ASSUME NEW call \in Call, BlockCounts(call.disk), NEW near \in Block,
         NEW a, a = Allocated(call, near)
  PROVE  /\ a \in Call /\ BlockCounts(a.disk) /\ a.ip = call.ip
         /\ a.ok = TRUE => Marked(call.disk, a.disk, a.new)
         /\ a.ok = FALSE => a.disk = call.disk /\ NoneFree(a.disk)
<1>1. PICK new : new = AllocFrom(call.disk, BlockGroup(near))
  OBVIOUS
<1>2. PICK d \in MapDisk : d = call.disk
  BY DEF Call
<1>3. BlockGroup(near) \in Group
  BY BlockNumber
<1>4. PICK h, n : h = new.group /\ n = new.number
  OBVIOUS
<1>5. /\ h \in Group /\ n \in Nat
      /\ n = 0 => new.disk = d /\ \A k \in Group : FreeBlocks(d, k) = {}
      /\ n # 0 => n \in FreeBlocks(d, h) /\ new.disk = Taken(d, h, n)
  BY <1>1, <1>2, <1>3, <1>4, AllocChoice
<1>6. a = [call EXCEPT !.disk = new.disk, !.ok = n # 0, !.new = WholeDisk(h, n)]
  BY <1>1, <1>4 DEF Allocated
<1>7. CASE n = 0
  <2>1. a = [call EXCEPT !.disk = d, !.ok = FALSE, !.new = WholeDisk(h, 0)]
    BY <1>5, <1>6, <1>7
  <2>2. WholeDisk(h, 0) \in Block
    <3>1. 0 \in 0 .. block_per_group - 1
      BY Constants
    <3> QED
      BY <1>5, <3>1, Numbered
  <2>3. a \in Call /\ a.disk = d /\ a.ip = call.ip /\ a.ok = FALSE
    BY <1>2, <2>1, <2>2 DEF Call
  <2> QED
    BY <1>2, <1>5, <1>7, <2>3 DEF NoneFree
<1>8. CASE n # 0
  <2>1. PICK e, x : e = Taken(d, h, n) /\ x = WholeDisk(h, n)
    OBVIOUS
  <2>2. e \in MapDisk /\ BlockCounts(e) /\ Marked(d, e, x)
    BY <1>2, <1>5, <1>8, <2>1, TakenMarks
  <2>3. a = [call EXCEPT !.disk = e, !.ok = TRUE, !.new = x]
    BY <1>5, <1>6, <1>8, <2>1
  <2>4. x \in Block
    BY <2>2 DEF Marked
  <2>5. a \in Call /\ a.disk = e /\ a.ip = call.ip /\ a.ok = TRUE /\ a.new = x
    BY <2>2, <2>3, <2>4 DEF Call
  <2> QED
    BY <1>2, <2>2, <2>5
<1> QED
  BY <1>7, <1>8

LEMMA StoreInInodeFacts ==
  ASSUME NEW call \in Call, NEW n \in 0 .. NDIRECT + 2, NEW r, r = StoreInInode(call, n)
  PROVE  /\ r \in Call /\ r.disk = call.disk /\ r.ok = call.ok /\ r.new = call.new
         /\ r.ip.blocks = call.ip.blocks
         /\ \A m \in 0 .. NDIRECT + 2 :
              r.ip.block[m] = IF m = n THEN call.new ELSE call.ip.block[m]
<1>1. PICK x : x = [call.ip EXCEPT !.block[n] = call.new]
  OBVIOUS
<1>2. /\ x \in MapInode /\ x.blocks = call.ip.blocks
      /\ \A m \in 0 .. NDIRECT + 2 :
           x.block[m] = IF m = n THEN call.new ELSE call.ip.block[m]
  BY <1>1 DEF Call, MapInode
<1>3. r = [call EXCEPT !.ip = x]
  BY <1>1 DEF StoreInInode, Call
<1>4. r \in Call /\ r.disk = call.disk /\ r.ok = call.ok /\ r.new = call.new /\ r.ip = x
  BY <1>2, <1>3 DEF Call
<1> QED
  BY <1>2, <1>4

LEMMA StoreFacts ==
  ASSUME NEW call \in Call, NEW c \in Block, NEW s \in Slot, NEW r, r = Store(call, c, s)
  PROVE  /\ r \in Call /\ r.ip = call.ip /\ r.ok = call.ok /\ r.new = call.new
         /\ r.disk.block_bitmap = call.disk.block_bitmap /\ r.disk.gd = call.disk.gd
         /\ \A a \in Block, t \in Slot :
              Points(r.disk, a, t) = IF a = c /\ t = s THEN call.new
                                     ELSE Points(call.disk, a, t)
<1>1. PICK x : x = [call.disk.data EXCEPT ![c][s] = Pointer(call.new)]
  OBVIOUS
<1>2. Pointer(call.new) \in MapEntry /\ Pointer(call.new).inode = call.new
  BY DEF Call, Pointer, Named, MapEntry
<1>3. call.disk.data \in [Block -> [Slot -> MapEntry]]
  BY DEF Call, MapDisk
<1>4. /\ x \in [Block -> [Slot -> MapEntry]]
      /\ \A a \in Block, t \in Slot :
           x[a][t] = IF a = c /\ t = s THEN Pointer(call.new) ELSE call.disk.data[a][t]
  BY <1>1, <1>2, <1>3
<1>5. PICK y : y = [call.disk EXCEPT !.data = x]
  OBVIOUS
<1>6. /\ y \in MapDisk /\ y.data = x
      /\ y.block_bitmap = call.disk.block_bitmap /\ y.gd = call.disk.gd
  BY <1>4, <1>5 DEF Call, MapDisk
<1>7. r = [call EXCEPT !.disk = y]
  BY <1>1, <1>5 DEF Store, Call, MapDisk
<1>8. r \in Call /\ r.disk = y /\ r.ok = call.ok /\ r.new = call.new /\ r.ip = call.ip
  BY <1>6, <1>7 DEF Call
<1> QED
  BY <1>2, <1>4, <1>6, <1>8 DEF Points

\* A call on the disk d, for the file with inode ip and nodes F and the marked
\* block b, has found blocks for the nodes A that F does not have, and no more.
Reached(d, ip, F, o, b, call, A) ==
  /\ call \in Call /\ BlockCounts(call.disk) /\ call.ip.blocks = ip.blocks
  /\ F \subseteq A /\ Linked(A) /\ Owned(call.disk, call.ip, A, o)
  /\ SamePointed(d, ip, call.disk, call.ip, F)
  /\ d.block_bitmap \subseteq call.disk.block_bitmap
  /\ \A c \in call.disk.block_bitmap :
       c \in d.block_bitmap \/ \E v \in A \ F : c = Pointed(call.disk, call.ip, v)
  /\ b \in call.disk.block_bitmap \ o
  /\ \A v \in A : Pointed(call.disk, call.ip, v) # b

\* Block call.new is entered as node w.
EnterNode(call, d, ip, w) ==
  IF InInode(w) THEN StoreInInode(call, InodeSlot(w))
  ELSE Store(call, Pointed(d, ip, Parent(w)), ParentSlot(w))

EnteredNode(call, A, o, w, r) ==
  /\ r \in Call /\ r.ok = call.ok /\ r.new = call.new
  /\ r.ip.blocks = call.ip.blocks
  /\ r.disk.block_bitmap = call.disk.block_bitmap /\ r.disk.gd = call.disk.gd
  /\ Linked(A \cup {w}) /\ SamePointed(call.disk, call.ip, r.disk, r.ip, A)
  /\ Pointed(r.disk, r.ip, w) = call.new /\ Owned(r.disk, r.ip, A \cup {w}, o)

LEMMA EnterNodeFacts ==
  ASSUME NEW call \in Call, NEW d, NEW ip, NEW A, Linked(A),
         NEW o, Owned(call.disk, call.ip, A, o),
         SamePointed(d, ip, call.disk, call.ip, A),
         NEW w \in Node, w \notin A, Start(w) < Capacity,
         ~InInode(w) => Parent(w) \in A,
         call.new \in call.disk.block_bitmap \ o,
         \A v \in A : Pointed(call.disk, call.ip, v) # call.new,
         NEW r, r = EnterNode(call, d, ip, w)
  PROVE  EnteredNode(call, A, o, w, r)
<1>0. call.disk \in MapDisk
  BY DEF Call
<1>1. /\ r \in Call /\ r.ok = call.ok /\ r.new = call.new
      /\ r.ip.blocks = call.ip.blocks
      /\ r.disk.block_bitmap = call.disk.block_bitmap /\ r.disk.gd = call.disk.gd
      /\ Entered(call.disk, call.ip, r.disk, r.ip, w, call.new)
  <2>1. CASE InInode(w)
    <3>1. InodeSlot(w) \in 0 .. NDIRECT + 2 /\ r = StoreInInode(call, InodeSlot(w))
      BY <2>1, Places DEF EnterNode
    <3> QED
      BY <2>1, <3>1, StoreInInodeFacts DEF Entered
  <2>2. CASE ~InInode(w)
    <3>1. PICK c, s : c = Pointed(d, ip, Parent(w)) /\ s = ParentSlot(w)
      OBVIOUS
    <3>2. /\ r = Store(call, c, s) /\ s \in Slot
          /\ c = Pointed(call.disk, call.ip, Parent(w)) /\ c \in Block
      BY <1>0, <2>2, <3>1, ParentNode, MapDiskFacts DEF EnterNode, SamePointed, Owned
    <3> QED
      BY <2>2, <3>1, <3>2, StoreFacts DEF Entered
  <2> QED
    BY <2>1, <2>2
<1>2. PICK e, x : e = call.disk /\ x = call.new
  OBVIOUS
<1>3. PICK jp : jp = call.ip
  OBVIOUS
<1>4. /\ e \in MapDisk /\ Owned(e, jp, A, o) /\ x \in e.block_bitmap \ o
      /\ \A v \in A : Pointed(e, jp, v) # x
      /\ Entered(e, jp, r.disk, r.ip, w, x)
  BY <1>0, <1>1, <1>2, <1>3
<1>5. /\ Linked(A \cup {w}) /\ SamePointed(e, jp, r.disk, r.ip, A)
      /\ Pointed(r.disk, r.ip, w) = x /\ Owned(r.disk, r.ip, A \cup {w}, o)
  BY <1>4, EnteredOwned, SMTT(60)
<1> QED
  BY <1>1, <1>2, <1>3, <1>5 DEF EnteredNode

\* One more table, looked for from the group of block near on.
Tried(call, near, w) ==
  LET a == Allocated(call, near)
  IN  IF ~a.ok THEN a ELSE EnterNode(a, call.disk, call.ip, w)

Outcome(d, ip, F, o, b, r, A, w) ==
  /\ r.ok = TRUE \/ r.ok = FALSE
  /\ r.ok = TRUE => Reached(d, ip, F, o, b, r, A \cup {w})
  /\ r.ok = FALSE => Reached(d, ip, F, o, b, r, A) /\ NoneFree(r.disk)

LEMMA TableReached ==
  ASSUME NEW d, NEW ip, NEW F, NEW o, o \subseteq d.block_bitmap, NEW b, NEW call, NEW A,
         Reached(d, ip, F, o, b, call, A),
         NEW w \in Node, w \notin A, Start(w) < Capacity,
         ~InInode(w) => Parent(w) \in A, NEW near \in Block,
         NEW r, r = Tried(call, near, w)
  PROVE  Outcome(d, ip, F, o, b, r, A, w)
<1> DEFINE a == Allocated(call, near)
<1>0. r = IF ~a.ok THEN a ELSE EnterNode(a, call.disk, call.ip, w)
  BY DEF Tried
<1> HIDE DEF a
<1>1. PICK e \in MapDisk, jp \in MapInode : e = call.disk /\ jp = call.ip
  BY DEF Reached, Call
<1>2. /\ call \in Call /\ BlockCounts(e) /\ jp.blocks = ip.blocks
      /\ F \subseteq A /\ Linked(A) /\ Owned(e, jp, A, o)
      /\ SamePointed(d, ip, e, jp, F)
      /\ d.block_bitmap \subseteq e.block_bitmap
      /\ \A c \in e.block_bitmap : c \in d.block_bitmap \/ \E v \in A \ F : c = Pointed(e, jp, v)
      /\ b \in e.block_bitmap \ o
      /\ \A v \in A : Pointed(e, jp, v) # b
  BY <1>1 DEF Reached
<1>3. /\ a \in Call /\ BlockCounts(a.disk) /\ a.ip = jp
      /\ a.ok = TRUE => Marked(e, a.disk, a.new)
      /\ a.ok = FALSE => a.disk = e /\ NoneFree(a.disk)
  BY <1>1, <1>2, AllocatedFacts DEF a
<1>4. a.ok = TRUE \/ a.ok = FALSE
  BY <1>3 DEF Call
<1>5. CASE a.ok = FALSE
  <2>1. r = a
    BY <1>0, <1>5
  <2>2. Reached(d, ip, F, o, b, a, A)
    BY <1>2, <1>3, <1>5 DEF Reached
  <2> QED
    BY <1>3, <1>5, <2>1, <2>2 DEF Outcome
<1>6. CASE a.ok = TRUE
  <2>1. r = EnterNode(a, e, jp, w)
    BY <1>0, <1>1, <1>6
  <2>2. PICK f \in MapDisk, x \in Block : f = a.disk /\ x = a.new
    BY <1>3 DEF Call
  <2>3. Marked(e, f, x)
    BY <1>3, <1>6, <2>2
  <2>4. /\ SamePointed(e, jp, f, jp, A) /\ Owned(f, jp, A, o)
        /\ \A v \in A : Pointed(f, jp, v) # x
    BY <1>2, <2>3, MarkedOwned
  <2>5. x \in f.block_bitmap \ o /\ f.block_bitmap = e.block_bitmap \cup {x} /\ x # b
    BY <1>2, <2>3 DEF Marked
  <2>6. /\ Owned(a.disk, a.ip, A, o) /\ SamePointed(e, jp, a.disk, a.ip, A)
        /\ a.new \in a.disk.block_bitmap \ o
        /\ \A v \in A : Pointed(a.disk, a.ip, v) # a.new
        /\ a \in Call /\ Linked(A)
    BY <1>2, <1>3, <2>2, <2>4, <2>5
  <2>7. /\ r \in Call /\ r.ok = TRUE /\ r.new = x /\ r.ip.blocks = jp.blocks
        /\ r.disk.block_bitmap = f.block_bitmap /\ r.disk.gd = f.gd
        /\ Linked(A \cup {w}) /\ SamePointed(f, jp, r.disk, r.ip, A)
        /\ Pointed(r.disk, r.ip, w) = x /\ Owned(r.disk, r.ip, A \cup {w}, o)
    <3>1. /\ r \in Call /\ r.ok = a.ok /\ r.new = a.new /\ r.ip.blocks = a.ip.blocks
          /\ r.disk.block_bitmap = a.disk.block_bitmap /\ r.disk.gd = a.disk.gd
          /\ Linked(A \cup {w}) /\ SamePointed(a.disk, a.ip, r.disk, r.ip, A)
          /\ Pointed(r.disk, r.ip, w) = a.new /\ Owned(r.disk, r.ip, A \cup {w}, o)
      BY <2>1, <2>6, EnterNodeFacts DEF EnteredNode
    <3> QED
      BY <1>3, <1>6, <2>2, <3>1
  <2>8. BlockCounts(r.disk)
    BY <1>3, <2>2, <2>7, SameCounts
  <2>9. \A v \in A : Pointed(r.disk, r.ip, v) = Pointed(e, jp, v)
    BY <2>4, <2>7 DEF SamePointed
  <2>10. SamePointed(d, ip, r.disk, r.ip, F)
    BY <1>2, <2>9 DEF SamePointed
  <2>11. \A c \in r.disk.block_bitmap :
           c \in d.block_bitmap \/ \E v \in (A \cup {w}) \ F : c = Pointed(r.disk, r.ip, v)
    <3>1. w \notin F
      BY <1>2
    <3> QED
      BY <1>2, <2>5, <2>7, <2>9, <3>1
  <2>12. /\ b \in r.disk.block_bitmap \ o /\ d.block_bitmap \subseteq r.disk.block_bitmap
         /\ \A v \in A \cup {w} : Pointed(r.disk, r.ip, v) # b
    BY <1>2, <2>5, <2>7, <2>9
  <2>13. F \subseteq A \cup {w} /\ r.ip.blocks = ip.blocks
    BY <1>2, <2>7
  <2>14. Reached(d, ip, F, o, b, r, A \cup {w})
    BY <2>7, <2>8, <2>10, <2>11, <2>12, <2>13 DEF Reached
  <2> QED
    BY <2>7, <2>14 DEF Outcome
<1> QED
  BY <1>4, <1>5, <1>6

-----------------------------------------------------------------------------
(* The tables that begin with block k *)

LEMMA NodesLinked ==
  ASSUME NEW n \in Nat, n <= Capacity
  PROVE  Linked(Nodes(n))
<1> SUFFICES ASSUME NEW v \in Nodes(n)
             PROVE  /\ v \in Node /\ Start(v) < Capacity
                    /\ ~InInode(v) => Parent(v) \in Nodes(n)
  BY DEF Linked
<1>1. v \in Node /\ Start(v) \in Nat /\ Start(v) < n
  BY StartFacts DEF Nodes
<1>2. Start(v) < Capacity
  BY <1>1, MapSizes
<1>3. ASSUME ~InInode(v) PROVE Parent(v) \in Nodes(n)
  <2>1. Parent(v) \in Node /\ Start(Parent(v)) <= Start(v)
    BY <1>1, <1>2, <1>3, ParentNode
  <2>2. Start(Parent(v)) \in Nat
    BY <2>1, StartFacts
  <2> QED
    BY <1>1, <2>1, <2>2 DEF Nodes
<1> QED
  BY <1>1, <1>2, <1>3

\* The nodes before block k, and those from level l on that begin with it.
Above(k, l) == Nodes(k) \cup {v \in Node : Start(v) = k /\ v[1] >= l}

LEMMA AboveEnds ==
  ASSUME NEW k \in Nat
  PROVE  Above(k, 4) = Nodes(k) /\ Above(k, 0) = Nodes(k + 1)
<1>1. \A v \in Node : v[1] \in 0 .. 3 /\ Start(v) \in Nat
  BY NodeForms, StartFacts
<1>2. Above(k, 4) = Nodes(k)
  BY <1>1 DEF Above
<1>3. Above(k, 0) = Nodes(k + 1)
  <2>1. \A v \in Node : Start(v) < k + 1 <=> Start(v) < k \/ (Start(v) = k /\ v[1] >= 0)
    BY <1>1
  <2> QED
    BY <2>1 DEF Above, Nodes
<1> QED
  BY <1>2, <1>3

LEMMA AboveNext ==
  ASSUME NEW k \in Nat, NEW l \in 0 .. 3
  PROVE  Above(k, l) = Above(k, l + 1) \cup {v \in Node : Start(v) = k /\ v[1] = l}
<1>1. \A v \in Node : v[1] >= l <=> v[1] >= l + 1 \/ v[1] = l
  BY NodeForms
<1> QED
  BY <1>1 DEF Above

\* The table a node is entered in begins before it or is above it.
LEMMA AboveParent ==
  ASSUME NEW k \in Nat, k < Capacity, NEW w \in Node, Start(w) = k
  PROVE  /\ w \notin Above(k, w[1] + 1)
         /\ ~InInode(w) => Parent(w) \in Above(k, w[1] + 1)
<1>1. w[1] \in 0 .. 3
  BY NodeForms
<1>2. w \notin Above(k, w[1] + 1)
  BY <1>1 DEF Above, Nodes
<1>3. ASSUME ~InInode(w) PROVE Parent(w) \in Above(k, w[1] + 1)
  <2>1. Parent(w) \in Node /\ Start(Parent(w)) <= k /\ Parent(w)[1] = w[1] + 1
    BY <1>3, ParentNode
  <2>2. Start(Parent(w)) \in Nat
    BY <2>1, StartFacts
  <2>3. Start(Parent(w)) < k \/ Start(Parent(w)) = k
    BY <2>1, <2>2
  <2> QED
    BY <1>1, <2>1, <2>3 DEF Above, Nodes
<1> QED
  BY <1>2, <1>3

\* Which table of a level begins with block k, if any.
LEMMA StartsAt ==
  ASSUME NEW m \in Nat \ {0}, NEW a \in Nat, NEW k \in Nat, NEW i \in Nat
  PROVE  a + i * m = k <=> k >= a /\ (k - a) % m = 0 /\ i = (k - a) \div m
<1>1. PICK x : x = i * m
  OBVIOUS
<1>2. x \in Nat
  BY <1>1, Multiply
<1>3. ASSUME a + x = k PROVE k >= a /\ (k - a) % m = 0 /\ i = (k - a) \div m
  <2>1. PICK n \in Nat : n = k - a /\ n = i * m + 0
    BY <1>1, <1>2, <1>3
  <2>2. n \div m = i /\ n % m = 0
    <3>1. 0 \in 0 .. m - 1
      OBVIOUS
    <3> QED
      BY <2>1, <3>1, DivUnique
  <2> QED
    BY <1>2, <1>3, <2>1, <2>2
<1>4. ASSUME k >= a, (k - a) % m = 0, i = (k - a) \div m PROVE a + x = k
  <2>1. PICK n \in Nat : n = k - a
    BY <1>4
  <2>2. n = (n \div m) * m + (n % m)
    BY DivMod
  <2>3. n = i * m
    BY <1>2, <1>1, <1>4, <2>1, <2>2
  <2> QED
    BY <1>1, <2>1, <2>3
<1> QED
  BY <1>1, <1>3, <1>4

TripleAt(k)   == k = TRIPLE
DoubleAt(k)   == k >= DOUBLE /\ (k - DOUBLE) % DoubleNum = 0
IndirectAt(k) == k >= SINGLE /\ (k - SINGLE) % PerBlock = 0

LEMMA NodeAt ==
  ASSUME NEW k \in Nat, NEW v \in Node
  PROVE  /\ v[1] = 3 => (Start(v) = k <=> TripleAt(k) /\ v = <<3, 0>>)
         /\ v[1] = 2 => (Start(v) = k <=>
                           DoubleAt(k) /\ v = <<2, (k - DOUBLE) \div DoubleNum>>)
         /\ v[1] = 1 => (Start(v) = k <=>
                           IndirectAt(k) /\ v = <<1, (k - SINGLE) \div PerBlock>>)
         /\ v[1] = 0 => (Start(v) = k <=> v = <<0, k>>)
<1>1. PICK l \in 0 .. 3, i \in Nat : v = <<l, i>> /\ (l = 3 => i = 0)
  BY NodeForms
<1>2. CASE l = 3
  BY <1>1, <1>2, StartFacts DEF TripleAt
<1>3. CASE l = 2
  <2>1. Start(v) = DOUBLE + i * DoubleNum
    BY <1>1, <1>3, StartFacts
  <2>2. DoubleNum \in Nat \ {0} /\ DOUBLE \in Nat
    BY MapSizes
  <2>3. DOUBLE + i * DoubleNum = k <=>
          k >= DOUBLE /\ (k - DOUBLE) % DoubleNum = 0 /\ i = (k - DOUBLE) \div DoubleNum
    BY <2>2, StartsAt
  <2> QED
    BY <1>1, <1>3, <2>1, <2>3 DEF DoubleAt
<1>4. CASE l = 1
  <2>1. Start(v) = SINGLE + i * PerBlock
    BY <1>1, <1>4, StartFacts
  <2>2. PerBlock \in Nat \ {0} /\ SINGLE \in Nat
    BY MapSizes
  <2>3. SINGLE + i * PerBlock = k <=>
          k >= SINGLE /\ (k - SINGLE) % PerBlock = 0 /\ i = (k - SINGLE) \div PerBlock
    BY <2>2, StartsAt
  <2> QED
    BY <1>1, <1>4, <2>1, <2>3 DEF IndirectAt
<1>5. CASE l = 0
  BY <1>1, <1>5, StartFacts
<1> QED
  BY <1>1, <1>2, <1>3, <1>4, <1>5

LEMMA NodesAt ==
  ASSUME NEW k \in Nat
  PROVE  /\ TripleAt(k) => <<3, 0>> \in Node /\ Start(<<3, 0>>) = k
         /\ DoubleAt(k) => /\ (k - DOUBLE) \div DoubleNum \in Nat
                           /\ <<2, (k - DOUBLE) \div DoubleNum>> \in Node
                           /\ Start(<<2, (k - DOUBLE) \div DoubleNum>>) = k
         /\ IndirectAt(k) => /\ (k - SINGLE) \div PerBlock \in Nat
                             /\ <<1, (k - SINGLE) \div PerBlock>> \in Node
                             /\ Start(<<1, (k - SINGLE) \div PerBlock>>) = k
         /\ <<0, k>> \in Node /\ Start(<<0, k>>) = k
<1>1. TripleAt(k) => <<3, 0>> \in Node /\ Start(<<3, 0>>) = k
  <2>1. <<3, 0>> \in Node
    BY NodeIs
  <2> QED
    BY <2>1, NodeAt
<1>2. DoubleAt(k) => /\ (k - DOUBLE) \div DoubleNum \in Nat
                     /\ <<2, (k - DOUBLE) \div DoubleNum>> \in Node
                     /\ Start(<<2, (k - DOUBLE) \div DoubleNum>>) = k
  <2> SUFFICES ASSUME DoubleAt(k)
               PROVE  /\ (k - DOUBLE) \div DoubleNum \in Nat
                      /\ <<2, (k - DOUBLE) \div DoubleNum>> \in Node
                      /\ Start(<<2, (k - DOUBLE) \div DoubleNum>>) = k
    OBVIOUS
  <2>1. PICK n, q : n \in Nat /\ n = k - DOUBLE /\ q = n \div DoubleNum
    BY MapSizes DEF DoubleAt
  <2>2. DoubleNum \in Nat \ {0}
    BY MapSizes
  <2>3. q \in Nat
    BY <2>1, <2>2, DivMod
  <2>4. <<2, q>> \in Node
    BY <2>3, NodeIs
  <2>5. <<2, q>> \in Node /\ <<2, q>>[1] = 2 /\ q = (k - DOUBLE) \div DoubleNum
    BY <2>1, <2>4
  <2> QED
    BY <2>3, <2>5, NodeAt
<1>3. IndirectAt(k) => /\ (k - SINGLE) \div PerBlock \in Nat
                       /\ <<1, (k - SINGLE) \div PerBlock>> \in Node
                       /\ Start(<<1, (k - SINGLE) \div PerBlock>>) = k
  <2> SUFFICES ASSUME IndirectAt(k)
               PROVE  /\ (k - SINGLE) \div PerBlock \in Nat
                      /\ <<1, (k - SINGLE) \div PerBlock>> \in Node
                      /\ Start(<<1, (k - SINGLE) \div PerBlock>>) = k
    OBVIOUS
  <2>1. PICK n, q : n \in Nat /\ n = k - SINGLE /\ q = n \div PerBlock
    BY MapSizes DEF IndirectAt
  <2>2. PerBlock \in Nat \ {0}
    BY MapSizes
  <2>3. q \in Nat
    BY <2>1, <2>2, DivMod
  <2>4. <<1, q>> \in Node
    BY <2>3, NodeIs
  <2>5. <<1, q>> \in Node /\ <<1, q>>[1] = 1 /\ q = (k - SINGLE) \div PerBlock
    BY <2>1, <2>4
  <2> QED
    BY <2>3, <2>5, NodeAt
<1>4. <<0, k>> \in Node /\ Start(<<0, k>>) = k
  <2>1. <<0, k>> \in Node
    BY NodeIs
  <2> QED
    BY <2>1, NodeAt
<1> QED
  BY <1>1, <1>2, <1>3, <1>4

\* The call has seen to the nodes from level l on, or found the disk full
\* before, when at most the triple and the double indirect block were found.
Staged(d, ip, o, b, call, k, l) ==
  /\ call.ok = TRUE \/ call.ok = FALSE
  /\ call.ok = TRUE => Reached(d, ip, Nodes(k), o, b, call, Above(k, l))
  /\ call.ok = FALSE =>
       /\ NoneFree(call.disk)
       /\ \E m \in 2 .. 4 : Reached(d, ip, Nodes(k), o, b, call, Above(k, m))

LEMMA StageSkipped ==
  ASSUME NEW d, NEW ip, NEW o, NEW b, NEW call, NEW k \in Nat, NEW l \in 1 .. 3,
         Staged(d, ip, o, b, call, k, l + 1),
         call.ok = TRUE => \A v \in Node : v[1] = l => Start(v) # k
  PROVE  Staged(d, ip, o, b, call, k, l)
<1>1. CASE call.ok = TRUE
  <2>1. Above(k, l) = Above(k, l + 1)
    <3>1. \A v \in Node : ~(Start(v) = k /\ v[1] = l)
      BY <1>1
    <3>2. {v \in Node : Start(v) = k /\ v[1] = l} = {}
      BY <3>1
    <3>3. l \in 0 .. 3
      OBVIOUS
    <3>4. Above(k, l) = Above(k, l + 1) \cup {v \in Node : Start(v) = k /\ v[1] = l}
      BY <3>3, AboveNext
    <3> QED
      BY <3>2, <3>4
  <2> QED
    BY <1>1, <2>1 DEF Staged
<1>2. CASE call.ok # TRUE
  BY <1>2 DEF Staged
<1> QED
  BY <1>1, <1>2

LEMMA StageTaken ==
  ASSUME NEW d, NEW ip, NEW o, o \subseteq d.block_bitmap, NEW b, NEW call,
         NEW k \in Nat, k < Capacity, NEW l \in 1 .. 3,
         Staged(d, ip, o, b, call, k, l + 1), call.ok = TRUE,
         NEW w \in Node, w[1] = l, Start(w) = k, NEW near \in Block,
         NEW r, r = Tried(call, near, w)
  PROVE  Staged(d, ip, o, b, r, k, l)
<1>1. PICK A : A = Above(k, l + 1)
  OBVIOUS
<1>2. Reached(d, ip, Nodes(k), o, b, call, A)
  BY <1>1 DEF Staged
<1>3. w \notin A /\ (~InInode(w) => Parent(w) \in A)
  BY <1>1, AboveParent
<1>4. Outcome(d, ip, Nodes(k), o, b, r, A, w)
  <2>1. Start(w) < Capacity
    OBVIOUS
  <2> QED
    BY <1>2, <1>3, <2>1, TableReached
<1>5. A \cup {w} = Above(k, l)
  <2>1. {v \in Node : Start(v) = k /\ v[1] = l} = {w}
    <3>1. \A v \in Node : Start(v) = k /\ v[1] = l => v = w
      BY NodeAt
    <3> QED
      BY <3>1
  <2> QED
    BY <1>1, <2>1, AboveNext
<1>6. l + 1 \in 2 .. 4
  OBVIOUS
<1> QED
  <2>1. r.ok = FALSE => \E m \in 2 .. 4 : Reached(d, ip, Nodes(k), o, b, r, Above(k, m))
    BY <1>1, <1>4, <1>6 DEF Outcome
  <2>2. /\ r.ok = TRUE \/ r.ok = FALSE
        /\ r.ok = TRUE => Reached(d, ip, Nodes(k), o, b, r, Above(k, l))
        /\ r.ok = FALSE => NoneFree(r.disk)
    BY <1>4, <1>5 DEF Outcome
  <2> QED
    BY <2>1, <2>2, ZenonT(30) DEF Staged

LEMMA NearBlock ==
  ASSUME NEW d, NEW ip, NEW o, NEW b, NEW call, NEW F, NEW A,
         Reached(d, ip, F, o, b, call, A), NEW v \in A
  PROVE  Pointed(call.disk, call.ip, v) \in Block
BY MapDiskFacts DEF Reached, Owned, Call

LEMMA TripleStage ==
  ASSUME NEW d, NEW ip, NEW o, o \subseteq d.block_bitmap, NEW b, NEW call,
         NEW k \in Nat, k < Capacity, Staged(d, ip, o, b, call, k, 4), call.ok = TRUE
  PROVE  Staged(d, ip, o, b, WithTriple(call, k), k, 3)
<1>0. 3 + 1 = 4 /\ 3 \in 1 .. 3
  OBVIOUS
<1>1. CASE k # TRIPLE
  <2>1. \A v \in Node : v[1] = 3 => Start(v) # k
    BY <1>1, NodeAt DEF TripleAt
  <2> QED
    BY <1>0, <1>1, <2>1, StageSkipped DEF WithTriple
<1>2. CASE k = TRIPLE
  <2>1. PICK w : w = <<3, 0>>
    OBVIOUS
  <2>2. w \in Node /\ w[1] = 3 /\ Start(w) = k
    BY <1>2, <2>1, NodesAt DEF TripleAt
  <2>3. Home \in Block
    BY ZeroBlock DEF Home
  <2>4. PICK a : a = Allocated(call, Home)
    OBVIOUS
  <2>5. EnterNode(a, call.disk, call.ip, w) = StoreInInode(a, NDIRECT + 2)
    <3>1. InInode(w) /\ InodeSlot(w) = NDIRECT + 3 - 1
      BY <2>1 DEF InInode, InodeSlot
    <3>2. NDIRECT + 3 - 1 = NDIRECT + 2
      BY MapSizes
    <3> QED
      BY <3>1, <3>2 DEF EnterNode
  <2>6. WithTriple(call, k) = Tried(call, Home, w)
    BY <1>2, <2>4, <2>5 DEF WithTriple, Tried
  <2> QED
    BY <1>0, <2>2, <2>3, <2>6, StageTaken
<1> QED
  BY <1>1, <1>2

LEMMA DoubleStage ==
  ASSUME NEW d, NEW ip, NEW o, o \subseteq d.block_bitmap, NEW b, NEW call,
         NEW k \in Nat, k < Capacity, Staged(d, ip, o, b, call, k, 3)
  PROVE  Staged(d, ip, o, b, WithDouble(call, k), k, 2)
<1>0. 2 + 1 = 3 /\ 2 \in 1 .. 3
  OBVIOUS
<1>1. CASE call.ok = FALSE
  <2>1. WithDouble(call, k) = call
    BY <1>1 DEF WithDouble
  <2> QED
    BY <1>0, <1>1, <2>1, StageSkipped
<1>2. CASE call.ok = TRUE /\ ~DoubleAt(k)
  <2>1. \A v \in Node : v[1] = 2 => Start(v) # k
    BY <1>2, NodeAt
  <2>2. k < DOUBLE \/ (k - DOUBLE) % DoubleNum # 0
    BY <1>2, MapSizes DEF DoubleAt
  <2>3. WithDouble(call, k) = call
    BY <2>2 DEF WithDouble
  <2> QED
    BY <1>0, <2>1, <2>3, StageSkipped
<1>3. CASE call.ok = TRUE /\ DoubleAt(k)
  <2>1. PICK q \in Nat : q = (k - DOUBLE) \div DoubleNum
    BY <1>3, NodesAt
  <2>2. PICK w : w = <<2, q>>
    OBVIOUS
  <2>3. w \in Node /\ w[1] = 2 /\ w[2] = q /\ Start(w) = k
    BY <1>3, <2>1, <2>2, NodesAt
  <2>4. /\ k >= DOUBLE /\ ~(k < DOUBLE) /\ (k - DOUBLE) % DoubleNum = 0
        /\ k = DOUBLE + q * DoubleNum
    BY <1>3, <2>3, StartFacts, MapSizes DEF DoubleAt
  <2>5. /\ k < TRIPLE => q = 0
        /\ k >= TRIPLE => q # 0 /\ (k - TRIPLE) \div DoubleNum = q - 1
    BY <2>1, <2>4, Coordinates
  <2>6. PICK triple : triple = call.ip.block[NDIRECT + 2]
    OBVIOUS
  <2>7. PICK near : near = IF k < TRIPLE THEN Home ELSE triple
    OBVIOUS
  <2>8. q # 0 => triple = Pointed(call.disk, call.ip, Parent(w)) /\ triple \in Block
    <3> SUFFICES ASSUME q # 0
                 PROVE  triple = Pointed(call.disk, call.ip, Parent(w)) /\ triple \in Block
      OBVIOUS
    <3>1. ~InInode(w) /\ Parent(w) = <<3, 0>>
      BY <2>3 DEF InInode, Parent
    <3>2. Parent(w) \in Above(k, 3)
      BY <1>0, <2>3, <3>1, AboveParent
    <3>3. Pointed(call.disk, call.ip, Parent(w)) \in Block
      BY <1>3, <3>2, NearBlock DEF Staged
    <3> QED
      BY <2>6, <3>1, <3>3 DEF Pointed
  <2>9. near \in Block
    <3>1. k < TRIPLE \/ k >= TRIPLE
      BY MapSizes
    <3> QED
      BY <2>5, <2>7, <2>8, <3>1, ZeroBlock DEF Home
  <2>10. PICK a : a = Allocated(call, near)
    OBVIOUS
  <2>11. CASE k = DOUBLE
    <3>1. q = 0
      BY <2>5, <2>11, MapSizes
    <3>2. EnterNode(a, call.disk, call.ip, w) = StoreInInode(a, NDIRECT + 1)
      <4>1. InInode(w) /\ InodeSlot(w) = NDIRECT + 2 - 1
        BY <2>3, <3>1 DEF InInode, InodeSlot
      <4>2. NDIRECT + 2 - 1 = NDIRECT + 1
        BY MapSizes
      <4> QED
        BY <4>1, <4>2 DEF EnterNode
    <3>3. WithDouble(call, k) = Tried(call, near, w)
      BY <1>3, <2>4, <2>6, <2>7, <2>10, <2>11, <3>2 DEF WithDouble, Tried
    <3> QED
      BY <1>0, <1>3, <2>3, <2>9, <3>3, StageTaken
  <2>12. CASE k # DOUBLE
    <3>1. q # 0 /\ (k - TRIPLE) \div DoubleNum = q - 1
      <4>1. q # 0
        BY <2>4, <2>12, MapSizes
      <4>2. k < TRIPLE \/ k >= TRIPLE
        BY MapSizes
      <4> QED
        BY <2>5, <4>1, <4>2
    <3>2. EnterNode(a, call.disk, call.ip, w) = Store(a, triple, (k - TRIPLE) \div DoubleNum)
      <4>1. ~InInode(w) /\ ParentSlot(w) = q - 1
        BY <2>3, <3>1 DEF InInode, ParentSlot
      <4> QED
        BY <2>8, <3>1, <4>1 DEF EnterNode
    <3>3. WithDouble(call, k) = Tried(call, near, w)
      BY <1>3, <2>4, <2>6, <2>7, <2>10, <2>12, <3>2 DEF WithDouble, Tried
    <3> QED
      BY <1>0, <1>3, <2>3, <2>9, <3>3, StageTaken
  <2> QED
    BY <2>11, <2>12
<1> QED
  BY <1>1, <1>2, <1>3 DEF Staged

LEMMA IndirectStage ==
  ASSUME NEW d, NEW ip, NEW o, o \subseteq d.block_bitmap, NEW b, NEW call,
         NEW k \in Nat, k < Capacity, k >= SINGLE, Staged(d, ip, o, b, call, k, 2)
  PROVE  Staged(d, ip, o, b, WithIndirect(call, k), k, 1)
<1>0. 1 + 1 = 2 /\ 1 \in 1 .. 3
  OBVIOUS
<1>1. CASE call.ok = FALSE
  <2>1. WithIndirect(call, k) = call
    BY <1>1 DEF WithIndirect
  <2> QED
    BY <1>0, <1>1, <2>1, StageSkipped
<1>2. CASE call.ok = TRUE /\ ~IndirectAt(k)
  <2>1. \A v \in Node : v[1] = 1 => Start(v) # k
    BY <1>2, NodeAt
  <2>2. (k - SINGLE) % PerBlock # 0
    BY <1>2 DEF IndirectAt
  <2>3. WithIndirect(call, k) = call
    BY <2>2 DEF WithIndirect
  <2> QED
    BY <1>0, <2>1, <2>3, StageSkipped
<1>3. CASE call.ok = TRUE /\ IndirectAt(k)
  <2>1. PICK m \in Nat : m = (k - SINGLE) \div PerBlock
    BY <1>3, NodesAt
  <2>2. PICK w : w = <<1, m>>
    OBVIOUS
  <2>3. w \in Node /\ w[1] = 1 /\ w[2] = m /\ Start(w) = k
    BY <1>3, <2>1, <2>2, NodesAt
  <2>4. (k - SINGLE) % PerBlock = 0 /\ k = SINGLE + m * PerBlock
    BY <1>3, <2>3, StartFacts DEF IndirectAt
  <2>5. /\ m = 0 => k = SINGLE /\ k < DOUBLE
        /\ m # 0 => k # SINGLE /\ k >= DOUBLE /\ ~(k < DOUBLE)
    <3>1. PICK P, x : P \in Nat \ {0} /\ P = PerBlock /\ x = m * P /\ k = SINGLE + x
      BY <2>4, MapSizes
    <3>2. x \in Nat /\ (m = 0 => x = 0) /\ (m # 0 => P <= x)
      BY <3>1, Multiply
    <3> QED
      BY <3>1, <3>2, MapSizes
  <2>6. PICK double : double = DoubleOf(call.disk, call.ip, k)
    OBVIOUS
  <2>7. PICK near : near = IF k < DOUBLE THEN Home ELSE double
    OBVIOUS
  <2>8. m # 0 => /\ ~InInode(w) /\ ParentSlot(w) = DoubleSlot(k)
                 /\ double = Pointed(call.disk, call.ip, Parent(w)) /\ double \in Block
    <3> SUFFICES ASSUME m # 0
                 PROVE  /\ ~InInode(w) /\ ParentSlot(w) = DoubleSlot(k)
                        /\ double = Pointed(call.disk, call.ip, Parent(w)) /\ double \in Block
      OBVIOUS
    <3>1. PICK q : q = (k - DOUBLE) \div DoubleNum
      OBVIOUS
    <3>2. /\ (m - 1) \div PerBlock = q /\ (m - 1) % PerBlock = DoubleSlot(k)
          /\ double = Double(call.disk, call.ip, q)
      BY <2>1, <2>5, <2>6, <3>1, Coordinates, DoubleIs
    <3>3. ~InInode(w) /\ Parent(w) = <<2, q>> /\ ParentSlot(w) = DoubleSlot(k)
      BY <2>3, <3>2 DEF InInode, Parent, ParentSlot
    <3>4. Parent(w) \in Above(k, 2)
      BY <1>0, <2>3, <3>3, AboveParent
    <3>5. Pointed(call.disk, call.ip, Parent(w)) \in Block
      BY <1>3, <3>4, NearBlock DEF Staged
    <3>6. Pointed(call.disk, call.ip, Parent(w)) = Double(call.disk, call.ip, q)
      BY <3>3 DEF Pointed
    <3> QED
      BY <3>2, <3>3, <3>5, <3>6
  <2>9. near \in Block
    BY <2>5, <2>7, <2>8, ZeroBlock DEF Home
  <2>10. PICK a : a = Allocated(call, near)
    OBVIOUS
  <2>11. EnterNode(a, call.disk, call.ip, w) = IF k = SINGLE THEN StoreInInode(a, NDIRECT)
                                               ELSE Store(a, double, DoubleSlot(k))
    <3>1. CASE m = 0
      <4>1. InInode(w) /\ InodeSlot(w) = NDIRECT + 1 - 1
        BY <2>3, <3>1 DEF InInode, InodeSlot
      <4>2. NDIRECT + 1 - 1 = NDIRECT
        BY MapSizes
      <4> QED
        BY <2>5, <3>1, <4>1, <4>2 DEF EnterNode
    <3>2. CASE m # 0
      BY <2>5, <2>8, <3>2 DEF EnterNode
    <3> QED
      BY <3>1, <3>2
  <2>12. WithIndirect(call, k) = Tried(call, near, w)
    BY <1>3, <2>4, <2>6, <2>7, <2>10, <2>11 DEF WithIndirect, Tried
  <2> QED
    BY <1>0, <1>3, <2>3, <2>9, <2>12, StageTaken
<1> QED
  BY <1>1, <1>2, <1>3 DEF Staged

\* The last pointer: block k itself.
LEMMA DataNode ==
  ASSUME NEW d, NEW ip, NEW k \in Nat
  PROVE  /\ <<0, k>> \in Node /\ Start(<<0, k>>) = k /\ <<0, k>> \notin Above(k, 1)
         /\ k < Capacity /\ ~InInode(<<0, k>>) => Parent(<<0, k>>) \in Above(k, 1)
         /\ InInode(<<0, k>>) <=> k < SINGLE
         /\ Above(k, 1) \cup {<<0, k>>} = Nodes(k + 1)
         /\ k < SINGLE => Above(k, 1) = Nodes(k) /\ InodeSlot(<<0, k>>) = k
         /\ k >= SINGLE => /\ ParentSlot(<<0, k>>) = IndirectSlot(k)
                           /\ Pointed(d, ip, Parent(<<0, k>>)) = IndirectOf(d, ip, k)
<1>1. PICK w : w = <<0, k>>
  OBVIOUS
<1>2. w \in Node /\ w[1] = 0 /\ w[2] = k /\ Start(w) = k
  BY <1>1, NodesAt
<1>3. w \notin Above(k, 1) /\ (k < Capacity /\ ~InInode(w) => Parent(w) \in Above(k, 1))
  <2>1. w[1] + 1 = 1
    BY <1>2
  <2>2. w \notin Above(k, 1)
    <3>1. ~(w[1] >= 1) /\ ~(Start(w) < k)
      BY <1>2
    <3> QED
      BY <3>1 DEF Above, Nodes
  <2> QED
    BY <1>2, <2>1, <2>2, AboveParent
<1>4. InInode(w) <=> k < SINGLE
  BY <1>2 DEF InInode
<1>5. Above(k, 1) \cup {w} = Nodes(k + 1)
  <2>1. {v \in Node : Start(v) = k /\ v[1] = 0} = {w}
    <3>1. \A v \in Node : v[1] = 0 => (Start(v) = k <=> v = w)
      BY <1>1, NodeAt
    <3> QED
      BY <1>2, <3>1
  <2>2. 0 \in 0 .. 3 /\ 0 + 1 = 1
    OBVIOUS
  <2>3. Above(k, 0) = Above(k, 1) \cup {v \in Node : Start(v) = k /\ v[1] = 0}
    BY <2>2, AboveNext
  <2> QED
    BY <2>1, <2>3, AboveEnds
<1>6. k < SINGLE => Above(k, 1) = Nodes(k) /\ InodeSlot(w) = k
  <2> SUFFICES ASSUME k < SINGLE PROVE Above(k, 1) = Nodes(k) /\ InodeSlot(w) = k
    OBVIOUS
  <2>1. ASSUME NEW v \in Node, v[1] >= 1 PROVE Start(v) # k
    <3>1. v[1] = 1 \/ v[1] = 2 \/ v[1] = 3
      BY <2>1, NodeForms
    <3>2. ~TripleAt(k) /\ ~DoubleAt(k) /\ ~IndirectAt(k)
      BY MapSizes DEF TripleAt, DoubleAt, IndirectAt
    <3> QED
      BY <3>1, <3>2, NodeAt
  <2>2. Above(k, 1) = Nodes(k)
    BY <2>1 DEF Above
  <2> QED
    BY <1>2, <2>2 DEF InodeSlot
<1>7. k >= SINGLE => /\ ParentSlot(w) = IndirectSlot(k)
                     /\ Pointed(d, ip, Parent(w)) = IndirectOf(d, ip, k)
  <2> SUFFICES ASSUME k >= SINGLE
               PROVE  /\ ParentSlot(w) = IndirectSlot(k)
                      /\ Pointed(d, ip, Parent(w)) = IndirectOf(d, ip, k)
    OBVIOUS
  <2>1. ParentSlot(w) = IndirectSlot(k)
    BY <1>2 DEF ParentSlot, IndirectSlot
  <2>2. Parent(w) = <<1, (k - SINGLE) \div PerBlock>>
    BY <1>2 DEF Parent
  <2>3. Pointed(d, ip, Parent(w)) = Indirect(d, ip, (k - SINGLE) \div PerBlock)
    BY <2>2 DEF Pointed
  <2> QED
    BY <2>1, <2>3, IndirectIs
<1> QED
  BY <1>1, <1>2, <1>3, <1>4, <1>5, <1>6, <1>7

LEMMA SameBlocks ==
  ASSUME NEW d, NEW ip, NEW jp, jp.block = ip.block, NEW v
  PROVE  Pointed(d, jp, v) = Pointed(d, ip, v)
BY DEF Pointed, DataBlock, Indirect, Double

\* The file with inode ip has one more block, b.
Extended(d, ip, o, b, r) ==
  /\ r.ok = TRUE /\ r.disk \in MapDisk /\ r.ip \in MapInode /\ BlockCounts(r.disk)
  /\ r.ip.blocks = ip.blocks + 1
  /\ Owned(r.disk, r.ip, Nodes(ip.blocks + 1), o)
  /\ SamePointed(d, ip, r.disk, r.ip, Nodes(ip.blocks))
  /\ Pointed(r.disk, r.ip, <<0, ip.blocks>>) = b
  /\ d.block_bitmap \subseteq r.disk.block_bitmap
  /\ \A c \in r.disk.block_bitmap :
       c \in d.block_bitmap \/ \E v \in Nodes(ip.blocks + 1) : c = Pointed(r.disk, r.ip, v)

\* It has the blocks it had, and at most two others are marked on a full disk.
NotExtended(d, ip, o, r) ==
  /\ r.ok = FALSE /\ r.disk \in MapDisk /\ BlockCounts(r.disk) /\ r.ip = ip
  /\ Owned(r.disk, ip, Nodes(ip.blocks), o)
  /\ SamePointed(d, ip, r.disk, ip, Nodes(ip.blocks))
  /\ d.block_bitmap \subseteq r.disk.block_bitmap /\ NoneFree(r.disk)
  /\ \E x, y : \A c \in r.disk.block_bitmap : c \in d.block_bitmap \/ c \in {x, y}

\* What set_inode_block makes of a call that has all the tables it needs.
Finished(call, b, k) ==
  [EnterNode([call EXCEPT !.new = b], call.disk, call.ip, <<0, k>>)
     EXCEPT !.ip.blocks = k + 1]

LEMMA LastNode ==
  ASSUME NEW d, NEW ip, NEW o, NEW b \in Block, NEW call,
         NEW k \in Nat, k < Capacity, ip.blocks = k,
         Reached(d, ip, Nodes(k), o, b, call, Above(k, 1)), call.ok = TRUE,
         NEW r, r = Finished(call, b, k)
  PROVE  Extended(d, ip, o, b, r)
<1>1. PICK c : c = [call EXCEPT !.new = b]
  OBVIOUS
<1>2. PICK e, jp : e = call.disk /\ jp = call.ip
  OBVIOUS
<1>3. c \in Call /\ c.disk = e /\ c.ip = jp /\ c.ok = call.ok /\ c.new = b
  BY <1>1, <1>2 DEF Reached, Call
<1>4. PICK w, A : w = <<0, k>> /\ A = Above(k, 1)
  OBVIOUS
<1>5. /\ w \in Node /\ w \notin A /\ Start(w) < Capacity /\ (~InInode(w) => Parent(w) \in A)
      /\ A \cup {w} = Nodes(k + 1)
  BY <1>4, DataNode
<1>6. /\ Nodes(k) \subseteq A /\ Linked(A) /\ Owned(e, jp, A, o)
      /\ SamePointed(d, ip, e, jp, Nodes(k))
      /\ d.block_bitmap \subseteq e.block_bitmap
      /\ \A x \in e.block_bitmap :
           x \in d.block_bitmap \/ \E v \in A \ Nodes(k) : x = Pointed(e, jp, v)
      /\ b \in e.block_bitmap \ o /\ \A v \in A : Pointed(e, jp, v) # b
      /\ BlockCounts(e)
  BY <1>2, <1>4 DEF Reached
<1>7. PICK s : s = EnterNode(c, e, jp, w)
  OBVIOUS
<1>8. /\ s \in Call /\ s.ok = call.ok /\ s.disk.block_bitmap = e.block_bitmap
      /\ s.disk.gd = e.gd /\ Linked(A \cup {w}) /\ SamePointed(e, jp, s.disk, s.ip, A)
      /\ Pointed(s.disk, s.ip, w) = b /\ Owned(s.disk, s.ip, A \cup {w}, o)
  <2>1. /\ Owned(c.disk, c.ip, A, o) /\ SamePointed(e, jp, c.disk, c.ip, A)
        /\ c.new \in c.disk.block_bitmap \ o
        /\ \A v \in A : Pointed(c.disk, c.ip, v) # c.new
    BY <1>3, <1>6 DEF SamePointed
  <2>2. Linked(A) /\ c \in Call
    BY <1>3, <1>6
  <2>3. EnteredNode(c, A, o, w, s)
    BY <1>5, <1>7, <2>1, <2>2, EnterNodeFacts
  <2> QED
    BY <1>3, <2>3 DEF EnteredNode
<1>9. BlockCounts(s.disk)
  BY <1>6, <1>8, SameCounts
<1>10. r = [s EXCEPT !.ip.blocks = k + 1]
  BY <1>1, <1>2, <1>4, <1>7 DEF Finished
<1>11. /\ r.disk = s.disk /\ r.ip.block = s.ip.block /\ r.ok = s.ok
       /\ r.disk \in MapDisk /\ r.ip \in MapInode /\ r.ip.blocks = k + 1
  <2>1. PICK x : x = [s.ip EXCEPT !.blocks = k + 1]
    OBVIOUS
  <2>2. x \in MapInode /\ x.block = s.ip.block /\ x.blocks = k + 1
    BY <1>8, <2>1 DEF Call, MapInode
  <2>3. r = [s EXCEPT !.ip = x]
    BY <1>8, <1>10, <2>1 DEF Call
  <2> QED
    BY <1>8, <2>2, <2>3 DEF Call
<1>12. \A v : Pointed(r.disk, r.ip, v) = Pointed(s.disk, s.ip, v)
  BY <1>11, SameBlocks
<1>13. Owned(r.disk, r.ip, Nodes(k + 1), o) /\ Pointed(r.disk, r.ip, w) = b
  BY <1>5, <1>8, <1>11, <1>12 DEF Owned
<1>14. \A v \in A : Pointed(r.disk, r.ip, v) = Pointed(e, jp, v)
  BY <1>8, <1>12 DEF SamePointed
<1>15. SamePointed(d, ip, r.disk, r.ip, Nodes(k))
  BY <1>6, <1>14 DEF SamePointed
<1>16. \A x \in r.disk.block_bitmap :
         x \in d.block_bitmap \/ \E v \in Nodes(k + 1) : x = Pointed(r.disk, r.ip, v)
  <2>1. A \subseteq Nodes(k + 1)
    BY <1>5
  <2> QED
    BY <1>6, <1>8, <1>11, <1>14, <2>1
<1>17. d.block_bitmap \subseteq r.disk.block_bitmap /\ BlockCounts(r.disk) /\ r.ok = TRUE
  BY <1>6, <1>8, <1>9, <1>11
<1> QED
  BY <1>4, <1>11, <1>13, <1>15, <1>16, <1>17 DEF Extended

\* The inode that was not written still has the pointers of its nodes.
LEMMA FoundInVain ==
  ASSUME NEW d, NEW ip \in MapInode, NEW o, NEW b, NEW call, NEW k \in Nat, k <= Capacity,
         ip.blocks = k, NEW m \in 2 .. 4,
         Reached(d, ip, Nodes(k), o, b, call, Above(k, m)), NoneFree(call.disk),
         call.ok = FALSE, NEW r, r = [call EXCEPT !.ip = ip]
  PROVE  NotExtended(d, ip, o, r)
<1>1. PICK e, jp, A : e = call.disk /\ jp = call.ip /\ A = Above(k, m)
  OBVIOUS
<1>2. r.disk = e /\ r.ip = ip /\ r.ok = FALSE /\ e \in MapDisk
  BY <1>1 DEF Reached, Call
<1>3. /\ Nodes(k) \subseteq A /\ Linked(A) /\ Owned(e, jp, A, o)
      /\ SamePointed(d, ip, e, jp, Nodes(k))
      /\ d.block_bitmap \subseteq e.block_bitmap
      /\ \A x \in e.block_bitmap :
           x \in d.block_bitmap \/ \E v \in A \ Nodes(k) : x = Pointed(e, jp, v)
      /\ BlockCounts(e)
  BY <1>1 DEF Reached
<1>4. Linked(Nodes(k))
  BY NodesLinked
<1>5. SamePlaces(e, jp, e, ip, Nodes(k))
  <2>1. ASSUME NEW v \in Nodes(k), InInode(v)
        PROVE  ip.block[InodeSlot(v)] = jp.block[InodeSlot(v)]
    <3>1. v \in Node
      BY DEF Nodes
    <3>2. Pointed(e, jp, v) = jp.block[InodeSlot(v)] /\ Pointed(d, ip, v) = ip.block[InodeSlot(v)]
      BY <2>1, <3>1, PointedAt
    <3> QED
      BY <1>3, <3>2 DEF SamePointed
  <2> QED
    BY <2>1 DEF SamePlaces
<1>6. \A v \in Nodes(k) : Pointed(e, ip, v) = Pointed(e, jp, v)
  <2>1. SamePointed(e, jp, e, ip, Nodes(k))
    BY <1>4, <1>5, PlacesPoint
  <2> QED
    BY <2>1 DEF SamePointed
<1>7. Owned(e, ip, Nodes(k), o) /\ SamePointed(d, ip, e, ip, Nodes(k))
  BY <1>3, <1>6 DEF Owned, SamePointed
<1>8. \E x, y : \A c \in e.block_bitmap : c \in d.block_bitmap \/ c \in {x, y}
  <2>1. PICK u, v : u = <<3, 0>> /\ v = <<2, (k - DOUBLE) \div DoubleNum>>
    OBVIOUS
  <2>2. \A w \in A \ Nodes(k) : w = u \/ w = v
    <3> SUFFICES ASSUME NEW w \in A \ Nodes(k) PROVE w = u \/ w = v
      OBVIOUS
    <3>1. w \in Node /\ Start(w) = k /\ w[1] >= m
      BY <1>1 DEF Above
    <3>2. w[1] = 2 \/ w[1] = 3
      BY <3>1, NodeForms
    <3> QED
      BY <2>1, <3>1, <3>2, NodeAt
  <2>3. PICK x, y : x = Pointed(e, jp, u) /\ y = Pointed(e, jp, v)
    OBVIOUS
  <2>4. \A c \in e.block_bitmap : c \in d.block_bitmap \/ c \in {x, y}
    BY <1>3, <2>2, <2>3
  <2> QED
    BY <2>4
<1> QED
  BY <1>1, <1>2, <1>3, <1>7, <1>8 DEF NotExtended

\* Before set_inode_block allocates anything.
LEMMA FirstStage ==
  ASSUME NEW d \in MapDisk, BlockCounts(d), NEW ip \in MapInode, NEW k \in Nat, k <= Capacity,
         NEW o, Owned(d, ip, Nodes(k), o),
         NEW b \in d.block_bitmap \ o, \A v \in Nodes(k) : Pointed(d, ip, v) # b,
         NEW call, call = [disk |-> d, ip |-> ip, new |-> b, ok |-> TRUE]
  PROVE  /\ Reached(d, ip, Nodes(k), o, b, call, Nodes(k))
         /\ Staged(d, ip, o, b, call, k, 4) /\ call.ok = TRUE
<1>1. call \in Call /\ call.ok = TRUE /\ call.disk = d /\ call.ip = ip
  BY MapDiskFacts DEF Call
<1>2. Linked(Nodes(k))
  BY NodesLinked
<1>3. SamePointed(d, ip, d, ip, Nodes(k))
  BY DEF SamePointed
<1>4. Reached(d, ip, Nodes(k), o, b, call, Nodes(k))
  BY <1>1, <1>2, <1>3 DEF Reached
<1>5. Above(k, 4) = Nodes(k)
  BY AboveEnds
<1> QED
  BY <1>1, <1>4, <1>5 DEF Staged

LEMMA SetBlockFacts ==
  ASSUME NEW d \in MapDisk, BlockCounts(d), NEW ip \in MapInode, NEW k \in Nat, k < Capacity,
         ip.blocks = k, NEW o, o \subseteq d.block_bitmap, Owned(d, ip, Nodes(k), o),
         NEW b \in d.block_bitmap \ o, \A v \in Nodes(k) : Pointed(d, ip, v) # b,
         NEW r, r = SetBlock(d, ip, b)
  PROVE  Extended(d, ip, o, b, r) \/ NotExtended(d, ip, o, r)
<1>0. k <= Capacity
  BY MapSizes
<1>1. PICK call : call = [disk |-> d, ip |-> ip, new |-> b, ok |-> TRUE]
  OBVIOUS
<1>2. /\ Reached(d, ip, Nodes(k), o, b, call, Nodes(k))
      /\ Staged(d, ip, o, b, call, k, 4) /\ call.ok = TRUE
  BY <1>0, <1>1, FirstStage
<1>3. b \in Block
  BY MapDiskFacts
<1>4. CASE k < SINGLE
  <2>1. PICK w : w = <<0, k>>
    OBVIOUS
  <2>2. InInode(w) /\ InodeSlot(w) = k /\ Above(k, 1) = Nodes(k)
    BY <1>4, <2>1, DataNode
  <2>3. [call EXCEPT !.new = b] = call
    <3>1. PICK c : c = [call EXCEPT !.new = b]
      OBVIOUS
    <3>2. c = [disk |-> d, ip |-> ip, new |-> b, ok |-> TRUE]
      BY <1>1, <3>1
    <3> QED
      BY <1>1, <3>1, <3>2
  <2>4. EnterNode([call EXCEPT !.new = b], call.disk, call.ip, w) = StoreInInode(call, k)
    BY <2>2, <2>3 DEF EnterNode
  <2>5. r = [StoreInInode(call, k) EXCEPT !.ip.blocks = k + 1]
    BY <1>1, <1>4 DEF SetBlock
  <2>6. Extended(d, ip, o, b, r)
    <3>1. r = Finished(call, b, k)
      BY <2>1, <2>4, <2>5 DEF Finished
    <3>2. Reached(d, ip, Nodes(k), o, b, call, Above(k, 1))
      BY <1>2, <2>2
    <3> QED
      BY <1>2, <1>3, <3>1, <3>2, LastNode
  <2> QED
    BY <2>6
<1>5. CASE ~(k < SINGLE)
  <2>1. k >= SINGLE
    BY <1>5, MapSizes
  <2>2. PICK one : one = WithTriple(call, k)
    OBVIOUS
  <2>3. PICK two : two = WithDouble(one, k)
    OBVIOUS
  <2>4. PICK done : done = WithIndirect(two, k)
    OBVIOUS
  <2>5. Staged(d, ip, o, b, one, k, 3)
    BY <1>2, <2>2, TripleStage
  <2>6. Staged(d, ip, o, b, two, k, 2)
    BY <2>3, <2>5, DoubleStage
  <2>7. Staged(d, ip, o, b, done, k, 1)
    BY <2>1, <2>4, <2>6, IndirectStage
  <2>8. r = IF ~done.ok THEN [done EXCEPT !.ip = ip]
            ELSE [Store([done EXCEPT !.new = b],
                        IndirectOf(done.disk, done.ip, k), IndirectSlot(k))
                    EXCEPT !.ip.blocks = k + 1]
    BY <1>1, <1>5, <2>2, <2>3, <2>4 DEF SetBlock
  <2>9. CASE done.ok = FALSE
    <3>1. r = [done EXCEPT !.ip = ip]
      BY <2>8, <2>9
    <3>2. PICK m \in 2 .. 4 : Reached(d, ip, Nodes(k), o, b, done, Above(k, m))
      BY <2>7, <2>9 DEF Staged
    <3>3. NoneFree(done.disk)
      BY <2>7, <2>9 DEF Staged
    <3> QED
      BY <1>0, <2>9, <3>1, <3>2, <3>3, FoundInVain
  <2>10. CASE done.ok = TRUE
    <3>1. PICK w : w = <<0, k>>
      OBVIOUS
    <3>2. /\ ~InInode(w) /\ ParentSlot(w) = IndirectSlot(k)
          /\ Pointed(done.disk, done.ip, Parent(w)) = IndirectOf(done.disk, done.ip, k)
      BY <1>5, <2>1, <3>1, DataNode
    <3>3. r = Finished(done, b, k)
      BY <2>8, <2>10, <3>1, <3>2 DEF EnterNode, Finished
    <3>4. Reached(d, ip, Nodes(k), o, b, done, Above(k, 1))
      BY <2>7, <2>10 DEF Staged
    <3> QED
      BY <1>3, <2>10, <3>3, <3>4, LastNode
  <2> QED
    BY <2>7, <2>9, <2>10 DEF Staged
<1> QED
  BY <1>4, <1>5

-----------------------------------------------------------------------------
(* Sequences of different elements *)

\* s lists the elements of T, each one once.
Lists(s, T) == ToSet(s) = T /\ IsInjective(s)

LEMMA JoinLists ==
  ASSUME NEW X, NEW s \in Seq(X), NEW t \in Seq(X), NEW S, NEW T,
         Lists(s, S), Lists(t, T), S \cap T = {}
  PROVE  s \o t \in Seq(X) /\ Lists(s \o t, S \cup T)
<1>1. PICK m \in Nat, n \in Nat : m = Len(s) /\ n = Len(t)
  OBVIOUS
<1>2. PICK r : r = s \o t
  OBVIOUS
<1>3. /\ r \in Seq(X) /\ DOMAIN r = 1 .. m + n
      /\ \A i \in 1 .. m + n : r[i] = IF i <= m THEN s[i] ELSE t[i - m]
  BY <1>1, <1>2
<1>4. DOMAIN s = 1 .. m /\ DOMAIN t = 1 .. n
  BY <1>1
<1>5. \A i \in 1 .. m : i \in 1 .. m + n /\ r[i] = s[i] /\ s[i] \in S
  <2>1. \A i \in 1 .. m : s[i] \in S
    BY <1>4 DEF Lists, ToSet
  <2> QED
    BY <1>3, <2>1
<1>6. \A i \in 1 .. n : m + i \in 1 .. m + n /\ r[m + i] = t[i] /\ t[i] \in T
  <2>1. \A i \in 1 .. n : t[i] \in T
    BY <1>4 DEF Lists, ToSet
  <2>2. \A i \in 1 .. n : m + i \in 1 .. m + n /\ ~(m + i <= m) /\ (m + i) - m = i
    OBVIOUS
  <2> QED
    BY <1>3, <2>1, <2>2
<1>7. \A i \in 1 .. m + n : i \in 1 .. m \/ \E j \in 1 .. n : i = m + j
  <2> TAKE i \in 1 .. m + n
  <2>1. CASE i <= m
    BY <2>1
  <2>2. CASE i > m
    <3>1. i - m \in 1 .. n /\ i = m + (i - m)
      BY <2>2
    <3> QED
      BY <3>1
  <2> QED
    BY <2>1, <2>2
<1>8. ToSet(r) = S \cup T
  <2>1. \A i \in 1 .. m + n : r[i] \in S \cup T
    BY <1>5, <1>6, <1>7, ZenonT(60)
  <2>2. \A x \in S : \E i \in 1 .. m : s[i] = x
    BY <1>4 DEF Lists, ToSet
  <2>3. \A x \in T : \E i \in 1 .. n : t[i] = x
    BY <1>4 DEF Lists, ToSet
  <2>4. \A x \in S \cup T : \E i \in 1 .. m + n : r[i] = x
    BY <1>5, <1>6, <2>2, <2>3
  <2>5. DOMAIN r = 1 .. m + n
    BY <1>3
  <2>6. ToSet(r) = {r[i] : i \in 1 .. m + n}
    BY <2>5 DEF ToSet
  <2> QED
    BY <2>1, <2>4, <2>6
<1>9. IsInjective(r)
  <2> SUFFICES ASSUME NEW i \in 1 .. m + n, NEW j \in 1 .. m + n, r[i] = r[j]
               PROVE  i = j
    BY <1>3 DEF IsInjective
  <2>1. CASE i \in 1 .. m /\ j \in 1 .. m
    BY <1>4, <1>5, <2>1 DEF Lists, IsInjective
  <2>2. CASE i \in 1 .. m /\ j \notin 1 .. m
    BY <1>5, <1>6, <1>7, <2>2
  <2>3. CASE i \notin 1 .. m /\ j \in 1 .. m
    BY <1>5, <1>6, <1>7, <2>3
  <2>4. CASE i \notin 1 .. m /\ j \notin 1 .. m
    <3>1. PICK a \in 1 .. n, c \in 1 .. n : i = m + a /\ j = m + c
      BY <1>7, <2>4
    <3>2. t[a] = t[c]
      BY <1>6, <3>1
    <3>3. a = c
      BY <1>4, <3>2 DEF Lists, IsInjective
    <3> QED
      BY <3>1, <3>3
  <2> QED
    BY <2>1, <2>2, <2>3, <2>4
<1> QED
  BY <1>2, <1>3, <1>8, <1>9 DEF Lists

\* The function by which FlattenSeq joins the sequences q[1 .. n].
Joined(f, q, n) ==
  DOMAIN f = 1 .. n /\ \A i \in 1 .. n : f[i] = IF i = 1 THEN q[i] ELSE f[i - 1] \o q[i]

LEMMA JoinedExists ==
  ASSUME NEW q, NEW n \in Nat
  PROVE  \E f : Joined(f, q, n)
<1> DEFINE G == {m \in Nat : \E f : Joined(f, q, m)}
<1>1. 0 \in G
  <2>1. PICK f : f = [i \in 1 .. 0 |-> 0]
    OBVIOUS
  <2>2. Joined(f, q, 0)
    BY <2>1 DEF Joined
  <2> QED
    BY <2>2
<1>2. ASSUME NEW m \in G PROVE m + 1 \in G
  <2>0. m \in Nat
    OBVIOUS
  <2>1. PICK f : Joined(f, q, m)
    OBVIOUS
  <2>2. PICK h : h = [i \in 1 .. m + 1 |-> IF i # m + 1 THEN f[i]
                        ELSE IF i = 1 THEN q[i] ELSE f[m] \o q[i]]
    OBVIOUS
  <2>3. DOMAIN h = 1 .. m + 1 /\ \A i \in 1 .. m : h[i] = f[i]
    <3>1. \A i \in 1 .. m : i \in 1 .. m + 1 /\ i # m + 1
      BY <2>0
    <3> HIDE DEF G
    <3> QED
      BY <2>2, <3>1
  <2>4. ASSUME NEW i \in 1 .. m + 1
        PROVE  h[i] = IF i = 1 THEN q[i] ELSE h[i - 1] \o q[i]
    <3>1. CASE i = m + 1
      <4>1. i # 1 => h[i - 1] = f[m]
        BY <2>0, <2>3, <3>1
      <4> QED
        BY <2>0, <2>2, <3>1, <4>1
    <3>2. CASE i # m + 1
      <4>1. i \in 1 .. m /\ (i # 1 => i - 1 \in 1 .. m)
        BY <2>0, <3>2
      <4>2. f[i] = IF i = 1 THEN q[i] ELSE f[i - 1] \o q[i]
        BY <2>1, <4>1 DEF Joined
      <4> QED
        BY <2>3, <4>1, <4>2
    <3> QED
      BY <3>1, <3>2
  <2>5. Joined(h, q, m + 1)
    BY <2>3, <2>4 DEF Joined
  <2> QED
    BY <2>0, <2>5
<1> HIDE DEF G
<1>3. G = Nat
  <2>1. G \in SUBSET Nat
    BY DEF G
  <2> QED
    BY <1>1, <1>2, <2>1, InductNat
<1> QED
  BY <1>3 DEF G

\* The element x is in one of the first n sets of T.
Among(x, T, n) == \E i \in 1 .. n : x \in T[i]

AllOf(X, T, n) == {x \in X : Among(x, T, n)}

\* The sequences q[1 .. n] list the sets T[1 .. n], which have no common element.
ListApart(q, T, n) ==
  /\ \A i \in 1 .. n : Lists(q[i], T[i])
  /\ \A i, j \in 1 .. n : i # j => T[i] \cap T[j] = {}

\* Sequences without a common element list, one after the other, what each lists.
LEMMA FlattenLists ==
  ASSUME NEW X, NEW n \in Nat, NEW q \in Seq(Seq(X)), Len(q) = n, NEW T,
         ListApart(q, T, n)
  PROVE  FlattenSeq(q) \in Seq(X) /\ Lists(FlattenSeq(q), AllOf(X, T, n))
<1>0. DOMAIN q = 1 .. n /\ \A i \in 1 .. n : q[i] \in Seq(X)
  OBVIOUS
<1>a. /\ \A i \in 1 .. n : Lists(q[i], T[i])
      /\ \A i, j \in 1 .. n : i # j => T[i] \cap T[j] = {}
  BY DEF ListApart
<1>1. CASE n = 0
  <2>1. q = << >> /\ FlattenSeq(q) = << >>
    BY <1>1 DEF FlattenSeq
  <2>2. AllOf(X, T, n) = {}
    BY <1>1 DEF Among, AllOf
  <2>3. Lists(<< >>, {})
    BY DEF Lists, ToSet, IsInjective
  <2>4. << >> \in Seq(X)
    OBVIOUS
  <2> QED
    BY <2>1, <2>2, <2>3, <2>4
<1>2. CASE n # 0
  <2> DEFINE Joins(f) == f = [i \in 1 .. n |-> IF i = 1 THEN q[i] ELSE f[i - 1] \o q[i]]
             c == CHOOSE f : Joins(f)
  <2>1. FlattenSeq(q) = c[n]
    BY <1>2 DEF FlattenSeq
  <2>2. Joins(c)
    <3>1. PICK f : Joined(f, q, n)
      BY JoinedExists
    <3>2. PICK h : h = [i \in 1 .. n |-> f[i]]
      OBVIOUS
    <3>3. \A i \in 1 .. n : h[i] = IF i = 1 THEN q[i] ELSE h[i - 1] \o q[i]
      <4> TAKE i \in 1 .. n
      <4>1. h[i] = f[i] /\ (i # 1 => h[i - 1] = f[i - 1])
        BY <3>2
      <4>2. f[i] = IF i = 1 THEN q[i] ELSE f[i - 1] \o q[i]
        BY <3>1 DEF Joined
      <4> QED
        BY <4>1, <4>2
    <3>4. h = [i \in 1 .. n |-> IF i = 1 THEN q[i] ELSE h[i - 1] \o q[i]]
      BY <3>2, <3>3
    <3>5. Joins(h)
      BY <3>4
    <3> QED
      BY <3>5
  <2> HIDE DEF c
  <2>3. \A i \in 1 .. n : c[i] = IF i = 1 THEN q[i] ELSE c[i - 1] \o q[i]
    BY <2>2
  <2> DEFINE U(k) == AllOf(X, T, k)
             Good(k) == c[k] \in Seq(X) /\ Lists(c[k], U(k))
             G == {m \in Nat : m + 1 <= n => Good(m + 1)}
  <2>4. \A i \in 1 .. n : T[i] \subseteq X
    <3> TAKE i \in 1 .. n
    <3>1. ToSet(q[i]) \subseteq X
      BY <1>0 DEF ToSet
    <3> QED
      BY <1>a, <3>1 DEF Lists
  <2>5. 0 \in G
    <3>1. c[1] = q[1] /\ 1 \in 1 .. n
      BY <1>2, <2>3
    <3>2. U(1) = T[1]
      <4>1. \A x : Among(x, T, 1) <=> x \in T[1]
        BY DEF Among
      <4> QED
        BY <2>4, <3>1, <4>1 DEF AllOf
    <3>3. Good(1)
      BY <1>0, <1>a, <3>1, <3>2
    <3> QED
      BY <3>3
  <2>6. ASSUME NEW m \in G PROVE m + 1 \in G
    <3>0. m \in Nat
      OBVIOUS
    <3> SUFFICES ASSUME m + 2 <= n PROVE Good(m + 2)
      BY <3>0
    <3>1. Good(m + 1)
      BY <3>0
    <3>2. m + 2 \in 1 .. n /\ m + 2 # 1 /\ (m + 2) - 1 = m + 1
      BY <3>0
    <3>3. c[m + 2] = c[m + 1] \o q[m + 2]
      BY <2>3, <3>2
    <3>4. U(m + 1) \cap T[m + 2] = {}
      <4>1. \A i \in 1 .. m + 1 : i \in 1 .. n /\ i # m + 2
        BY <3>0
      <4> QED
        BY <1>a, <3>2, <4>1 DEF Among, AllOf
    <3>5. U(m + 2) = U(m + 1) \cup T[m + 2]
      <4>1. \A i \in 1 .. m + 2 : i \in 1 .. m + 1 \/ i = m + 2
        BY <3>0
      <4>2. \A i \in 1 .. m + 1 : i \in 1 .. m + 2
        BY <3>0
      <4>3. \A x : Among(x, T, m + 2) <=> Among(x, T, m + 1) \/ x \in T[m + 2]
        <5>1. m + 2 \in 1 .. m + 2
          BY <3>0
        <5> QED
          BY <4>1, <4>2, <5>1 DEF Among
      <4>4. T[m + 2] \subseteq X
        BY <2>4, <3>2
      <4> QED
        BY <4>3, <4>4 DEF AllOf
    <3>6. q[m + 2] \in Seq(X) /\ Lists(q[m + 2], T[m + 2])
      BY <1>0, <1>a, <3>2
    <3>7. c[m + 1] \in Seq(X) /\ Lists(c[m + 1], U(m + 1))
      BY <3>1
    <3> HIDE DEF U
    <3>8. c[m + 1] \o q[m + 2] \in Seq(X) /\ Lists(c[m + 1] \o q[m + 2], U(m + 1) \cup T[m + 2])
      BY <3>4, <3>6, <3>7, JoinLists
    <3> QED
      BY <3>3, <3>5, <3>8
  <2> HIDE DEF G
  <2>7. G = Nat
    <3>1. G \in SUBSET Nat
      BY DEF G
    <3> QED
      BY <2>5, <2>6, <3>1, InductNat
  <2>8. Good(n)
    <3>1. n - 1 \in G /\ (n - 1) + 1 = n
      BY <1>2, <2>7
    <3>2. n - 1 \in G => ((n - 1) + 1 <= n => Good((n - 1) + 1))
      BY DEF G
    <3>3. (n - 1) + 1 <= n
      OBVIOUS
    <3> HIDE DEF G, Good
    <3> QED
      BY <3>1, <3>2, <3>3
  <2> QED
    BY <2>1, <2>8
<1> QED
  BY <1>1, <1>2

-----------------------------------------------------------------------------
(* The blocks of a file, listed *)

PointedAll(d, ip, A) == {Pointed(d, ip, v) : v \in A}

LevelAt(k, l)  == {v \in Node : Start(v) = k /\ v[1] = l}
TablesAt(k)    == {v \in Node : Start(v) = k /\ v[1] # 0}
DataNodes(n)   == {v \in Nodes(n) : v[1] = 0}
TableNodes(n)  == {v \in Nodes(n) : v[1] # 0}

\* s has the block x alone or nothing, as A does.
OneOrNone(s, x, A) == (s = <<x>> /\ A = {x}) \/ (s = << >> /\ A = {})

LEMMA OneLists ==
  ASSUME NEW X, NEW s, NEW x, NEW A, OneOrNone(s, x, A), A \subseteq X
  PROVE  s \in Seq(X) /\ Lists(s, A)
<1>1. CASE s = <<x>> /\ A = {x}
  <2>1. DOMAIN s = {1} /\ s[1] = x
    BY <1>1
  <2>2. Lists(s, A)
    BY <1>1, <2>1 DEF Lists, ToSet, IsInjective
  <2> QED
    BY <1>1, <2>2
<1>2. CASE s = << >> /\ A = {}
  <2>1. Lists(s, A)
    BY <1>2 DEF Lists, ToSet, IsInjective
  <2> QED
    BY <1>2, <2>1
<1> QED
  BY <1>1, <1>2 DEF OneOrNone

LEMMA OwnedApart ==
  ASSUME NEW d, NEW ip, NEW A, NEW o, Owned(d, ip, A, o),
         NEW B, B \subseteq A, NEW C, C \subseteq A, B \cap C = {}
  PROVE  PointedAll(d, ip, B) \cap PointedAll(d, ip, C) = {}
BY DEF Owned, PointedAll

LEMMA OwnedBlocks ==
  ASSUME NEW d \in MapDisk, NEW ip, NEW A, NEW o, Owned(d, ip, A, o)
  PROVE  PointedAll(d, ip, A) \subseteq Block
BY MapDiskFacts DEF Owned, PointedAll

\* The tables that begin with block k are the ones release_block gives back.
LEMMA LevelsAt ==
  ASSUME NEW d, NEW ip, NEW k \in Nat, NEW l \in 1 .. 3
  PROVE  /\ l = 1 => LevelAt(k, l) =
              IF IndirectAt(k) THEN {<<1, (k - SINGLE) \div PerBlock>>} ELSE {}
         /\ l = 2 => LevelAt(k, l) =
              IF DoubleAt(k) THEN {<<2, (k - DOUBLE) \div DoubleNum>>} ELSE {}
         /\ l = 3 => LevelAt(k, l) = IF TripleAt(k) THEN {<<3, 0>>} ELSE {}
<1>1. CASE l = 1
  <2>1. \A v \in LevelAt(k, l) : IndirectAt(k) /\ v = <<1, (k - SINGLE) \div PerBlock>>
    BY <1>1, NodeAt DEF LevelAt
  <2>2. IndirectAt(k) => <<1, (k - SINGLE) \div PerBlock>> \in LevelAt(k, l)
    BY <1>1, NodesAt DEF LevelAt
  <2> QED
    BY <1>1, <2>1, <2>2
<1>2. CASE l = 2
  <2>1. \A v \in LevelAt(k, l) : DoubleAt(k) /\ v = <<2, (k - DOUBLE) \div DoubleNum>>
    BY <1>2, NodeAt DEF LevelAt
  <2>2. DoubleAt(k) => <<2, (k - DOUBLE) \div DoubleNum>> \in LevelAt(k, l)
    BY <1>2, NodesAt DEF LevelAt
  <2> QED
    BY <1>2, <2>1, <2>2
<1>3. CASE l = 3
  <2>1. \A v \in LevelAt(k, l) : TripleAt(k) /\ v = <<3, 0>>
    BY <1>3, NodeAt DEF LevelAt
  <2>2. TripleAt(k) => <<3, 0>> \in LevelAt(k, l)
    BY <1>3, NodesAt DEF LevelAt
  <2> QED
    BY <1>3, <2>1, <2>2
<1> QED
  BY <1>1, <1>2, <1>3

LEMMA IndirectPointed ==
  ASSUME NEW d, NEW ip, NEW k \in Nat, k >= SINGLE
  PROVE  IndirectOf(d, ip, k) = Pointed(d, ip, <<1, (k - SINGLE) \div PerBlock>>)
<1>1. IndirectOf(d, ip, k) = Indirect(d, ip, (k - SINGLE) \div PerBlock)
  BY IndirectIs
<1> QED
  BY <1>1 DEF Pointed

LEMMA DoublePointed ==
  ASSUME NEW d, NEW ip, NEW k \in Nat, k >= DOUBLE
  PROVE  DoubleOf(d, ip, k) = Pointed(d, ip, <<2, (k - DOUBLE) \div DoubleNum>>)
<1>1. DoubleOf(d, ip, k) = Double(d, ip, (k - DOUBLE) \div DoubleNum)
  BY DoubleIs
<1> QED
  BY <1>1 DEF Pointed

\* A double indirect block begins with its first indirect one, and the triple
\* one with its first double one.
LEMMA AtOnce ==
  ASSUME NEW k \in Nat
  PROVE  (DoubleAt(k) => IndirectAt(k)) /\ (TripleAt(k) => DoubleAt(k))
<1>0. PICK P \in Nat \ {0}, Q \in Nat \ {0}, D \in Nat, T \in Nat, S \in Nat :
        /\ P = PerBlock /\ Q = DoubleNum /\ D = DOUBLE /\ T = TRIPLE /\ S = SINGLE
        /\ Q = P * P /\ D = S + P /\ T = D + Q
  BY MapSizes
<1>1. ASSUME DoubleAt(k) PROVE IndirectAt(k)
  <2>1. PICK n \in Nat : n = k - D /\ n % Q = 0
    BY <1>0, <1>1 DEF DoubleAt
  <2>2. PICK q \in Nat : n = q * Q
    <3>1. PICK q, r : q = n \div Q /\ r = n % Q
      OBVIOUS
    <3>2. q \in Nat /\ n = q * Q + r /\ r = 0
      BY <2>1, <3>1, DivMod
    <3>3. PICK x \in Nat : x = q * Q
      BY <3>2, Multiply
    <3>4. n = q * Q
      BY <3>2, <3>3
    <3> QED
      BY <3>2, <3>4
  <2>3. PICK h \in Nat : h = q * P
    BY <1>0, Multiply
  <2>4. k - S \in Nat /\ k - S = n + P /\ h + 1 \in Nat
    BY <1>0, <1>1, <2>1 DEF DoubleAt
  <2>5. n = h * P
    <3>1. q * (P * P) = (q * P) * P
      BY <1>0
    <3> QED
      BY <1>0, <2>2, <2>3, <3>1
  <2>6. (h + 1) * P = h * P + P /\ h * P \in Nat
    BY <1>0, Multiply
  <2>7. k - S = (h + 1) * P + 0
    BY <1>0, <2>4, <2>5, <2>6
  <2>8. (k - S) % P = 0
    <3>1. 0 \in 0 .. P - 1
      BY <1>0
    <3> QED
      BY <1>0, <2>4, <2>7, <3>1, DivUnique
  <2> QED
    BY <1>0, <2>4, <2>8 DEF IndirectAt
<1>2. ASSUME TripleAt(k) PROVE DoubleAt(k)
  <2>1. k - D = Q /\ k >= D
    <3>1. k = D + Q
      BY <1>0, <1>2 DEF TripleAt
    <3> QED
      BY <3>1
  <2>2. Q % Q = 0
    <3>1. 0 \in 0 .. Q - 1 /\ Q = 1 * Q + 0
      BY <1>0
    <3> QED
      BY <1>0, <3>1, DivUnique
  <2> QED
    BY <1>0, <2>1, <2>2 DEF DoubleAt
<1> QED
  BY <1>1, <1>2

LEMMA TablesLists ==
  ASSUME NEW d \in MapDisk, NEW ip, NEW A, NEW o, Owned(d, ip, A, o),
         NEW k \in Nat, TablesAt(k) \subseteq A
  PROVE  /\ TablesEndingAt(d, ip, k) \in Seq(Block)
         /\ Lists(TablesEndingAt(d, ip, k), PointedAll(d, ip, TablesAt(k)))
<1> DEFINE B(l) == PointedAll(d, ip, LevelAt(k, l))
           s1 == IF IndirectAt(k) THEN <<IndirectOf(d, ip, k)>> ELSE << >>
           s2 == IF DoubleAt(k) THEN <<DoubleOf(d, ip, k)>> ELSE << >>
           s3 == IF TripleAt(k) THEN <<ip.block[NDIRECT + 2]>> ELSE << >>
<1>1. TablesAt(k) = LevelAt(k, 1) \cup LevelAt(k, 2) \cup LevelAt(k, 3)
  BY NodeForms DEF TablesAt, LevelAt
<1>2. B(1) \subseteq Block /\ B(2) \subseteq Block /\ B(3) \subseteq Block
  <2>1. PointedAll(d, ip, A) \subseteq Block
    BY OwnedBlocks
  <2> QED
    BY <1>1, <2>1 DEF PointedAll
<1>3. B(1) \cap B(2) = {} /\ (B(1) \cup B(2)) \cap B(3) = {}
  <2>1. /\ LevelAt(k, 1) \cap LevelAt(k, 2) = {} /\ LevelAt(k, 1) \cap LevelAt(k, 3) = {}
        /\ LevelAt(k, 2) \cap LevelAt(k, 3) = {}
    BY DEF LevelAt
  <2>2. LevelAt(k, 1) \subseteq A /\ LevelAt(k, 2) \subseteq A /\ LevelAt(k, 3) \subseteq A
    BY <1>1
  <2>3. B(1) \cap B(2) = {} /\ B(1) \cap B(3) = {} /\ B(2) \cap B(3) = {}
    BY <2>1, <2>2, OwnedApart
  <2> QED
    BY <2>3
<1>4. OneOrNone(s1, IndirectOf(d, ip, k), B(1))
  <2>1. LevelAt(k, 1) = IF IndirectAt(k) THEN {<<1, (k - SINGLE) \div PerBlock>>} ELSE {}
    BY LevelsAt
  <2>2. CASE IndirectAt(k)
    <3>1. IndirectOf(d, ip, k) = Pointed(d, ip, <<1, (k - SINGLE) \div PerBlock>>)
      BY <2>2, IndirectPointed DEF IndirectAt
    <3> QED
      BY <2>1, <2>2, <3>1 DEF OneOrNone, PointedAll
  <2>3. CASE ~IndirectAt(k)
    BY <2>1, <2>3 DEF OneOrNone, PointedAll
  <2> QED
    BY <2>2, <2>3
<1>5. OneOrNone(s2, DoubleOf(d, ip, k), B(2))
  <2>1. LevelAt(k, 2) = IF DoubleAt(k) THEN {<<2, (k - DOUBLE) \div DoubleNum>>} ELSE {}
    BY LevelsAt
  <2>2. CASE DoubleAt(k)
    <3>1. DoubleOf(d, ip, k) = Pointed(d, ip, <<2, (k - DOUBLE) \div DoubleNum>>)
      BY <2>2, DoublePointed DEF DoubleAt
    <3> QED
      BY <2>1, <2>2, <3>1 DEF OneOrNone, PointedAll
  <2>3. CASE ~DoubleAt(k)
    BY <2>1, <2>3 DEF OneOrNone, PointedAll
  <2> QED
    BY <2>2, <2>3
<1>6. OneOrNone(s3, ip.block[NDIRECT + 2], B(3))
  <2>1. LevelAt(k, 3) = IF TripleAt(k) THEN {<<3, 0>>} ELSE {}
    BY LevelsAt
  <2>2. Pointed(d, ip, <<3, 0>>) = ip.block[NDIRECT + 2]
    BY DEF Pointed
  <2>3. CASE TripleAt(k)
    BY <2>1, <2>2, <2>3 DEF OneOrNone, PointedAll
  <2>4. CASE ~TripleAt(k)
    BY <2>1, <2>4 DEF OneOrNone, PointedAll
  <2> QED
    BY <2>3, <2>4
<1>7. TablesEndingAt(d, ip, k) = (s1 \o s2) \o s3
  <2>1. CASE ~IndirectAt(k)
    <3>1. TablesEndingAt(d, ip, k) = << >>
      BY <2>1, MapSizes DEF TablesEndingAt, IndirectAt
    <3>2. s1 = << >> /\ s2 = << >> /\ s3 = << >>
      BY <2>1, AtOnce
    <3>3. (<< >> \o << >>) \o << >> = << >>
      OBVIOUS
    <3> HIDE DEF s1, s2, s3
    <3> QED
      BY <3>1, <3>2, <3>3
  <2>2. CASE IndirectAt(k)
    <3>1. TablesEndingAt(d, ip, k) = (<<IndirectOf(d, ip, k)>> \o s2) \o s3
      <4>1. ~(k < SINGLE \/ (k - SINGLE) % PerBlock # 0)
        BY <2>2, MapSizes DEF IndirectAt
      <4>2. TablesEndingAt(d, ip, k) = <<IndirectOf(d, ip, k)>> \o s2 \o s3
        BY <4>1 DEF TablesEndingAt, DoubleAt, TripleAt
      <4> QED
        BY <4>2
    <3>2. s1 = <<IndirectOf(d, ip, k)>>
      BY <2>2
    <3> QED
      BY <3>1, <3>2
  <2> QED
    BY <2>1, <2>2
<1>8. PointedAll(d, ip, TablesAt(k)) = (B(1) \cup B(2)) \cup B(3)
  BY <1>1 DEF PointedAll
<1> HIDE DEF B, s1, s2, s3
<1>9. /\ s1 \in Seq(Block) /\ Lists(s1, B(1)) /\ s2 \in Seq(Block) /\ Lists(s2, B(2))
      /\ s3 \in Seq(Block) /\ Lists(s3, B(3))
  BY <1>2, <1>4, <1>5, <1>6, OneLists
<1>10. s1 \o s2 \in Seq(Block) /\ Lists(s1 \o s2, B(1) \cup B(2))
  BY <1>3, <1>9, JoinLists
<1>11. (s1 \o s2) \o s3 \in Seq(Block) /\ Lists((s1 \o s2) \o s3, (B(1) \cup B(2)) \cup B(3))
  BY <1>3, <1>9, <1>10, JoinLists
<1> QED
  BY <1>7, <1>8, <1>11

LEMMA DataLists ==
  ASSUME NEW d \in MapDisk, NEW ip \in MapInode, NEW o, Owned(d, ip, Nodes(ip.blocks), o)
  PROVE  /\ get_data_block_at_inode(d, ip) \in Seq(Block)
         /\ Len(get_data_block_at_inode(d, ip)) = ip.blocks
         /\ \A i \in 1 .. ip.blocks :
              get_data_block_at_inode(d, ip)[i] = Pointed(d, ip, <<0, i - 1>>)
         /\ Lists(get_data_block_at_inode(d, ip),
                  PointedAll(d, ip, DataNodes(ip.blocks)))
<1>1. PICK n \in Nat : n = ip.blocks
  BY DEF MapInode
<1>2. PICK s : s = get_data_block_at_inode(d, ip)
  OBVIOUS
<1>3. DOMAIN s = 1 .. n /\ \A i \in 1 .. n : s[i] = Pointed(d, ip, <<0, i - 1>>)
  <2>1. \A i \in 1 .. n : get_inode_block(d, ip, i - 1) = Pointed(d, ip, <<0, i - 1>>)
    <3> TAKE i \in 1 .. n
    <3>1. i - 1 \in Nat
      OBVIOUS
    <3> QED
      BY <3>1, DataIs DEF Pointed
  <2> QED
    BY <1>1, <1>2, <2>1 DEF get_data_block_at_inode
<1>4. \A i \in 1 .. n : <<0, i - 1>> \in DataNodes(n)
  <2> TAKE i \in 1 .. n
  <2>1. i - 1 \in Nat /\ i - 1 < n
    OBVIOUS
  <2> QED
    BY <2>1, NodesAt DEF DataNodes, Nodes
<1>5. \A v \in DataNodes(n) : \E i \in 1 .. n : v = <<0, i - 1>>
  <2> TAKE v \in DataNodes(n)
  <2>1. v \in Node /\ v[1] = 0 /\ Start(v) < n
    BY DEF DataNodes, Nodes
  <2>2. v = <<0, v[2]>> /\ v[2] \in Nat /\ v[2] < n
    BY <2>1, NodeForms, StartFacts
  <2>3. v[2] + 1 \in 1 .. n /\ (v[2] + 1) - 1 = v[2]
    BY <2>2
  <2> QED
    BY <2>2, <2>3
<1>6. \A i \in 1 .. n : s[i] \in Block
  <2>1. PointedAll(d, ip, Nodes(n)) \subseteq Block
    BY <1>1, OwnedBlocks
  <2> QED
    BY <1>3, <1>4, <2>1 DEF PointedAll, DataNodes
<1>7. s \in Seq(Block) /\ Len(s) = n
  <2>1. s = [i \in 1 .. n |-> s[i]]
    BY <1>1, <1>2 DEF get_data_block_at_inode
  <2> QED
    BY <1>6, <2>1
<1>8. ToSet(s) = PointedAll(d, ip, DataNodes(n))
  BY <1>3, <1>4, <1>5 DEF ToSet, PointedAll
<1>9. IsInjective(s)
  <2> SUFFICES ASSUME NEW i \in 1 .. n, NEW j \in 1 .. n, s[i] = s[j] PROVE i = j
    BY <1>3 DEF IsInjective
  <2>1. <<0, i - 1>> = <<0, j - 1>>
    BY <1>1, <1>3, <1>4 DEF Owned, DataNodes
  <2>2. i - 1 = j - 1
    BY <2>1
  <2> QED
    BY <2>2
<1> QED
  BY <1>1, <1>2, <1>3, <1>7, <1>8, <1>9 DEF Lists

LEMMA FreedLists ==
  ASSUME NEW d \in MapDisk, NEW ip \in MapInode, NEW o, Owned(d, ip, Nodes(ip.blocks), o)
  PROVE  /\ Freed(d, ip) \in Seq(Block)
         /\ Lists(Freed(d, ip), PointedAll(d, ip, Nodes(ip.blocks)))
<1>1. PICK n \in Nat : n = ip.blocks
  BY DEF MapInode
<1>2. PICK q : q = [i \in 1 .. n |-> TablesEndingAt(d, ip, i - 1)]
  OBVIOUS
<1>3. PICK T : T = [i \in 1 .. n |-> PointedAll(d, ip, TablesAt(i - 1))]
  OBVIOUS
<1>4. \A i \in 1 .. n : TablesAt(i - 1) \subseteq TableNodes(n) /\ i - 1 \in Nat
  <2> TAKE i \in 1 .. n
  <2>1. i - 1 \in Nat /\ i - 1 < n
    OBVIOUS
  <2> QED
    BY <2>1 DEF TablesAt, TableNodes, Nodes
<1>5. TableNodes(n) \subseteq Nodes(n) /\ DataNodes(n) \subseteq Nodes(n)
  BY DEF TableNodes, DataNodes
<1>6. \A i \in 1 .. n : q[i] \in Seq(Block) /\ Lists(q[i], T[i])
  <2> TAKE i \in 1 .. n
  <2>1. PICK k \in Nat : k = i - 1 /\ TablesAt(k) \subseteq Nodes(n)
    BY <1>4, <1>5
  <2>2. /\ TablesEndingAt(d, ip, k) \in Seq(Block)
        /\ Lists(TablesEndingAt(d, ip, k), PointedAll(d, ip, TablesAt(k)))
    BY <1>1, <2>1, TablesLists
  <2> QED
    BY <1>2, <1>3, <2>1, <2>2
<1>7. \A i, j \in 1 .. n : i # j => T[i] \cap T[j] = {}
  <2> TAKE i, j \in 1 .. n
  <2> HAVE i # j
  <2>1. PICK B, C : B = TablesAt(i - 1) /\ C = TablesAt(j - 1)
    OBVIOUS
  <2>2. B \cap C = {} /\ B \subseteq Nodes(n) /\ C \subseteq Nodes(n)
    <3>1. i - 1 # j - 1
      OBVIOUS
    <3>2. B \cap C = {}
      BY <2>1, <3>1 DEF TablesAt
    <3> QED
      BY <1>4, <1>5, <2>1, <3>2
  <2>3. PointedAll(d, ip, B) \cap PointedAll(d, ip, C) = {}
    BY <1>1, <2>2, OwnedApart
  <2> QED
    BY <1>3, <2>1, <2>3
<1>8. q \in Seq(Seq(Block)) /\ Len(q) = n
  <2>1. q = [i \in 1 .. n |-> q[i]]
    BY <1>2
  <2> QED
    BY <1>6, <2>1
<1>9. PICK F, L : F = FlattenSeq(q) /\ L = AllOf(Block, T, n)
  OBVIOUS
<1>10. F \in Seq(Block) /\ Lists(F, L)
  <2>1. ListApart(q, T, n)
    BY <1>6, <1>7 DEF ListApart
  <2> QED
    BY <1>8, <1>9, <2>1, FlattenLists
<1>11. PointedAll(d, ip, Nodes(n)) \subseteq Block
  BY <1>1, OwnedBlocks
<1>12. L = PointedAll(d, ip, TableNodes(n))
  <2>1. \A x \in L : x \in PointedAll(d, ip, TableNodes(n))
    BY <1>3, <1>4, <1>9 DEF Among, AllOf, PointedAll
  <2>2. ASSUME NEW v \in TableNodes(n) PROVE Pointed(d, ip, v) \in L
    <3>1. v \in Node /\ v[1] # 0 /\ Start(v) < n /\ Start(v) \in Nat
      BY StartFacts DEF TableNodes, Nodes
    <3>2. Start(v) + 1 \in 1 .. n /\ (Start(v) + 1) - 1 = Start(v)
      BY <3>1
    <3>3. v \in TablesAt((Start(v) + 1) - 1)
      BY <3>1, <3>2 DEF TablesAt
    <3>4. Pointed(d, ip, v) \in T[Start(v) + 1]
      BY <1>3, <3>2, <3>3 DEF PointedAll
    <3>5. Pointed(d, ip, v) \in Block
      BY <1>5, <1>11 DEF PointedAll
    <3> QED
      BY <1>9, <3>2, <3>4, <3>5 DEF Among, AllOf
  <2> QED
    BY <2>1, <2>2 DEF PointedAll
<1>13. PICK s : s = get_data_block_at_inode(d, ip)
  OBVIOUS
<1>14. PICK B : B = PointedAll(d, ip, DataNodes(n))
  OBVIOUS
<1>15. s \in Seq(Block) /\ Lists(s, B)
  BY <1>1, <1>13, <1>14, DataLists
<1>16. B \cap L = {}
  <2>1. DataNodes(n) \cap TableNodes(n) = {}
    BY DEF DataNodes, TableNodes
  <2> QED
    BY <1>1, <1>5, <1>12, <1>14, <2>1, OwnedApart
<1>17. s \o F \in Seq(Block) /\ Lists(s \o F, B \cup L)
  BY <1>10, <1>15, <1>16, JoinLists
<1>18. B \cup L = PointedAll(d, ip, Nodes(n))
  BY <1>12, <1>14 DEF PointedAll, DataNodes, TableNodes
<1>19. Freed(d, ip) = s \o F
  BY <1>1, <1>2, <1>9, <1>13 DEF Freed
<1> QED
  BY <1>1, <1>17, <1>18, <1>19

\* The indirect blocks that the file's blocks are found through are its tables.
LEMMA TablesAre ==
  ASSUME NEW d, NEW ip \in MapInode, ip.blocks <= Capacity
  PROVE  Tables(d, ip) = PointedAll(d, ip, TableNodes(ip.blocks))
<1>0. PICK P \in Nat \ {0}, Q \in Nat \ {0}, D \in Nat, T \in Nat, S \in Nat :
        /\ P = PerBlock /\ Q = DoubleNum /\ D = DOUBLE /\ T = TRIPLE /\ S = SINGLE
  BY MapSizes
<1>1. PICK n \in Nat : n = ip.blocks
  BY DEF MapInode
<1> DEFINE I == {IndirectOf(d, ip, k) : k \in S .. n - 1}
           J == {DoubleOf(d, ip, k) : k \in D .. n - 1}
           K == {ip.block[NDIRECT + 2] : k \in T .. n - 1}
<1>2. Tables(d, ip) = I \cup J \cup K
  BY <1>0, <1>1 DEF Tables
<1>3. ASSUME NEW k \in S .. n - 1
      PROVE  IndirectOf(d, ip, k) \in PointedAll(d, ip, TableNodes(n))
  <2>1. k \in Nat /\ k >= S /\ k < n
    BY <1>0
  <2>2. PICK m, x : m = (k - S) \div P /\ x = m * P
    OBVIOUS
  <2>3. m \in Nat /\ x \in Nat /\ S + x <= k
    <3>1. PICK i \in Nat : i = k - S
      BY <1>0, <2>1
    <3>2. m \in Nat /\ i = x + (i % P) /\ i % P \in Nat
      BY <1>0, <2>2, <3>1, DivMod
    <3>3. x \in Nat
      BY <1>0, <2>2, <3>2, Multiply
    <3> QED
      BY <1>0, <2>1, <3>1, <3>2, <3>3
  <2>4. <<1, m>> \in Node
    BY <2>3, NodeIs
  <2>5. Start(<<1, m>>) = S + x
    BY <1>0, <2>2 DEF Start
  <2>6. <<1, m>> \in TableNodes(n)
    BY <1>0, <2>1, <2>3, <2>4, <2>5 DEF TableNodes, Nodes
  <2>7. IndirectOf(d, ip, k) = Pointed(d, ip, <<1, m>>)
    BY <1>0, <2>1, <2>2, IndirectPointed
  <2> QED
    BY <2>6, <2>7 DEF PointedAll
<1>4. ASSUME NEW k \in D .. n - 1
      PROVE  DoubleOf(d, ip, k) \in PointedAll(d, ip, TableNodes(n))
  <2>1. k \in Nat /\ k >= D /\ k < n
    BY <1>0
  <2>2. PICK m, x : m = (k - D) \div Q /\ x = m * Q
    OBVIOUS
  <2>3. m \in Nat /\ x \in Nat /\ D + x <= k
    <3>1. PICK i \in Nat : i = k - D
      BY <1>0, <2>1
    <3>2. m \in Nat /\ i = x + (i % Q) /\ i % Q \in Nat
      BY <1>0, <2>2, <3>1, DivMod
    <3>3. x \in Nat
      BY <1>0, <2>2, <3>2, Multiply
    <3> QED
      BY <1>0, <2>1, <3>1, <3>2, <3>3
  <2>4. <<2, m>> \in Node
    BY <2>3, NodeIs
  <2>5. Start(<<2, m>>) = D + x
    BY <1>0, <2>2 DEF Start
  <2>6. <<2, m>> \in TableNodes(n)
    BY <1>0, <2>1, <2>3, <2>4, <2>5 DEF TableNodes, Nodes
  <2>7. DoubleOf(d, ip, k) = Pointed(d, ip, <<2, m>>)
    BY <1>0, <2>1, <2>2, DoublePointed
  <2> QED
    BY <2>6, <2>7 DEF PointedAll
<1>5. ASSUME NEW k \in T .. n - 1
      PROVE  ip.block[NDIRECT + 2] \in PointedAll(d, ip, TableNodes(n))
  <2>1. <<3, 0>> \in Node /\ Start(<<3, 0>>) = T
    BY <1>0, NodeIs DEF Start
  <2>2. T < n
    BY <1>0
  <2>3. <<3, 0>> \in TableNodes(n)
    BY <2>1, <2>2 DEF TableNodes, Nodes
  <2>4. ip.block[NDIRECT + 2] = Pointed(d, ip, <<3, 0>>)
    BY DEF Pointed
  <2> QED
    BY <2>3, <2>4 DEF PointedAll
<1>6. ASSUME NEW v \in TableNodes(n) PROVE Pointed(d, ip, v) \in I \cup J \cup K
  <2>1. PICK k \in Nat : k = Start(v)
    BY StartFacts DEF TableNodes, Nodes
  <2>2. v \in Node /\ k < n /\ v[1] # 0
    BY <2>1 DEF TableNodes, Nodes
  <2>3. CASE v[1] = 1
    <3>1. IndirectAt(k) /\ v = <<1, (k - SINGLE) \div PerBlock>>
      BY <2>1, <2>2, <2>3, NodeAt
    <3>2. k >= SINGLE
      BY <3>1 DEF IndirectAt
    <3>3. Pointed(d, ip, v) = IndirectOf(d, ip, k)
      BY <3>1, <3>2, IndirectPointed
    <3>4. k \in S .. n - 1
      BY <1>0, <2>2, <3>2
    <3> QED
      BY <3>3, <3>4
  <2>4. CASE v[1] = 2
    <3>1. DoubleAt(k) /\ v = <<2, (k - DOUBLE) \div DoubleNum>>
      BY <2>1, <2>2, <2>4, NodeAt
    <3>2. k >= DOUBLE
      BY <3>1 DEF DoubleAt
    <3>3. Pointed(d, ip, v) = DoubleOf(d, ip, k)
      BY <3>1, <3>2, DoublePointed
    <3>4. k \in D .. n - 1
      BY <1>0, <2>2, <3>2
    <3> QED
      BY <3>3, <3>4
  <2>5. CASE v[1] = 3
    <3>1. k = TRIPLE
      BY <2>1, <2>2, <2>5, NodeAt DEF TripleAt
    <3>2. Pointed(d, ip, v) = ip.block[NDIRECT + 2]
      BY <2>5 DEF Pointed
    <3>3. k \in T .. n - 1
      BY <1>0, <2>2, <3>1
    <3> QED
      BY <3>2, <3>3
  <2> QED
    BY <2>2, <2>3, <2>4, <2>5, NodeForms
<1>7. Tables(d, ip) \subseteq PointedAll(d, ip, TableNodes(n))
  BY <1>2, <1>3, <1>4, <1>5
<1>8. PointedAll(d, ip, TableNodes(n)) \subseteq I \cup J \cup K
  BY <1>6 DEF PointedAll
<1> QED
  BY <1>1, <1>2, <1>7, <1>8

-----------------------------------------------------------------------------
(* release_block *)

LEMMA CountedBackFacts ==
  ASSUME NEW d \in MapDisk, BlockCounts(d), NEW s \in Seq(Block), NEW B, Lists(s, B),
         B \subseteq d.block_bitmap \ MetadataBlocks, NEW e, e = CountedBack(d, s)
  PROVE  /\ e \in MapDisk /\ BlockCounts(e)
         /\ e.block_bitmap = d.block_bitmap \ B /\ e.data = d.data
<1>1. ToSet(s) = B /\ B \subseteq Block
  <2>1. ToSet(s) = B
    BY DEF Lists
  <2>2. d.block_bitmap \subseteq Block
    BY MapDiskFacts
  <2> QED
    BY <2>1, <2>2
<1> DEFINE Placed(h) == {n \in DOMAIN s : BlockGroup(s[n]) = h}
<1>2. ASSUME NEW h \in Group
      PROVE  Cardinality(Placed(h)) = InGroup(B, h) /\ Cardinality(Placed(h)) \in Nat
  <2> DEFINE N == Placed(h)
             C == {b \in B : BlockGroup(b) = h}
  <2>1. IsFiniteSet(N)
    <3>1. N \subseteq 1 .. Len(s) /\ Len(s) \in Nat
      OBVIOUS
    <3>2. IsFiniteSet(1 .. Len(s))
      BY <3>1, FS_Interval
    <3> HIDE DEF N
    <3> QED
      BY <3>1, <3>2, FS_Subset
  <2>2. PICK f : f = [n \in N |-> s[n]]
    OBVIOUS
  <2>3. \A n \in N : s[n] \in C
    BY <1>1 DEF ToSet
  <2>4. \A b \in C : \E n \in N : s[n] = b
    BY <1>1 DEF ToSet
  <2>5. \A n, m \in N : s[n] = s[m] => n = m
    BY DEF Lists, IsInjective
  <2> HIDE DEF N, C
  <2>6. f \in Bijection(N, C)
    <3>1. f \in [N -> C] /\ \A n \in N : f[n] = s[n]
      BY <2>2, <2>3
    <3>2. f \in Injection(N, C)
      BY <2>5, <3>1 DEF Injection, IsInjective
    <3>3. f \in Surjection(N, C)
      BY <2>4, <3>1 DEF Surjection
    <3> QED
      BY <3>2, <3>3 DEF Bijection
  <2>7. ExistsBijection(N, C)
    BY <2>6 DEF ExistsBijection
  <2>8. Cardinality(C) = Cardinality(N) /\ Cardinality(N) \in Nat
    BY <2>1, <2>7, FS_Bijection, FS_CardinalityType
  <2> QED
    BY <2>8 DEF N, C, InGroup
<1>3. PICK c : c = [h \in Group |-> Cardinality(Placed(h))]
  OBVIOUS
<1>4. PICK y : y = [h \in Group |-> [d.gd[h] EXCEPT !.free_blocks = @ + c[h]]]
  OBVIOUS
<1>5. PICK z : z = d.block_bitmap \ B
  OBVIOUS
<1>6. e = [d EXCEPT !.block_bitmap = z, !.gd = y]
  <2>1. e = [d EXCEPT !.block_bitmap = d.block_bitmap \ ToSet(s),
                      !.gd = [h \in Group |-> [d.gd[h] EXCEPT !.free_blocks =
                                                 @ + Cardinality(Placed(h))]]]
    BY DEF CountedBack
  <2>2. y = [h \in Group |-> [d.gd[h] EXCEPT !.free_blocks = @ + Cardinality(Placed(h))]]
    BY <1>3, <1>4
  <2> HIDE DEF Placed
  <2> QED
    BY <1>1, <1>5, <2>1, <2>2
<1> HIDE DEF Placed
<1>7. \A h \in Group : /\ y[h] \in [free_blocks : Nat]
                       /\ y[h].free_blocks = d.gd[h].free_blocks + InGroup(B, h)
  <2> TAKE h \in Group
  <2>1. PICK p \in [free_blocks : Nat] : p = d.gd[h]
    BY DEF MapDisk
  <2>2. y[h] = [p EXCEPT !.free_blocks = @ + c[h]] /\ c[h] \in Nat /\ c[h] = InGroup(B, h)
    BY <1>2, <1>3, <1>4, <2>1
  <2> QED
    BY <2>1, <2>2
<1>8. y \in [Group -> [free_blocks : Nat]] /\ z \in SUBSET Block
  <2>1. y = [h \in Group |-> y[h]]
    BY <1>4
  <2>2. d.block_bitmap \subseteq Block
    BY MapDiskFacts
  <2> QED
    BY <1>5, <1>7, <2>1, <2>2
<1>9. e \in MapDisk /\ e.block_bitmap = z /\ e.gd = y /\ e.data = d.data
  BY <1>6, <1>8 DEF MapDisk
<1>10. Cleared(d, e, B)
  BY <1>1, <1>5, <1>9 DEF Cleared
<1>11. BlockCounts(e)
  <2> SUFFICES ASSUME NEW h \in Group
               PROVE  e.gd[h].free_blocks = Cardinality(FreeBlocks(e, h))
    BY DEF BlockCounts
  <2>1. Cardinality(FreeBlocks(e, h)) = Cardinality(FreeBlocks(d, h)) + InGroup(B, h)
    BY <1>10, FreeAfterReleasing
  <2>2. d.gd[h].free_blocks = Cardinality(FreeBlocks(d, h))
    BY DEF BlockCounts
  <2> QED
    BY <1>7, <1>9, <2>1, <2>2
<1> QED
  BY <1>5, <1>9, <1>11

-----------------------------------------------------------------------------
(* The invariant *)

\* The disk d holds the file with inode ip: its nodes are different marked
\* blocks that the others o do not use, and the descriptors count what is free.
Mapped(d, ip, o) ==
  /\ d \in MapDisk /\ BlockCounts(d) /\ ip \in MapInode /\ ip.blocks <= Capacity
  /\ MetadataBlocks \subseteq o /\ o \subseteq d.block_bitmap
  /\ Owned(d, ip, Nodes(ip.blocks), o)

MapInv == Mapped(disk, inode, others) /\ g \in Group /\ writing \in BOOLEAN

LEMMA MappedFacts ==
  ASSUME NEW d, NEW ip, NEW o, Mapped(d, ip, o)
  PROVE  /\ d \in MapDisk /\ BlockCounts(d) /\ ip \in MapInode /\ ip.blocks \in Nat
         /\ ip.blocks <= Capacity
         /\ MetadataBlocks \subseteq o /\ o \subseteq d.block_bitmap
         /\ Owned(d, ip, Nodes(ip.blocks), o)
BY DEF Mapped, MapInode

\* A block that was allocated is one more block of the file.
OneMore(d, ip, o, e, jp) ==
  /\ Mapped(e, jp, o) /\ jp.blocks = ip.blocks + 1
  /\ SamePointed(d, ip, e, jp, Nodes(ip.blocks))
  /\ d.block_bitmap \subseteq e.block_bitmap
  /\ \A c \in e.block_bitmap :
       c \in d.block_bitmap \/ c \in PointedAll(e, jp, Nodes(jp.blocks))

\* It is marked in vain, with at most two more, and the disk is full.
Wasted(d, ip, o, e, jp) ==
  /\ Mapped(e, jp, o) /\ jp = ip
  /\ SamePointed(d, ip, e, jp, Nodes(ip.blocks))
  /\ d.block_bitmap \subseteq e.block_bitmap /\ NoneFree(e)
  /\ \E x, y, z : \A c \in e.block_bitmap : c \in d.block_bitmap \/ c \in {x, y, z}

\* What a call of set_inode_block in ext2_write does for the block b.
WriteOutcome(d, ip, o, r) ==
  /\ r.ok = TRUE \/ r.ok = FALSE
  /\ r.ok = TRUE => OneMore(d, ip, o, r.disk, r.ip)
  /\ r.ok = FALSE => Wasted(d, ip, o, r.disk, r.ip)

LEMMA WriteFacts ==
  ASSUME NEW d, NEW ip, NEW o, Mapped(d, ip, o), ip.blocks < Capacity,
         NEW h \in Group, NEW n \in FreeBlocks(d, h),
         NEW r, r = SetBlock(Taken(d, h, n), ip, WholeDisk(h, n))
  PROVE  WriteOutcome(d, ip, o, r)
<1>1. PICK k \in Nat : k = ip.blocks
  BY MappedFacts
<1>2. PICK e, b : e = Taken(d, h, n) /\ b = WholeDisk(h, n)
  OBVIOUS
<1>3. /\ d \in MapDisk /\ BlockCounts(d) /\ ip \in MapInode
      /\ MetadataBlocks \subseteq o /\ o \subseteq d.block_bitmap
      /\ Owned(d, ip, Nodes(k), o) /\ k < Capacity
  BY <1>1, MappedFacts
<1>4. e \in MapDisk /\ BlockCounts(e) /\ Marked(d, e, b)
  BY <1>2, <1>3, TakenMarks
<1>5. Linked(Nodes(k))
  <2>1. k <= Capacity
    BY <1>3, MapSizes
  <2> QED
    BY <2>1, NodesLinked
<1>6. /\ SamePointed(d, ip, e, ip, Nodes(k)) /\ Owned(e, ip, Nodes(k), o)
      /\ \A v \in Nodes(k) : Pointed(e, ip, v) # b
  BY <1>3, <1>4, <1>5, MarkedOwned
<1>7. e.block_bitmap = d.block_bitmap \cup {b} /\ b \notin d.block_bitmap
  BY <1>4 DEF Marked
<1>8. o \subseteq e.block_bitmap /\ b \in e.block_bitmap \ o
  BY <1>3, <1>7
<1>9. r = SetBlock(e, ip, b)
  BY <1>2
<1>10. Extended(e, ip, o, b, r) \/ NotExtended(e, ip, o, r)
  BY <1>1, <1>3, <1>4, <1>6, <1>8, <1>9, SetBlockFacts
<1>11. CASE Extended(e, ip, o, b, r)
  <2>1. /\ r.ok = TRUE /\ r.disk \in MapDisk /\ r.ip \in MapInode /\ BlockCounts(r.disk)
        /\ r.ip.blocks = k + 1 /\ Owned(r.disk, r.ip, Nodes(k + 1), o)
        /\ SamePointed(e, ip, r.disk, r.ip, Nodes(k))
        /\ Pointed(r.disk, r.ip, <<0, k>>) = b
        /\ e.block_bitmap \subseteq r.disk.block_bitmap
        /\ \A c \in r.disk.block_bitmap :
             c \in e.block_bitmap \/ \E v \in Nodes(k + 1) : c = Pointed(r.disk, r.ip, v)
    BY <1>1, <1>11 DEF Extended
  <2>2. SamePointed(d, ip, r.disk, r.ip, Nodes(k))
    BY <1>6, <2>1 DEF SamePointed
  <2>3. k + 1 <= Capacity
    BY <1>3, MapSizes
  <2>4. Mapped(r.disk, r.ip, o)
    BY <1>3, <1>8, <2>1, <2>3 DEF Mapped
  <2>5. <<0, k>> \in Nodes(k + 1)
    <3>1. <<0, k>> \in Node
      BY NodeIs
    <3>2. Start(<<0, k>>) = k
      BY DEF Start
    <3>3. k < k + 1
      OBVIOUS
    <3> QED
      BY <3>1, <3>2, <3>3 DEF Nodes
  <2>6. \A c \in r.disk.block_bitmap :
          c \in d.block_bitmap \/ c \in PointedAll(r.disk, r.ip, Nodes(k + 1))
    BY <1>7, <2>1, <2>5 DEF PointedAll
  <2>7. d.block_bitmap \subseteq r.disk.block_bitmap
    BY <1>7, <2>1
  <2>8. OneMore(d, ip, o, r.disk, r.ip)
    BY <1>1, <2>1, <2>2, <2>4, <2>6, <2>7 DEF OneMore
  <2> QED
    BY <2>1, <2>8 DEF WriteOutcome
<1>12. CASE NotExtended(e, ip, o, r)
  <2>1. /\ r.ok = FALSE /\ r.disk \in MapDisk /\ BlockCounts(r.disk) /\ r.ip = ip
        /\ Owned(r.disk, ip, Nodes(k), o) /\ SamePointed(e, ip, r.disk, ip, Nodes(k))
        /\ e.block_bitmap \subseteq r.disk.block_bitmap /\ NoneFree(r.disk)
        /\ \E x, y : \A c \in r.disk.block_bitmap : c \in e.block_bitmap \/ c \in {x, y}
    BY <1>1, <1>12 DEF NotExtended
  <2>2. SamePointed(d, ip, r.disk, ip, Nodes(k))
    BY <1>6, <2>1 DEF SamePointed
  <2>3. k <= Capacity
    BY <1>3, MapSizes
  <2>4. Mapped(r.disk, r.ip, o)
    BY <1>1, <1>3, <1>8, <2>1, <2>3 DEF Mapped
  <2>5. PICK x, y : \A c \in r.disk.block_bitmap : c \in e.block_bitmap \/ c \in {x, y}
    BY <2>1
  <2>6. \A c \in r.disk.block_bitmap : c \in d.block_bitmap \/ c \in {x, y, b}
    BY <1>7, <2>5
  <2>7. d.block_bitmap \subseteq r.disk.block_bitmap
    BY <1>7, <2>1
  <2>8. Wasted(d, ip, o, r.disk, r.ip)
    BY <1>1, <2>1, <2>2, <2>4, <2>6, <2>7 DEF Wasted
  <2> QED
    BY <2>1, <2>8 DEF WriteOutcome
<1> QED
  BY <1>10, <1>11, <1>12

LEMMA NoNodes == Nodes(0) = {} /\ Nodes(1) = {<<0, 0>>}
<1>1. Nodes(0) = {}
  BY StartFacts DEF Nodes
<1>2. \A v \in Nodes(1) : v = <<0, 0>>
  <2> TAKE v \in Nodes(1)
  <2>1. v \in Node /\ Start(v) \in Nat /\ Start(v) < 1
    BY StartFacts DEF Nodes
  <2>2. Start(v) = 0
    BY <2>1
  <2>3. v[1] # 1 /\ v[1] # 2 /\ v[1] # 3
    <3>1. v[2] \in Nat
      BY <2>1, NodeForms
    <3>2. v[2] * PerBlock \in Nat /\ v[2] * DoubleNum \in Nat
      BY <3>1, MapSizes, Multiply
    <3>3. SINGLE \in Nat /\ SINGLE >= 1 /\ DOUBLE \in Nat /\ DOUBLE >= 1 /\ TRIPLE >= 1
      BY MapSizes
    <3> QED
      BY <2>1, <2>2, <3>2, <3>3, StartFacts
  <2>4. v = <<0, v[2]>> /\ v[2] = 0
    BY <2>1, <2>2, <2>3, NodeForms, StartFacts
  <2> QED
    BY <2>4
<1>3. <<0, 0>> \in Nodes(1)
  <2>1. 0 \in Nat
    OBVIOUS
  <2>2. <<0, 0>> \in Node /\ Start(<<0, 0>>) = 0
    BY <2>1, NodesAt
  <2> QED
    BY <2>2 DEF Nodes
<1> QED
  BY <1>1, <1>2, <1>3

LEMMA NoFileFacts ==
  /\ NoFile \in MapInode /\ NoFile.blocks = 0
  /\ \A n \in 0 .. NDIRECT + 2 : NoFile.block[n] = 0
BY ZeroBlock DEF NoFile, MapInode

LEMMA NoFileMapped ==
  ASSUME NEW d \in MapDisk, BlockCounts(d), NEW o, MetadataBlocks \subseteq o,
         o \subseteq d.block_bitmap
  PROVE  Mapped(d, NoFile, o)
<1>1. 0 <= Capacity
  BY MapSizes
<1> QED
  BY <1>1, NoFileFacts, NoNodes DEF Mapped, Owned

LEMMA OneBlockFits == 1 <= Capacity
<1>1. DoubleNum \in Nat /\ PerBlock \in Nat \ {0} /\ SINGLE \in Nat /\ SINGLE >= 1
  BY MapSizes
<1>2. DOUBLE \in Nat /\ DOUBLE >= 1
  BY <1>1 DEF DOUBLE
<1>3. TRIPLE \in Nat /\ TRIPLE >= 1
  BY <1>1, <1>2 DEF TRIPLE
<1>4. PICK x : x = DoubleNum * PerBlock
  OBVIOUS
<1>5. x \in Nat
  BY <1>1, <1>4, Multiply
<1>6. Capacity = TRIPLE + x
  BY <1>4 DEF Capacity
<1> QED
  BY <1>3, <1>5, <1>6

\* ext2_create: the first block of the file is in group 0.
LEMMA CreateFacts ==
  ASSUME NEW d, NEW ip, NEW o, Mapped(d, ip, o), ip.blocks = 0,
         d.gd[Home].free_blocks >= 3, NEW new, new = AllocFrom(d, Home),
         NEW jp, jp = [NoFile EXCEPT !.blocks = 1,
                                     !.block[0] = WholeDisk(new.group, new.number)]
  PROVE  OneMore(d, ip, o, new.disk, jp)
<1>1. /\ d \in MapDisk /\ BlockCounts(d) /\ ip \in MapInode
      /\ MetadataBlocks \subseteq o /\ o \subseteq d.block_bitmap
  BY MappedFacts
<1>2. Home \in Group
  BY ZeroBlock DEF Home
<1>3. FreeBlocks(d, Home) # {}
  <2>1. Cardinality(FreeBlocks(d, Home)) >= 3
    BY <1>1, <1>2 DEF BlockCounts
  <2>2. Cardinality({}) = 0
    BY FS_EmptySet
  <2> QED
    BY <2>1, <2>2
<1>4. PICK h, n : h = new.group /\ n = new.number
  OBVIOUS
<1>5. h \in Group /\ n \in FreeBlocks(d, h) /\ new.disk = Taken(d, h, n)
  BY <1>2, <1>3, <1>4, AllocChoice
<1>6. PICK e, b : e = Taken(d, h, n) /\ b = WholeDisk(h, n)
  OBVIOUS
<1>7. e \in MapDisk /\ BlockCounts(e) /\ Marked(d, e, b)
  BY <1>1, <1>5, <1>6, TakenMarks
<1>8. /\ b \in Block /\ b \notin d.block_bitmap
      /\ e.block_bitmap = d.block_bitmap \cup {b}
  BY <1>7 DEF Marked
<1>9. jp \in MapInode /\ jp.blocks = 1 /\ jp.block[0] = b
  <2>0. PICK z : z = [m \in 0 .. NDIRECT + 2 |-> 0]
    OBVIOUS
  <2>1. PICK x : x = [z EXCEPT ![0] = b]
    OBVIOUS
  <2>2. 0 \in 0 .. NDIRECT + 2
    BY MapSizes
  <2>3. z \in [0 .. NDIRECT + 2 -> Block]
    BY <2>0, ZeroBlock
  <2>4. x \in [0 .. NDIRECT + 2 -> Block] /\ x[0] = b
    BY <1>8, <2>1, <2>2, <2>3
  <2>5. PICK j : j = [blocks |-> 1, block |-> x]
    OBVIOUS
  <2>6. j \in MapInode /\ j.blocks = 1 /\ j.block[0] = b
    BY <2>4, <2>5 DEF MapInode
  <2>7. jp = j
    <3>1. NoFile = [blocks |-> 0, block |-> z]
      BY <2>0 DEF NoFile
    <3>2. jp = [[blocks |-> 0, block |-> z] EXCEPT !.blocks = 1, !.block[0] = b]
      BY <1>4, <1>6, <3>1
    <3> QED
      BY <2>1, <2>5, <3>2
  <2> QED
    BY <2>6, <2>7
<1>10. Pointed(e, jp, <<0, 0>>) = b
  BY <1>9, MapSizes DEF Pointed, DataBlock
<1>11. Owned(e, jp, Nodes(1), o)
  <2>1. b \in e.block_bitmap \ o
    BY <1>1, <1>8
  <2> QED
    BY <1>10, <2>1, NoNodes DEF Owned
<1>12. Mapped(e, jp, o)
  <2>1. 1 <= Capacity
    BY OneBlockFits
  <2> QED
    BY <1>1, <1>7, <1>8, <1>9, <1>11, <2>1 DEF Mapped
<1>13. \A c \in e.block_bitmap : c \in d.block_bitmap \/ c \in PointedAll(e, jp, Nodes(1))
  <2>1. b \in PointedAll(e, jp, Nodes(1))
    BY <1>10, NoNodes DEF PointedAll
  <2> QED
    BY <1>8, <2>1
<1>14. SamePointed(d, ip, e, jp, Nodes(0))
  BY NoNodes DEF SamePointed
<1> QED
  BY <1>5, <1>6, <1>8, <1>9, <1>12, <1>13, <1>14 DEF OneMore

\* rm: the blocks of the file and no others are free again.
LEMMA ReleaseFacts ==
  ASSUME NEW d, NEW ip, NEW o, Mapped(d, ip, o),
         NEW e, e = CountedBack(d, Freed(d, ip))
  PROVE  /\ Mapped(e, NoFile, o)
         /\ e.block_bitmap = d.block_bitmap \ PointedAll(d, ip, Nodes(ip.blocks))
<1>1. /\ d \in MapDisk /\ BlockCounts(d) /\ ip \in MapInode
      /\ MetadataBlocks \subseteq o /\ o \subseteq d.block_bitmap
      /\ Owned(d, ip, Nodes(ip.blocks), o)
  BY MappedFacts
<1>2. PICK s, B : s = Freed(d, ip) /\ B = PointedAll(d, ip, Nodes(ip.blocks))
  OBVIOUS
<1>3. s \in Seq(Block) /\ Lists(s, B)
  BY <1>1, <1>2, FreedLists
<1>4. B \subseteq d.block_bitmap \ o
  BY <1>1, <1>2 DEF Owned, PointedAll
<1>5. /\ e \in MapDisk /\ BlockCounts(e) /\ e.block_bitmap = d.block_bitmap \ B
  <2>1. B \subseteq d.block_bitmap \ MetadataBlocks /\ e = CountedBack(d, s)
    BY <1>1, <1>2, <1>4
  <2> QED
    BY <1>1, <1>3, <2>1, CountedBackFacts
<1>6. o \subseteq e.block_bitmap
  BY <1>1, <1>4, <1>5
<1> QED
  BY <1>1, <1>2, <1>5, <1>6, NoFileMapped

\* The bits that are set at first are those of the blocks others use.
LEMMA InitFacts ==
  ASSUME NEW used \in [Group -> FirstDataBlock .. block_per_group],
         NEW o, o = {b \in Block : b % block_per_group < used[BlockGroup(b)]},
         NEW d, d = [gd |-> [h \in Group |-> [free_blocks |-> block_per_group - used[h]]],
                     block_bitmap |-> o, data |-> [b \in Block |-> Zeroed]]
  PROVE  Mapped(d, NoFile, o)
<1>0. /\ block_per_group \in Nat \ {0} /\ FirstDataBlock \in Nat \ {0}
      /\ FirstDataBlock < block_per_group
  BY Constants
<1>1. \A h \in Group : /\ used[h] \in Nat /\ used[h] >= FirstDataBlock
                       /\ used[h] <= block_per_group
  BY <1>0
<1>2. d.block_bitmap = o /\ \A h \in Group : d.gd[h].free_blocks = block_per_group - used[h]
  OBVIOUS
<1>3. d \in MapDisk
  <2>1. PICK y : y = [h \in Group |-> [free_blocks |-> block_per_group - used[h]]]
    OBVIOUS
  <2>2. y \in [Group -> [free_blocks : Nat]]
    <3>1. \A h \in Group : block_per_group - used[h] \in Nat
      BY <1>0, <1>1
    <3> QED
      BY <2>1, <3>1
  <2>3. PICK x : x = [b \in Block |-> Zeroed]
    OBVIOUS
  <2>4. x \in [Block -> [Slot -> MapEntry]]
    <3>1. NoEntry \in MapEntry
      BY ZeroBlock DEF NoEntry, MapEntry
    <3>2. Zeroed \in [Slot -> MapEntry]
      BY <3>1 DEF Zeroed
    <3> QED
      BY <2>3, <3>2
  <2>5. d = [gd |-> y, block_bitmap |-> o, data |-> x]
    BY <2>1, <2>3
  <2>6. o \in SUBSET Block
    OBVIOUS
  <2> QED
    BY <2>2, <2>4, <2>5, <2>6 DEF MapDisk
<1>4. MetadataBlocks \subseteq o
  <2> SUFFICES ASSUME NEW b \in MetadataBlocks PROVE b \in o
    OBVIOUS
  <2>1. PICK h \in Group, n \in 0 .. FirstDataBlock - 1 : b = WholeDisk(h, n)
    BY DEF MetadataBlocks
  <2>2. n \in 0 .. block_per_group - 1 /\ n < used[h]
    BY <1>0, <1>1
  <2> QED
    BY <2>1, <2>2, Numbered
<1>5. BlockCounts(d)
  <2> SUFFICES ASSUME NEW h \in Group
               PROVE  block_per_group - used[h] = Cardinality(FreeBlocks(d, h))
    BY <1>2 DEF BlockCounts
  <2>1. \A n \in FirstDataBlock .. block_per_group - 1 :
          WholeDisk(h, n) \in o <=> n < used[h]
    <3> TAKE n \in FirstDataBlock .. block_per_group - 1
    <3>1. n \in 0 .. block_per_group - 1
      BY <1>0
    <3>2. /\ WholeDisk(h, n) \in Block /\ BlockGroup(WholeDisk(h, n)) = h
          /\ WholeDisk(h, n) % block_per_group = n
      BY <3>1, Numbered
    <3> QED
      BY <3>2
  <2>2. FreeBlocks(d, h) = used[h] .. block_per_group - 1
    <3>1. FreeBlocks(d, h) = {n \in FirstDataBlock .. block_per_group - 1 : ~(n < used[h])}
      BY <1>2, <2>1 DEF FreeBlocks
    <3>2. PICK u \in Nat : u = used[h] /\ u >= FirstDataBlock
      BY <1>1
    <3>3. {n \in FirstDataBlock .. block_per_group - 1 : ~(n < u)} = u .. block_per_group - 1
      BY <1>0, <3>2
    <3> QED
      BY <3>1, <3>2, <3>3
  <2>3. PICK u \in Nat : u = used[h] /\ u <= block_per_group
    BY <1>1
  <2>4. Cardinality(u .. block_per_group - 1) =
          IF u > block_per_group - 1 THEN 0 ELSE block_per_group - 1 - u + 1
    BY <1>0, FS_Interval
  <2>5. Cardinality(u .. block_per_group - 1) = block_per_group - u
    BY <1>0, <2>3, <2>4
  <2> QED
    BY <2>2, <2>3, <2>5
<1> QED
  BY <1>2, <1>3, <1>4, <1>5, NoFileMapped

-----------------------------------------------------------------------------
(* Steps *)

\* The file lost its blocks, and they are free.
Emptied(d, ip, o, e, jp) ==
  /\ Mapped(e, jp, o) /\ jp = NoFile
  /\ e.block_bitmap = d.block_bitmap \ PointedAll(d, ip, Nodes(ip.blocks))

MapChange ==
  \/ OneMore(disk, inode, others, disk', inode')
  \/ Wasted(disk, inode, others, disk', inode') /\ writing /\ ~writing'
  \/ Emptied(disk, inode, others, disk', inode')
  \/ disk' = disk /\ inode' = inode

LEMMA MapInit ==
  ASSUME Init
  PROVE  MapInv /\ inode = NoFile
<1>1. PICK used \in [Group -> FirstDataBlock .. block_per_group] :
        /\ others = {b \in Block : b % block_per_group < used[BlockGroup(b)]}
        /\ disk = [gd |-> [h \in Group |-> [free_blocks |-> block_per_group - used[h]]],
                   block_bitmap |-> others, data |-> [b \in Block |-> Zeroed]]
  BY DEF Init
<1>2. PICK o, d : o = others /\ d = disk
  OBVIOUS
<1>3. /\ o = {b \in Block : b % block_per_group < used[BlockGroup(b)]}
      /\ d = [gd |-> [h \in Group |-> [free_blocks |-> block_per_group - used[h]]],
              block_bitmap |-> o, data |-> [b \in Block |-> Zeroed]]
  BY <1>1, <1>2
<1>4. Mapped(d, NoFile, o)
  BY <1>3, InitFacts
<1>5. inode = NoFile /\ g = Home /\ writing = FALSE
  BY DEF Init
<1> QED
  BY <1>2, <1>4, <1>5, ZeroBlock DEF MapInv, Home

LEMMA MapStep ==
  ASSUME MapInv, [Next]_vars
  PROVE  MapInv' /\ others' = others /\ MapChange
<1>0. Mapped(disk, inode, others) /\ g \in Group /\ writing \in BOOLEAN
  BY DEF MapInv
<1>1. CASE Create
  <2>1. PICK new : new = AllocFrom(disk, Home)
    OBVIOUS
  <2>2. /\ inode.blocks = 0 /\ disk.gd[Home].free_blocks >= 3 /\ disk' = new.disk
        /\ inode' = [NoFile EXCEPT !.blocks = 1,
                                   !.block[0] = WholeDisk(new.group, new.number)]
        /\ g' = Home /\ writing' = TRUE /\ others' = others
    BY <1>1, <2>1 DEF Create
  <2>3. PICK d, ip, o, jp :
          /\ d = disk /\ ip = inode /\ o = others
          /\ jp = [NoFile EXCEPT !.blocks = 1,
                                 !.block[0] = WholeDisk(new.group, new.number)]
    OBVIOUS
  <2>4. OneMore(d, ip, o, new.disk, jp)
    BY <1>0, <2>1, <2>2, <2>3, CreateFacts
  <2>5. OneMore(disk, inode, others, disk', inode')
    BY <2>2, <2>3, <2>4
  <2>6. Mapped(disk', inode', others')
    BY <2>2, <2>5 DEF OneMore
  <2> QED
    BY <2>2, <2>5, <2>6, ZeroBlock DEF MapInv, MapChange, Home
<1>2. CASE Extend
  <2>1. PICK new : new = AllocFrom(disk, g)
    OBVIOUS
  <2>2. PICK h, n : h = new.group /\ n = new.number
    OBVIOUS
  <2>3. PICK call : call = SetBlock(new.disk, inode, WholeDisk(h, n))
    OBVIOUS
  <2>4. /\ writing /\ inode.blocks < Capacity /\ others' = others
        /\ IF n = 0 THEN writing' = FALSE /\ UNCHANGED <<disk, inode, g>>
           ELSE /\ disk' = call.disk /\ inode' = call.ip /\ g' = h
                /\ writing' = call.ok
    BY <1>2, <2>1, <2>2, <2>3 DEF Extend
  <2>5. /\ h \in Group
        /\ n # 0 => n \in FreeBlocks(disk, h) /\ new.disk = Taken(disk, h, n)
    BY <1>0, <2>1, <2>2, AllocChoice
  <2>6. CASE n = 0
    BY <1>0, <2>4, <2>6 DEF MapInv, MapChange
  <2>7. CASE n # 0
    <3>1. PICK d, ip, o : d = disk /\ ip = inode /\ o = others
      OBVIOUS
    <3>2. n \in FreeBlocks(d, h) /\ call = SetBlock(Taken(d, h, n), ip, WholeDisk(h, n))
      BY <2>3, <2>5, <2>7, <3>1
    <3>3. WriteOutcome(d, ip, o, call)
      BY <1>0, <2>4, <2>5, <3>1, <3>2, WriteFacts
    <3>4. CASE call.ok = TRUE
      <4>1. OneMore(disk, inode, others, disk', inode')
        BY <2>4, <2>7, <3>1, <3>3, <3>4 DEF WriteOutcome
      <4>2. Mapped(disk', inode', others')
        BY <2>4, <4>1 DEF OneMore
      <4> QED
        BY <2>4, <2>5, <2>7, <3>4, <4>1, <4>2 DEF MapInv, MapChange
    <3>5. CASE call.ok = FALSE
      <4>1. Wasted(disk, inode, others, disk', inode')
        BY <2>4, <2>7, <3>1, <3>3, <3>5 DEF WriteOutcome
      <4>2. Mapped(disk', inode', others')
        BY <2>4, <4>1 DEF Wasted
      <4> QED
        BY <2>4, <2>5, <2>7, <3>5, <4>1, <4>2 DEF MapInv, MapChange
    <3> QED
      BY <3>3, <3>4, <3>5 DEF WriteOutcome
  <2> QED
    BY <2>6, <2>7
<1>3. CASE Release
  <2>1. /\ disk' = CountedBack(disk, Freed(disk, inode)) /\ inode' = NoFile
        /\ writing' = FALSE /\ g' = g /\ others' = others
    BY <1>3 DEF Release
  <2>2. PICK d, ip, o, e :
          /\ d = disk /\ ip = inode /\ o = others
          /\ e = CountedBack(disk, Freed(disk, inode))
    OBVIOUS
  <2>3. /\ Mapped(e, NoFile, o)
        /\ e.block_bitmap = d.block_bitmap \ PointedAll(d, ip, Nodes(ip.blocks))
    BY <1>0, <2>2, ReleaseFacts
  <2>4. Emptied(disk, inode, others, disk', inode')
    BY <2>1, <2>2, <2>3 DEF Emptied
  <2>5. Mapped(disk', inode', others')
    BY <2>1, <2>4 DEF Emptied
  <2> QED
    BY <1>0, <2>1, <2>4, <2>5 DEF MapInv, MapChange
<1>4. CASE UNCHANGED vars
  BY <1>0, <1>4 DEF vars, MapInv, MapChange
<1> QED
  BY <1>1, <1>2, <1>3, <1>4 DEF Next

LEMMA MapKept == Spec => []MapInv
<1>1. Init => MapInv
  BY MapInit
<1>2. MapInv /\ [Next]_vars => MapInv'
  BY MapStep
<1> QED
  BY <1>1, <1>2, PTL DEF Spec

LEMMA MapOwns ==
  ASSUME MapInv
  PROVE  MapOwnsOnce
<1>1. PICK d, ip, o : d = disk /\ ip = inode /\ o = others
  OBVIOUS
<1>2. Mapped(d, ip, o)
  BY <1>1 DEF MapInv
<1>3. /\ d \in MapDisk /\ BlockCounts(d) /\ ip \in MapInode
      /\ ip.blocks <= Capacity /\ Owned(d, ip, Nodes(ip.blocks), o)
  BY <1>2, MappedFacts
<1>4. PICK s, n, l : s = Freed(d, ip) /\ n = ip.blocks /\ l = get_data_block_at_inode(d, ip)
  OBVIOUS
<1>5. ToSet(s) = PointedAll(d, ip, Nodes(n)) /\ IsInjective(s)
  BY <1>3, <1>4, FreedLists DEF Lists
<1>6. ToSet(l) = PointedAll(d, ip, DataNodes(n))
  BY <1>3, <1>4, DataLists DEF Lists
<1>7. Tables(d, ip) = PointedAll(d, ip, TableNodes(n))
  BY <1>3, <1>4, TablesAre
<1>8. ToSet(s) = ToSet(l) \cup Tables(d, ip)
  BY <1>5, <1>6, <1>7 DEF PointedAll, DataNodes, TableNodes
<1>9. ToSet(s) \subseteq d.block_bitmap \ o
  BY <1>3, <1>4, <1>5 DEF Owned, PointedAll
<1>10. \A h \in Group : d.gd[h].free_blocks = Cardinality(FreeBlocks(d, h))
  BY <1>3 DEF BlockCounts
<1> QED
  BY <1>1, <1>4, <1>5, <1>8, <1>9, <1>10 DEF MapOwnsOnce, DataBlocks

\* Whatever is written and removed: no block is data or index of the file
\* twice, or in use by others; release_block gives back each one once, and the
\* group descriptors count exactly the blocks that are not marked.
THEOREM BlocksOwnedOnce == Spec => []MapOwnsOnce
<1>1. MapInv => MapOwnsOnce
  BY MapOwns
<1> QED
  BY <1>1, MapKept, PTL

-----------------------------------------------------------------------------
(* The list of blocks *)

\* The same blocks in the same places are the same list.
LEMMA ListKept ==
  ASSUME NEW d, NEW ip, NEW o, Mapped(d, ip, o), NEW e, NEW jp, Mapped(e, jp, o),
         jp.blocks = ip.blocks, SamePointed(d, ip, e, jp, Nodes(ip.blocks))
  PROVE  get_data_block_at_inode(e, jp) = get_data_block_at_inode(d, ip)
<1>1. PICK n \in Nat : n = ip.blocks
  BY MappedFacts
<1>2. /\ d \in MapDisk /\ ip \in MapInode /\ Owned(d, ip, Nodes(ip.blocks), o)
      /\ e \in MapDisk /\ jp \in MapInode /\ Owned(e, jp, Nodes(jp.blocks), o)
  BY MappedFacts
<1>3. PICK s, t : s = get_data_block_at_inode(d, ip) /\ t = get_data_block_at_inode(e, jp)
  OBVIOUS
<1>4. /\ s \in Seq(Block) /\ Len(s) = n
      /\ \A i \in 1 .. n : s[i] = Pointed(d, ip, <<0, i - 1>>)
  BY <1>1, <1>2, <1>3, DataLists
<1>5. /\ t \in Seq(Block) /\ Len(t) = n
      /\ \A i \in 1 .. n : t[i] = Pointed(e, jp, <<0, i - 1>>)
  BY <1>1, <1>2, <1>3, DataLists
<1>6. \A i \in 1 .. n : <<0, i - 1>> \in Nodes(n)
  <2> TAKE i \in 1 .. n
  <2>1. i - 1 \in Nat /\ i - 1 < n
    OBVIOUS
  <2> QED
    BY <2>1, NodesAt DEF Nodes
<1>7. \A i \in 1 .. n : t[i] = s[i]
  BY <1>1, <1>4, <1>5, <1>6 DEF SamePointed
<1>8. t = s
  BY <1>4, <1>5, <1>7
<1> QED
  BY <1>3, <1>8

\* One more block is appended, and it is a new one.
LEMMA ListGrows ==
  ASSUME NEW d, NEW ip, NEW o, Mapped(d, ip, o), NEW e, NEW jp, OneMore(d, ip, o, e, jp)
  PROVE  \E b \in Block \ ToSet(get_data_block_at_inode(d, ip)) :
           get_data_block_at_inode(e, jp) = Append(get_data_block_at_inode(d, ip), b)
<1>1. PICK n \in Nat : n = ip.blocks
  BY MappedFacts
<1>2. Mapped(e, jp, o) /\ jp.blocks = n + 1 /\ SamePointed(d, ip, e, jp, Nodes(n))
  BY <1>1 DEF OneMore
<1>3. /\ d \in MapDisk /\ ip \in MapInode /\ Owned(d, ip, Nodes(ip.blocks), o)
      /\ e \in MapDisk /\ jp \in MapInode /\ Owned(e, jp, Nodes(jp.blocks), o)
  BY <1>2, MappedFacts
<1>4. PICK s, t : s = get_data_block_at_inode(d, ip) /\ t = get_data_block_at_inode(e, jp)
  OBVIOUS
<1>5. /\ s \in Seq(Block) /\ Len(s) = n
      /\ \A i \in 1 .. n : s[i] = Pointed(d, ip, <<0, i - 1>>)
  BY <1>1, <1>3, <1>4, DataLists
<1>6. /\ t \in Seq(Block) /\ Len(t) = n + 1
      /\ \A i \in 1 .. n + 1 : t[i] = Pointed(e, jp, <<0, i - 1>>)
  BY <1>2, <1>3, <1>4, DataLists
<1>7. IsInjective(t)
  BY <1>3, <1>4, DataLists DEF Lists
<1>8. \A i \in 1 .. n : <<0, i - 1>> \in Nodes(n)
  <2> TAKE i \in 1 .. n
  <2>1. i - 1 \in Nat /\ i - 1 < n
    OBVIOUS
  <2> QED
    BY <2>1, NodesAt DEF Nodes
<1>9. \A i \in 1 .. n : i \in 1 .. n + 1 /\ t[i] = s[i]
  <2> TAKE i \in 1 .. n
  <2>1. i \in 1 .. n + 1
    OBVIOUS
  <2> QED
    BY <1>2, <1>5, <1>6, <1>8, <2>1 DEF SamePointed
<1>10. PICK b : b = t[n + 1]
  OBVIOUS
<1>11. b \in Block /\ n + 1 \in 1 .. n + 1
  BY <1>6, <1>10
<1>12. b \notin ToSet(s)
  <2> SUFFICES ASSUME NEW i \in 1 .. n, s[i] = b PROVE FALSE
    BY <1>5 DEF ToSet
  <2>1. DOMAIN t = 1 .. n + 1
    BY <1>6
  <2>2. i = n + 1
    BY <1>7, <1>9, <1>10, <1>11, <2>1 DEF IsInjective
  <2> QED
    BY <2>2
<1>13. t = Append(s, b)
  <2>1. PICK u : u = Append(s, b)
    OBVIOUS
  <2>2. u \in Seq(Block) /\ Len(u) = n + 1
    BY <1>5, <1>11, <2>1
  <2>3. \A i \in 1 .. n + 1 : u[i] = t[i]
    <3> TAKE i \in 1 .. n + 1
    <3>1. CASE i = n + 1
      BY <1>5, <1>10, <2>1, <3>1
    <3>2. CASE i # n + 1
      <4>1. i \in 1 .. n
        BY <3>2
      <4> QED
        BY <1>5, <1>9, <2>1, <4>1
    <3> QED
      BY <3>1, <3>2
  <2>4. u = t
    BY <1>6, <2>2, <2>3
  <2> QED
    BY <2>1, <2>4
<1> QED
  BY <1>4, <1>11, <1>12, <1>13

LEMMA NoList ==
  ASSUME NEW d
  PROVE  get_data_block_at_inode(d, NoFile) = << >>
<1>1. 1 .. 0 = {}
  OBVIOUS
<1> QED
  BY <1>1, NoFileFacts DEF get_data_block_at_inode

LEMMA ListStep ==
  ASSUME MapInv, [Next]_vars
  PROVE  Blocks!Next \/ DataBlocks' = DataBlocks
<1>1. PICK d, ip, o : d = disk /\ ip = inode /\ o = others
  OBVIOUS
<1>2. PICK e, jp : e = disk' /\ jp = inode'
  OBVIOUS
<1>3. PICK s, t : s = get_data_block_at_inode(d, ip) /\ t = get_data_block_at_inode(e, jp)
  OBVIOUS
<1>4. DataBlocks = s /\ DataBlocks' = t
  BY <1>1, <1>2, <1>3 DEF DataBlocks
<1>5. Mapped(d, ip, o)
  BY <1>1 DEF MapInv
<1>6. \/ OneMore(d, ip, o, e, jp) \/ Wasted(d, ip, o, e, jp)
      \/ Emptied(d, ip, o, e, jp) \/ (e = d /\ jp = ip)
  BY <1>1, <1>2, MapStep DEF MapChange
<1>7. CASE OneMore(d, ip, o, e, jp)
  <2>1. \E b \in Block \ ToSet(s) : t = Append(s, b)
    BY <1>3, <1>5, <1>7, ListGrows
  <2>2. Blocks!Extend
    <3>1. Blocks!ToSet(s) = ToSet(s)
      BY DEF Blocks!ToSet, ToSet
    <3> QED
      BY <1>4, <2>1, <3>1 DEF Blocks!Extend
  <2> QED
    BY <2>2 DEF Blocks!Next
<1>8. CASE Wasted(d, ip, o, e, jp)
  <2>1. Mapped(e, jp, o) /\ jp.blocks = ip.blocks /\ SamePointed(d, ip, e, jp, Nodes(ip.blocks))
    BY <1>8 DEF Wasted
  <2>2. t = s
    BY <1>3, <1>5, <2>1, ListKept
  <2> QED
    BY <1>4, <2>2
<1>9. CASE Emptied(d, ip, o, e, jp)
  <2>1. t = << >>
    BY <1>3, <1>9, NoList DEF Emptied
  <2>2. Blocks!Clear
    BY <1>4, <2>1 DEF Blocks!Clear
  <2> QED
    BY <2>2 DEF Blocks!Next
<1>10. CASE e = d /\ jp = ip
  BY <1>3, <1>4, <1>10
<1> QED
  BY <1>6, <1>7, <1>8, <1>9, <1>10

\* The tree of pointers stands for a list: through whatever levels, a written
\* block is appended, the others are found again, a call of set_inode_block that
\* fails half way changes nothing, and rm empties the list.
THEOREM MapImplementsList == Spec => ImplementsBlockList
<1>1. Init => Blocks!Init
  <2> SUFFICES ASSUME Init PROVE DataBlocks = << >>
    BY DEF Blocks!Init
  <2>1. inode = NoFile
    BY MapInit
  <2> QED
    BY <2>1, NoList DEF DataBlocks
<1>2. MapInv /\ [Next]_vars => [Blocks!Next]_DataBlocks
  BY ListStep
<1> QED
  BY <1>1, <1>2, MapKept, PTL DEF Spec, ImplementsBlockList, Blocks!Spec

-----------------------------------------------------------------------------
(* Lost blocks *)

LEMMA LostAre ==
  ASSUME NEW d, NEW ip, Mapped(d, ip, others)
  PROVE  Lost(d, ip) = d.block_bitmap \ (others \cup PointedAll(d, ip, Nodes(ip.blocks)))
<1>1. PICK o : o = others
  OBVIOUS
<1>2. /\ d \in MapDisk /\ ip \in MapInode
      /\ ip.blocks <= Capacity /\ Owned(d, ip, Nodes(ip.blocks), o)
  BY <1>1, MappedFacts
<1>3. PICK n, l : n = ip.blocks /\ l = get_data_block_at_inode(d, ip)
  OBVIOUS
<1>4. ToSet(l) = PointedAll(d, ip, DataNodes(n))
  BY <1>2, <1>3, DataLists DEF Lists
<1>5. Tables(d, ip) = PointedAll(d, ip, TableNodes(n))
  BY <1>2, <1>3, TablesAre
<1>6. PointedAll(d, ip, Nodes(n)) = ToSet(l) \cup Tables(d, ip)
  BY <1>4, <1>5 DEF PointedAll, DataNodes, TableNodes
<1> QED
  BY <1>3, <1>6 DEF Lost

LEMMA AtMostThree ==
  ASSUME NEW S, NEW x, NEW y, NEW z, S \subseteq {x, y, z}
  PROVE  Cardinality(S) <= 3
<1>1. PICK T : T = {x, y}
  OBVIOUS
<1>2. IsFiniteSet({x}) /\ Cardinality({x}) = 1
  BY FS_Singleton
<1>3. IsFiniteSet(T) /\ Cardinality(T) \in Nat /\ Cardinality(T) <= 2
  <2>1. T = {x} \cup {y}
    BY <1>1
  <2>2. /\ IsFiniteSet(T)
        /\ Cardinality(T) = Cardinality({x}) \/ Cardinality(T) = Cardinality({x}) + 1
    BY <1>2, <2>1, FS_AddElement
  <2> QED
    BY <1>2, <2>2
<1>4. PICK U : U = T \cup {z}
  OBVIOUS
<1>5. IsFiniteSet(U) /\ Cardinality(U) \in Nat /\ Cardinality(U) <= 3
  <2>1. IsFiniteSet(U) /\ (Cardinality(U) = Cardinality(T) \/ Cardinality(U) = Cardinality(T) + 1)
    BY <1>3, <1>4, FS_AddElement
  <2> QED
    BY <1>3, <2>1
<1>6. S \subseteq U
  BY <1>1, <1>4
<1>7. Cardinality(S) <= Cardinality(U) /\ IsFiniteSet(S)
  BY <1>5, <1>6, FS_Subset
<1>8. Cardinality(S) \in Nat
  BY <1>7, FS_CardinalityType
<1> QED
  BY <1>5, <1>7, <1>8

LEMMA LossStep ==
  ASSUME MapInv, [Next]_vars
  PROVE  LET more == Lost(disk', inode') \ Lost(disk, inode)
         IN  more # {} => /\ writing /\ ~writing'
                          /\ \A h \in Group : FreeBlocks(disk', h) = {}
                          /\ Cardinality(more) <= 3
<1>1. PICK d, ip : d = disk /\ ip = inode
  OBVIOUS
<1>2. PICK e, jp : e = disk' /\ jp = inode'
  OBVIOUS
<1>3. PICK more : more = Lost(e, jp) \ Lost(d, ip)
  OBVIOUS
<1>4. Mapped(d, ip, others) /\ Mapped(e, jp, others)
  BY <1>1, <1>2, MapStep DEF MapInv
<1>5. PICK p, q : p = PointedAll(d, ip, Nodes(ip.blocks)) /\ q = PointedAll(e, jp, Nodes(jp.blocks))
  OBVIOUS
<1>6. /\ Lost(d, ip) = d.block_bitmap \ (others \cup p)
      /\ Lost(e, jp) = e.block_bitmap \ (others \cup q)
  BY <1>4, <1>5, LostAre
<1>7. \/ OneMore(d, ip, others, e, jp)
      \/ Wasted(d, ip, others, e, jp) /\ writing /\ ~writing'
      \/ Emptied(d, ip, others, e, jp) \/ (e = d /\ jp = ip)
  BY <1>1, <1>2, MapStep DEF MapChange
<1>8. CASE OneMore(d, ip, others, e, jp)
  <2>1. p \subseteq q
    <3>1. SamePointed(d, ip, e, jp, Nodes(ip.blocks)) /\ jp.blocks = ip.blocks + 1
      BY <1>8 DEF OneMore
    <3>2. Nodes(ip.blocks) \subseteq Nodes(jp.blocks)
      <4>1. ip.blocks \in Nat
        BY <1>4, MappedFacts
      <4>2. \A v \in Node : Start(v) \in Nat
        BY StartFacts
      <4> QED
        BY <3>1, <4>1, <4>2 DEF Nodes
    <3> QED
      BY <1>5, <3>1, <3>2 DEF SamePointed, PointedAll
  <2>2. \A c \in e.block_bitmap : c \in d.block_bitmap \/ c \in q
    BY <1>5, <1>8 DEF OneMore
  <2>3. more = {}
    BY <1>3, <1>6, <2>1, <2>2
  <2> QED
    BY <1>1, <1>2, <1>3, <2>3
<1>9. CASE Wasted(d, ip, others, e, jp) /\ writing /\ ~writing'
  <2>1. PICK x, y, z : \A c \in e.block_bitmap : c \in d.block_bitmap \/ c \in {x, y, z}
    BY <1>9 DEF Wasted
  <2>2. q = p
    BY <1>5, <1>9 DEF Wasted, SamePointed, PointedAll
  <2>3. more \subseteq {x, y, z}
    BY <1>3, <1>6, <2>1, <2>2
  <2>4. Cardinality(more) <= 3
    BY <2>3, AtMostThree
  <2>5. \A h \in Group : FreeBlocks(e, h) = {}
    BY <1>9 DEF Wasted, NoneFree
  <2> QED
    BY <1>1, <1>2, <1>3, <1>9, <2>4, <2>5
<1>10. CASE Emptied(d, ip, others, e, jp)
  <2>1. e.block_bitmap = d.block_bitmap \ p
    BY <1>5, <1>10 DEF Emptied
  <2>2. more = {}
    BY <1>3, <1>6, <2>1
  <2> QED
    BY <1>1, <1>2, <1>3, <2>2
<1>11. CASE e = d /\ jp = ip
  <2>1. more = {}
    BY <1>3, <1>11
  <2> QED
    BY <1>1, <1>2, <1>3, <2>1
<1> QED
  BY <1>7, <1>8, <1>9, <1>10, <1>11

\* Blocks are lost only by a call of set_inode_block that fails on a full disk,
\* at most three at a time; release_block loses none.
THEOREM LossesAreBounded == Spec => LossOnlyWhenFull
<1>1. MapInv /\ [Next]_vars =>
        [LET more == Lost(disk', inode') \ Lost(disk, inode)
         IN  more # {} => /\ writing /\ ~writing'
                          /\ \A h \in Group : FreeBlocks(disk', h) = {}
                          /\ Cardinality(more) <= 3]_vars
  BY LossStep
<1> QED
  BY <1>1, MapKept, PTL DEF Spec, LossOnlyWhenFull
=============================================================================
