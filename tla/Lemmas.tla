------------------------------- MODULE Lemmas -------------------------------
(***************************************************************************)
(* Facts about sequences, numbers and finite sets.                         *)
(*                                                                         *)
(* What InsertAt and RemoveAt do to the elements, the range and the        *)
(* injectivity of a sequence, with which CFS.tla inserts into and erases   *)
(* from the in-order sequence of the red-black tree; what a push, a pop    *)
(* and a replaced head do to the label stacks of Scheduler.tla; least      *)
(* numbers, induction over sets of numbers and sums over finite sets, on   *)
(* which the accounts of the processor time, the search for free pages and *)
(* the blocks of the file system rest.  Every induction is over the least  *)
(* number that is not in a given set of numbers.                           *)
(***************************************************************************)
EXTENDS Integers, Sequences, SequencesExt, FiniteSets, Functions, SequenceTheorems,
        FiniteSetTheorems, WellFoundedInduction, TLAPS

-----------------------------------------------------------------------------
(* Sequences *)

\* InsertAt(s, k, e) has e at k, what was before k where it was, and the rest
\* one place further on: __enqueue_entity links one node into the tree.
LEMMA InsertAtFacts ==
  ASSUME NEW S, NEW s \in Seq(S), NEW k \in 1 .. Len(s) + 1, NEW e \in S
  PROVE  /\ InsertAt(s, k, e) \in Seq(S)
         /\ Len(InsertAt(s, k, e)) = Len(s) + 1
         /\ \A i \in 1 .. k - 1 : InsertAt(s, k, e)[i] = s[i]
         /\ InsertAt(s, k, e)[k] = e
         /\ \A i \in k .. Len(s) : InsertAt(s, k, e)[i + 1] = s[i]
<1> DEFINE a == SubSeq(s, 1, k - 1)
           b == SubSeq(s, k, Len(s))
           c == a \o <<e>>
<1>0. /\ Len(s) \in Nat /\ k \in Nat /\ 1 <= k /\ k <= Len(s) + 1
      /\ \A i \in 1 .. Len(s) : s[i] \in S
  BY LenProperties, ElementOfSeq
<1>1. a \in Seq(S) /\ Len(a) = k - 1 /\ \A i \in 1 .. k - 1 : a[i] = s[i]
  <2>1. \A i \in 1 .. k - 1 : s[i] \in S
    BY <1>0
  <2> QED
    BY <1>0, <2>1, SubSeqProperties
<1>2. /\ b \in Seq(S) /\ Len(b) = Len(s) + 1 - k
      /\ \A i \in 1 .. Len(b) : b[i] = s[k + i - 1]
  <2>1. \A i \in k .. Len(s) : s[i] \in S
    BY <1>0
  <2> QED
    BY <1>0, <2>1, SubSeqProperties
<1>3. InsertAt(s, k, e) = c \o b
  BY DEF InsertAt
<1> HIDE DEF a, b
<1>4. /\ c \in Seq(S) /\ Len(c) = k
      /\ \A i \in 1 .. k - 1 : c[i] = s[i]
      /\ c[k] = e
  BY <1>0, <1>1
<1> HIDE DEF c
<1>5. /\ c \o b \in Seq(S) /\ Len(c \o b) = Len(c) + Len(b)
      /\ \A i \in 1 .. Len(c) : (c \o b)[i] = c[i]
      /\ \A i \in 1 .. Len(b) : (c \o b)[Len(c) + i] = b[i]
  BY <1>2, <1>4
<1>6. ASSUME NEW i \in k .. Len(s) PROVE (c \o b)[i + 1] = s[i]
  <2>1. /\ i - k + 1 \in 1 .. Len(b) /\ Len(c) + (i - k + 1) = i + 1
        /\ k + (i - k + 1) - 1 = i
    BY <1>0, <1>2, <1>4
  <2>2. (c \o b)[Len(c) + (i - k + 1)] = b[i - k + 1]
    BY <2>1, <1>5
  <2>3. b[i - k + 1] = s[k + (i - k + 1) - 1]
    BY <2>1, <1>2
  <2> QED
    BY <2>1, <2>2, <2>3
<1> QED
  BY <1>0, <1>2, <1>3, <1>4, <1>5, <1>6

\* RemoveAt(s, k) keeps what was before k and moves the rest one place down:
\* __dequeue_entity unlinks one node.
LEMMA RemoveAtFacts ==
  ASSUME NEW S, NEW s \in Seq(S), NEW k \in 1 .. Len(s)
  PROVE  /\ RemoveAt(s, k) \in Seq(S)
         /\ Len(RemoveAt(s, k)) = Len(s) - 1
         /\ \A i \in 1 .. k - 1 : RemoveAt(s, k)[i] = s[i]
         /\ \A i \in k + 1 .. Len(s) : RemoveAt(s, k)[i - 1] = s[i]
<1> DEFINE a == SubSeq(s, 1, k - 1)
           b == SubSeq(s, k + 1, Len(s))
<1>0. /\ Len(s) \in Nat /\ k \in Nat /\ 1 <= k /\ k <= Len(s)
      /\ \A i \in 1 .. Len(s) : s[i] \in S
  BY LenProperties, ElementOfSeq
<1>1. a \in Seq(S) /\ Len(a) = k - 1 /\ \A i \in 1 .. k - 1 : a[i] = s[i]
  <2>1. \A i \in 1 .. k - 1 : s[i] \in S
    BY <1>0
  <2> QED
    BY <1>0, <2>1, SubSeqProperties
<1>2. /\ b \in Seq(S) /\ Len(b) = Len(s) - k
      /\ \A i \in 1 .. Len(s) - k : b[i] = s[k + i]
  <2>1. \A i \in k + 1 .. Len(s) : s[i] \in S
    BY <1>0
  <2> QED
    BY <1>0, <2>1, SubSeqProperties
<1>3. RemoveAt(s, k) = a \o b
  BY DEF RemoveAt
<1> HIDE DEF a, b
<1>4. /\ a \o b \in Seq(S) /\ Len(a \o b) = Len(s) - 1
      /\ \A i \in 1 .. k - 1 : (a \o b)[i] = a[i]
      /\ \A i \in 1 .. Len(s) - k : (a \o b)[k - 1 + i] = b[i]
  <2>1. Len(a) + Len(b) = Len(s) - 1
    BY <1>0, <1>1, <1>2
  <2>2. /\ a \o b \in Seq(S) /\ Len(a \o b) = Len(a) + Len(b)
        /\ \A i \in 1 .. Len(a) : (a \o b)[i] = a[i]
        /\ \A i \in 1 .. Len(b) : (a \o b)[Len(a) + i] = b[i]
    <3>1. a \in Seq(S) /\ b \in Seq(S)
      BY <1>1, <1>2
    <3> QED
      BY <3>1
  <2> QED
    BY <1>0, <1>1, <1>2, <2>1, <2>2
<1>5. ASSUME NEW i \in k + 1 .. Len(s) PROVE (a \o b)[i - 1] = s[i]
  <2>1. i - k \in 1 .. Len(s) - k /\ k - 1 + (i - k) = i - 1 /\ k + (i - k) = i
    BY <1>0
  <2>2. (a \o b)[k - 1 + (i - k)] = b[i - k]
    BY <2>1, <1>4
  <2>3. b[i - k] = s[k + (i - k)]
    BY <2>1, <1>2
  <2> QED
    BY <2>1, <2>2, <2>3
<1> QED
  BY <1>0, <1>1, <1>3, <1>4, <1>5

\* Inserting a new element adds exactly it and keeps a sequence injective: a
\* task that is not in the tree is in it once after __enqueue_entity.
LEMMA InsertRange ==
  ASSUME NEW S, NEW s \in Seq(S), NEW k \in 1 .. Len(s) + 1, NEW e \in S,
         IsInjective(s), e \notin Range(s)
  PROVE  /\ Range(InsertAt(s, k, e)) = Range(s) \cup {e}
         /\ IsInjective(InsertAt(s, k, e))
<1> DEFINE r == InsertAt(s, k, e)
<1>1. /\ r \in Seq(S) /\ Len(r) = Len(s) + 1
      /\ \A i \in 1 .. k - 1 : r[i] = s[i]
      /\ r[k] = e
      /\ \A i \in k .. Len(s) : r[i + 1] = s[i]
  BY InsertAtFacts
<1> HIDE DEF r
<1>2. /\ Len(s) \in Nat /\ k \in Nat /\ 1 <= k /\ k <= Len(s) + 1
      /\ DOMAIN s = 1 .. Len(s) /\ DOMAIN r = 1 .. Len(s) + 1
  BY <1>1, LenProperties
<1>3. \A i \in k + 1 .. Len(s) + 1 : r[i] = s[i - 1] /\ i - 1 \in k .. Len(s)
  <2> TAKE i \in k + 1 .. Len(s) + 1
  <2>1. i - 1 \in k .. Len(s) /\ (i - 1) + 1 = i
    BY <1>2
  <2> QED
    BY <2>1, <1>1
<1>4. Range(r) = Range(s) \cup {e}
  <2>1. ASSUME NEW i \in DOMAIN r PROVE r[i] \in Range(s) \cup {e}
    <3>1. CASE i \in 1 .. k - 1
      BY <3>1, <1>1, <1>2 DEF Range
    <3>2. CASE i = k
      BY <3>2, <1>1
    <3>3. CASE i \in k + 1 .. Len(s) + 1
      <4>1. i - 1 \in DOMAIN s /\ r[i] = s[i - 1]
        BY <3>3, <1>2, <1>3
      <4> QED
        BY <4>1 DEF Range
    <3> QED
      BY <3>1, <3>2, <3>3, <1>2
  <2>2. ASSUME NEW i \in DOMAIN s PROVE s[i] \in Range(r)
    <3>1. CASE i \in 1 .. k - 1
      BY <3>1, <1>1, <1>2 DEF Range
    <3>2. CASE i \in k .. Len(s)
      <4>1. i + 1 \in DOMAIN r /\ r[i + 1] = s[i]
        BY <3>2, <1>1, <1>2
      <4> QED
        BY <4>1 DEF Range
    <3> QED
      BY <3>1, <3>2, <1>2
  <2>3. e \in Range(r)
    <3>1. k \in DOMAIN r
      BY <1>2
    <3> QED
      BY <3>1, <1>1 DEF Range
  <2> QED
    BY <2>1, <2>2, <2>3 DEF Range
<1>5. IsInjective(r)
  <2> SUFFICES ASSUME NEW i \in DOMAIN r, NEW j \in DOMAIN r, r[i] = r[j]
               PROVE  i = j
    BY DEF IsInjective
  <2>1. \A l \in DOMAIN s : s[l] # e
    BY DEF Range
  <2>2. \A l \in DOMAIN s, m \in DOMAIN s : s[l] = s[m] => l = m
    BY DEF IsInjective
  <2> DEFINE old(l) == IF l < k THEN l ELSE l - 1
  <2>3. ASSUME NEW l \in DOMAIN r, l # k
        PROVE  old(l) \in DOMAIN s /\ r[l] = s[old(l)]
    <3>1. CASE l \in 1 .. k - 1
      BY <3>1, <1>1, <1>2
    <3>2. CASE l \in k + 1 .. Len(s) + 1
      BY <3>2, <1>2, <1>3
    <3> QED
      BY <2>3, <3>1, <3>2, <1>2
  <2>4. CASE i = k \/ j = k
    BY <2>1, <2>3, <2>4, <1>1
  <2>5. CASE i # k /\ j # k
    <3>1. old(i) = old(j)
      BY <2>2, <2>3, <2>5
    <3> QED
      BY <3>1, <2>5, <1>2
  <2> QED
    BY <2>4, <2>5
<1> QED
  BY <1>4, <1>5 DEF r

\* Removing from an injective sequence takes exactly that element out: a task
\* is not in the tree any more after __dequeue_entity.
LEMMA RemoveRange ==
  ASSUME NEW S, NEW s \in Seq(S), NEW k \in 1 .. Len(s), IsInjective(s)
  PROVE  /\ Range(RemoveAt(s, k)) = Range(s) \ {s[k]}
         /\ IsInjective(RemoveAt(s, k))
<1> DEFINE r == RemoveAt(s, k)
<1>1. /\ r \in Seq(S) /\ Len(r) = Len(s) - 1
      /\ \A i \in 1 .. k - 1 : r[i] = s[i]
      /\ \A i \in k + 1 .. Len(s) : r[i - 1] = s[i]
  BY RemoveAtFacts
<1> HIDE DEF r
<1>2. /\ Len(s) \in Nat /\ k \in Nat /\ 1 <= k /\ k <= Len(s)
      /\ DOMAIN s = 1 .. Len(s) /\ DOMAIN r = 1 .. Len(s) - 1
  BY <1>1, LenProperties
<1>3. \A i \in k .. Len(s) - 1 : r[i] = s[i + 1] /\ i + 1 \in k + 1 .. Len(s)
  <2> TAKE i \in k .. Len(s) - 1
  <2>1. i + 1 \in k + 1 .. Len(s) /\ (i + 1) - 1 = i
    BY <1>2
  <2> QED
    BY <2>1, <1>1
<1>4. \A i \in DOMAIN s, j \in DOMAIN s : s[i] = s[j] => i = j
  BY DEF IsInjective
<1>5. Range(r) = Range(s) \ {s[k]}
  <2>1. ASSUME NEW i \in DOMAIN r PROVE r[i] \in Range(s) \ {s[k]}
    <3>1. CASE i \in 1 .. k - 1
      <4>1. i \in DOMAIN s /\ k \in DOMAIN s /\ i # k
        BY <3>1, <1>2
      <4> QED
        BY <4>1, <3>1, <1>1, <1>4 DEF Range
    <3>2. CASE i \in k .. Len(s) - 1
      <4>1. i + 1 \in DOMAIN s /\ k \in DOMAIN s /\ i + 1 # k /\ r[i] = s[i + 1]
        BY <3>2, <1>2, <1>3
      <4> QED
        BY <4>1, <1>4 DEF Range
    <3> QED
      BY <3>1, <3>2, <1>2
  <2>2. ASSUME NEW i \in DOMAIN s, s[i] # s[k] PROVE s[i] \in Range(r)
    <3>1. i \in 1 .. k - 1 \/ i \in k + 1 .. Len(s)
      BY <2>2, <1>2
    <3>2. CASE i \in 1 .. k - 1
      <4>1. i \in DOMAIN r /\ r[i] = s[i]
        BY <3>2, <1>1, <1>2
      <4> QED
        BY <4>1 DEF Range
    <3>3. CASE i \in k + 1 .. Len(s)
      <4>1. i - 1 \in DOMAIN r /\ r[i - 1] = s[i]
        BY <3>3, <1>1, <1>2
      <4> QED
        BY <4>1 DEF Range
    <3> QED
      BY <3>1, <3>2, <3>3
  <2> QED
    BY <2>1, <2>2 DEF Range
<1>6. IsInjective(r)
  <2> SUFFICES ASSUME NEW i \in DOMAIN r, NEW j \in DOMAIN r, r[i] = r[j]
               PROVE  i = j
    BY DEF IsInjective
  <2> DEFINE old(l) == IF l < k THEN l ELSE l + 1
  <2>1. ASSUME NEW l \in DOMAIN r
        PROVE  old(l) \in DOMAIN s /\ r[l] = s[old(l)]
    <3>1. CASE l \in 1 .. k - 1
      BY <3>1, <1>1, <1>2
    <3>2. CASE l \in k .. Len(s) - 1
      BY <3>2, <1>2, <1>3
    <3> QED
      BY <3>1, <3>2, <1>2
  <2>2. old(i) = old(j)
    BY <2>1, <1>4
  <2> QED
    BY <2>2, <1>2
<1> QED
  BY <1>5, <1>6 DEF r

\* A nonempty sequence has its head at 1.
LEMMA HeadIsFirst ==
  ASSUME NEW S, NEW s \in Seq(S), s # << >>
  PROVE  /\ Len(s) \in Nat /\ Len(s) >= 1
         /\ Head(s) = s[1] /\ s[1] \in S
         /\ \A i \in 1 .. Len(s) : s[i] \in S
<1>1. Len(s) \in Nat /\ Len(s) # 0
  BY LenProperties, EmptySeq
<1>2. \A i \in 1 .. Len(s) : s[i] \in S
  BY ElementOfSeq
<1> QED
  BY <1>1, <1>2, HeadTailProperties

\* A call pushes a label.
LEMMA PushFacts ==
  ASSUME NEW S, NEW s \in Seq(S), NEW e \in S
  PROVE  /\ <<e>> \o s \in Seq(S)
         /\ Len(<<e>> \o s) = Len(s) + 1
         /\ <<e>> \o s # << >>
         /\ Head(<<e>> \o s) = e /\ (<<e>> \o s)[1] = e
         /\ \A i \in 1 .. Len(s) : (<<e>> \o s)[i + 1] = s[i]
<1>1. <<e>> \in Seq(S) /\ Len(<<e>>) = 1 /\ <<e>>[1] = e
  OBVIOUS
<1>2. PICK u \in Seq(S) : u = <<e>>
  BY <1>1
<1>3. /\ u \o s \in Seq(S) /\ Len(u \o s) = Len(u) + Len(s)
      /\ \A i \in 1 .. Len(u) : (u \o s)[i] = u[i]
      /\ \A i \in 1 .. Len(s) : (u \o s)[Len(u) + i] = s[i]
  OBVIOUS
<1>4. Len(u) = 1 /\ u[1] = e /\ Len(s) \in Nat
  BY <1>1, <1>2, LenProperties
<1>5. /\ Len(u \o s) = Len(s) + 1 /\ (u \o s)[1] = e
      /\ \A i \in 1 .. Len(s) : (u \o s)[i + 1] = s[i]
  BY <1>3, <1>4
<1>6. u \o s # << >>
  BY <1>3, <1>4, <1>5, LenProperties
<1> QED
  BY <1>2, <1>3, <1>5, <1>6, HeadIsFirst

\* A return pops one.
LEMMA PopFacts ==
  ASSUME NEW S, NEW s \in Seq(S), s # << >>
  PROVE  /\ Tail(s) \in Seq(S)
         /\ Len(Tail(s)) = Len(s) - 1
         /\ \A i \in 1 .. Len(s) - 1 : Tail(s)[i] = s[i + 1]
BY HeadTailProperties

\* All but the last.
LEMMA FrontFacts ==
  ASSUME NEW S, NEW s \in Seq(S), s # << >>
  PROVE  /\ Front(s) \in Seq(S) /\ Len(Front(s)) = Len(s) - 1
         /\ \A k \in 1 .. Len(s) - 1 : Front(s)[k] = s[k]
<1>1. Len(s) \in Nat /\ Len(s) >= 1
  OBVIOUS
<1>2. Front(s) = SubSeq(s, 1, Len(s) - 1)
  BY DEF Front
<1>3. PICK m \in Int : m = Len(s) - 1
  BY <1>1
<1>4. (1 <= m /\ m - 1 + 1 = Len(s) - 1) \/ m = 0
  BY <1>1, <1>3
<1>5. \A k \in 1 .. m : s[k] \in S
  BY <1>1, <1>3
<1>6. /\ SubSeq(s, 1, m) \in Seq(S)
      /\ Len(SubSeq(s, 1, m)) = IF 1 <= m THEN m - 1 + 1 ELSE 0
  <2>1. 1 \in Int /\ m \in Int
    BY <1>3
  <2>2. \A i \in 1 .. m : s[i] \in S
    BY <1>5
  <2> QED
    BY <2>1, <2>2, SubSeqProperties
<1>7. \A k \in 1 .. Len(s) - 1 : Front(s)[k] = s[k]
  BY <1>1, <1>2
<1> QED
  BY <1>2, <1>3, <1>4, <1>6, <1>7

\* A label in place of the innermost one.
LEMMA ReplaceFacts ==
  ASSUME NEW S, NEW s \in Seq(S), s # << >>, NEW e \in S
  PROVE  /\ <<e>> \o Tail(s) \in Seq(S)
         /\ Len(<<e>> \o Tail(s)) = Len(s)
         /\ <<e>> \o Tail(s) # << >>
         /\ Head(<<e>> \o Tail(s)) = e /\ (<<e>> \o Tail(s))[1] = e
         /\ \A i \in 2 .. Len(s) : (<<e>> \o Tail(s))[i] = s[i]
<1>1. PICK u \in Seq(S) : u = Tail(s)
  BY PopFacts
<1>2. /\ <<e>> \o u \in Seq(S)
      /\ Len(<<e>> \o u) = Len(u) + 1
      /\ <<e>> \o u # << >>
      /\ Head(<<e>> \o u) = e /\ (<<e>> \o u)[1] = e
      /\ \A i \in 1 .. Len(u) : (<<e>> \o u)[i + 1] = u[i]
  BY PushFacts
<1>3. /\ Len(u) = Len(s) - 1 /\ Len(s) \in Nat /\ Len(s) >= 1
      /\ \A i \in 1 .. Len(s) - 1 : u[i] = s[i + 1]
  BY <1>1, PopFacts, HeadIsFirst
<1>4. ASSUME NEW i \in 2 .. Len(s) PROVE (<<e>> \o u)[i] = s[i]
  <2>1. PICK j \in 1 .. Len(s) - 1 : i = j + 1
    BY <1>3
  <2>2. (<<e>> \o u)[j + 1] = u[j] /\ u[j] = s[j + 1]
    BY <1>2, <1>3, <2>1
  <2> QED
    BY <2>1, <2>2
<1> QED
  BY <1>1, <1>2, <1>3, <1>4

\* A call that changes the innermost label first.
LEMMA ReplacePushFacts ==
  ASSUME NEW S, NEW s \in Seq(S), s # << >>, NEW e \in S, NEW f \in S
  PROVE  /\ <<e, f>> \o Tail(s) \in Seq(S)
         /\ Len(<<e, f>> \o Tail(s)) = Len(s) + 1
         /\ <<e, f>> \o Tail(s) # << >>
         /\ Head(<<e, f>> \o Tail(s)) = e /\ (<<e, f>> \o Tail(s))[1] = e
         /\ (<<e, f>> \o Tail(s))[2] = f
         /\ \A i \in 2 .. Len(s) : (<<e, f>> \o Tail(s))[i + 1] = s[i]
<1>1. <<e, f>> \in Seq(S) /\ Len(<<e, f>>) = 2 /\ <<e, f>>[1] = e /\ <<e, f>>[2] = f
  OBVIOUS
<1>2. PICK u \in Seq(S) : u = <<e, f>>
  BY <1>1
<1>3. PICK v \in Seq(S) : v = Tail(s)
  BY PopFacts
<1>4. /\ u \o v \in Seq(S) /\ Len(u \o v) = Len(u) + Len(v)
      /\ \A i \in 1 .. Len(u) : (u \o v)[i] = u[i]
      /\ \A i \in 1 .. Len(v) : (u \o v)[Len(u) + i] = v[i]
  OBVIOUS
<1>5. /\ Len(v) = Len(s) - 1 /\ Len(s) \in Nat /\ Len(s) >= 1
      /\ \A i \in 1 .. Len(s) - 1 : v[i] = s[i + 1]
  BY <1>3, PopFacts, HeadIsFirst
<1>6. Len(u) = 2 /\ u[1] = e /\ u[2] = f
  BY <1>1, <1>2
<1>7. Len(u \o v) = Len(s) + 1 /\ (u \o v)[1] = e /\ (u \o v)[2] = f
  BY <1>4, <1>5, <1>6
<1>8. ASSUME NEW i \in 2 .. Len(s) PROVE (u \o v)[i + 1] = s[i]
  <2>1. PICK j \in 1 .. Len(s) - 1 : i = j + 1 /\ i + 1 = 2 + j
    BY <1>5
  <2>2. (u \o v)[2 + j] = v[j] /\ v[j] = s[j + 1]
    BY <1>4, <1>5, <1>6, <2>1
  <2> QED
    BY <2>1, <2>2
<1>9. u \o v # << >>
  BY <1>4, <1>5, <1>7, LenProperties
<1> QED
  BY <1>2, <1>3, <1>4, <1>7, <1>8, <1>9, HeadIsFirst
-----------------------------------------------------------------------------
(* Numbers and finite sets *)

\* Every nonempty set of natural numbers has a least element.
LEMMA LeastNat ==
  ASSUME NEW T \in SUBSET Nat, T # {}
  PROVE  \E n \in T : \A m \in T : n <= m
<1>1. PICK n \in T : \A m \in T : ~(<<m, n>> \in OpToRel(<, Nat))
  <2>1. IsWellFoundedOn(OpToRel(<, Nat), Nat)
    BY NatLessThanWellFounded
  <2> QED
    BY <2>1, WFMin
<1>2. \A m \in T : ~(m < n)
  BY <1>1 DEF OpToRel
<1> QED
  BY <1>2

\* Induction over the natural numbers, for a set of them.
LEMMA InductNat ==
  ASSUME NEW G \in SUBSET Nat, 0 \in G, \A n \in G : n + 1 \in G
  PROVE  G = Nat
<1>1. SUFFICES ASSUME Nat \ G # {} PROVE FALSE
  OBVIOUS
<1>2. PICK n \in Nat \ G : \A m \in Nat \ G : n <= m
  BY <1>1, LeastNat
<1>3. n # 0 /\ n - 1 \in Nat /\ ~(n <= n - 1)
  BY <1>2
<1>4. n - 1 \in G
  BY <1>2, <1>3
<1> QED
  BY <1>2, <1>3, <1>4

-----------------------------------------------------------------------------
(* Sums *)

Choice(s) == CHOOSE x \in s : TRUE

\* The sum over s by the sums g of its subsets, as the library defines it.
SumStep(f, g, s) ==
  IF s = {} THEN 0 ELSE LET x == Choice(s) IN f[x] + g[s \ {x}]

Sums(f, S) == CHOOSE g : g = [s \in SUBSET S |-> SumStep(f, g, s)]

\* The sum of a function's values is the last of these sums.
LEMMA SumOpened ==
  ASSUME NEW S, NEW V, NEW f \in [S -> V]
  PROVE  SumFunction(f) = Sums(f, S)[S]
<1>1. DOMAIN f = S
  OBVIOUS
<1>2. SumFunction(f) = Sums(f, DOMAIN f)[DOMAIN f]
  BY DEF SumFunction, SumFunctionOnSet, FoldFunctionOnSet, MapThenFoldSet, Sums, SumStep, Choice
<1> QED
  BY <1>1, <1>2

LEMMA ChoiceIn == ASSUME NEW s, s # {} PROVE Choice(s) \in s
BY DEF Choice

\* Of a subset s of a finite set S: its size, and that it is smaller without
\* the element that the sum takes first.
Subset(s, S) ==
  /\ Cardinality(s) \in Nat
  /\ Cardinality(s) <= Cardinality(S)
  /\ Cardinality(s) = 0 => s = {}
  /\ s # {} => /\ Choice(s) \in s /\ Choice(s) \in S
               /\ s \ {Choice(s)} \in SUBSET S
               /\ Cardinality(s \ {Choice(s)}) = Cardinality(s) - 1

LEMMA SmallerSubset ==
  ASSUME NEW S, IsFiniteSet(S)
  PROVE  \A s \in SUBSET S : Subset(s, S)
<1> SUFFICES ASSUME NEW s \in SUBSET S PROVE Subset(s, S)
  OBVIOUS
<1>1. IsFiniteSet(s) /\ Cardinality(s) <= Cardinality(S)
  BY FS_Subset
<1>2. Cardinality(s) \in Nat
  BY <1>1, FS_CardinalityType
<1>3. Cardinality(s) = 0 => s = {}
  BY <1>1, FS_EmptySet
<1>4. ASSUME s # {}
      PROVE  /\ Choice(s) \in s /\ Choice(s) \in S
             /\ s \ {Choice(s)} \in SUBSET S
             /\ Cardinality(s \ {Choice(s)}) = Cardinality(s) - 1
  BY <1>1, <1>4, ChoiceIn, FS_RemoveElement
<1> QED
  BY <1>1, <1>2, <1>3, <1>4 DEF Subset

\* A property of the sums that carries over from a set without its first
\* element to the set holds of all: G is the set of subsets that have it.
LEMMA InductSubsets ==
  ASSUME NEW S, IsFiniteSet(S), NEW G \in SUBSET (SUBSET S), {} \in G,
         \A s \in SUBSET S : s # {} /\ s \ {Choice(s)} \in G => s \in G
  PROVE  G = SUBSET S
<1> DEFINE N == {n \in Nat : \A s \in SUBSET S : Cardinality(s) <= n => s \in G}
<1>1. 0 \in N
  <2> SUFFICES ASSUME NEW s \in SUBSET S, Cardinality(s) <= 0 PROVE s \in G
    OBVIOUS
  <2>1. Subset(s, S)
    BY SmallerSubset
  <2>2. s = {}
    BY <2>1 DEF Subset
  <2> QED
    BY <2>2
<1>2. ASSUME NEW n \in N PROVE n + 1 \in N
  <2> SUFFICES ASSUME NEW s \in SUBSET S, Cardinality(s) <= n + 1 PROVE s \in G
    OBVIOUS
  <2>1. CASE s = {}
    BY <2>1
  <2>2. CASE s # {}
    <3>1. PICK r \in SUBSET S : r = s \ {Choice(s)} /\ Cardinality(r) <= n
      <4>1. Subset(s, S)
        BY SmallerSubset
      <4> QED
        BY <2>2, <4>1 DEF Subset
    <3>2. r \in G
      BY <3>1
    <3> QED
      BY <2>2, <3>1, <3>2
  <2> QED
    BY <2>1, <2>2
<1>3. N = Nat
  <2> HIDE DEF N
  <2> QED
    BY <1>1, <1>2, InductNat DEF N
<1>4. ASSUME NEW s \in SUBSET S PROVE s \in G
  <2>1. PICK n \in N : n = Cardinality(s)
    <3>1. Subset(s, S)
      BY SmallerSubset
    <3> QED
      BY <1>3, <3>1 DEF Subset
  <2>2. Cardinality(s) <= n
    BY <2>1
  <2> QED
    BY <2>2
<1> QED
  BY <1>4

\* The sums over all subsets of up to n elements can be tabulated.
SumTable(g, n, f, S) ==
  \A s \in SUBSET S : Cardinality(s) <= n => g[s] = SumStep(f, g, s)

LEMMA SumTables ==
  ASSUME NEW S, NEW f \in [S -> Nat], IsFiniteSet(S), NEW n \in Nat
  PROVE  \E g \in [SUBSET S -> Nat] : SumTable(g, n, f, S)
<1> DEFINE G == {m \in Nat : \E g \in [SUBSET S -> Nat] : SumTable(g, m, f, S)}
<1>1. 0 \in G
  <2>1. PICK g \in [SUBSET S -> Nat] : \A s \in SUBSET S : g[s] = 0
    <3> WITNESS [s \in SUBSET S |-> 0] \in [SUBSET S -> Nat]
    <3> QED
      OBVIOUS
  <2>2. ASSUME NEW s \in SUBSET S, Cardinality(s) <= 0
        PROVE  g[s] = SumStep(f, g, s)
    <3>1. s = {}
      <4>1. Subset(s, S)
        BY SmallerSubset
      <4> QED
        BY <2>2, <4>1 DEF Subset
    <3> QED
      BY <2>1, <3>1 DEF SumStep
  <2>3. SumTable(g, 0, f, S)
    BY <2>2 DEF SumTable
  <2> QED
    BY <2>3
<1>2. ASSUME NEW m \in G PROVE m + 1 \in G
  <2>1. PICK g \in [SUBSET S -> Nat] : SumTable(g, m, f, S)
    OBVIOUS
  <2> DEFINE h == [s \in SUBSET S |->
                     IF Cardinality(s) <= m THEN g[s] ELSE SumStep(f, g, s)]
  <2>2. h \in [SUBSET S -> Nat]
    <3>1. ASSUME NEW s \in SUBSET S PROVE SumStep(f, g, s) \in Nat
      <4>1. CASE s = {}
        BY <4>1 DEF SumStep
      <4>2. CASE s # {}
        <5>1. f[Choice(s)] \in Nat /\ g[s \ {Choice(s)}] \in Nat
          <6>1. Subset(s, S)
            BY SmallerSubset
          <6> QED
            BY <4>2, <6>1 DEF Subset
        <5> QED
          BY <4>2, <5>1 DEF SumStep
      <4> QED
        BY <4>1, <4>2
    <3> QED
      BY <3>1
  <2>3. ASSUME NEW s \in SUBSET S PROVE h[s] = SumStep(f, g, s)
    BY <2>1 DEF SumTable
  <2>4. ASSUME NEW s \in SUBSET S, Cardinality(s) <= m + 1
        PROVE  SumStep(f, h, s) = SumStep(f, g, s)
    <3>1. CASE s = {}
      BY <3>1 DEF SumStep
    <3>2. CASE s # {}
      <4>1. PICK r \in SUBSET S : r = s \ {Choice(s)} /\ Cardinality(r) <= m
        <5>1. Subset(s, S)
          BY SmallerSubset
        <5> QED
          BY <2>4, <3>2, <5>1 DEF Subset
      <4>2. h[r] = g[r]
        BY <4>1
      <4> QED
        BY <3>2, <4>1, <4>2 DEF SumStep
    <3> QED
      BY <3>1, <3>2
  <2> HIDE DEF h
  <2>5. SumTable(h, m + 1, f, S)
    BY <2>3, <2>4 DEF SumTable
  <2> QED
    BY <2>2, <2>5
<1>3. G = Nat
  <2> HIDE DEF G
  <2> QED
    BY <1>1, <1>2, InductNat DEF G
<1> QED
  BY <1>3

\* So the equation of the sums has a solution, and they are numbers.
LEMMA SumsFacts ==
  ASSUME NEW S, NEW f \in [S -> Nat], IsFiniteSet(S)
  PROVE  \A s \in SUBSET S : /\ Sums(f, S)[s] \in Nat
                             /\ Sums(f, S)[s] = SumStep(f, Sums(f, S), s)
<1>0. Cardinality(S) \in Nat
  BY FS_CardinalityType
<1>1. PICK g \in [SUBSET S -> Nat] : SumTable(g, Cardinality(S), f, S)
  BY <1>0, SumTables
<1>2. \A s \in SUBSET S : Cardinality(s) <= Cardinality(S)
  <2> SUFFICES ASSUME NEW s \in SUBSET S
               PROVE  Cardinality(s) <= Cardinality(S)
    OBVIOUS
  <2>1. Subset(s, S)
    BY SmallerSubset
  <2> QED
    BY <2>1 DEF Subset
<1>3. g = [s \in SUBSET S |-> SumStep(f, g, s)]
  BY <1>1, <1>2 DEF SumTable
<1>4. Sums(f, S) = [s \in SUBSET S |-> SumStep(f, Sums(f, S), s)]
  BY <1>3 DEF Sums
<1>5. PICK h : h = Sums(f, S)
  OBVIOUS
<1>6. h = [s \in SUBSET S |-> SumStep(f, h, s)]
  BY <1>4, <1>5
<1>7. \A s \in SUBSET S : h[s] = SumStep(f, h, s)
  BY <1>6
<1> DEFINE G == {s \in SUBSET S : h[s] \in Nat}
<1>8. {} \in G
  BY <1>7 DEF SumStep
<1>9. ASSUME NEW s \in SUBSET S, s # {}, s \ {Choice(s)} \in G PROVE s \in G
  <2>1. f[Choice(s)] \in Nat /\ h[s \ {Choice(s)}] \in Nat
    <3>1. Subset(s, S)
      BY SmallerSubset
    <3> QED
      BY <1>9, <3>1 DEF Subset
  <2>2. h[s] = SumStep(f, h, s)
    BY <1>7
  <2> QED
    BY <1>9, <2>1, <2>2 DEF SumStep
<1>10. G = SUBSET S
  <2>1. G \in SUBSET (SUBSET S)
    OBVIOUS
  <2> HIDE DEF G
  <2> QED
    BY <1>8, <1>9, <2>1, InductSubsets
<1> QED
  BY <1>5, <1>7, <1>10

\* A sum of zeros is zero.
LEMMA SumZero ==
  ASSUME NEW S, IsFiniteSet(S), NEW f \in [S -> Nat], \A x \in S : f[x] = 0
  PROVE  SumFunction(f) = 0
<1> DEFINE F == Sums(f, S)
<1>5. \A s \in SUBSET S : F[s] = SumStep(f, F, s)
  BY SumsFacts
<1> HIDE DEF F
<1> DEFINE G == {s \in SUBSET S : F[s] = 0}
<1>1. {} \in G
  BY <1>5 DEF SumStep
<1>2. ASSUME NEW s \in SUBSET S, s # {}, s \ {Choice(s)} \in G PROVE s \in G
  <2>1. f[Choice(s)] = 0 /\ F[s \ {Choice(s)}] = 0
    <3>1. Subset(s, S)
      BY SmallerSubset
    <3> QED
      BY <1>2, <3>1 DEF Subset
  <2>2. F[s] = SumStep(f, F, s)
    BY <1>5
  <2> QED
    BY <1>2, <2>1, <2>2 DEF SumStep
<1>3. G = SUBSET S
  <2>1. G \in SUBSET (SUBSET S)
    OBVIOUS
  <2> HIDE DEF G
  <2> QED
    BY <1>1, <1>2, <2>1, InductSubsets
<1>4. F[S] = 0
  BY <1>3
<1> QED
  BY <1>4, SumOpened DEF F

\* g is f with d more at x.
More(g, f, x, d) == g = [f EXCEPT ![x] = f[x] + d]

\* What is added to one of its terms is added to the sum.
LEMMA SumAdd ==
  ASSUME NEW S, IsFiniteSet(S), NEW f \in [S -> Nat], NEW x \in S, NEW d \in Nat,
         NEW g, More(g, f, x, d)
  PROVE  SumFunction(g) = SumFunction(f) + d
<1>0. g \in [S -> Nat] /\ g[x] = f[x] + d /\ \A y \in S \ {x} : g[y] = f[y]
  BY DEF More
<1>1. PICK F, H : F = Sums(f, S) /\ H = Sums(g, S)
  OBVIOUS
<1>2. \A s \in SUBSET S : /\ F[s] \in Nat /\ F[s] = SumStep(f, F, s)
                          /\ H[s] \in Nat /\ H[s] = SumStep(g, H, s)
  <2>1. \A s \in SUBSET S : F[s] \in Nat /\ F[s] = SumStep(f, F, s)
    BY <1>1, SumsFacts
  <2>2. \A s \in SUBSET S : H[s] \in Nat /\ H[s] = SumStep(g, H, s)
    <3>1. g \in [S -> Nat]
      BY <1>0
    <3>2. \A s \in SUBSET S : /\ Sums(g, S)[s] \in Nat
                               /\ Sums(g, S)[s] = SumStep(g, Sums(g, S), s)
      BY <3>1, SumsFacts
    <3> QED
      BY <1>1, <3>2
  <2> QED
    BY <2>1, <2>2
<1> DEFINE Extra(s) == IF x \in s THEN d ELSE 0
           G == {s \in SUBSET S : H[s] = F[s] + Extra(s)}
<1>3. {} \in G
  <2>1. F[{}] = 0 /\ H[{}] = 0
    BY <1>2 DEF SumStep
  <2> QED
    BY <2>1
<1>4. ASSUME NEW s \in SUBSET S, s # {}, s \ {Choice(s)} \in G PROVE s \in G
  <2>1. PICK c \in S, r \in SUBSET S :
          c = Choice(s) /\ r = s \ {c} /\ c \in s /\ r \in G
    <3>1. Subset(s, S)
      BY SmallerSubset
    <3> QED
      BY <1>4, <3>1 DEF Subset
  <2>2. F[s] = f[c] + F[r] /\ H[s] = g[c] + H[r]
    <3>1. F[s] = SumStep(f, F, s) /\ H[s] = SumStep(g, H, s)
      BY <1>2
    <3> QED
      BY <1>4, <2>1, <3>1 DEF SumStep
  <2>3. f[c] \in Nat /\ g[c] \in Nat /\ F[r] \in Nat /\ H[r] \in Nat
    BY <1>0, <1>2
  <2>4. H[r] = F[r] + Extra(r)
    BY <2>1
  <2>5. CASE c = x
    BY <1>0, <2>1, <2>2, <2>3, <2>4, <2>5
  <2>6. CASE c # x
    BY <1>0, <2>1, <2>2, <2>3, <2>4, <2>6
  <2> QED
    BY <2>5, <2>6
<1>5. G = SUBSET S
  <2>1. G \in SUBSET (SUBSET S)
    OBVIOUS
  <2> HIDE DEF G
  <2> QED
    BY <1>3, <1>4, <2>1, InductSubsets
<1>6. H[S] = F[S] + d
  BY <1>5
<1>8. /\ SumFunction(g) = Sums(g, S)[S]
      /\ SumFunction(f) = Sums(f, S)[S]
  BY <1>0, SumOpened
<1> QED
  BY <1>1, <1>6, <1>8
=============================================================================
