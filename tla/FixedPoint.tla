----------------------------- MODULE FixedPoint -----------------------------
(***************************************************************************)
(* The division-free arithmetic of fair.c: __update_inv_weight and         *)
(* __calc_delta compute delta_exec * weight / lw->weight as a product with *)
(* a 32-bit inverse and a shift.  A u64 is its eight bytes, least          *)
(* significant first, and a product is cut to that width as the code's is. *)
(* CFS.tla uses the closed forms that ClosedForms below checks.            *)
(***************************************************************************)
EXTENDS CFS, FiniteSetsExt

CONSTANTS
  Deltas,    \* the execution times that are charged
  MaxTasks   \* bound: tasks of equal weight on the queue

ASSUME FixedPointAssumption ==
  /\ Deltas \subseteq 1 .. 1656   \* calc_delta_fair stays below 2^31
  /\ MaxTasks \in Nat

VARIABLES
  delta_exec, weight,   \* the first two arguments of __calc_delta
  lw_weight,            \* lw->weight
  inv_weight,           \* lw->inv_weight, 0 when it is not known
  fact, shift,          \* the locals of __calc_delta
  result, phase

fpvars == <<delta_exec, weight, lw_weight, inv_weight, fact, shift, result, phase>>

sched_prio_to_weight ==
  <<88761, 71755, 56483, 46273, 36291, 29154, 23254, 18705, 14949, 11916,
    9548, 7620, 6100, 4904, 3906, 3121, 2501, 1991, 1586, 1277,
    1024, 820, 655, 526, 423, 335, 272, 215, 172, 137,
    110, 87, 70, 56, 45, 36, 29, 23, 18, 15>>

sched_prio_to_wmult ==
  <<48388, 59856, 76040, 92818, 118348, 147320, 184698, 229616, 287308, 360437,
    449829, 563644, 704093, 875809, 1099582,
    1376151, 1717300, 2157191, 2708050, 3363326,
    4194304, 5237765, 6557202, 8165337, 10153587,
    12820798, 15790321, 19976592, 24970740, 31350126,
    39045157, 49367440, 61356676, 76695844, 95443717,
    119304647, 148102320, 186737708, 238609294, 286331153>>

NICE_0_LOAD == 1024

-----------------------------------------------------------------------------
(* u64 arithmetic on bytes *)

U64(n) == [i \in 0 .. 7 |-> IF i < 4 THEN (n \div 256 ^ i) % 256 ELSE 0]

ValueOf(a) == a[0] + 256 * a[1] + 65536 * a[2] + 16777216 * a[3]

Times(a, b) ==
  LET column(k) == MapThenSumSet(LAMBDA i : a[i] * b[k - i], 0 .. k)
      total[k \in 0 .. 7] ==
        column(k) + (IF k = 0 THEN 0 ELSE total[k - 1] \div 256)
  IN  [k \in 0 .. 7 |-> total[k] % 256]

ShiftRight(a, s) ==
  LET byte(i) == IF i < 8 THEN a[i] ELSE 0
      q == s \div 8
      r == s % 8
  IN  [i \in 0 .. 7 |->
         (byte(i + q) \div 2 ^ r + byte(i + q + 1) * 2 ^ (8 - r)) % 256]

FitsU32(a) == \A i \in 4 .. 7 : a[i] = 0

-----------------------------------------------------------------------------

\* Mutated form: the inverse is taken of the next larger weight.
InverseOf_Off(w) ==
  LET rem[i \in 0 .. 4] ==
        IF i = 4 THEN 0 ELSE (256 * rem[i + 1] + 255) % (w + 1)
  IN  [i \in 0 .. 7 |->
         IF i < 4 THEN (256 * rem[i + 1] + 255) \div (w + 1) ELSE 0]

\* __update_inv_weight: WMULT_CONST / w, by long division.
InverseOf(w) ==
  LET rem[i \in 0 .. 4] ==
        IF i = 4 THEN 0 ELSE (256 * rem[i + 1] + 255) % w
  IN  [i \in 0 .. 7 |-> IF i < 4 THEN (256 * rem[i + 1] + 255) \div w ELSE 0]

\* The calls of calc_delta_fair, where set_load_weight gave the inverse, and
\* of sched_slice, where every change of the load has reset it.
Init ==
  /\ fact = U64(0) /\ shift = 32 /\ result = 0 /\ phase = "called"
  /\ \/ \E i \in DOMAIN sched_prio_to_weight :
          /\ lw_weight = sched_prio_to_weight[i]
          /\ lw_weight # NICE_0_LOAD
          /\ inv_weight = sched_prio_to_wmult[i]
          /\ weight = NICE_0_LOAD
          /\ delta_exec \in Deltas
     \/ \E i \in DOMAIN sched_prio_to_weight, n \in 1 .. MaxTasks :
          /\ weight = sched_prio_to_weight[i]
          /\ lw_weight = n * weight
          /\ inv_weight = 0
          /\ delta_exec = __sched_period(n)

Multiply ==
  LET inverse == IF inv_weight # 0 THEN U64(inv_weight) ELSE InverseOf(lw_weight)
  IN  /\ phase = "called"
      /\ fact' = Times(U64(weight), inverse)
      /\ phase' = "normalising"
      /\ UNCHANGED <<delta_exec, weight, lw_weight, inv_weight, shift, result>>

\* Mutated form: the shift is not reduced with the factor.
Normalise_KeepsShift ==
  /\ phase = "normalising"
  /\ ~FitsU32(fact)
  /\ fact' = ShiftRight(fact, 1)
  /\ UNCHANGED <<delta_exec, weight, lw_weight, inv_weight, shift, result, phase>>

\* while(fact >> 32)
Normalise ==
  /\ phase = "normalising"
  /\ ~FitsU32(fact)
  /\ fact' = ShiftRight(fact, 1)
  /\ shift' = shift - 1
  /\ UNCHANGED <<delta_exec, weight, lw_weight, inv_weight, result, phase>>

Finish ==
  /\ phase = "normalising"
  /\ FitsU32(fact)
  /\ result' = ValueOf(ShiftRight(Times(U64(delta_exec), fact), shift))
  /\ phase' = "done"
  /\ UNCHANGED <<delta_exec, weight, lw_weight, inv_weight, fact, shift>>

Next == Multiply \/ Normalise \/ Finish

Spec == Init /\ [][Next]_fpvars

-----------------------------------------------------------------------------
(* Properties *)

\* For weight 110 the code computes what CFS.tla says: calc_delta_fair of the
\* time charged, and sched_slice of n equal tasks.
ClosedForms ==
  phase = "done" =>
    /\ lw_weight = WEIGHT /\ weight = NICE_0_LOAD
         => result = calc_delta_fair(delta_exec)
    /\ weight = WEIGHT => result = (delta_exec * WEIGHT - 1) \div lw_weight

\* __calc_delta is never more than the exact quotient and at most one less,
\* for every weight of the table: no task is charged for time it did not use.
NeverOvercharges ==
  phase = "done" =>
    delta_exec * weight - result * lw_weight \in 0 .. 2 * lw_weight - 1
=============================================================================
