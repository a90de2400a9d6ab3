-------------------------------- MODULE CFS --------------------------------
(***************************************************************************)
(* The run queue of the completely fair scheduler (src/src/fair.c): struct *)
(* cfs_rq and the sched_entity of every task as one record value, and one  *)
(* operator per function of fair.c that reads or changes it.  An operator  *)
(* takes a run queue and returns the changed one; where the code inserts   *)
(* into the red-black tree it returns the set of possible results.         *)
(*                                                                         *)
(* Abstractions.  tasks_timeline is the in-order sequence of the tree: its *)
(* head is rb_leftmost.  Every task has the priority 130 of INIT_TASK,     *)
(* which copy_process hands down, so every se.load.weight is WEIGHT.  The  *)
(* two fixed-point computations are given in the closed form they have for *)
(* that weight; FixedPoint.tla checks the closed forms against the code.   *)
(***************************************************************************)
EXTENDS Integers, Sequences, SequencesExt

CONSTANT NTasks   \* bound: how many task_structs are ever created

ASSUME NTasksAssumption == NTasks \in Nat \ {0}

Task   == 0 .. NTasks - 1   \* tasks, named by pid
NoTask == -1                \* the NULL of cfs_rq.curr and current

WEIGHT                        == 110   \* sched_prio_to_weight[130 - MAX_RT_PRIO]
sysctl_sched_latency          == 64
sysctl_sched_min_granularity  == 8
sched_nr_latency              == 8
sysctl_sched_child_runs_first == TRUE

SchedEntity ==
  [vruntime : Nat, sum_exec_runtime : Nat, prev_sum_exec_runtime : Nat,
   exec_start : Nat, on_rq : BOOLEAN]

CfsRq ==
  [clock_task : Nat, min_vruntime : Nat, nr_running : Nat, load : Nat,
   tasks_timeline : Seq(Task), curr : Task \cup {NoTask},
   se : [Task -> SchedEntity]]

TICK == 4   \* handle_timer_irq: clock += 4

\* What INIT_TASK and sched_init leave: the boot task is current.
BlankEntity ==
  [vruntime |-> 0, sum_exec_runtime |-> 0, prev_sum_exec_runtime |-> 0,
   exec_start |-> 0, on_rq |-> FALSE]

EmptyRq ==
  [clock_task |-> 0, min_vruntime |-> 0, nr_running |-> 0, load |-> 0,
   tasks_timeline |-> << >>, curr |-> 0, se |-> [t \in Task |-> BlankEntity]]

-----------------------------------------------------------------------------
(* Arithmetic *)

max_vruntime(a, b) == IF b > a THEN b ELSE a
min_vruntime(a, b) == IF b < a THEN b ELSE a

entity_before(cfs, a, b) == cfs.se[a].vruntime < cfs.se[b].vruntime

\* __calc_delta(delta, NICE_0_LOAD, &se->load) for the weight 110, whose
\* inverse 39045157 = 9 * 2^22 + 1296421 is applied with a shift of 22.
calc_delta_fair(delta) == 9 * delta + (delta * 1296421) \div 4194304

__sched_period(nr) ==
  IF nr > sched_nr_latency THEN sysctl_sched_min_granularity * nr
                           ELSE sysctl_sched_latency

\* period * WEIGHT / load, where load has the entity's own weight added when
\* it is not on the queue; the truncated inverse makes it one less than the
\* rounded-up quotient.
sched_slice(cfs, t) ==
  LET extra == IF cfs.se[t].on_rq THEN 0 ELSE 1
      total == cfs.load + extra * WEIGHT
  IN  (__sched_period(cfs.nr_running + extra) * WEIGHT - 1) \div total

sched_vslice(cfs, t) == calc_delta_fair(sched_slice(cfs, t))

-----------------------------------------------------------------------------
(* Accounting *)

\* The smaller vruntime of the running entity and the leftmost one, if either
\* exists, and never less than before.
update_min_vruntime(cfs) ==
  LET running == cfs.curr # NoTask /\ cfs.se[cfs.curr].on_rq
      queued  == cfs.tasks_timeline # << >>
      first   == cfs.se[Head(cfs.tasks_timeline)].vruntime
      own     == cfs.se[cfs.curr].vruntime
      least   == IF running /\ queued THEN min_vruntime(own, first)
                 ELSE IF running THEN own
                 ELSE IF queued THEN first
                 ELSE cfs.min_vruntime
  IN  [cfs EXCEPT !.min_vruntime = max_vruntime(@, least)]

update_rq_clock(cfs, now) == [cfs EXCEPT !.clock_task = now]

\* Mutated form: the time is counted, but not in vruntime.
Charge_RuntimeOnly(entity, delta, now) ==
  [entity EXCEPT !.exec_start = now, !.sum_exec_runtime = @ + delta]

Charge(entity, delta, now) ==
  [entity EXCEPT !.exec_start = now,
                 !.sum_exec_runtime = @ + delta,
                 !.vruntime = @ + calc_delta_fair(delta)]

\* Charges the running entity for the time since exec_start.
update_curr(cfs) ==
  LET delta == cfs.clock_task - cfs.se[cfs.curr].exec_start
  IN  IF cfs.curr = NoTask \/ delta <= 0
      THEN cfs
      ELSE update_min_vruntime(
             [cfs EXCEPT !.se[cfs.curr] = Charge(@, delta, cfs.clock_task)])

place_entity(cfs, t) ==
  [cfs EXCEPT !.se[t].vruntime =
     max_vruntime(@, cfs.min_vruntime + sched_vslice(cfs, t))]

\* Mutated form: the entity is not counted.
account_entity_enqueue_Uncounted(cfs) == cfs

account_entity_enqueue(cfs) ==
  [cfs EXCEPT !.load = @ + WEIGHT, !.nr_running = @ + 1]

\* Mutated form: the entity is counted out twice.
account_entity_dequeue_Twice(cfs) ==
  [cfs EXCEPT !.load = @ - WEIGHT, !.nr_running = @ - 2]

account_entity_dequeue(cfs) ==
  [cfs EXCEPT !.load = @ - WEIGHT, !.nr_running = @ - 1]

-----------------------------------------------------------------------------
(* The tree *)

\* Mutated form: the comparison of the descent is inverted.
Gaps_Inverted(cfs, t) ==
  LET s == cfs.tasks_timeline
  IN  {g \in 0 .. Len(s) :
         /\ g > 0 => ~entity_before(cfs, s[g], t)
         /\ g < Len(s) => entity_before(cfs, s[g + 1], t)}

\* The gaps of the in-order sequence where the descent from the root can end:
\* both in-order neighbours of a gap are ancestors of its leaf, and the
\* descent went right at the one before and left at the one after.  In an
\* ordered tree that is one gap; the others stand for the possible shapes.
Gaps(cfs, t) ==
  LET s == cfs.tasks_timeline
  IN  {g \in 0 .. Len(s) :
         /\ g > 0 => ~entity_before(cfs, t, s[g])
         /\ g < Len(s) => entity_before(cfs, t, s[g + 1])}

__enqueue_entity(cfs, t) ==
  {[cfs EXCEPT !.tasks_timeline = InsertAt(@, g + 1, t)] : g \in Gaps(cfs, t)}

__dequeue_entity(cfs, t) ==
  LET s == cfs.tasks_timeline
  IN  {[cfs EXCEPT !.tasks_timeline = RemoveAt(@, i)] :
         i \in {j \in 1 .. Len(s) : s[j] = t}}

enqueue_entity(cfs, t) ==
  LET accounted == account_entity_enqueue(cfs)
  IN  {[c EXCEPT !.se[t].on_rq = TRUE] :
         c \in IF t # cfs.curr THEN __enqueue_entity(accounted, t)
                               ELSE {accounted}}

\* Mutated form: on_rq is not reset.
dequeue_entity_OnRq(cfs, t) ==
  LET charged == update_curr(cfs)
  IN  {update_min_vruntime(account_entity_dequeue(c)) :
         c \in IF t # cfs.curr THEN __dequeue_entity(charged, t) ELSE {charged}}

dequeue_entity(cfs, t) ==
  LET charged == update_curr(cfs)
  IN  {update_min_vruntime(
         account_entity_dequeue([c EXCEPT !.se[t].on_rq = FALSE])) :
         c \in IF t # cfs.curr THEN __dequeue_entity(charged, t) ELSE {charged}}

-----------------------------------------------------------------------------
(* Choosing the next entity *)

\* Mutated form: prev goes back into the tree also when it has been dequeued.
put_prev_entity_Always(cfs, prev) ==
  {[c EXCEPT !.curr = NoTask] : c \in __enqueue_entity(update_curr(cfs), prev)}

put_prev_entity(cfs, prev) ==
  {[c EXCEPT !.curr = NoTask] :
     c \in IF cfs.se[prev].on_rq THEN __enqueue_entity(update_curr(cfs), prev)
                                 ELSE {cfs}}

\* Mutated form: exec_start keeps the time the entity was last charged.
set_next_entity_NoStart(cfs, t) ==
  {[c EXCEPT !.curr = t,
             !.se[t].prev_sum_exec_runtime = c.se[t].sum_exec_runtime] :
     c \in __dequeue_entity(cfs, t)}

Start(entity, now) ==
  [entity EXCEPT !.exec_start = now,
                 !.prev_sum_exec_runtime = entity.sum_exec_runtime]

set_next_entity(cfs, t) ==
  {[c EXCEPT !.curr = t, !.se[t] = Start(@, c.clock_task)] :
     c \in IF cfs.se[t].on_rq THEN __dequeue_entity(cfs, t) ELSE {cfs}}

\* The leftmost entity is read before prev is put back into the tree.
pick_next_task_fair(cfs, prev) ==
  LET left == Head(cfs.tasks_timeline)
  IN  UNION {set_next_entity(c, left) : c \in put_prev_entity(cfs, prev)}

\* The two outcomes of a tick on entity t, after update_curr.
SliceUsed(cfs, t) ==
  cfs.se[t].sum_exec_runtime - cfs.se[t].prev_sum_exec_runtime

ReadsLeftmost(cfs, t) ==
  /\ cfs.nr_running > 1
  /\ SliceUsed(cfs, t) <= sched_slice(cfs, t)
  /\ SliceUsed(cfs, t) >= sysctl_sched_min_granularity

check_preempt_tick(cfs, t) ==
  \/ SliceUsed(cfs, t) > sched_slice(cfs, t)
  \/ /\ ReadsLeftmost(cfs, t)
     /\ cfs.se[t].vruntime - cfs.se[Head(cfs.tasks_timeline)].vruntime
          > sched_slice(cfs, t)

entity_tick(cfs, t) == cfs.nr_running > 1 /\ check_preempt_tick(cfs, t)

-----------------------------------------------------------------------------
(* fork *)

\* The child starts at the parent's vruntime or one slice past min_vruntime.
ForkPlace(cfs, child) ==
  LET charged == update_curr(cfs)
  IN  place_entity([charged EXCEPT !.se[child].vruntime =
                      charged.se[charged.curr].vruntime], child)

\* task_fork_fair up to the insertion of the child.
ForkEnqueue(cfs, child, now) ==
  enqueue_entity(ForkPlace(update_rq_clock(cfs, now), child), child)

\* child_runs_first: the two vruntimes are exchanged although the child is
\* already in the tree, and is not moved there.
ForkSwaps(cfs, child) ==
  sysctl_sched_child_runs_first /\ entity_before(cfs, cfs.curr, child)

ForkSwap(cfs, child) ==
  IF ForkSwaps(cfs, child)
  THEN [cfs EXCEPT !.se[cfs.curr].vruntime = cfs.se[child].vruntime,
                   !.se[child].vruntime = cfs.se[cfs.curr].vruntime]
  ELSE cfs
=============================================================================
