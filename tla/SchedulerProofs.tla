-------------------------- MODULE SchedulerProofs --------------------------
(***************************************************************************)
(* Theorems about the scheduler, for any number of tasks, ticks and nested *)
(* interrupts.  The inductive invariant IInv ties the run queue to the     *)
(* states of the tasks, and says which label stacks a task can have.       *)
(* First what the run queue operators of CFS.tla do, for any number of     *)
(* tasks: each one keeps the types, and keeps the queue exact.  Then the   *)
(* steps of the scheduler, and what holds of preempt_count and             *)
(* TIF_NEED_RESCHED, with two more invariants.                             *)
(***************************************************************************)
EXTENDS SchedulerProps, Lemmas

\* The queue of the live tasks L while r runs: every live task is r or in the
\* tree, once, and the counters count them.
Exact(c, r, L) ==
  /\ c.curr = r
  /\ IsInjective(c.tasks_timeline)
  /\ Range(c.tasks_timeline) = L \ {r}
  /\ \A t \in Task : c.se[t].on_rq <=> t \in L
  /\ c.nr_running = Cardinality(L)
  /\ c.load = WEIGHT * c.nr_running

\* d differs from c only in what update_curr may change.
SameQueue(d, c) ==
  /\ d.clock_task = c.clock_task
  /\ d.curr = c.curr
  /\ d.tasks_timeline = c.tasks_timeline
  /\ d.nr_running = c.nr_running
  /\ d.load = c.load
  /\ \A t \in Task : d.se[t].on_rq = c.se[t].on_rq

-----------------------------------------------------------------------------
(* Arithmetic *)

\* calc_delta_fair and the quotient of sched_slice stay natural numbers.
LEMMA DeltaNat ==
  ASSUME NEW a \in Nat
  PROVE  calc_delta_fair(a) \in Nat
BY DEF calc_delta_fair

LEMMA DivNat ==
  ASSUME NEW a \in Nat, NEW b \in Nat \ {0}
  PROVE  a \div b \in Nat
OBVIOUS

\* max_vruntime never returns less than its first argument.
LEMMA MaxNat ==
  ASSUME NEW a \in Nat, NEW b \in Nat
  PROVE  max_vruntime(a, b) \in Nat /\ max_vruntime(a, b) >= a
BY DEF max_vruntime

\* NoTask is not a task.
LEMMA NoTaskNotTask == NoTask \notin Task
BY NTasksAssumption DEF NoTask, Task

-----------------------------------------------------------------------------
(* Charging *)

\* update_min_vruntime changes min_vruntime alone, and only upwards.
LEMMA UpdateMin ==
  ASSUME NEW c \in CfsRq
  PROVE  \E m \in Nat : /\ m >= c.min_vruntime
                        /\ update_min_vruntime(c) = [c EXCEPT !.min_vruntime = m]
<1> DEFINE running == c.curr # NoTask /\ c.se[c.curr].on_rq
           queued  == c.tasks_timeline # << >>
           first   == c.se[Head(c.tasks_timeline)].vruntime
           own     == c.se[c.curr].vruntime
           least   == IF running /\ queued THEN min_vruntime(own, first)
                      ELSE IF running THEN own
                      ELSE IF queued THEN first
                      ELSE c.min_vruntime
<1>1. /\ c.se \in [Task -> SchedEntity] /\ c.tasks_timeline \in Seq(Task)
      /\ c.curr \in Task \cup {NoTask} /\ c.min_vruntime \in Nat
  BY DEF CfsRq
<1>2. running => own \in Nat
  BY <1>1 DEF SchedEntity
<1>3. queued => first \in Nat
  <2>1. queued => Head(c.tasks_timeline) \in Task
    BY <1>1, HeadTailProperties
  <2> QED
    BY <1>1, <2>1 DEF SchedEntity
<1>4. update_min_vruntime(c)
        = [c EXCEPT !.min_vruntime = max_vruntime(c.min_vruntime, least)]
  BY DEF update_min_vruntime
<1> HIDE DEF running, queued, first, own
<1>5. least \in Nat
  BY <1>1, <1>2, <1>3 DEF min_vruntime
<1> HIDE DEF least
<1> QED
  BY <1>1, <1>4, <1>5, MaxNat

\* The same, as types.
LEMMA UpdateMinType ==
  ASSUME NEW c \in CfsRq
  PROVE  /\ update_min_vruntime(c) \in CfsRq
         /\ SameQueue(update_min_vruntime(c), c)
         /\ update_min_vruntime(c).se = c.se
         /\ update_min_vruntime(c).min_vruntime >= c.min_vruntime
<1>1. PICK m \in Nat : /\ m >= c.min_vruntime
                       /\ update_min_vruntime(c) = [c EXCEPT !.min_vruntime = m]
  BY UpdateMin
<1> QED
  BY <1>1 DEF CfsRq, SameQueue

\* Charging an entity keeps it an entity, and on the queue if it was.
LEMMA ChargeType ==
  ASSUME NEW e \in SchedEntity, NEW delta \in Nat, NEW now \in Nat
  PROVE  Charge(e, delta, now) \in SchedEntity /\ Charge(e, delta, now).on_rq = e.on_rq
<1>1. e.sum_exec_runtime + delta \in Nat /\ e.vruntime + calc_delta_fair(delta) \in Nat
  BY DeltaNat DEF SchedEntity
<1>2. PICK x \in Nat, y \in Nat : /\ x = e.sum_exec_runtime + delta
                                 /\ y = e.vruntime + calc_delta_fair(delta)
  BY <1>1
<1>3. Charge(e, delta, now) = [e EXCEPT !.exec_start = now,
                                        !.sum_exec_runtime = x, !.vruntime = y]
  BY <1>2 DEF Charge
<1> QED
  BY <1>3 DEF SchedEntity

\* Rewriting an entity, on_rq apart, leaves the queue as it is.
LEMMA SetEntity ==
  ASSUME NEW c \in CfsRq, NEW t \in Task, NEW e \in SchedEntity,
         e.on_rq = c.se[t].on_rq
  PROVE  /\ [c EXCEPT !.se[t] = e] \in CfsRq
         /\ SameQueue([c EXCEPT !.se[t] = e], c)
         /\ [c EXCEPT !.se[t] = e].min_vruntime = c.min_vruntime
         /\ [c EXCEPT !.se[t] = e].se = [c.se EXCEPT ![t] = e]
<1> DEFINE f == [c.se EXCEPT ![t] = e]
           d == [c EXCEPT !.se = f]
<1>1. [c EXCEPT !.se[t] = e] = d
  OBVIOUS
<1>2. f \in [Task -> SchedEntity] /\ \A u \in Task : f[u].on_rq = c.se[u].on_rq
  BY DEF CfsRq
<1> HIDE DEF f
<1>3. d \in CfsRq
  BY <1>2 DEF CfsRq
<1>4. d.se = f /\ d.min_vruntime = c.min_vruntime
  BY DEF CfsRq
<1>5. SameQueue(d, c)
  BY <1>2 DEF CfsRq, SameQueue
<1> QED
  BY <1>1, <1>3, <1>4, <1>5 DEF f

\* update_curr charges the running entity and leaves the queue as it is.
LEMMA UpdateCurrType ==
  ASSUME NEW c \in CfsRq
  PROVE  /\ update_curr(c) \in CfsRq
         /\ SameQueue(update_curr(c), c)
         /\ update_curr(c).min_vruntime >= c.min_vruntime
<1> DEFINE delta == c.clock_task - c.se[c.curr].exec_start
<1>1. CASE c.curr = NoTask \/ delta <= 0
  <2>1. update_curr(c) = c
    BY <1>1 DEF update_curr
  <2> QED
    BY <2>1 DEF SameQueue, CfsRq
<1>2. CASE ~(c.curr = NoTask \/ delta <= 0)
  <2> DEFINE e == Charge(c.se[c.curr], delta, c.clock_task)
             d == [c EXCEPT !.se[c.curr] = e]
  <2>1. c.curr \in Task /\ c.se[c.curr] \in SchedEntity /\ c.clock_task \in Nat
    BY <1>2 DEF CfsRq
  <2>2. delta \in Nat
    BY <1>2, <2>1 DEF SchedEntity
  <2>3. e \in SchedEntity /\ e.on_rq = c.se[c.curr].on_rq
    BY <2>1, <2>2, ChargeType
  <2>4. update_curr(c) = update_min_vruntime(d)
    BY <1>2 DEF update_curr
  <2> HIDE DEF e
  <2>5. d \in CfsRq /\ SameQueue(d, c) /\ d.min_vruntime = c.min_vruntime
    BY <2>1, <2>3, SetEntity
  <2> HIDE DEF d
  <2>6. /\ update_min_vruntime(d) \in CfsRq
        /\ SameQueue(update_min_vruntime(d), d)
        /\ update_min_vruntime(d).min_vruntime >= d.min_vruntime
    BY <2>5, UpdateMinType
  <2> QED
    BY <2>4, <2>5, <2>6 DEF SameQueue
<1> QED
  BY <1>1, <1>2

\* An exact queue stays exact while only vruntimes, runtimes or times change.
LEMMA SameQueueExact ==
  ASSUME NEW c, NEW d, NEW r, NEW L, SameQueue(d, c), Exact(c, r, L)
  PROVE  Exact(d, r, L)
BY DEF SameQueue, Exact

\* A slice is a natural number while the queue counts what is on it.
LEMMA SliceNat ==
  ASSUME NEW c \in CfsRq, NEW t \in Task, c.se[t].on_rq => c.load > 0
  PROVE  sched_vslice(c, t) \in Nat
<1> DEFINE extra == IF c.se[t].on_rq THEN 0 ELSE 1
           total == c.load + extra * WEIGHT
           work  == __sched_period(c.nr_running + extra) * WEIGHT - 1
<1>1. c.load \in Nat /\ c.nr_running \in Nat
  BY DEF CfsRq
<1>2. total \in Nat \ {0}
  BY <1>1 DEF WEIGHT
<1>3. work \in Nat
  BY <1>1 DEF WEIGHT, __sched_period, sched_nr_latency, sysctl_sched_latency,
              sysctl_sched_min_granularity
<1>4. sched_slice(c, t) = work \div total
  BY DEF sched_slice
<1> HIDE DEF work, total
<1> QED
  BY <1>2, <1>3, <1>4, DivNat, DeltaNat DEF sched_vslice

\* place_entity moves one vruntime and leaves the queue as it is.
LEMMA PlaceType ==
  ASSUME NEW c \in CfsRq, NEW t \in Task, c.se[t].on_rq => c.load > 0
  PROVE  /\ place_entity(c, t) \in CfsRq
         /\ SameQueue(place_entity(c, t), c)
         /\ place_entity(c, t).min_vruntime = c.min_vruntime
<1>1. /\ c.se \in [Task -> SchedEntity] /\ c.min_vruntime \in Nat
      /\ c.se[t].vruntime \in Nat /\ c.se[t] \in SchedEntity
  BY DEF CfsRq, SchedEntity
<1>2. max_vruntime(c.se[t].vruntime, c.min_vruntime + sched_vslice(c, t)) \in Nat
  <2>1. sched_vslice(c, t) \in Nat
    BY SliceNat
  <2>2. c.min_vruntime + sched_vslice(c, t) \in Nat
    BY <1>1, <2>1
  <2> QED
    BY <1>1, <2>2, MaxNat
<1>3. PICK v \in Nat :
        v = max_vruntime(c.se[t].vruntime, c.min_vruntime + sched_vslice(c, t))
  BY <1>2
<1> DEFINE e == [c.se[t] EXCEPT !.vruntime = v]
<1>4. place_entity(c, t) = [c EXCEPT !.se[t] = e]
  BY <1>3 DEF place_entity
<1>5. e \in SchedEntity /\ e.on_rq = c.se[t].on_rq
  BY <1>1 DEF SchedEntity
<1> HIDE DEF e
<1> QED
  BY <1>4, <1>5, SetEntity

\* task_fork_fair's exchange of two vruntimes leaves the queue as it is.
LEMMA ForkSwapType ==
  ASSUME NEW c \in CfsRq, NEW t \in Task, c.curr \in Task
  PROVE  /\ ForkSwap(c, t) \in CfsRq
         /\ SameQueue(ForkSwap(c, t), c)
         /\ ForkSwap(c, t).min_vruntime = c.min_vruntime
<1>1. CASE ForkSwaps(c, t)
  <2> DEFINE e == [c.se[c.curr] EXCEPT !.vruntime = c.se[t].vruntime]
             b == [c EXCEPT !.se[c.curr] = e]
             f == [b.se[t] EXCEPT !.vruntime = c.se[c.curr].vruntime]
  <2>1. c.se \in [Task -> SchedEntity]
    BY DEF CfsRq
  <2>2. e \in SchedEntity /\ e.on_rq = c.se[c.curr].on_rq
    BY <2>1 DEF SchedEntity
  <2>3. b \in CfsRq /\ SameQueue(b, c) /\ b.min_vruntime = c.min_vruntime
    <3> HIDE DEF e
    <3> QED
      BY <2>2, SetEntity
  <2>4. ForkSwap(c, t) = [b EXCEPT !.se[t] = f]
    BY <1>1 DEF ForkSwap
  <2> HIDE DEF b
  <2>5. f \in SchedEntity /\ f.on_rq = b.se[t].on_rq
    <3>1. b.se[t] \in SchedEntity /\ c.se[c.curr].vruntime \in Nat
      BY <2>1, <2>3 DEF CfsRq, SchedEntity
    <3> QED
      BY <3>1 DEF SchedEntity
  <2> HIDE DEF f
  <2> QED
    BY <2>3, <2>4, <2>5, SetEntity DEF SameQueue
<1>2. CASE ~ForkSwaps(c, t)
  BY <1>2 DEF ForkSwap, SameQueue
<1> QED
  BY <1>1, <1>2

-----------------------------------------------------------------------------
(* The tree *)

\* __enqueue_entity puts a task that is not in the tree into it once.
LEMMA LinkTree ==
  ASSUME NEW c \in CfsRq, NEW t \in Task, IsInjective(c.tasks_timeline),
         t \notin Range(c.tasks_timeline), NEW d \in __enqueue_entity(c, t)
  PROVE  \E s \in Seq(Task) :
           /\ d = [c EXCEPT !.tasks_timeline = s]
           /\ IsInjective(s)
           /\ Range(s) = Range(c.tasks_timeline) \cup {t}
<1>1. c.tasks_timeline \in Seq(Task)
  BY DEF CfsRq
<1>2. PICK g \in 0 .. Len(c.tasks_timeline) :
        d = [c EXCEPT !.tasks_timeline = InsertAt(c.tasks_timeline, g + 1, t)]
  BY DEF __enqueue_entity, Gaps
<1>3. PICK k \in 1 .. Len(c.tasks_timeline) + 1 : k = g + 1
  BY <1>1, LenProperties
<1>4. /\ InsertAt(c.tasks_timeline, k, t) \in Seq(Task)
      /\ IsInjective(InsertAt(c.tasks_timeline, k, t))
      /\ Range(InsertAt(c.tasks_timeline, k, t))
           = Range(c.tasks_timeline) \cup {t}
  <2>1. InsertAt(c.tasks_timeline, k, t) \in Seq(Task)
    BY <1>1, InsertAtFacts
  <2> QED
    BY <1>1, <2>1, InsertRange
<1>5. d = [c EXCEPT !.tasks_timeline = InsertAt(c.tasks_timeline, k, t)]
  BY <1>2, <1>3
<1>6. PICK s \in Seq(Task) : s = InsertAt(c.tasks_timeline, k, t)
  BY <1>4
<1> QED
  BY <1>4, <1>5, <1>6

\* __dequeue_entity takes exactly that task out of the tree.
LEMMA UnlinkTree ==
  ASSUME NEW c \in CfsRq, NEW t \in Task, IsInjective(c.tasks_timeline),
         NEW d \in __dequeue_entity(c, t)
  PROVE  \E s \in Seq(Task) :
           /\ d = [c EXCEPT !.tasks_timeline = s]
           /\ IsInjective(s)
           /\ Range(s) = Range(c.tasks_timeline) \ {t}
<1>1. c.tasks_timeline \in Seq(Task)
  BY DEF CfsRq
<1>2. PICK k \in 1 .. Len(c.tasks_timeline) :
        /\ c.tasks_timeline[k] = t
        /\ d = [c EXCEPT !.tasks_timeline = RemoveAt(c.tasks_timeline, k)]
  BY DEF __dequeue_entity
<1>3. /\ RemoveAt(c.tasks_timeline, k) \in Seq(Task)
      /\ IsInjective(RemoveAt(c.tasks_timeline, k))
      /\ Range(RemoveAt(c.tasks_timeline, k)) = Range(c.tasks_timeline) \ {t}
  BY <1>1, <1>2, RemoveAtFacts, RemoveRange
<1> QED
  BY <1>2, <1>3

\* A set of tasks is finite, and gaining or losing one changes its size by one.
LEMMA TaskCounts ==
  ASSUME NEW L \in SUBSET Task
  PROVE  /\ Cardinality(L) \in Nat
         /\ \A t \in Task \ L : Cardinality(L \cup {t}) = Cardinality(L) + 1
         /\ \A t \in L : /\ Cardinality(L) > 0
                         /\ Cardinality(L \ {t}) = Cardinality(L) - 1
<1>1. IsFiniteSet(Task)
  BY NTasksAssumption, FS_Interval DEF Task
<1>2. IsFiniteSet(L)
  BY <1>1, FS_Subset
<1>3. Cardinality(L) \in Nat
  BY <1>2, FS_CardinalityType
<1>4. \A t \in Task \ L : Cardinality(L \cup {t}) = Cardinality(L) + 1
  BY <1>2, FS_AddElement
<1>5. \A t \in L : Cardinality(L \ {t}) = Cardinality(L) - 1
  BY <1>2, FS_RemoveElement
<1>6. \A t \in L : Cardinality(L) > 0
  BY <1>2, <1>3, FS_EmptySet
<1> QED
  BY <1>3, <1>4, <1>5, <1>6

\* Rewriting an entity changes nothing but that entity.
LEMMA RewriteEntity ==
  ASSUME NEW c \in CfsRq, NEW t \in Task, NEW e \in SchedEntity
  PROVE  /\ [c EXCEPT !.se[t] = e] \in CfsRq
         /\ [c EXCEPT !.se[t] = e].min_vruntime = c.min_vruntime
         /\ [c EXCEPT !.se[t] = e].curr = c.curr
         /\ [c EXCEPT !.se[t] = e].tasks_timeline = c.tasks_timeline
         /\ [c EXCEPT !.se[t] = e].nr_running = c.nr_running
         /\ [c EXCEPT !.se[t] = e].load = c.load
         /\ [c EXCEPT !.se[t] = e].se[t] = e
         /\ \A u \in Task \ {t} : [c EXCEPT !.se[t] = e].se[u] = c.se[u]
<1> DEFINE f == [c.se EXCEPT ![t] = e]
           d == [c EXCEPT !.se = f]
<1>1. [c EXCEPT !.se[t] = e] = d
  OBVIOUS
<1>2. /\ f \in [Task -> SchedEntity] /\ f[t] = e
      /\ \A u \in Task \ {t} : f[u] = c.se[u]
  BY DEF CfsRq
<1> HIDE DEF f
<1>3. /\ d \in CfsRq /\ d.min_vruntime = c.min_vruntime
      /\ d.curr = c.curr /\ d.tasks_timeline = c.tasks_timeline
      /\ d.nr_running = c.nr_running /\ d.load = c.load /\ d.se = f
  BY <1>2 DEF CfsRq
<1> QED
  BY <1>1, <1>2, <1>3

\* account_entity_enqueue changes the two counters.
LEMMA AccountEnqueue ==
  ASSUME NEW c \in CfsRq, NEW a, a = account_entity_enqueue(c)
  PROVE  /\ a \in CfsRq
         /\ a.clock_task = c.clock_task /\ a.min_vruntime = c.min_vruntime
         /\ a.curr = c.curr /\ a.tasks_timeline = c.tasks_timeline
         /\ a.se = c.se
         /\ a.nr_running = c.nr_running + 1 /\ a.load = c.load + WEIGHT
<1>1. c.nr_running + 1 \in Nat /\ c.load + WEIGHT \in Nat
  BY DEF CfsRq, WEIGHT
<1>2. PICK n \in Nat, w \in Nat : n = c.nr_running + 1 /\ w = c.load + WEIGHT
  BY <1>1
<1>3. a = [c EXCEPT !.load = w, !.nr_running = n]
  BY <1>2 DEF account_entity_enqueue
<1> QED
  BY <1>2, <1>3 DEF CfsRq

\* So does account_entity_dequeue, when they count at least one task.
LEMMA AccountDequeue ==
  ASSUME NEW c \in CfsRq, NEW a, a = account_entity_dequeue(c),
         c.nr_running > 0, c.load = WEIGHT * c.nr_running
  PROVE  /\ a \in CfsRq
         /\ a.clock_task = c.clock_task /\ a.min_vruntime = c.min_vruntime
         /\ a.curr = c.curr /\ a.tasks_timeline = c.tasks_timeline
         /\ a.se = c.se
         /\ a.nr_running = c.nr_running - 1
         /\ a.load = WEIGHT * (c.nr_running - 1)
<1>1. c.nr_running - 1 \in Nat /\ c.load - WEIGHT \in Nat
      /\ c.load - WEIGHT = WEIGHT * (c.nr_running - 1)
  BY DEF CfsRq, WEIGHT
<1>2. PICK n \in Nat, w \in Nat : n = c.nr_running - 1 /\ w = c.load - WEIGHT
  BY <1>1
<1>3. a = [c EXCEPT !.load = w, !.nr_running = n]
  BY <1>2 DEF account_entity_dequeue
<1> QED
  BY <1>1, <1>2, <1>3 DEF CfsRq

-----------------------------------------------------------------------------
(* The operations of the scheduler on an exact queue *)

\* enqueue_entity adds a child that was not on the queue.
LEMMA EnqueueChild ==
  ASSUME NEW c \in CfsRq, NEW r \in Task, NEW L \in SUBSET Task,
         Exact(c, r, L), NEW t \in Task \ L, t # r,
         NEW d \in enqueue_entity(c, t)
  PROVE  /\ d \in CfsRq
         /\ Exact(d, r, L \cup {t})
         /\ d.min_vruntime = c.min_vruntime
<1>1. PICK a : a = account_entity_enqueue(c)
  OBVIOUS
<1>2. /\ a \in CfsRq /\ a.min_vruntime = c.min_vruntime /\ a.curr = c.curr
      /\ a.tasks_timeline = c.tasks_timeline /\ a.se = c.se
      /\ a.nr_running = c.nr_running + 1 /\ a.load = c.load + WEIGHT
  BY <1>1, AccountEnqueue
<1>3. PICK b \in __enqueue_entity(a, t) : d = [b EXCEPT !.se[t].on_rq = TRUE]
  BY <1>1 DEF enqueue_entity, Exact
<1>4. PICK s \in Seq(Task) : /\ b = [a EXCEPT !.tasks_timeline = s]
                             /\ IsInjective(s)
                             /\ Range(s) = Range(a.tasks_timeline) \cup {t}
  <2>1. IsInjective(a.tasks_timeline) /\ t \notin Range(a.tasks_timeline)
    BY <1>2 DEF Exact
  <2> QED
    BY <1>2, <1>3, <2>1, LinkTree
<1>5. /\ b \in CfsRq /\ b.min_vruntime = a.min_vruntime /\ b.curr = a.curr
      /\ b.tasks_timeline = s /\ b.se = a.se
      /\ b.nr_running = a.nr_running /\ b.load = a.load
  BY <1>2, <1>4 DEF CfsRq
<1>6. /\ d \in CfsRq /\ d.min_vruntime = b.min_vruntime /\ d.curr = b.curr
      /\ d.tasks_timeline = s
      /\ d.nr_running = b.nr_running /\ d.load = b.load
      /\ d.se[t].on_rq
      /\ \A u \in Task \ {t} : d.se[u] = b.se[u]
  <2>1. PICK e : e = [b.se[t] EXCEPT !.on_rq = TRUE]
    OBVIOUS
  <2>2. e \in SchedEntity /\ e.on_rq
    BY <1>5, <2>1, ZenonT(60) DEF CfsRq, SchedEntity
  <2>3. d = [b EXCEPT !.se[t] = e]
    BY <1>3, <2>1
  <2>4. t \in Task /\ b \in CfsRq
    BY <1>5
  <2> QED
    BY <1>5, <2>2, <2>3, <2>4, RewriteEntity
<1>7. Cardinality(L \cup {t}) = Cardinality(L) + 1 /\ Cardinality(L) \in Nat
  BY TaskCounts
<1>8. /\ d.nr_running = Cardinality(L \cup {t})
      /\ d.load = WEIGHT * d.nr_running
  BY <1>2, <1>5, <1>6, <1>7 DEF Exact, WEIGHT
<1>9. Range(s) = (L \cup {t}) \ {r}
  BY <1>2, <1>4 DEF Exact
<1>10. \A u \in Task : d.se[u].on_rq <=> u \in L \cup {t}
  BY <1>2, <1>5, <1>6 DEF Exact
<1> QED
  BY <1>2, <1>4, <1>5, <1>6, <1>8, <1>9, <1>10 DEF Exact

\* task_fork_fair up to the insertion adds the child.
LEMMA ForkEnqueueChild ==
  ASSUME NEW c \in CfsRq, NEW r \in Task, NEW L \in SUBSET Task,
         Exact(c, r, L), NEW t \in Task \ L, t # r, NEW now \in Nat,
         NEW d \in ForkEnqueue(c, t, now)
  PROVE  /\ d \in CfsRq
         /\ Exact(d, r, L \cup {t})
         /\ d.min_vruntime >= c.min_vruntime
<1>1. PICK a : a = update_rq_clock(c, now)
  OBVIOUS
<1>2. a \in CfsRq /\ Exact(a, r, L) /\ a.min_vruntime = c.min_vruntime
  BY <1>1 DEF update_rq_clock, CfsRq, Exact
<1>3. PICK b : b = update_curr(a)
  OBVIOUS
<1>4. b \in CfsRq /\ Exact(b, r, L) /\ b.min_vruntime >= a.min_vruntime
  BY <1>2, <1>3, UpdateCurrType, SameQueueExact
<1>5. PICK v \in Nat : v = b.se[b.curr].vruntime
  BY <1>4 DEF Exact, CfsRq, SchedEntity
<1>6. PICK e : e = [b.se[t] EXCEPT !.vruntime = v]
  OBVIOUS
<1>7. e \in SchedEntity /\ e.on_rq = b.se[t].on_rq
  BY <1>4, <1>6 DEF CfsRq, SchedEntity
<1>8. PICK f : f = [b EXCEPT !.se[t] = e]
  OBVIOUS
<1>9. f \in CfsRq /\ Exact(f, r, L) /\ f.min_vruntime = b.min_vruntime
  BY <1>4, <1>7, <1>8, SetEntity, SameQueueExact
<1>10. ForkPlace(a, t) = place_entity(f, t)
  BY <1>3, <1>5, <1>6, <1>8 DEF ForkPlace
<1>11. PICK p : p = place_entity(f, t)
  OBVIOUS
<1>12. p \in CfsRq /\ Exact(p, r, L) /\ p.min_vruntime = f.min_vruntime
  <2>1. ~f.se[t].on_rq
    BY <1>9 DEF Exact
  <2> QED
    BY <1>9, <1>11, <2>1, PlaceType, SameQueueExact
<1>13. d \in enqueue_entity(p, t)
  BY <1>1, <1>10, <1>11 DEF ForkEnqueue
<1>14. /\ d \in CfsRq /\ Exact(d, r, L \cup {t})
       /\ d.min_vruntime = p.min_vruntime
  BY <1>12, <1>13, EnqueueChild
<1> QED
  BY <1>2, <1>4, <1>9, <1>12, <1>14

\* dequeue_entity takes the running task off the queue.
LEMMA DequeueCurrent ==
  ASSUME NEW c \in CfsRq, NEW r \in Task, NEW L \in SUBSET Task,
         Exact(c, r, L), r \in L, NEW d \in dequeue_entity(c, r)
  PROVE  /\ d \in CfsRq
         /\ Exact(d, r, L \ {r})
         /\ d.min_vruntime >= c.min_vruntime
<1>1. PICK a : a = update_curr(c)
  OBVIOUS
<1>2. a \in CfsRq /\ Exact(a, r, L) /\ a.min_vruntime >= c.min_vruntime
  BY <1>1, UpdateCurrType, SameQueueExact
<1>3. PICK b : b = [a EXCEPT !.se[r].on_rq = FALSE]
  OBVIOUS
<1>4. /\ b \in CfsRq /\ b.min_vruntime = a.min_vruntime /\ b.curr = a.curr
      /\ b.tasks_timeline = a.tasks_timeline
      /\ b.nr_running = a.nr_running /\ b.load = a.load
      /\ ~b.se[r].on_rq
      /\ \A u \in Task \ {r} : b.se[u] = a.se[u]
  <2>1. PICK e : e = [a.se[r] EXCEPT !.on_rq = FALSE]
    OBVIOUS
  <2>2. e \in SchedEntity /\ ~e.on_rq
    BY <1>2, <2>1 DEF CfsRq, SchedEntity
  <2>3. b = [a EXCEPT !.se[r] = e]
    BY <1>3, <2>1
  <2> QED
    BY <1>2, <2>2, <2>3, RewriteEntity
<1>5. PICK e : e = account_entity_dequeue(b)
  OBVIOUS
<1>6. /\ Cardinality(L \ {r}) = Cardinality(L) - 1 /\ Cardinality(L) > 0
      /\ Cardinality(L) \in Nat
  BY TaskCounts
<1>7. b.nr_running = Cardinality(L) /\ b.load = WEIGHT * b.nr_running
  BY <1>2, <1>4 DEF Exact
<1>8. /\ e \in CfsRq /\ e.min_vruntime = b.min_vruntime /\ e.curr = b.curr
      /\ e.tasks_timeline = b.tasks_timeline /\ e.se = b.se
      /\ e.nr_running = b.nr_running - 1
      /\ e.load = WEIGHT * (b.nr_running - 1)
  BY <1>4, <1>5, <1>6, <1>7, AccountDequeue
<1>9. Exact(e, r, L \ {r})
  <2>1. IsInjective(e.tasks_timeline) /\ Range(e.tasks_timeline) = (L \ {r}) \ {r}
    BY <1>2, <1>4, <1>8 DEF Exact
  <2>2. \A u \in Task : e.se[u].on_rq <=> u \in L \ {r}
    BY <1>2, <1>4, <1>8 DEF Exact
  <2>3. e.nr_running = Cardinality(L \ {r}) /\ e.load = WEIGHT * e.nr_running
    BY <1>6, <1>7, <1>8
  <2>4. e.curr = r
    BY <1>2, <1>4, <1>8 DEF Exact
  <2> QED
    BY <2>1, <2>2, <2>3, <2>4 DEF Exact
<1>10. d = update_min_vruntime(e)
  BY <1>1, <1>3, <1>5 DEF dequeue_entity, Exact
<1>11. d \in CfsRq /\ Exact(d, r, L \ {r}) /\ d.min_vruntime >= e.min_vruntime
  BY <1>8, <1>9, <1>10, UpdateMinType, SameQueueExact
<1>12. PICK m \in Nat : m = c.min_vruntime
  BY DEF CfsRq
<1>13. PICK n \in Nat : n = a.min_vruntime /\ n >= m
  BY <1>2, <1>12 DEF CfsRq
<1>14. PICK o \in Nat : o = d.min_vruntime /\ o >= n
  BY <1>4, <1>8, <1>11, <1>13 DEF CfsRq
<1>15. o >= m
  BY <1>13, <1>14
<1> QED
  BY <1>11, <1>12, <1>14, <1>15

\* put_prev_entity puts the running task back, if it is still runnable.
LEMMA PutPrev ==
  ASSUME NEW c \in CfsRq, NEW r \in Task, NEW L \in SUBSET Task,
         Exact(c, r, L), NEW d \in put_prev_entity(c, r)
  PROVE  /\ d \in CfsRq
         /\ Exact(d, NoTask, L)
         /\ d.min_vruntime >= c.min_vruntime
<1>0. L \ {NoTask} = L
  BY NoTaskNotTask
<1>1. CASE r \in L
  <2>1. PICK a : a = update_curr(c)
    OBVIOUS
  <2>2. a \in CfsRq /\ Exact(a, r, L) /\ a.min_vruntime >= c.min_vruntime
    BY <2>1, UpdateCurrType, SameQueueExact
  <2>3. PICK b \in __enqueue_entity(a, r) : d = [b EXCEPT !.curr = NoTask]
    BY <1>1, <2>1 DEF put_prev_entity, Exact
  <2>4. PICK s \in Seq(Task) : /\ b = [a EXCEPT !.tasks_timeline = s]
                               /\ IsInjective(s)
                               /\ Range(s) = Range(a.tasks_timeline) \cup {r}
    <3>1. IsInjective(a.tasks_timeline) /\ r \notin Range(a.tasks_timeline)
      BY <2>2 DEF Exact
    <3> QED
      BY <2>2, <2>3, <3>1, LinkTree
  <2>5. /\ d \in CfsRq /\ d.min_vruntime = a.min_vruntime /\ d.curr = NoTask
        /\ d.tasks_timeline = s /\ d.se = a.se
        /\ d.nr_running = a.nr_running /\ d.load = a.load
    BY <2>2, <2>3, <2>4 DEF CfsRq
  <2>6. Range(s) = L \ {NoTask}
    BY <1>0, <1>1, <2>2, <2>4 DEF Exact
  <2> QED
    BY <2>2, <2>4, <2>5, <2>6 DEF Exact
<1>2. CASE r \notin L
  <2>1. d = [c EXCEPT !.curr = NoTask]
    BY <1>2 DEF put_prev_entity, Exact
  <2>2. /\ d \in CfsRq /\ d.min_vruntime = c.min_vruntime /\ d.curr = NoTask
        /\ d.tasks_timeline = c.tasks_timeline /\ d.se = c.se
        /\ d.nr_running = c.nr_running /\ d.load = c.load
    BY <2>1 DEF CfsRq
  <2>3. Range(d.tasks_timeline) = L \ {NoTask}
    BY <1>0, <1>2, <2>2 DEF Exact
  <2> QED
    BY <2>2, <2>3 DEF Exact, CfsRq
<1> QED
  BY <1>1, <1>2

\* set_next_entity takes the chosen task out of the tree and makes it current.
LEMMA SetNext ==
  ASSUME NEW c \in CfsRq, NEW L \in SUBSET Task, Exact(c, NoTask, L),
         NEW t \in L, NEW d \in set_next_entity(c, t)
  PROVE  /\ d \in CfsRq
         /\ Exact(d, t, L)
         /\ d.min_vruntime = c.min_vruntime
<1>1. PICK b \in __dequeue_entity(c, t) :
        d = [b EXCEPT !.curr = t, !.se[t] = Start(b.se[t], b.clock_task)]
  BY DEF set_next_entity, Exact
<1>2. PICK s \in Seq(Task) : /\ b = [c EXCEPT !.tasks_timeline = s]
                             /\ IsInjective(s)
                             /\ Range(s) = Range(c.tasks_timeline) \ {t}
  BY <1>1, UnlinkTree DEF Exact
<1>3. PICK f : f = [b EXCEPT !.curr = t]
  OBVIOUS
<1>4. /\ f \in CfsRq /\ f.min_vruntime = c.min_vruntime /\ f.curr = t
      /\ f.tasks_timeline = s /\ f.se = c.se /\ f.clock_task = b.clock_task
      /\ f.nr_running = c.nr_running /\ f.load = c.load
  BY <1>2, <1>3 DEF CfsRq
<1>5. PICK e : e = Start(f.se[t], f.clock_task)
  OBVIOUS
<1>6. e \in SchedEntity /\ e.on_rq = f.se[t].on_rq
  <2>1. PICK x \in SchedEntity : x = f.se[t]
    BY <1>4 DEF CfsRq
  <2>2. PICK now \in Nat : now = f.clock_task
    BY <1>4 DEF CfsRq
  <2>3. e = [x EXCEPT !.exec_start = now,
                      !.prev_sum_exec_runtime = x.sum_exec_runtime]
    BY <1>5, <2>1, <2>2 DEF Start
  <2> QED
    BY <2>1, <2>2, <2>3 DEF SchedEntity
<1>7. d = [f EXCEPT !.se[t] = e]
  BY <1>1, <1>3, <1>4, <1>5 DEF CfsRq
<1>8. d \in CfsRq /\ SameQueue(d, f) /\ d.min_vruntime = f.min_vruntime
  BY <1>4, <1>6, <1>7, SetEntity
<1>9. Range(s) = L \ {t}
  BY <1>2, NoTaskNotTask DEF Exact
<1>10. Exact(f, t, L)
  BY <1>2, <1>4, <1>9 DEF Exact
<1> QED
  BY <1>4, <1>8, <1>10, SameQueueExact

\* pick_next_task_fair switches to another live task, and nothing is lost.
LEMMA PickNext ==
  ASSUME NEW c \in CfsRq, NEW r \in Task, NEW L \in SUBSET Task,
         Exact(c, r, L), c.tasks_timeline # << >>,
         NEW d \in pick_next_task_fair(c, r)
  PROVE  /\ d \in CfsRq
         /\ d.curr \in L \ {r}
         /\ Exact(d, d.curr, L)
         /\ d.min_vruntime >= c.min_vruntime
<1>1. PICK t : t = Head(c.tasks_timeline)
  OBVIOUS
<1>2. t \in L \ {r}
  <2>1. c.tasks_timeline \in Seq(Task) /\ 1 \in DOMAIN c.tasks_timeline
        /\ t = c.tasks_timeline[1]
    BY <1>1, HeadTailProperties, LenProperties, EmptySeq DEF CfsRq
  <2>2. t \in Range(c.tasks_timeline)
    BY <2>1 DEF Range
  <2> QED
    BY <2>2 DEF Exact
<1>3. PICK b \in put_prev_entity(c, r) : d \in set_next_entity(b, t)
  BY <1>1 DEF pick_next_task_fair
<1>4. b \in CfsRq /\ Exact(b, NoTask, L) /\ b.min_vruntime >= c.min_vruntime
  BY <1>3, PutPrev
<1>5. d \in CfsRq /\ Exact(d, t, L) /\ d.min_vruntime = b.min_vruntime
  BY <1>2, <1>3, <1>4, SetNext
<1> QED
  BY <1>2, <1>4, <1>5 DEF Exact

-----------------------------------------------------------------------------
(* The inductive invariant *)

\* A stack of labels: the bottom frame is the interrupted code, and no outer
\* frame holds off preemption, since the tick that left it would not have come.
Frames(s) ==
  /\ s # << >>
  /\ s[Len(s)] \in {"run", "tail"}
  /\ \A i \in 2 .. Len(s) : s[i] \notin Masking

\* The stack of a task that is leaving: only ticks and _schedule above exit.
Exiting == {"exit_enable", "exit_sched", "exited"}
Passing == {"tick", "tick_end", "sched", "pick"}

Leaving(s) ==
  \E k \in 1 .. Len(s) :
    s[k] \in Exiting /\ \A i \in 1 .. k - 1 : s[i] \in Passing

\* Exactly the tasks below nr_tasks have been created, and have frames.
Created ==
  /\ \A t \in Task : state[t] = "unused" <=> t >= nr_tasks
  /\ \A t \in Task : state[t] # "unused" => Frames(stack[t])

\* The queue holds the live tasks, and the current task was created.
Queue ==
  ~halted => /\ current \in Task
             /\ state[current] # "unused"
             /\ Exact(cfs, current, Live)

\* Where preempt_enable comes next there is a preempt_disable to undo.
Disabled ==
  \A t \in Task :
    /\ state[t] # "unused"
    /\ Head(stack[t]) \in Masking
    => preempt_count[t] > 0

\* A dead task that is still current is on its way out of exit_process.
DeadLeaves ==
  ~halted /\ state[current] = "dead" => Leaving(stack[current])

IInv ==
  /\ TypeOK
  /\ Created
  /\ Queue
  /\ Disabled
  /\ DeadLeaves
  /\ HangsOnlyAlone

-----------------------------------------------------------------------------
(* Label stacks *)

\* What Frames says of a stack: a frame under the innermost one exists unless
\* that one is the interrupted code.
LEMMA FramesFacts ==
  ASSUME NEW s \in Seq(Label), Frames(s)
  PROVE  /\ s # << >> /\ Len(s) \in Nat /\ Len(s) >= 1
         /\ Head(s) = s[1] /\ Head(s) \in Label
         /\ Head(s) \notin {"run", "tail"} => Len(s) >= 2
BY HeadIsFirst DEF Frames

\* Goto keeps the frames.
LEMMA GotoFrames ==
  ASSUME NEW s \in Seq(Label), Frames(s), NEW l \in Label,
         Head(s) \in {"run", "tail"} => l \in {"run", "tail"}
  PROVE  /\ <<l>> \o Tail(s) \in Seq(Label)
         /\ Frames(<<l>> \o Tail(s))
         /\ Head(<<l>> \o Tail(s)) = l
<1>1. PICK r : r = <<l>> \o Tail(s)
  OBVIOUS
<1>2. /\ r \in Seq(Label) /\ Len(r) = Len(s) /\ r # << >>
      /\ Head(r) = l /\ r[1] = l
      /\ \A i \in 2 .. Len(s) : r[i] = s[i]
  BY <1>1, ReplaceFacts, FramesFacts
<1>3. r[Len(r)] \in {"run", "tail"}
  <2>1. CASE Len(s) = 1
    BY <1>2, <2>1, FramesFacts DEF Frames
  <2>2. CASE Len(s) >= 2
    <3>1. Len(s) \in 2 .. Len(s)
      BY <2>2, FramesFacts
    <3> QED
      BY <1>2, <3>1 DEF Frames
  <2> QED
    BY <2>1, <2>2, FramesFacts
<1> QED
  BY <1>1, <1>2, <1>3 DEF Frames

\* A call from a frame that does not hold off preemption keeps the frames.
LEMMA CallFrames ==
  ASSUME NEW s \in Seq(Label), Frames(s), Head(s) \notin Masking,
         NEW l \in Label
  PROVE  /\ <<l>> \o s \in Seq(Label)
         /\ Frames(<<l>> \o s)
         /\ Head(<<l>> \o s) = l
<1>1. PICK r : r = <<l>> \o s
  OBVIOUS
<1>2. /\ r \in Seq(Label) /\ Len(r) = Len(s) + 1 /\ r # << >>
      /\ Head(r) = l /\ r[1] = l
      /\ \A i \in 1 .. Len(s) : r[i + 1] = s[i]
  BY <1>1, PushFacts
<1>3. r[Len(r)] = s[Len(s)]
  BY <1>2, FramesFacts
<1>4. ASSUME NEW i \in 2 .. Len(r) PROVE r[i] \notin Masking
  <2>1. PICK j \in 1 .. Len(s) : i = j + 1
    BY <1>2, FramesFacts
  <2>2. s[j] \notin Masking
    BY FramesFacts DEF Frames
  <2> QED
    BY <1>2, <2>1, <2>2
<1> QED
  BY <1>1, <1>2, <1>3, <1>4 DEF Frames

\* So does a call that leaves a return label.
LEMMA CallFromFrames ==
  ASSUME NEW s \in Seq(Label), Frames(s), Head(s) \notin {"run", "tail"},
         NEW l \in Label \ Masking, NEW m \in Label
  PROVE  /\ <<m, l>> \o Tail(s) \in Seq(Label)
         /\ Frames(<<m, l>> \o Tail(s))
         /\ Head(<<m, l>> \o Tail(s)) = m
<1>1. PICK r : r = <<m, l>> \o Tail(s)
  OBVIOUS
<1>2. /\ r \in Seq(Label) /\ Len(r) = Len(s) + 1 /\ r # << >>
      /\ Head(r) = m /\ r[1] = m /\ r[2] = l
      /\ \A i \in 2 .. Len(s) : r[i + 1] = s[i]
  BY <1>1, ReplacePushFacts, FramesFacts
<1>3. Len(s) \in 2 .. Len(s)
  BY FramesFacts
<1>4. r[Len(r)] = s[Len(s)]
  BY <1>2, <1>3
<1>5. ASSUME NEW i \in 2 .. Len(r) PROVE r[i] \notin Masking
  <2>1. CASE i = 2
    BY <1>2, <2>1
  <2>2. CASE i # 2
    <3>1. PICK j \in 2 .. Len(s) : i = j + 1
      BY <1>2, <1>3, <2>2
    <3> QED
      BY <1>2, <3>1 DEF Frames
  <2> QED
    BY <2>1, <2>2
<1> QED
  BY <1>1, <1>2, <1>4, <1>5 DEF Frames

\* A return ends in a frame that does not hold off preemption.
LEMMA ReturnFrames ==
  ASSUME NEW s \in Seq(Label), Frames(s), Head(s) \notin {"run", "tail"}
  PROVE  /\ Tail(s) \in Seq(Label)
         /\ Frames(Tail(s))
         /\ Head(Tail(s)) \notin Masking
<1>1. PICK r : r = Tail(s)
  OBVIOUS
<1>2. /\ r \in Seq(Label) /\ Len(r) = Len(s) - 1
      /\ \A i \in 1 .. Len(s) - 1 : r[i] = s[i + 1]
  BY <1>1, PopFacts, FramesFacts
<1>3. Len(s) >= 2 /\ Len(s) \in Nat
  BY FramesFacts
<1>4. r # << >>
  BY <1>2, <1>3, EmptySeq
<1>5. r[Len(r)] = s[Len(s)]
  BY <1>2, <1>3
<1>6. \A i \in 1 .. Len(r) : r[i] \notin Masking
  <2> TAKE i \in 1 .. Len(r)
  <2>1. i + 1 \in 2 .. Len(s) /\ r[i] = s[i + 1]
    BY <1>2, <1>3
  <2> QED
    BY <2>1 DEF Frames
<1>7. Head(r) = r[1]
  BY <1>2, <1>4, HeadIsFirst
<1> QED
  BY <1>1, <1>2, <1>3, <1>4, <1>5, <1>6, <1>7 DEF Frames

\* The innermost frame of a task that is leaving.
LEMMA LeavingHead ==
  ASSUME NEW s \in Seq(Label), Frames(s), Leaving(s)
  PROVE  Head(s) \in Exiting \cup Passing
<1>1. PICK k \in 1 .. Len(s) :
        s[k] \in Exiting /\ \A i \in 1 .. k - 1 : s[i] \in Passing
  BY DEF Leaving
<1>2. CASE k = 1
  BY <1>1, <1>2, FramesFacts
<1>3. CASE k # 1
  <2>1. 1 \in 1 .. k - 1
    BY <1>3, FramesFacts
  <2> QED
    BY <1>1, <2>1, FramesFacts
<1> QED
  BY <1>2, <1>3

\* Goto inside exit_process, or inside what interrupted it, stays there.
LEMMA GotoLeaving ==
  ASSUME NEW s \in Seq(Label), Frames(s), Leaving(s), NEW l \in Label,
         Head(s) \in Exiting => l \in Exiting,
         Head(s) \in Passing => l \in Passing
  PROVE  Leaving(<<l>> \o Tail(s))
<1>1. PICK k \in 1 .. Len(s) :
        s[k] \in Exiting /\ \A i \in 1 .. k - 1 : s[i] \in Passing
  BY DEF Leaving
<1>2. PICK r : r = <<l>> \o Tail(s)
  OBVIOUS
<1>3. /\ Len(r) = Len(s) /\ r[1] = l
      /\ \A i \in 2 .. Len(s) : r[i] = s[i]
  BY <1>2, ReplaceFacts, FramesFacts
<1>4. r[k] \in Exiting
  BY <1>1, <1>3, FramesFacts
<1>5. ASSUME NEW i \in 1 .. k - 1 PROVE r[i] \in Passing
  <2>1. i \in 1 .. Len(s) /\ s[i] \in Passing
    BY <1>1, FramesFacts
  <2>2. CASE i = 1
    BY <1>3, <2>1, <2>2, FramesFacts
  <2>3. CASE i # 1
    BY <1>3, <2>1, <2>3, FramesFacts
  <2> QED
    BY <2>2, <2>3
<1> QED
  BY <1>2, <1>3, <1>4, <1>5 DEF Leaving

\* A tick in a leaving task leaves it leaving.
LEMMA CallLeaving ==
  ASSUME NEW s \in Seq(Label), Frames(s), Leaving(s), NEW l \in Label \cap Passing
  PROVE  Leaving(<<l>> \o s)
<1>1. PICK k \in 1 .. Len(s) :
        s[k] \in Exiting /\ \A i \in 1 .. k - 1 : s[i] \in Passing
  BY DEF Leaving
<1>2. PICK r : r = <<l>> \o s
  OBVIOUS
<1>3. /\ Len(r) = Len(s) + 1 /\ r[1] = l
      /\ \A i \in 1 .. Len(s) : r[i + 1] = s[i]
  BY <1>2, PushFacts
<1>4. k + 1 \in 1 .. Len(r) /\ r[k + 1] \in Exiting
  BY <1>1, <1>3, FramesFacts
<1>5. ASSUME NEW i \in 1 .. k PROVE r[i] \in Passing
  <2>1. CASE i = 1
    BY <1>3, <2>1
  <2>2. CASE i # 1
    <3>1. PICK j \in 1 .. k - 1 : i = j + 1
      BY <2>2
    <3>2. j \in 1 .. Len(s)
      BY FramesFacts
    <3> QED
      BY <1>1, <1>3, <3>1, <3>2
  <2> QED
    BY <2>1, <2>2
<1>6. \A i \in 1 .. (k + 1) - 1 : r[i] \in Passing
  BY <1>5
<1> QED
  BY <1>2, <1>4, <1>6 DEF Leaving

\* So does the call of _schedule.
LEMMA CallFromLeaving ==
  ASSUME NEW s \in Seq(Label), Frames(s), Leaving(s),
         NEW m \in Label \cap Passing, NEW l \in Label,
         Head(s) \in Exiting => l \in Exiting,
         Head(s) \in Passing => l \in Passing
  PROVE  Leaving(<<m, l>> \o Tail(s))
<1>1. PICK k \in 1 .. Len(s) :
        s[k] \in Exiting /\ \A i \in 1 .. k - 1 : s[i] \in Passing
  BY DEF Leaving
<1>2. PICK r : r = <<m, l>> \o Tail(s)
  OBVIOUS
<1>3. /\ Len(r) = Len(s) + 1 /\ r[1] = m /\ r[2] = l
      /\ \A i \in 2 .. Len(s) : r[i + 1] = s[i]
  BY <1>2, ReplacePushFacts, FramesFacts
<1>4. k + 1 \in 1 .. Len(r) /\ r[k + 1] \in Exiting
  BY <1>1, <1>3, FramesFacts
<1>5. ASSUME NEW i \in 1 .. k PROVE r[i] \in Passing
  <2>1. CASE i = 1
    BY <1>3, <2>1
  <2>2. CASE i # 1
    <3>1. PICK j \in 1 .. k - 1 : i = j + 1
      BY <2>2
    <3>2. j \in 1 .. Len(s) /\ s[j] \in Passing
      BY <1>1, FramesFacts
    <3>3. CASE j = 1
      BY <1>3, <3>1, <3>2, <3>3, FramesFacts
    <3>4. CASE j # 1
      BY <1>3, <3>1, <3>2, <3>4
    <3> QED
      BY <3>3, <3>4
  <2> QED
    BY <2>1, <2>2
<1>6. \A i \in 1 .. (k + 1) - 1 : r[i] \in Passing
  BY <1>5
<1> QED
  BY <1>2, <1>4, <1>6 DEF Leaving

\* And the end of the tick.
LEMMA ReturnLeaving ==
  ASSUME NEW s \in Seq(Label), Frames(s), Leaving(s), Head(s) \in Passing
  PROVE  Leaving(Tail(s))
<1>1. PICK k \in 1 .. Len(s) :
        s[k] \in Exiting /\ \A i \in 1 .. k - 1 : s[i] \in Passing
  BY DEF Leaving
<1>2. k # 1
  BY <1>1, FramesFacts DEF Exiting, Passing
<1>3. PICK j \in 1 .. Len(s) - 1 : k = j + 1
  BY <1>2, FramesFacts
<1>4. /\ Len(Tail(s)) = Len(s) - 1
      /\ \A i \in 1 .. Len(s) - 1 : Tail(s)[i] = s[i + 1]
  BY PopFacts, FramesFacts
<1>5. \A i \in 1 .. j - 1 : Tail(s)[i] \in Passing
  <2> TAKE i \in 1 .. j - 1
  <2>1. i \in 1 .. Len(s) - 1 /\ i + 1 \in 1 .. k - 1
    BY <1>3, FramesFacts
  <2> QED
    BY <1>1, <1>4, <2>1
<1> QED
  BY <1>1, <1>3, <1>4, <1>5 DEF Leaving

-----------------------------------------------------------------------------
(* The inductive invariant *)

\* What IInv says of the current task, for the steps below.
LEMMA CurrentFacts ==
  ASSUME IInv, ~halted
  PROVE  /\ current \in Task /\ state[current] # "unused"
         /\ stack[current] \in Seq(Label) /\ Frames(stack[current])
         /\ Live \in SUBSET Task
         /\ cfs \in CfsRq /\ Exact(cfs, current, Live)
         /\ preempt_count[current] \in Nat
         /\ Head(stack[current]) \in Masking => preempt_count[current] > 0
         /\ current \notin Live => state[current] = "dead"
BY DEF IInv, TypeOK, Created, Queue, Disabled, Live, TaskState

\* A step that changes the stack and the count of the current task only, and
\* keeps the queue exact, keeps IInv.
LEMMA StackStep ==
  ASSUME IInv, ~halted, UNCHANGED <<current, nr_tasks, state, halted>>,
         clock' \in Nat, need_resched' \in [Task -> BOOLEAN],
         cfs' \in CfsRq, Exact(cfs', current, Live),
         NEW s \in Seq(Label), Frames(s),
         stack' = [stack EXCEPT ![current] = s],
         NEW n \in Nat, Head(s) \in Masking => n > 0,
         preempt_count' = [preempt_count EXCEPT ![current] = n],
         state[current] = "dead" => Leaving(s)
  PROVE  IInv'
<1>1. /\ current \in Task /\ stack \in [Task -> Seq(Label)]
      /\ preempt_count \in [Task -> Nat] /\ stack'[current] = s
      /\ preempt_count'[current] = n
      /\ \A t \in Task \ {current} : /\ stack'[t] = stack[t]
                                     /\ preempt_count'[t] = preempt_count[t]
  BY CurrentFacts DEF IInv, TypeOK
<1>2. TypeOK'
  BY <1>1 DEF IInv, TypeOK
<1>3. Created'
  BY <1>1 DEF IInv, Created
<1>4. Queue'
  BY CurrentFacts DEF Queue, Live
<1>5. Disabled'
  BY <1>1 DEF IInv, Disabled
<1>6. DeadLeaves'
  BY <1>1 DEF DeadLeaves
<1>7. HangsOnlyAlone'
  BY DEF HangsOnlyAlone
<1> QED
  BY <1>2, <1>3, <1>4, <1>5, <1>6, <1>7 DEF IInv

-----------------------------------------------------------------------------
(* Each step keeps IInv *)

\* The boot task is the only one, current, and on the queue.
LEMMA InitInv == Init => IInv
<1> SUFFICES ASSUME Init PROVE IInv
  OBVIOUS
<1> USE DEF Init
<1>1. 0 \in Task
  BY NTasksAssumption DEF Task
<1>2. EmptyRq \in CfsRq
  <2>1. << >> \in Seq(Task)
    BY EmptySeq
  <2> QED
    BY <1>1, <2>1 DEF EmptyRq, CfsRq, BlankEntity, SchedEntity
<1>3. EmptyRq.curr = 0 /\ EmptyRq.tasks_timeline = << >>
      /\ EmptyRq.nr_running = 0 /\ EmptyRq.load = 0
      /\ \A t \in Task : ~EmptyRq.se[t].on_rq
  BY DEF EmptyRq, BlankEntity
<1>4. PICK p : p = place_entity(EmptyRq, 0)
  OBVIOUS
<1>5. p \in CfsRq /\ SameQueue(p, EmptyRq)
  BY <1>1, <1>2, <1>3, <1>4, PlaceType
<1>6. PICK a : a = account_entity_enqueue(p)
  OBVIOUS
<1>7. /\ a \in CfsRq /\ a.curr = p.curr
      /\ a.tasks_timeline = p.tasks_timeline /\ a.se = p.se
      /\ a.nr_running = p.nr_running + 1 /\ a.load = p.load + WEIGHT
  BY <1>5, <1>6, AccountEnqueue
<1>8. cfs = [a EXCEPT !.se[0].on_rq = TRUE]
  <2>1. p.curr = 0
    BY <1>3, <1>5 DEF SameQueue
  <2> QED
    BY <1>4, <1>6, <2>1 DEF enqueue_entity
<1>9. PICK e : e = [a.se[0] EXCEPT !.on_rq = TRUE]
  OBVIOUS
<1>10. e \in SchedEntity /\ e.on_rq /\ cfs = [a EXCEPT !.se[0] = e]
  BY <1>1, <1>7, <1>8, <1>9 DEF CfsRq, SchedEntity
<1>11. /\ cfs \in CfsRq /\ cfs.curr = a.curr
       /\ cfs.tasks_timeline = a.tasks_timeline
       /\ cfs.nr_running = a.nr_running /\ cfs.load = a.load
       /\ cfs.se[0] = e
       /\ \A u \in Task \ {0} : cfs.se[u] = a.se[u]
  BY <1>1, <1>7, <1>10, RewriteEntity
<1>12. Live = {0}
  BY <1>1 DEF Live
<1>13. Exact(cfs, 0, {0})
  <2>1. cfs.tasks_timeline = << >> /\ cfs.curr = 0
    BY <1>3, <1>5, <1>7, <1>11 DEF SameQueue
  <2>2. IsInjective(<< >>) /\ Range(<< >>) = {0} \ {0}
    BY DEF IsInjective, Range
  <2>3. \A t \in Task : cfs.se[t].on_rq <=> t \in {0}
    BY <1>3, <1>5, <1>7, <1>10, <1>11 DEF SameQueue
  <2>4. Cardinality({0}) = 1
    BY FS_Singleton
  <2>5. cfs.nr_running = 1 /\ cfs.load = WEIGHT
    BY <1>3, <1>5, <1>7, <1>11 DEF SameQueue, WEIGHT
  <2> QED
    BY <2>1, <2>2, <2>3, <2>4, <2>5 DEF Exact, WEIGHT
<1>14. TypeOK
  <2>1. stack \in [Task -> Seq(Label)]
    BY DEF Label
  <2> QED
    BY <1>1, <1>11, <2>1, NTasksAssumption DEF TypeOK, TaskState
<1>15. Created
  BY <1>1 DEF Created, Frames, Task
<1>16. Queue
  BY <1>1, <1>12, <1>13 DEF Queue
<1>17. Disabled /\ DeadLeaves /\ HangsOnlyAlone
  BY <1>1 DEF Disabled, DeadLeaves, HangsOnlyAlone, Masking
<1> QED
  BY <1>14, <1>15, <1>16, <1>17 DEF IInv

\* A timer interrupt in a task that holds off preemption.
LEMMA TickMaskedInv ==
  ASSUME IInv, TickMasked PROVE IInv'
<1> USE DEF TickMasked
<1>1. PICK s \in Seq(Label) : s = stack[current]
  BY CurrentFacts
<1>2. PICK n \in Nat : n = preempt_count[current]
  BY CurrentFacts
<1>3. /\ stack' = [stack EXCEPT ![current] = s]
      /\ preempt_count' = [preempt_count EXCEPT ![current] = n]
  BY <1>1, <1>2 DEF IInv, TypeOK
<1>4. clock' \in Nat /\ need_resched' \in [Task -> BOOLEAN]
  BY DEF IInv, TypeOK, TICK
<1> QED
  BY <1>1, <1>2, <1>3, <1>4, CurrentFacts, StackStep DEF IInv, DeadLeaves

\* A timer interrupt that is let in: the running task is charged.
LEMMA TickInv ==
  ASSUME IInv, Tick PROVE IInv'
<1>1. PICK a : a = update_rq_clock(cfs, clock + TICK)
  OBVIOUS
<1>2. PICK c : c = update_curr(a)
  OBVIOUS
<1>3. clock + TICK \in Nat
  BY DEF IInv, TypeOK, TICK
<1>4. a \in CfsRq /\ Exact(a, current, Live)
  BY <1>1, <1>3, CurrentFacts DEF Tick, update_rq_clock, CfsRq, Exact
<1>5. c \in CfsRq /\ Exact(c, current, Live)
  BY <1>2, <1>4, UpdateCurrType, SameQueueExact
<1>6. /\ clock' = clock + TICK /\ cfs' = c
      /\ preempt_count[current] = 0 /\ ~halted
      /\ UNCHANGED <<current, nr_tasks, preempt_count, state>>
      /\ halted' = (ReadsLeftmost(c, current) /\ c.tasks_timeline = << >>)
  BY <1>1, <1>2 DEF Tick
<1>7. CASE halted'
  <2>1. need_resched' = need_resched /\ stack' = stack
    BY <1>7 DEF Tick
  <2>2. TypeOK'
    BY <1>3, <1>5, <1>6, <1>7, <2>1 DEF IInv, TypeOK
  <2>3. Created' /\ Disabled'
    BY <1>6, <2>1 DEF IInv, Created, Disabled
  <2>4. HangsOnlyAlone'
    <3>1. c.tasks_timeline = << >>
      BY <1>6, <1>7
    <3>2. Live \ {current} = {}
      BY <1>5, <3>1 DEF Exact, Range
    <3> QED
      BY <1>6, <3>2 DEF HangsOnlyAlone, Live
  <2>5. Queue' /\ DeadLeaves'
    BY <1>7 DEF Queue, DeadLeaves
  <2> QED
    BY <2>2, <2>3, <2>4, <2>5 DEF IInv
<1>8. CASE ~halted'
  <2>1. PICK s : s = <<"tick">> \o stack[current]
    OBVIOUS
  <2>2. Head(stack[current]) \notin Masking
    BY <1>6, CurrentFacts
  <2>3. s \in Seq(Label) /\ Frames(s) /\ Head(s) = "tick"
    BY <1>6, <2>1, <2>2, CurrentFacts, CallFrames DEF Label
  <2>4. state[current] = "dead" => Leaving(s)
    BY <1>6, <2>1, CurrentFacts, CallLeaving DEF IInv, DeadLeaves, Label, Passing
  <2>5. stack' = [stack EXCEPT ![current] = s]
    BY <1>8, <2>1 DEF Tick, Call
  <2>6. need_resched' \in [Task -> BOOLEAN]
    <3>1. need_resched' = [need_resched EXCEPT ![current] =
                             @ \/ entity_tick(c, current)]
      BY <1>1, <1>2, <1>8 DEF Tick
    <3>2. (need_resched[current] \/ entity_tick(c, current)) \in BOOLEAN
      OBVIOUS
    <3> QED
      BY <3>1, <3>2 DEF IInv, TypeOK
  <2>7. preempt_count' = [preempt_count EXCEPT ![current] = 0]
    BY <1>6 DEF IInv, TypeOK
  <2>8. Head(s) \notin Masking /\ 0 \in Nat
    BY <2>3 DEF Masking
  <2>9. UNCHANGED <<current, nr_tasks, state, halted>>
    BY <1>6, <1>8 DEF IInv, TypeOK
  <2>10. clock' \in Nat /\ cfs' \in CfsRq /\ Exact(cfs', current, Live)
    BY <1>3, <1>5, <1>6
  <2> QED
    BY <1>6, <2>3, <2>4, <2>5, <2>6, <2>7, <2>8, <2>9, <2>10, StackStep
<1> QED
  BY <1>7, <1>8

\* The steps of timer_tick after enable_irq.
LEMMA TickDecideInv ==
  ASSUME IInv, TickDecide PROVE IInv'
<1>1. ~halted /\ Head(stack[current]) = "tick"
  BY DEF TickDecide, At
<1>2. PICK n \in Nat : n = preempt_count[current]
  BY CurrentFacts, <1>1
<1>3. preempt_count' = [preempt_count EXCEPT ![current] = n]
  BY <1>2 DEF TickDecide, IInv, TypeOK
<1>4. /\ UNCHANGED <<current, nr_tasks, state, halted>> /\ clock' \in Nat
      /\ need_resched' \in [Task -> BOOLEAN]
      /\ cfs' \in CfsRq /\ Exact(cfs', current, Live)
  BY <1>1, CurrentFacts DEF TickDecide, IInv, TypeOK
<1>5. CASE need_resched[current]
  <2>1. PICK s : s = <<"sched", "tick_end">> \o Tail(stack[current])
    OBVIOUS
  <2>2. s \in Seq(Label) /\ Frames(s) /\ Head(s) = "sched"
    BY <1>1, <2>1, CurrentFacts, CallFromFrames DEF Label, Masking
  <2>3. state[current] = "dead" => Leaving(s)
    BY <1>1, <2>1, CurrentFacts, CallFromLeaving
       DEF IInv, DeadLeaves, Label, Passing, Exiting
  <2>4. stack' = [stack EXCEPT ![current] = s]
    BY <1>5, <2>1 DEF TickDecide, CallFrom
  <2>5. Head(s) \notin Masking
    BY <2>2 DEF Masking
  <2> QED
    BY <1>1, <1>3, <1>4, <2>2, <2>3, <2>4, <2>5, StackStep
<1>6. CASE ~need_resched[current]
  <2>1. PICK s : s = <<"tick_end">> \o Tail(stack[current])
    OBVIOUS
  <2>2. s \in Seq(Label) /\ Frames(s) /\ Head(s) = "tick_end"
    BY <1>1, <2>1, CurrentFacts, GotoFrames DEF Label
  <2>3. state[current] = "dead" => Leaving(s)
    BY <1>1, <2>1, CurrentFacts, GotoLeaving
       DEF IInv, DeadLeaves, Label, Passing, Exiting
  <2>4. stack' = [stack EXCEPT ![current] = s]
    BY <1>6, <2>1 DEF TickDecide, Goto
  <2>5. Head(s) \notin Masking
    BY <2>2 DEF Masking
  <2> QED
    BY <1>1, <1>3, <1>4, <2>2, <2>3, <2>4, <2>5, StackStep
<1> QED
  BY <1>5, <1>6

LEMMA TickReturnInv ==
  ASSUME IInv, TickReturn PROVE IInv'
<1>1. ~halted /\ Head(stack[current]) = "tick_end"
  BY DEF TickReturn, At
<1>2. PICK n \in Nat : n = preempt_count[current]
  BY CurrentFacts, <1>1
<1>3. preempt_count' = [preempt_count EXCEPT ![current] = n]
  BY <1>2 DEF TickReturn, IInv, TypeOK
<1>4. /\ UNCHANGED <<current, nr_tasks, state, halted>> /\ clock' \in Nat
      /\ need_resched' \in [Task -> BOOLEAN]
      /\ cfs' \in CfsRq /\ Exact(cfs', current, Live)
  BY <1>1, CurrentFacts DEF TickReturn, IInv, TypeOK
<1>5. PICK s : s = Tail(stack[current])
  OBVIOUS
<1>6. s \in Seq(Label) /\ Frames(s) /\ Head(s) \notin Masking
  BY <1>1, <1>5, CurrentFacts, ReturnFrames
<1>7. state[current] = "dead" => Leaving(s)
  BY <1>1, <1>5, CurrentFacts, ReturnLeaving DEF IInv, DeadLeaves, Passing
<1>8. stack' = [stack EXCEPT ![current] = s]
  BY <1>5 DEF TickReturn, Return
<1> QED
  BY <1>1, <1>3, <1>4, <1>6, <1>7, <1>8, StackStep

\* _schedule disables preemption before it reads the queue.
LEMMA ScheduleEnterInv ==
  ASSUME IInv, ScheduleEnter PROVE IInv'
<1>1. ~halted /\ Head(stack[current]) = "sched"
  BY DEF ScheduleEnter, At
<1>2. PICK n \in Nat : n = preempt_count[current] + 1
  BY CurrentFacts, <1>1
<1>3. preempt_count' = [preempt_count EXCEPT ![current] = n]
  BY <1>2 DEF ScheduleEnter, preempt_disable
<1>4. /\ UNCHANGED <<current, nr_tasks, state, halted>> /\ clock' \in Nat
      /\ need_resched' \in [Task -> BOOLEAN]
      /\ cfs' \in CfsRq /\ Exact(cfs', current, Live)
  BY <1>1, CurrentFacts DEF ScheduleEnter, IInv, TypeOK
<1>5. PICK s : s = <<"pick">> \o Tail(stack[current])
  OBVIOUS
<1>6. s \in Seq(Label) /\ Frames(s)
  BY <1>1, <1>5, CurrentFacts, GotoFrames DEF Label
<1>7. state[current] = "dead" => Leaving(s)
  BY <1>1, <1>5, CurrentFacts, GotoLeaving
     DEF IInv, DeadLeaves, Label, Passing, Exiting
<1>8. stack' = [stack EXCEPT ![current] = s]
  BY <1>5 DEF ScheduleEnter, Goto
<1>9. n > 0
  BY <1>1, <1>2, CurrentFacts
<1> QED
  BY <1>1, <1>3, <1>4, <1>6, <1>7, <1>8, <1>9, StackStep

\* The switch: the queue decides, and the task that leaves is parked.
LEMMA ScheduleSwitchInv ==
  ASSUME IInv, ScheduleSwitch PROVE IInv'
<1>1. /\ ~halted /\ Head(stack[current]) = "pick"
      /\ cfs.tasks_timeline # << >>
      /\ cfs' \in pick_next_task_fair(cfs, current)
      /\ current' = cfs'.curr
      /\ need_resched' = [need_resched EXCEPT ![current] = FALSE]
      /\ UNCHANGED <<clock, nr_tasks, preempt_count, state, halted>>
  BY DEF ScheduleSwitch, At
<1>2. /\ cfs' \in CfsRq /\ current' \in Live \ {current}
      /\ Exact(cfs', current', Live)
  BY <1>1, CurrentFacts, PickNext
<1>3. PICK s : s = <<"resume">> \o Tail(stack[current])
  OBVIOUS
<1>4. s \in Seq(Label) /\ Frames(s) /\ Head(s) = "resume"
  BY <1>1, <1>3, CurrentFacts, GotoFrames DEF Label
<1>5. stack' = [stack EXCEPT ![current] = s]
  BY <1>3 DEF ScheduleSwitch, Goto
<1>6. /\ stack \in [Task -> Seq(Label)] /\ stack'[current] = s
      /\ \A t \in Task \ {current} : stack'[t] = stack[t]
  BY <1>1, <1>5, CurrentFacts DEF IInv, TypeOK
<1>7. TypeOK'
  BY <1>1, <1>2, <1>4, <1>5 DEF IInv, TypeOK, Live
<1>8. Created'
  BY <1>1, <1>4, <1>6 DEF IInv, Created
<1>9. Queue'
  BY <1>1, <1>2 DEF Queue, Live
<1>10. Disabled'
  <2>1. preempt_count[current] > 0
    BY <1>1, CurrentFacts DEF Masking
  <2> QED
    BY <1>1, <1>6, <2>1 DEF IInv, Disabled
<1>11. DeadLeaves' /\ HangsOnlyAlone'
  BY <1>1, <1>2 DEF DeadLeaves, HangsOnlyAlone, Live
<1> QED
  BY <1>7, <1>8, <1>9, <1>10, <1>11 DEF IInv

\* _schedule finds the tree empty: the running task is the only one.
LEMMA SchedulePickNullInv ==
  ASSUME IInv, SchedulePickNull PROVE IInv'
<1>1. /\ ~halted /\ cfs.tasks_timeline = << >> /\ halted'
      /\ halted' \in BOOLEAN
      /\ cfs' \in put_prev_entity(cfs, current)
      /\ UNCHANGED <<clock, current, nr_tasks, preempt_count, need_resched,
                     state, stack>>
  BY DEF SchedulePickNull, At
<1>2. cfs' \in CfsRq
  BY <1>1, CurrentFacts, PutPrev
<1>3. TypeOK'
  BY <1>1, <1>2 DEF IInv, TypeOK
<1>4. Created' /\ Disabled'
  BY <1>1 DEF IInv, Created, Disabled
<1>5. HangsOnlyAlone'
  <2>1. Live \ {current} = {}
    BY <1>1, CurrentFacts DEF Exact, Range
  <2> QED
    BY <1>1, <2>1 DEF HangsOnlyAlone, Live
<1> QED
  BY <1>1, <1>3, <1>4, <1>5 DEF IInv, Queue, DeadLeaves

\* _schedule finds nothing runnable: the last task has exited.
LEMMA ScheduleNoneInv ==
  ASSUME IInv, ScheduleNone PROVE IInv'
<1>1. /\ ~halted /\ cfs.nr_running = 0 /\ halted' /\ halted' \in BOOLEAN
      /\ current' = NoTask
      /\ need_resched' = [need_resched EXCEPT ![current] = FALSE]
      /\ UNCHANGED <<clock, cfs, nr_tasks, preempt_count, state, stack>>
  BY DEF ScheduleNone, At
<1>2. TypeOK'
  BY <1>1 DEF IInv, TypeOK
<1>3. Created' /\ Disabled'
  BY <1>1 DEF IInv, Created, Disabled
<1>4. HangsOnlyAlone'
  <2>1. Cardinality(Live) = 0
    BY <1>1, CurrentFacts DEF Exact
  <2>2. Live \in SUBSET Task
    BY DEF Live
  <2>3. \A t \in Live : Cardinality(Live) > 0
    BY <2>2, TaskCounts
  <2>4. Live = {}
    BY <2>1, <2>3
  <2> QED
    BY <1>1, <2>4 DEF HangsOnlyAlone, Live
<1> QED
  BY <1>1, <1>2, <1>3, <1>4 DEF IInv, Queue, DeadLeaves

\* A task that is switched in again enables preemption and returns.
LEMMA ScheduleResumeInv ==
  ASSUME IInv, ScheduleResume PROVE IInv'
<1>1. ~halted /\ Head(stack[current]) = "resume"
  BY DEF ScheduleResume, At
<1>2. PICK n \in Nat : n = preempt_count[current] - 1
  BY <1>1, CurrentFacts DEF Masking
<1>3. preempt_count' = [preempt_count EXCEPT ![current] = n]
  BY <1>2 DEF ScheduleResume, preempt_enable
<1>4. /\ UNCHANGED <<current, nr_tasks, state, halted>> /\ clock' \in Nat
      /\ need_resched' \in [Task -> BOOLEAN]
      /\ cfs' \in CfsRq /\ Exact(cfs', current, Live)
  BY <1>1, CurrentFacts DEF ScheduleResume, IInv, TypeOK
<1>5. PICK s : s = Tail(stack[current])
  OBVIOUS
<1>6. s \in Seq(Label) /\ Frames(s) /\ Head(s) \notin Masking
  BY <1>1, <1>5, CurrentFacts, ReturnFrames
<1>7. state[current] # "dead"
  BY <1>1, CurrentFacts, LeavingHead DEF IInv, DeadLeaves, Exiting, Passing
<1>8. stack' = [stack EXCEPT ![current] = s]
  BY <1>5 DEF ScheduleResume, Return
<1> QED
  BY <1>1, <1>3, <1>4, <1>6, <1>7, <1>8, StackStep

\* A new task does the same in schedule_tail.
LEMMA ScheduleTailInv ==
  ASSUME IInv, ScheduleTail PROVE IInv'
<1>1. ~halted /\ Head(stack[current]) = "tail"
  BY DEF ScheduleTail, At
<1>2. PICK n \in Nat : n = preempt_count[current] - 1
  BY <1>1, CurrentFacts DEF Masking
<1>3. preempt_count' = [preempt_count EXCEPT ![current] = n]
  BY <1>2 DEF ScheduleTail, preempt_enable
<1>4. /\ UNCHANGED <<current, nr_tasks, state, halted>> /\ clock' \in Nat
      /\ need_resched' \in [Task -> BOOLEAN]
      /\ cfs' \in CfsRq /\ Exact(cfs', current, Live)
  BY <1>1, CurrentFacts DEF ScheduleTail, IInv, TypeOK
<1>5. PICK s : s = <<"run">> \o Tail(stack[current])
  OBVIOUS
<1>6. s \in Seq(Label) /\ Frames(s) /\ Head(s) = "run"
  BY <1>1, <1>5, CurrentFacts, GotoFrames DEF Label
<1>7. state[current] # "dead" /\ Head(s) \notin Masking
  BY <1>1, <1>6, CurrentFacts, LeavingHead
     DEF IInv, DeadLeaves, Exiting, Passing, Masking
<1>8. stack' = [stack EXCEPT ![current] = s]
  BY <1>5 DEF ScheduleTail, Goto
<1> QED
  BY <1>1, <1>3, <1>4, <1>6, <1>7, <1>8, StackStep

\* copy_process and exit_process disable preemption first.
LEMMA ForkEnterInv ==
  ASSUME IInv, ForkEnter PROVE IInv'
<1>1. ~halted /\ Head(stack[current]) = "run"
  BY DEF ForkEnter, At
<1>2. PICK n \in Nat : n = preempt_count[current] + 1 /\ n > 0
  BY <1>1, CurrentFacts
<1>3. preempt_count' = [preempt_count EXCEPT ![current] = n]
  BY <1>2 DEF ForkEnter, preempt_disable
<1>4. /\ UNCHANGED <<current, nr_tasks, state, halted>> /\ clock' \in Nat
      /\ need_resched' \in [Task -> BOOLEAN]
      /\ cfs' \in CfsRq /\ Exact(cfs', current, Live)
  BY <1>1, CurrentFacts DEF ForkEnter, IInv, TypeOK
<1>5. PICK s : s = <<"fork">> \o stack[current]
  OBVIOUS
<1>6. s \in Seq(Label) /\ Frames(s)
  BY <1>1, <1>5, CurrentFacts, CallFrames DEF Label, Masking
<1>7. state[current] # "dead"
  BY <1>1, CurrentFacts, LeavingHead DEF IInv, DeadLeaves, Exiting, Passing
<1>8. stack' = [stack EXCEPT ![current] = s]
  BY <1>5 DEF ForkEnter, Call
<1> QED
  BY <1>1, <1>2, <1>3, <1>4, <1>6, <1>7, <1>8, StackStep

LEMMA ExitEnterInv ==
  ASSUME IInv, ExitEnter PROVE IInv'
<1>1. ~halted /\ Head(stack[current]) = "run"
  BY DEF ExitEnter, At
<1>2. PICK n \in Nat : n = preempt_count[current] + 1 /\ n > 0
  BY <1>1, CurrentFacts
<1>3. preempt_count' = [preempt_count EXCEPT ![current] = n]
  BY <1>2 DEF ExitEnter, preempt_disable
<1>4. /\ UNCHANGED <<current, nr_tasks, state, halted>> /\ clock' \in Nat
      /\ need_resched' \in [Task -> BOOLEAN]
      /\ cfs' \in CfsRq /\ Exact(cfs', current, Live)
  BY <1>1, CurrentFacts DEF ExitEnter, IInv, TypeOK
<1>5. PICK s : s = <<"exit">> \o stack[current]
  OBVIOUS
<1>6. s \in Seq(Label) /\ Frames(s)
  BY <1>1, <1>5, CurrentFacts, CallFrames DEF Label, Masking
<1>7. state[current] # "dead"
  BY <1>1, CurrentFacts, LeavingHead DEF IInv, DeadLeaves, Exiting, Passing
<1>8. stack' = [stack EXCEPT ![current] = s]
  BY <1>5 DEF ExitEnter, Call
<1> QED
  BY <1>1, <1>2, <1>3, <1>4, <1>6, <1>7, <1>8, StackStep

\* The child joins the queue, behind its first schedule_tail.
LEMMA ForkChildInv ==
  ASSUME IInv, ForkChild PROVE IInv'
<1>1. /\ ~halted /\ Head(stack[current]) = "fork" /\ nr_tasks < NTasks
      /\ UNCHANGED <<clock, current, halted>>
      /\ nr_tasks' = nr_tasks + 1
      /\ state' = [state EXCEPT ![nr_tasks] = "running"]
      /\ preempt_count' = [preempt_count EXCEPT ![nr_tasks] = 1]
      /\ stack' = [Goto("fork_enable") EXCEPT ![nr_tasks] = <<"tail">>]
  BY DEF ForkChild, At
<1>2. nr_tasks \in Task /\ nr_tasks \in Nat
  BY <1>1, NTasksAssumption DEF IInv, TypeOK, Task
<1>3. /\ state[nr_tasks] = "unused" /\ nr_tasks \notin Live
      /\ nr_tasks # current
  BY <1>1, <1>2, CurrentFacts DEF IInv, Created, Live
<1>4. PICK e \in ForkEnqueue(cfs, nr_tasks, clock) :
        /\ cfs' = ForkSwap(e, nr_tasks)
        /\ need_resched' = [need_resched EXCEPT
              ![nr_tasks] = FALSE,
              ![current] = @ \/ ForkSwaps(e, nr_tasks)]
  BY DEF ForkChild
<1>5. e \in CfsRq /\ Exact(e, current, Live \cup {nr_tasks})
  <2>1. clock \in Nat /\ nr_tasks \in Task \ Live
    BY <1>2, <1>3 DEF IInv, TypeOK
  <2> QED
    BY <1>1, <1>3, <2>1, CurrentFacts, ForkEnqueueChild
<1>6. cfs' \in CfsRq /\ Exact(cfs', current, Live \cup {nr_tasks})
  <2>1. e.curr \in Task
    BY <1>1, <1>5, CurrentFacts DEF Exact
  <2> QED
    BY <1>2, <1>4, <1>5, <2>1, ForkSwapType, SameQueueExact
<1>7. PICK s : s = <<"fork_enable">> \o Tail(stack[current])
  OBVIOUS
<1>8. s \in Seq(Label) /\ Frames(s)
  BY <1>1, <1>7, CurrentFacts, GotoFrames DEF Label
<1>9. /\ stack \in [Task -> Seq(Label)] /\ state \in [Task -> TaskState]
      /\ preempt_count \in [Task -> Nat] /\ current \in Task
  BY <1>1, CurrentFacts DEF IInv, TypeOK
<1>10. stack' = [stack EXCEPT ![current] = s, ![nr_tasks] = <<"tail">>]
  BY <1>1, <1>7 DEF Goto
<1>11. /\ stack'[current] = s /\ stack'[nr_tasks] = <<"tail">>
       /\ \A t \in Task \ {current, nr_tasks} : stack'[t] = stack[t]
  BY <1>2, <1>3, <1>9, <1>10
<1>12. /\ state'[nr_tasks] = "running" /\ preempt_count'[nr_tasks] = 1
       /\ \A t \in Task \ {nr_tasks} : /\ state'[t] = state[t]
                                       /\ preempt_count'[t] = preempt_count[t]
  BY <1>1, <1>2, <1>9
<1>13. Live' = Live \cup {nr_tasks}
  BY <1>2, <1>12 DEF Live
<1>14. need_resched' \in [Task -> BOOLEAN]
  <2>1. (need_resched[current] \/ ForkSwaps(e, nr_tasks)) \in BOOLEAN
    OBVIOUS
  <2> QED
    BY <1>2, <1>3, <1>4, <1>9, <2>1 DEF IInv, TypeOK
<1>15. <<"tail">> \in Seq(Label) /\ Frames(<<"tail">>)
  BY DEF Label, Frames
<1>16. TypeOK'
  <2>1. stack' \in [Task -> Seq(Label)]
    BY <1>8, <1>9, <1>10, <1>15
  <2>2. state' \in [Task -> TaskState] /\ preempt_count' \in [Task -> Nat]
    BY <1>1, <1>9 DEF TaskState
  <2>3. nr_tasks' \in 1 .. NTasks
    BY <1>1, NTasksAssumption DEF IInv, TypeOK
  <2> QED
    BY <1>1, <1>6, <1>14, <2>1, <2>2, <2>3 DEF IInv, TypeOK
<1>17. Created'
  <2>1. \A t \in Task : state'[t] = "unused" <=> t >= nr_tasks'
    BY <1>1, <1>2, <1>12 DEF IInv, Created, Task
  <2>2. \A t \in Task : state'[t] # "unused" => Frames(stack'[t])
    BY <1>8, <1>11, <1>12, <1>15 DEF IInv, Created
  <2> QED
    BY <2>1, <2>2 DEF Created
<1>18. Queue'
  BY <1>1, <1>3, <1>6, <1>9, <1>12, <1>13, CurrentFacts DEF Queue
<1>19. Disabled'
  <2>1. preempt_count[current] > 0
    BY <1>1, CurrentFacts DEF Masking
  <2> SUFFICES ASSUME NEW t \in Task, state'[t] # "unused",
                      Head(stack'[t]) \in Masking
               PROVE  preempt_count'[t] > 0
    BY DEF Disabled
  <2>2. CASE t = nr_tasks
    BY <1>12, <2>2
  <2>3. CASE t = current
    BY <1>3, <1>12, <2>1, <2>3
  <2>4. CASE t # nr_tasks /\ t # current
    BY <1>11, <1>12, <2>4 DEF IInv, Disabled
  <2> QED
    BY <2>2, <2>3, <2>4
<1>20. DeadLeaves' /\ HangsOnlyAlone'
  <2>1. state[current] # "dead"
    BY <1>1, CurrentFacts, LeavingHead DEF IInv, DeadLeaves, Exiting, Passing
  <2> QED
    BY <1>1, <1>3, <1>9, <1>12, <2>1 DEF DeadLeaves, HangsOnlyAlone
<1> QED
  BY <1>16, <1>17, <1>18, <1>19, <1>20 DEF IInv

\* copy_process without a page: it returns, and nothing else.
LEMMA ForkNoPageInv ==
  ASSUME IInv, ForkNoPage PROVE IInv'
<1>1. ~halted /\ Head(stack[current]) = "fork"
  BY DEF ForkNoPage, At
<1>2. PICK n \in Nat : n = preempt_count[current]
  BY CurrentFacts, <1>1
<1>3. preempt_count' = [preempt_count EXCEPT ![current] = n]
  BY <1>2 DEF ForkNoPage, IInv, TypeOK
<1>4. /\ UNCHANGED <<current, nr_tasks, state, halted>> /\ clock' \in Nat
      /\ need_resched' \in [Task -> BOOLEAN]
      /\ cfs' \in CfsRq /\ Exact(cfs', current, Live)
  BY <1>1, CurrentFacts DEF ForkNoPage, IInv, TypeOK
<1>5. PICK s : s = Tail(stack[current])
  OBVIOUS
<1>6. s \in Seq(Label) /\ Frames(s) /\ Head(s) \notin Masking
  BY <1>1, <1>5, CurrentFacts, ReturnFrames
<1>7. state[current] # "dead"
  BY <1>1, CurrentFacts, LeavingHead DEF IInv, DeadLeaves, Exiting, Passing
<1>8. stack' = [stack EXCEPT ![current] = s]
  BY <1>5 DEF ForkNoPage, Return
<1> QED
  BY <1>1, <1>3, <1>4, <1>6, <1>7, <1>8, StackStep

\* copy_process with a child enables preemption again.
LEMMA ForkReturnInv ==
  ASSUME IInv, ForkReturn PROVE IInv'
<1>1. ~halted /\ Head(stack[current]) = "fork_enable"
  BY DEF ForkReturn, At
<1>2. PICK n \in Nat : n = preempt_count[current] - 1
  BY <1>1, CurrentFacts DEF Masking
<1>3. preempt_count' = [preempt_count EXCEPT ![current] = n]
  BY <1>2 DEF ForkReturn, preempt_enable
<1>4. /\ UNCHANGED <<current, nr_tasks, state, halted>> /\ clock' \in Nat
      /\ need_resched' \in [Task -> BOOLEAN]
      /\ cfs' \in CfsRq /\ Exact(cfs', current, Live)
  BY <1>1, CurrentFacts DEF ForkReturn, IInv, TypeOK
<1>5. PICK s : s = Tail(stack[current])
  OBVIOUS
<1>6. s \in Seq(Label) /\ Frames(s) /\ Head(s) \notin Masking
  BY <1>1, <1>5, CurrentFacts, ReturnFrames
<1>7. state[current] # "dead"
  BY <1>1, CurrentFacts, LeavingHead DEF IInv, DeadLeaves, Exiting, Passing
<1>8. stack' = [stack EXCEPT ![current] = s]
  BY <1>5 DEF ForkReturn, Return
<1> QED
  BY <1>1, <1>3, <1>4, <1>6, <1>7, <1>8, StackStep

\* exit_process takes the current task off the queue.
LEMMA ExitDequeueInv ==
  ASSUME IInv, ExitDequeue PROVE IInv'
<1>1. /\ ~halted /\ Head(stack[current]) = "exit"
      /\ cfs' \in dequeue_entity(cfs, current)
      /\ state' = [state EXCEPT ![current] = "dead"]
      /\ UNCHANGED <<clock, current, nr_tasks, preempt_count, need_resched,
                     halted>>
  BY DEF ExitDequeue, At
<1>2. current \in Live
  BY <1>1, CurrentFacts, LeavingHead DEF IInv, DeadLeaves, Exiting, Passing
<1>3. cfs' \in CfsRq /\ Exact(cfs', current, Live \ {current})
  BY <1>1, <1>2, CurrentFacts, DequeueCurrent
<1>4. PICK s : s = <<"exit_enable">> \o Tail(stack[current])
  OBVIOUS
<1>5. s \in Seq(Label) /\ Frames(s) /\ Head(s) = "exit_enable"
  BY <1>1, <1>4, CurrentFacts, GotoFrames DEF Label
<1>6. stack' = [stack EXCEPT ![current] = s]
  BY <1>4 DEF ExitDequeue, Goto
<1>7. /\ stack \in [Task -> Seq(Label)] /\ state \in [Task -> TaskState]
      /\ stack'[current] = s /\ state'[current] = "dead"
      /\ \A t \in Task \ {current} : /\ stack'[t] = stack[t]
                                     /\ state'[t] = state[t]
  BY <1>1, <1>6, CurrentFacts DEF IInv, TypeOK
<1>8. Live' = Live \ {current}
  BY <1>1, <1>7, CurrentFacts DEF Live
<1>9. TypeOK'
  BY <1>1, <1>3, <1>5, <1>6, <1>7 DEF IInv, TypeOK, TaskState
<1>10. Created'
  BY <1>1, <1>5, <1>7, CurrentFacts DEF IInv, Created
<1>11. Queue'
  BY <1>1, <1>3, <1>7, <1>8, CurrentFacts DEF Queue
<1>12. Disabled'
  <2>1. preempt_count[current] > 0
    BY <1>1, CurrentFacts DEF Masking
  <2> QED
    BY <1>1, <1>7, <2>1 DEF IInv, Disabled
<1>13. Leaving(s)
  <2>1. s[1] \in Exiting /\ 1 \in 1 .. Len(s)
    BY <1>5, FramesFacts DEF Exiting
  <2>2. \A i \in 1 .. 1 - 1 : s[i] \in Passing
    OBVIOUS
  <2> QED
    BY <2>1, <2>2 DEF Leaving
<1>14. DeadLeaves' /\ HangsOnlyAlone'
  BY <1>1, <1>7, <1>13 DEF DeadLeaves, HangsOnlyAlone
<1> QED
  BY <1>9, <1>10, <1>11, <1>12, <1>14 DEF IInv

\* The window of exit_process: a tick may come between these two.
LEMMA ExitEnableInv ==
  ASSUME IInv, ExitEnable PROVE IInv'
<1>1. ~halted /\ Head(stack[current]) = "exit_enable"
  BY DEF ExitEnable, At
<1>2. PICK n \in Nat : n = preempt_count[current] - 1
  BY <1>1, CurrentFacts DEF Masking
<1>3. preempt_count' = [preempt_count EXCEPT ![current] = n]
  BY <1>2 DEF ExitEnable, preempt_enable
<1>4. /\ UNCHANGED <<current, nr_tasks, state, halted>> /\ clock' \in Nat
      /\ need_resched' \in [Task -> BOOLEAN]
      /\ cfs' \in CfsRq /\ Exact(cfs', current, Live)
  BY <1>1, CurrentFacts DEF ExitEnable, IInv, TypeOK
<1>5. PICK s : s = <<"exit_sched">> \o Tail(stack[current])
  OBVIOUS
<1>6. s \in Seq(Label) /\ Frames(s) /\ Head(s) \notin Masking
  BY <1>1, <1>5, CurrentFacts, GotoFrames DEF Label, Masking
<1>7. state[current] = "dead" => Leaving(s)
  BY <1>1, <1>5, CurrentFacts, GotoLeaving
     DEF IInv, DeadLeaves, Label, Passing, Exiting
<1>8. stack' = [stack EXCEPT ![current] = s]
  BY <1>5 DEF ExitEnable, Goto
<1> QED
  BY <1>1, <1>3, <1>4, <1>6, <1>7, <1>8, StackStep

LEMMA ExitScheduleInv ==
  ASSUME IInv, ExitSchedule PROVE IInv'
<1>1. ~halted /\ Head(stack[current]) = "exit_sched"
  BY DEF ExitSchedule, At
<1>2. PICK n \in Nat : n = preempt_count[current]
  BY CurrentFacts, <1>1
<1>3. preempt_count' = [preempt_count EXCEPT ![current] = n]
  BY <1>2 DEF ExitSchedule, IInv, TypeOK
<1>4. cfs' \in CfsRq /\ Exact(cfs', current, Live)
  <2>1. PICK v \in Nat : v = cfs.se[current].vruntime + cfs.min_vruntime
    BY <1>1, CurrentFacts DEF CfsRq, SchedEntity
  <2>2. PICK e : e = [cfs.se[current] EXCEPT !.vruntime = v]
    OBVIOUS
  <2>3. e \in SchedEntity /\ e.on_rq = cfs.se[current].on_rq
    BY <1>1, <2>2, CurrentFacts DEF CfsRq, SchedEntity
  <2>4. cfs' = [cfs EXCEPT !.se[current] = e]
    BY <2>1, <2>2 DEF ExitSchedule
  <2> QED
    BY <1>1, <2>3, <2>4, CurrentFacts, SetEntity, SameQueueExact
<1>5. /\ UNCHANGED <<current, nr_tasks, state, halted>> /\ clock' \in Nat
      /\ need_resched' \in [Task -> BOOLEAN]
  BY DEF ExitSchedule, IInv, TypeOK
<1>6. PICK s : s = <<"sched", "exited">> \o Tail(stack[current])
  OBVIOUS
<1>7. s \in Seq(Label) /\ Frames(s) /\ Head(s) \notin Masking
  <2>1. stack[current] \in Seq(Label) /\ Frames(stack[current])
    BY <1>1, CurrentFacts
  <2>2. Head(stack[current]) \notin {"run", "tail"}
    BY <1>1
  <2>3. "exited" \in Label \ Masking /\ "sched" \in Label /\ "sched" \notin Masking
    BY DEF Label, Masking
  <2> QED
    BY <1>6, <2>1, <2>2, <2>3, CallFromFrames
<1>8. state[current] = "dead" => Leaving(s)
  BY <1>1, <1>6, CurrentFacts, CallFromLeaving
     DEF IInv, DeadLeaves, Label, Passing, Exiting
<1>9. stack' = [stack EXCEPT ![current] = s]
  BY <1>6 DEF ExitSchedule, CallFrom
<1> QED
  BY <1>1, <1>3, <1>4, <1>5, <1>7, <1>8, <1>9, StackStep

\* Every step keeps the inductive invariant.
LEMMA NextInv == IInv /\ [Next]_vars => IInv'
<1> SUFFICES ASSUME IInv, [Next]_vars PROVE IInv'
  OBVIOUS
<1>1. CASE UNCHANGED vars
  BY <1>1 DEF IInv, vars, TypeOK, Created, Queue, Disabled, DeadLeaves,
              HangsOnlyAlone, Live
<1>2. CASE TickMasked \/ Tick \/ TickDecide \/ TickReturn
  BY <1>2, TickMaskedInv, TickInv, TickDecideInv, TickReturnInv
<1>3. CASE \/ ScheduleEnter \/ ScheduleSwitch \/ SchedulePickNull
           \/ ScheduleNone \/ ScheduleResume \/ ScheduleTail
  BY <1>3, ScheduleEnterInv, ScheduleSwitchInv, SchedulePickNullInv,
     ScheduleNoneInv, ScheduleResumeInv, ScheduleTailInv
<1>4. CASE ForkEnter \/ ForkChild \/ ForkNoPage \/ ForkReturn
  BY <1>4, ForkEnterInv, ForkChildInv, ForkNoPageInv, ForkReturnInv
<1>5. CASE ExitEnter \/ ExitDequeue \/ ExitEnable \/ ExitSchedule
  BY <1>5, ExitEnterInv, ExitDequeueInv, ExitEnableInv, ExitScheduleInv
<1>6. CASE Hang
  BY <1>1, <1>6 DEF Hang
<1> QED
  BY <1>1, <1>2, <1>3, <1>4, <1>5, <1>6 DEF Next

\* IInv holds in every reachable state.
THEOREM Invariant == Spec => []IInv
BY InitInv, NextInv, PTL DEF Spec

-----------------------------------------------------------------------------
(* The properties of SchedulerProps.tla *)

\* Every variable keeps its type: in particular no preempt_enable takes
\* preempt_count below zero, and nr_running never goes below zero.
THEOREM TypeCorrect == Spec => []TypeOK
<1>1. IInv => TypeOK
  BY DEF IInv
<1> QED
  BY <1>1, Invariant, PTL

\* The run queue is exact whenever the kernel runs: see RunqueueExact.
THEOREM RunqueueIsExact == Spec => []RunqueueExact
<1>1. IInv => RunqueueExact
  <2> SUFFICES ASSUME IInv, ~halted PROVE RunqueueExact
    BY DEF RunqueueExact
  <2>1. Exact(cfs, current, Live) /\ Live \in SUBSET Task
    BY CurrentFacts
  <2>2. {t \in Task : cfs.se[t].on_rq} = Live
    BY <2>1 DEF Exact
  <2> QED
    BY <2>1, <2>2 DEF RunqueueExact, Exact, Queued
<1> QED
  BY <1>1, Invariant, PTL

\* The kernel dereferences NULL only when no other task could run.
THEOREM HangsAlone == Spec => []HangsOnlyAlone
<1>1. IInv => HangsOnlyAlone
  BY DEF IInv
<1> QED
  BY <1>1, Invariant, PTL

\* No task that called exit_process is switched to again.
THEOREM DeadTasksStayDown == Spec => DeadStaysDown
<1> DEFINE Down == \A t \in Task :
                     state[t] = "dead" /\ current # t => current' # t
<1>1. IInv /\ Next => Down
  <2> SUFFICES ASSUME IInv, Next, NEW t \in Task, state[t] = "dead",
                      current # t
               PROVE  current' # t
    OBVIOUS
  <2>1. CASE ScheduleSwitch
    <3>1. ~halted /\ current' = cfs'.curr
          /\ cfs.tasks_timeline # << >>
          /\ cfs' \in pick_next_task_fair(cfs, current)
      BY <2>1 DEF ScheduleSwitch, At
    <3>2. current' \in Live
      BY <3>1, CurrentFacts, PickNext
    <3> QED
      BY <3>2 DEF Live
  <2>2. CASE ScheduleNone
    BY <2>2, NoTaskNotTask DEF ScheduleNone
  <2>3. CASE UNCHANGED current
    BY <2>3
  <2>4. ScheduleSwitch \/ ScheduleNone \/ UNCHANGED current
    BY DEF Next, TickMasked, Tick, TickDecide, TickReturn, ScheduleEnter,
           SchedulePickNull, ScheduleResume, ScheduleTail, ForkEnter,
           ForkChild, ForkNoPage, ForkReturn, ExitEnter, ExitDequeue,
           ExitEnable, ExitSchedule, Hang, vars
  <2> QED
    BY <2>1, <2>2, <2>3, <2>4
<1>2. IInv /\ [Next]_vars => [Down]_vars
  BY <1>1
<1> QED
  BY <1>2, Invariant, PTL DEF Spec, DeadStaysDown

\* Only the current task is ever asked to reschedule.
THEOREM OnlyCurrentResched == Spec => []ReschedOnlyCurrent
<1>1. Init => ReschedOnlyCurrent
  BY DEF Init, ReschedOnlyCurrent
<1>2. IInv /\ ReschedOnlyCurrent /\ [Next]_vars => ReschedOnlyCurrent'
  <2> SUFFICES ASSUME IInv, ReschedOnlyCurrent, [Next]_vars,
                      NEW t \in Task, need_resched'[t], ~halted'
               PROVE  t = current'
    BY DEF ReschedOnlyCurrent
  <2>0. need_resched \in [Task -> BOOLEAN]
    BY DEF IInv, TypeOK
  <2>1. CASE UNCHANGED <<need_resched, current, halted>>
    BY <2>1 DEF ReschedOnlyCurrent
  <2>2. CASE Tick
    BY <2>0, <2>2 DEF Tick, ReschedOnlyCurrent
  <2>3. CASE ScheduleSwitch
    BY <2>0, <2>3 DEF ScheduleSwitch, At, ReschedOnlyCurrent
  <2>4. CASE ScheduleNone
    BY <2>4 DEF ScheduleNone
  <2>5. CASE SchedulePickNull
    BY <2>5 DEF SchedulePickNull
  <2>6. CASE ForkChild
    BY <2>0, <2>6 DEF ForkChild, At, ReschedOnlyCurrent
  <2>7. UNCHANGED <<need_resched, current, halted>> \/ Tick \/ ScheduleSwitch
        \/ ScheduleNone \/ SchedulePickNull \/ ForkChild
    BY DEF Next, TickMasked, TickDecide, TickReturn, ScheduleEnter,
           ScheduleResume, ScheduleTail, ForkEnter, ForkNoPage,
           ForkReturn, ExitEnter, ExitDequeue, ExitEnable, ExitSchedule, Hang,
           vars
  <2> QED
    BY <2>1, <2>2, <2>3, <2>4, <2>5, <2>6, <2>7
<1> QED
  BY <1>1, <1>2, Invariant, PTL DEF Spec

-----------------------------------------------------------------------------
(* The scheduler implements TaskSet.tla *)

Dead == {t \in Task : state[t] = "dead"}

\* While the kernel runs, the tasks in the tree are the others that are live.
LEMMA ReadyTasks ==
  ASSUME IInv, ~halted
  PROVE  /\ Queued = Live \ {current}
         /\ Queued \ {current} = Live \ {current}
<1>1. Range(cfs.tasks_timeline) = Live \ {current}
  BY CurrentFacts DEF Exact
<1> QED
  BY <1>1 DEF Queued

LEMMA ReadyTasksNext ==
  ASSUME IInv', ~halted'
  PROVE  (Queued \ {current})' = Live' \ {current'}
<1>1. (Queued \ {current} = Live \ {current})'
  BY ReadyTasks, PTL
<1> QED
  BY <1>1

\* A step in which the queue, the tasks and the processor stay is invisible.
LEMMA InvisibleStep ==
  ASSUME IInv, IInv', UNCHANGED <<current, state, halted>>,
         halted => UNCHANGED cfs
  PROVE  UNCHANGED TS!vars
<1>1. Live' = Live
  BY DEF Live
<1>2. (Queued \ {current})' = Queued \ {current}
  <2>1. CASE halted
    BY <2>1 DEF Queued
  <2>2. CASE ~halted
    <3>1. ~halted'
      BY <2>2
    <3> QED
      BY <1>1, <2>2, <3>1, ReadyTasks, ReadyTasksNext
  <2> QED
    BY <2>1, <2>2
<1> QED
  BY <1>2 DEF TS!vars

\* A step that halts the kernel is one in which no task is ready.
LEMMA HaltingStep ==
  ASSUME IInv, IInv', ~halted, halted', UNCHANGED state,
         cfs'.curr \in {current, NoTask}, current' \in {current, NoTask},
         (Queued \ {current})' \subseteq Live \ {current}
  PROVE  TS!Stop
<1>1. Live' = Live /\ Live \in SUBSET Task
  BY CurrentFacts DEF Live
<1>2. Live \ {NoTask} \subseteq {current}
  BY <1>1 DEF IInv, HangsOnlyAlone
<1>3. Live \subseteq {current}
  BY <1>1, <1>2, NoTaskNotTask
<1>4. Queued \ {current} = {}
  BY <1>3, ReadyTasks
<1>5. (Queued \ {current})' = {}
  BY <1>3
<1>6. Dead' = Dead
  BY DEF Dead
<1> QED
  BY <1>4, <1>5, <1>6 DEF TS!Stop, Dead

\* Every step of the scheduler is one of TaskSet, or invisible to it.
LEMMA StepImplements ==
  ASSUME IInv, IInv', [Next]_vars
  PROVE  [TS!Next]_(TS!vars)
<1>1. CASE UNCHANGED vars
  <2>1. UNCHANGED <<current, state, halted, cfs>>
    BY <1>1 DEF vars
  <2> QED
    BY <2>1, InvisibleStep
<1>2. CASE \/ TickMasked \/ TickDecide \/ TickReturn
           \/ ScheduleEnter \/ ScheduleResume \/ ScheduleTail
           \/ ForkEnter \/ ForkNoPage \/ ForkReturn
           \/ ExitEnter \/ ExitEnable \/ ExitSchedule
  <2>1. UNCHANGED <<current, state, halted>> /\ ~halted
    BY <1>2 DEF TickMasked, TickDecide, TickReturn, ScheduleEnter,
                ScheduleResume, ScheduleTail, ForkEnter, ForkNoPage,
                ForkReturn, ExitEnter, ExitEnable, ExitSchedule, At
  <2> QED
    BY <2>1, InvisibleStep
<1>3. CASE Tick
  <2>1. ~halted /\ UNCHANGED <<current, state>>
    BY <1>3 DEF Tick
  <2>2. CASE ~halted'
    <3>1. UNCHANGED <<current, state, halted>>
      BY <2>1, <2>2 DEF IInv, TypeOK
    <3> QED
      BY <2>1, <3>1, InvisibleStep
  <2>3. CASE halted'
    <3>1. PICK a : a = update_rq_clock(cfs, clock + TICK)
      OBVIOUS
    <3>2. a \in CfsRq /\ a.curr = current
      <4>1. clock \in Nat /\ cfs \in CfsRq
        BY DEF IInv, TypeOK
      <4>2. cfs.curr = current
        BY <2>1, CurrentFacts DEF Exact
      <4> QED
        BY <3>1, <4>1, <4>2 DEF update_rq_clock, CfsRq, TICK
    <3>3. cfs' = update_curr(a) /\ cfs'.tasks_timeline = << >>
      BY <1>3, <2>3, <3>1 DEF Tick
    <3>4. cfs'.curr = current
      BY <3>2, <3>3, UpdateCurrType DEF SameQueue
    <3>5. Queued' = {}
      BY <3>3 DEF Queued, Range
    <3> QED
      BY <2>1, <2>3, <3>4, <3>5, HaltingStep DEF TS!Next
  <2> QED
    BY <2>2, <2>3
<1>4. CASE ScheduleSwitch
  <2>1. /\ ~halted /\ ~halted' /\ UNCHANGED state
        /\ current' = cfs'.curr /\ cfs.tasks_timeline # << >>
        /\ cfs' \in pick_next_task_fair(cfs, current)
    BY <1>4 DEF ScheduleSwitch, At
  <2>2. current' \in Live \ {current}
    BY <2>1, CurrentFacts, PickNext
  <2>3. Live' = Live /\ Dead' = Dead
    BY <2>1 DEF Live, Dead
  <2>4. (Queued \ {current})' = Live \ {current'}
    BY <2>1, <2>3, ReadyTasksNext
  <2>5. Queued \ {current} = Live \ {current}
    BY <2>1, ReadyTasks
  <2>6. current \in Live \/ current \in Dead
    BY <2>1, CurrentFacts DEF Dead
  <2>7. Live \cap Dead = {}
    BY DEF Live, Dead
  <2>8. /\ current' \in Queued \ {current}
        /\ (Queued \ {current})' =
             ((Queued \ {current}) \cup ({current} \ Dead)) \ {current'}
    BY <2>2, <2>4, <2>5, <2>6, <2>7
  <2>9. UNCHANGED <<Dead, halted>>
    BY <2>1, <2>3 DEF IInv, TypeOK
  <2> QED
    BY <2>1, <2>8, <2>9 DEF TS!Next, TS!Dispatch, Dead
<1>5. CASE SchedulePickNull
  <2>1. /\ ~halted /\ halted' /\ UNCHANGED <<current, state>>
        /\ cfs' \in put_prev_entity(cfs, current)
    BY <1>5 DEF SchedulePickNull, At
  <2>2. Exact(cfs', NoTask, Live)
    BY <2>1, CurrentFacts, PutPrev
  <2>3. Queued' \subseteq Live /\ cfs'.curr = NoTask
    BY <2>2 DEF Exact, Queued
  <2> QED
    BY <2>1, <2>3, HaltingStep DEF TS!Next
<1>6. CASE ScheduleNone
  <2>1. ~halted /\ halted' /\ UNCHANGED <<cfs, state>> /\ current' = NoTask
    BY <1>6 DEF ScheduleNone, At
  <2>2. cfs'.curr = current /\ Queued' = Live \ {current}
    BY <2>1, CurrentFacts, ReadyTasks DEF Exact, Queued
  <2> QED
    BY <2>1, <2>2, HaltingStep DEF TS!Next
<1>7. CASE ForkChild
  <2>1. /\ ~halted /\ ~halted' /\ UNCHANGED current
        /\ nr_tasks < NTasks
        /\ state' = [state EXCEPT ![nr_tasks] = "running"]
        /\ Head(stack[current]) = "fork"
    BY <1>7 DEF ForkChild, At
  <2>2. nr_tasks \in Task /\ state[nr_tasks] = "unused"
    BY <2>1, NTasksAssumption DEF IInv, TypeOK, Created, Task
  <2>3. Live' = Live \cup {nr_tasks} /\ Dead' = Dead
    <3>1. state \in [Task -> TaskState]
      BY DEF IInv, TypeOK
    <3> QED
      BY <2>1, <2>2, <3>1 DEF Live, Dead
  <2>4. nr_tasks \notin {current} \cup Live \cup Dead
    BY <2>1, <2>2, CurrentFacts DEF Live, Dead
  <2>5. current \notin Dead
    BY <2>1, CurrentFacts, LeavingHead
       DEF IInv, DeadLeaves, Dead, Exiting, Passing
  <2>6. (Queued \ {current})' = (Live \cup {nr_tasks}) \ {current}
    BY <2>1, <2>3, ReadyTasksNext
  <2>7. Queued \ {current} = Live \ {current}
    BY <2>1, ReadyTasks
  <2>8. /\ nr_tasks \in Task \ ({current} \cup (Queued \ {current}) \cup Dead)
        /\ (Queued \ {current})' = (Queued \ {current}) \cup {nr_tasks}
    BY <2>2, <2>4, <2>6, <2>7
  <2>9. UNCHANGED <<current, Dead, halted>>
    BY <2>1, <2>3 DEF IInv, TypeOK
  <2> QED
    BY <2>1, <2>5, <2>8, <2>9 DEF TS!Next, TS!Create, Dead
<1>8. CASE ExitDequeue
  <2>1. /\ ~halted /\ ~halted' /\ UNCHANGED current
        /\ state' = [state EXCEPT ![current] = "dead"]
        /\ Head(stack[current]) = "exit"
    BY <1>8 DEF ExitDequeue, At
  <2>2. current \in Task /\ state \in [Task -> TaskState]
    BY <2>1, CurrentFacts DEF IInv, TypeOK
  <2>3. Live' = Live \ {current} /\ Dead' = Dead \cup {current}
    BY <2>1, <2>2 DEF Live, Dead
  <2>4. current \notin Dead
    BY <2>1, CurrentFacts, LeavingHead
       DEF IInv, DeadLeaves, Dead, Exiting, Passing
  <2>5. (Queued \ {current})' = Live \ {current}
    BY <2>1, <2>3, ReadyTasksNext
  <2>6. Queued \ {current} = Live \ {current}
    BY <2>1, ReadyTasks
  <2>7. UNCHANGED <<current, Queued \ {current}, halted>>
    BY <2>1, <2>5, <2>6 DEF IInv, TypeOK
  <2> QED
    BY <2>1, <2>3, <2>4, <2>7 DEF TS!Next, TS!End, Dead
<1>9. CASE Hang
  BY <1>1, <1>9 DEF Hang
<1> QED
  BY <1>1, <1>2, <1>3, <1>4, <1>5, <1>6, <1>7, <1>8, <1>9 DEF Next

\* The scheduler handles its tasks as a set, for every number of them: see
\* ImplementsTaskSet.
THEOREM TasksHandledAsSet == Spec => ImplementsTaskSet
<1>1. Init => TS!Init
  <2> SUFFICES ASSUME Init PROVE TS!Init
    OBVIOUS
  <2>1. IInv /\ ~halted /\ current = 0
    BY InitInv DEF Init
  <2>2. Live = {0} /\ Dead = {}
    BY NTasksAssumption DEF Init, Live, Dead, Task
  <2>3. Queued \ {current} = {}
    BY <2>1, <2>2, ReadyTasks
  <2> QED
    BY <2>1, <2>2, <2>3 DEF TS!Init, Dead, Init
<1>2. IInv /\ IInv' /\ [Next]_vars => [TS!Next]_(TS!vars)
  BY StepImplements
<1> QED
  BY <1>1, <1>2, Invariant, PTL DEF Spec, ImplementsTaskSet, TS!Spec

-----------------------------------------------------------------------------
(* Preemption.  What preempt_disable adds, preempt_enable takes back, across *)
(* context switches, forks and nested interrupts; only a copy_process that   *)
(* finds no page leaves a task's count too high, and such a task keeps the   *)
(* processor until it exits; and every request to reschedule is served       *)
(* before a tick returns.                                                    *)

\* The places where a live task may have a count left by a copy_process that
\* failed: outside the scheduler, and in the next copy_process or exit_process.
Loose == {"run", "fork", "fork_enable", "exit"}

\* Everywhere else the count is what the place calls for.  copy_process is
\* called outside the scheduler, and returns there.
Standing(t) ==
  /\ Excess(t) >= 0
  /\ Head(stack[t]) \notin Loose => Excess(t) = 0
  /\ Head(stack[t]) \in {"fork", "fork_enable"} => stack[t][2] = "run"

\* A live task that does not run is parked.
Balanced ==
  ~halted =>
    \A t \in Live :
      /\ Standing(t)
      /\ t # current => Head(stack[t]) \in {"resume", "tail"}

Mask(l) == IF l \in Masking THEN 1 ELSE 0

\* What copy_process adds when it finds no page.
Leak == IF ForkNoPage THEN 1 ELSE 0

\* The property that PreemptBalance states of a step.
ExcessKept ==
  \A t \in Live' :
    Excess(t)' = (IF t \in Live THEN Excess(t) ELSE 0)
                   + (IF ForkNoPage /\ t = current THEN 1 ELSE 0)

-----------------------------------------------------------------------------
(* Steps of the running task *)

LEMMA ExcessFacts ==
  ASSUME IInv, NEW t \in Task, state[t] # "unused"
  PROVE  /\ preempt_count[t] \in Nat /\ Head(stack[t]) \in Label
         /\ Excess(t) = preempt_count[t] - Mask(Head(stack[t]))
         /\ Excess(t) \in Int
<1>1. preempt_count[t] \in Nat /\ stack[t] \in Seq(Label) /\ Frames(stack[t])
  BY DEF IInv, TypeOK, Created
<1>2. Excess(t) = preempt_count[t] - Mask(Head(stack[t]))
  BY DEF Excess, Mask
<1> QED
  BY <1>1, <1>2, FramesFacts DEF Mask

\* A step of the running task that gives it the stack s and the count n.
LEMMA OwnStep ==
  ASSUME IInv, Balanced, ~halted, UNCHANGED <<current, state>>,
         NEW s, stack' = [stack EXCEPT ![current] = s],
         NEW n \in Int, preempt_count' = [preempt_count EXCEPT ![current] = n],
         n - Mask(Head(s)) = Excess(current) + Leak,
         current \in Live =>
           /\ Head(s) \notin Loose => n - Mask(Head(s)) = 0
           /\ Head(s) \in {"fork", "fork_enable"} => s[2] = "run"
  PROVE  Balanced' /\ ExcessKept
<1>1. /\ current \in Task /\ stack'[current] = s /\ preempt_count'[current] = n
      /\ \A t \in Task \ {current} : /\ stack'[t] = stack[t]
                                     /\ preempt_count'[t] = preempt_count[t]
  BY CurrentFacts DEF IInv, TypeOK
<1>2. Live' = Live /\ Live \in SUBSET Task
  BY DEF Live
<1>3. Excess(current)' = n - Mask(Head(s))
  BY <1>1 DEF Excess, Mask
<1>4. \A t \in Live \ {current} : Excess(t)' = Excess(t) /\ Excess(t) \in Int
  <2> TAKE t \in Live \ {current}
  <2>1. Excess(t)' = Excess(t)
    BY <1>1, <1>2 DEF Excess
  <2>2. state[t] # "unused"
    BY DEF Live
  <2> QED
    BY <1>2, <2>1, <2>2, ExcessFacts
<1>5. Leak \in {0, 1} /\ Leak >= 0 /\ Excess(current) \in Int
  BY <1>1, CurrentFacts, ExcessFacts DEF Leak
<1>6. ExcessKept
  <2> SUFFICES ASSUME NEW t \in Live'
               PROVE  Excess(t)' = (IF t \in Live THEN Excess(t) ELSE 0)
                        + (IF ForkNoPage /\ t = current THEN 1 ELSE 0)
    BY DEF ExcessKept
  <2>1. CASE t = current
    BY <1>2, <1>3, <1>5, <2>1 DEF Leak
  <2>2. CASE t # current
    BY <1>2, <1>4, <2>2
  <2> QED
    BY <2>1, <2>2
<1>7. Balanced'
  <2> SUFFICES ASSUME NEW t \in Live'
               PROVE  /\ Standing(t)'
                      /\ t # current' => Head(stack'[t]) \in {"resume", "tail"}
    BY DEF Balanced
  <2>1. Standing(t)
    BY <1>2 DEF Balanced
  <2>2. CASE t = current
    <3>1. n - Mask(Head(s)) >= 0
      BY <1>5, <2>1, <2>2 DEF Standing
    <3> QED
      BY <1>1, <1>2, <1>3, <2>2, <3>1 DEF Standing
  <2>3. CASE t # current
    BY <1>1, <1>2, <1>4, <2>1, <2>3 DEF Standing, Balanced
  <2> QED
    BY <2>2, <2>3
<1> QED
  BY <1>6, <1>7

\* A step that leaves stacks and counts alone.
LEMMA StillStep ==
  ASSUME IInv, Balanced, UNCHANGED <<stack, preempt_count, state>>,
         ~ForkNoPage, ~halted' => ~halted /\ current' = current
  PROVE  Balanced' /\ ExcessKept
<1>1. Live' = Live /\ Live \in SUBSET Task
  BY DEF Live
<1>2. \A t \in Live : Excess(t)' = Excess(t) /\ Excess(t) \in Int
  <2> TAKE t \in Live
  <2>1. t \in Task /\ state[t] # "unused"
    BY <1>1 DEF Live
  <2> QED
    BY <2>1, ExcessFacts DEF Excess
<1>3. ExcessKept
  BY <1>1, <1>2 DEF ExcessKept
<1>4. Balanced'
  BY <1>1, <1>2 DEF Balanced, Standing
<1> QED
  BY <1>3, <1>4

\* The running task's stack, count and excess.
LEMMA RunningFacts ==
  ASSUME IInv, ~halted
  PROVE  /\ current \in Task
         /\ stack[current] \in Seq(Label) /\ Frames(stack[current])
         /\ stack[current] # << >>
         /\ preempt_count[current] \in Nat
         /\ Excess(current) = preempt_count[current]
                                - Mask(Head(stack[current]))
         /\ current \in Live => (Balanced => Standing(current))
BY CurrentFacts, ExcessFacts, FramesFacts DEF Balanced

\* No other step is taken for a copy_process without a page.
LEMMA NotForkNoPage ==
  ASSUME IInv, Head(stack[current]) # "fork" \/ halted \/ clock' # clock
                 \/ nr_tasks' # nr_tasks
  PROVE  ~ForkNoPage /\ Leak = 0
BY DEF ForkNoPage, At, Leak

\* A tick in a section that disables preemption.
LEMMA TickMaskedBalance ==
  ASSUME IInv, Balanced, TickMasked PROVE Balanced' /\ ExcessKept
<1>1. clock' # clock
  BY DEF TickMasked, IInv, TypeOK, TICK
<1>2. /\ ~halted /\ UNCHANGED <<stack, preempt_count, state, current, halted>>
  BY DEF TickMasked
<1> QED
  BY <1>1, <1>2, NotForkNoPage, StillStep

\* A tick outside, where the count is 0.
LEMMA TickBalance ==
  ASSUME IInv, Balanced, Tick PROVE Balanced' /\ ExcessKept
<1>1. clock' # clock /\ ~halted
  BY DEF Tick, IInv, TypeOK, TICK
<1>2. /\ UNCHANGED <<current, nr_tasks, preempt_count, state>>
      /\ preempt_count[current] = 0
  BY DEF Tick
<1>3. ~ForkNoPage /\ Leak = 0
  BY <1>1, NotForkNoPage
<1>4. CASE halted'
  <2>1. UNCHANGED stack
    BY <1>4 DEF Tick
  <2> QED
    BY <1>2, <1>3, <1>4, <2>1, StillStep
<1>5. CASE ~halted'
  <2>1. PICK s : s = <<"tick">> \o stack[current]
    OBVIOUS
  <2>2. stack' = [stack EXCEPT ![current] = s]
    BY <1>5, <2>1 DEF Tick, Call
  <2>3. Head(s) = "tick"
    BY <1>1, <2>1, RunningFacts, PushFacts DEF Label
  <2>4. Excess(current) = 0
    BY <1>1, <1>2, CurrentFacts, RunningFacts DEF Mask
  <2>5. preempt_count' = [preempt_count EXCEPT ![current] = 0]
    BY <1>2 DEF IInv, TypeOK
  <2>6. Mask(Head(s)) = 0 /\ 0 \in Int
    <3>1. Mask("tick") = 0
      BY DEF Mask, Masking
    <3> QED
      BY <2>3, <3>1
  <2>7. /\ 0 - Mask(Head(s)) = Excess(current) + Leak
        /\ 0 - Mask(Head(s)) = 0
    BY <1>3, <2>4, <2>6
  <2>8. Head(s) \notin {"fork", "fork_enable"}
    BY <2>3
  <2> QED
    BY <1>1, <1>2, <2>2, <2>5, <2>6, <2>7, <2>8, OwnStep
<1> QED
  BY <1>4, <1>5

\* The frame under the innermost one.
LEMMA SecondFrame ==
  ASSUME NEW s \in Seq(Label), Frames(s), Head(s) \notin {"run", "tail"}
  PROVE  Tail(s) # << >> /\ Head(Tail(s)) = Tail(s)[1] /\ Tail(s)[1] = s[2]
<1>1. PICK r : r = Tail(s)
  OBVIOUS
<1>2. r \in Seq(Label) /\ Frames(r)
  BY <1>1, ReturnFrames
<1>3. Len(s) >= 2 /\ Len(s) \in Nat /\ s # << >>
  BY FramesFacts
<1>4. r[1] = s[1 + 1]
  BY <1>1, <1>3, PopFacts
<1>5. r # << >> /\ Head(r) = r[1]
  BY <1>2, FramesFacts
<1> QED
  BY <1>1, <1>4, <1>5

LEMMA SecondPushed ==
  ASSUME NEW s \in Seq(Label), Frames(s), NEW l \in Label
  PROVE  Head(<<l>> \o s) = l /\ (<<l>> \o s)[2] = Head(s)
<1>1. 1 \in 1 .. Len(s) /\ Head(s) = s[1]
  BY FramesFacts
<1>2. Head(<<l>> \o s) = l /\ (<<l>> \o s)[1 + 1] = s[1]
  BY <1>1, PushFacts
<1> QED
  BY <1>1, <1>2

\* The end of timer_tick.
LEMMA TickReturnBalance ==
  ASSUME IInv, Balanced, TickReturn PROVE Balanced' /\ ExcessKept
<1>1. /\ ~halted /\ Head(stack[current]) = "tick_end"
      /\ UNCHANGED <<current, state>>
  BY DEF TickReturn, At
<1>2. PICK n \in Int : n = preempt_count[current]
  BY <1>1, RunningFacts
<1>3. preempt_count' = [preempt_count EXCEPT ![current] = n]
  BY <1>1, <1>2, RunningFacts DEF TickReturn, IInv, TypeOK
<1>4. PICK s : s = Tail(stack[current])
  OBVIOUS
<1>5. stack' = [stack EXCEPT ![current] = s]
  BY <1>4 DEF TickReturn, Return
<1>6. Head(s) \notin Masking
  BY <1>1, <1>4, RunningFacts, ReturnFrames
<1>7. n - Mask(Head(s)) = Excess(current) + Leak
  BY <1>1, <1>2, <1>6, RunningFacts, NotForkNoPage DEF Mask, Masking
<1>8. current \in Live => n - Mask(Head(s)) = 0
  BY <1>1, <1>2, <1>6, RunningFacts DEF Standing, Loose, Mask, Masking
<1>9. Head(s) \notin {"fork", "fork_enable"}
  BY <1>6 DEF Masking
<1> QED
  BY <1>1, <1>3, <1>5, <1>7, <1>8, <1>9, OwnStep

\* _schedule disables preemption.
LEMMA ScheduleEnterBalance ==
  ASSUME IInv, Balanced, ScheduleEnter PROVE Balanced' /\ ExcessKept
<1>1. /\ ~halted /\ Head(stack[current]) = "sched"
      /\ UNCHANGED <<current, state>>
  BY DEF ScheduleEnter, At
<1>2. PICK n \in Int : n = preempt_count[current] + 1
  BY <1>1, RunningFacts
<1>3. preempt_count' = [preempt_count EXCEPT ![current] = n]
  BY <1>2 DEF ScheduleEnter, preempt_disable
<1>4. PICK s : s = <<"pick">> \o Tail(stack[current])
  OBVIOUS
<1>5. stack' = [stack EXCEPT ![current] = s]
  BY <1>4 DEF ScheduleEnter, Goto
<1>6. Head(s) = "pick"
  BY <1>1, <1>4, RunningFacts, ReplaceFacts DEF Label
<1>7. n - Mask(Head(s)) = Excess(current) + Leak
  BY <1>1, <1>2, <1>6, RunningFacts, NotForkNoPage DEF Mask, Masking
<1>8. current \in Live => n - Mask(Head(s)) = 0
  <2>1. current \in Live => Excess(current) = 0
    BY <1>1, RunningFacts DEF Standing, Loose
  <2> QED
    BY <1>1, <1>7, <2>1, NotForkNoPage
<1>9. Head(s) \notin {"fork", "fork_enable"}
  BY <1>6
<1> QED
  BY <1>1, <1>3, <1>5, <1>7, <1>8, <1>9, OwnStep

\* The task that is switched in again enables it.
LEMMA ScheduleResumeBalance ==
  ASSUME IInv, Balanced, ScheduleResume PROVE Balanced' /\ ExcessKept
<1>1. /\ ~halted /\ Head(stack[current]) = "resume"
      /\ UNCHANGED <<current, state>>
  BY DEF ScheduleResume, At
<1>2. PICK n \in Int : n = preempt_count[current] - 1
  BY <1>1, RunningFacts
<1>3. preempt_count' = [preempt_count EXCEPT ![current] = n]
  BY <1>2 DEF ScheduleResume, preempt_enable
<1>4. PICK s : s = Tail(stack[current])
  OBVIOUS
<1>5. stack' = [stack EXCEPT ![current] = s]
  BY <1>4 DEF ScheduleResume, Return
<1>6. Head(s) \notin Masking
  BY <1>1, <1>4, RunningFacts, ReturnFrames
<1>7. n - Mask(Head(s)) = Excess(current) + Leak
  BY <1>1, <1>2, <1>6, RunningFacts, NotForkNoPage DEF Mask, Masking
<1>8. current \in Live => n - Mask(Head(s)) = 0
  BY <1>1, <1>2, <1>6, RunningFacts DEF Standing, Loose, Mask, Masking
<1>9. Head(s) \notin {"fork", "fork_enable"}
  BY <1>6 DEF Masking
<1> QED
  BY <1>1, <1>3, <1>5, <1>7, <1>8, <1>9, OwnStep

\* copy_process finds no page: the one step that leaks.
LEMMA ForkNoPageBalance ==
  ASSUME IInv, Balanced, ForkNoPage PROVE Balanced' /\ ExcessKept
<1>1. /\ ~halted /\ Head(stack[current]) = "fork"
      /\ UNCHANGED <<current, state>>
  BY DEF ForkNoPage, At
<1>2. PICK n \in Int : n = preempt_count[current]
  BY <1>1, RunningFacts
<1>3. preempt_count' = [preempt_count EXCEPT ![current] = n]
  BY <1>1, <1>2, RunningFacts DEF ForkNoPage, IInv, TypeOK
<1>4. PICK s : s = Tail(stack[current])
  OBVIOUS
<1>5. stack' = [stack EXCEPT ![current] = s]
  BY <1>4 DEF ForkNoPage, Return
<1>6. Head(s) \notin Masking
  BY <1>1, <1>4, RunningFacts, ReturnFrames
<1>7. n - Mask(Head(s)) = Excess(current) + Leak
  BY <1>1, <1>2, <1>6, RunningFacts DEF Mask, Masking, Leak
<1>8. current \in Live => Head(s) = "run"
  <2>1. current \in Live => stack[current][2] = "run"
    BY <1>1, RunningFacts DEF Standing
  <2>2. s # << >> /\ Head(s) = s[1] /\ s[1] = stack[current][2]
    BY <1>1, <1>4, RunningFacts, SecondFrame
  <2> QED
    BY <2>1, <2>2
<1>9. current \in Live => /\ Head(s) \in Loose
                         /\ Head(s) \notin {"fork", "fork_enable"}
  BY <1>8 DEF Loose
<1> QED
  BY <1>1, <1>3, <1>5, <1>7, <1>8, <1>9, OwnStep

\* copy_process enables preemption and returns.
LEMMA ForkReturnBalance ==
  ASSUME IInv, Balanced, ForkReturn PROVE Balanced' /\ ExcessKept
<1>1. /\ ~halted /\ Head(stack[current]) = "fork_enable"
      /\ UNCHANGED <<current, state>>
  BY DEF ForkReturn, At
<1>2. PICK n \in Int : n = preempt_count[current] - 1
  BY <1>1, RunningFacts
<1>3. preempt_count' = [preempt_count EXCEPT ![current] = n]
  BY <1>2 DEF ForkReturn, preempt_enable
<1>4. PICK s : s = Tail(stack[current])
  OBVIOUS
<1>5. stack' = [stack EXCEPT ![current] = s]
  BY <1>4 DEF ForkReturn, Return
<1>6. Head(s) \notin Masking
  BY <1>1, <1>4, RunningFacts, ReturnFrames
<1>7. n - Mask(Head(s)) = Excess(current) + Leak
  BY <1>1, <1>2, <1>6, RunningFacts, NotForkNoPage DEF Mask, Masking
<1>8. current \in Live => Head(s) = "run"
  <2>1. current \in Live => stack[current][2] = "run"
    BY <1>1, RunningFacts DEF Standing
  <2>2. s # << >> /\ Head(s) = s[1] /\ s[1] = stack[current][2]
    BY <1>1, <1>4, RunningFacts, SecondFrame
  <2> QED
    BY <2>1, <2>2
<1>9. current \in Live => /\ Head(s) \in Loose
                         /\ Head(s) \notin {"fork", "fork_enable"}
  BY <1>8 DEF Loose
<1> QED
  BY <1>1, <1>3, <1>5, <1>7, <1>8, <1>9, OwnStep

\* copy_process disables preemption.
LEMMA ForkEnterBalance ==
  ASSUME IInv, Balanced, ForkEnter PROVE Balanced' /\ ExcessKept
<1>1. /\ ~halted /\ Head(stack[current]) = "run"
      /\ UNCHANGED <<current, state>>
  BY DEF ForkEnter, At
<1>2. PICK n \in Int : n = preempt_count[current] + 1
  BY <1>1, RunningFacts
<1>3. preempt_count' = [preempt_count EXCEPT ![current] = n]
  BY <1>2 DEF ForkEnter, preempt_disable
<1>4. PICK s : s = <<"fork">> \o stack[current]
  OBVIOUS
<1>5. stack' = [stack EXCEPT ![current] = s]
  BY <1>4 DEF ForkEnter, Call
<1>6. Head(s) = "fork" /\ s[2] = "run"
  BY <1>1, <1>4, RunningFacts, SecondPushed DEF Label
<1>7. n - Mask(Head(s)) = Excess(current) + Leak
  BY <1>1, <1>2, <1>6, RunningFacts, NotForkNoPage DEF Mask, Masking
<1>8. Head(s) \in Loose
  BY <1>6 DEF Loose
<1> QED
  BY <1>1, <1>3, <1>5, <1>6, <1>7, <1>8, OwnStep

\* So does exit_process.
LEMMA ExitEnterBalance ==
  ASSUME IInv, Balanced, ExitEnter PROVE Balanced' /\ ExcessKept
<1>1. /\ ~halted /\ Head(stack[current]) = "run"
      /\ UNCHANGED <<current, state>>
  BY DEF ExitEnter, At
<1>2. PICK n \in Int : n = preempt_count[current] + 1
  BY <1>1, RunningFacts
<1>3. preempt_count' = [preempt_count EXCEPT ![current] = n]
  BY <1>2 DEF ExitEnter, preempt_disable
<1>4. PICK s : s = <<"exit">> \o stack[current]
  OBVIOUS
<1>5. stack' = [stack EXCEPT ![current] = s]
  BY <1>4 DEF ExitEnter, Call
<1>6. Head(s) = "exit" /\ s[2] = "run"
  BY <1>1, <1>4, RunningFacts, SecondPushed DEF Label
<1>7. n - Mask(Head(s)) = Excess(current) + Leak
  BY <1>1, <1>2, <1>6, RunningFacts, NotForkNoPage DEF Mask, Masking
<1>8. Head(s) \in Loose
  BY <1>6 DEF Loose
<1> QED
  BY <1>1, <1>3, <1>5, <1>6, <1>7, <1>8, OwnStep

\* exit_process enables it again.
LEMMA ExitEnableBalance ==
  ASSUME IInv, Balanced, ExitEnable PROVE Balanced' /\ ExcessKept
<1>1. /\ ~halted /\ Head(stack[current]) = "exit_enable"
      /\ UNCHANGED <<current, state>>
  BY DEF ExitEnable, At
<1>2. PICK n \in Int : n = preempt_count[current] - 1
  BY <1>1, RunningFacts
<1>3. preempt_count' = [preempt_count EXCEPT ![current] = n]
  BY <1>2 DEF ExitEnable, preempt_enable
<1>4. PICK s : s = <<"exit_sched">> \o Tail(stack[current])
  OBVIOUS
<1>5. stack' = [stack EXCEPT ![current] = s]
  BY <1>4 DEF ExitEnable, Goto
<1>6. Head(s) = "exit_sched"
  BY <1>1, <1>4, RunningFacts, ReplaceFacts DEF Label
<1>7. n - Mask(Head(s)) = Excess(current) + Leak
  BY <1>1, <1>2, <1>6, RunningFacts, NotForkNoPage DEF Mask, Masking
<1>8. current \in Live => n - Mask(Head(s)) = 0
  BY <1>1, <1>2, <1>6, RunningFacts DEF Standing, Loose, Mask, Masking
<1>9. Head(s) \notin {"fork", "fork_enable"}
  BY <1>6
<1> QED
  BY <1>1, <1>3, <1>5, <1>7, <1>8, <1>9, OwnStep

\* timer_tick acts on a request or does not.
LEMMA TickDecideBalance ==
  ASSUME IInv, Balanced, TickDecide PROVE Balanced' /\ ExcessKept
<1>1. /\ ~halted /\ Head(stack[current]) = "tick"
      /\ UNCHANGED <<current, state>>
  BY DEF TickDecide, At
<1>2. PICK n \in Int : n = preempt_count[current]
  BY <1>1, RunningFacts
<1>3. preempt_count' = [preempt_count EXCEPT ![current] = n]
  BY <1>1, <1>2, RunningFacts DEF TickDecide, IInv, TypeOK
<1>4. PICK s : s = IF need_resched[current]
                   THEN <<"sched", "tick_end">> \o Tail(stack[current])
                   ELSE <<"tick_end">> \o Tail(stack[current])
  OBVIOUS
<1>5. stack' = [stack EXCEPT ![current] = s]
  BY <1>4 DEF TickDecide, CallFrom, Goto
<1>6. Head(s) \in {"sched", "tick_end"}
  BY <1>1, <1>4, RunningFacts, ReplaceFacts, ReplacePushFacts DEF Label
<1>7. n - Mask(Head(s)) = Excess(current) + Leak
  BY <1>1, <1>2, <1>6, RunningFacts, NotForkNoPage DEF Mask, Masking
<1>8. current \in Live => n - Mask(Head(s)) = 0
  <2>1. current \in Live => Excess(current) = 0
    BY <1>1, RunningFacts DEF Standing, Loose
  <2> QED
    BY <1>1, <1>7, <2>1, NotForkNoPage
<1>9. Head(s) \notin {"fork", "fork_enable"}
  BY <1>6
<1> QED
  BY <1>1, <1>3, <1>5, <1>7, <1>8, <1>9, OwnStep

\* exit_process calls schedule().
LEMMA ExitScheduleBalance ==
  ASSUME IInv, Balanced, ExitSchedule PROVE Balanced' /\ ExcessKept
<1>1. /\ ~halted /\ Head(stack[current]) = "exit_sched"
      /\ UNCHANGED <<current, state>>
  BY DEF ExitSchedule, At
<1>2. PICK n \in Int : n = preempt_count[current]
  BY <1>1, RunningFacts
<1>3. preempt_count' = [preempt_count EXCEPT ![current] = n]
  BY <1>1, <1>2, RunningFacts DEF ExitSchedule, IInv, TypeOK
<1>4. PICK s : s = <<"sched", "exited">> \o Tail(stack[current])
  OBVIOUS
<1>5. stack' = [stack EXCEPT ![current] = s]
  BY <1>4 DEF ExitSchedule, CallFrom
<1>6. Head(s) = "sched"
  BY <1>1, <1>4, RunningFacts, ReplacePushFacts DEF Label
<1>7. n - Mask(Head(s)) = Excess(current) + Leak
  BY <1>1, <1>2, <1>6, RunningFacts, NotForkNoPage DEF Mask, Masking
<1>8. current \in Live => n - Mask(Head(s)) = 0
  <2>1. current \in Live => Excess(current) = 0
    BY <1>1, RunningFacts DEF Standing, Loose
  <2> QED
    BY <1>1, <1>7, <2>1, NotForkNoPage
<1>9. Head(s) \notin {"fork", "fork_enable"}
  BY <1>6
<1> QED
  BY <1>1, <1>3, <1>5, <1>7, <1>8, <1>9, OwnStep

\* The first switch to a new task ends in schedule_tail.
LEMMA ScheduleTailBalance ==
  ASSUME IInv, Balanced, ScheduleTail PROVE Balanced' /\ ExcessKept
<1>1. /\ ~halted /\ Head(stack[current]) = "tail"
      /\ UNCHANGED <<current, state>>
  BY DEF ScheduleTail, At
<1>2. PICK n \in Int : n = preempt_count[current] - 1
  BY <1>1, RunningFacts
<1>3. preempt_count' = [preempt_count EXCEPT ![current] = n]
  BY <1>2 DEF ScheduleTail, preempt_enable
<1>4. PICK s : s = <<"run">> \o Tail(stack[current])
  OBVIOUS
<1>5. stack' = [stack EXCEPT ![current] = s]
  BY <1>4 DEF ScheduleTail, Goto
<1>6. Head(s) = "run"
  BY <1>1, <1>4, RunningFacts, ReplaceFacts DEF Label
<1>7. n - Mask(Head(s)) = Excess(current) + Leak
  BY <1>1, <1>2, <1>6, RunningFacts, NotForkNoPage DEF Mask, Masking
<1>8. Head(s) \in Loose
  BY <1>6 DEF Loose
<1>9. Head(s) \notin {"fork", "fork_enable"}
  BY <1>6
<1> QED
  BY <1>1, <1>3, <1>5, <1>7, <1>8, <1>9, OwnStep

-----------------------------------------------------------------------------
(* Steps that change the tasks or the processor *)

\* exit_process takes the running task from the live ones.
LEMMA ExitDequeueBalance ==
  ASSUME IInv, Balanced, ExitDequeue PROVE Balanced' /\ ExcessKept
<1>1. /\ ~halted /\ Head(stack[current]) = "exit"
      /\ UNCHANGED <<current, preempt_count, halted>>
      /\ state' = [state EXCEPT ![current] = "dead"]
  BY DEF ExitDequeue, At
<1>2. \A t \in Task \ {current} : stack'[t] = stack[t] /\ state'[t] = state[t]
  BY <1>1, RunningFacts DEF ExitDequeue, Goto, IInv, TypeOK
<1>3. Live' \subseteq Live \ {current} /\ Live \in SUBSET Task
  BY <1>1, <1>2, RunningFacts DEF Live, IInv, TypeOK
<1>4. ~ForkNoPage
  BY <1>1, NotForkNoPage
<1>5. \A t \in Live' : Excess(t)' = Excess(t) /\ Excess(t) \in Int
  <2> TAKE t \in Live'
  <2>1. t \in Task /\ t # current /\ state[t] # "unused"
    BY <1>3 DEF Live
  <2> QED
    BY <1>1, <1>2, <2>1, ExcessFacts DEF Excess
<1>6. ExcessKept
  BY <1>3, <1>4, <1>5 DEF ExcessKept
<1>7. Balanced'
  BY <1>1, <1>2, <1>3, <1>5 DEF Balanced, Standing
<1> QED
  BY <1>6, <1>7

\* copy_process adds a task, whose count is 1 before its schedule_tail.
LEMMA ForkChildBalance ==
  ASSUME IInv, Balanced, ForkChild PROVE Balanced' /\ ExcessKept
<1>1. /\ ~halted /\ Head(stack[current]) = "fork" /\ nr_tasks < NTasks
      /\ UNCHANGED <<current, halted>>
      /\ nr_tasks' = nr_tasks + 1
      /\ state' = [state EXCEPT ![nr_tasks] = "running"]
      /\ preempt_count' = [preempt_count EXCEPT ![nr_tasks] = 1]
      /\ stack' = [Goto("fork_enable") EXCEPT ![nr_tasks] = <<"tail">>]
  BY DEF ForkChild, At
<1>2. nr_tasks \in Task /\ nr_tasks \in Nat
  BY <1>1, NTasksAssumption DEF IInv, TypeOK, Task
<1>3. /\ state[nr_tasks] = "unused" /\ nr_tasks \notin Live
      /\ nr_tasks # current
  BY <1>1, <1>2, CurrentFacts DEF IInv, Created, Live
<1>4. PICK s : s = <<"fork_enable">> \o Tail(stack[current])
  OBVIOUS
<1>5. /\ stack'[current] = s /\ stack'[nr_tasks] = <<"tail">>
      /\ \A t \in Task \ {current, nr_tasks} : stack'[t] = stack[t]
  BY <1>1, <1>2, <1>3, <1>4, RunningFacts DEF Goto, IInv, TypeOK
<1>6. /\ state'[nr_tasks] = "running" /\ preempt_count'[nr_tasks] = 1
      /\ \A t \in Task \ {nr_tasks} : /\ state'[t] = state[t]
                                      /\ preempt_count'[t] = preempt_count[t]
  BY <1>1, <1>2 DEF IInv, TypeOK
<1>7. Live' = Live \cup {nr_tasks} /\ Live \in SUBSET Task
  BY <1>2, <1>6 DEF Live
<1>8. ~ForkNoPage
  BY <1>1, <1>2, NotForkNoPage
<1>9. Head(s) = "fork_enable"
  BY <1>1, <1>4, RunningFacts, ReplaceFacts DEF Label
<1>10. s[2] = stack[current][2]
  <2>1. 2 \in 2 .. Len(stack[current])
    BY <1>1, RunningFacts, FramesFacts
  <2>2. "fork_enable" \in Label
    BY DEF Label
  <2> QED
    BY <1>1, <1>4, <2>1, <2>2, RunningFacts, ReplaceFacts
<1>11. PICK child \in Task : child = nr_tasks
  BY <1>2
<1>12. Excess(child)' = 0
  <2>1. stack'[child] = <<"tail">> /\ preempt_count'[child] = 1
    BY <1>5, <1>6, <1>11
  <2> QED
    BY <2>1 DEF Excess, Masking
<1>13. Excess(current)' = Excess(current)
  BY <1>1, <1>3, <1>5, <1>6, <1>9, RunningFacts DEF Excess, Masking
<1>14. \A t \in Live : Excess(t)' = Excess(t) /\ Excess(t) \in Int
  <2> TAKE t \in Live
  <2>1. t \in Task /\ t # nr_tasks /\ state[t] # "unused"
    BY <1>3, <1>7 DEF Live
  <2>2. Excess(t) \in Int
    BY <2>1, ExcessFacts
  <2>3. t # current => Excess(t)' = Excess(t)
    BY <1>5, <1>6, <2>1 DEF Excess
  <2> QED
    <3>1. CASE t = current
      BY <1>1, <1>13, <2>2, <3>1
    <3> QED
      BY <2>2, <2>3, <3>1
<1>15. ExcessKept
  BY <1>3, <1>7, <1>8, <1>11, <1>12, <1>14 DEF ExcessKept
<1>16. Balanced'
  <2> SUFFICES ASSUME NEW t \in Live'
               PROVE  /\ Standing(t)'
                      /\ t # current' => Head(stack'[t]) \in {"resume", "tail"}
    BY DEF Balanced
  <2>1. CASE t = child
    BY <1>5, <1>11, <1>12, <2>1 DEF Standing
  <2>2. CASE t = current
    <3>1. Standing(current) /\ current \in Live
      BY <1>1, <1>3, <1>7, <2>2, RunningFacts
    <3> QED
      BY <1>1, <1>5, <1>9, <1>10, <1>13, <2>2, <3>1 DEF Standing, Loose
  <2>3. CASE t # child /\ t # current
    <3>1. /\ t \in Live /\ Standing(t)
          /\ Head(stack[t]) \in {"resume", "tail"}
      BY <1>1, <1>7, <1>11, <2>3 DEF Balanced
    <3> QED
      BY <1>1, <1>5, <1>7, <1>11, <1>14, <2>3, <3>1 DEF Standing
  <2> QED
    BY <2>1, <2>2, <2>3
<1> QED
  BY <1>15, <1>16

\* The switch parks the running task.
LEMMA ScheduleSwitchBalance ==
  ASSUME IInv, Balanced, ScheduleSwitch PROVE Balanced' /\ ExcessKept
<1>1. /\ ~halted /\ Head(stack[current]) = "pick"
      /\ UNCHANGED <<preempt_count, state, halted>>
  BY DEF ScheduleSwitch, At
<1>2. PICK s : s = <<"resume">> \o Tail(stack[current])
  OBVIOUS
<1>3. /\ stack'[current] = s
      /\ \A t \in Task \ {current} : stack'[t] = stack[t]
  BY <1>1, <1>2, RunningFacts DEF ScheduleSwitch, Goto, IInv, TypeOK
<1>4. Head(s) = "resume"
  BY <1>1, <1>2, RunningFacts, ReplaceFacts DEF Label
<1>5. Live' = Live /\ Live \in SUBSET Task
  BY <1>1 DEF Live
<1>6. ~ForkNoPage
  BY <1>1, NotForkNoPage
<1>7. \A t \in Live : Excess(t)' = Excess(t) /\ Excess(t) \in Int
  <2> TAKE t \in Live
  <2>1. t \in Task /\ state[t] # "unused"
    BY <1>5 DEF Live
  <2>2. Excess(t) \in Int
    BY <2>1, ExcessFacts
  <2>3. t # current => Excess(t)' = Excess(t)
    BY <1>1, <1>3, <2>1 DEF Excess
  <2>4. CASE t = current
    <3>1. /\ stack'[t] = s /\ Head(stack[t]) = "pick"
          /\ preempt_count'[t] = preempt_count[t]
      BY <1>1, <1>3, <2>4
    <3> QED
      BY <1>4, <2>2, <3>1 DEF Excess, Masking
  <2> QED
    BY <2>2, <2>3, <2>4
<1>8. ExcessKept
  BY <1>5, <1>6, <1>7 DEF ExcessKept
<1>9. Balanced'
  <2> SUFFICES ASSUME NEW t \in Live'
               PROVE  /\ Standing(t)'
                      /\ t # current' => Head(stack'[t]) \in {"resume", "tail"}
    BY DEF Balanced
  <2>1. Standing(t) /\ (t # current => Head(stack[t]) \in {"resume", "tail"})
    BY <1>1, <1>5 DEF Balanced
  <2>2. CASE t = current
    <3>1. Excess(t) = 0
      BY <1>1, <2>1, <2>2 DEF Standing, Loose
    <3> QED
      BY <1>3, <1>4, <1>5, <1>7, <2>2, <3>1 DEF Standing
  <2>3. CASE t # current
    BY <1>3, <1>5, <1>7, <2>1, <2>3 DEF Standing
  <2> QED
    BY <2>2, <2>3
<1> QED
  BY <1>8, <1>9

\* Steps into and in err_hang.
LEMMA HangingBalance ==
  ASSUME IInv, Balanced, SchedulePickNull \/ ScheduleNone \/ Hang
  PROVE  Balanced' /\ ExcessKept
<1>1. ~ForkNoPage
  BY NotForkNoPage DEF SchedulePickNull, ScheduleNone, Hang, At
<1>2. UNCHANGED <<stack, preempt_count, state>> /\ halted'
  BY DEF SchedulePickNull, ScheduleNone, Hang, vars
<1> QED
  BY <1>1, <1>2, StillStep

-----------------------------------------------------------------------------
LEMMA InitBalanced == Init => Balanced
<1> SUFFICES ASSUME Init PROVE Balanced
  OBVIOUS
<1>1. 0 \in Task
  BY NTasksAssumption DEF Task
<1>2. /\ current = 0 /\ Live = {0} /\ stack[0] = <<"run">>
      /\ preempt_count[0] = 0
  BY <1>1 DEF Init, Live
<1>3. Head(stack[0]) = "run" /\ "run" \notin Masking
  BY <1>2 DEF Masking
<1>4. Excess(0) = 0
  <2>1. (IF Head(stack[0]) \in Masking THEN 1 ELSE 0) = 0
    BY <1>3
  <2>2. Excess(0) = 0 - 0
    BY <1>2, <2>1 DEF Excess
  <2> QED
    BY <2>2
<1> QED
  BY <1>2, <1>3, <1>4 DEF Balanced, Standing, Loose

LEMMA NextBalanced == IInv /\ Balanced /\ Next => Balanced' /\ ExcessKept
<1> SUFFICES ASSUME IInv, Balanced, Next PROVE Balanced' /\ ExcessKept
  OBVIOUS
<1>1. CASE TickMasked \/ Tick \/ TickDecide \/ TickReturn
  BY <1>1, TickMaskedBalance, TickBalance, TickDecideBalance,
     TickReturnBalance
<1>2. CASE \/ ScheduleEnter \/ ScheduleSwitch \/ ScheduleResume
           \/ ScheduleTail
  BY <1>2, ScheduleEnterBalance, ScheduleSwitchBalance,
     ScheduleResumeBalance, ScheduleTailBalance
<1>3. CASE ForkEnter \/ ForkChild \/ ForkNoPage \/ ForkReturn
  BY <1>3, ForkEnterBalance, ForkChildBalance, ForkNoPageBalance,
     ForkReturnBalance
<1>4. CASE ExitEnter \/ ExitDequeue \/ ExitEnable \/ ExitSchedule
  BY <1>4, ExitEnterBalance, ExitDequeueBalance, ExitEnableBalance,
     ExitScheduleBalance
<1>5. CASE SchedulePickNull \/ ScheduleNone \/ Hang
  BY <1>5, HangingBalance
<1> QED
  BY <1>1, <1>2, <1>3, <1>4, <1>5 DEF Next

LEMMA StutterBalanced == Balanced /\ UNCHANGED vars => Balanced'
BY DEF Balanced, Standing, Excess, Live, vars

\* Balanced holds in every reachable state.
THEOREM CountsAreBalanced == Spec => []Balanced
<1>1. IInv /\ Balanced /\ [Next]_vars => Balanced'
  BY NextBalanced, StutterBalanced
<1> QED
  BY <1>1, InitBalanced, Invariant, PTL DEF Spec

\* preempt_disable and preempt_enable balance in every live task, whatever
\* is nested, forked and switched between them; only a copy_process without a
\* page adds to a count.
THEOREM PreemptIsBalanced == Spec => PreemptBalance
<1>1. IInv /\ Balanced /\ [Next]_vars => [ExcessKept]_vars
  BY NextBalanced
<1>2. Spec => [][ExcessKept]_vars
  BY <1>1, CountsAreBalanced, Invariant, PTL DEF Spec
<1> QED
  BY <1>2 DEF PreemptBalance, ExcessKept

\* A live task that does not run is inside _schedule or before its first
\* schedule_tail, with a count of exactly 1.
THEOREM ParkedHoldOff == Spec => []ParkedNonPreemptible
<1>1. IInv /\ Balanced => ParkedNonPreemptible
  <2> SUFFICES ASSUME IInv, Balanced, ~halted, NEW t \in Live \ {current}
               PROVE  /\ preempt_count[t] = 1
                      /\ Head(stack[t]) \in {"resume", "tail"}
    BY DEF ParkedNonPreemptible
  <2>1. Standing(t) /\ Head(stack[t]) \in {"resume", "tail"}
    BY DEF Balanced
  <2>2. Excess(t) = 0
    BY <2>1 DEF Standing, Loose
  <2>3. preempt_count[t] \in Nat
    BY DEF IInv, TypeOK, Live
  <2> QED
    BY <2>1, <2>2, <2>3 DEF Excess, Masking
<1> QED
  BY <1>1, CountsAreBalanced, Invariant, PTL

\* A task whose count a failed copy_process raised keeps the processor until
\* it exits: nothing preempts it.
THEOREM FailedForksPin == Spec => FailedForkPins
<1> DEFINE Pins == current' # current /\ preempt_count[current] > 1
                     => state[current] = "dead"
<1>1. IInv /\ Balanced /\ Next => Pins
  <2> SUFFICES ASSUME IInv, Balanced, Next, current' # current,
                      preempt_count[current] > 1
               PROVE  state[current] = "dead"
    OBVIOUS
  <2>1. At("pick")
    BY DEF Next, TickMasked, Tick, TickDecide, TickReturn, ScheduleEnter,
           ScheduleSwitch, SchedulePickNull, ScheduleNone, ScheduleResume,
           ScheduleTail, ForkEnter, ForkChild, ForkNoPage, ForkReturn,
           ExitEnter, ExitDequeue, ExitEnable, ExitSchedule, Hang, vars
  <2>2. ~halted /\ Head(stack[current]) = "pick"
    BY <2>1 DEF At
  <2>3. Excess(current) = preempt_count[current] - 1
    BY <2>2 DEF Excess, Masking
  <2>4. current \in Live => Excess(current) = 0
    BY <2>2, RunningFacts DEF Standing, Loose
  <2>5. preempt_count[current] \in Nat
    BY <2>2, RunningFacts
  <2>6. current \notin Live
    BY <2>3, <2>4, <2>5
  <2> QED
    BY <2>2, <2>6, CurrentFacts
<1>2. IInv /\ Balanced /\ [Next]_vars => [Pins]_vars
  BY <1>1
<1>3. Spec => [][Pins]_vars
  BY <1>2, CountsAreBalanced, Invariant, PTL DEF Spec
<1> QED
  BY <1>3 DEF FailedForkPins

-----------------------------------------------------------------------------
(* Requests to reschedule *)

\* No task stands at the end of a tick, or in the _schedule it was switched
\* out in, with a request that is not served.
Served == {"tick_end", "resume"}

Quiet ==
  ~halted =>
    \A t \in Task : state[t] # "unused" /\ Head(stack[t]) \in Served
                      => ~need_resched[t]

\* Where the running task stands after a Goto or a call.
LEMMA HeadAfter ==
  ASSUME IInv, ~halted, NEW l \in Label, NEW m \in Label
  PROVE  /\ Head(Goto(l)[current]) = l
         /\ Head(Call(l)[current]) = l
         /\ Head(CallFrom(m, l)[current]) = l
         /\ \A t \in Task \ {current} : /\ Goto(l)[t] = stack[t]
                                        /\ Call(l)[t] = stack[t]
                                        /\ CallFrom(m, l)[t] = stack[t]
<1>1. /\ current \in Task /\ stack \in [Task -> Seq(Label)]
      /\ stack[current] \in Seq(Label) /\ stack[current] # << >>
  BY RunningFacts DEF IInv, TypeOK
<1>2. Head(<<l>> \o Tail(stack[current])) = l
  BY <1>1, ReplaceFacts
<1>3. Head(<<l>> \o stack[current]) = l
  BY <1>1, PushFacts
<1>4. Head(<<l, m>> \o Tail(stack[current])) = l
  BY <1>1, ReplacePushFacts
<1> QED
  BY <1>1, <1>2, <1>3, <1>4 DEF Goto, Call, CallFrom

\* A step of the running task that neither raises nor clears a request.
LEMMA OwnQuiet ==
  ASSUME IInv, Quiet, ~halted, UNCHANGED need_resched,
         \A t \in Task \ {current} : /\ stack'[t] = stack[t]
                                     /\ state'[t] = state[t],
         Head(stack'[current]) \in Served => ~need_resched[current]
  PROVE  Quiet'
BY RunningFacts DEF Quiet

\* The timer interrupt.
LEMMA TickQuiet ==
  ASSUME IInv, Quiet, TickMasked \/ Tick \/ TickDecide \/ TickReturn
  PROVE  Quiet'
<1>1. CASE TickMasked
  BY <1>1 DEF TickMasked, Quiet
<1>2. CASE Tick /\ halted'
  BY <1>2 DEF Quiet
<1>3. CASE Tick /\ ~halted'
  <2>1. ~halted /\ stack' = Call("tick") /\ UNCHANGED state
    BY <1>3 DEF Tick
  <2>2. "tick" \in Label
    BY DEF Label
  <2>3. /\ Head(stack'[current]) = "tick"
        /\ \A t \in Task \ {current} : stack'[t] = stack[t]
    BY <2>1, <2>2, HeadAfter
  <2>4. \A t \in Task \ {current} : need_resched'[t] = need_resched[t]
    BY <1>3 DEF Tick, IInv, TypeOK
  <2> QED
    BY <2>1, <2>3, <2>4 DEF Quiet, Served
<1>4. CASE TickDecide
  <2>1. /\ ~halted /\ UNCHANGED <<need_resched, state>>
        /\ stack' = IF need_resched[current] THEN CallFrom("tick_end", "sched")
                                             ELSE Goto("tick_end")
    BY <1>4 DEF TickDecide, At
  <2>2. "tick_end" \in Label /\ "sched" \in Label
    BY DEF Label
  <2>3. CASE need_resched[current]
    <3>1. /\ Head(stack'[current]) = "sched"
          /\ \A t \in Task \ {current} : stack'[t] = stack[t]
      BY <2>1, <2>2, <2>3, HeadAfter
    <3> QED
      BY <2>1, <3>1, OwnQuiet DEF Served
  <2>4. CASE ~need_resched[current]
    <3>1. \A t \in Task \ {current} : stack'[t] = stack[t]
      BY <2>1, <2>2, <2>4, HeadAfter
    <3> QED
      BY <2>1, <2>4, <3>1, OwnQuiet
  <2> QED
    BY <2>3, <2>4
<1>5. CASE TickReturn
  <2>1. /\ ~halted /\ Head(stack[current]) = "tick_end"
        /\ UNCHANGED <<need_resched, state>>
    BY <1>5 DEF TickReturn, At
  <2>2. \A t \in Task \ {current} : stack'[t] = stack[t]
    BY <1>5 DEF TickReturn, Return, IInv, TypeOK
  <2>3. ~need_resched[current]
    BY <2>1, CurrentFacts DEF Quiet, Served
  <2> QED
    BY <2>1, <2>2, <2>3, OwnQuiet
<1> QED
  BY <1>1, <1>2, <1>3, <1>4, <1>5

\* _schedule, which clears the request of the task it leaves.
LEMMA ScheduleQuiet ==
  ASSUME IInv, Quiet,
         \/ ScheduleEnter \/ ScheduleSwitch \/ SchedulePickNull
         \/ ScheduleNone \/ ScheduleResume \/ ScheduleTail
  PROVE  Quiet'
<1>1. CASE SchedulePickNull \/ ScheduleNone
  BY <1>1 DEF SchedulePickNull, ScheduleNone, Quiet
<1>2. CASE ScheduleEnter
  <2>1. ~halted /\ stack' = Goto("pick") /\ UNCHANGED <<need_resched, state>>
    BY <1>2 DEF ScheduleEnter, At
  <2>2. "pick" \in Label /\ "pick" \notin Served
    BY DEF Label, Served
  <2> QED
    BY <2>1, <2>2, HeadAfter, OwnQuiet
<1>3. CASE ScheduleSwitch
  <2>1. /\ ~halted /\ stack' = Goto("resume") /\ UNCHANGED state
        /\ need_resched' = [need_resched EXCEPT ![current] = FALSE]
    BY <1>3 DEF ScheduleSwitch, At
  <2>2. "resume" \in Label
    BY DEF Label
  <2>3. \A t \in Task \ {current} : /\ stack'[t] = stack[t]
                                    /\ need_resched'[t] = need_resched[t]
    BY <2>1, <2>2, HeadAfter DEF IInv, TypeOK
  <2>4. ~need_resched'[current]
    BY <2>1, CurrentFacts DEF IInv, TypeOK
  <2> QED
    BY <2>1, <2>3, <2>4 DEF Quiet
<1>4. CASE ScheduleResume
  <2>1. /\ ~halted /\ Head(stack[current]) = "resume"
        /\ UNCHANGED <<need_resched, state>>
    BY <1>4 DEF ScheduleResume, At
  <2>2. \A t \in Task \ {current} : stack'[t] = stack[t]
    BY <1>4 DEF ScheduleResume, Return, IInv, TypeOK
  <2>3. ~need_resched[current]
    BY <2>1, CurrentFacts DEF Quiet, Served
  <2> QED
    BY <2>1, <2>2, <2>3, OwnQuiet
<1>5. CASE ScheduleTail
  <2>1. ~halted /\ stack' = Goto("run") /\ UNCHANGED <<need_resched, state>>
    BY <1>5 DEF ScheduleTail, At
  <2>2. "run" \in Label /\ "run" \notin Served
    BY DEF Label, Served
  <2> QED
    BY <2>1, <2>2, HeadAfter, OwnQuiet
<1> QED
  BY <1>1, <1>2, <1>3, <1>4, <1>5

\* copy_process, which may raise a request but is called outside every tick.
LEMMA ForkQuiet ==
  ASSUME IInv, Balanced, Quiet,
         ForkEnter \/ ForkChild \/ ForkNoPage \/ ForkReturn
  PROVE  Quiet'
<1>1. CASE ForkEnter
  <2>1. ~halted /\ stack' = Call("fork") /\ UNCHANGED <<need_resched, state>>
    BY <1>1 DEF ForkEnter, At
  <2>2. "fork" \in Label /\ "fork" \notin Served
    BY DEF Label, Served
  <2> QED
    BY <2>1, <2>2, HeadAfter, OwnQuiet
<1>2. CASE ForkChild
  <2>1. /\ ~halted /\ nr_tasks < NTasks
        /\ state' = [state EXCEPT ![nr_tasks] = "running"]
        /\ stack' = [Goto("fork_enable") EXCEPT ![nr_tasks] = <<"tail">>]
    BY <1>2 DEF ForkChild, At
  <2>2. nr_tasks \in Task /\ "fork_enable" \in Label
    BY <2>1, NTasksAssumption DEF IInv, TypeOK, Task, Label
  <2>3. nr_tasks # current
    <3>1. state[nr_tasks] = "unused"
      BY <2>2 DEF IInv, Created, Task
    <3> QED
      BY <2>1, <3>1, CurrentFacts
  <2>4. Goto("fork_enable") \in [Task -> Seq(Label)]
    <3>1. PICK s : s = <<"fork_enable">> \o Tail(stack[current])
      OBVIOUS
    <3>2. s \in Seq(Label)
      BY <2>1, <2>2, <3>1, RunningFacts, ReplaceFacts
    <3> QED
      BY <3>1, <3>2 DEF Goto, IInv, TypeOK
  <2>5. /\ stack'[nr_tasks] = <<"tail">>
        /\ stack'[current] = Goto("fork_enable")[current]
        /\ \A t \in Task \ {nr_tasks, current} : stack'[t] = stack[t]
    BY <2>1, <2>2, <2>3, <2>4, CurrentFacts, HeadAfter
  <2>6. /\ Head(stack'[nr_tasks]) = "tail"
        /\ Head(stack'[current]) = "fork_enable"
    BY <2>1, <2>2, <2>5, HeadAfter
  <2>7. \A t \in Task \ {nr_tasks, current} :
          state'[t] = state[t] /\ need_resched'[t] = need_resched[t]
    BY <1>2, <2>1, <2>2 DEF ForkChild, IInv, TypeOK
  <2> QED
    BY <2>1, <2>5, <2>6, <2>7 DEF Quiet, Served
<1>3. CASE ForkNoPage \/ ForkReturn
  <2>1. /\ ~halted /\ Head(stack[current]) \in {"fork", "fork_enable"}
        /\ UNCHANGED <<need_resched, state>> /\ stack' = Return
    BY <1>3 DEF ForkNoPage, ForkReturn, At
  <2>2. current \in Live
    BY <2>1, CurrentFacts, LeavingHead DEF IInv, DeadLeaves, Exiting, Passing
  <2>3. stack[current][2] = "run"
    BY <2>1, <2>2, RunningFacts DEF Standing
  <2>4. PICK s : s = Tail(stack[current])
    OBVIOUS
  <2>5. Head(s) = "run"
    BY <2>1, <2>3, <2>4, RunningFacts, SecondFrame
  <2>6. /\ stack'[current] = s
        /\ \A t \in Task \ {current} : stack'[t] = stack[t]
    BY <2>1, <2>4, RunningFacts DEF Return, IInv, TypeOK
  <2> QED
    BY <2>1, <2>5, <2>6, OwnQuiet DEF Served
<1> QED
  BY <1>1, <1>2, <1>3

\* exit_process.
LEMMA ExitQuiet ==
  ASSUME IInv, Quiet, ExitEnter \/ ExitDequeue \/ ExitEnable \/ ExitSchedule
  PROVE  Quiet'
<1>1. ~halted /\ UNCHANGED need_resched
  BY DEF ExitEnter, ExitDequeue, ExitEnable, ExitSchedule, At
<1>2. \A t \in Task \ {current} : state'[t] = state[t]
  BY DEF ExitEnter, ExitDequeue, ExitEnable, ExitSchedule, IInv, TypeOK
<1>3. \/ stack' = Call("exit") \/ stack' = Goto("exit_enable")
      \/ stack' = Goto("exit_sched") \/ stack' = CallFrom("exited", "sched")
  BY DEF ExitEnter, ExitDequeue, ExitEnable, ExitSchedule
<1>4. {"exit", "exit_enable", "exit_sched", "exited", "sched"} \subseteq Label
  BY DEF Label
<1>5. /\ Head(stack'[current]) \in {"exit", "exit_enable", "exit_sched", "sched"}
      /\ \A t \in Task \ {current} : stack'[t] = stack[t]
  BY <1>1, <1>3, <1>4, HeadAfter
<1> QED
  BY <1>1, <1>2, <1>5, OwnQuiet DEF Served

\* No tick returns while the task is still asked to give up the processor,
\* whatever nested ticks and switches came between.
THEOREM RequestsAreServed == Spec => []RequestsServed
<1>1. Init => Quiet
  <2> SUFFICES ASSUME Init PROVE Quiet
    OBVIOUS
  <2>1. \A t \in Task : ~need_resched[t]
    BY DEF Init
  <2> QED
    BY <2>1 DEF Quiet
<1>2. IInv /\ Balanced /\ Quiet /\ [Next]_vars => Quiet'
  <2> SUFFICES ASSUME IInv, Balanced, Quiet, [Next]_vars PROVE Quiet'
    OBVIOUS
  <2>1. CASE UNCHANGED vars
    BY <2>1 DEF Quiet, vars
  <2>2. CASE Hang
    BY <2>1, <2>2 DEF Hang
  <2> QED
    BY <2>1, <2>2, TickQuiet, ScheduleQuiet, ForkQuiet, ExitQuiet DEF Next
<1>3. IInv /\ Quiet => RequestsServed
  <2> SUFFICES ASSUME IInv, Quiet, At("tick_end")
               PROVE  ~need_resched[current]
    BY DEF RequestsServed
  <2>1. ~halted /\ Head(stack[current]) = "tick_end"
    BY DEF At
  <2> QED
    BY <2>1, CurrentFacts DEF Quiet, Served
<1> QED
  BY <1>1, <1>2, <1>3, CountsAreBalanced, Invariant, PTL DEF Spec
=============================================================================
