----------------------------- MODULE QueueProofs -----------------------------
(***************************************************************************)
(* The order of the tasks in the tree and the account of their processor   *)
(* time: what each operation on the run queue does to the vruntimes, the   *)
(* in-order sequence and the runtimes, and two invariants of the scheduler *)
(* that rest on it.                                                        *)
(***************************************************************************)
EXTENDS SchedulerProofs

Keys(c)     == [t \in Task |-> c.se[t].vruntime]
Runtimes(c) == [t \in Task |-> c.se[t].sum_exec_runtime]

\* d has charged what c has, to the same tasks and up to the same times.
SameTimes(d, c) ==
  /\ d.clock_task = c.clock_task
  /\ \A t \in Task : /\ d.se[t].sum_exec_runtime = c.se[t].sum_exec_runtime
                     /\ d.se[t].exec_start = c.se[t].exec_start

\* The runtimes add up to the clock, and r is charged up to it.
Settled(c, r) ==
  /\ c.clock_task = SumFunction(Runtimes(c))
  /\ c.se[r].exec_start = c.clock_task

\* In s, under the vruntimes v, a smaller entity stands behind a greater one
\* only if it is in U.
Sorted(s, v, U) ==
  \A i \in 1 .. Len(s) - 1 : v[s[i + 1]] < v[s[i]] => s[i + 1] \in U

-----------------------------------------------------------------------------
(* Sorted sequences *)

\* q is s with t at position k.
Inserted(q, s, k, t) ==
  /\ q \in Seq(Task) /\ Len(q) = Len(s) + 1 /\ q[k] = t
  /\ \A i \in 1 .. k - 1 : q[i] = s[i]
  /\ \A i \in k .. Len(s) : q[i + 1] = s[i]

LEMMA InsertTask ==
  ASSUME NEW s \in Seq(Task), NEW k \in 1 .. Len(s) + 1, NEW t \in Task
  PROVE  Inserted(InsertAt(s, k, t), s, k, t)
BY InsertAtFacts DEF Inserted

\* An entity linked where the descent of __enqueue_entity ends is in order
\* with both its neighbours.
LEMMA InsertSorted ==
  ASSUME NEW s \in Seq(Task), NEW v \in [Task -> Nat], NEW U, Sorted(s, v, U),
         NEW t \in Task, NEW k \in 1 .. Len(s) + 1,
         k > 1 => v[t] >= v[s[k - 1]],
         k <= Len(s) => v[t] < v[s[k]]
  PROVE  Sorted(InsertAt(s, k, t), v, U)
<1>1. PICK r : r = InsertAt(s, k, t)
  OBVIOUS
<1>2. /\ r \in Seq(Task) /\ Len(r) = Len(s) + 1 /\ r[k] = t
      /\ \A i \in 1 .. k - 1 : r[i] = s[i]
      /\ \A i \in k .. Len(s) : r[i + 1] = s[i]
  BY <1>1, InsertTask, ZenonT(60) DEF Inserted
<1>3. /\ Len(s) \in Nat /\ k \in Nat
      /\ \A i \in 1 .. Len(s) : s[i] \in Task
  BY LenProperties, ElementOfSeq
<1>4. ASSUME NEW i \in 1 .. Len(s), v[r[i + 1]] < v[r[i]]
      PROVE  r[i + 1] \in U
  <2>1. CASE i + 1 < k
    <3>1. i \in 1 .. Len(s) - 1 /\ r[i] = s[i] /\ r[i + 1] = s[i + 1]
      BY <1>2, <1>3, <2>1, SMTT(60)
    <3> QED
      BY <1>4, <3>1 DEF Sorted
  <2>2. CASE i + 1 = k
    <3>0. i \in 1 .. k - 1 /\ i = k - 1
      BY <1>3, <2>2
    <3>1. r[i] = s[k - 1] /\ r[i + 1] = t /\ s[k - 1] \in Task
      BY <1>2, <1>3, <2>2, <3>0
    <3>2. v[t] >= v[s[k - 1]] /\ v[t] \in Nat /\ v[s[k - 1]] \in Nat
      BY <2>2, <3>1
    <3> QED
      BY <1>4, <3>1, <3>2
  <2>3. CASE i = k
    <3>0. i \in k .. Len(s)
      BY <1>3, <2>3
    <3>1. r[i] = t /\ r[i + 1] = s[k] /\ s[k] \in Task
      BY <1>2, <1>3, <2>3, <3>0
    <3>2. v[t] < v[s[k]] /\ v[t] \in Nat /\ v[s[k]] \in Nat
      BY <2>3, <3>1
    <3> QED
      BY <1>4, <3>1, <3>2
  <2>4. CASE i > k
    <3>0. i - 1 \in 1 .. Len(s) - 1 /\ i = (i - 1) + 1 /\ i - 1 >= k
      BY <1>3, <2>4
    <3>1. PICK j \in 1 .. Len(s) - 1 : i = j + 1 /\ j >= k
      BY <3>0
    <3>2. j \in k .. Len(s) /\ j + 1 \in k .. Len(s)
      BY <1>3, <3>1
    <3>3. r[i] = s[j] /\ r[i + 1] = s[j + 1]
      BY <1>2, <3>1, <3>2
    <3> QED
      BY <1>4, <3>1, <3>3 DEF Sorted
  <2> QED
    BY <1>3, <2>1, <2>2, <2>3, <2>4
<1>5. Len(r) - 1 = Len(s)
  BY <1>2, <1>3
<1>6. Sorted(r, v, U)
  BY <1>4, <1>5 DEF Sorted
<1> QED
  BY <1>1, <1>6

\* Taking one out leaves the order as it is, if its neighbours are in order.
LEMMA RemoveSorted ==
  ASSUME NEW s \in Seq(Task), NEW v \in [Task -> Nat], NEW U, Sorted(s, v, U),
         NEW k \in 1 .. Len(s),
         1 < k /\ k < Len(s) /\ v[s[k + 1]] < v[s[k - 1]] => s[k + 1] \in U
  PROVE  Sorted(RemoveAt(s, k), v, U)
<1>1. PICK r : r = RemoveAt(s, k)
  OBVIOUS
<1>2. /\ r \in Seq(Task) /\ Len(r) = Len(s) - 1
      /\ \A i \in 1 .. k - 1 : r[i] = s[i]
      /\ \A i \in k + 1 .. Len(s) : r[i - 1] = s[i]
  BY <1>1, RemoveAtFacts
<1>3. Len(s) \in Nat /\ k \in Nat
  BY LenProperties
<1>4. \A i \in k .. Len(s) - 1 : r[i] = s[i + 1]
  <2> TAKE i \in k .. Len(s) - 1
  <2>1. i + 1 \in k + 1 .. Len(s) /\ (i + 1) - 1 = i
    BY <1>3
  <2> QED
    BY <1>2, <2>1
<1>5. ASSUME NEW i \in 1 .. Len(s) - 2, v[r[i + 1]] < v[r[i]]
      PROVE  r[i + 1] \in U
  <2>1. CASE i + 1 < k
    <3>0. i \in 1 .. k - 1 /\ i + 1 \in 1 .. k - 1 /\ i \in 1 .. Len(s) - 1
      BY <1>3, <2>1
    <3>1. i \in 1 .. Len(s) - 1 /\ r[i] = s[i] /\ r[i + 1] = s[i + 1]
      BY <1>2, <3>0
    <3> QED
      BY <1>5, <3>1 DEF Sorted
  <2>2. CASE i + 1 = k
    <3>0. k \in k .. Len(s) - 1 /\ i = k - 1 /\ i \in 1 .. k - 1
      BY <1>3, <2>2
    <3>1. r[i] = s[k - 1] /\ r[i + 1] = s[k + 1] /\ 1 < k /\ k < Len(s)
      BY <1>2, <1>3, <1>4, <2>2, <3>0, SMTT(60)
    <3> QED
      BY <1>5, <3>1
  <2>3. CASE i >= k
    <3>0. i + 1 \in 1 .. Len(s) - 1
      BY <1>3
    <3>1. PICK j \in 1 .. Len(s) - 1 : j = i + 1
      BY <3>0
    <3>3. i \in k .. Len(s) - 1 /\ j \in k .. Len(s) - 1
      BY <1>3, <2>3, <3>1
    <3>2. r[i] = s[j] /\ r[i + 1] = s[j + 1]
      BY <1>4, <3>1, <3>3
    <3> QED
      BY <1>5, <3>1, <3>2 DEF Sorted
  <2> QED
    BY <1>3, <2>1, <2>2, <2>3
<1>6. Len(r) - 1 = Len(s) - 2
  BY <1>2, <1>3
<1>7. Sorted(r, v, U)
  BY <1>5, <1>6 DEF Sorted
<1> QED
  BY <1>1, <1>7

\* The order of s is about the vruntimes of its members only, and one in U may
\* become smaller.
LEMMA LowerSorted ==
  ASSUME NEW s \in Seq(Task), NEW v \in [Task -> Nat], NEW w \in [Task -> Nat],
         NEW U, NEW V, Sorted(s, v, U),
         \A i \in 1 .. Len(s) : /\ s[i] \in U => s[i] \in V
                                /\ w[s[i]] <= v[s[i]]
                                /\ w[s[i]] = v[s[i]] \/ s[i] \in V
  PROVE  Sorted(s, w, V)
<1> SUFFICES ASSUME NEW i \in 1 .. Len(s) - 1, w[s[i + 1]] < w[s[i]]
             PROVE  s[i + 1] \in V
  BY DEF Sorted
<1>1. Len(s) \in Nat /\ \A j \in 1 .. Len(s) : s[j] \in Task
  BY LenProperties, ElementOfSeq
<1>2. PICK a \in Task, b \in Task : a = s[i] /\ b = s[i + 1]
  BY <1>1
<1>3. /\ w[a] <= v[a] /\ (b \in U => b \in V) /\ (w[b] = v[b] \/ b \in V)
      /\ v[b] < v[a] => b \in U
  BY <1>1, <1>2 DEF Sorted
<1>4. v[a] \in Nat /\ v[b] \in Nat /\ w[a] \in Nat /\ w[b] \in Nat /\ w[b] < w[a]
  BY <1>2
<1> QED
  BY <1>2, <1>3, <1>4

-----------------------------------------------------------------------------
(* What the operations charge, and to whom *)

\* update_curr does nothing to an entity that is charged up to now.
LEMMA UpdateCurrSettled ==
  ASSUME NEW c \in CfsRq, NEW r \in Task, c.curr = r,
         c.se[r].exec_start = c.clock_task
  PROVE  update_curr(c) = c
<1>1. PICK n \in Nat : n = c.clock_task
  BY DEF CfsRq
<1>2. n - n <= 0
  OBVIOUS
<1> QED
  BY <1>1, <1>2 DEF update_curr

\* update_curr charges the running task, up to the clock, and no other.
LEMMA UpdateCurrCharges ==
  ASSUME NEW c \in CfsRq, NEW r \in Task, c.curr = r, NEW d \in Nat,
         c.clock_task = c.se[r].exec_start + d,
         NEW b, b = update_curr(c)
  PROVE  /\ b \in CfsRq
         /\ SameQueue(b, c)
         /\ b.se[r].exec_start = c.clock_task
         /\ b.se[r].sum_exec_runtime = c.se[r].sum_exec_runtime + d
         /\ \A t \in Task \ {r} : b.se[t] = c.se[t]
<1>1. b \in CfsRq /\ SameQueue(b, c)
  BY UpdateCurrType
<1>2. PICK n \in Nat, x \in Nat, y \in Nat :
        /\ n = c.clock_task /\ x = c.se[r].exec_start /\ n = x + d
        /\ y = c.se[r].sum_exec_runtime
  BY DEF CfsRq, SchedEntity
<1>3. r # NoTask
  BY NoTaskNotTask
<1>4. CASE d = 0
  <2>1. n = x /\ y = y + d
    BY <1>2, <1>4
  <2>2. b = c
    BY <1>2, <2>1, UpdateCurrSettled
  <2> QED
    BY <1>1, <1>2, <2>1, <2>2
<1>5. CASE d # 0
  <2>1. n - x = d /\ ~(d <= 0)
    BY <1>2, <1>5
  <2>2. PICK e : e = Charge(c.se[r], d, n)
    OBVIOUS
  <2>3. PICK f : f = [c EXCEPT !.se[r] = e]
    OBVIOUS
  <2>4. b = update_min_vruntime(f)
    BY <1>2, <1>3, <2>1, <2>2, <2>3 DEF update_curr
  <2>5. c.se[r] \in SchedEntity
    BY DEF CfsRq
  <2>6. e \in SchedEntity /\ e.on_rq = c.se[r].on_rq
    BY <2>2, <2>5, ChargeType
  <2>7. e.exec_start = n /\ e.sum_exec_runtime = y + d
    BY <1>2, <2>2, <2>5 DEF Charge, SchedEntity
  <2>8. f \in CfsRq /\ f.se = [c.se EXCEPT ![r] = e]
    BY <2>3, <2>6, SetEntity
  <2>9. b.se = f.se
    BY <2>4, <2>8, UpdateMinType
  <2>10. c.se \in [Task -> SchedEntity]
    BY DEF CfsRq
  <2> QED
    BY <1>1, <1>2, <2>7, <2>8, <2>9, <2>10
<1> QED
  BY <1>4, <1>5

\* Advancing the clock of a settled queue to now and charging settles it.
LEMMA ChargeSettles ==
  ASSUME NEW c \in CfsRq, NEW r \in Task, c.curr = r, Settled(c, r),
         NEW now \in Nat, c.clock_task <= now,
         NEW b, b = update_curr(update_rq_clock(c, now))
  PROVE  /\ b \in CfsRq /\ b.curr = r /\ b.clock_task = now
         /\ b.tasks_timeline = c.tasks_timeline
         /\ \A t \in Task : b.se[t].on_rq = c.se[t].on_rq
         /\ \A t \in Task \ {r} : b.se[t] = c.se[t]
         /\ Settled(b, r)
<1>1. PICK a : a = update_rq_clock(c, now)
  OBVIOUS
<1>2. /\ a \in CfsRq /\ a.curr = r /\ a.clock_task = now /\ a.se = c.se
      /\ a.tasks_timeline = c.tasks_timeline
  BY <1>1 DEF update_rq_clock, CfsRq
<1>3. PICK n \in Nat : n = c.clock_task /\ n <= now /\ n = c.se[r].exec_start
  BY DEF CfsRq, Settled
<1>4. PICK d \in Nat : d = now - n
  BY <1>3
<1>5. now = n + d
  BY <1>3, <1>4
<1>6. /\ b \in CfsRq /\ SameQueue(b, a) /\ b.se[r].exec_start = now
      /\ b.se[r].sum_exec_runtime = a.se[r].sum_exec_runtime + d
      /\ \A t \in Task \ {r} : b.se[t] = a.se[t]
  <2>1. a.clock_task = a.se[r].exec_start + d
    BY <1>2, <1>3, <1>5
  <2> QED
    BY <1>1, <1>2, <2>1, UpdateCurrCharges
<1>7. Runtimes(c) \in [Task -> Nat]
  BY DEF Runtimes, CfsRq, SchedEntity
<1>8. Runtimes(b) = [Runtimes(c) EXCEPT ![r] = Runtimes(c)[r] + d]
  BY <1>2, <1>6 DEF Runtimes
<1>9. SumFunction(Runtimes(b)) = SumFunction(Runtimes(c)) + d
  <2>1. IsFiniteSet(Task)
    BY NTasksAssumption, FS_Interval DEF Task
  <2>2. PICK f \in [Task -> Nat] : f = Runtimes(c)
    BY <1>7
  <2>3. PICK g : g = Runtimes(b)
    OBVIOUS
  <2>4. More(g, f, r, d)
    BY <1>8, <2>2, <2>3 DEF More
  <2>5. SumFunction(g) = SumFunction(f) + d
    BY <2>1, <2>4, SumAdd, ZenonT(60)
  <2> QED
    BY <2>2, <2>3, <2>5
<1>10. Settled(b, r)
  BY <1>2, <1>3, <1>5, <1>6, <1>9 DEF Settled, SameQueue
<1> QED
  BY <1>2, <1>6, <1>10 DEF SameQueue

\* What charges nobody keeps a queue settled.
LEMMA SameTimesSettled ==
  ASSUME NEW c, NEW d, NEW r \in Task, SameTimes(d, c), Settled(c, r)
  PROVE  Settled(d, r)
<1>1. Runtimes(d) = Runtimes(c)
  BY DEF Runtimes, SameTimes
<1> QED
  BY <1>1 DEF Settled, SameTimes

-----------------------------------------------------------------------------
(* What the operations do to the vruntimes and the sequence *)

\* place_entity and ForkPlace move a vruntime of the child alone.
LEMMA PlaceEffect ==
  ASSUME NEW c \in CfsRq, NEW t \in Task, NEW d, d = place_entity(c, t),
         d \in CfsRq
  PROVE  /\ SameTimes(d, c)
         /\ d.tasks_timeline = c.tasks_timeline
         /\ \A u \in Task \ {t} : d.se[u] = c.se[u]
<1>1. PICK v : v = max_vruntime(c.se[t].vruntime, c.min_vruntime + sched_vslice(c, t))
  OBVIOUS
<1>2. PICK e : e = [c.se[t] EXCEPT !.vruntime = v]
  OBVIOUS
<1>3. d = [c EXCEPT !.se[t] = e]
  BY <1>1, <1>2 DEF place_entity
<1>4. /\ d.clock_task = c.clock_task /\ d.tasks_timeline = c.tasks_timeline
      /\ d.se = [c.se EXCEPT ![t] = e]
      /\ e.sum_exec_runtime = c.se[t].sum_exec_runtime
      /\ e.exec_start = c.se[t].exec_start
  BY <1>2, <1>3 DEF CfsRq, SchedEntity
<1>5. c.se \in [Task -> SchedEntity]
  BY DEF CfsRq
<1> QED
  BY <1>4, <1>5 DEF SameTimes

\* A gap that the descent can end at is one between smaller and greater.
LEMMA GapOrder ==
  ASSUME NEW c \in CfsRq, NEW t \in Task, NEW s \in Seq(Task),
         s = c.tasks_timeline, NEW g \in Gaps(c, t)
  PROVE  \E k \in 1 .. Len(s) + 1 :
           /\ k = g + 1
           /\ k > 1 => Keys(c)[t] >= Keys(c)[s[k - 1]]
           /\ k <= Len(s) => Keys(c)[t] < Keys(c)[s[k]]
<1>1. /\ g \in 0 .. Len(s)
      /\ g > 0 => ~entity_before(c, t, s[g])
      /\ g < Len(s) => entity_before(c, t, s[g + 1])
  BY DEF Gaps
<1>2. /\ Len(s) \in Nat /\ \A i \in 1 .. Len(s) : s[i] \in Task
  BY LenProperties, ElementOfSeq
<1>3. PICK k \in 1 .. Len(s) + 1 : k = g + 1 /\ g = k - 1
  BY <1>1, <1>2
<1>4. Keys(c) \in [Task -> Nat]
  BY DEF Keys, CfsRq, SchedEntity
<1>5. k > 1 => Keys(c)[t] >= Keys(c)[s[k - 1]]
  <2> SUFFICES ASSUME k > 1 PROVE Keys(c)[t] >= Keys(c)[s[k - 1]]
    OBVIOUS
  <2>1. k - 1 \in 1 .. Len(s) /\ g > 0
    BY <1>2, <1>3
  <2>2. PICK u \in Task : u = s[k - 1]
    BY <1>2, <2>1
  <2>3. ~(Keys(c)[t] < Keys(c)[u])
    BY <1>1, <1>3, <2>1, <2>2 DEF Keys, entity_before
  <2>4. Keys(c)[t] \in Nat /\ Keys(c)[u] \in Nat
    BY <1>4
  <2> QED
    BY <2>2, <2>3, <2>4
<1>6. k <= Len(s) => Keys(c)[t] < Keys(c)[s[k]]
  <2> SUFFICES ASSUME k <= Len(s) PROVE Keys(c)[t] < Keys(c)[s[k]]
    OBVIOUS
  <2>1. k \in 1 .. Len(s) /\ g < Len(s) /\ g + 1 = k
    BY <1>2, <1>3
  <2>2. s[k] \in Task
    BY <1>2, <2>1
  <2> QED
    BY <1>1, <2>1, <2>2 DEF Keys, entity_before
<1> QED
  BY <1>3, <1>5, <1>6

\* enqueue_entity links a child where the vruntimes say, and changes none.
LEMMA EnqueueEffect ==
  ASSUME NEW c \in CfsRq, NEW t \in Task, t # c.curr, NEW d \in enqueue_entity(c, t)
  PROVE  /\ SameTimes(d, c)
         /\ Keys(d) = Keys(c)
         /\ \E k \in 1 .. Len(c.tasks_timeline) + 1 :
              LET s == c.tasks_timeline
              IN  /\ d.tasks_timeline = InsertAt(s, k, t)
                  /\ k > 1 => Keys(c)[t] >= Keys(c)[s[k - 1]]
                  /\ k <= Len(s) => Keys(c)[t] < Keys(c)[s[k]]
<1>1. PICK a : a = account_entity_enqueue(c)
  OBVIOUS
<1>2. /\ a \in CfsRq /\ a.clock_task = c.clock_task /\ a.se = c.se
      /\ a.tasks_timeline = c.tasks_timeline
  BY <1>1, AccountEnqueue
<1>3. PICK b \in __enqueue_entity(a, t) : d = [b EXCEPT !.se[t].on_rq = TRUE]
  BY <1>1 DEF enqueue_entity
<1>4. PICK s \in Seq(Task) : s = c.tasks_timeline
  BY DEF CfsRq
<1>5. PICK g \in Gaps(a, t) : b = [a EXCEPT !.tasks_timeline = InsertAt(s, g + 1, t)]
  BY <1>2, <1>3, <1>4 DEF __enqueue_entity
<1>6. Keys(a) = Keys(c)
  BY <1>2 DEF Keys
<1>8. PICK k \in 1 .. Len(s) + 1 :
        /\ k = g + 1
        /\ k > 1 => Keys(c)[t] >= Keys(c)[s[k - 1]]
        /\ k <= Len(s) => Keys(c)[t] < Keys(c)[s[k]]
  BY <1>2, <1>4, <1>6, GapOrder
<1>12. /\ b.clock_task = c.clock_task /\ b.se = c.se
       /\ b.tasks_timeline = InsertAt(s, k, t)
  BY <1>2, <1>5, <1>8 DEF CfsRq
<1>13. /\ d.clock_task = c.clock_task /\ d.tasks_timeline = b.tasks_timeline
       /\ d.se = [c.se EXCEPT ![t] = [c.se[t] EXCEPT !.on_rq = TRUE]]
  <2>1. DOMAIN b = DOMAIN a
    BY <1>5
  <2> QED
    BY <1>2, <1>3, <1>12, <2>1 DEF CfsRq
<1>14. c.se \in [Task -> SchedEntity]
  BY DEF CfsRq
<1>15. SameTimes(d, c) /\ Keys(d) = Keys(c)
  BY <1>13, <1>14 DEF SameTimes, Keys, SchedEntity
<1> QED
  BY <1>4, <1>8, <1>12, <1>13, <1>15

\* task_fork_fair up to the insertion charges the parent, and links the child
\* where the vruntimes say.
LEMMA ForkEffect ==
  ASSUME NEW c \in CfsRq, NEW r \in Task, NEW L \in SUBSET Task,
         Exact(c, r, L), Settled(c, r), NEW t \in Task \ L, t # r,
         NEW now \in Nat, c.clock_task <= now, NEW d \in ForkEnqueue(c, t, now)
  PROVE  /\ Settled(d, r) /\ d.clock_task = now
         /\ \A u \in Task \ {r, t} : Keys(d)[u] = Keys(c)[u]
         /\ \E k \in 1 .. Len(c.tasks_timeline) + 1 :
              LET s == c.tasks_timeline
              IN  /\ d.tasks_timeline = InsertAt(s, k, t)
                  /\ k > 1 => Keys(d)[t] >= Keys(d)[s[k - 1]]
                  /\ k <= Len(s) => Keys(d)[t] < Keys(d)[s[k]]
<1>1. PICK b : b = update_curr(update_rq_clock(c, now))
  OBVIOUS
<1>2. /\ b \in CfsRq /\ b.curr = r /\ b.clock_task = now
      /\ b.tasks_timeline = c.tasks_timeline
      /\ \A u \in Task : b.se[u].on_rq = c.se[u].on_rq
      /\ \A u \in Task \ {r} : b.se[u] = c.se[u]
      /\ Settled(b, r)
  <2>1. c.curr = r
    BY DEF Exact
  <2> QED
    BY <1>1, <2>1, ChargeSettles
<1>3. PICK v \in Nat : v = b.se[b.curr].vruntime
  BY <1>2 DEF CfsRq, SchedEntity
<1>4. PICK e : e = [b.se[t] EXCEPT !.vruntime = v]
  OBVIOUS
<1>5. /\ e \in SchedEntity /\ e.on_rq = b.se[t].on_rq
      /\ e.exec_start = b.se[t].exec_start
      /\ e.sum_exec_runtime = b.se[t].sum_exec_runtime
  BY <1>2, <1>4, ZenonT(60) DEF CfsRq, SchedEntity
<1>6. PICK f : f = [b EXCEPT !.se[t] = e]
  OBVIOUS
<1>7. /\ f \in CfsRq /\ f.curr = r /\ f.clock_task = now
      /\ f.tasks_timeline = b.tasks_timeline
      /\ f.se[t] = e /\ \A u \in Task \ {t} : f.se[u] = b.se[u]
  <2>1. f \in CfsRq /\ SameQueue(f, b) /\ f.se = [b.se EXCEPT ![t] = e]
    BY <1>2, <1>5, <1>6, SetEntity
  <2>2. b.se \in [Task -> SchedEntity]
    BY <1>2 DEF CfsRq
  <2> QED
    BY <1>2, <2>1, <2>2 DEF SameQueue
<1>8. SameTimes(f, b)
  BY <1>2, <1>5, <1>7 DEF SameTimes
<1>9. ForkPlace(update_rq_clock(c, now), t) = place_entity(f, t)
  BY <1>1, <1>3, <1>4, <1>6 DEF ForkPlace
<1>10. PICK p : p = place_entity(f, t)
  OBVIOUS
<1>11. /\ p \in CfsRq /\ p.curr = r
       /\ SameTimes(p, f) /\ p.tasks_timeline = f.tasks_timeline
       /\ \A u \in Task \ {t} : p.se[u] = f.se[u]
  <2>1. ~f.se[t].on_rq
    BY <1>2, <1>5, <1>7 DEF Exact
  <2>2. p \in CfsRq /\ SameQueue(p, f)
    BY <1>7, <1>10, <2>1, PlaceType
  <2>3. /\ SameTimes(p, f) /\ p.tasks_timeline = f.tasks_timeline
        /\ \A u \in Task \ {t} : p.se[u] = f.se[u]
    BY <1>7, <1>10, <2>2, PlaceEffect
  <2> QED
    BY <1>7, <2>2, <2>3 DEF SameQueue
<1>12. d \in enqueue_entity(p, t) /\ t # p.curr
  BY <1>9, <1>10, <1>11 DEF ForkEnqueue
<1>13. PICK s \in Seq(Task) : s = c.tasks_timeline /\ s = p.tasks_timeline
  BY <1>2, <1>7, <1>11 DEF CfsRq
<1>14. /\ SameTimes(d, p) /\ Keys(d) = Keys(p)
       /\ \E k \in 1 .. Len(s) + 1 :
            /\ d.tasks_timeline = InsertAt(s, k, t)
            /\ k > 1 => Keys(d)[t] >= Keys(d)[s[k - 1]]
            /\ k <= Len(s) => Keys(d)[t] < Keys(d)[s[k]]
  BY <1>11, <1>12, <1>13, EnqueueEffect
<1>15. Settled(d, r) /\ d.clock_task = now
  <2>1. Settled(f, r)
    BY <1>2, <1>8, SameTimesSettled
  <2>2. Settled(p, r)
    BY <1>11, <2>1, SameTimesSettled
  <2> QED
    BY <1>7, <1>11, <1>14, <2>2, SameTimesSettled DEF SameTimes
<1>16. \A u \in Task \ {r, t} : Keys(d)[u] = Keys(c)[u]
  BY <1>2, <1>7, <1>11, <1>14 DEF Keys
<1> QED
  BY <1>13, <1>14, <1>15, <1>16

\* The exchange of vruntimes at fork can only lower the child's.
LEMMA SwapEffect ==
  ASSUME NEW c \in CfsRq, NEW r \in Task, c.curr = r, NEW t \in Task, t # r,
         NEW d, d = ForkSwap(c, t)
  PROVE  /\ SameTimes(d, c) /\ d.tasks_timeline = c.tasks_timeline
         /\ \A u \in Task \ {r, t} : Keys(d)[u] = Keys(c)[u]
         /\ Keys(d)[t] <= Keys(c)[t]
<1>1. PICK x \in Nat, y \in Nat : x = c.se[r].vruntime /\ y = c.se[t].vruntime
  BY DEF CfsRq, SchedEntity
<1>2. CASE ForkSwaps(c, t)
  <2>1. x < y
    BY <1>1, <1>2 DEF ForkSwaps, entity_before
  <2>2. PICK e, f : /\ e = [c.se[r] EXCEPT !.vruntime = y]
                    /\ f = [c.se[t] EXCEPT !.vruntime = x]
    OBVIOUS
  <2>3. PICK b : b = [c EXCEPT !.se[r] = e]
    OBVIOUS
  <2>4. e \in SchedEntity /\ f \in SchedEntity
    BY <2>2 DEF CfsRq, SchedEntity
  <2>8. /\ b \in CfsRq /\ b.tasks_timeline = c.tasks_timeline
        /\ b.se[r] = e /\ \A u \in Task \ {r} : b.se[u] = c.se[u]
    BY <2>3, <2>4, RewriteEntity
  <2>9. d = [b EXCEPT !.se[t] = f]
    <3>1. d = [[c EXCEPT !.se[r].vruntime = y] EXCEPT !.se[t].vruntime = x]
      BY <1>1, <1>2 DEF ForkSwap
    <3>2. [c EXCEPT !.se[r].vruntime = y] = b
      BY <2>2, <2>3
    <3>3. [b EXCEPT !.se[t].vruntime = x]
            = [b EXCEPT !.se[t] = [b.se[t] EXCEPT !.vruntime = x]]
      OBVIOUS
    <3> QED
      BY <2>2, <2>8, <3>1, <3>2, <3>3
  <2>10. /\ d.tasks_timeline = b.tasks_timeline
         /\ d.se[t] = f /\ \A u \in Task \ {t} : d.se[u] = b.se[u]
    BY <2>4, <2>8, <2>9, RewriteEntity
  <2>11. d.clock_task = c.clock_task
    BY <2>3, <2>9 DEF CfsRq
  <2>5. /\ d.clock_task = c.clock_task /\ d.tasks_timeline = c.tasks_timeline
        /\ d.se[r] = e /\ d.se[t] = f
        /\ \A u \in Task \ {r, t} : d.se[u] = c.se[u]
    BY <2>8, <2>10, <2>11
  <2>6. /\ e.sum_exec_runtime = c.se[r].sum_exec_runtime
        /\ e.exec_start = c.se[r].exec_start
        /\ f.sum_exec_runtime = c.se[t].sum_exec_runtime
        /\ f.exec_start = c.se[t].exec_start /\ f.vruntime = x
    BY <2>2 DEF CfsRq, SchedEntity
  <2>7. SameTimes(d, c)
    BY <2>5, <2>6 DEF SameTimes
  <2> QED
    BY <1>1, <2>1, <2>5, <2>6, <2>7 DEF Keys
<1>3. CASE ~ForkSwaps(c, t)
  <2>1. d = c
    BY <1>3 DEF ForkSwap
  <2> QED
    BY <1>1, <2>1 DEF SameTimes, Keys
<1> QED
  BY <1>2, <1>3

\* dequeue_entity of a settled running task charges nothing and moves nothing.
LEMMA DequeueEffect ==
  ASSUME NEW c \in CfsRq, NEW r \in Task, NEW L \in SUBSET Task,
         Exact(c, r, L), r \in L, Settled(c, r), NEW d \in dequeue_entity(c, r)
  PROVE  /\ SameTimes(d, c) /\ d.tasks_timeline = c.tasks_timeline
         /\ Keys(d) = Keys(c)
<1>1. update_curr(c) = c /\ c.curr = r
  BY UpdateCurrSettled DEF Settled, Exact
<1>2. PICK e : e = [c.se[r] EXCEPT !.on_rq = FALSE]
  OBVIOUS
<1>3. /\ e \in SchedEntity /\ e.sum_exec_runtime = c.se[r].sum_exec_runtime
      /\ e.exec_start = c.se[r].exec_start /\ e.vruntime = c.se[r].vruntime
  BY <1>2 DEF CfsRq, SchedEntity
<1>4. PICK b : b = [c EXCEPT !.se[r] = e]
  OBVIOUS
<1>5. /\ b \in CfsRq /\ b.tasks_timeline = c.tasks_timeline
      /\ b.nr_running = c.nr_running /\ b.load = c.load
      /\ b.se[r] = e /\ \A u \in Task \ {r} : b.se[u] = c.se[u]
  BY <1>3, <1>4, RewriteEntity
<1>6. b.clock_task = c.clock_task
  BY <1>4 DEF CfsRq
<1>7. PICK a : a = account_entity_dequeue(b)
  OBVIOUS
<1>8. /\ a \in CfsRq /\ a.clock_task = b.clock_task
      /\ a.tasks_timeline = b.tasks_timeline /\ a.se = b.se
  <2>1. b.nr_running > 0 /\ b.load = WEIGHT * b.nr_running
    BY <1>5, TaskCounts DEF Exact
  <2> QED
    BY <1>5, <1>7, <2>1, AccountDequeue
<1>9. d = update_min_vruntime(a)
  BY <1>1, <1>2, <1>4, <1>7 DEF dequeue_entity
<1>10. d.se = a.se /\ SameQueue(d, a)
  BY <1>8, <1>9, UpdateMinType
<1> QED
  BY <1>3, <1>5, <1>6, <1>8, <1>10 DEF SameQueue, SameTimes, Keys

\* put_prev_entity puts the running task where its vruntime says.
LEMMA PutPrevEffect ==
  ASSUME NEW c \in CfsRq, NEW r \in Task, NEW L \in SUBSET Task,
         Exact(c, r, L), Settled(c, r), NEW d \in put_prev_entity(c, r)
  PROVE  /\ d.clock_task = c.clock_task /\ d.se = c.se
         /\ r \notin L => d.tasks_timeline = c.tasks_timeline
         /\ r \in L =>
              \E k \in 1 .. Len(c.tasks_timeline) + 1 :
                LET s == c.tasks_timeline
                IN  /\ d.tasks_timeline = InsertAt(s, k, r)
                    /\ k > 1 => Keys(c)[r] >= Keys(c)[s[k - 1]]
                    /\ k <= Len(s) => Keys(c)[r] < Keys(c)[s[k]]
<1>1. update_curr(c) = c /\ c.curr = r
  BY UpdateCurrSettled DEF Settled, Exact
<1>2. CASE r \notin L
  <2>1. d = [c EXCEPT !.curr = NoTask]
    BY <1>2 DEF put_prev_entity, Exact
  <2> QED
    BY <1>2, <2>1 DEF CfsRq
<1>3. CASE r \in L
  <2>1. PICK b \in __enqueue_entity(c, r) : d = [b EXCEPT !.curr = NoTask]
    BY <1>1, <1>3 DEF put_prev_entity, Exact
  <2>2. PICK s \in Seq(Task) : s = c.tasks_timeline
    BY DEF CfsRq
  <2>3. PICK g \in Gaps(c, r) :
          b = [c EXCEPT !.tasks_timeline = InsertAt(s, g + 1, r)]
    BY <2>1, <2>2 DEF __enqueue_entity
  <2>4. PICK k \in 1 .. Len(s) + 1 :
          /\ k = g + 1
          /\ k > 1 => Keys(c)[r] >= Keys(c)[s[k - 1]]
          /\ k <= Len(s) => Keys(c)[r] < Keys(c)[s[k]]
    BY <2>2, GapOrder
  <2>5. b = [c EXCEPT !.tasks_timeline = InsertAt(s, k, r)]
    BY <2>3, <2>4
  <2>6. /\ d.clock_task = c.clock_task /\ d.se = c.se
        /\ d.tasks_timeline = InsertAt(s, k, r)
    BY <2>1, <2>5 DEF CfsRq
  <2> QED
    BY <1>3, <2>2, <2>4, <2>6
<1> QED
  BY <1>2, <1>3

\* The running task is put back before the leftmost one is taken out: the two
\* that become neighbours were in order with the one between them.
LEMMA ExchangeSorted ==
  ASSUME NEW s \in Seq(Task), NEW v \in [Task -> Nat], NEW U, Sorted(s, v, U),
         IsInjective(s), NEW r \in Task, r \notin Range(s),
         NEW k \in 1 .. Len(s) + 1,
         k > 1 => v[r] >= v[s[k - 1]],
         k <= Len(s) => v[r] < v[s[k]],
         Len(s) >= 1
  PROVE  \A j \in 1 .. Len(InsertAt(s, k, r)) :
           InsertAt(s, k, r)[j] = s[1]
             => Sorted(RemoveAt(InsertAt(s, k, r), j), v, U)
<1>1. PICK q : q = InsertAt(s, k, r)
  OBVIOUS
<1>2. Sorted(q, v, U)
  BY <1>1, InsertSorted
<1>3. Inserted(q, s, k, r)
  BY <1>1, InsertTask
<1>4. /\ q \in Seq(Task) /\ Len(q) = Len(s) + 1 /\ q[k] = r
      /\ \A i \in 1 .. k - 1 : q[i] = s[i]
      /\ \A i \in k .. Len(s) : q[i + 1] = s[i]
  BY <1>3 DEF Inserted
<1>5. \A a \in 1 .. Len(q), b \in 1 .. Len(q) : q[a] = q[b] => a = b
  <2>1. IsInjective(InsertAt(s, k, r))
    BY InsertRange
  <2>2. DOMAIN q = 1 .. Len(q)
    BY <1>4, LenProperties
  <2> QED
    BY <1>1, <2>1, <2>2 DEF IsInjective
<1>6. /\ Len(s) \in Nat /\ Len(s) >= 1 /\ k \in Nat
      /\ \A i \in 1 .. Len(s) : s[i] \in Task
  BY LenProperties, ElementOfSeq
<1>7. SUFFICES ASSUME NEW j \in 1 .. Len(q), q[j] = s[1]
               PROVE  Sorted(RemoveAt(q, j), v, U)
  BY <1>1
<1>8. ASSUME 1 < j, j < Len(q), v[q[j + 1]] < v[q[j - 1]]
      PROVE  q[j + 1] \in U
  <2>1. k = 1
    <3> SUFFICES ASSUME k # 1 PROVE FALSE
      OBVIOUS
    <3>1. 1 \in 1 .. k - 1 /\ 1 \in 1 .. Len(q)
      BY <1>4, <1>6
    <3>2. q[1] = s[1]
      BY <1>4, <3>1
    <3> QED
      BY <1>5, <1>7, <1>8, <3>1, <3>2
  <2>2. j = 2
    <3>1. 1 \in k .. Len(s) /\ 1 + 1 = 2 /\ 2 \in 1 .. Len(q)
      BY <1>4, <1>6, <2>1
    <3>2. q[2] = s[1]
      BY <1>4, <3>1
    <3> QED
      BY <1>5, <1>7, <3>1, <3>2
  <2>3. 1 \in 1 .. Len(s) - 1 /\ 2 \in k .. Len(s) /\ 2 + 1 = 3
    BY <1>4, <1>6, <1>8, <2>1, <2>2
  <2>4. q[j + 1] = s[2] /\ q[j - 1] = r
    BY <1>4, <2>1, <2>2, <2>3
  <2>5. PICK a \in Task, b \in Task : a = s[1] /\ b = s[2]
    BY <1>6, <2>3
  <2>6. v[r] < v[a] /\ v[b] < v[r]
    BY <1>6, <1>8, <2>1, <2>4, <2>5
  <2>7. v[r] \in Nat /\ v[a] \in Nat /\ v[b] \in Nat
    OBVIOUS
  <2>8. v[b] < v[a] => b \in U
    BY <2>3, <2>5 DEF Sorted
  <2> QED
    BY <2>4, <2>5, <2>6, <2>7, <2>8
<1> QED
  BY <1>2, <1>4, <1>8, RemoveSorted

\* set_next_entity takes the next task out of the tree, and charges it from
\* now on.
LEMMA SetNextEffect ==
  ASSUME NEW c \in CfsRq, NEW L \in SUBSET Task, Exact(c, NoTask, L),
         NEW t \in L, NEW d \in set_next_entity(c, t)
  PROVE  /\ d.curr = t /\ d.clock_task = c.clock_task
         /\ d.se[t].exec_start = c.clock_task
         /\ Keys(d) = Keys(c) /\ Runtimes(d) = Runtimes(c)
         /\ \E j \in 1 .. Len(c.tasks_timeline) :
              /\ c.tasks_timeline[j] = t
              /\ d.tasks_timeline = RemoveAt(c.tasks_timeline, j)
<1>1. PICK b \in __dequeue_entity(c, t) :
        d = [b EXCEPT !.curr = t, !.se[t] = Start(b.se[t], b.clock_task)]
  BY DEF set_next_entity, Exact
<1>2. PICK s \in Seq(Task) : s = c.tasks_timeline
  BY DEF CfsRq
<1>3. PICK j \in 1 .. Len(s) :
        s[j] = t /\ b = [c EXCEPT !.tasks_timeline = RemoveAt(s, j)]
  BY <1>1, <1>2 DEF __dequeue_entity
<1>4. /\ b.clock_task = c.clock_task /\ b.se = c.se
      /\ b.tasks_timeline = RemoveAt(s, j)
  BY <1>3 DEF CfsRq
<1>5. DOMAIN b = DOMAIN c
  BY <1>3
<1>6. PICK e : e = Start(c.se[t], c.clock_task)
  OBVIOUS
<1>7. /\ d.curr = t /\ d.clock_task = c.clock_task
      /\ d.tasks_timeline = b.tasks_timeline
      /\ d.se = [c.se EXCEPT ![t] = e]
  BY <1>1, <1>4, <1>5, <1>6 DEF CfsRq
<1>8. /\ e.exec_start = c.clock_task /\ e.vruntime = c.se[t].vruntime
      /\ e.sum_exec_runtime = c.se[t].sum_exec_runtime
  BY <1>6 DEF Start, CfsRq, SchedEntity
<1>9. c.se \in [Task -> SchedEntity] /\ t \in Task
  BY DEF CfsRq
<1>10. d.se[t] = e /\ \A u \in Task \ {t} : d.se[u] = c.se[u]
  BY <1>7, <1>9
<1>11. Keys(d) = Keys(c) /\ Runtimes(d) = Runtimes(c)
  BY <1>8, <1>10 DEF Keys, Runtimes
<1> QED
  BY <1>2, <1>3, <1>4, <1>7, <1>8, <1>10, <1>11

\* pick_next_task_fair charges nobody, changes no vruntime, and leaves the tree
\* in the order it was in.
LEMMA PickEffect ==
  ASSUME NEW c \in CfsRq, NEW r \in Task, NEW L \in SUBSET Task,
         Exact(c, r, L), Settled(c, r), c.tasks_timeline # << >>,
         NEW d \in pick_next_task_fair(c, r)
  PROVE  /\ Settled(d, d.curr) /\ d.clock_task = c.clock_task
         /\ Keys(d) = Keys(c)
         /\ \A U : Sorted(c.tasks_timeline, Keys(c), U)
                   => Sorted(d.tasks_timeline, Keys(d), U)
<1>1. PICK s \in Seq(Task) : s = c.tasks_timeline
  BY DEF CfsRq
<1>2. PICK t : t = s[1]
  OBVIOUS
<1>3. Head(s) = s[1] /\ 1 \in DOMAIN s
  BY <1>1, HeadIsFirst, LenProperties
<1>4. t \in L \ {r}
  <2>1. t \in Range(s)
    BY <1>2, <1>3 DEF Range
  <2> QED
    BY <1>1, <2>1 DEF Exact
<1>5. PICK b \in put_prev_entity(c, r) : d \in set_next_entity(b, t)
  BY <1>1, <1>2, <1>3 DEF pick_next_task_fair
<1>6. b \in CfsRq /\ Exact(b, NoTask, L)
  BY <1>5, PutPrev
<1>7. /\ b.clock_task = c.clock_task /\ b.se = c.se
      /\ r \notin L => b.tasks_timeline = c.tasks_timeline
      /\ r \in L =>
           \E k \in 1 .. Len(s) + 1 :
             /\ b.tasks_timeline = InsertAt(s, k, r)
             /\ k > 1 => Keys(c)[r] >= Keys(c)[s[k - 1]]
             /\ k <= Len(s) => Keys(c)[r] < Keys(c)[s[k]]
  BY <1>1, <1>5, PutPrevEffect
<1>8. /\ d.curr = t /\ d.clock_task = b.clock_task
      /\ d.se[t].exec_start = b.clock_task
      /\ Keys(d) = Keys(b) /\ Runtimes(d) = Runtimes(b)
      /\ \E j \in 1 .. Len(b.tasks_timeline) :
           /\ b.tasks_timeline[j] = t
           /\ d.tasks_timeline = RemoveAt(b.tasks_timeline, j)
  BY <1>4, <1>5, <1>6, SetNextEffect
<1>9. Keys(b) = Keys(c) /\ Runtimes(b) = Runtimes(c)
  BY <1>7 DEF Keys, Runtimes
<1>10. Settled(d, d.curr)
  BY <1>7, <1>8, <1>9 DEF Settled
<1>11. Keys(c) \in [Task -> Nat]
  BY DEF Keys, CfsRq, SchedEntity
<1>12. PICK q : q = b.tasks_timeline
  OBVIOUS
<1>13. PICK j \in 1 .. Len(q) : q[j] = t /\ d.tasks_timeline = RemoveAt(q, j)
  BY <1>8, <1>12
<1>14. IsInjective(s) /\ Range(s) = L \ {r}
  BY <1>1 DEF Exact
<1>15. ASSUME NEW U, Sorted(s, Keys(c), U)
       PROVE  Sorted(RemoveAt(q, j), Keys(c), U)
  <2>1. CASE r \notin L
    <3>1. q = s
      BY <1>1, <1>7, <1>12, <2>1
    <3>2. DOMAIN s = 1 .. Len(s)
      BY LenProperties
    <3>3. j = 1
      BY <1>2, <1>3, <1>13, <1>14, <3>1, <3>2 DEF IsInjective
    <3>4. j \in 1 .. Len(s)
      BY <3>1
    <3> QED
      BY <1>11, <1>15, <3>1, <3>3, <3>4, RemoveSorted
  <2>2. CASE r \in L
    <3>1. PICK k \in 1 .. Len(s) + 1 :
            /\ q = InsertAt(s, k, r)
            /\ k > 1 => Keys(c)[r] >= Keys(c)[s[k - 1]]
            /\ k <= Len(s) => Keys(c)[r] < Keys(c)[s[k]]
      BY <1>7, <1>12, <2>2
    <3>2. r \notin Range(s) /\ Len(s) >= 1 /\ q[j] = s[1]
      BY <1>1, <1>2, <1>13, <1>14, HeadIsFirst
    <3> QED
      BY <1>11, <1>14, <1>15, <3>1, <3>2, ExchangeSorted
  <2> QED
    BY <2>1, <2>2
<1> QED
  BY <1>1, <1>7, <1>8, <1>9, <1>10, <1>13, <1>15

-----------------------------------------------------------------------------
(* The account of time *)

\* While the kernel runs, the running task is charged up to the clock of the
\* queue, and that clock is not ahead of the timer's.
Timed ==
  ~halted => cfs.clock_task <= clock /\ Settled(cfs, current)

LEMMA InitTimed == Init => Timed
<1> SUFFICES ASSUME Init PROVE Timed
  OBVIOUS
<1>1. 0 \in Task
  BY NTasksAssumption DEF Task
<1>2. EmptyRq \in CfsRq
  <2>1. << >> \in Seq(Task)
    BY EmptySeq
  <2> QED
    BY <1>1, <2>1 DEF EmptyRq, CfsRq, BlankEntity, SchedEntity
<1>3. PICK p : p = place_entity(EmptyRq, 0)
  OBVIOUS
<1>4. p \in CfsRq /\ SameQueue(p, EmptyRq)
  <2>1. ~EmptyRq.se[0].on_rq
    BY <1>1 DEF EmptyRq, BlankEntity
  <2> QED
    BY <1>1, <1>2, <1>3, <2>1, PlaceType
<1>5. SameTimes(p, EmptyRq)
  BY <1>1, <1>2, <1>3, <1>4, PlaceEffect
<1>6. PICK a : a = account_entity_enqueue(p)
  OBVIOUS
<1>7. a \in CfsRq /\ a.clock_task = p.clock_task /\ a.se = p.se
  BY <1>4, <1>6, AccountEnqueue
<1>8. p.curr = 0
  BY <1>4 DEF SameQueue, EmptyRq
<1>9. PICK e : e = [a.se[0] EXCEPT !.on_rq = TRUE]
  OBVIOUS
<1>10. cfs = [a EXCEPT !.se[0] = e]
  BY <1>3, <1>6, <1>8, <1>9 DEF Init, enqueue_entity
<1>11. /\ e \in SchedEntity /\ e.exec_start = a.se[0].exec_start
       /\ e.sum_exec_runtime = a.se[0].sum_exec_runtime
  BY <1>1, <1>7, <1>9 DEF CfsRq, SchedEntity
<1>12. cfs.se[0] = e /\ \A u \in Task \ {0} : cfs.se[u] = a.se[u]
  BY <1>1, <1>7, <1>10, <1>11, RewriteEntity
<1>13. cfs.clock_task = a.clock_task
  BY <1>7, <1>10 DEF CfsRq
<1>14. SameTimes(cfs, EmptyRq)
  BY <1>5, <1>7, <1>11, <1>12, <1>13 DEF SameTimes
<1>15. Settled(EmptyRq, 0)
  <2>1. PICK f : f = Runtimes(EmptyRq)
    OBVIOUS
  <2>2. f \in [Task -> Nat] /\ \A t \in Task : f[t] = 0
    BY <2>1 DEF Runtimes, EmptyRq, BlankEntity
  <2>3. IsFiniteSet(Task)
    BY NTasksAssumption, FS_Interval DEF Task
  <2>4. SumFunction(f) = 0
    BY <2>2, <2>3, SumZero
  <2> QED
    BY <1>1, <2>1, <2>4 DEF Settled, EmptyRq, BlankEntity
<1>16. Settled(cfs, 0)
  BY <1>1, <1>14, <1>15, SameTimesSettled
<1>17. cfs.clock_task = 0
  BY <1>14 DEF SameTimes, EmptyRq
<1> QED
  BY <1>16, <1>17 DEF Timed, Init

\* Every step charges the time that has passed to the task it passed in.
LEMMA NextTimed ==
  ASSUME IInv, Timed, [Next]_vars, ~halted'
  PROVE  cfs'.clock_task <= clock' /\ Settled(cfs', current')
<1>0. /\ cfs \in CfsRq /\ clock \in Nat /\ cfs.clock_task \in Nat
      /\ halted \in BOOLEAN
  BY DEF IInv, TypeOK, CfsRq
<1>1. ~halted
  BY DEF Next, TickMasked, Tick, TickDecide, TickReturn, ScheduleEnter,
         ScheduleSwitch, SchedulePickNull, ScheduleNone, ScheduleResume,
         ScheduleTail, ForkEnter, ForkChild, ForkNoPage, ForkReturn, ExitEnter,
         ExitDequeue, ExitEnable, ExitSchedule, Hang, At, vars
<1>2. cfs.clock_task <= clock /\ Settled(cfs, current)
  BY <1>1 DEF Timed
<1>3. current \in Task /\ Exact(cfs, current, Live) /\ Live \in SUBSET Task
  BY <1>1, CurrentFacts
<1>4. CASE UNCHANGED <<cfs, current>> /\ clock' \in {clock, clock + TICK}
  BY <1>0, <1>2, <1>4 DEF TICK
<1>5. CASE Tick
  <2>1. PICK now \in Nat : now = clock + TICK
    BY <1>0 DEF TICK
  <2>2. /\ clock' = now /\ current' = current
        /\ cfs' = update_curr(update_rq_clock(cfs, now))
    BY <1>5, <2>1 DEF Tick
  <2>3. cfs.clock_task <= now
    BY <1>0, <1>2, <2>1 DEF TICK
  <2>4. cfs.curr = current
    BY <1>3 DEF Exact
  <2>5. cfs'.clock_task = now /\ Settled(cfs', current)
    BY <1>0, <1>2, <1>3, <2>2, <2>3, <2>4, ChargeSettles
  <2> QED
    BY <2>2, <2>5
<1>6. CASE ScheduleSwitch
  <2>1. /\ cfs.tasks_timeline # << >> /\ current' = cfs'.curr
        /\ cfs' \in pick_next_task_fair(cfs, current) /\ clock' = clock
    BY <1>6 DEF ScheduleSwitch
  <2>2. Settled(cfs', cfs'.curr) /\ cfs'.clock_task = cfs.clock_task
    BY <1>0, <1>2, <1>3, <2>1, PickEffect
  <2> QED
    BY <1>2, <2>1, <2>2
<1>7. CASE ForkChild
  <2>1. nr_tasks < NTasks /\ current' = current /\ clock' = clock
    BY <1>7 DEF ForkChild
  <2>2. PICK e \in ForkEnqueue(cfs, nr_tasks, clock) :
          cfs' = ForkSwap(e, nr_tasks)
    BY <1>7 DEF ForkChild
  <2>3. nr_tasks \in Task \ Live /\ nr_tasks # current
    BY <1>1, <2>1, CurrentFacts, NTasksAssumption
       DEF IInv, TypeOK, Created, Live, Task
  <2>4. e \in CfsRq /\ Exact(e, current, Live \cup {nr_tasks})
    BY <1>0, <1>3, <2>2, <2>3, ForkEnqueueChild
  <2>5. Settled(e, current) /\ e.clock_task = clock
    BY <1>0, <1>2, <1>3, <2>2, <2>3, ForkEffect
  <2>6. e.curr = current
    BY <2>4 DEF Exact
  <2>7. SameTimes(cfs', e)
    BY <1>3, <2>2, <2>3, <2>4, <2>6, SwapEffect
  <2>8. Settled(cfs', current)
    BY <1>3, <2>5, <2>7, SameTimesSettled
  <2> QED
    BY <1>0, <2>1, <2>5, <2>7, <2>8 DEF SameTimes
<1>8. CASE ExitDequeue
  <2>1. /\ Head(stack[current]) = "exit" /\ current' = current
        /\ cfs' \in dequeue_entity(cfs, current) /\ clock' = clock
    BY <1>8 DEF ExitDequeue, At
  <2>2. current \in Live
    BY <1>1, <2>1, CurrentFacts, LeavingHead
       DEF IInv, DeadLeaves, Exiting, Passing
  <2>3. SameTimes(cfs', cfs)
    BY <1>0, <1>2, <1>3, <2>1, <2>2, DequeueEffect
  <2>4. Settled(cfs', current)
    BY <1>2, <1>3, <2>3, SameTimesSettled
  <2> QED
    BY <1>2, <2>1, <2>3, <2>4 DEF SameTimes
<1>9. CASE ExitSchedule
  <2>0. PICK n \in Nat : n = cfs.se[current].vruntime + cfs.min_vruntime
    BY <1>0, <1>3 DEF CfsRq, SchedEntity
  <2>1. PICK e : e = [cfs.se[current] EXCEPT !.vruntime = n]
    OBVIOUS
  <2>2. /\ e \in SchedEntity /\ e.exec_start = cfs.se[current].exec_start
        /\ e.sum_exec_runtime = cfs.se[current].sum_exec_runtime
    BY <1>0, <1>3, <2>1 DEF CfsRq, SchedEntity
  <2>3. /\ cfs' = [cfs EXCEPT !.se[current] = e]
        /\ clock' = clock /\ current' = current
    BY <1>9, <2>0, <2>1 DEF ExitSchedule
  <2>4. /\ cfs'.se[current] = e
        /\ \A u \in Task \ {current} : cfs'.se[u] = cfs.se[u]
    BY <1>0, <1>3, <2>2, <2>3, RewriteEntity
  <2>5. cfs'.clock_task = cfs.clock_task
    BY <1>0, <2>3 DEF CfsRq
  <2>6. SameTimes(cfs', cfs)
    BY <2>2, <2>4, <2>5 DEF SameTimes
  <2>7. Settled(cfs', current)
    BY <1>2, <1>3, <2>6, SameTimesSettled
  <2> QED
    BY <1>2, <2>3, <2>5, <2>7
<1>10. \/ UNCHANGED <<cfs, current>> /\ clock' \in {clock, clock + TICK}
       \/ Tick \/ ScheduleSwitch \/ ForkChild \/ ExitDequeue \/ ExitSchedule
  BY DEF Next, TickMasked, TickDecide, TickReturn, ScheduleEnter,
         SchedulePickNull, ScheduleNone, ScheduleResume, ScheduleTail,
         ForkEnter, ForkNoPage, ForkReturn, ExitEnter, ExitEnable, Hang, vars
<1> QED
  BY <1>4, <1>5, <1>6, <1>7, <1>8, <1>9, <1>10

\* No tick is lost and none is charged twice, for any number of tasks: see
\* TimeConserved.
THEOREM TimeIsConserved == Spec => []TimeConserved
<1>1. IInv /\ Timed /\ [Next]_vars => Timed'
  BY NextTimed DEF Timed
<1>2. Timed => TimeConserved
  BY DEF Timed, TimeConserved, Settled, Runtimes
<1> QED
  BY <1>1, <1>2, InitTimed, Invariant, PTL DEF Spec

-----------------------------------------------------------------------------
(* The order of the tree *)

\* The tasks that have not run yet, and whether all the disorder is at them.
Unrun == {t \in Task : Head(stack[t]) = "tail"}

Ordered == ~halted => Sorted(cfs.tasks_timeline, Keys(cfs), Unrun)

\* Ordered is DisorderAtChildren.
LEMMA OrderedMeans ==
  ASSUME IInv
  PROVE  Ordered <=> DisorderAtChildren
<1>1. PICK s \in Seq(Task) : s = cfs.tasks_timeline
  BY DEF IInv, TypeOK, CfsRq
<1>2. \A i \in 1 .. Len(s) - 1 : s[i] \in Task /\ s[i + 1] \in Task
  <2> TAKE i \in 1 .. Len(s) - 1
  <2>1. i \in 1 .. Len(s) /\ i + 1 \in 1 .. Len(s)
    BY LenProperties
  <2> QED
    BY <2>1, ElementOfSeq
<1>3. ASSUME NEW i \in 1 .. Len(s) - 1
      PROVE  /\ Keys(cfs)[s[i + 1]] < Keys(cfs)[s[i]]
                  <=> entity_before(cfs, s[i + 1], s[i])
             /\ s[i + 1] \in Unrun <=> Head(stack[s[i + 1]]) = "tail"
  BY <1>2 DEF Keys, entity_before, Unrun
<1> QED
  BY <1>1, <1>3 DEF Ordered, DisorderAtChildren, Sorted

\* A step that leaves the tree, and the vruntimes and stacks of all but the
\* running task, as they are.
LEMMA OrderedStep ==
  ASSUME IInv, ~halted, Ordered, cfs' \in CfsRq,
         cfs'.tasks_timeline = cfs.tasks_timeline,
         \A t \in Task \ {current} : /\ Keys(cfs')[t] = Keys(cfs)[t]
                                     /\ stack'[t] = stack[t]
  PROVE  Sorted(cfs'.tasks_timeline, Keys(cfs'), Unrun')
<1>1. PICK s \in Seq(Task) : s = cfs.tasks_timeline
  BY DEF IInv, TypeOK, CfsRq
<1>2. Keys(cfs) \in [Task -> Nat] /\ Keys(cfs') \in [Task -> Nat]
  BY DEF IInv, TypeOK, Keys, CfsRq, SchedEntity
<1>3. \A i \in 1 .. Len(s) : s[i] \in Task \ {current}
  <2> TAKE i \in 1 .. Len(s)
  <2>1. s[i] \in Range(s)
    BY LenProperties DEF Range
  <2>2. Range(s) = Live \ {current} /\ Live \in SUBSET Task
    BY <1>1, CurrentFacts DEF Exact
  <2> QED
    BY <2>1, <2>2
<1>4. Sorted(s, Keys(cfs), Unrun)
  BY <1>1 DEF Ordered
<1>5. PICK v \in [Task -> Nat], w \in [Task -> Nat] :
        v = Keys(cfs) /\ w = Keys(cfs')
  BY <1>2
<1>6. \A i \in 1 .. Len(s) : /\ s[i] \in Unrun => s[i] \in Unrun'
                             /\ w[s[i]] <= v[s[i]]
                             /\ w[s[i]] = v[s[i]] \/ s[i] \in Unrun'
  <2> TAKE i \in 1 .. Len(s)
  <2>1. PICK t \in Task \ {current} : t = s[i]
    BY <1>3
  <2>2. w[t] = v[t] /\ v[t] \in Nat
    BY <1>5
  <2>3. t \in Unrun => t \in Unrun'
    BY DEF Unrun
  <2> QED
    BY <2>1, <2>2, <2>3
<1>7. Sorted(s, w, Unrun')
  BY <1>4, <1>5, <1>6, LowerSorted
<1> QED
  BY <1>1, <1>5, <1>7

\* fork links the child in order, and lowers its vruntime afterwards.
LEMMA ForkOrdered ==
  ASSUME IInv, Timed, Ordered, ForkChild
  PROVE  Sorted(cfs'.tasks_timeline, Keys(cfs'), Unrun')
<1>1. /\ ~halted /\ nr_tasks < NTasks /\ current' = current
      /\ stack' = [Goto("fork_enable") EXCEPT ![nr_tasks] = <<"tail">>]
  BY DEF ForkChild, At
<1>2. PICK e \in ForkEnqueue(cfs, nr_tasks, clock) : cfs' = ForkSwap(e, nr_tasks)
  BY DEF ForkChild
<1>3. PICK t \in Task \ Live : t = nr_tasks /\ t # current
  BY <1>1, CurrentFacts, NTasksAssumption
     DEF IInv, TypeOK, Created, Live, Task
<1>4. /\ cfs \in CfsRq /\ clock \in Nat
      /\ current \in Task /\ Exact(cfs, current, Live) /\ Live \in SUBSET Task
      /\ cfs.clock_task <= clock /\ Settled(cfs, current)
  BY <1>1, CurrentFacts DEF IInv, TypeOK, Timed
<1>5. e \in CfsRq /\ Exact(e, current, Live \cup {t})
  BY <1>2, <1>3, <1>4, ForkEnqueueChild
<1>6. PICK s \in Seq(Task) : s = cfs.tasks_timeline
  BY <1>4 DEF CfsRq
<1>7. /\ \A u \in Task \ {current, t} : Keys(e)[u] = Keys(cfs)[u]
      /\ \E k \in 1 .. Len(s) + 1 :
           /\ e.tasks_timeline = InsertAt(s, k, t)
           /\ k > 1 => Keys(e)[t] >= Keys(e)[s[k - 1]]
           /\ k <= Len(s) => Keys(e)[t] < Keys(e)[s[k]]
  BY <1>2, <1>3, <1>4, <1>6, ForkEffect
<1>8. /\ cfs'.tasks_timeline = e.tasks_timeline
      /\ \A u \in Task \ {current, t} : Keys(cfs')[u] = Keys(e)[u]
      /\ Keys(cfs')[t] <= Keys(e)[t]
  <2>1. e.curr = current
    BY <1>5 DEF Exact
  <2> QED
    BY <1>2, <1>3, <1>4, <1>5, <2>1, SwapEffect
<1>9. cfs' \in CfsRq
  BY <1>2, <1>3, <1>4, <1>5, ForkSwapType DEF Exact
<1>10. PICK v \in [Task -> Nat], w \in [Task -> Nat], x \in [Task -> Nat] :
         v = Keys(cfs) /\ w = Keys(e) /\ x = Keys(cfs')
  BY <1>4, <1>5, <1>9 DEF Keys, CfsRq, SchedEntity
<1>11. t \in Unrun' /\ \A u \in Task \ {current, t} : stack'[u] = stack[u]
  <2>1. stack \in [Task -> Seq(Label)]
    BY DEF IInv, TypeOK
  <2>2. stack'[t] = <<"tail">>
    BY <1>1, <1>3, <1>4, <2>1 DEF Goto
  <2> QED
    BY <1>1, <1>3, <1>4, <2>1, <2>2 DEF Goto, Unrun
<1>12. \A i \in 1 .. Len(s) : s[i] \in Task \ {current, t}
  <2> TAKE i \in 1 .. Len(s)
  <2>1. s[i] \in Range(s)
    BY LenProperties DEF Range
  <2> QED
    BY <1>3, <1>4, <1>6, <2>1 DEF Exact
<1>13. Sorted(s, w, Unrun')
  <2>1. Sorted(s, v, Unrun)
    BY <1>1, <1>6, <1>10 DEF Ordered
  <2>2. \A i \in 1 .. Len(s) : /\ s[i] \in Unrun => s[i] \in Unrun'
                               /\ w[s[i]] <= v[s[i]]
                               /\ w[s[i]] = v[s[i]] \/ s[i] \in Unrun'
    <3> TAKE i \in 1 .. Len(s)
    <3>1. PICK u \in Task \ {current, t} : u = s[i]
      BY <1>12
    <3>2. w[u] = v[u] /\ v[u] \in Nat
      BY <1>7, <1>10
    <3>3. u \in Unrun => u \in Unrun'
      BY <1>11 DEF Unrun
    <3> QED
      BY <3>1, <3>2, <3>3
  <2> QED
    BY <2>1, <2>2, LowerSorted
<1>14. PICK q \in Seq(Task) : q = e.tasks_timeline
  BY <1>5 DEF CfsRq
<1>15. Sorted(q, w, Unrun')
  <2>1. PICK k \in 1 .. Len(s) + 1 :
          /\ q = InsertAt(s, k, t)
          /\ k > 1 => w[t] >= w[s[k - 1]]
          /\ k <= Len(s) => w[t] < w[s[k]]
    BY <1>7, <1>10, <1>14
  <2>2. Sorted(InsertAt(s, k, t), w, Unrun')
    BY <1>13, <2>1, InsertSorted
  <2> QED
    BY <2>1, <2>2
<1>16. \A i \in 1 .. Len(q) : /\ q[i] \in Unrun' => q[i] \in Unrun'
                              /\ x[q[i]] <= w[q[i]]
                              /\ x[q[i]] = w[q[i]] \/ q[i] \in Unrun'
  <2> TAKE i \in 1 .. Len(q)
  <2>1. q[i] \in Range(q)
    BY LenProperties DEF Range
  <2>2. q[i] \in Task \ {current}
    BY <1>3, <1>4, <1>5, <1>14, <2>1 DEF Exact
  <2>3. PICK u \in Task \ {current} : u = q[i]
    BY <2>2
  <2>4. w[u] \in Nat /\ x[u] \in Nat
    OBVIOUS
  <2>5. CASE u = t
    BY <1>8, <1>10, <1>11, <2>3, <2>4, <2>5
  <2>6. CASE u # t
    BY <1>8, <1>10, <2>3, <2>4, <2>6
  <2> QED
    BY <2>5, <2>6
<1>17. Sorted(q, x, Unrun')
  BY <1>15, <1>16, LowerSorted
<1> QED
  BY <1>8, <1>10, <1>14, <1>17

\* Every step leaves all the disorder at the children that have not run.
LEMMA NextOrdered ==
  ASSUME IInv, IInv', Timed, Ordered, [Next]_vars, ~halted'
  PROVE  Sorted(cfs'.tasks_timeline, Keys(cfs'), Unrun')
<1>0. /\ cfs \in CfsRq /\ cfs' \in CfsRq /\ clock \in Nat
      /\ halted \in BOOLEAN /\ stack \in [Task -> Seq(Label)]
  BY DEF IInv, TypeOK
<1>1. ~halted
  BY DEF Next, TickMasked, Tick, TickDecide, TickReturn, ScheduleEnter,
         ScheduleSwitch, SchedulePickNull, ScheduleNone, ScheduleResume,
         ScheduleTail, ForkEnter, ForkChild, ForkNoPage, ForkReturn, ExitEnter,
         ExitDequeue, ExitEnable, ExitSchedule, Hang, At, vars
<1>2. cfs.clock_task <= clock /\ Settled(cfs, current)
  BY <1>1 DEF Timed
<1>3. current \in Task /\ Exact(cfs, current, Live) /\ Live \in SUBSET Task
  BY <1>1, CurrentFacts
<1>4. CASE /\ UNCHANGED cfs
           /\ \A t \in Task \ {current} : stack'[t] = stack[t]
  BY <1>0, <1>1, <1>4, OrderedStep
<1>5. CASE Tick
  <2>1. PICK now \in Nat : now = clock + TICK
    BY <1>0 DEF TICK
  <2>2. /\ cfs' = update_curr(update_rq_clock(cfs, now))
        /\ stack' = Call("tick")
    BY <1>5, <2>1 DEF Tick
  <2>3. cfs.clock_task <= now
    BY <1>0, <1>2, <2>1 DEF TICK, CfsRq
  <2>4. cfs.curr = current
    BY <1>3 DEF Exact
  <2>5. /\ cfs'.tasks_timeline = cfs.tasks_timeline
        /\ \A t \in Task \ {current} : cfs'.se[t] = cfs.se[t]
    BY <1>0, <1>2, <1>3, <2>2, <2>3, <2>4, ChargeSettles
  <2>6. \A t \in Task \ {current} : /\ Keys(cfs')[t] = Keys(cfs)[t]
                                    /\ stack'[t] = stack[t]
    BY <1>0, <2>2, <2>5 DEF Keys, Call
  <2> QED
    BY <1>0, <1>1, <2>5, <2>6, OrderedStep
<1>6. CASE ScheduleSwitch
  <2>1. /\ cfs.tasks_timeline # << >>
        /\ cfs' \in pick_next_task_fair(cfs, current)
        /\ Head(stack[current]) = "pick" /\ stack' = Goto("resume")
    BY <1>6 DEF ScheduleSwitch, At
  <2>2. Sorted(cfs.tasks_timeline, Keys(cfs), Unrun)
    BY <1>1 DEF Ordered
  <2>3. Sorted(cfs'.tasks_timeline, Keys(cfs'), Unrun)
    BY <1>0, <1>2, <1>3, <2>1, <2>2, PickEffect
  <2>4. Unrun' = Unrun
    <3>1. Head(<<"resume">> \o Tail(stack[current])) = "resume"
      BY <1>1, <2>1, CurrentFacts, GotoFrames DEF Label
    <3>2. /\ Head(stack'[current]) = "resume"
          /\ \A t \in Task \ {current} : stack'[t] = stack[t]
      BY <1>0, <1>3, <2>1, <3>1 DEF Goto
    <3> QED
      BY <2>1, <3>2 DEF Unrun
  <2> QED
    BY <2>3, <2>4
<1>7. CASE ForkChild
  BY <1>7, ForkOrdered
<1>8. CASE ExitDequeue
  <2>1. /\ Head(stack[current]) = "exit" /\ stack' = Goto("exit_enable")
        /\ cfs' \in dequeue_entity(cfs, current)
    BY <1>8 DEF ExitDequeue, At
  <2>2. current \in Live
    BY <1>1, <2>1, CurrentFacts, LeavingHead
       DEF IInv, DeadLeaves, Exiting, Passing
  <2>3. cfs'.tasks_timeline = cfs.tasks_timeline /\ Keys(cfs') = Keys(cfs)
    BY <1>0, <1>2, <1>3, <2>1, <2>2, DequeueEffect
  <2>4. \A t \in Task \ {current} : stack'[t] = stack[t]
    BY <1>0, <2>1 DEF Goto
  <2> QED
    BY <1>0, <1>1, <2>3, <2>4, OrderedStep
<1>9. CASE ExitSchedule
  <2>1. PICK n \in Nat : n = cfs.se[current].vruntime + cfs.min_vruntime
    BY <1>0, <1>3, SMTT(60) DEF CfsRq, SchedEntity
  <2>2. PICK e : e = [cfs.se[current] EXCEPT !.vruntime = n]
    OBVIOUS
  <2>3. e \in SchedEntity
    BY <1>0, <1>3, <2>2 DEF CfsRq, SchedEntity
  <2>4. /\ cfs' = [cfs EXCEPT !.se[current] = e]
        /\ stack' = CallFrom("exited", "sched")
    BY <1>9, <2>1, <2>2 DEF ExitSchedule
  <2>5. /\ cfs'.tasks_timeline = cfs.tasks_timeline
        /\ \A t \in Task \ {current} : cfs'.se[t] = cfs.se[t]
    BY <1>0, <1>3, <2>3, <2>4, RewriteEntity
  <2>6. \A t \in Task \ {current} : /\ Keys(cfs')[t] = Keys(cfs)[t]
                                    /\ stack'[t] = stack[t]
    BY <1>0, <2>4, <2>5 DEF Keys, CallFrom
  <2> QED
    BY <1>0, <1>1, <2>5, <2>6, OrderedStep
<1>10. \/ /\ UNCHANGED cfs
          /\ \A t \in Task \ {current} : stack'[t] = stack[t]
       \/ Tick \/ ScheduleSwitch \/ ForkChild \/ ExitDequeue \/ ExitSchedule
  BY <1>0 DEF Next, TickMasked, TickDecide, TickReturn, ScheduleEnter,
              SchedulePickNull, ScheduleNone, ScheduleResume, ScheduleTail,
              ForkEnter, ForkNoPage, ForkReturn, ExitEnter, ExitEnable, Hang,
              vars, Goto, Call, CallFrom, Return
<1> QED
  BY <1>4, <1>5, <1>6, <1>7, <1>8, <1>9, <1>10

\* Two neighbours in the tree are out of order only if the second is a child
\* that has not run, for any number of tasks: see DisorderAtChildren.
THEOREM DisorderStaysAtChildren == Spec => []DisorderAtChildren
<1>1. Init => Ordered
  <2> SUFFICES ASSUME Init PROVE Ordered
    OBVIOUS
  <2>1. /\ IInv /\ cfs \in CfsRq /\ Exact(cfs, 0, Live) /\ Live = {0}
    BY InitInv, CurrentFacts, NTasksAssumption
       DEF Init, IInv, TypeOK, Live, Task
  <2>2. cfs.tasks_timeline = << >>
    <3>1. PICK s \in Seq(Task) : s = cfs.tasks_timeline
      BY <2>1 DEF CfsRq
    <3>2. Range(s) = {}
      BY <2>1, <3>1 DEF Exact
    <3>3. 1 \notin DOMAIN s
      BY <3>2 DEF Range
    <3>4. DOMAIN s = 1 .. Len(s) /\ Len(s) \in Nat
      BY LenProperties
    <3>5. Len(s) = 0
      BY <3>3, <3>4
    <3> QED
      BY <3>1, <3>5, EmptySeq
  <2>3. Len(<< >>) - 1 < 1
    BY EmptySeq
  <2> QED
    BY <2>2, <2>3 DEF Ordered, Sorted
<1>2. IInv /\ IInv' /\ Timed /\ Ordered /\ [Next]_vars => Ordered'
  BY NextOrdered DEF Ordered
<1>3. IInv /\ Ordered => DisorderAtChildren
  BY OrderedMeans
<1>4. IInv /\ Timed /\ [Next]_vars => Timed'
  BY NextTimed DEF Timed
<1> QED
  BY <1>1, <1>2, <1>3, <1>4, InitTimed, Invariant, PTL DEF Spec
=============================================================================
