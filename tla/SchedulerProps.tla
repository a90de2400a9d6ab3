--------------------------- MODULE SchedulerProps ---------------------------
(***************************************************************************)
(* What the scheduler of Scheduler.tla promises.                           *)
(***************************************************************************)
EXTENDS Scheduler, Functions

Live    == {t \in Task : state[t] = "running"}
Queued  == Range(cfs.tasks_timeline)

\* Every runnable task is on the run queue exactly once: the current one is
\* cfs_rq.curr and not in the tree, every other one is in the tree, and
\* nr_running and load count exactly these.  __dequeue_entity and
\* put_prev_entity (fair.c) and the stale decision of _schedule (sched.c)
\* could each lose a task or insert it twice.
RunqueueExact ==
  ~halted =>
    /\ cfs.curr = current
    /\ IsInjective(cfs.tasks_timeline)
    /\ Queued = {t \in Task : cfs.se[t].on_rq} \ {current}
    /\ {t \in Task : cfs.se[t].on_rq} = Live
    /\ cfs.nr_running = Cardinality(Live)
    /\ cfs.load = WEIGHT * cfs.nr_running

\* A task that is not running is parked inside _schedule, or before its first
\* schedule_tail, with preemption disabled, so that the timer_tick it resumes
\* into finds its count as preempt_disable (sched.c) left it.
ParkedNonPreemptible ==
  ~halted =>
    \A t \in Live \ {current} :
      preempt_count[t] = 1 /\ Head(stack[t]) \in {"resume", "tail"}

Masking == {"fork", "fork_enable", "exit", "exit_enable", "pick", "resume",
            "tail"}

\* How far a task's count is above what its place calls for: one inside the
\* sections that disable preemption, zero outside.
Excess(t) ==
  preempt_count[t] - (IF Head(stack[t]) \in Masking THEN 1 ELSE 0)

\* preempt_disable and preempt_enable balance across context switches, forks
\* and nested ticks: the excess of a live task stays what it was, 0 from its
\* creation on, but for the copy_process that finds no page.
PreemptBalance ==
  [][\A t \in Live' :
       Excess(t)' = (IF t \in Live THEN Excess(t) ELSE 0)
                      + (IF ForkNoPage /\ t = current THEN 1 ELSE 0)]_vars

\* The kernel dereferences NULL in _schedule or check_preempt_tick only when
\* no other task could run: when the last one exits, or when the only one left
\* acts on a decision to reschedule taken while there were others.
HangsOnlyAlone == halted => Live \subseteq {current, cfs.curr}

\* Every tick of clock_task is charged to exactly one task, also across forks,
\* nested ticks and exits: the runtimes add up to the clock, and the running
\* task is charged up to it.
TimeConserved ==
  ~halted =>
    /\ cfs.clock_task =
         SumFunction([t \in Task |-> cfs.se[t].sum_exec_runtime])
    /\ cfs.se[current].exec_start = cfs.clock_task

\* Only the task in the CPU carries TIF_NEED_RESCHED: _schedule clears it in
\* the task it leaves, which could otherwise give up its next slice at once.
ReschedOnlyCurrent ==
  \A t \in Task : need_resched[t] => halted \/ t = current

\* A task that called exit_process never runs again once it was left, whether
\* by its own schedule() or by a tick after preempt_enable.
DeadStaysDown ==
  [][\A t \in Task : state[t] = "dead" /\ current # t => current' # t]_vars

\* fair.c:145: min_vruntime is given to a forked task, which guarantees that
\* it is selected next; fair.c:22: after fork, child runs first.  Stated for
\* the forks where the code itself asks to reschedule in the child's favour
\* and gives it a smaller vruntime than every queued task has: the child is
\* then leftmost.  (Does not hold: the swap with the parent's vruntime comes
\* after the child's place in the tree is fixed.)
ForkedSelectedNext ==
  [][\A t \in Task :
       /\ state[t] = "unused" /\ state'[t] = "running"
       /\ ~need_resched[current] /\ need_resched'[current]
       /\ \A u \in Queued : cfs'.se[t].vruntime < cfs'.se[u].vruntime
       => Head(cfs'.tasks_timeline) = t]_vars

\* fork leaves children in the tree under keys that are not ordered.  All the
\* disorder of the tree starts there: of two neighbours in the tree the second
\* has the smaller vruntime only if it is a child that never ran.  A tree
\* without such children is in order, and the leftmost entity the smallest.
\* (A task put back beside a child can come to stand before one of smaller
\* vruntime on the child's other side: with five tasks it does.)
DisorderAtChildren ==
  LET s == cfs.tasks_timeline
  IN  ~halted => \A i \in 1 .. Len(s) - 1 :
                   entity_before(cfs, s[i + 1], s[i])
                     => Head(stack[s[i + 1]]) = "tail"

\* timer_tick acts on every request: no tick returns to the interrupted code
\* while the task is still asked to give up the processor, also when a nested
\* tick made the request or already acted on it.
RequestsServed == At("tick_end") => ~need_resched[current]

\* copy_process returns -1 with preemption still disabled when there is no
\* page left: from then on the caller keeps the processor until it exits.
FailedForkPins ==
  [][current' # current /\ preempt_count[current] > 1
       => state[current] = "dead"]_vars

TS == INSTANCE TaskSet WITH
        running <- current, ready <- Queued \ {current},
        ended <- {t \in Task : state[t] = "dead"}, stopped <- halted

\* The run queue, the context switches and the interrupts together handle
\* tasks as a set of which one runs: none is lost, none that has ended is
\* dispatched, and the kernel stops only when nothing is ready.
ImplementsTaskSet == TS!Spec
=============================================================================
