--------------------------- MODULE FairScheduler ---------------------------
(***************************************************************************)
(* Who gets the processor in the long run: the run queue of CFS.tla under  *)
(* a timer that never stops.  One action per entry into the scheduler:     *)
(* an interrupt with the switch it decides on, a fork, an exit.  The steps *)
(* between which a nested interrupt may come are those of Scheduler.tla;   *)
(* here only what they do to vruntimes and to the tree matters.            *)
(*                                                                         *)
(* The code's clock and vruntimes grow for ever.  Only differences decide, *)
(* so that Rebase counts the clock from the last update, vruntimes from    *)
(* the smallest one in use, and runtimes from the start of the slice.      *)
(***************************************************************************)
EXTENDS CFS, FiniteSetsExt

CONSTANT MaxMasked   \* bound: clock passed while preemption is disabled

ASSUME MaxMaskedAssumption == MaxMasked \in Nat

VARIABLES
  cfs,          \* cfs_rq and every task's sched_entity, rebased
  lag,          \* clock - cfs_rq.clock_task: what masked interrupts counted
  current,      \* the running task
  need_resched, \* TIF_NEED_RESCHED of current
  nr_tasks,     \* the next pid
  state         \* task_struct.state

vars == <<cfs, lag, current, need_resched, nr_tasks, state>>

-----------------------------------------------------------------------------
(* Values relative to the present *)

Runnable(c) == {t \in Task : c.se[t].on_rq}

\* A slice of at most eight tasks is shorter than sysctl_sched_latency, so
\* that a longer time on the processor decides nothing else.
Rebase(c) ==
  LET base == Min({c.min_vruntime} \cup {c.se[t].vruntime : t \in Runnable(c)})
      Used(t) == IF t = c.curr THEN Min({SliceUsed(c, t), sysctl_sched_latency})
                               ELSE 0
      Start0(t) == IF t = c.curr THEN c.se[t].exec_start - c.clock_task ELSE 0
  IN  [c EXCEPT !.clock_task = 0,
                !.min_vruntime = @ - base,
                !.se = [t \in Task |->
                  IF t \in Runnable(c)
                  THEN [vruntime |-> c.se[t].vruntime - base,
                        sum_exec_runtime |-> Used(t),
                        prev_sum_exec_runtime |-> 0,
                        exec_start |-> Start0(t), on_rq |-> TRUE]
                  ELSE BlankEntity]]

Init ==
  /\ cfs \in {Rebase(c) : c \in enqueue_entity(place_entity(EmptyRq, 0), 0)}
  /\ lag = 0
  /\ current = 0
  /\ need_resched = FALSE
  /\ nr_tasks = 1
  /\ state = [t \in Task |-> IF t = 0 THEN "running" ELSE "unused"]

-----------------------------------------------------------------------------
\* An interrupt while preempt_count is not 0: only the clock moves.
TickMasked ==
  /\ current # NoTask
  /\ lag + TICK <= MaxMasked
  /\ lag' = lag + TICK
  /\ UNCHANGED <<cfs, current, need_resched, nr_tasks, state>>

\* _schedule: the leftmost task runs next, the request is cleared.
Switch(c) ==
  /\ cfs' \in {Rebase(d) : d \in pick_next_task_fair(c, current)}
  /\ current' = cfs'.curr
  /\ need_resched' = FALSE

\* timer_tick: charge the running task, and leave it if its slice is used up
\* or if an earlier fork asked for that.
Tick ==
  /\ current # NoTask
  /\ lag' = 0
  /\ \E charged \in {update_curr(update_rq_clock(cfs, lag + TICK))} :
       IF need_resched \/ entity_tick(charged, current)
       THEN Switch(charged)
       ELSE /\ cfs' = Rebase(charged)
            /\ UNCHANGED <<current, need_resched>>
  /\ UNCHANGED <<nr_tasks, state>>

\* copy_process, when it gets a page, and task_fork_fair.  (When it does not,
\* its caller keeps the processor: FailedForkPins in Kernel.)
Fork ==
  LET child == nr_tasks
  IN  /\ current # NoTask
      /\ nr_tasks < NTasks
      /\ \E enqueued \in ForkEnqueue(cfs, child, lag) :
           /\ cfs' = Rebase(ForkSwap(enqueued, child))
           /\ need_resched' = (need_resched \/ ForkSwaps(enqueued, child))
      /\ lag' = 0
      /\ nr_tasks' = nr_tasks + 1
      /\ state' = [state EXCEPT ![child] = "running"]
      /\ UNCHANGED current

\* exit_process up to the switch; the last task has nobody to switch to, and
\* the kernel hangs.
Exit ==
  /\ current # NoTask
  /\ state' = [state EXCEPT ![current] = "dead"]
  /\ \E left \in dequeue_entity(cfs, current) :
       IF left.nr_running > 0
       THEN Switch(left)
       ELSE /\ cfs' = Rebase(left)
            /\ current' = NoTask
            /\ need_resched' = FALSE
  /\ UNCHANGED <<lag, nr_tasks>>

Next == TickMasked \/ Tick \/ Fork \/ Exit

Spec == Init /\ [][Next]_vars

\* handle_timer_irq sets the next interrupt before anything else, and no
\* section that disables preemption waits for anything: an interrupt that
\* finds preemption enabled always comes again.
FairSpec == Spec /\ WF_vars(Tick)

-----------------------------------------------------------------------------
\* Every runnable task gets the processor again and again, however the tasks
\* fork and exit, and although fork exchanges vruntimes in the tree, after
\* which the leftmost task need not be the one with the smallest vruntime.
EveryoneRuns ==
  \A t \in Task : []<>(state[t] = "running" => current = t)
=============================================================================
