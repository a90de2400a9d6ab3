----------------------------- MODULE Scheduler -----------------------------
(***************************************************************************)
(* The preemptive scheduler of the kernel on its one core: the timer       *)
(* interrupt (timer.c, irq.c, entry.S), the scheduling functions of        *)
(* sched.c, copy_process (fork.c) and exit_process, over the run queue of  *)
(* CFS.tla.                                                                *)
(*                                                                         *)
(* Every task has a stack of labels, innermost first: where it stands in   *)
(* the kernel functions whose interleaving with the timer interrupt        *)
(* matters.  The interrupt may arrive between any two steps, also inside   *)
(* the handler of an earlier one once timer_tick has called enable_irq.    *)
(* What the handler does with interrupts masked is one step, and so is     *)
(* what runs under preempt_disable, where the interrupt only moves clock.  *)
(*                                                                         *)
(*   run         outside the scheduler: user code, system calls, the shell *)
(*   fork        copy_process, after preempt_disable                       *)
(*   fork_enable copy_process, before preempt_enable                       *)
(*   exit        exit_process, after preempt_disable                       *)
(*   exit_enable exit_process, before preempt_enable                       *)
(*   exit_sched  exit_process, before schedule()                           *)
(*   exited      exit_process, after schedule()                            *)
(*   tick        timer_tick, before if(need_resched())                     *)
(*   tick_end    timer_tick, before disable_irq                            *)
(*   sched       _schedule, before preempt_disable                         *)
(*   pick        _schedule, after it                                       *)
(*   resume      _schedule, after switch_to, before preempt_enable         *)
(*   tail        ret_from_fork, before schedule_tail                       *)
(***************************************************************************)
EXTENDS CFS, FiniteSets

CONSTANTS
  MaxClock,   \* bound: the last value of the clock
  MaxNest,    \* bound: timer interrupts nested in one task
  MaxLeak,    \* bound: preempt_count a task may reach
  PagesRunOut \* may allocate_kernel_page return 0?

ASSUME SchedulerAssumption ==
  /\ MaxClock \in Nat /\ MaxNest \in Nat /\ MaxLeak \in Nat
  /\ PagesRunOut \in BOOLEAN

VARIABLES
  clock,         \* timer.c: the tick clock, 4 per interrupt
  cfs,           \* sched.c: cfs_rq and every task's sched_entity
  current,       \* sched.c: the running task
  nr_tasks,      \* sched.c: the next pid
  preempt_count, \* thread_info.preempt_count of every task
  need_resched,  \* TIF_NEED_RESCHED of every task
  state,         \* task_struct.state, "unused" before copy_process
  stack,         \* where each task stands, innermost function first
  halted         \* a NULL pointer was dereferenced: the kernel hangs

vars == <<clock, cfs, current, nr_tasks, preempt_count, need_resched, state,
          stack, halted>>

Label == {"run", "fork", "fork_enable", "exit", "exit_enable", "exit_sched",
          "exited", "tick", "tick_end", "sched", "pick", "resume", "tail"}

TaskState == {"unused", "running", "dead"}

TypeOK ==
  /\ clock \in Nat
  /\ cfs \in CfsRq
  /\ current \in Task \cup {NoTask}
  /\ nr_tasks \in 1 .. NTasks
  /\ preempt_count \in [Task -> Nat]
  /\ need_resched \in [Task -> BOOLEAN]
  /\ state \in [Task -> TaskState]
  /\ stack \in [Task -> Seq(Label)]
  /\ halted \in BOOLEAN

-----------------------------------------------------------------------------
(* sched_init: the boot task is current, and placed before it is counted. *)

Init ==
  /\ clock = 0
  /\ cfs \in enqueue_entity(place_entity(EmptyRq, 0), 0)
  /\ current = 0
  /\ nr_tasks = 1
  /\ preempt_count = [t \in Task |-> 0]
  /\ need_resched = [t \in Task |-> FALSE]
  /\ state = [t \in Task |-> IF t = 0 THEN "running" ELSE "unused"]
  /\ stack = [t \in Task |-> IF t = 0 THEN <<"run">> ELSE << >>]
  /\ halted = FALSE

-----------------------------------------------------------------------------
(* The label stack of the running task *)

At(label) == ~halted /\ Head(stack[current]) = label

Goto(label) == [stack EXCEPT ![current] = <<label>> \o Tail(@)]
Call(label) == [stack EXCEPT ![current] = <<label>> \o @]
Return      == [stack EXCEPT ![current] = Tail(@)]

\* Call callee, to return to label.
CallFrom(label, callee) ==
  [stack EXCEPT ![current] = <<callee, label>> \o Tail(@)]

Nesting(t) ==
  Cardinality({i \in DOMAIN stack[t] : stack[t][i] \in {"tick", "tick_end"}})

preempt_disable == [preempt_count EXCEPT ![current] = @ + 1]
preempt_enable  == [preempt_count EXCEPT ![current] = @ - 1]

-----------------------------------------------------------------------------
(* The timer interrupt *)

\* timer_tick returns at once while the running task holds off preemption.
TickMasked ==
  /\ ~halted
  /\ clock + TICK <= MaxClock
  /\ preempt_count[current] > 0
  /\ clock' = clock + TICK
  /\ UNCHANGED <<cfs, current, nr_tasks, preempt_count, need_resched, state,
                 stack, halted>>

\* Mutated form: timer_tick does not look at preempt_count.
Tick_Unmasked ==
  LET charged == update_curr(update_rq_clock(cfs, clock + TICK))
  IN  /\ ~halted
      /\ clock + TICK <= MaxClock
      /\ Nesting(current) < MaxNest
      /\ clock' = clock + TICK
      /\ cfs' = charged
      /\ need_resched' = [need_resched EXCEPT ![current] =
                            @ \/ entity_tick(charged, current)]
      /\ stack' = Call("tick")
      /\ UNCHANGED <<current, nr_tasks, preempt_count, state, halted>>

\* handle_timer_irq, timer_tick and task_tick_fair up to enable_irq.  With an
\* empty tree check_preempt_tick would dereference NULL.
Tick ==
  LET charged == update_curr(update_rq_clock(cfs, clock + TICK))
  IN  /\ ~halted
      /\ clock + TICK <= MaxClock
      /\ preempt_count[current] = 0
      /\ Nesting(current) < MaxNest
      /\ clock' = clock + TICK
      /\ cfs' = charged
      /\ halted' = (ReadsLeftmost(charged, current)
                      /\ charged.tasks_timeline = << >>)
      /\ IF halted' THEN UNCHANGED <<need_resched, stack>>
         ELSE /\ need_resched' = [need_resched EXCEPT ![current] =
                                    @ \/ entity_tick(charged, current)]
              /\ stack' = Call("tick")
      /\ UNCHANGED <<current, nr_tasks, preempt_count, state>>

\* Mutated form: the request of this tick is left for the next one.
TickDecide_Late ==
  /\ At("tick")
  /\ stack' = Goto("tick_end")
  /\ UNCHANGED <<clock, cfs, current, nr_tasks, preempt_count, need_resched,
                 state, halted>>

\* timer_tick: if(need_resched()) _schedule();
TickDecide ==
  /\ At("tick")
  /\ stack' = IF need_resched[current] THEN CallFrom("tick_end", "sched")
                                       ELSE Goto("tick_end")
  /\ UNCHANGED <<clock, cfs, current, nr_tasks, preempt_count, need_resched,
                 state, halted>>

\* disable_irq and the eret of kernel_exit.
TickReturn ==
  /\ At("tick_end")
  /\ stack' = Return
  /\ UNCHANGED <<clock, cfs, current, nr_tasks, preempt_count, need_resched,
                 state, halted>>

-----------------------------------------------------------------------------
(* _schedule *)

\* Mutated form: _schedule without preempt_disable.
ScheduleEnter_Unmasked ==
  /\ At("sched")
  /\ stack' = Goto("pick")
  /\ UNCHANGED <<clock, cfs, current, nr_tasks, preempt_count, need_resched,
                 state, halted>>

ScheduleEnter ==
  /\ At("sched")
  /\ preempt_count' = preempt_disable
  /\ stack' = Goto("pick")
  /\ UNCHANGED <<clock, cfs, current, nr_tasks, need_resched, state, halted>>

\* Mutated form: the flag is cleared in next instead of prev.
ScheduleSwitch_ClearsNext ==
  /\ At("pick")
  /\ cfs.nr_running > 0
  /\ cfs.tasks_timeline # << >>
  /\ cfs' \in pick_next_task_fair(cfs, current)
  /\ current' = cfs'.curr
  /\ need_resched' = [need_resched EXCEPT ![cfs'.curr] = FALSE]
  /\ stack' = Goto("resume")
  /\ UNCHANGED <<clock, nr_tasks, preempt_count, state, halted>>

\* pick_next_task_fair, clear_tsk_need_resched(prev) and switch_to(next).
ScheduleSwitch ==
  /\ At("pick")
  /\ cfs.nr_running > 0
  /\ cfs.tasks_timeline # << >>
  /\ cfs' \in pick_next_task_fair(cfs, current)
  /\ current' = cfs'.curr
  /\ need_resched' = [need_resched EXCEPT ![current] = FALSE]
  /\ stack' = Goto("resume")
  /\ UNCHANGED <<clock, nr_tasks, preempt_count, state, halted>>

\* The tree is empty when pick_next_entity reads it: the running task is put
\* back, then set_next_entity(cfs_rq, NULL) dereferences NULL.
SchedulePickNull ==
  /\ At("pick")
  /\ cfs.nr_running > 0
  /\ cfs.tasks_timeline = << >>
  /\ cfs' \in put_prev_entity(cfs, current)
  /\ halted' = TRUE
  /\ UNCHANGED <<clock, current, nr_tasks, preempt_count, need_resched, state,
                 stack>>

\* Nothing is runnable: pick_next_task_fair returns NULL and switch_to(NULL)
\* dereferences it.
ScheduleNone ==
  /\ At("pick")
  /\ cfs.nr_running = 0
  /\ need_resched' = [need_resched EXCEPT ![current] = FALSE]
  /\ current' = NoTask
  /\ halted' = TRUE
  /\ UNCHANGED <<clock, cfs, nr_tasks, preempt_count, state, stack>>

\* The task is switched in again: cpu_switch_to returns in it.
ScheduleResume ==
  /\ At("resume")
  /\ preempt_count' = preempt_enable
  /\ stack' = Return
  /\ UNCHANGED <<clock, cfs, current, nr_tasks, need_resched, state, halted>>

\* The first switch to a new task: ret_from_fork, schedule_tail.
ScheduleTail ==
  /\ At("tail")
  /\ preempt_count' = preempt_enable
  /\ stack' = Goto("run")
  /\ UNCHANGED <<clock, cfs, current, nr_tasks, need_resched, state, halted>>

-----------------------------------------------------------------------------
(* copy_process *)

ForkEnter ==
  /\ At("run")
  /\ preempt_count[current] < MaxLeak
  /\ nr_tasks < NTasks \/ PagesRunOut
  /\ preempt_count' = preempt_disable
  /\ stack' = Call("fork")
  /\ UNCHANGED <<clock, cfs, current, nr_tasks, need_resched, state, halted>>

\* The task_struct is filled in and task_fork_fair puts it on the run queue.
ForkChild ==
  LET child == nr_tasks
  IN  /\ At("fork")
      /\ nr_tasks < NTasks
      /\ \E enqueued \in ForkEnqueue(cfs, child, clock) :
           /\ cfs' = ForkSwap(enqueued, child)
           /\ need_resched' = [need_resched EXCEPT
                 ![child] = FALSE,
                 ![current] = @ \/ ForkSwaps(enqueued, child)]
      /\ nr_tasks' = nr_tasks + 1
      /\ state' = [state EXCEPT ![child] = "running"]
      /\ preempt_count' = [preempt_count EXCEPT ![child] = 1]
      /\ stack' = [Goto("fork_enable") EXCEPT ![child] = <<"tail">>]
      /\ UNCHANGED <<clock, current, halted>>

\* allocate_kernel_page returned 0: copy_process returns -1, with preemption
\* still disabled.
ForkNoPage ==
  /\ At("fork")
  /\ PagesRunOut
  /\ stack' = Return
  /\ UNCHANGED <<clock, cfs, current, nr_tasks, preempt_count, need_resched,
                 state, halted>>

\* Mutated form: copy_process returns without preempt_enable.
ForkReturn_Leaks ==
  /\ At("fork_enable")
  /\ stack' = Return
  /\ UNCHANGED <<clock, cfs, current, nr_tasks, preempt_count, need_resched,
                 state, halted>>

ForkReturn ==
  /\ At("fork_enable")
  /\ preempt_count' = preempt_enable
  /\ stack' = Return
  /\ UNCHANGED <<clock, cfs, current, nr_tasks, need_resched, state, halted>>

-----------------------------------------------------------------------------
(* exit_process *)

ExitEnter ==
  /\ At("run")
  /\ preempt_count' = preempt_disable
  /\ stack' = Call("exit")
  /\ UNCHANGED <<clock, cfs, current, nr_tasks, need_resched, state, halted>>

\* The task leaves the run queue and gives its pages back.  The branch for a
\* task whose flags have PF_EXITING already needs a second call by one task:
\* a dead task never runs again (DeadStaysDown), so there is none.
ExitDequeue ==
  /\ At("exit")
  /\ cfs' \in dequeue_entity(cfs, current)
  /\ state' = [state EXCEPT ![current] = "dead"]
  /\ stack' = Goto("exit_enable")
  /\ UNCHANGED <<clock, current, nr_tasks, preempt_count, need_resched, halted>>

\* From here until _schedule disables preemption again a tick may still
\* arrive in the dead task, and preempt it.
ExitEnable ==
  /\ At("exit_enable")
  /\ preempt_count' = preempt_enable
  /\ stack' = Goto("exit_sched")
  /\ UNCHANGED <<clock, cfs, current, nr_tasks, need_resched, state, halted>>

\* schedule(): the vruntime of the caller is moved up by min_vruntime.
ExitSchedule ==
  /\ At("exit_sched")
  /\ cfs' = [cfs EXCEPT !.se[current].vruntime = @ + cfs.min_vruntime]
  /\ stack' = CallFrom("exited", "sched")
  /\ UNCHANGED <<clock, current, nr_tasks, preempt_count, need_resched, state,
                 halted>>

-----------------------------------------------------------------------------
\* handle_invalid_entry ends in err_hang, an endless loop with interrupts off.
Hang == halted /\ UNCHANGED vars

Next ==
  \/ TickMasked \/ Tick \/ TickDecide \/ TickReturn
  \/ ScheduleEnter \/ ScheduleSwitch \/ SchedulePickNull \/ ScheduleNone
  \/ ScheduleResume \/ ScheduleTail
  \/ ForkEnter \/ ForkChild \/ ForkNoPage \/ ForkReturn
  \/ ExitEnter \/ ExitDequeue \/ ExitEnable \/ ExitSchedule
  \/ Hang

Spec == Init /\ [][Next]_vars
=============================================================================
