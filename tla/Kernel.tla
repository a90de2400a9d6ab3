------------------------------- MODULE Kernel -------------------------------
(***************************************************************************)
(* The scheduler of Scheduler.tla together with the memory its tasks take: *)
(* the shell, kernel threads that move to user mode, user tasks that fork, *)
(* touch their stack and exit.                                             *)
(*                                                                         *)
(* get_free_page looks for a free entry of mem_map and then sets it.  In   *)
(* copy_process and exit_process preemption is disabled, and the step of   *)
(* Scheduler.tla takes or returns all pages at once.  Everywhere else the  *)
(* timer interrupt may come between the two: todo holds the requests of a  *)
(* task that are still to be served, found the entry it has just looked at.*)
(***************************************************************************)
EXTENDS SchedulerProps, Pages

CONSTANT MaxMounts   \* bound: mounts of the shell

ASSUME MaxMountsAssumption == MaxMounts \in Nat

VARIABLES
  mem_map,   \* mm.c: the pages taken
  mm,        \* task_struct.mm
  task_page, \* the page a task_struct stands in
  user,      \* the tasks that have gone to user mode
  ind,       \* mm.c: the static counter of do_mem_abort, from 0
  hung,      \* the tasks in err_hang, with interrupts enabled
  fs_pages,  \* the page of each fs_mount, in order
  buffer,    \* the page that fill, cat or ls works with
  todo,      \* per task: the requests still to be served
  found,     \* per task: the page between test and set, if any
  raced      \* history: has a task been preempted between test and set?

memory   == <<mem_map, mm, task_page, user, ind, hung, fs_pages, buffer>>
requests == <<todo, found>>
kvars    == <<vars, memory, requests, raced>>

KInit ==
  /\ Init
  /\ mem_map = {}
  /\ mm = [t \in Task |-> NoMm]
  /\ task_page = [t \in Task |-> NoPage]
  /\ user = {}
  /\ ind = 0
  /\ hung = {}
  /\ fs_pages = << >>
  /\ buffer = NoPage
  /\ todo = [t \in Task |-> << >>]
  /\ found = [t \in Task |-> NoPage]
  /\ raced = FALSE

\* The current task is outside the scheduler and outside get_free_page.
Free == At("run") /\ todo[current] = << >> /\ current \notin hung

-----------------------------------------------------------------------------
(* Steps of the scheduler that leave memory alone *)

KSchedule ==
  /\ \/ TickMasked \/ Tick \/ TickDecide \/ TickReturn
     \/ ScheduleEnter \/ ScheduleSwitch \/ SchedulePickNull \/ ScheduleNone
     \/ ScheduleResume \/ ScheduleTail
     \/ ForkNoPage \/ ForkReturn \/ ExitEnable \/ ExitSchedule \/ Hang
  /\ raced' = (raced \/ (current' # current /\ found[current] # NoPage))
  /\ UNCHANGED <<memory, requests>>

\* sys_fork of a user task, or copy_process(PF_KTHREAD, ...) of the boot task.
KForkEnter ==
  /\ Free
  /\ current = 0 \/ current \in user
  /\ ForkEnter
  /\ UNCHANGED <<memory, requests, raced>>

\* copy_process: the page of the task_struct, then copy_virt_memory.  A kernel
\* thread has no user pages; the child of a user task returns to user mode.
KForkChild ==
  LET child == nr_tasks
      needed == 1 + CopySize(mm[current])
      fresh == next_free(mem_map, needed)
  IN  /\ ForkChild
      /\ HasRoom(mem_map, needed)
      /\ mem_map' = mem_map \cup ToSet(fresh)
      /\ task_page' = [task_page EXCEPT ![child] = Head(fresh)]
      /\ mm' = [mm EXCEPT ![child] = copy_virt_memory(mm[current], Tail(fresh))]
      /\ user' = IF current \in user THEN user \cup {child} ELSE user
      /\ UNCHANGED <<ind, hung, fs_pages, buffer, requests, raced>>

\* sys_exit.
KExitEnter ==
  /\ Free
  /\ current \in user
  /\ ExitEnter
  /\ UNCHANGED <<memory, requests, raced>>

KExitDequeue ==
  /\ ExitDequeue
  /\ mem_map' = mem_map \ Returned(mm[current])
  /\ UNCHANGED <<mm, task_page, user, ind, hung, fs_pages, buffer, requests,
                 raced>>

-----------------------------------------------------------------------------
(* get_free_page with preemption enabled *)

Request(pages) ==
  /\ todo' = [todo EXCEPT ![current] = pages]
  /\ UNCHANGED <<vars, memory, found, raced>>

\* move_to_user_mode in a new kernel thread.
MoveToUser ==
  /\ Free
  /\ current # 0 /\ current \notin user
  /\ Request(Requests(mm[current], CODE))

\* el0_da: the first access to the stack.
DataAbort ==
  /\ Free
  /\ current \in user
  /\ \A i \in DOMAIN mm[current].user : mm[current].user[i].va # STACK
  /\ Request(Requests(mm[current], STACK))

Mount ==
  /\ Free
  /\ current = 0
  /\ Len(fs_pages) < MaxMounts
  /\ Request(<<"fs">>)

Buffer ==
  /\ Free
  /\ current = 0
  /\ buffer = NoPage
  /\ Request(<<"buffer">>)

FreeBuffer ==
  /\ Free
  /\ current = 0
  /\ buffer # NoPage
  /\ mem_map' = mem_map \ {buffer}
  /\ buffer' = NoPage
  /\ UNCHANGED <<vars, mm, task_page, user, ind, hung, fs_pages, requests,
                 raced>>

\* if(mem_map[i] == 0)
Test ==
  /\ At("run")
  /\ todo[current] # << >>
  /\ found[current] = NoPage
  /\ HasRoom(mem_map, 1)
  /\ found' = [found EXCEPT ![current] = first_free(mem_map)]
  /\ UNCHANGED <<vars, memory, todo, raced>>

\* mem_map[i] = 1, and what the caller does with the page.  When the last one
\* is served, the kernel thread is in user mode; do_mem_abort reports an error
\* for every page after the first one, although it has mapped it.
Set ==
  LET page == found[current]
      what == Head(todo[current])
      done == Len(todo[current]) = 1
  IN  /\ At("run")
      /\ page # NoPage
      /\ mem_map' = mem_map \cup {page}
      /\ found' = [found EXCEPT ![current] = NoPage]
      /\ todo' = [todo EXCEPT ![current] = Tail(@)]
      /\ mm' = [mm EXCEPT ![current] =
                  IF what = "table" THEN EnterTable(@, page)
                  ELSE IF what \in {CODE, STACK} THEN Enter(@, page, what)
                  ELSE @]
      /\ fs_pages' = IF what = "fs" THEN Append(fs_pages, page) ELSE fs_pages
      /\ buffer' = IF what = "buffer" THEN page ELSE buffer
      /\ user' = IF done /\ current # 0 THEN user \cup {current} ELSE user
      /\ ind' = IF what = STACK THEN ind + 1 ELSE ind
      /\ hung' = IF what = STACK /\ ind' > 1 THEN hung \cup {current} ELSE hung
      /\ UNCHANGED <<vars, task_page, raced>>

\* err_hang, which only the timer interrupt leaves.
Spin == At("run") /\ current \in hung /\ UNCHANGED kvars

KNext ==
  \/ KSchedule \/ KForkEnter \/ KForkChild \/ KExitEnter \/ KExitDequeue
  \/ MoveToUser \/ DataAbort \/ Mount \/ Buffer \/ FreeBuffer \/ Test \/ Set
  \/ Spin

KSpec == KInit /\ [][KNext]_kvars

-----------------------------------------------------------------------------
\* What a page can be in use for: the task_struct of a task, one of its user
\* pages or tables, a mount, or the buffer.  A task that has ended keeps the
\* page of its task_struct and its last table.
Uses ==
  LET created == {t \in Task : state[t] # "unused"}
      tables(t) == {i \in DOMAIN mm[t].kernel :
                      t \in Live \/ i = Len(mm[t].kernel)}
  IN  {<<"task", t, 0>> : t \in created \ {0}}
        \cup (UNION {{<<"user", t, i>> : i \in DOMAIN mm[t].user} : t \in Live})
        \cup (UNION {{<<"table", t, i>> : i \in tables(t)} : t \in created})
        \cup {<<"fs", 0, i>> : i \in DOMAIN fs_pages}
        \cup {<<"buffer", 0, 0>> : page \in {buffer} \ {NoPage}}

PageOf(kind, t, i) ==
  CASE kind = "task"   -> task_page[t]
    [] kind = "user"   -> mm[t].user[i].page
    [] kind = "table"  -> mm[t].kernel[i]
    [] kind = "fs"     -> fs_pages[i]
    [] kind = "buffer" -> buffer

Held == [use \in Uses |-> PageOf(use[1], use[2], use[3])]

\* No page has two uses, and mem_map marks exactly the pages in use and those
\* that stay behind: of a task that has ended, the page of its task_struct and
\* its last table; of a mount, its page.  As long as no task is preempted
\* between the test and the set of get_free_page, which nothing prevents.
PagesHeldOnce ==
  ~raced => /\ IsInjective(Held)
            /\ mem_map = Range(Held)
=============================================================================
