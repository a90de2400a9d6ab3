# Verification of the rpi-os kernel

TLA+ modules, TLC configurations and TLAPS proofs about the kernel under
`src/`: a single-core Raspberry Pi 3 kernel with a completely fair scheduler
(CFS), an ext2 file system on a RAM disk, and a shell on the mini UART.  The
repository has no documents and no tests; the reference is the code and its
comments.

## 1. The system

| Component | State | Operations | Interacts with |
|---|---|---|---|
| CFS policy, `fair.c` | `cfs_rq` (clock, min_vruntime, nr_running, load, tree, curr) and a `sched_entity` per task | `task_tick_fair`, `task_fork_fair`, `dequeue_entity`, `pick_next_task_fair`, `__calc_delta` | called by `sched.c`, `fork.c`; keeps its tree in `rbtree.c` |
| Red-black tree, `rbtree.c` | nodes with two children and a parent-and-colour word, root, cached leftmost node | `rb_insert_color_cached`, `rb_erase_cached`, `rb_next` | used by `fair.c` under `preempt_disable` |
| Scheduler core, `sched.c`, `sched.S` | `current`, `preempt_count`, `TIF_NEED_RESCHED`, task state, kernel stacks | `timer_tick`, `_schedule`, `schedule`, `switch_to`, `schedule_tail`, `exit_process` | interrupted by the timer in almost every place |
| Process creation, `fork.c` | `nr_tasks`, the new `task_struct` | `copy_process`, `move_to_user_mode` | `fair.c`, `mm.c` |
| Timer and interrupts, `timer.c`, `irq.c`, `entry.S` | `clock`, the interrupt mask | `handle_timer_irq`, entry and exit | `sched.c` |
| Pages, `mm.c` | `mem_map`, each task's page lists and tables | `get_free_page`, `free_page`, `map_page`, `copy_virt_memory`, `do_mem_abort` | `fork.c`, `sched.c`, `ext2_shell.c` |
| System calls, `sys.c`, `user.c` | none | fork, exit, write | `fork.c`, `sched.c` |
| RAM disk, `disksim.c` | the sectors | read, write | `ext2.c` |
| ext2, `ext2.c` | superblock, group descriptors, bitmaps, inodes, directories | format, mount, lookup, create, mkdir, read, write, release | `disksim.c`, `ext2_shell.c` |
| Shell, `shell.c`, `ext2_shell.c`, `entrylist.c` | mounted flag, current directory, `cd`'s path stack | the commands | `ext2.c` |
| Start-up, UART, printf, strings | registers only | | everything |

How they interact.  `kernel_main` brings up the timer and calls `sched_init`,
which makes the boot task the first one on the run queue; it then runs the
shell for ever.  Every timer interrupt adds 4 to `clock` and calls
`timer_tick`, which charges the running task, decides whether it has run for
long enough and calls `_schedule` if so.  `copy_process` creates tasks,
`exit_process` ends them.  (The call of `copy_process` in `kernel_main` is
commented out; the functions are modelled as they would be used through
`sys_fork` and the shell's `exit`.)

What is hard in it:

* `timer_tick` enables interrupts before it looks at `need_resched`, so ticks
  nest, in the middle of each other and of the code that disables and enables
  preemption; `preempt_count` belongs to the task, is raised in the task that
  leaves the processor and lowered in the one that gets it.
* `exit_process` enables preemption in a task that is off the run queue
  already, and only then calls `schedule()`.
* `task_fork_fair` changes keys inside the red-black tree;
  `pick_next_task_fair` reads the leftmost node before the previous task is
  put back.
* The tree's rebalancing has four cases with two mirror images each, and loops
  that only end if every turn climbs.
* `__calc_delta` replaces a division by a product with a truncated inverse.
* Pages are taken without any protection; several error paths leave state
  changed; ext2 keeps the same counts in four places.

## 2. Modules

| Module | What it is |
|---|---|
| `CFS` | the run queue as a record value, one operator per function of `fair.c` |
| `Scheduler` | the kernel around it: the state machine of ticks, switches, forks and exits |
| `SchedulerProps` | what the scheduler promises |
| `TaskSet` | abstract specification of the scheduler: one task runs, the others are ready; it is implemented by `Scheduler` |
| `FairScheduler` | the run queue under a timer that never stops: who runs in the long run |
| `Pages` | `mem_map` and a task's page lists, one operator per function of `mm.c` |
| `Kernel` | the scheduler together with the pages its tasks and the shell take |
| `Timeline` | abstract specification of the tree: a sequence with its first element |
| `RBTree`, `RBTreeMC` | `rbtree.c` pointer by pointer; it implements `Timeline` |
| `FixedPoint` | the 64-bit arithmetic of `__calc_delta`; it justifies the closed forms in `CFS` |
| `Ext2` | the disk as a record value, one operator per function of `ext2.c` |
| `Ext2Shell` | the shell around it: one action per command; `cat` and `ls` |
| `EntryList` | the linked list of `ls` and its sorts by exchange of neighbours |
| `FileMap` | the block pointers of one large file: three levels of indirect blocks |
| `BlockList` | abstract specification of a file: the list of its blocks; it is implemented by `FileMap` |
| `Ext2Props`, `Ext2MC` | what the file system promises, and its view for TLC |
| `FileTree` | abstract specification of the directories: a set of entries |
| `Lemmas` | lemmas about sequences, sums and induction over sets |
| `SchedulerProofs`, `QueueProofs`, `KernelProofs` | the proofs about the scheduler and its memory |
| `RBTreeProofs` | the proofs about the red-black tree |
| `Ext2DiskProofs`, `Ext2Proofs` | the proofs about the file system: what each function of `ext2.c` does to a disk in order, and the invariant of the shell |
| `FileMapProofs` | the proofs about the block pointers of a file |

`Scheduler` EXTENDS `CFS`, which takes the tree for the in-order sequence of
its nodes.  That abstraction is what `RBTree` is proved to implement: its
`ImplementsTimeline` maps the tree to the sequence and the cached leftmost node
to its first element.  The closed forms of `calc_delta_fair` and `sched_slice`
in `CFS` are checked against the code's arithmetic by `FixedPoint`.

How the modules build on each other:

    CFS ─ Scheduler ─ SchedulerProps ─┬─ Kernel          Ext2 ─┬─ Ext2Shell ─ Ext2Props ─ Ext2MC
     │                                │    │                   │      │
     ├─ FairScheduler                 │  Pages                 │  EntryList
     └─ FixedPoint          SchedulerProofs                    └─ FileMap
                              └─ QueueProofs ── KernelProofs   Ext2 ── Ext2DiskProofs ─┐
                                                (with Kernel)        Ext2Props ────────┴─ Ext2Proofs
    RBTree ─┬─ RBTreeMC
            └─ RBTreeProofs                                    FileMap, Ext2DiskProofs ── FileMapProofs

    implements:  Scheduler → TaskSet   RBTree → Timeline   Ext2Shell → FileTree   FileMap → BlockList

`Ext2` keeps an inode's blocks as a list; that the pointers of the code behave
as one is what `FileMap` shows.

### The scheduler

Every task has a stack of labels, innermost function first, in place of its
kernel stack and program counter; the module's header lists them.  A label
stands at each place where an interrupt makes a difference.  The steps are as
fine as the code's masking makes them: what runs with interrupts masked is one
step (`handle_timer_irq` up to `enable_irq` is `Tick`); what runs under
`preempt_disable` is one step too, because a tick that arrives there only
raises `clock` and returns (`TickMasked`), and nothing in such a section reads
`clock` twice.  `Tick` may happen wherever `preempt_count` is 0, including at
`tick` and `sched`, inside an earlier tick.  There is one core, so only the
current task's head label moves.

Assumptions of the model:

* All tasks have the priority 130 that `INIT_TASK` has and `copy_process`
  hands down, which is the weight 110.
* A dereference of NULL faults and ends in `err_hang` (`entry.S`): the model
  sets `halted`.  Address 0 goes through `TTBR0`; if a user task had mapped
  page 0 the kernel would read that page instead, which is not modelled.
* Where the tree is not ordered (after a fork) the place of an insertion
  depends on the tree's shape.  `Gaps` allows each place whose two neighbours
  are consistent with the descent, which contains what every shape can do.
* `copy_process` and `exit_process` are offered to every task at `run`.
* The pages of a task are in `Kernel`, not here: whether
  `allocate_kernel_page` fails is a choice, allowed by `PagesRunOut`.

`TaskSet` says what is left when policy, counts and interrupts are taken away:
a running task creates others, ends, or gives the processor to one that is
ready, and the processor stops when none is.  The mapping reads `ready` off the
tree, so that a task lost from the tree, dispatched twice or dispatched after
its end is a step the abstract specification does not have.

### Who runs in the long run

`FairScheduler` uses the operators of `CFS` in steps as coarse as the entries
into the scheduler, and keeps every value relative to the present (`Rebase`):
the code's clock and vruntimes grow for ever, the comparisons see only their
differences.  The state space becomes finite, so that liveness can be checked
without a bound on time: `EveryoneRuns`.  The tree's order matters here, since
`task_fork_fair` changes keys inside it: the module keeps the in-order sequence
as `CFS` does, with every place an insertion can take.

### Memory

`Kernel` takes the steps of `Scheduler` and adds to each what it does to
memory.  `copy_process` and `exit_process` call the allocator with preemption
disabled, so that all their pages are taken or returned in the step.
Everywhere else (`move_to_user_mode`, a demand page in `do_mem_abort`, the
pages of `mount`, and of `fill`, `cat` and `ls`) the timer can come between the
test of a `mem_map` entry and its marking: `todo` lists the pages a task has
still to get, `found` is the entry it has tested, `Test` and `Set` are the two
halves of `get_free_page`.  What the model follows the code in:

* `map_page` enters tables from index 1 of `kernel_pages` on, `exit_process`
  frees from index 0 on.  The last table and the page of the `task_struct` stay
  marked, and index 0 frees "page 0", which writes before the array; the model
  has no variable for that word.
* The page of a mount is never given back.
* `do_mem_abort` counts its calls over all tasks and reports an error from the
  second one on, after having mapped the page.  The task then stays in
  `err_hang`, with interrupts enabled (`hung`, `Spin`): the others go on.
* If a task is preempted between `Test` and `Set` the next one can be given the
  same page.  The code has no protection against it; `raced` remembers that it
  happened and `PagesHeldOnce` shows that it is the only way to two owners.

A user program has two pages, code and stack, which share their tables.  Not
modelled: what lies behind `mem_map` when its 10000 entries are used up, and so
a failing `copy_virt_memory`; `HasRoom` bounds the steps that take pages to
those that find them.

`Uses` names every use of a page (a task's structure, a table, a user page, a
mount, a buffer, a forgotten page) and `Held` the page of each, so that
`PagesHeldOnce` says: `Held` is injective and its range is the marked pages.

### The red-black tree and its arithmetic

`RBTree` keeps the three pointers and the colour of every node.  `Link` and
`Unlink` are `rb_link_node` and the splicing part of `rb_erase_cached`; after
them `phase` says which of the two rebalancing loops runs, `node` and `parent`
are its locals, and every case of its body is an action.  `Link` may put a node
at any free place, not only where its key belongs, because `task_fork_fair`
changes keys inside the tree.  A side stands for the two mirror images of the
code; a difference between the two images would not be seen by the model, and
was looked for by reading.

`FixedPoint` runs one call of `__calc_delta`: `Init` chooses the arguments that
`calc_delta_fair` and `sched_slice` can pass, `Multiply`, `Normalise` and
`Finish` are its three parts.  A 64-bit value is its eight bytes, because TLC's
integers have 32 bits.

### The file system

`Ext2` has no variables: every operator takes a disk and gives the disk after
the call, with the call's result where it has one.  The disk is a record:
`gd` (the group descriptor table of group 0, the only copy that is read),
`block_bitmap` and `inode_bitmap` (the sets of the marked ones), `inode` and
`data`.  A directory entry is a slot, a block holds `EntriesPerBlock` of them,
and a file's contents are slots too, so that a stale or foreign block shows as
one.  The name `""` is the terminator `DIR_ENTRY_NO_MORE`.  Walks over a
directory stop at it exactly where `ext2_lookup` and `ext2_read_dir` do: the
first slot of a block is visited whatever it holds.

`Ext2Shell` has a step per command, since the shell is one task and the disk has
no other user; a step fails or succeeds as the code does and leaves behind what
the failing call left.  Its state beside the disk: the number of formats (the
static counter of `ext2_format`), the file system pages handed out by mounts
with the copy of `gd` in them, which `ext2_create` consults and several calls
overwrite with another group's descriptor (`cached`), the mounted flag, the root
and current directories and `cd`'s path stack.

`cat` and `ls` change nothing and are operators, which two invariants apply in
every state.  `fs_cat` reads the blocks of `ext2_read` and cuts the first and
the last to the file's size.  `fs_ls` builds the list of `EntryList` from the
directory's blocks, drops the first two items unless told `-a`, and sorts it
with the code's bubble sort, which exchanges items by their `next` pointers.
`fill` writes the same text into every block, so that `FilesReadBack` does not
see a block of another file in the place of one's own; `BlocksOwnedOnce` does.

`FileMap` is one file on a disk whose other blocks are in use by `others`, from
every number of free blocks per group.  `SetBlock` is `set_inode_block`, with
its three parts that allocate a triple, a double and a single indirect block
where the file grows past a boundary; `Freed` is what `release_block` clears.
A call that fails half way keeps the indirect blocks it already took marked
and does not enter them: `LossOnlyWhenFull` bounds that loss.  Left out is the
write of `release_block` past the end of `inode->block` (`ext2.c:1644`).

Three constants keep commands out of the runs that leave the state in disorder,
each for a stated reason:

* `Spill = FALSE`: no inode is taken in a group after the first.  The code does
  that when group 0 has fewer than three free blocks, and then stores a wrong
  block number; `Ext2OtherGroup.cfg` has it TRUE and shows so (finding 2).
  Blocks are taken in every group in all runs.
* `MoveDirs = FALSE`: `mv` is given files, as its usage text says.  The code
  accepts directories and does not rewrite their `..`.
* `StaleDir = FALSE`: after a second mount no commands are given in a directory
  that the path stack kept from before it.

## 3. What the runs show

| Run | States | What it shows |
|---|---|---|
| `sched_interrupts` | 4,918,000 | three tasks, eight timer interrupts, up to two of them on one stack, forks that may find no page: the run queue, the preemption counts, the charged time and the requests to reschedule are exact in every interleaving, and the whole implements `TaskSet` |
| `sched_no_pages` | 5,793,912 | the scheduler with the memory of three tasks: no page has two uses unless a task was preempted inside `get_free_page`, and only the pages the code forgets stay marked; a `copy_process` that finds no page pins its caller to the processor |
| `fair` | 197,422 | four tasks that exit at will and fork while there is a pid left: every task that stays runnable runs again and again |
| `sched_forked_next` | violation | a forked child is not selected next (finding 1) |
| `fixed_point` | 3,123 | all 40 weights, up to 12 equal tasks: the arithmetic against the division |
| `rbtree_shapes` | 6,640 | every red-black shape of up to 11 nodes, every insertion and erasure in it: balance, pointers, no NULL followed, both loops end, refinement of `Timeline` |
| `ext2_full` | 87,286 | a disk that fills do exhaust: bitmaps, descriptors and inodes agree, what fails for lack of blocks loses nothing that had room, files read back and `ls` shows every entry once and in order |
| `ext2_remount` | 235,484 | nested directories over block boundaries and two mounts: they stay readable and implement `FileTree` |
| `file_map` | 24,679 | a file through all three levels of indirect blocks, from every number of free blocks: its pointers implement `BlockList`, every block has one owner, a full disk costs at most three blocks |
| `ext2_other_group` | violation | the first block of a file in another group is a foreign one (finding 2) |
| `ext2_reformat` | violation | a second format writes no descriptors (finding 3) |

The properties are stated with their reasons in `SchedulerProps`, `Kernel`,
`FairScheduler`, `RBTree`, `FixedPoint`, `Ext2Props` and `FileMap`;
`PROJECT.json` names for each a mutated definition of the code under which TLC
finds it violated.

Bounds, and why they are enough:

* Scheduler: three tasks are the fewest where a switch can choose wrongly
  between two others.  With `sysctl_sched_latency` 64 a slice is 31 of two
  tasks and 21 of three (`sched_slice`), and `vruntime` grows by 9 for each unit
  of time, so that two ticks of 4 reach `sysctl_sched_min_granularity` and put
  the current task more than a slice ahead of the leftmost one: of eight ticks
  several preempt, and a task loses the processor and gets it back.
  Two ticks on one stack are an interrupted tick; a third repeats the second
  one's effect on it.
* `Kernel`: the third task is what makes a switch between two user tasks
  possible while the boot task holds pages of its own; with four interrupts and
  one on a stack, a task is preempted between `Test` and `Set` and another one
  allocates.  Three tasks, a mount and a buffer take fewer than `NPages` = 24
  pages.
* `FairScheduler`: four tasks, and one masked interrupt before the next one
  that is not (`MaxMasked` = 4).  A pid is not used again, as in the code, so
  that the forks of a run are bounded by `NTasks`: three.  With more and more
  pids the differences between vruntimes are unbounded, and the check does not
  end; so the run says nothing of a loop of forks that goes on until the pages
  run out.  A `copy_process` that finds no page is left out too: `sched_no_pages`
  shows that its caller keeps the processor (`FailedForkPins`).
* Tree: eleven nodes give a black height of three.  An insertion then recolours
  twice and reaches the root, which takes ten nodes; an erasure's loop goes round
  once, which takes seven, and every case happens on both sides (both turns were
  confirmed by runs that asked for their absence).  A second round of the
  erasure takes fifteen nodes and is left to the proof.  The view names nodes by
  their place, so that one state stands for all the ways to name a shape; none
  of the properties needs more than that, because the end of the loops is stated
  of their steps (`TurnsRunOut`) and not as a liveness property.
* Arithmetic: the shift of `Normalise` depends on the weight only, and all
  weights are tried.  The execution times go up to 1656, from where on
  `delta * 1024 * weight` exceeds TLC's integers.
* ext2: 2 groups of 6 data blocks instead of 4 of 21, 6 inodes' room in a table
  for 8 as the code has 32 for 175, 3 or 4 entries in a block instead of 32,
  two names.  In `ext2_full` fills reach the last block of the disk, an `mv`
  that loses its file, and a file short of blocks (each was confirmed by a run
  that asked for its absence).  In `ext2_remount` subdirectories grow into a
  second block and shrink again, names are entered twice by `mv`, and
  directories nest.  A subdirectory with a block in group 1 is beyond it.
  The three fills of `ext2_full` take 1, 2 and 10 blocks.  `ls` is tried on up
  to four items, in all three orders, with and without `-a`.
* File map: one direct pointer and three pointers in a block instead of 12 and
  256, so that 40 blocks fill all levels; two groups of 29 blocks hold them
  with all their indirect blocks.  The disk as configured (120 blocks) reaches
  the single indirect block only; the larger `NUMBER_OF_SECTORS` that `disk.h`
  has commented out reaches the double one.
  `View` leaves out what free blocks and free inodes hold: the code zeroes a
  block when it takes it and writes an inode before it reads it, so that such
  contents never reach another variable.

Deadlock is checked in the scheduler, kernel and tree runs (`Hang` is the
kernel's `err_hang` loop).  It is not where the system may stop: a call of
`__calc_delta` ends, the bounds on mounts and formats leave an unmounted disk
without a command, a file that is at its capacity or cannot be created leaves
`FileMap` without a step, and when the last task has exited `FairScheduler` has
none.

Fairness is assumed in one place: `FairScheduler!FairSpec` has weak fairness of
`Tick`, the interrupt that finds preemption enabled: `handle_timer_irq` sets
the next compare value before anything else (`timer.c`), and every section that
disables preemption is straight code without a wait.  Nothing is assumed of
forks and exits.

### Findings

1. `fair.c:429`: `task_fork_fair` exchanges the vruntimes of parent and child
   after the child was put into the tree, so the child keeps the place of its
   larger vruntime.  The comments at `fair.c:22` and `fair.c:145` promise that
   it runs next.
2. `ext2.c:696` (and 926): the first block of a new file or directory is stored
   by its number within the group.  The comment at `ext2.c:1045` and the other
   writers of block numbers take the number on the whole disk.  The first file
   in group 1 thereby shares its block with the root directory.
3. `ext2.c:274`: the group counter in `ext2_format` is static.  The comment at
   `ext2.c:276` says the descriptors of all groups are copied; at the second
   format none is, and nothing can be created any more.

## 4. What is proved

TLAPS checks, for every number of tasks, every clock and every depth of nested
interrupts, that in every reachable state of `Scheduler`

* every variable keeps its type, so that `nr_running`, `load` and the
  preemption counts never go below zero (`TypeCorrect`);
* the run queue is exact (`RunqueueIsExact`);
* the NULL dereferences happen only when no other task could run
  (`HangsAlone`);
* only the running task carries `TIF_NEED_RESCHED` (`OnlyCurrentResched`);

and of its steps that a dead task does not come back (`DeadTasksStayDown`).
`TasksHandledAsSet` proves that `Scheduler` implements `TaskSet`: a fork is a `Create`,
`exit_process` an `End`, a switch a `Dispatch`, a hang a `Stop`, and every other
step leaves the four abstract variables alone.

`SchedulerProofs` also proves, for a page allocator that may fail, that the
preemption counts balance (`PreemptIsBalanced`), that every parked task holds
off preemption with a count of exactly 1 (`ParkedHoldOff`), that a failed
`copy_process` pins its caller (`FailedForksPin`) and that no tick returns with
a request to reschedule unserved (`RequestsAreServed`).

`QueueProofs` proves that every unit of the clock is charged once
(`TimeIsConserved`) and that the tree is out of order only at children that
never ran (`DisorderStaysAtChildren`).  `KernelProofs` proves that `Kernel`
implements `Scheduler`, and so has all of these properties, and that every
marked page has exactly one use unless a task was preempted inside
`get_free_page` (`PagesAreHeldOnce`), for every number of pages.

All rest on an inductive invariant, `IInv` in `SchedulerProofs` (`Invariant`):

* `TypeOK` and `Queue`: the run queue agrees with the task states.  This alone
  is not inductive: `ScheduleSwitch` takes the head of the tree for alive.
* `Created`: the tasks below `nr_tasks` are the created ones, and each has a
  stack whose outer frames do not hold off preemption.  Without it a return
  could lead into a section whose `preempt_enable` is still to come.
* `Disabled`: where a stack's head is before a `preempt_enable`, the count is
  above zero, which keeps the counts natural.
* `DeadLeaves`: a dead task that is still current has only ticks and
  `_schedule` above its frame of `exit_process`.  It keeps a dead task from
  forking and is what makes `exit_process`'s window after `preempt_enable` safe.
* `HangsOnlyAlone`.

The preemption counts need two more.  `Balanced`: a live task's count is never below
what its innermost label calls for, and equal to it except at the four labels
where a failed `copy_process` can have left it higher; `copy_process` returns
to `run` only; tasks that do not run are at `resume` or `tail`.  The exact
values alone are not inductive, because a return from `fork` could lead
anywhere.  `Quiet`: at `tick_end` and `resume` no request is pending; it needs
`Balanced` for the same return.

`QueueProofs` adds `Timed` and `Ordered`.  `Timed`: the runtimes add up to the
queue's clock, the running task is charged up to it, and it is not ahead of the
timer's.  The sum is a fold over a set; `Lemmas` proves what changing
one term does to it, by induction over subsets, for which it derives a
set-theoretic form of induction from the well-foundedness of the naturals.
`Ordered` is the order of neighbours; `Unrun` says which tasks are at `tail`.
An insertion goes to a gap whose neighbours agree with the descent; what the
proof must show is that the exchange of vruntimes in `task_fork_fair` makes a
new inversion at the child only, for which the current task must be out of the
tree.

A stronger property was stated before, that whatever has run is in order among
itself.  It holds for three and four tasks and the proof attempt failed at an
insertion beside a child: with five tasks a task put back can stand before one
of smaller vruntime on the child's other side.  `DisorderAtChildren` is what
does hold, for every number of tasks.

`KernelProofs` has `MInv`: `IInv`, the types of the memory (`MemoryTypeOK`),
`Serving` (which tasks wait for a page, and with which kind of request) and
`Unraced`: while `raced` is FALSE every use has a page of its own, these are
the marked ones, and the entry that a task has tested but not set is free and
no other task is between the two.  The last part is what the race breaks.  A
step changes the uses of one task; `UsesTaken` and `UsesReturned` say what
taking or giving back pages does to the injection, and each action is an
instance of one of them.

`SchedulerProofs` proves for each operator of `fair.c` what it does to an exact
queue (`Exact`), from lemmas about sequences in `Lemmas`; it has a lemma about
label stacks for each way a frame is pushed, replaced or
popped, then a lemma per action.  The assumptions are those of the modules'
`ASSUME`s: `NTasks` is a positive natural number and the bounds are natural
numbers.

### The file system

`Ext2Proofs` proves of the shell and its disk, for every number and size of
groups, every size of a block, every set of names and every depth of `cd`, that
types are kept (`TypesKept`: in particular `Less1` never meets a zero), that
every block has one owner (`BlocksAreOwnedOnce`), that the descriptors count
exactly (`CountsStayExact`), that directories are readable and entered where
their `..` leads (`DirectoriesStayWellFormed`), and that the current directory
and those on the path stack exist (`CurrentDirAlwaysExists`).  It also proves
that the shell implements `FileTree` (`ShellImplementsTree`); that no command
leaves an inode without an entry (`NewInodesAreEntered`), and an entry is lost
only by an `mv` on a full disk (`LossesNeedFullDisk`); that files read back as
they were written (`FilesAlwaysReadBack`) and are short of blocks only if the
disk got full (`ShortFilesNeedFullDisk`); and that no inode outside the inode
table is taken (`InodesStayInTable`).

The theorems have one hypothesis about the commands, `Disciplined`: it says that
the four bounding constants have the values that the passing runs give them
(section 2).  Each excludes a command after which the code itself breaks the
property: a second format zeroes the descriptors (finding 3), an inode of a
later group gets a wrong block (finding 2), a directory that `mv` moves keeps
its old `..`, and a directory of an earlier mount may be gone.
`InodesStayInTable` has a second one, `TableSuffices`, which compares the data
blocks of a group with the room in its table.  The code's numbers (10 reserved
inodes, 21 data blocks, 32 places) and those of the runs satisfy it.

The inductive invariant is `ShellInv` (`ShellKeepsOrder`): the types, and once
there was a format, `DiskAgrees`; while the disk is mounted also `HereAgrees`
and `PathAgrees`.

* `InodesAgree`: the reserved inodes are marked, every marked inode is one of
  group 0, and every inode in use has a first block, which is in group 0.  Without
  the last part `release_inode` would not count the inode: it does so only if
  one of the inode's blocks is in the inode's group.
* `BlocksAgree`, `BlockCounts`, `InodeCounts`: marks, owners and counters.
* `DirectoriesAgree`: for every directory `Shape` (the size says how many
  slots of the last block are filled, and every slot behind them is a
  terminator), `Filled` (the entries `.`, `..` and the named ones stand for
  inodes in use), and over all directories `EnteredOnce` and `Rooted`.
  `EnteredOnce` is what `release_dir_entry` needs, which compares the entry it
  removes and the last one by their inode.
* `PathAgrees`: each directory on the stack since the mount is entered in the
  one below it.  `rmdir` removes a directory without entries only; the chain is
  what tells that it is not one that `cd ..` returns to.

`Ext2DiskProofs` proves for each function of `ext2.c` what it does to a disk
with `DiskAgrees`, from the parts: a block is taken (`Took`) or given back
(`GaveBack`), an entry is added (`Added`) or removed with the last one in its
place (`Removed`), an inode gets a block (`Got`).  `Ext2Proofs` has a lemma per
command.

What a command changes is stated with it, in three parts (`Changes`).
`TreeChanges`: one entry of a new name more (`Enters`), one less (`Leaves`),
one elsewhere (`Relocates`), or none; that a walk of the code meets exactly the
entries of the tree (`TreeHas`), and that a name it did not find is new
(`NotFound`), makes each of them a step of `FileTree`.  `FilesChange`: every
file is as it was, or was `Stored` just now; a write either has all the blocks
it asked for and fills them, or went through all groups in vain (`Progress`).
`ReadFiller` shows that `ext2_read` puts a file together from its blocks again,
for which `FlattenFiller` follows the concatenation of blocks by induction over
their number.  `InodesChange`: an inode that was taken has all smaller ones
before it, each with its own first block in group 0, so that its number is
bounded by the blocks there (`LowInodes`).

### The block pointers of a file

`FileMapProofs` proves of `FileMap`, for every number of direct pointers, every
size of a block and every disk, that no block is used twice and release gives
back each one once (`BlocksOwnedOnce`), that the pointers implement the list of
`BlockList` (`MapImplementsList`), and that blocks are lost only by a write on a
full disk, at most three at a time (`LossesAreBounded`).  There are no
hypotheses beyond the `ASSUME`s of `Ext2` and `FileMap`.

The code works out from the number `k` of a block in the file which tables lead
to it, with divisions that differ from level to level.  The proof sees the
pointers as a tree instead: a node is a level (0 data, 3 triple indirect) and a
number within it, `Start` is the first block of the file below a node, and
`Parent` and `ParentSlot` say where its pointer is.  `DataIs`, `IndirectIs` and
`DoubleIs` show that the code's divisions follow this tree (`Coordinates`), and
`Places` that no two nodes have their pointers at one place.

The invariant is `MapInv` (`MapKept`), with `Mapped` as its main part: the nodes
that begin before the file's end (`Nodes`) stand for different blocks, which are
marked and not in use by others (`Owned`), and the counters count.  Ownership of
the index blocks is what makes it inductive: a new pointer goes to a table, and
if that table's block were another node's too, the write would change what that
node leads to.  `EnteredOwned` is the one lemma about such a write; a new table
of each level (`TripleStage`, `DoubleStage`, `IndirectStage`) and the data block
itself (`LastNode`) are instances of it.  Between two of them the disk is in a
state of its own, `Reached`: some of the tables that begin with block `k` are
there (`Above`), and every newly marked block is one of theirs.  From it follows
what a call leaves behind that fails at a later level (`FoundInVain`).  For the
release, `FreedLists` shows that the sequence `Freed` lists the blocks of all
nodes and none twice; the concatenation is followed by induction over the number
of sequences (`FlattenLists`).

### The red-black tree

`RBTreeProofs` proves of `RBTree`, for any finite set of nodes, that the tree
is red-black whenever no loop runs (`TreeIsRedBlack`), that its pointers up and
down agree in the loops too (`TreeParentsAgree`), that the loops never go on
with a NULL that their `while (true)` would follow (`TreeTyped`), that what
their cases follow without a test is there (`TreeCasesMeetNodes`), that both
loops end (`TreeTurnsRunOut`), and that it implements the sequence of
`Timeline` (`TreeImplementsTimeline`), which is what `CFS` takes it for.  The
only hypothesis is the `ASSUME` of `RBTree`.

The invariant `TreeInv` (`TreeKept`) says that there are nodes `S` with places
`pos` in an order for which the tree is right (`View`).  That a structure of
pointers is a tree at all is the hard part, for which reachability would not
do: no leaf of a proof can follow a path.  `Ordered` says it locally.  Every node
`x` has an interval `lo[x] .. hi[x]` of places with its own in it, the root has
all of them, and each kid has exactly the part before or after its parent
(`Below`); so nothing is shared, missing or circular.  The interval of a kid is
smaller, and induction over its length (`UpTheTree`) yields what the recursive
walks compute: the nodes reached from the root are `S` (`NodesAre`), the
in-order walk is the sequence by `pos` (`InOrderIs`), the walk to the left ends
at the place `lo` (`FarthestIs`), and `rb_next` of the first node is the second
(`NextOfFirst`), on which `rb_leftmost` rests.

Colours are local in the same way.  `Balanced` gives each node a black height
`h[x]` that its two sides agree on, but for one place, the gap, where one black
node is missing; `RedsApart` allows one red node below a red one.  `Working`
says which of them a loop has: an insertion the red node `node`, an erasure the
gap above `node`, on the side that `DoubleBlack` finds by comparing pointers.
It is what makes the erasure's tests safe: `SiblingFacts` shows from the heights
that the sibling of the gap is there, and so is the inner kid of a red one,
which the code follows without a test.

A rotation is `Turned`, whatever its colours: it keeps the order
(`TurnKeepsOrder`), and with the colours of each case moves or closes the gap
(`TurnRed`, `TurnFillsGap`).  `RotateUpIs`, `RotateSiblingIs` and `RotateInnerIs`
show that the code's sequences of writes are rotations, in spite of the
intermediate states in which parents and kids disagree; a kid that is NULL and
a parent that is the root are cases of these lemmas.  In the same way
`LinkKeepsOrder`, `SpliceKeepsOrder` and `ReplaceKeepsOrder` treat a new leaf, a
node with at most one kid, and a node whose successor takes its place.

The loops end because of a number that every turn makes smaller, `TurnsLeft`: the
level of the node an insertion is at, or one more than the level of the parent an
erasure is at.  A recolouring moves no node to another level (`LevelStays`) and
goes on further up (`LevelIs`).  The turn that could undo this is an erasure's at
a red sibling, which takes the parent one level down; but the parent was black
and is red after it (`RedSiblingBlackParent`, `ErasePaints`), and below a red
parent the next turn is the last.  `TurnsFall` proves this of every step of
`Next` in a loop, also of one that would change nothing, which a property of the
form `[][A]_v` cannot tell.  That a turn can always be taken is not in the
theorem, as the prover has no ENABLED: the run checks it, as the absence of
deadlock.

### What is only model-checked

`EveryoneRuns`, because TLAPS proves no liveness; the arithmetic, whose
recursive functions compute by data; and of the file system the list of `ls`
(`ListedInOrder`), whose sort is a fold over folds of an operator on linked
lists.

## 5. What is not modelled, and the plan

Not modelled:

* Device registers, printing and parsing (UART, `printf.c`, `string.c`, the
  shell's line), start-up, the register save of `cpu_switch_to`.
* `chmod`, which changes permission bits that only `ls` prints; `pwd` and `df`,
  which print; the free counters of the superblock, `links_count` and
  `directories_count`, which are only printed.  `ext2.c` has these wrong in
  places (`ext2.c:586`, `ext2.c:1470`, and the directory count goes down with
  every removed file at `ext2.c:1496`).
* What is behind an array: `mem_map` when it is full (`mm.c:27`), `inode->block`
  in `release_block` (`ext2.c:1644`), the one page that `fill` uses as its
  buffer when it is told more than 4096 bytes (`shell.c:351`), and
  `kernel_pages[0]`, which `exit_process` frees without its having been set.
* The wrap of the 32-bit `clock` after 2^30 interrupts.
* The RAM disk cannot fail and is lost at power-off, so there is no crash to
  recover from.

Left to do: `TaskSet` could state invariants of its own (the running task is not
ready, none that has ended is), which `Scheduler` then inherits.
