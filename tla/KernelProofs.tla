---------------------------- MODULE KernelProofs ----------------------------
(***************************************************************************)
(* The kernel with its pages is the scheduler: a step of Kernel.tla is one *)
(* of Scheduler.tla or leaves the scheduler's variables alone.  What is    *)
(* proved of the scheduler thereby holds of both together.  Of the memory: *)
(* no page has two uses, and mem_map marks the pages in use, unless a task *)
(* was preempted inside get_free_page.                                     *)
(***************************************************************************)
EXTENDS Kernel, QueueProofs

LEMMA MemorySteps ==
  MoveToUser \/ DataAbort \/ Mount \/ Buffer \/ FreeBuffer \/ Test \/ Set
    \/ Spin => UNCHANGED vars
BY DEF MoveToUser, DataAbort, Mount, Buffer, FreeBuffer, Test, Set, Spin,
       Request, kvars

\* The scheduler's part of every step.
LEMMA KernelStep == [KNext]_kvars => [Next]_vars
<1> SUFFICES ASSUME [KNext]_kvars PROVE [Next]_vars
  OBVIOUS
<1>1. CASE KSchedule
  BY <1>1 DEF KSchedule, Next
<1>2. CASE KForkEnter \/ KForkChild
  BY <1>2 DEF KForkEnter, KForkChild, Next
<1>3. CASE KExitEnter \/ KExitDequeue
  BY <1>3 DEF KExitEnter, KExitDequeue, Next
<1>4. CASE \/ MoveToUser \/ DataAbort \/ Mount \/ Buffer \/ FreeBuffer
           \/ Test \/ Set \/ Spin
  BY <1>4, MemorySteps
<1>5. CASE UNCHANGED kvars
  BY <1>5 DEF kvars
<1> QED
  BY <1>1, <1>2, <1>3, <1>4, <1>5 DEF KNext

\* Kernel implements Scheduler.
THEOREM KernelSchedules == KSpec => Spec
<1>1. KInit => Init
  BY DEF KInit
<1> QED
  BY <1>1, KernelStep, PTL DEF KSpec, Spec

\* With the pages too, a failed copy_process pins its caller: see
\* FailedForkPins.
THEOREM KernelFailedForksPin == KSpec => FailedForkPins
BY KernelSchedules, FailedForksPin, PTL

-----------------------------------------------------------------------------
(* Pages in use, as a function from the uses to the pages *)

\* Every use in h has a page of its own, and M is the set of these pages.
HeldOnce(h, M) == IsInjective(h) /\ M = Range(h)

\* New uses get pages that are not in use.
LEMMA TakePages ==
  ASSUME NEW h, NEW M, HeldOnce(h, M), NEW g, NEW N,
         DOMAIN g = DOMAIN h \cup N,
         \A u \in DOMAIN h : g[u] = h[u],
         \A u \in N : g[u] \notin M,
         \A u, v \in N : g[u] = g[v] => u = v
  PROVE  HeldOnce(g, M \cup {g[u] : u \in N})
<1>1. \A u \in DOMAIN h : g[u] \in M
  BY DEF HeldOnce, Range
<1>2. IsInjective(g)
  <2> SUFFICES ASSUME NEW u \in DOMAIN g, NEW v \in DOMAIN g, g[u] = g[v]
               PROVE  u = v
    BY DEF IsInjective
  <2>1. CASE u \in N /\ v \in N
    BY <2>1
  <2>2. CASE u \notin N /\ v \notin N
    BY <2>2 DEF HeldOnce, IsInjective
  <2>3. CASE (u \in N /\ v \notin N) \/ (u \notin N /\ v \in N)
    BY <1>1, <2>3
  <2> QED
    BY <2>1, <2>2, <2>3
<1>3. M \cup {g[u] : u \in N} = Range(g)
  BY DEF HeldOnce, Range
<1> QED
  BY <1>2, <1>3 DEF HeldOnce

\* Uses that end give their pages back.
LEMMA GivePages ==
  ASSUME NEW h, NEW M, HeldOnce(h, M), NEW g, NEW N,
         DOMAIN g = DOMAIN h \ N, N \subseteq DOMAIN h,
         \A u \in DOMAIN g : g[u] = h[u]
  PROVE  HeldOnce(g, M \ {h[u] : u \in N})
<1>1. IsInjective(g)
  BY DEF HeldOnce, IsInjective
<1>2. \A p : p \in M \ {h[u] : u \in N} <=> p \in Range(g)
  <2> TAKE p
  <2>1. p \in Range(g) => p \in M /\ p \notin {h[u] : u \in N}
    BY DEF HeldOnce, IsInjective, Range
  <2>2. p \in M \ {h[u] : u \in N} => p \in Range(g)
    BY DEF HeldOnce, Range
  <2> QED
    BY <2>1, <2>2
<1> QED
  BY <1>1, <1>2 DEF HeldOnce

-----------------------------------------------------------------------------
(* Free pages *)

\* A finite set of numbers has one with k smaller ones, for every k below its
\* size.
LEMMA NthSmallest ==
  ASSUME NEW T \in SUBSET Nat, IsFiniteSet(T)
  PROVE  \A k \in Nat :
           k < Cardinality(T) =>
             \E p \in T : Cardinality({q \in T : q < p}) = k
<1> DEFINE Has(k) == \E p \in T : Cardinality({q \in T : q < p}) = k
           G == {k \in Nat : k < Cardinality(T) => Has(k)}
<1>0. Cardinality(T) \in Nat
  BY FS_CardinalityType
<1>1. 0 \in G
  <2> SUFFICES ASSUME 0 < Cardinality(T) PROVE Has(0)
    OBVIOUS
  <2>1. T # {}
    BY FS_EmptySet
  <2>2. PICK p \in T : \A q \in T : p <= q
    BY <2>1, LeastNat
  <2>3. {q \in T : q < p} = {}
    <3>1. \A q \in T : ~(q < p)
      BY <2>2
    <3> QED
      BY <3>1
  <2>4. Cardinality({q \in T : q < p}) = 0
    BY <2>3, FS_EmptySet
  <2> QED
    BY <2>4
<1>2. ASSUME NEW k \in G PROVE k + 1 \in G
  <2> SUFFICES ASSUME k + 1 < Cardinality(T) PROVE Has(k + 1)
    OBVIOUS
  <2>1. PICK p \in T : Cardinality({q \in T : q < p}) = k
    BY <1>0
  <2>2. PICK below : below = {q \in T : q < p}
    OBVIOUS
  <2>3. IsFiniteSet(below) /\ p \notin below /\ Cardinality(below) = k
    BY <2>1, <2>2, FS_Subset
  <2>4. IsFiniteSet(below \cup {p}) /\ Cardinality(below \cup {p}) = k + 1
    BY <2>3, FS_AddElement
  <2>5. PICK above : above = {q \in T : q > p}
    OBVIOUS
  <2>6. above # {}
    <3> SUFFICES ASSUME above = {} PROVE FALSE
      OBVIOUS
    <3>1. \A q \in T : q < p \/ q = p \/ q > p
      OBVIOUS
    <3>2. T = below \cup {p}
      BY <2>2, <2>5, <3>1
    <3> QED
      BY <1>0, <2>4, <3>2
  <2>7. PICK r \in above : \A q \in above : r <= q
    <3>1. above \in SUBSET Nat
      BY <2>5
    <3> QED
      BY <2>6, <3>1, LeastNat
  <2>8. \A q \in T : q < r <=> q \in below \cup {p}
    BY <2>2, <2>5, <2>7
  <2>9. {q \in T : q < r} = below \cup {p}
    BY <2>2, <2>8
  <2>10. r \in T
    BY <2>5
  <2> QED
    BY <2>4, <2>9, <2>10
<1>3. G = Nat
  <2>1. G \in SUBSET Nat /\ \A k \in G : k + 1 \in G
    BY <1>2
  <2> HIDE DEF G
  <2> QED
    BY <1>1, <2>1, InductNat
<1> QED
  BY <1>3

\* get_free_page in a row returns pages that are free, each once.
FreePages(f, M, n) ==
  /\ f \in [1 .. n -> Page]
  /\ \A i \in 1 .. n : f[i] \notin M
  /\ \A i, j \in 1 .. n : f[i] = f[j] => i = j

LEMMA NextFree ==
  ASSUME NEW M \in SUBSET Page, NEW n \in Nat, HasRoom(M, n),
         NEW f, f = next_free(M, n)
  PROVE  FreePages(f, M, n)
<1>1. PICK T : T = Page \ M
  OBVIOUS
<1>2. T \in SUBSET Nat /\ T \subseteq Page /\ IsFiniteSet(T)
  <2>1. IsFiniteSet(Page)
    BY NPagesAssumption, FS_Interval DEF Page
  <2>2. T \subseteq Page
    BY <1>1
  <2>3. IsFiniteSet(T)
    BY <2>1, <2>2, FS_Subset
  <2>4. T \in SUBSET Nat
    BY <2>2, NPagesAssumption DEF Page
  <2> QED
    BY <2>2, <2>3, <2>4
<1>3. Cardinality(T) \in Nat /\ Cardinality(T) >= n
  BY <1>1, <1>2, FS_CardinalityType DEF HasRoom
<1>4. \A i \in 1 .. n : f[i] \in T /\ Cardinality({q \in T : q < f[i]}) = i - 1
  <2> TAKE i \in 1 .. n
  <2>1. PICK k \in Nat : k = i - 1 /\ k < Cardinality(T)
    BY <1>3
  <2>2. \E p \in T : Cardinality({q \in T : q < p}) = i - 1
    BY <1>2, <2>1, NthSmallest
  <2>3. f[i] = CHOOSE p \in T : Cardinality({q \in T : q < p}) = i - 1
    BY <1>1 DEF next_free
  <2> QED
    BY <2>2, <2>3
<1>5. \A i, j \in 1 .. n : f[i] = f[j] => i = j
  <2> TAKE i, j \in 1 .. n
  <2> HAVE f[i] = f[j]
  <2>1. i - 1 = j - 1
    BY <1>4
  <2> QED
    BY <2>1
<1>6. f \in [1 .. n -> Page]
  <2>1. f = [i \in 1 .. n |-> f[i]]
    BY DEF next_free
  <2> QED
    BY <1>2, <1>4, <2>1
<1> QED
  BY <1>1, <1>4, <1>5, <1>6 DEF FreePages

\* The entry that get_free_page finds is free.
LEMMA FirstFree ==
  ASSUME NEW M \in SUBSET Page, HasRoom(M, 1)
  PROVE  first_free(M) \in Page \ M
<1>1. PICK T : T = Page \ M
  OBVIOUS
<1>2. T \in SUBSET Nat /\ T # {}
  <2>1. T # {}
    BY <1>1, FS_EmptySet DEF HasRoom
  <2> QED
    BY <1>1, <2>1 DEF Page
<1>3. \E p \in T : \A q \in T : p <= q
  BY <1>2, LeastNat
<1> QED
  BY <1>1, <1>3 DEF first_free, Min

-----------------------------------------------------------------------------
(* The uses of pages *)

Used(k, t, i) == <<k, t, i>> \in Uses

\* Which uses there are, by kind, and the page of each.
UseKinds ==
  /\ DOMAIN Held = Uses
  /\ \A u \in Uses : u = <<u[1], u[2], u[3]>>
                     /\ u[1] \in {"task", "user", "table", "fs", "buffer"}
                     /\ Used(u[1], u[2], u[3])
                     /\ Held[u] = PageOf(u[1], u[2], u[3])
  /\ \A k, t, i : Used(k, t, i) => /\ <<k, t, i>> \in Uses
                                   /\ Held[<<k, t, i>>] = PageOf(k, t, i)
  /\ \A t, i : Used("task", t, i) <=>
                 t \in Task /\ state[t] # "unused" /\ t # 0 /\ i = 0
  /\ \A t, i : Used("user", t, i) <=>
                 t \in Live /\ i \in DOMAIN mm[t].user
  /\ \A t, i : Used("table", t, i) <=>
                 /\ t \in Task /\ state[t] # "unused"
                 /\ i \in DOMAIN mm[t].kernel
                 /\ t \in Live \/ i = Len(mm[t].kernel)
  /\ \A t, i : Used("fs", t, i) <=> t = 0 /\ i \in DOMAIN fs_pages
  /\ \A t, i : Used("buffer", t, i) <=> t = 0 /\ i = 0 /\ buffer # NoPage
  /\ \A t, i : /\ PageOf("task", t, i) = task_page[t]
               /\ PageOf("user", t, i) = mm[t].user[i].page
               /\ PageOf("table", t, i) = mm[t].kernel[i]
               /\ PageOf("fs", t, i) = fs_pages[i]
               /\ PageOf("buffer", t, i) = buffer

LEMMA KindsOfUse == UseKinds
<1>1. DOMAIN Held = Uses
  BY DEF Held
<1>2. \A u \in Uses : u = <<u[1], u[2], u[3]>>
                     /\ u[1] \in {"task", "user", "table", "fs", "buffer"}
  BY DEF Uses
<1>3. \A u \in Uses : /\ Used(u[1], u[2], u[3])
                      /\ Held[u] = PageOf(u[1], u[2], u[3])
  BY <1>2 DEF Used, Held
<1>4. \A k, t, i : Used(k, t, i) => /\ <<k, t, i>> \in Uses
                                   /\ Held[<<k, t, i>>] = PageOf(k, t, i)
  BY DEF Used, Held
<1>5. \A t, i : Used("task", t, i) <=>
                 t \in Task /\ state[t] # "unused" /\ t # 0 /\ i = 0
  BY DEF Used, Uses
<1>6. \A t, i : Used("user", t, i) <=> t \in Live /\ i \in DOMAIN mm[t].user
  BY DEF Used, Uses
<1>7. \A t, i : Used("table", t, i) <=>
                 /\ t \in Task /\ state[t] # "unused"
                 /\ i \in DOMAIN mm[t].kernel
                 /\ t \in Live \/ i = Len(mm[t].kernel)
  BY DEF Used, Uses
<1>8. \A t, i : Used("fs", t, i) <=> t = 0 /\ i \in DOMAIN fs_pages
  BY DEF Used, Uses
<1>9. \A t, i : Used("buffer", t, i) <=> t = 0 /\ i = 0 /\ buffer # NoPage
  BY DEF Used, Uses
<1>10. \A t, i : /\ PageOf("task", t, i) = task_page[t]
                 /\ PageOf("user", t, i) = mm[t].user[i].page
                 /\ PageOf("table", t, i) = mm[t].kernel[i]
                 /\ PageOf("fs", t, i) = fs_pages[i]
                 /\ PageOf("buffer", t, i) = buffer
  BY DEF PageOf
<1> QED
  BY <1>1, <1>2, <1>3, <1>4, <1>5, <1>6, <1>7, <1>8, <1>9, <1>10 DEF UseKinds

\* The same after a step.
LEMMA KindsNext == UseKinds'
BY KindsOfUse, PTL

LEMMA SameUses ==
  ASSUME UNCHANGED <<state, mm, task_page, fs_pages, buffer>>
  PROVE  Held' = Held
BY DEF Held, Uses, PageOf, Live

-----------------------------------------------------------------------------
(* The inductive invariant of the memory *)

Mm   == [user : Seq([page : Page, va : {CODE, STACK}]), kernel : Seq(Page)]
What == {"table", CODE, STACK, "fs", "buffer"}

MemoryTypeOK ==
  /\ mem_map \in SUBSET Page
  /\ mm \in [Task -> Mm]
  /\ task_page \in [Task -> Page \cup {NoPage}]
  /\ fs_pages \in Seq(Page)
  /\ buffer \in Page \cup {NoPage}
  /\ todo \in [Task -> Seq(What)]
  /\ found \in [Task -> Page \cup {NoPage}]
  /\ raced \in BOOLEAN

\* Where copy_process and exit_process hold off preemption.
InCall == {"fork", "fork_enable", "exit", "exit_enable"}

\* A task looks for pages outside these, and the shell for one buffer.
Serving ==
  \A t \in Task :
    /\ found[t] # NoPage => todo[t] # << >>
    /\ todo[t] # << >> => Head(stack[t]) \notin InCall
    /\ \A i \in 1 .. Len(todo[t]) :
         todo[t][i] = "buffer" =>
           t = 0 /\ Len(todo[t]) = 1 /\ buffer = NoPage

\* As long as no task was preempted between the test and the set, no other
\* task stands there, and the page found is still free.
Unraced ==
  ~raced => /\ HeldOnce(Held, mem_map)
            /\ \A t \in Task : found[t] # NoPage =>
                                 t = current /\ found[t] \notin mem_map

MInv == IInv /\ MemoryTypeOK /\ Serving /\ Unraced

LEMMA InitMemory == KInit => MInv
<1> SUFFICES ASSUME KInit PROVE MInv
  OBVIOUS
<1>1. IInv
  BY InitInv DEF KInit
<1>2. MemoryTypeOK
  <2>1. NoMm \in Mm
    BY DEF NoMm, Mm
  <2>2. << >> \in Seq(What) /\ << >> \in Seq(Page)
    OBVIOUS
  <2> QED
    BY <2>1, <2>2 DEF MemoryTypeOK, KInit
<1>3. Serving
  BY DEF Serving, KInit
<1>4. Unraced
  <2>1. Uses = {}
    <3>1. Live \subseteq Task /\ \A t \in Task : mm[t] = NoMm
      BY DEF KInit, Live
    <3>2. \A t \in Task : DOMAIN mm[t].user = {} /\ DOMAIN mm[t].kernel = {}
      BY <3>1 DEF NoMm
    <3>3. \A t, i : ~Used("task", t, i) /\ ~Used("buffer", t, i)
      BY KindsOfUse DEF UseKinds, KInit, Init
    <3>4. \A t, i : ~Used("user", t, i) /\ ~Used("table", t, i)
      BY <3>1, <3>2, KindsOfUse DEF UseKinds
    <3>5. \A t, i : ~Used("fs", t, i)
      BY KindsOfUse DEF UseKinds, KInit
    <3>6. \A u \in Uses : FALSE
      BY <3>3, <3>4, <3>5, KindsOfUse DEF UseKinds
    <3> QED
      BY <3>6
  <2>2. HeldOnce(Held, mem_map)
    BY <2>1 DEF HeldOnce, IsInjective, Range, Held, KInit
  <2> QED
    BY <2>2 DEF Unraced, KInit
<1> QED
  BY <1>1, <1>2, <1>3, <1>4 DEF MInv

-----------------------------------------------------------------------------
(* Steps that leave the memory alone *)

\* The scheduler moves a task into copy_process and exit_process only where
\* Kernel.tla has steps of its own.
LEMMA StaysOutside ==
  ASSUME IInv,
         \/ TickMasked \/ Tick \/ TickDecide \/ TickReturn
         \/ ScheduleEnter \/ ScheduleSwitch \/ SchedulePickNull \/ ScheduleNone
         \/ ScheduleResume \/ ScheduleTail
         \/ ForkNoPage \/ ForkReturn \/ ExitEnable \/ ExitSchedule \/ Hang
  PROVE  \A t \in Task : \/ stack'[t] = stack[t]
                         \/ Head(stack'[t]) \notin InCall
<1>1. CASE stack' = stack
  BY <1>1
<1>2. ASSUME ~halted, NEW l \in Label \ InCall, NEW m \in Label \ InCall,
             stack' = Goto(l) \/ stack' = Call(l) \/ stack' = CallFrom(m, l)
      PROVE  \A t \in Task : \/ stack'[t] = stack[t]
                             \/ Head(stack'[t]) \notin InCall
  <2>1. /\ Head(Goto(l)[current]) = l
        /\ Head(Call(l)[current]) = l
        /\ Head(CallFrom(m, l)[current]) = l
        /\ \A t \in Task \ {current} : /\ Goto(l)[t] = stack[t]
                                       /\ Call(l)[t] = stack[t]
                                       /\ CallFrom(m, l)[t] = stack[t]
    BY <1>2, HeadAfter
  <2> QED
    BY <1>2, <2>1
<1>3. ASSUME ~halted, Head(stack[current]) \notin {"run", "tail"},
             stack' = Return
      PROVE  \A t \in Task : \/ stack'[t] = stack[t]
                             \/ Head(stack'[t]) \notin InCall
  <2>1. \A t \in Task \ {current} : stack'[t] = stack[t]
    BY <1>3 DEF Return, IInv, TypeOK
  <2>2. stack'[current] = Tail(stack[current])
    BY <1>3, CurrentFacts DEF Return, IInv, TypeOK
  <2>3. Head(Tail(stack[current])) \notin Masking
    BY <1>3, CurrentFacts, ReturnFrames
  <2> QED
    BY <2>1, <2>2, <2>3 DEF Masking, InCall
<1>4. CASE TickMasked \/ SchedulePickNull \/ ScheduleNone \/ Hang
  BY <1>1, <1>4
     DEF TickMasked, SchedulePickNull, ScheduleNone, Hang, vars
<1>5. CASE Tick
  BY <1>1, <1>2, <1>5 DEF Tick, Label, InCall
<1>6. CASE TickDecide
  <2>1. stack' = CallFrom("tick_end", "sched") \/ stack' = Goto("tick_end")
    BY <1>6 DEF TickDecide
  <2>2. "sched" \in Label \ InCall /\ "tick_end" \in Label \ InCall
    BY DEF Label, InCall
  <2>3. ~halted
    BY <1>6 DEF TickDecide, At
  <2> QED
    BY <1>2, <2>1, <2>2, <2>3
<1>7. CASE ScheduleEnter \/ ScheduleSwitch \/ ScheduleTail \/ ExitEnable
  BY <1>2, <1>7
     DEF ScheduleEnter, ScheduleSwitch, ScheduleTail, ExitEnable, At,
         Label, InCall
<1>8. CASE ExitSchedule
  BY <1>2, <1>8 DEF ExitSchedule, At, Label, InCall
<1>9. CASE TickReturn \/ ScheduleResume \/ ForkNoPage \/ ForkReturn
  BY <1>3, <1>9 DEF TickReturn, ScheduleResume, ForkNoPage, ForkReturn, At
<1> QED
  BY <1>4, <1>5, <1>6, <1>7, <1>8, <1>9

\* Steps that leave the memory and the requests alone.
LEMMA MemoryAlone ==
  ASSUME MInv, UNCHANGED <<state, memory, requests>>,
         raced' \in BOOLEAN,
         ~raced' => ~raced /\ (current' = current \/ found[current] = NoPage),
         \A t \in Task : todo[t] # << >> => \/ stack'[t] = stack[t]
                                            \/ Head(stack'[t]) \notin InCall
  PROVE  (MemoryTypeOK /\ Serving /\ Unraced)'
<1>1. /\ UNCHANGED <<state, mem_map, mm, task_page, fs_pages, buffer>>
      /\ UNCHANGED <<todo, found>>
  BY DEF memory, requests
<1>2. MemoryTypeOK'
  BY <1>1 DEF MInv, MemoryTypeOK
<1>3. Serving'
  BY <1>1 DEF MInv, Serving
<1>4. Unraced'
  BY <1>1, SameUses DEF MInv, Unraced
<1> QED
  BY <1>2, <1>3, <1>4

LEMMA ScheduleMemory ==
  ASSUME MInv, KSchedule
  PROVE  (MemoryTypeOK /\ Serving /\ Unraced)'
<1>1. UNCHANGED state
  BY DEF KSchedule, TickMasked, Tick, TickDecide, TickReturn, ScheduleEnter,
         ScheduleSwitch, SchedulePickNull, ScheduleNone, ScheduleResume,
         ScheduleTail, ForkNoPage, ForkReturn, ExitEnable, ExitSchedule,
         Hang, vars
<1>2. \A t \in Task : \/ stack'[t] = stack[t]
                      \/ Head(stack'[t]) \notin InCall
  BY StaysOutside DEF MInv, KSchedule
<1>3. /\ raced' = (raced \/ (current' # current /\ found[current] # NoPage))
      /\ UNCHANGED <<memory, requests>>
  BY DEF KSchedule
<1>4. raced' \in BOOLEAN
  BY <1>3 DEF MInv, MemoryTypeOK
<1> QED
  BY <1>1, <1>2, <1>3, <1>4, MemoryAlone DEF MInv, MemoryTypeOK

LEMMA EnterMemory ==
  ASSUME MInv, KForkEnter \/ KExitEnter
  PROVE  (MemoryTypeOK /\ Serving /\ Unraced)'
<1>1. /\ ~halted /\ todo[current] = << >> /\ UNCHANGED <<state, current, raced>>
      /\ UNCHANGED <<memory, requests>>
      /\ stack' = Call("fork") \/ stack' = Call("exit")
  BY DEF KForkEnter, KExitEnter, Free, At, ForkEnter, ExitEnter
<1>2. \A t \in Task \ {current} : stack'[t] = stack[t]
  <2>1. IInv /\ "fork" \in Label /\ "exit" \in Label
    BY DEF MInv, Label
  <2> QED
    BY <1>1, <2>1, HeadAfter
<1>3. raced \in BOOLEAN
  BY DEF MInv, MemoryTypeOK
<1> QED
  BY <1>1, <1>2, <1>3, MemoryAlone

LEMMA RequestMemory ==
  ASSUME MInv, MoveToUser \/ DataAbort \/ Mount \/ Buffer
  PROVE  (MemoryTypeOK /\ Serving /\ Unraced)'
<1>1. PICK pages :
        /\ Request(pages)
        /\ \/ pages = <<"fs">>
           \/ pages = <<"buffer">> /\ current = 0 /\ buffer = NoPage
           \/ \E va \in {CODE, STACK} : pages = Requests(mm[current], va)
        /\ Free
  BY DEF MoveToUser, DataAbort, Mount, Buffer
<1>2. /\ ~halted /\ Head(stack[current]) = "run" /\ todo[current] = << >>
  BY <1>1 DEF Free, At
<1>3. /\ current \in Task
      /\ UNCHANGED <<state, current, stack, raced, found>>
      /\ UNCHANGED <<mem_map, mm, task_page, fs_pages, buffer>>
      /\ todo' = [todo EXCEPT ![current] = pages]
  BY <1>1, <1>2, CurrentFacts DEF MInv, Request, vars, memory
<1>4. /\ pages \in Seq(What) /\ pages # << >>
      /\ \A i \in 1 .. Len(pages) :
           pages[i] = "buffer" =>
             current = 0 /\ Len(pages) = 1 /\ buffer = NoPage
  <2>1. CASE pages = <<"fs">>
    BY <2>1 DEF What
  <2>2. CASE pages = <<"buffer">> /\ current = 0 /\ buffer = NoPage
    BY <2>2 DEF What
  <2>3. ASSUME NEW va \in {CODE, STACK}, pages = Requests(mm[current], va)
        PROVE  /\ pages \in Seq(What) /\ pages # << >>
               /\ \A i \in 1 .. Len(pages) : pages[i] # "buffer"
    <3>1. PICK n \in Nat :
            pages = <<va>> \o [i \in 1 .. n |-> "table"]
      BY <2>3 DEF Requests, TABLES
    <3>2. PICK s : s = [i \in 1 .. n |-> "table"]
      OBVIOUS
    <3>3. s \in Seq({"table", CODE, STACK}) /\ Len(s) = n
          /\ \A i \in 1 .. n : s[i] = "table"
      BY <3>2, SeqDef DEF What
    <3>4. /\ pages \in Seq({"table", CODE, STACK}) /\ pages # << >>
          /\ Len(pages) \in Nat
      BY <3>1, <3>2, <3>3, PushFacts, LenProperties
    <3>5. \A i \in 1 .. Len(pages) : pages[i] \in {"table", CODE, STACK}
      BY <3>4, ElementOfSeq
    <3>6. pages \in Seq(What)
      BY <3>4, SeqMonotonic DEF What
    <3> QED
      BY <3>4, <3>5, <3>6 DEF CODE, STACK
  <2> QED
    BY <1>1, <2>1, <2>2, <2>3
<1>5. MemoryTypeOK'
  BY <1>3, <1>4 DEF MInv, MemoryTypeOK
<1>6. Serving'
  <2>1. /\ todo'[current] = pages
        /\ \A t \in Task \ {current} : todo'[t] = todo[t]
    BY <1>3 DEF MInv, MemoryTypeOK
  <2>2. \A t \in Task \ {current} :
          /\ found'[t] # NoPage => todo'[t] # << >>
          /\ todo'[t] # << >> => Head(stack'[t]) \notin InCall
          /\ \A i \in 1 .. Len(todo'[t]) :
               todo'[t][i] = "buffer" =>
                 t = 0 /\ Len(todo'[t]) = 1 /\ buffer' = NoPage
    BY <1>3, <2>1 DEF MInv, Serving
  <2>3. /\ found'[current] # NoPage => todo'[current] # << >>
        /\ todo'[current] # << >> => Head(stack'[current]) \notin InCall
        /\ \A i \in 1 .. Len(todo'[current]) :
             todo'[current][i] = "buffer" =>
               current = 0 /\ Len(todo'[current]) = 1 /\ buffer' = NoPage
    BY <1>2, <1>3, <1>4, <2>1 DEF InCall
  <2> QED
    BY <2>2, <2>3 DEF Serving
<1>7. Unraced'
  BY <1>3, SameUses DEF MInv, Unraced
<1> QED
  BY <1>5, <1>6, <1>7

LEMMA SpinMemory ==
  ASSUME MInv, UNCHANGED kvars
  PROVE  (MemoryTypeOK /\ Serving /\ Unraced)'
<1>1. /\ UNCHANGED <<state, current, stack, raced>>
      /\ UNCHANGED <<memory, requests>>
  BY DEF kvars, vars
<1> QED
  BY <1>1, MemoryAlone DEF MInv, MemoryTypeOK

LEMMA TestMemory ==
  ASSUME MInv, Test
  PROVE  (MemoryTypeOK /\ Serving /\ Unraced)'
<1>1. PICK page : page = first_free(mem_map)
  OBVIOUS
<1>2. /\ ~halted /\ todo[current] # << >>
      /\ UNCHANGED <<state, current, stack, raced, todo>>
      /\ UNCHANGED <<mem_map, mm, task_page, fs_pages, buffer>>
      /\ found' = [found EXCEPT ![current] = page]
      /\ HasRoom(mem_map, 1)
  BY <1>1 DEF Test, At, vars, memory
<1>3. current \in Task /\ page \in Page \ mem_map
  BY <1>1, <1>2, CurrentFacts, FirstFree DEF MInv, MemoryTypeOK
<1>4. /\ found'[current] = page
      /\ \A t \in Task \ {current} : found'[t] = found[t]
  BY <1>2, <1>3 DEF MInv, MemoryTypeOK
<1>5. MemoryTypeOK'
  BY <1>2, <1>3 DEF MInv, MemoryTypeOK
<1>6. Serving'
  BY <1>2, <1>4 DEF MInv, Serving
<1>7. Unraced'
  BY <1>2, <1>3, <1>4, SameUses DEF MInv, Unraced
<1> QED
  BY <1>5, <1>6, <1>7

-----------------------------------------------------------------------------
(* Steps that take or return pages *)

Kind == {"task", "user", "table", "fs", "buffer"}

\* A step that brings the uses in N and ends those in G, kind by kind.
Changes(N, G) ==
  /\ \A u \in N : u = <<u[1], u[2], u[3]>> /\ u[1] \in Kind
  /\ \A k \in Kind : \A t, i :
       /\ Used(k, t, i)' <=> \/ Used(k, t, i) /\ <<k, t, i>> \notin G
                             \/ <<k, t, i>> \in N \ G
       /\ Used(k, t, i) /\ <<k, t, i>> \notin G =>
            PageOf(k, t, i)' = PageOf(k, t, i)

LEMMA UsesByKind ==
  ASSUME NEW N, NEW G, Changes(N, G)
  PROVE  /\ DOMAIN Held = Uses /\ DOMAIN Held' = (Uses \cup N) \ G
         /\ \A u \in Uses \ G : Held'[u] = Held[u]
<1>1. \A u \in Uses : /\ u = <<u[1], u[2], u[3]>> /\ u[1] \in Kind
                      /\ Used(u[1], u[2], u[3])
                      /\ Held[u] = PageOf(u[1], u[2], u[3])
  BY KindsOfUse DEF UseKinds, Kind
<1>2. \A u \in Uses' : /\ u = <<u[1], u[2], u[3]>> /\ u[1] \in Kind
                       /\ Used(u[1], u[2], u[3])'
                       /\ Held'[u] = PageOf(u[1], u[2], u[3])'
  BY KindsNext DEF UseKinds, Kind
<1>3. \A k, t, i : /\ Used(k, t, i) <=> <<k, t, i>> \in Uses
                   /\ Used(k, t, i)' <=> <<k, t, i>> \in Uses'
  BY DEF Used
<1>4. \A u : u \in Uses' <=> u \in (Uses \cup N) \ G
  <2> TAKE u
  <2>1. ASSUME u \in Uses' PROVE u \in (Uses \cup N) \ G
    BY <1>2, <1>3, <2>1 DEF Changes
  <2>2. ASSUME u \in (Uses \cup N) \ G PROVE u \in Uses'
    <3>1. u = <<u[1], u[2], u[3]>> /\ u[1] \in Kind
      BY <1>1, <2>2 DEF Changes
    <3> QED
      BY <1>3, <2>2, <3>1 DEF Changes
  <2> QED
    BY <2>1, <2>2
<1>5. \A u \in Uses \ G : Held'[u] = Held[u]
  BY <1>1, <1>2, <1>4 DEF Changes
<1>6. DOMAIN Held = Uses /\ DOMAIN Held' = Uses'
  BY KindsOfUse, KindsNext DEF UseKinds
<1> QED
  BY <1>4, <1>5, <1>6

\* The kinds of use a step does not touch.
LEMMA SameKinds ==
  /\ UNCHANGED <<state, task_page>> =>
       \A t, i : /\ Used("task", t, i)' <=> Used("task", t, i)
                 /\ PageOf("task", t, i)' = PageOf("task", t, i)
  /\ UNCHANGED <<state, mm>> =>
       \A t, i : /\ Used("user", t, i)' <=> Used("user", t, i)
                 /\ PageOf("user", t, i)' = PageOf("user", t, i)
                 /\ Used("table", t, i)' <=> Used("table", t, i)
                 /\ PageOf("table", t, i)' = PageOf("table", t, i)
  /\ UNCHANGED fs_pages =>
       \A t, i : /\ Used("fs", t, i)' <=> Used("fs", t, i)
                 /\ PageOf("fs", t, i)' = PageOf("fs", t, i)
  /\ UNCHANGED buffer =>
       \A t, i : /\ Used("buffer", t, i)' <=> Used("buffer", t, i)
                 /\ PageOf("buffer", t, i)' = PageOf("buffer", t, i)
<1>1. UseKinds /\ UseKinds'
  BY KindsOfUse, KindsNext
<1>2. UNCHANGED state => Live' = Live
  BY DEF Live
<1> QED
  BY <1>1, <1>2 DEF UseKinds

\* The task at "run" is alive.
LEMMA RunsAlive ==
  ASSUME IInv, ~halted, Head(stack[current]) \in {"run", "exit", "fork"}
  PROVE  current \in Live
<1>1. CASE state[current] = "dead"
  <2>1. Leaving(stack[current])
    BY <1>1 DEF IInv, DeadLeaves
  <2> QED
    BY <2>1, CurrentFacts, LeavingHead DEF Exiting, Passing
<1> QED
  BY <1>1, CurrentFacts

LEMMA FreeBufferMemory ==
  ASSUME MInv, FreeBuffer
  PROVE  (MemoryTypeOK /\ Serving /\ Unraced)'
<1>1. /\ ~halted /\ todo[current] = << >> /\ buffer # NoPage /\ buffer' = NoPage
      /\ UNCHANGED <<state, current, stack, raced, todo, found>>
      /\ UNCHANGED <<mm, task_page, fs_pages>>
      /\ mem_map' = mem_map \ {buffer}
  BY DEF FreeBuffer, Free, At, vars, requests
<1>2. current \in Task
  BY <1>1, CurrentFacts DEF MInv
<1>3. MemoryTypeOK'
  BY <1>1 DEF MInv, MemoryTypeOK
<1>4. Serving'
  BY <1>1 DEF MInv, Serving
<1>5. ASSUME ~raced PROVE HeldOnce(Held', mem_map')
  <2>1. PICK v : v = <<"buffer", 0, 0>>
    OBVIOUS
  <2>2. Changes({}, {v})
    <3>1. \A t, i : Used("buffer", t, i) => <<"buffer", t, i>> = v
      BY <2>1, KindsOfUse DEF UseKinds
    <3>2. \A t, i : ~Used("buffer", t, i)'
      BY <1>1, KindsNext DEF UseKinds
    <3>3. \A k \in Kind \ {"buffer"} : \A t, i : <<k, t, i>> # v
      BY <2>1
    <3> QED
      BY <1>1, <3>1, <3>2, <3>3, SameKinds DEF Changes, Kind
  <2>3. /\ DOMAIN Held = Uses /\ DOMAIN Held' = (Uses \cup {}) \ {v}
        /\ \A u \in Uses \ {v} : Held'[u] = Held[u]
    BY <2>2, UsesByKind
  <2>4. v \in Uses /\ Held[v] = buffer
    BY <1>1, <2>1, KindsOfUse DEF UseKinds
  <2>5. HeldOnce(Held, mem_map)
    BY <1>5 DEF MInv, Unraced
  <2>6. HeldOnce(Held', mem_map \ {Held[u] : u \in {v}})
    BY <2>3, <2>4, <2>5, GivePages, ZenonT(60)
  <2> QED
    BY <1>1, <2>4, <2>6
<1>6. Unraced'
  <2>1. \A t \in Task : found[t] # NoPage /\ ~raced => t = current
    BY DEF MInv, Unraced
  <2>2. found[current] = NoPage
    BY <1>1, <1>2 DEF MInv, Serving
  <2> QED
    BY <1>1, <1>5, <2>1, <2>2 DEF Unraced
<1> QED
  BY <1>3, <1>4, <1>6

\* New uses get the pages that a step takes.
LEMMA UsesTaken ==
  ASSUME HeldOnce(Held, mem_map), NEW N, Changes(N, {}), NEW P,
         P = {Held'[u] : u \in N},
         \A u \in N : Held'[u] \notin mem_map,
         \A u, v \in N : Held'[u] = Held'[v] => u = v
  PROVE  HeldOnce(Held', mem_map \cup P)
<1>1. PICK h, g : h = Held /\ g = Held'
  OBVIOUS
<1>2. /\ DOMAIN Held = Uses /\ DOMAIN Held' = (Uses \cup N) \ {}
      /\ \A u \in Uses \ {} : Held'[u] = Held[u]
  BY UsesByKind
<1>3. DOMAIN g = DOMAIN h \cup N /\ \A u \in DOMAIN h : g[u] = h[u]
  BY <1>1, <1>2
<1>4. HeldOnce(g, mem_map \cup {g[u] : u \in N})
  BY <1>1, <1>3, TakePages
<1> QED
  BY <1>1, <1>4

\* The step that takes one page.
LEMMA OneUseTaken ==
  ASSUME HeldOnce(Held, mem_map), NEW k \in Kind, NEW t, NEW i,
         Changes({<<k, t, i>>}, {}), NEW p, PageOf(k, t, i)' = p,
         p \notin mem_map
  PROVE  HeldOnce(Held', mem_map \cup {p})
<1>1. PICK v : v = <<k, t, i>>
  OBVIOUS
<1>2. Used(k, t, i)'
  BY DEF Changes
<1>3. Held'[v] = p
  BY <1>1, <1>2, KindsNext DEF UseKinds
<1>4. Changes({v}, {})
  BY <1>1
<1>5. {p} = {Held'[u] : u \in {v}}
  BY <1>3
<1>6. /\ \A u \in {v} : Held'[u] \notin mem_map
      /\ \A u, w \in {v} : Held'[u] = Held'[w] => u = w
  BY <1>3
<1> QED
  BY <1>4, <1>5, <1>6, UsesTaken

\* What Set does with a page, for the three things a page is fetched for.
LEMMA SetHolds ==
  ASSUME MInv, Set, ~raced
  PROVE  HeldOnce(Held', mem_map')
<1>1. PICK page, what : page = found[current] /\ what = Head(todo[current])
  OBVIOUS
<1>2. /\ ~halted /\ Head(stack[current]) = "run" /\ page # NoPage
      /\ UNCHANGED <<state, task_page>>
      /\ mem_map' = mem_map \cup {page}
      /\ mm' = [mm EXCEPT ![current] =
                  IF what = "table" THEN EnterTable(@, page)
                  ELSE IF what \in {CODE, STACK} THEN Enter(@, page, what)
                  ELSE @]
      /\ fs_pages' = IF what = "fs" THEN Append(fs_pages, page) ELSE fs_pages
      /\ buffer' = IF what = "buffer" THEN page ELSE buffer
  BY <1>1 DEF Set, At, vars
<1>3. current \in Live /\ current \in Task /\ Live' = Live
  BY <1>2, RunsAlive DEF MInv, Live
<1>4. PICK c, m : c = current /\ m = mm[c]
  OBVIOUS
<1>5. /\ mm \in [Task -> Mm] /\ m \in Mm
      /\ m.user \in Seq([page : Page, va : {CODE, STACK}])
      /\ m.kernel \in Seq(Page) /\ fs_pages \in Seq(Page)
  BY <1>3, <1>4 DEF MInv, MemoryTypeOK, Mm
<1>6. /\ page \in Page /\ page \notin mem_map /\ HeldOnce(Held, mem_map)
      /\ todo[current] \in Seq(What) /\ todo[current] # << >>
  BY <1>1, <1>2, <1>3 DEF MInv, MemoryTypeOK, Unraced, Serving
<1>7. what \in What
  BY <1>1, <1>6, HeadTailProperties
<1>8. UseKinds /\ UseKinds'
  BY KindsOfUse, KindsNext
<1>9. CASE what = "table"
  <2>1. PICK n \in Nat : n = Len(m.kernel) + 1
    BY <1>5, LenProperties
  <2>2. mm' = [mm EXCEPT ![c] = EnterTable(m, page)]
    BY <1>2, <1>4, <1>9
  <2>3. /\ mm'[c].user = m.user
        /\ mm'[c].kernel = Append(m.kernel, page)
        /\ \A t \in Task \ {c} : mm'[t] = mm[t]
    BY <1>3, <1>4, <1>5, <2>2 DEF EnterTable, Mm
  <2>4. /\ DOMAIN mm'[c].kernel = DOMAIN m.kernel \cup {n}
        /\ mm'[c].kernel[n] = page
        /\ \A i \in DOMAIN m.kernel : mm'[c].kernel[i] = m.kernel[i]
    BY <1>5, <1>6, <2>1, <2>3, LenProperties
  <2>5. UNCHANGED <<fs_pages, buffer>>
    BY <1>2, <1>9
  <2>6. \A t, i : /\ Used("user", t, i)' <=> Used("user", t, i)
                  /\ Used("user", t, i) =>
                       PageOf("user", t, i)' = PageOf("user", t, i)
    BY <1>3, <1>4, <1>8, <2>3 DEF UseKinds, Live
  <2>7. \A t, i : /\ Used("table", t, i)' <=>
                       Used("table", t, i) \/ (t = c /\ i = n)
                  /\ Used("table", t, i) =>
                       PageOf("table", t, i)' = PageOf("table", t, i)
    BY <1>2, <1>3, <1>4, <1>8, <2>3, <2>4 DEF UseKinds, Live
  <2>8. \A k \in Kind : \A t, i : <<k, t, i>> \in {<<"table", c, n>>} <=>
                                    k = "table" /\ t = c /\ i = n
    OBVIOUS
  <2>9. Changes({<<"table", c, n>>}, {})
    BY <1>2, <2>5, <2>6, <2>7, <2>8, SameKinds DEF Changes, Kind
  <2>10. PageOf("table", c, n)' = page
    BY <1>8, <2>4 DEF UseKinds
  <2> QED
    BY <1>2, <1>6, <2>9, <2>10, OneUseTaken DEF Kind
<1>10. CASE what \in {CODE, STACK}
  <2>1. PICK n \in Nat : n = Len(m.user) + 1
    BY <1>5, LenProperties
  <2>2. mm' = [mm EXCEPT ![c] = Enter(m, page, what)]
    BY <1>2, <1>4, <1>10 DEF CODE, STACK
  <2>3. PICK e : e = [page |-> page, va |-> what]
    OBVIOUS
  <2>4. /\ mm'[c].user = Append(m.user, e)
        /\ mm'[c].kernel = m.kernel
        /\ \A t \in Task \ {c} : mm'[t] = mm[t]
    BY <1>3, <1>4, <1>5, <2>2, <2>3 DEF Enter, Mm
  <2>5. e \in [page : Page, va : {CODE, STACK}] /\ e.page = page
    BY <1>6, <1>10, <2>3
  <2>6. /\ DOMAIN mm'[c].user = DOMAIN m.user \cup {n}
        /\ mm'[c].user[n] = e
        /\ \A i \in DOMAIN m.user : mm'[c].user[i] = m.user[i]
    BY <1>5, <2>1, <2>4, <2>5, LenProperties
  <2>7. UNCHANGED <<fs_pages, buffer>>
    BY <1>2, <1>10 DEF CODE, STACK
  <2>8. \A t, i : /\ Used("table", t, i)' <=> Used("table", t, i)
                  /\ Used("table", t, i) =>
                       PageOf("table", t, i)' = PageOf("table", t, i)
    BY <1>2, <1>3, <1>4, <1>8, <2>4 DEF UseKinds
  <2>9. \A t, i : /\ Used("user", t, i)' <=>
                       Used("user", t, i) \/ (t = c /\ i = n)
                  /\ Used("user", t, i) =>
                       PageOf("user", t, i)' = PageOf("user", t, i)
    <3> TAKE t, i
    <3>1. CASE t = c
      BY <1>3, <1>4, <1>8, <2>6, <3>1 DEF UseKinds
    <3>2. CASE t # c
      <4>1. t \in Live => mm'[t] = mm[t]
        BY <2>4, <3>2 DEF Live
      <4> QED
        BY <1>3, <1>8, <3>2, <4>1 DEF UseKinds
    <3> QED
      BY <3>1, <3>2
  <2>10. \A k \in Kind : \A t, i : <<k, t, i>> \in {<<"user", c, n>>} <=>
                                     k = "user" /\ t = c /\ i = n
    OBVIOUS
  <2>11. Changes({<<"user", c, n>>}, {})
    BY <1>2, <2>7, <2>8, <2>9, <2>10, SameKinds DEF Changes, Kind
  <2>12. PageOf("user", c, n)' = page
    BY <1>8, <2>5, <2>6 DEF UseKinds
  <2> QED
    BY <1>2, <1>6, <2>11, <2>12, OneUseTaken DEF Kind
<1>11. CASE what = "fs"
  <2>1. PICK n \in Nat : n = Len(fs_pages) + 1
    BY <1>5, LenProperties
  <2>2. UNCHANGED <<mm, buffer>> /\ fs_pages' = Append(fs_pages, page)
    BY <1>2, <1>5, <1>11 DEF CODE, STACK
  <2>3. /\ DOMAIN fs_pages' = DOMAIN fs_pages \cup {n}
        /\ fs_pages'[n] = page
        /\ \A i \in DOMAIN fs_pages : fs_pages'[i] = fs_pages[i]
    BY <1>5, <1>6, <2>1, <2>2, LenProperties
  <2>4. \A t, i : /\ Used("fs", t, i)' <=>
                       Used("fs", t, i) \/ (t = 0 /\ i = n)
                  /\ Used("fs", t, i) =>
                       PageOf("fs", t, i)' = PageOf("fs", t, i)
    BY <1>8, <2>3 DEF UseKinds
  <2>5. \A k \in Kind : \A t, i : <<k, t, i>> \in {<<"fs", 0, n>>} <=>
                                    k = "fs" /\ t = 0 /\ i = n
    OBVIOUS
  <2>6. Changes({<<"fs", 0, n>>}, {})
    BY <1>2, <2>2, <2>4, <2>5, SameKinds DEF Changes, Kind
  <2>7. PageOf("fs", 0, n)' = page
    BY <1>8, <2>3 DEF UseKinds
  <2> QED
    BY <1>2, <1>6, <2>6, <2>7, OneUseTaken DEF Kind
<1>12. CASE what = "buffer"
  <2>1. UNCHANGED <<mm, fs_pages>> /\ buffer' = page
    BY <1>2, <1>5, <1>12 DEF CODE, STACK
  <2>2. buffer = NoPage
    <3>1. 1 \in 1 .. Len(todo[current]) /\ todo[current][1] = what
      BY <1>1, <1>6, HeadIsFirst
    <3> QED
      BY <1>3, <1>12, <3>1 DEF MInv, Serving
  <2>3. \A t, i : /\ Used("buffer", t, i)' <=> (t = 0 /\ i = 0)
                  /\ ~Used("buffer", t, i)
    BY <1>2, <1>8, <2>1, <2>2 DEF UseKinds
  <2>4. \A k \in Kind : \A t, i : <<k, t, i>> \in {<<"buffer", 0, 0>>} <=>
                                    k = "buffer" /\ t = 0 /\ i = 0
    OBVIOUS
  <2>5. Changes({<<"buffer", 0, 0>>}, {})
    BY <1>2, <2>1, <2>3, <2>4, SameKinds DEF Changes, Kind
  <2>6. PageOf("buffer", 0, 0)' = page
    BY <1>8, <2>1 DEF UseKinds
  <2> QED
    BY <1>2, <1>6, <2>5, <2>6, OneUseTaken DEF Kind
<1> QED
  BY <1>7, <1>9, <1>10, <1>11, <1>12 DEF What

\* map_page keeps the lists of pages well-formed.
LEMMA EnterTyped ==
  ASSUME NEW m \in Mm, NEW page \in Page
  PROVE  /\ EnterTable(m, page) \in Mm
         /\ \A va \in {CODE, STACK} : Enter(m, page, va) \in Mm
<1>1. m.user \in Seq([page : Page, va : {CODE, STACK}]) /\ m.kernel \in Seq(Page)
  BY DEF Mm
<1>2. Append(m.kernel, page) \in Seq(Page)
  BY <1>1
<1>3. EnterTable(m, page) \in Mm
  BY <1>1, <1>2 DEF EnterTable, Mm
<1>4. ASSUME NEW va \in {CODE, STACK} PROVE Enter(m, page, va) \in Mm
  <2>1. PICK e : e = [page |-> page, va |-> va]
    OBVIOUS
  <2>2. e \in [page : Page, va : {CODE, STACK}]
    BY <2>1
  <2>3. Append(m.user, e) \in Seq([page : Page, va : {CODE, STACK}])
    BY <1>1, <2>2
  <2> QED
    BY <1>1, <2>1, <2>3 DEF Enter, Mm
<1> QED
  BY <1>3, <1>4

LEMMA SetMemory ==
  ASSUME MInv, Set
  PROVE  (MemoryTypeOK /\ Serving /\ Unraced)'
<1>1. PICK c, page, what, rest :
        /\ c = current /\ page = found[c] /\ what = Head(todo[c])
        /\ rest = Tail(todo[c])
  OBVIOUS
<1>2. /\ ~halted /\ page # NoPage
      /\ UNCHANGED <<state, current, stack, task_page, raced>>
      /\ mem_map' = mem_map \cup {page}
      /\ found' = [found EXCEPT ![c] = NoPage]
      /\ todo' = [todo EXCEPT ![c] = rest]
      /\ mm' = [mm EXCEPT ![c] =
                  IF what = "table" THEN EnterTable(mm[c], page)
                  ELSE IF what \in {CODE, STACK} THEN Enter(mm[c], page, what)
                  ELSE mm[c]]
      /\ fs_pages' = IF what = "fs" THEN Append(fs_pages, page) ELSE fs_pages
      /\ buffer' = IF what = "buffer" THEN page ELSE buffer
  BY <1>1 DEF Set, At, vars
<1>3. /\ c \in Task /\ page \in Page /\ mm[c] \in Mm
      /\ todo[c] \in Seq(What) /\ todo[c] # << >>
  BY <1>1, <1>2, CurrentFacts DEF MInv, MemoryTypeOK, Serving
<1>4. /\ what \in What /\ rest \in Seq(What) /\ Len(rest) = Len(todo[c]) - 1
      /\ \A i \in 1 .. Len(rest) : rest[i] = todo[c][i + 1]
      /\ todo[c][1] = what /\ Len(todo[c]) \in Nat \ {0}
  BY <1>1, <1>3, HeadTailProperties, HeadIsFirst, EmptySeq
<1>5. MemoryTypeOK'
  <2>1. EnterTable(mm[c], page) \in Mm
    BY <1>3, EnterTyped
  <2>2. what \in {CODE, STACK} => Enter(mm[c], page, what) \in Mm
    BY <1>3, EnterTyped
  <2> QED
    BY <1>2, <1>3, <1>4, <2>1, <2>2 DEF MInv, MemoryTypeOK
<1>6. Serving'
  <2>1. ASSUME NEW t \in Task \ {c}
        PROVE  /\ found'[t] # NoPage => todo'[t] # << >>
               /\ todo'[t] # << >> => Head(stack'[t]) \notin InCall
               /\ \A i \in 1 .. Len(todo'[t]) : todo'[t][i] = "buffer" =>
                    t = 0 /\ Len(todo'[t]) = 1 /\ buffer' = NoPage
    <3>1. found'[t] = found[t] /\ todo'[t] = todo[t]
      BY <1>2 DEF MInv, MemoryTypeOK
    <3>2. ASSUME NEW i \in 1 .. Len(todo[t]), todo[t][i] = "buffer"
          PROVE  t = 0 /\ Len(todo[t]) = 1 /\ buffer' = NoPage
      <4>1. t = 0 /\ Len(todo[t]) = 1 /\ buffer = NoPage
        BY <3>2 DEF MInv, Serving
      <4>2. what # "buffer"
        BY <1>3, <1>4, <4>1 DEF MInv, Serving
      <4> QED
        BY <1>2, <4>1, <4>2
    <3> QED
      BY <1>2, <3>1, <3>2 DEF MInv, Serving
  <2>2. /\ found'[c] # NoPage => todo'[c] # << >>
        /\ todo'[c] # << >> => Head(stack'[c]) \notin InCall
        /\ \A i \in 1 .. Len(todo'[c]) : todo'[c][i] = "buffer" =>
             c = 0 /\ Len(todo'[c]) = 1 /\ buffer' = NoPage
    <3>1. found'[c] = NoPage /\ todo'[c] = rest /\ stack' = stack
      BY <1>2, <1>3 DEF MInv, MemoryTypeOK
    <3>2. Head(stack[c]) \notin InCall
      BY <1>3 DEF MInv, Serving
    <3>3. ASSUME NEW i \in 1 .. Len(rest) PROVE rest[i] # "buffer"
      <4>1. i + 1 \in 1 .. Len(todo[c]) /\ rest[i] = todo[c][i + 1]
            /\ Len(todo[c]) # 1
        BY <1>4
      <4> QED
        BY <1>3, <4>1 DEF MInv, Serving
    <3> QED
      BY <3>1, <3>2, <3>3
  <2> QED
    BY <2>1, <2>2 DEF Serving
<1>7. Unraced'
  <2>1. \A t \in Task : found'[t] # NoPage /\ ~raced => FALSE
    BY <1>1, <1>2, <1>3 DEF MInv, MemoryTypeOK, Unraced
  <2>2. ~raced => HeldOnce(Held', mem_map')
    BY SetHolds
  <2> QED
    BY <1>2, <2>1, <2>2 DEF Unraced
<1> QED
  BY <1>5, <1>6, <1>7

\* Uses that end return their pages.
LEMMA UsesReturned ==
  ASSUME HeldOnce(Held, mem_map), NEW G, Changes({}, G), NEW P,
         G \subseteq Uses, P = {Held[u] : u \in G}
  PROVE  HeldOnce(Held', mem_map \ P)
<1>1. PICK h, g : h = Held /\ g = Held'
  OBVIOUS
<1>2. /\ DOMAIN Held = Uses /\ DOMAIN Held' = (Uses \cup {}) \ G
      /\ \A u \in Uses \ G : Held'[u] = Held[u]
  BY UsesByKind
<1>3. /\ DOMAIN g = DOMAIN h \ G /\ G \subseteq DOMAIN h
      /\ \A u \in DOMAIN g : g[u] = h[u]
  BY <1>1, <1>2
<1>4. HeldOnce(g, mem_map \ {h[u] : u \in G})
  BY <1>1, <1>3, GivePages
<1> QED
  BY <1>1, <1>4

\* The loops of exit_process end the uses of the task, but for its last table
\* and its task_struct.
LEMMA ExitHolds ==
  ASSUME MInv, KExitDequeue, ~raced
  PROVE  HeldOnce(Held', mem_map')
<1>1. PICK c, m : c = current /\ m = mm[c]
  OBVIOUS
<1>2. /\ ~halted /\ Head(stack[current]) = "exit"
      /\ state' = [state EXCEPT ![c] = "dead"]
      /\ UNCHANGED <<mm, task_page, fs_pages, buffer>>
      /\ mem_map' = mem_map \ Returned(m)
  BY <1>1 DEF KExitDequeue, ExitDequeue, At
<1>3. c \in Live /\ c \in Task /\ Live' = Live \ {c} /\ state[c] = "running"
  BY <1>1, <1>2, RunsAlive DEF MInv, IInv, TypeOK, Live
<1>4. /\ m \in Mm /\ m.user \in Seq([page : Page, va : {CODE, STACK}])
      /\ m.kernel \in Seq(Page)
  BY <1>1, <1>3 DEF MInv, MemoryTypeOK, Mm
<1>5. /\ DOMAIN m.user = 1 .. Len(m.user) /\ DOMAIN m.kernel = 1 .. Len(m.kernel)
      /\ Len(m.user) \in Nat /\ Len(m.kernel) \in Nat
  BY <1>4, LenProperties
<1>6. UseKinds /\ UseKinds'
  BY KindsOfUse, KindsNext
<1>7. PICK U, T : /\ U = {<<"user", c, i>> : i \in DOMAIN m.user}
                  /\ T = {<<"table", c, i>> : i \in 1 .. Len(m.kernel) - 1}
  OBVIOUS
<1>8. \A k \in Kind : \A t, i :
        <<k, t, i>> \in U \cup T <=>
          /\ t = c
          /\ \/ k = "user" /\ i \in DOMAIN m.user
             \/ k = "table" /\ i \in 1 .. Len(m.kernel) - 1
  BY <1>7
<1>9. Changes({}, U \cup T)
  <2>1. \A t, i : /\ Used("task", t, i)' <=> Used("task", t, i)
                  /\ PageOf("task", t, i)' = PageOf("task", t, i)
    <3>1. \A t \in Task : state'[t] # "unused" <=> state[t] # "unused"
      BY <1>2, <1>3 DEF MInv, IInv, TypeOK
    <3> QED
      BY <1>2, <1>6, <3>1 DEF UseKinds
  <2>2. \A t, i :
          /\ Used("user", t, i)' <=>
               Used("user", t, i) /\ ~(t = c /\ i \in DOMAIN m.user)
          /\ PageOf("user", t, i)' = PageOf("user", t, i)
    BY <1>1, <1>2, <1>3, <1>6 DEF UseKinds
  <2>3. \A t, i :
          /\ Used("table", t, i)' <=>
               Used("table", t, i) /\ ~(t = c /\ i \in 1 .. Len(m.kernel) - 1)
          /\ PageOf("table", t, i)' = PageOf("table", t, i)
    <3> TAKE t, i
    <3>1. CASE t = c
      <4>1. Used("table", t, i) <=> i \in DOMAIN m.kernel
        BY <1>1, <1>3, <1>6, <3>1 DEF UseKinds
      <4>2. Used("table", t, i)' <=> i \in DOMAIN m.kernel /\ i = Len(m.kernel)
        BY <1>1, <1>2, <1>3, <1>6, <3>1 DEF UseKinds, MInv, IInv, TypeOK
      <4>3. i \in DOMAIN m.kernel =>
              (i = Len(m.kernel) <=> i \notin 1 .. Len(m.kernel) - 1)
        BY <1>5
      <4> QED
        BY <1>2, <1>6, <3>1, <4>1, <4>2, <4>3 DEF UseKinds
    <3>2. CASE t # c
      <4>1. t \in Task => state'[t] = state[t]
        BY <1>2, <3>2 DEF MInv, IInv, TypeOK
      <4> QED
        BY <1>2, <1>3, <1>6, <3>2, <4>1 DEF UseKinds
    <3> QED
      BY <3>1, <3>2
  <2> QED
    BY <1>2, <1>8, <2>1, <2>2, <2>3, SameKinds DEF Changes, Kind
<1>10. U \cup T \subseteq Uses
  BY <1>1, <1>3, <1>5, <1>6, <1>7 DEF UseKinds
<1>11. Returned(m) = {Held[u] : u \in U \cup T}
  <2>1. \A i \in DOMAIN m.user :
          /\ <<"user", c, i>> \in U
          /\ Held[<<"user", c, i>>] = m.user[i].page
    BY <1>1, <1>3, <1>6, <1>7 DEF UseKinds
  <2>2. \A i \in 1 .. Len(m.kernel) - 1 :
          /\ <<"table", c, i>> \in T
          /\ Held[<<"table", c, i>>] = m.kernel[i]
    BY <1>1, <1>3, <1>5, <1>6, <1>7 DEF UseKinds
  <2>3. {Held[u] : u \in U \cup T} =
          {m.user[i].page : i \in DOMAIN m.user}
            \cup {m.kernel[i] : i \in 1 .. Len(m.kernel) - 1}
    <3>1. \A u \in U \cup T :
            \/ \E i \in DOMAIN m.user : u = <<"user", c, i>>
            \/ \E i \in 1 .. Len(m.kernel) - 1 : u = <<"table", c, i>>
      BY <1>7
    <3>2. \A u \in U \cup T :
            \/ \E i \in DOMAIN m.user : Held[u] = m.user[i].page
            \/ \E i \in 1 .. Len(m.kernel) - 1 : Held[u] = m.kernel[i]
      BY <2>1, <2>2, <3>1
    <3>3. \A p : p \in {Held[u] : u \in U \cup T} <=>
                   \/ p \in {m.user[i].page : i \in DOMAIN m.user}
                   \/ p \in {m.kernel[i] : i \in 1 .. Len(m.kernel) - 1}
      <4> TAKE p
      <4>1. ASSUME p \in {Held[u] : u \in U \cup T}
            PROVE  \/ p \in {m.user[i].page : i \in DOMAIN m.user}
                   \/ p \in {m.kernel[i] : i \in 1 .. Len(m.kernel) - 1}
        BY <3>2, <4>1
      <4>2. ASSUME NEW i \in DOMAIN m.user, p = m.user[i].page
            PROVE  p \in {Held[u] : u \in U \cup T}
        BY <2>1, <4>2
      <4>3. ASSUME NEW i \in 1 .. Len(m.kernel) - 1, p = m.kernel[i]
            PROVE  p \in {Held[u] : u \in U \cup T}
        BY <2>2, <4>3
      <4> QED
        BY <4>1, <4>2, <4>3
    <3> QED
      BY <3>3
  <2>4. PICK s : s = SubSeq(m.kernel, 1, Len(m.kernel) - 1)
    OBVIOUS
  <2>5. /\ s \in Seq(Page) /\ DOMAIN s = 1 .. Len(m.kernel) - 1
        /\ \A i \in 1 .. Len(m.kernel) - 1 : s[i] = m.kernel[i]
    <3>1. \A i \in 1 .. Len(m.kernel) - 1 : m.kernel[i] \in Page
      BY <1>4, <1>5, ElementOfSeq
    <3>2. /\ s \in Seq(Page)
          /\ Len(s) = IF 1 <= Len(m.kernel) - 1 THEN Len(m.kernel) - 1 ELSE 0
          /\ \A i \in 1 .. Len(m.kernel) - 1 : s[i] = m.kernel[i]
      BY <1>5, <2>4, <3>1, SubSeqProperties
    <3> QED
      BY <1>5, <3>2, LenProperties
  <2>6. ToSet(s) = {m.kernel[i] : i \in 1 .. Len(m.kernel) - 1}
    BY <2>5 DEF ToSet
  <2>7. ToSet(UserPages(m)) = {m.user[i].page : i \in DOMAIN m.user}
    BY DEF ToSet, UserPages
  <2> QED
    BY <2>3, <2>4, <2>6, <2>7 DEF Returned
<1>12. HeldOnce(Held, mem_map)
  BY DEF MInv, Unraced
<1> QED
  BY <1>2, <1>9, <1>10, <1>11, <1>12, UsesReturned

LEMMA ExitMemory ==
  ASSUME MInv, KExitDequeue
  PROVE  (MemoryTypeOK /\ Serving /\ Unraced)'
<1>1. /\ ~halted /\ Head(stack[current]) = "exit"
      /\ UNCHANGED <<current, mm, task_page, fs_pages, buffer, raced>>
      /\ UNCHANGED <<todo, found>>
      /\ stack' = Goto("exit_enable")
      /\ mem_map' \subseteq mem_map
  BY DEF KExitDequeue, ExitDequeue, At, requests
<1>2. current \in Task /\ todo[current] = << >> /\ found[current] = NoPage
  BY <1>1, CurrentFacts DEF MInv, Serving, InCall
<1>3. MemoryTypeOK'
  BY <1>1 DEF MInv, MemoryTypeOK
<1>4. \A t \in Task \ {current} : stack'[t] = stack[t]
  <2>1. IInv /\ "exit_enable" \in Label
    BY DEF MInv, Label
  <2> QED
    BY <1>1, <2>1, HeadAfter
<1>5. Serving'
  BY <1>1, <1>2, <1>4 DEF MInv, Serving
<1>6. Unraced'
  BY <1>1, <1>2, ExitHolds DEF MInv, Unraced
<1> QED
  BY <1>3, <1>5, <1>6

\* How many pages copy_virt_memory takes.
LEMMA CopyCount ==
  ASSUME NEW m \in Mm
  PROVE  /\ Len(m.user) \in Nat /\ CopySize(m) \in Nat
         /\ m.user = << >> => Len(m.user) = 0 /\ CopySize(m) = 0
         /\ m.user # << >> => Len(m.user) >= 1 /\ CopySize(m) = Len(m.user) + 4
<1>1. /\ m.user \in Seq([page : Page, va : {CODE, STACK}])
      /\ Len(m.user) \in Nat
      /\ m.user # << >> => Len(m.user) >= 1
      /\ m.user = << >> => Len(m.user) = 0
  BY EmptySeq, LenProperties DEF Mm
<1>2. CASE m.user = << >>
  BY <1>1, <1>2 DEF CopySize
<1>3. CASE m.user # << >>
  BY <1>1, <1>3 DEF CopySize, TABLES
<1> QED
  BY <1>1, <1>2, <1>3

\* copy_virt_memory deals the pages it gets out one by one.
LEMMA CopyFacts ==
  ASSUME NEW m \in Mm, NEW f \in Seq(Page), Len(f) = 1 + CopySize(m),
         NEW n, n = copy_virt_memory(m, Tail(f))
  PROVE  /\ n \in Mm /\ DOMAIN n.user = DOMAIN m.user
         /\ \A i \in DOMAIN m.user :
              n.user[i].page = f[IF i = 1 THEN 2 ELSE i + 5]
         /\ m.user = << >> => DOMAIN n.kernel = {}
         /\ m.user # << >> => DOMAIN n.kernel = 1 .. 4
         /\ \A i \in DOMAIN n.kernel : n.kernel[i] = f[i + 2]
<1>1. /\ m.user \in Seq([page : Page, va : {CODE, STACK}])
      /\ DOMAIN m.user = 1 .. Len(m.user) /\ Len(m.user) \in Nat
      /\ m.user # << >> => Len(m.user) >= 1
  BY EmptySeq, LenProperties DEF Mm
<1>2. /\ CopySize(m) \in Nat
      /\ m.user # << >> => CopySize(m) = Len(m.user) + 4
  BY CopyCount
<1>3. PICK r : r = Tail(f)
  OBVIOUS
<1>4. /\ r \in Seq(Page) /\ Len(r) = CopySize(m)
      /\ \A i \in 1 .. Len(r) : r[i] \in Page /\ r[i] = f[i + 1]
  <2>1. f # << >>
    <3>1. Len(f) >= 1
      BY <1>1, <1>2
    <3>2. Len(<< >>) = 0
      OBVIOUS
    <3> QED
      BY <3>1, <3>2
  <2>2. r \in Seq(Page) /\ Len(r) = Len(f) - 1
        /\ \A i \in 1 .. Len(r) : r[i] = f[i + 1]
    BY <1>3, <2>1, HeadTailProperties
  <2>3. \A i \in 1 .. Len(r) : r[i] \in Page
    BY <2>2, ElementOfSeq
  <2>4. Len(r) = CopySize(m)
    BY <1>2, <2>2
  <2> QED
    BY <2>2, <2>3, <2>4
<1>5. PICK u : u = [i \in DOMAIN m.user |->
                      [m.user[i] EXCEPT !.page =
                         r[IF i = 1 THEN 1 ELSE TABLES + i]]]
  OBVIOUS
<1>6. ASSUME NEW i \in DOMAIN m.user
      PROVE  /\ u[i] \in [page : Page, va : {CODE, STACK}]
             /\ u[i].page = f[IF i = 1 THEN 2 ELSE i + 5]
  <2>1. PICK j : j = IF i = 1 THEN 1 ELSE 4 + i
    OBVIOUS
  <2>2. m.user # << >>
    BY <1>1
  <2>3. j \in 1 .. Len(r) /\ j + 1 = (IF i = 1 THEN 2 ELSE i + 5)
    BY <1>1, <1>2, <1>4, <2>1, <2>2
  <2>4. r[j] \in Page /\ r[j] = f[IF i = 1 THEN 2 ELSE i + 5]
    BY <1>4, <2>3
  <2>5. m.user[i] \in [page : Page, va : {CODE, STACK}]
    BY <1>1, ElementOfSeq
  <2>6. u[i] = [m.user[i] EXCEPT !.page = r[j]]
    BY <1>5, <2>1 DEF TABLES
  <2> QED
    BY <2>4, <2>5, <2>6
<1>7. u \in Seq([page : Page, va : {CODE, STACK}]) /\ DOMAIN u = DOMAIN m.user
  <2>1. u \in [1 .. Len(m.user) -> [page : Page, va : {CODE, STACK}]]
    BY <1>1, <1>5, <1>6
  <2> QED
    BY <1>1, <2>1, SeqDef, SMTT(60)
<1>8. PICK k : k = IF m.user = << >> THEN << >> ELSE SubSeq(r, 2, TABLES + 1)
  OBVIOUS
<1>9. n = [user |-> u, kernel |-> k] /\ n.user = u /\ n.kernel = k
  <2>1. n = [user |-> u, kernel |-> k]
    BY <1>3, <1>5, <1>8 DEF copy_virt_memory
  <2> QED
    BY <2>1
<1>10. CASE m.user = << >>
  <2>1. k \in Seq(Page) /\ DOMAIN k = {}
    BY <1>8, <1>10
  <2>2. n \in Mm
    BY <1>7, <1>9, <2>1 DEF Mm
  <2>3. DOMAIN m.user = {}
    BY <1>10
  <2> QED
    BY <1>7, <1>9, <1>10, <2>1, <2>2, <2>3
<1>11. CASE m.user # << >>
  <2>1. Len(r) >= 5 /\ Len(r) \in Nat
    BY <1>1, <1>2, <1>4, <1>11
  <2>2. /\ k \in Seq(Page) /\ Len(k) = 4
        /\ \A i \in 1 .. 4 : k[i] = r[i + 1]
    <3>1. \A i \in 2 .. 5 : r[i] \in Page
      BY <1>4, <2>1
    <3>2. k = SubSeq(r, 2, 5)
      BY <1>8, <1>11 DEF TABLES
    <3>3. /\ k \in Seq(Page) /\ Len(k) = IF 2 <= 5 THEN 5 - 2 + 1 ELSE 0
          /\ \A i \in 1 .. 5 - 2 + 1 : k[i] = r[2 + i - 1]
      BY <3>1, <3>2, SubSeqProperties
    <3> QED
      BY <3>3
  <2>3. \A i \in 1 .. 4 : k[i] = f[i + 2]
    BY <1>4, <2>1, <2>2
  <2>4. DOMAIN k = 1 .. 4
    BY <2>2, LenProperties
  <2>5. n \in Mm
    BY <1>7, <1>9, <2>2 DEF Mm
  <2>6. \A i \in DOMAIN m.user : n.user[i].page = f[IF i = 1 THEN 2 ELSE i + 5]
    BY <1>6, <1>9
  <2>7. \A i \in DOMAIN n.kernel : n.kernel[i] = f[i + 2]
    BY <1>9, <2>3, <2>4
  <2> QED
    BY <1>7, <1>9, <1>11, <2>4, <2>5, <2>6, <2>7
<1> QED
  BY <1>10, <1>11

\* What copy_process does to the memory: the child d of c gets the pages f.
ForkPages(c, d, f) ==
  /\ c \in Task /\ d \in Task /\ d # 0 /\ c # d
  /\ state[d] = "unused" /\ state' = [state EXCEPT ![d] = "running"]
  /\ f \in Seq(Page) /\ Len(f) = 1 + CopySize(mm[c])
  /\ \A i \in 1 .. Len(f) : f[i] \notin mem_map
  /\ \A i, j \in 1 .. Len(f) : f[i] = f[j] => i = j
  /\ mem_map' = mem_map \cup ToSet(f)
  /\ task_page' = [task_page EXCEPT ![d] = Head(f)]
  /\ mm' = [mm EXCEPT ![d] = copy_virt_memory(mm[c], Tail(f))]
  /\ UNCHANGED <<fs_pages, buffer, todo, found, raced, current>>

LEMMA ForkTakes ==
  ASSUME MInv, KForkChild
  PROVE  \E f : ForkPages(current, nr_tasks, f)
<1>1. PICK c, d, n, f : /\ c = current /\ d = nr_tasks
                        /\ n = 1 + CopySize(mm[c]) /\ f = next_free(mem_map, n)
  OBVIOUS
<1>2. /\ ~halted /\ nr_tasks < NTasks
      /\ state' = [state EXCEPT ![d] = "running"]
      /\ HasRoom(mem_map, n)
      /\ mem_map' = mem_map \cup ToSet(f)
      /\ task_page' = [task_page EXCEPT ![d] = Head(f)]
      /\ mm' = [mm EXCEPT ![d] = copy_virt_memory(mm[c], Tail(f))]
      /\ UNCHANGED <<fs_pages, buffer, todo, found, raced, current>>
  BY <1>1 DEF KForkChild, ForkChild, At, requests
<1>3. /\ c \in Task /\ d \in Task /\ d # 0 /\ c # d /\ state[d] = "unused"
  BY <1>1, <1>2, CurrentFacts, NTasksAssumption
     DEF MInv, IInv, TypeOK, Created, Task
<1>4. n \in Nat
  <2>1. mm[c] \in Mm
    BY <1>3 DEF MInv, MemoryTypeOK
  <2> QED
    BY <1>1, <2>1, CopyCount
<1>5. /\ f \in [1 .. n -> Page]
      /\ \A i \in 1 .. n : f[i] \notin mem_map
      /\ \A i, j \in 1 .. n : f[i] = f[j] => i = j
  <2>1. mem_map \in SUBSET Page
    BY DEF MInv, MemoryTypeOK
  <2>2. FreePages(f, mem_map, n)
    BY <1>1, <1>2, <1>4, <2>1, NextFree
  <2> QED
    BY <2>2 DEF FreePages
<1>6. f \in Seq(Page) /\ Len(f) = n
  BY <1>4, <1>5, SeqDef
<1>7. ForkPages(c, d, f)
  BY <1>1, <1>2, <1>3, <1>5, <1>6 DEF ForkPages
<1> QED
  BY <1>1, <1>7

\* The uses of the child, and the place of the page of each in f.
ChildUses(d, m) ==
  {<<"task", d, 0>>}
    \cup {<<"user", d, i>> : i \in DOMAIN m.user}
    \cup {<<"table", d, i>> : i \in DOMAIN m.kernel}

Place(u) ==
  IF u[1] = "task" THEN 1
  ELSE IF u[1] = "table" THEN u[3] + 2
  ELSE IF u[3] = 1 THEN 2 ELSE u[3] + 5

LEMMA ForkHolds ==
  ASSUME MInv, NEW c, NEW d, NEW f, ForkPages(c, d, f), ~raced
  PROVE  HeldOnce(Held', mem_map')
<1>1. PICK m, n : m = mm[c] /\ n = copy_virt_memory(m, Tail(f))
  OBVIOUS
<1>2. PICK N : N = ChildUses(d, n)
  OBVIOUS
<1>3. /\ c \in Task /\ d \in Task /\ d # 0 /\ c # d
      /\ state[d] = "unused" /\ state' = [state EXCEPT ![d] = "running"]
      /\ f \in Seq(Page) /\ Len(f) = 1 + CopySize(m)
      /\ task_page' = [task_page EXCEPT ![d] = Head(f)]
      /\ mm' = [mm EXCEPT ![d] = n]
      /\ UNCHANGED <<fs_pages, buffer>>
  BY <1>1 DEF ForkPages
<1>4. m \in Mm /\ m.user \in Seq([page : Page, va : {CODE, STACK}])
  BY <1>1, <1>3 DEF MInv, MemoryTypeOK, Mm
<1>5. /\ n \in Mm /\ DOMAIN n.user = DOMAIN m.user
      /\ \A i \in DOMAIN m.user :
           n.user[i].page = f[IF i = 1 THEN 2 ELSE i + 5]
      /\ m.user = << >> => DOMAIN n.kernel = {}
      /\ m.user # << >> => DOMAIN n.kernel = 1 .. 4
      /\ \A i \in DOMAIN n.kernel : n.kernel[i] = f[i + 2]
  BY <1>1, <1>3, <1>4, CopyFacts
<1>6. PICK l \in Nat : /\ l = Len(m.user) /\ DOMAIN m.user = 1 .. l
                       /\ l = 0 <=> m.user = << >>
  BY <1>4, LenProperties, CopyCount
<1>7. Len(f) = IF l = 0 THEN 1 ELSE l + 5
  <2>1. CASE l = 0
    BY <1>3, <1>4, <1>6, <2>1, CopyCount
  <2>2. CASE l # 0
    BY <1>3, <1>4, <1>6, <2>2, CopyCount
  <2> QED
    BY <2>1, <2>2
<1>8. UseKinds /\ UseKinds'
  BY KindsOfUse, KindsNext
<1>9. \A k \in Kind : \A t, i :
        <<k, t, i>> \in N <=>
          /\ t = d
          /\ \/ k = "task" /\ i = 0
             \/ k = "user" /\ i \in DOMAIN n.user
             \/ k = "table" /\ i \in DOMAIN n.kernel
  BY <1>2 DEF ChildUses
<1>10. Changes(N, {})
  <2>1. /\ \A t \in Task : state'[t] # "unused" <=> state[t] # "unused" \/ t = d
        /\ \A t \in Task \ {d} : mm'[t] = mm[t] /\ task_page'[t] = task_page[t]
        /\ mm'[d] = n /\ Live' = Live \cup {d} /\ d \notin Live
    BY <1>3 DEF MInv, MemoryTypeOK, IInv, TypeOK, Live
  <2>2. \A t, i : /\ Used("task", t, i)' <=>
                       Used("task", t, i) \/ (t = d /\ i = 0)
                  /\ Used("task", t, i) =>
                       PageOf("task", t, i)' = PageOf("task", t, i)
    BY <1>3, <1>8, <2>1 DEF UseKinds
  <2>3. \A t, i : /\ Used("user", t, i)' <=>
                       Used("user", t, i) \/ (t = d /\ i \in DOMAIN n.user)
                  /\ Used("user", t, i) =>
                       PageOf("user", t, i)' = PageOf("user", t, i)
    <3> TAKE t, i
    <3>1. t \in Live => t \in Task \ {d}
      BY <2>1 DEF Live
    <3> QED
      BY <1>8, <2>1, <3>1 DEF UseKinds
  <2>4. \A t, i : /\ Used("table", t, i)' <=>
                       Used("table", t, i) \/ (t = d /\ i \in DOMAIN n.kernel)
                  /\ Used("table", t, i) =>
                       PageOf("table", t, i)' = PageOf("table", t, i)
    <3> TAKE t, i
    <3>1. CASE t = d
      BY <1>3, <1>8, <2>1, <3>1 DEF UseKinds
    <3>2. CASE t # d
      BY <1>8, <2>1, <3>2 DEF UseKinds
    <3> QED
      BY <3>1, <3>2
  <2>5. \A u \in N : u = <<u[1], u[2], u[3]>> /\ u[1] \in Kind
    BY <1>2 DEF ChildUses, Kind
  <2> QED
    BY <1>3, <1>9, <2>2, <2>3, <2>4, <2>5, SameKinds DEF Changes, Kind
<1>11. \A u \in N : Held'[u] = f[Place(u)] /\ Place(u) \in 1 .. Len(f)
  <2>1. Held'[<<"task", d, 0>>] = f[1]
    <3>1. Head(f) = f[1]
      BY <1>3, <1>7, <1>6, HeadIsFirst
    <3>2. state'[d] # "unused" /\ task_page'[d] = f[1]
      BY <1>3, <3>1 DEF MInv, MemoryTypeOK, IInv, TypeOK
    <3> QED
      BY <1>3, <1>8, <3>2 DEF UseKinds
  <2>2. d \in Live'
    BY <1>3 DEF MInv, IInv, TypeOK, Live
  <2>3. mm'[d] = n
    BY <1>3 DEF MInv, MemoryTypeOK
  <2>4. \A i \in DOMAIN n.user : Held'[<<"user", d, i>>] = n.user[i].page
    BY <1>8, <2>2, <2>3 DEF UseKinds
  <2>5. \A i \in DOMAIN n.kernel : Held'[<<"table", d, i>>] = n.kernel[i]
    BY <1>3, <1>8, <2>2, <2>3 DEF UseKinds, Live
  <2>6. ASSUME NEW u \in N
        PROVE  Held'[u] = f[Place(u)] /\ Place(u) \in 1 .. Len(f)
    <3>1. CASE u = <<"task", d, 0>>
      BY <1>6, <1>7, <2>1, <3>1 DEF Place
    <3>2. ASSUME NEW i \in DOMAIN n.user, u = <<"user", d, i>>
          PROVE  Held'[u] = f[Place(u)] /\ Place(u) \in 1 .. Len(f)
      BY <1>5, <1>6, <1>7, <2>4, <3>2 DEF Place
    <3>3. ASSUME NEW i \in DOMAIN n.kernel, u = <<"table", d, i>>
          PROVE  Held'[u] = f[Place(u)] /\ Place(u) \in 1 .. Len(f)
      BY <1>5, <1>6, <1>7, <2>5, <3>3 DEF Place
    <3> QED
      BY <1>2, <3>1, <3>2, <3>3 DEF ChildUses
  <2> QED
    BY <2>6
<1>12. \A u, v \in N : Place(u) = Place(v) => u = v
  <2>1. \A u \in N :
          /\ u = <<u[1], d, u[3]>>
          /\ \/ u[1] = "task" /\ u[3] = 0 /\ Place(u) = 1
             \/ u[1] = "user" /\ u[3] = 1 /\ Place(u) = 2
             \/ u[1] = "user" /\ u[3] \in Nat /\ u[3] > 1 /\ Place(u) = u[3] + 5
             \/ u[1] = "table" /\ u[3] \in 1 .. 4 /\ Place(u) = u[3] + 2
    BY <1>2, <1>5, <1>6 DEF ChildUses, Place
  <2> QED
    BY <2>1
<1>13. \A j \in 1 .. Len(f) : \E u \in N : Place(u) = j
  <2> SUFFICES ASSUME NEW j \in 1 .. Len(f) PROVE \E u \in N : Place(u) = j
    OBVIOUS
  <2>1. CASE j = 1
    <3>1. <<"task", d, 0>> \in N /\ Place(<<"task", d, 0>>) = j
      BY <1>2, <2>1 DEF ChildUses, Place
    <3> QED
      BY <3>1
  <2>2. CASE j = 2
    <3>1. 1 \in DOMAIN n.user
      BY <1>5, <1>6, <1>7, <2>2
    <3>2. <<"user", d, 1>> \in N /\ Place(<<"user", d, 1>>) = j
      BY <1>2, <2>2, <3>1 DEF ChildUses, Place
    <3> QED
      BY <3>2
  <2>3. CASE j \in 3 .. 6
    <3>1. PICK i \in 1 .. 4 : j = i + 2
      BY <2>3
    <3>2. i \in DOMAIN n.kernel
      BY <1>5, <1>6, <1>7, <2>3
    <3>3. <<"table", d, i>> \in N /\ Place(<<"table", d, i>>) = j
      BY <1>2, <3>1, <3>2 DEF ChildUses, Place
    <3> QED
      BY <3>3
  <2>4. CASE j \in 7 .. Len(f)
    <3>1. PICK i \in 2 .. l : j = i + 5
      BY <1>7, <2>4
    <3>2. i \in DOMAIN n.user
      BY <1>5, <1>6
    <3>3. <<"user", d, i>> \in N /\ Place(<<"user", d, i>>) = j
      BY <1>2, <3>1, <3>2 DEF ChildUses, Place
    <3> QED
      BY <3>3
  <2> QED
    BY <1>7, <2>1, <2>2, <2>3, <2>4
<1>14. ToSet(f) = {Held'[u] : u \in N}
  <2>1. ToSet(f) = {f[j] : j \in 1 .. Len(f)}
    BY <1>3, LenProperties DEF ToSet
  <2> QED
    BY <1>11, <1>13, <2>1
<1>15. /\ \A u \in N : Held'[u] \notin mem_map
       /\ \A u, v \in N : Held'[u] = Held'[v] => u = v
       /\ mem_map' = mem_map \cup ToSet(f)
  BY <1>11, <1>12 DEF ForkPages
<1>16. HeldOnce(Held, mem_map)
  BY DEF MInv, Unraced
<1> QED
  BY <1>10, <1>14, <1>15, <1>16, UsesTaken

LEMMA ForkMemory ==
  ASSUME MInv, KForkChild
  PROVE  (MemoryTypeOK /\ Serving /\ Unraced)'
<1>1. PICK c, d : c = current /\ d = nr_tasks
  OBVIOUS
<1>2. PICK f : ForkPages(c, d, f)
  BY <1>1, ForkTakes
<1>3. /\ ~halted /\ Head(stack[c]) = "fork"
      /\ stack' = [Goto("fork_enable") EXCEPT ![d] = <<"tail">>]
  BY <1>1 DEF KForkChild, ForkChild, At
<1>4. /\ c \in Task /\ d \in Task /\ f \in Seq(Page) /\ mm[c] \in Mm
      /\ Len(f) = 1 + CopySize(mm[c]) /\ mem_map' = mem_map \cup ToSet(f)
      /\ task_page' = [task_page EXCEPT ![d] = Head(f)]
      /\ mm' = [mm EXCEPT ![d] = copy_virt_memory(mm[c], Tail(f))]
      /\ UNCHANGED <<fs_pages, buffer, todo, found, raced, current>>
  BY <1>2 DEF ForkPages, MInv, MemoryTypeOK
<1>5. todo[c] = << >> /\ found[c] = NoPage
  BY <1>3, <1>4 DEF MInv, Serving, InCall
<1>6. MemoryTypeOK'
  <2>1. copy_virt_memory(mm[c], Tail(f)) \in Mm
    BY <1>4, CopyFacts
  <2>2. ToSet(f) \subseteq Page
    BY <1>4, LenProperties DEF ToSet
  <2>3. Head(f) \in Page
    <3>1. f # << >>
      <4>1. Len(f) >= 1 /\ Len(<< >>) = 0
        BY <1>4, CopyCount
      <4> QED
        BY <4>1
    <3> QED
      BY <1>4, <3>1, HeadTailProperties
  <2> QED
    BY <1>4, <2>1, <2>2, <2>3 DEF MInv, MemoryTypeOK
<1>7. Serving'
  <2>1. \A t \in Task \ {c, d} : stack'[t] = stack[t]
    <3>1. \A t \in Task \ {c} : Goto("fork_enable")[t] = stack[t]
      <4>1. IInv /\ "fork_enable" \in Label
        BY DEF MInv, Label
      <4> QED
        BY <1>1, <1>3, <4>1, HeadAfter
    <3>2. DOMAIN Goto("fork_enable") = Task
      BY DEF MInv, IInv, TypeOK, Goto
    <3> QED
      BY <1>3, <3>1, <3>2
  <2>2. Head(stack'[d]) \notin InCall
    BY <1>1, <1>3, <1>4 DEF MInv, IInv, TypeOK, Goto, InCall
  <2> QED
    BY <1>4, <1>5, <2>1, <2>2 DEF MInv, Serving
<1>8. Unraced'
  <2>1. ~raced => HeldOnce(Held', mem_map')
    BY <1>2, ForkHolds
  <2>2. \A t \in Task : found[t] = NoPage \/ raced
    BY <1>1, <1>5 DEF MInv, Unraced
  <2> QED
    BY <1>4, <2>1, <2>2 DEF Unraced
<1> QED
  BY <1>6, <1>7, <1>8

-----------------------------------------------------------------------------

LEMMA NextMemory == MInv /\ [KNext]_kvars => MInv'
<1> SUFFICES ASSUME MInv, [KNext]_kvars PROVE MInv'
  OBVIOUS
<1>1. IInv'
  BY KernelStep, NextInv DEF MInv
<1>2. (MemoryTypeOK /\ Serving /\ Unraced)'
  BY ScheduleMemory, EnterMemory, ForkMemory, ExitMemory, RequestMemory,
     FreeBufferMemory, TestMemory, SetMemory, SpinMemory DEF KNext, Spin
<1> QED
  BY <1>1, <1>2 DEF MInv

\* No page has two uses, and mem_map marks exactly the pages in use, as long
\* as no task was preempted inside get_free_page.
THEOREM PagesAreHeldOnce == KSpec => []PagesHeldOnce
<1>1. MInv => PagesHeldOnce
  BY DEF MInv, Unraced, HeldOnce, PagesHeldOnce
<1> QED
  BY <1>1, InitMemory, NextMemory, PTL DEF KSpec
=============================================================================
