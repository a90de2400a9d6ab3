\* Three tasks, eight timer interrupts, at most two of them on one stack; a fork
\* may find no page.
SPECIFICATION Spec
CONSTANTS
  NTasks = 3
  MaxClock = 32
  MaxNest = 2
  MaxLeak = 1
  PagesRunOut = TRUE
INVARIANTS
  TypeOK
  RunqueueExact
  ParkedNonPreemptible
  HangsOnlyAlone
  TimeConserved
  ReschedOnlyCurrent
  DisorderAtChildren
  RequestsServed
PROPERTIES
  PreemptBalance
  DeadStaysDown
  ImplementsTaskSet
