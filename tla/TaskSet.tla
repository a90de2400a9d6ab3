------------------------------ MODULE TaskSet ------------------------------
(***************************************************************************)
(* What the scheduler promises of its tasks, whatever its policy: one task *)
(* runs, the others that have not ended are ready, and the processor stops *)
(* only when no task is ready.                                             *)
(***************************************************************************)
CONSTANTS Task, NoTask

VARIABLES running, ready, ended, stopped

vars == <<running, ready, ended, stopped>>

Init == running = 0 /\ ready = {} /\ ended = {} /\ stopped = FALSE

\* The running task creates another one.
Create ==
  /\ ~stopped /\ running \notin ended
  /\ \E t \in Task \ ({running} \cup ready \cup ended) :
       ready' = ready \cup {t}
  /\ UNCHANGED <<running, ended, stopped>>

\* The running task ends; it keeps the processor until it is left.
End ==
  /\ ~stopped /\ running \notin ended
  /\ ended' = ended \cup {running}
  /\ UNCHANGED <<running, ready, stopped>>

\* The processor goes to a task that is ready.
Dispatch ==
  /\ ~stopped
  /\ \E t \in ready :
       /\ running' = t
       /\ ready' = (ready \cup ({running} \ ended)) \ {t}
  /\ UNCHANGED <<ended, stopped>>

Stop ==
  /\ ~stopped /\ ready = {}
  /\ stopped' = TRUE
  /\ running' \in {running, NoTask}
  /\ UNCHANGED <<ready, ended>>

Next == Create \/ End \/ Dispatch \/ Stop

Spec == Init /\ [][Next]_vars
=============================================================================
