------------------------------ MODULE TaskPool ------------------------------
(***************************************************************************)
(* What a Schedule promises to the code that hands it tasks, without       *)
(* slots, locks, coroutines or threads:                                    *)
(*                                                                         *)
(*   - a task that was accepted is run once, and a task that was refused   *)
(*     is never run;                                                       *)
(*   - the pool closes only when nothing is waiting or running, and accepts*)
(*     nothing any more once it has closed.                                *)
(***************************************************************************)
CONSTANT Task          \* the callbacks the program ever hands to the pool

VARIABLES
  waiting,             \* accepted, not started
  running,             \* started, body not finished
  done,                \* run to the end
  closed               \* a worker has left: nothing is accepted any more

vars == <<waiting, running, done, closed>>

(* Types of the variables of the promise that schedule() makes.            *)
TypeOK ==
  /\ waiting \subseteq Task
  /\ running \subseteq Task
  /\ done \subseteq Task
  /\ closed \in BOOLEAN

Init ==
  /\ waiting = {} /\ running = {} /\ done = {}
  /\ closed = FALSE

(* One call of schedule() puts one task or a range of tasks in the pool.   *)
Accept(S) ==
  /\ ~closed
  /\ S # {} /\ S \cap (waiting \cup running \cup done) = {}
  /\ waiting' = waiting \cup S
  /\ UNCHANGED <<running, done, closed>>

Begin(t) ==
  /\ t \in waiting
  /\ waiting' = waiting \ {t}
  /\ running' = running \cup {t}
  /\ UNCHANGED <<done, closed>>

End(t) ==
  /\ t \in running
  /\ running' = running \ {t}
  /\ done' = done \cup {t}
  /\ UNCHANGED <<waiting, closed>>

Close ==
  /\ ~closed
  /\ waiting = {} /\ running = {}
  /\ closed' = TRUE
  /\ UNCHANGED <<waiting, running, done>>

Next ==
  \/ \E S \in SUBSET Task : Accept(S)
  \/ \E t \in Task : Begin(t) \/ End(t)
  \/ Close

Spec == Init /\ [][Next]_vars
=============================================================================
