-------------------------- MODULE AbstractBarrier --------------------------
(***************************************************************************)
(* What c9y::barrier promises, with no count, no mutex and no wake-ups: a   *)
(* phase is completed once, when all its parties have arrived; the next one *)
(* has the parties that did not leave; and who waits for a phase goes on    *)
(* when it is over.                                                         *)
(***************************************************************************)
EXTENDS Integers

CONSTANTS
  Threads,   \* the threads
  Parties    \* per thread: the number of parties it stands for at first

VARIABLES
  phase,      \* the phases that are over
  completed,  \* the runs of the completion function
  holds,      \* per thread: the parties it still stands for
  due,        \* per thread: those that have not arrived in this phase
  arrival,    \* per thread: the phase it may wait for, or -1
  waiting     \* the threads that wait

vars == <<phase, completed, holds, due, arrival, waiting>>

Init ==
  /\ phase = 0 /\ completed = 0
  /\ holds = Parties /\ due = Parties
  /\ arrival = [t \in Threads |-> -1]
  /\ waiting = {}

\* Some parties of t arrive, and t may wait for the others.
Arrive(t, n) ==
  /\ t \notin waiting /\ n <= due[t]
  /\ due' = [due EXCEPT ![t] = @ - n]
  /\ arrival' = [arrival EXCEPT ![t] = phase]
  /\ waiting' \in {waiting, waiting \cup {t}}
  /\ UNCHANGED <<phase, completed, holds>>

\* One party arrives and leaves the barrier.
ArriveAndDrop(t) ==
  /\ t \notin waiting /\ 1 <= due[t]
  /\ due' = [due EXCEPT ![t] = @ - 1]
  /\ holds' = [holds EXCEPT ![t] = @ - 1]
  /\ UNCHANGED <<phase, completed, arrival, waiting>>

\* The completion function runs, once per phase, when all have arrived.
Complete ==
  /\ completed = phase
  /\ \A t \in Threads : due[t] = 0
  /\ completed' = completed + 1
  /\ UNCHANGED <<phase, holds, due, arrival, waiting>>

NextPhase ==
  /\ completed = phase + 1
  /\ phase' = phase + 1
  /\ due' = holds
  /\ UNCHANGED <<completed, holds, arrival, waiting>>

Wait(t) ==
  /\ t \notin waiting /\ arrival[t] # -1
  /\ waiting' = waiting \cup {t}
  /\ UNCHANGED <<phase, completed, holds, due, arrival>>

Leave(t) ==
  /\ t \in waiting /\ arrival[t] < phase
  /\ waiting' = waiting \ {t}
  /\ arrival' = [arrival EXCEPT ![t] = -1]
  /\ UNCHANGED <<phase, completed, holds, due>>

Next ==
  \/ \E t \in Threads :
       \/ \E n \in 1..Parties[t] : Arrive(t, n)
       \/ ArriveAndDrop(t)
       \/ Wait(t)
       \/ Leave(t)
  \/ Complete
  \/ NextPhase

Safety == Init /\ [][Next]_vars

=============================================================================
