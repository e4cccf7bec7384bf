------------------------------ MODULE Barrier -------------------------------
(***************************************************************************)
(* c9y::barrier (src/c9y/barrier.h): parties arrive, the arrival that takes *)
(* the count to zero runs the completion function and starts the next       *)
(* phase, and whoever waits on a token of an earlier phase goes on.         *)
(*                                                                          *)
(* do_ardive() is one critical section; the completion function, which is   *)
(* the user's, runs in it, so that the last arrival takes three steps and   *)
(* keeps the mutex.  A thread stands for some parties.  It arrives once per *)
(* phase for each of them, and waits when it has.                           *)
(***************************************************************************)
EXTENDS Integers, FiniteSets

CONSTANTS
  Threads,     \* the threads
  Parties,     \* per thread: the number of parties it stands for at first
  Nobody,      \* the owner of a free mutex
  MaxPhases    \* bound: the phases that are ever completed

ASSUME ThreadsAssumption == IsFiniteSet(Threads) /\ Nobody \notin Threads
ASSUME PartiesAssumption == Parties \in [Threads -> Nat]
ASSUME MaxPhasesAssumption == MaxPhases \in Nat

VARIABLES
  count, iteration, expected,   \* the members of the same names
  mutex,        \* its holder, or Nobody
  pc,           \* per thread: where it is in a call
  token,        \* per thread: its last arrival_token, -1 if that is spent
  holds,        \* per thread: the parties it still stands for
  due,          \* per thread: those that have not arrived in this phase
  completed,    \* history: the runs of the completion function
  forgotten     \* history: the drops that did not lower expected

vars == <<count, iteration, expected, mutex, pc, token, holds, due,
          completed, forgotten>>

\* What f gives each thread, as pairs that can be counted.
Shares(f) == UNION {{t} \X (1..f[t]) : t \in Threads}
Total(f) == Cardinality(Shares(f))

Completing == {"complete", "complete_drop", "release", "release_drop"}
Waiting == {"wait", "asleep", "relock"}

TypeOK ==
  /\ count \in 0..Total(Parties) /\ expected \in 0..Total(Parties)
  /\ iteration \in 0..MaxPhases /\ completed \in 0..MaxPhases
  /\ mutex \in Threads \cup {Nobody}
  /\ pc \in [Threads -> {"ready"} \cup Completing \cup Waiting]
  /\ token \in [Threads -> -1..MaxPhases]
  /\ holds \in [Threads -> Nat] /\ due \in [Threads -> Nat]
  /\ \A t \in Threads : due[t] <= holds[t] /\ holds[t] <= Parties[t]
  /\ forgotten \in Nat

Init ==
  /\ count = Total(Parties) /\ expected = Total(Parties)
  /\ iteration = 0
  /\ mutex = Nobody
  /\ pc = [t \in Threads |-> "ready"]
  /\ token = [t \in Threads |-> -1]
  /\ holds = Parties /\ due = Parties
  /\ completed = 0 /\ forgotten = 0

GoTo(t, label) == pc' = [pc EXCEPT ![t] = label]

-----------------------------------------------------------------------------
(* do_ardive(n, drop).                                                      *)

\* Mutant: off by one.
CountsDownEarly(n) == count - n <= 1

\* This arrival is the last one of the phase.
CountsDown(n) == count - n <= 0

\* The part that every arrival runs; next is where the thread goes on if it
\* is not the last one, and last where it goes on if it is.
DoArrive(t, n, next, last) ==
  /\ pc[t] = "ready" /\ mutex = Nobody
  /\ iteration < MaxPhases
  /\ n <= due[t]
  /\ due' = [due EXCEPT ![t] = @ - n]
  /\ count' = count - n
  /\ IF CountsDown(n)
     THEN mutex' = t /\ GoTo(t, last)
     ELSE UNCHANGED mutex /\ GoTo(t, next)
  /\ UNCHANGED <<iteration, expected, completed>>

\* arrive(n); the token is kept.
Arrive(t, n) ==
  /\ DoArrive(t, n, "ready", "complete")
  /\ token' = [token EXCEPT ![t] = iteration]
  /\ UNCHANGED <<holds, forgotten>>

\* arrive_and_wait(): the token goes straight to wait(), and there is nothing
\* between the two if this is the last arrival: the phase is over by then.
ArriveAndWait(t) ==
  /\ due[t] = 1
  /\ DoArrive(t, 1, "wait", "complete")
  /\ token' = [token EXCEPT ![t] = iteration]
  /\ UNCHANGED <<holds, forgotten>>

\* arrive_and_drop(): one party is gone.  Only the last arrival of a phase
\* gets to the line that lowers expected.
ArriveAndDrop(t) ==
  /\ DoArrive(t, 1, "ready", "complete_drop")
  /\ holds' = [holds EXCEPT ![t] = @ - 1]
  /\ forgotten' = forgotten + IF CountsDown(1) THEN 0 ELSE 1
  /\ UNCHANGED token

\* compl_func() returns.
Complete(t) ==
  /\ \/ pc[t] = "complete" /\ GoTo(t, "release")
     \/ pc[t] = "complete_drop" /\ GoTo(t, "release_drop")
  /\ completed' = completed + 1
  /\ UNCHANGED <<count, iteration, expected, mutex, token, holds, due, forgotten>>

\* What notify_all, and no notification at all, does to the threads asleep.
NotifyAll(t) ==
  pc' = [s \in Threads |-> IF s = t THEN "ready"
                           ELSE IF pc[s] = "asleep" THEN "relock" ELSE pc[s]]
SpuriousWake(t) ==
  /\ pc[t] = "asleep"
  /\ GoTo(t, "relock")
  /\ UNCHANGED <<count, iteration, expected, mutex, token, holds, due,
                 completed, forgotten>>

\* Mutant: the next phase starts with what is left of the count.
ReleaseNoReset(t) ==
  /\ pc[t] \in {"release", "release_drop"}
  /\ expected' = expected - IF pc[t] = "release_drop" THEN 1 ELSE 0
  /\ iteration' = iteration + 1
  /\ mutex' = Nobody
  /\ NotifyAll(t)
  /\ due' = holds
  /\ UNCHANGED <<count, token, holds, completed, forgotten>>

\* Mutant: notify_one.
ReleaseOne(t) ==
  /\ pc[t] \in {"release", "release_drop"}
  /\ expected' = expected - IF pc[t] = "release_drop" THEN 1 ELSE 0
  /\ count' = expected'
  /\ iteration' = iteration + 1
  /\ mutex' = Nobody
  /\ LET asleep == {s \in Threads : pc[s] = "asleep"}
     IN \/ asleep = {} /\ GoTo(t, "ready")
        \/ \E s \in asleep : pc' = [pc EXCEPT ![t] = "ready", ![s] = "relock"]
  /\ due' = holds
  /\ UNCHANGED <<token, holds, completed, forgotten>>

\* The rest of do_ardive(): the next phase, in which every party left is due.
Release(t) ==
  /\ pc[t] \in {"release", "release_drop"}
  /\ expected' = expected - IF pc[t] = "release_drop" THEN 1 ELSE 0
  /\ count' = expected'
  /\ iteration' = iteration + 1
  /\ mutex' = Nobody
  /\ NotifyAll(t)
  /\ due' = holds
  /\ UNCHANGED <<token, holds, completed, forgotten>>

-----------------------------------------------------------------------------
(* wait(arrival).                                                           *)

WaitCall(t) ==
  /\ pc[t] = "ready"
  /\ token[t] # -1
  /\ due[t] = 0 \/ token[t] # iteration
  /\ GoTo(t, "wait")
  /\ UNCHANGED <<count, iteration, expected, mutex, token, holds, due,
                 completed, forgotten>>

\* Mutant: it waits for the next change of phase, whatever the token says.
WaitIgnoresToken(t) ==
  /\ pc[t] = "wait" /\ mutex = Nobody
  /\ GoTo(t, "asleep")
  /\ token' = [token EXCEPT ![t] = iteration]
  /\ UNCHANGED <<count, iteration, expected, mutex, holds, due, completed, forgotten>>

\* The loop of wait() once it has the mutex: the token is spent if its phase
\* is over.
Test(t) ==
  /\ mutex = Nobody
  /\ IF token[t] # iteration
     THEN GoTo(t, "ready") /\ token' = [token EXCEPT ![t] = -1]
     ELSE GoTo(t, "asleep") /\ UNCHANGED token
  /\ UNCHANGED <<count, iteration, expected, mutex, holds, due, completed, forgotten>>

\* The first test; this_iteration is the token's from then on.
Wait(t) == pc[t] = "wait" /\ Test(t)

\* Mutant: the wait has no predicate.
RelockReturns(t) ==
  /\ pc[t] = "relock" /\ mutex = Nobody
  /\ GoTo(t, "ready") /\ token' = [token EXCEPT ![t] = -1]
  /\ UNCHANGED <<count, iteration, expected, mutex, holds, due, completed, forgotten>>

Relock(t) == pc[t] = "relock" /\ Test(t)

-----------------------------------------------------------------------------
Arrival(t) ==
  \/ \E n \in 1..Parties[t] : Arrive(t, n)
  \/ ArriveAndWait(t)
  \/ ArriveAndDrop(t)

Step(t) == Complete(t) \/ Release(t) \/ Wait(t) \/ Relock(t)

Next == \E t \in Threads : Arrival(t) \/ WaitCall(t) \/ Step(t) \/ SpuriousWake(t)

\* Threads inside a call keep running, the completion function returns, and
\* every party that is due arrives in the end, as a barrier's users must see to.
Fairness == \A t \in Threads : WF_vars(Step(t)) /\ WF_vars(Arrival(t))

Safety == Init /\ [][Next]_vars
Spec == Safety /\ Fairness

-----------------------------------------------------------------------------
(* Properties.                                                              *)

\* A phase is completed when every party of it has arrived, those included
\* that leave with it: while the completion function runs nobody is due.
AllArrived ==
  (\E t \in Threads : pc[t] \in Completing) => \A s \in Threads : due[s] = 0

\* A wait ends when its phase is over and the completion function of that
\* phase has returned, and not before, whatever wakes the thread.
ReleasedWhenComplete ==
  [][\A t \in Threads :
       pc[t] \in Waiting /\ pc'[t] = "ready" => token[t] < completed]_vars

\* Nobody sleeps through the change of a phase: a thread is asleep in the
\* current phase only, although phases may follow each other faster than the
\* threads they release get the mutex.
SleepersAreCurrent ==
  \A t \in Threads : pc[t] = "asleep" => token[t] = iteration

\* Every wait ends as long as every drop came with the last arrival of its
\* phase: one that comes earlier is not taken off expected, and the next phase
\* waits for a party that is gone.
WaitsEnd ==
  \A t \in Threads : pc[t] \in Waiting ~> pc[t] = "ready" \/ forgotten > 0

-----------------------------------------------------------------------------
(* What the barrier promises: AbstractBarrier.  A thread waits from its     *)
(* call until it has seen that the phase is over, asleep or not.            *)

Abstract ==
  INSTANCE AbstractBarrier WITH
    phase <- iteration,
    arrival <- token,
    waiting <- {t \in Threads : pc[t] \in Waiting}

=============================================================================
