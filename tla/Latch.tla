------------------------------- MODULE Latch --------------------------------
(***************************************************************************)
(* c9y::latch (src/c9y/latch.h, latch.cpp), the one that is built when the  *)
(* standard library's is not used: a counter behind a mutex and a condition *)
(* variable.  count_down() notifies before it unlocks.                      *)
(*                                                                          *)
(* Latches live on the stack of the thread that waits for them, so what     *)
(* matters besides the count is who still touches a latch when it goes away.*)
(* A thread is in at most one call of one latch.  The client keeps the      *)
(* documented preconditions: a latch is counted down by no more than it     *)
(* holds, and destroyed when no thread waits for it any more.               *)
(***************************************************************************)
EXTENDS Integers, FiniteSets

CONSTANTS
  Threads,    \* the threads
  Latches,    \* bound: the latches that are ever constructed, each of them once
  Nobody,     \* the owner of a free mutex; no latch
  MaxCount    \* bound: the largest initial count; ptrdiff_t in the code

ASSUME ThreadsAssumption == IsFiniteSet(Threads) /\ Nobody \notin Threads
ASSUME LatchesAssumption == Nobody \notin Latches
ASSUME MaxCountAssumption == MaxCount \in Nat

VARIABLES
  count,      \* per latch: the counter
  promised,   \* per latch, history: what started calls of count_down have left
  mutex,      \* per latch: the holder of its mutex
  life,       \* per latch: "none", "alive" or "destroyed"
  pc,         \* per thread: where it is in a call of a latch
  on,         \* per thread: the latch of that call
  amount,     \* per thread: the argument of its last count_down
  passed      \* per thread: the latch its last wait found open, or Nobody

vars == <<count, promised, mutex, life, pc, on, amount, passed>>

Waiting == {"wait", "asleep", "relock",
            "wait_for", "asleep_for", "relock_for", "expired"}
PCs == {"ready", "count_down", "notify_all", "unlock"} \cup Waiting

\* The count never goes below zero: its callers keep to the precondition.
TypeOK ==
  /\ count \in [Latches -> 0..MaxCount]
  /\ promised \in [Latches -> 0..MaxCount]
  /\ mutex \in [Latches -> Threads \cup {Nobody}]
  /\ life \in [Latches -> {"none", "alive", "destroyed"}]
  /\ pc \in [Threads -> PCs]
  /\ on \in [Threads -> Latches \cup {Nobody}]
  /\ amount \in [Threads -> 0..MaxCount]
  /\ passed \in [Threads -> Latches \cup {Nobody}]

Init ==
  /\ count = [l \in Latches |-> 0]
  /\ promised = [l \in Latches |-> 0]
  /\ mutex = [l \in Latches |-> Nobody]
  /\ life = [l \in Latches |-> "none"]
  /\ pc = [t \in Threads |-> "ready"]
  /\ on = [t \in Threads |-> Nobody]
  /\ amount = [t \in Threads |-> 0]
  /\ passed = [t \in Threads |-> Nobody]

\* Mutant: off by one.
ConstructOneLess(l, expected) ==
  /\ life[l] = "none"
  /\ life' = [life EXCEPT ![l] = "alive"]
  /\ count' = [count EXCEPT ![l] = expected - 1]
  /\ promised' = [promised EXCEPT ![l] = expected]
  /\ UNCHANGED <<mutex, pc, on, amount, passed>>

Construct(l, expected) ==
  /\ life[l] = "none"
  /\ life' = [life EXCEPT ![l] = "alive"]
  /\ count' = [count EXCEPT ![l] = expected]
  /\ promised' = [promised EXCEPT ![l] = expected]
  /\ UNCHANGED <<mutex, pc, on, amount, passed>>

\* The end of the latch's scope: its owner has seen it open, and no other
\* thread waits for it.
Destroy(t, l) ==
  /\ life[l] = "alive"
  /\ pc[t] = "ready" /\ passed[t] = l
  /\ \A s \in Threads : on[s] = l => pc[s] \notin Waiting
  /\ life' = [life EXCEPT ![l] = "destroyed"]
  /\ UNCHANGED <<count, promised, mutex, pc, on, amount, passed>>

GoTo(t, label) == pc' = [pc EXCEPT ![t] = label]
Acquire(l, t) == mutex[l] = Nobody /\ mutex' = [mutex EXCEPT ![l] = t]
Release(l) == mutex' = [mutex EXCEPT ![l] = Nobody]
\* The call is over.
Leave(t) == pc' = [pc EXCEPT ![t] = "ready"] /\ on' = [on EXCEPT ![t] = Nobody]

-----------------------------------------------------------------------------
(* count_down(n).                                                           *)

CountDownCall(t, l, n) ==
  /\ pc[t] = "ready" /\ life[l] = "alive"
  /\ n <= promised[l]
  /\ promised' = [promised EXCEPT ![l] = @ - n]
  /\ pc' = [pc EXCEPT ![t] = "count_down"]
  /\ on' = [on EXCEPT ![t] = l]
  /\ amount' = [amount EXCEPT ![t] = n]
  /\ UNCHANGED <<count, mutex, life, passed>>

\* Mutant: the sleepers are notified below zero only.
CountDownBelowZero(t) ==
  /\ pc[t] = "count_down"
  /\ Acquire(on[t], t)
  /\ count' = [count EXCEPT ![on[t]] = @ - amount[t]]
  /\ GoTo(t, IF count'[on[t]] < 0 THEN "notify_all" ELSE "unlock")
  /\ UNCHANGED <<promised, life, on, amount, passed>>

\* Mutant: the lock is scoped to the subtraction, as it is in queue::push.
CountDownUnlocked(t) ==
  /\ pc[t] = "count_down"
  /\ mutex[on[t]] = Nobody
  /\ count' = [count EXCEPT ![on[t]] = @ - amount[t]]
  /\ GoTo(t, IF count'[on[t]] <= 0 THEN "notify_all" ELSE "unlock")
  /\ UNCHANGED <<promised, mutex, life, on, amount, passed>>

\* count -= n, with the mutex taken and kept.
CountDown(t) ==
  /\ pc[t] = "count_down"
  /\ Acquire(on[t], t)
  /\ count' = [count EXCEPT ![on[t]] = @ - amount[t]]
  /\ GoTo(t, IF count'[on[t]] <= 0 THEN "notify_all" ELSE "unlock")
  /\ UNCHANGED <<promised, life, on, amount, passed>>

\* What a notification, or nothing at all, makes of a thread asleep.
WakeUp(s) == IF pc[s] = "asleep" THEN "relock" ELSE "relock_for"
Asleep(l) == {s \in Threads : on[s] = l /\ pc[s] \in {"asleep", "asleep_for"}}

CountDownNotify(t) ==
  /\ pc[t] = "notify_all"
  /\ pc' = [s \in Threads |-> IF s = t THEN "unlock"
                              ELSE IF s \in Asleep(on[t]) THEN WakeUp(s)
                              ELSE pc[s]]
  /\ UNCHANGED <<count, promised, mutex, life, on, amount, passed>>

CountDownUnlock(t) ==
  /\ pc[t] = "unlock"
  /\ Release(on[t])
  /\ Leave(t)
  /\ UNCHANGED <<count, promised, life, amount, passed>>

-----------------------------------------------------------------------------
(* wait and wait_for.                                                       *)

WaitCall(t, l) ==
  /\ pc[t] = "ready" /\ life[l] = "alive"
  /\ pc' = [pc EXCEPT ![t] = "wait"]
  /\ on' = [on EXCEPT ![t] = l]
  /\ UNCHANGED <<count, promised, mutex, life, amount, passed>>

WaitForCall(t, l) ==
  /\ pc[t] = "ready" /\ life[l] = "alive"
  /\ pc' = [pc EXCEPT ![t] = "wait_for"]
  /\ on' = [on EXCEPT ![t] = l]
  /\ UNCHANGED <<count, promised, mutex, life, amount, passed>>

\* The mutex is free, the predicate is evaluated, and the thread returns or
\* goes to sleep.  Only count_down keeps the mutex over several steps.
WaitTest(t, open, asleep) ==
  /\ mutex[on[t]] = Nobody
  /\ \/ /\ open
        /\ passed' = [passed EXCEPT ![t] = on[t]]
        /\ Leave(t)
     \/ /\ ~open
        /\ GoTo(t, asleep)
        /\ UNCHANGED <<on, passed>>
  /\ UNCHANGED <<count, promised, mutex, life, amount>>

\* Mutant: off by one.
WaitForOne(t) ==
  /\ pc[t] \in {"wait", "relock"}
  /\ WaitTest(t, count[on[t]] <= 1, "asleep")

Wait(t) ==
  /\ pc[t] \in {"wait", "relock"}
  /\ WaitTest(t, count[on[t]] <= 0, "asleep")

WaitFor(t) ==
  /\ pc[t] \in {"wait_for", "relock_for"}
  /\ WaitTest(t, count[on[t]] = 0, "asleep_for")

\* The deadline of wait_for.
Expire(t) ==
  /\ pc[t] \in {"asleep_for", "relock_for"}
  /\ GoTo(t, "expired")
  /\ UNCHANGED <<count, promised, mutex, life, on, amount, passed>>

WaitForExpired(t) ==
  /\ pc[t] = "expired"
  /\ mutex[on[t]] = Nobody
  /\ passed' = [passed EXCEPT ![t] = IF count[on[t]] = 0 THEN on[t] ELSE Nobody]
  /\ Leave(t)
  /\ UNCHANGED <<count, promised, mutex, life, amount>>

SpuriousWake(t) ==
  /\ pc[t] \in {"asleep", "asleep_for"}
  /\ GoTo(t, WakeUp(t))
  /\ UNCHANGED <<count, promised, mutex, life, on, amount, passed>>

-----------------------------------------------------------------------------
CountDownStep(t) == CountDown(t) \/ CountDownNotify(t) \/ CountDownUnlock(t)
WaitStep(t) == Wait(t) \/ WaitFor(t) \/ WaitForExpired(t)

Next ==
  \/ \E l \in Latches, n \in 0..MaxCount : Construct(l, n)
  \/ \E t \in Threads, l \in Latches :
       \/ \E n \in 1..MaxCount : CountDownCall(t, l, n)
       \/ WaitCall(t, l)
       \/ WaitForCall(t, l)
       \/ Destroy(t, l)
  \/ \E t \in Threads :
       CountDownStep(t) \/ WaitStep(t) \/ Expire(t) \/ SpuriousWake(t)

(***************************************************************************)
(* A thread inside a call keeps running and deadlines pass.  Nothing makes  *)
(* a thread call, and nothing wakes a sleeper without a notification.       *)
(***************************************************************************)
Fairness ==
  \A t \in Threads :
    WF_vars(CountDownStep(t)) /\ WF_vars(WaitStep(t)) /\ WF_vars(Expire(t))

Safety == Init /\ [][Next]_vars
Spec == Safety /\ Fairness

-----------------------------------------------------------------------------
(* Properties.                                                              *)

\* The latch may go away as soon as a wait has found it open: no thread is
\* still inside a call of it then, the count_down that opened it included.
\* This is what lets parallel() keep its latch on the stack, and it is due to
\* count_down notifying before it unlocks.
LatchOutlivesCalls ==
  \A t \in Threads : on[t] # Nobody => life[on[t]] = "alive"

\* A wait that finds the latch open comes after every count_down it was
\* constructed for, and from then on both predicates, count <= 0 and
\* count == 0, are true.
OpenIsFinal ==
  \A t \in Threads : passed[t] # Nobody =>
    /\ count[passed[t]] = 0
    /\ promised[passed[t]] = 0
    /\ \A s \in Threads : on[s] = passed[t] => pc[s] # "count_down"

\* Once the latch is open every thread that waits for it returns.
OpenReleasesAll ==
  \A t \in Threads, l \in Latches :
    on[t] = l /\ pc[t] \in Waiting /\ count[l] <= 0 ~> on[t] # l

=============================================================================
