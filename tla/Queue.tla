------------------------------- MODULE Queue --------------------------------
(***************************************************************************)
(* c9y::queue (src/c9y/queue.h): a deque and a stop flag behind one mutex   *)
(* and one condition variable.                                              *)
(*                                                                          *)
(* Every critical section is one action, because the mutex makes it so; the *)
(* notifications are steps of their own, because push() and stop() unlock   *)
(* before they notify and any thread can run in between.  The threads are   *)
(* the most general client: any of them may start any operation whenever it *)
(* is not inside one.                                                       *)
(***************************************************************************)
EXTENDS Integers, Sequences, FiniteSets

CONSTANTS
  Threads,     \* the threads that share the queue
  Values,      \* value_type
  Nullopt,     \* std::nullopt
  MaxLength    \* bound: a push waits for room below it; the code has none

ASSUME ThreadsAssumption == IsFiniteSet(Threads)
ASSUME ValuesAssumption == Nullopt \notin Values
ASSUME MaxLengthAssumption == MaxLength \in Nat

VARIABLES
  container,   \* the deque
  stopped,     \* the stop flag
  pc,          \* per thread: where it is in an operation of the queue
  result       \* per thread: what its last finished pop returned

vars == <<container, stopped, pc, result>>

(***************************************************************************)
(* "ready" is outside the queue.  A thread in "notify_one" or "notify_all"  *)
(* has unlocked and has still to notify.  The sleepers are in the wait set  *)
(* of the condition variable; the awake have left it and have still to lock *)
(* the mutex and look at the predicate again.                               *)
(***************************************************************************)
PCs == {"ready", "notify_one", "notify_all", "waiting", "waiting_for",
        "woken", "woken_for", "expired"}

Sleepers  == {t \in Threads : pc[t] \in {"waiting", "waiting_for"}}
Awake     == {t \in Threads : pc[t] \in {"woken", "woken_for", "expired"}}
Notifiers == {t \in Threads : pc[t] = "notify_one"}
Stoppers  == {t \in Threads : pc[t] = "notify_all"}

\* The threads that make a value in the deque reach a waiting call.
Alert == Notifiers \cup Awake

TypeOK ==
  /\ container \in Seq(Values)
  /\ stopped \in BOOLEAN
  /\ pc \in [Threads -> PCs]
  /\ result \in [Threads -> Values \cup {Nullopt}]

\* Empty, or filled by the constructor that forwards to the container.
Init ==
  /\ container \in UNION {[1..n -> Values] : n \in 0..MaxLength}
  /\ stopped = FALSE
  /\ pc = [t \in Threads |-> "ready"]
  /\ result = [t \in Threads |-> Nullopt]

GoTo(t, label) == pc' = [pc EXCEPT ![t] = label]

-----------------------------------------------------------------------------
(* push and emplace.                                                        *)

\* Mutant: the value is read after it was moved from.
PushMovedFrom(t, v) ==
  /\ pc[t] = "ready"
  /\ Len(container) < MaxLength
  /\ container' = Append(container, Nullopt)
  /\ GoTo(t, "notify_one")
  /\ UNCHANGED <<stopped, result>>

\* Mutant: notify only on the edge from empty to non-empty.
PushNotifyOnEdge(t, v) ==
  /\ pc[t] = "ready"
  /\ Len(container) < MaxLength
  /\ container' = Append(container, v)
  /\ GoTo(t, IF container = <<>> THEN "notify_one" ELSE "ready")
  /\ UNCHANGED <<stopped, result>>

Push(t, v) ==
  /\ pc[t] = "ready"
  /\ Len(container) < MaxLength
  /\ container' = Append(container, v)
  /\ GoTo(t, "notify_one")
  /\ UNCHANGED <<stopped, result>>

\* What a notification does to a sleeper, and so does the operating system
\* when it wakes one for no reason.
WakeUp(s) == IF pc[s] = "waiting" THEN "woken" ELSE "woken_for"

\* cond.notify_one(): some sleeper, if there is one.
NotifyOne(t) ==
  /\ pc[t] = "notify_one"
  /\ \/ /\ Sleepers = {}
        /\ GoTo(t, "ready")
     \/ \E s \in Sleepers :
          pc' = [pc EXCEPT ![t] = "ready", ![s] = WakeUp(s)]
  /\ UNCHANGED <<container, stopped, result>>

-----------------------------------------------------------------------------
(* The three pops.                                                          *)

\* With the mutex held: the front of the deque, or nothing when it is empty.
Take(t) ==
  \/ /\ container # <<>>
     /\ container' = Tail(container)
     /\ result' = [result EXCEPT ![t] = Head(container)]
  \/ /\ container = <<>>
     /\ result' = [result EXCEPT ![t] = Nullopt]
     /\ UNCHANGED container

\* Mutant: the predicate forgets the stop flag.
OnlyNotEmpty == container # <<>>

\* The predicate both waits are given.
WaitOver == container # <<>> \/ stopped

\* Mutant: no predicate, so that any wake-up ends the wait.
TakeOnAnyWakeUp(t, sleep) ==
  \/ /\ WaitOver \/ pc[t] # "ready"
     /\ Take(t)
     /\ GoTo(t, "ready")
  \/ /\ ~WaitOver /\ pc[t] = "ready"
     /\ GoTo(t, sleep)
     /\ UNCHANGED <<container, result>>

\* cond.wait(lock, predicate) and what follows it, up to the next sleep.
TakeOrSleep(t, sleep) ==
  \/ /\ WaitOver
     /\ Take(t)
     /\ GoTo(t, "ready")
  \/ /\ ~WaitOver
     /\ GoTo(t, sleep)
     /\ UNCHANGED <<container, result>>

Pop(t) ==
  /\ pc[t] = "ready"
  /\ Take(t)
  /\ UNCHANGED <<stopped, pc>>

PopWait(t) ==
  /\ pc[t] = "ready"
  /\ TakeOrSleep(t, "waiting")
  /\ UNCHANGED stopped

PopWaitFor(t) ==
  /\ pc[t] = "ready"
  /\ TakeOrSleep(t, "waiting_for")
  /\ UNCHANGED stopped

\* The wait re-acquires the mutex and evaluates its predicate.
Resume(t) ==
  /\ \/ pc[t] = "woken" /\ TakeOrSleep(t, "waiting")
     \/ pc[t] = "woken_for" /\ TakeOrSleep(t, "waiting_for")
  /\ UNCHANGED stopped

SpuriousWake(t) ==
  /\ t \in Sleepers
  /\ GoTo(t, WakeUp(t))
  /\ UNCHANGED <<container, stopped, result>>

\* The deadline of pop_wait_for passes, before or after a notification.
Expire(t) ==
  /\ pc[t] \in {"waiting_for", "woken_for"}
  /\ GoTo(t, "expired")
  /\ UNCHANGED <<container, stopped, result>>

\* After the deadline wait_for returns whatever the predicate says, and
\* pop_wait_for still takes a value if there is one.
ResumeExpired(t) ==
  /\ pc[t] = "expired"
  /\ Take(t)
  /\ GoTo(t, "ready")
  /\ UNCHANGED stopped

-----------------------------------------------------------------------------
(* stop.                                                                    *)

\* Mutant: stop() notifies one sleeper.
StopNotifyOne(t) ==
  /\ pc[t] = "ready"
  /\ stopped' = TRUE
  /\ GoTo(t, "notify_one")
  /\ UNCHANGED <<container, result>>

Stop(t) ==
  /\ pc[t] = "ready"
  /\ stopped' = TRUE
  /\ GoTo(t, "notify_all")
  /\ UNCHANGED <<container, result>>

\* cond.notify_all()
NotifyAll(t) ==
  /\ pc[t] = "notify_all"
  /\ pc' = [s \in Threads |-> IF s = t THEN "ready"
                              ELSE IF s \in Sleepers THEN WakeUp(s)
                              ELSE pc[s]]
  /\ UNCHANGED <<container, stopped, result>>

-----------------------------------------------------------------------------
Next ==
  \E t \in Threads :
    \/ \E v \in Values : Push(t, v)
    \/ NotifyOne(t)
    \/ Pop(t)
    \/ PopWait(t)
    \/ PopWaitFor(t)
    \/ Resume(t)
    \/ SpuriousWake(t)
    \/ Expire(t)
    \/ ResumeExpired(t)
    \/ Stop(t)
    \/ NotifyAll(t)

(***************************************************************************)
(* A thread inside an operation keeps running, a deadline passes, and a     *)
(* thread that wants the mutex gets it.  Nothing makes a thread start an    *)
(* operation, and nothing makes the operating system wake a sleeper.        *)
(***************************************************************************)
Fairness ==
  \A t \in Threads :
    /\ WF_vars(NotifyOne(t))
    /\ WF_vars(NotifyAll(t))
    /\ WF_vars(Resume(t))
    /\ WF_vars(Expire(t))
    /\ WF_vars(ResumeExpired(t))

Safety == Init /\ [][Next]_vars
Spec == Safety /\ Fairness

-----------------------------------------------------------------------------
(* Properties.                                                              *)

\* No wake-up is lost: push() notifies after it unlocks, so a value can be in
\* the deque while threads sleep, but then each such value has a thread that
\* is about to notify or a thread already out of the wait set that will look
\* at the deque before it sleeps again.  It holds although a woken thread may
\* find its value taken by a pop() that came first, and although a
\* notification may be spent on a pop_wait_for whose deadline has passed.
NoLostWakeup ==
  Sleepers # {} => Len(container) <= Cardinality(Alert)

\* stop() leaves nobody behind: while the flag is up and a thread sleeps, some
\* stop() has still to call notify_all.  In particular no thread goes to sleep
\* after the last notify_all of a stopped queue.
StopReachesSleepers ==
  stopped /\ Sleepers # {} => Stoppers # {}

\* "ensure a clean exit can be done": once the queue is stopped every call
\* that was waiting returns, however the others interfere.
StopEndsEveryWait ==
  \A t \in Threads :
    stopped /\ t \in Sleepers \cup Awake ~> pc[t] = "ready"

\* The waiting call a thread is in, as its caller sees it.
WaitingCall(t) ==
  CASE pc[t] \in {"waiting", "woken"} -> "pop_wait"
    [] pc[t] \in {"waiting_for", "woken_for", "expired"} -> "pop_wait_for"
    [] OTHER -> "none"

\* The monitor implements the abstract FIFO: it drops, duplicates and reorders
\* nothing, pop_wait returns nothing only from a stopped and empty queue, and
\* waiting calls are served.
Abstract ==
  INSTANCE AbstractQueue WITH
    items <- container, closed <- stopped,
    call <- [t \in Threads |-> WaitingCall(t)]

ImplementsAbstractQueue == Abstract!Spec

=============================================================================
