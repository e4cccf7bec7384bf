------------------------------ MODULE Parallel ------------------------------
(***************************************************************************)
(* c9y::parallel (src/c9y/parallel.h) on the process-wide task pool: a call *)
(* puts a latch on its stack, enqueues one closure per element of its range *)
(* and waits; each closure runs its task and then counts the latch down.    *)
(*                                                                          *)
(* The latch is the module Latch, step by step.  The pool is reduced to     *)
(* what AbstractPool says of it (see "pool" at the end): a FIFO, as in      *)
(* AbstractQueue, whose workers run what they take; nothing here flushes or *)
(* destroys it.                                                             *)
(*                                                                          *)
(* A job is an element of some call's range.  It may call parallel() itself *)
(* and it may throw; the exception leaves the closure and is caught by the  *)
(* worker, whose unhandled exception handler returns.                       *)
(***************************************************************************)
EXTENDS Integers, Sequences, FiniteSets

CONSTANTS
  Workers,   \* the threads of the pool; hardware_concurrency() of them
  Clients,   \* the other threads
  Calls,     \* bound: the calls of parallel(), each made at most once
  Jobs,      \* the elements of all the ranges
  CallOf,    \* per job: the call whose range holds it
  Nested,    \* per job: the call it makes, or Nobody
  Throws,    \* the jobs that throw
  Nullopt,   \* std::nullopt
  Nobody     \* no thread, no call

Threads == Workers \cup Clients

ASSUME FiniteAssumption ==
  IsFiniteSet(Workers) /\ IsFiniteSet(Clients) /\ IsFiniteSet(Jobs)
ASSUME ParallelAssumption ==
  /\ CallOf \in [Jobs -> Calls]
  /\ Nested \in [Jobs -> Calls \cup {Nobody}]
  /\ Throws \subseteq Jobs
  /\ Nobody \notin Threads \cup Calls /\ Nullopt \notin Jobs

JobsOf(q) == {j \in Jobs : CallOf[j] = q}
NestedCalls == {Nested[j] : j \in Jobs}

VARIABLES
  items, closed, call, popped,         \* the pool's queue; see AbstractQueue
  count, promised, mutex, life, lpc,   \* the latches; see Latch
  on, amount, passed,
  pc,        \* per thread: where it is in parallel() or in the pool's loop
  current,   \* per thread: the call it is making, or Nobody
  left,      \* per call: the part of its range not yet enqueued
  finished,  \* history: the jobs that have run to their end
  returned   \* history: the calls that have returned

queueVars == <<items, closed, call, popped>>
latchVars == <<count, promised, mutex, life, lpc, on, amount, passed>>
vars == <<queueVars, latchVars, pc, current, left, finished, returned>>

queue ==
  INSTANCE AbstractQueue WITH
    Values <- Jobs, MaxLength <- Cardinality(Jobs), result <- popped

latch ==
  INSTANCE Latch WITH
    Latches <- Calls, MaxCount <- Cardinality(Jobs), pc <- lpc

TypeOK ==
  /\ latch!TypeOK
  /\ items \in Seq(Jobs)
  /\ popped \in [Threads -> Jobs \cup {Nullopt}]
  /\ pc \in [Threads -> {"idle", "loop", "job", "enqueue", "wait", "after", "count"}]
  /\ current \in [Threads -> Calls \cup {Nobody}]
  /\ left \in [Calls -> SUBSET Jobs]
  /\ finished \subseteq Jobs /\ returned \subseteq Calls

Init ==
  /\ items = <<>>
  /\ queue!Init
  /\ latch!Init
  /\ pc = [t \in Threads |-> IF t \in Workers THEN "loop" ELSE "idle"]
  /\ current = [t \in Threads |-> Nobody]
  /\ left = [q \in Calls |-> JobsOf(q)]
  /\ finished = {} /\ returned = {}

GoTo(t, label) == pc' = [pc EXCEPT ![t] = label]

-----------------------------------------------------------------------------
(* The caller.                                                              *)

\* Mutant: the latch is one short.
ParallelCallOneShort(t, q) ==
  /\ \/ t \in Clients /\ pc[t] = "idle" /\ q \notin NestedCalls
     \/ t \in Workers /\ pc[t] = "job" /\ Nested[popped[t]] = q
  /\ latch!Construct(q, Cardinality(JobsOf(q)) - 1)
  /\ current' = [current EXCEPT ![t] = q]
  /\ GoTo(t, "enqueue")
  /\ UNCHANGED <<queueVars, left, finished, returned>>

\* latch l(distance), called by a client or by the job a worker runs.
ParallelCall(t, q) ==
  /\ \/ t \in Clients /\ pc[t] = "idle" /\ q \notin NestedCalls
     \/ t \in Workers /\ pc[t] = "job" /\ Nested[popped[t]] = q
  /\ latch!Construct(q, Cardinality(JobsOf(q)))
  /\ current' = [current EXCEPT ![t] = q]
  /\ GoTo(t, "enqueue")
  /\ UNCHANGED <<queueVars, left, finished, returned>>

\* pool.enqueue, once per element; the range may come in any order.
ParallelEnqueue(t) ==
  /\ pc[t] = "enqueue"
  /\ \E j \in left[current[t]] :
       /\ queue!Insert(t, j)
       /\ left' = [left EXCEPT ![current[t]] = @ \ {j}]
  /\ UNCHANGED <<latchVars, pc, current, finished, returned>>

\* l.wait()
ParallelWait(t) ==
  /\ pc[t] = "enqueue"
  /\ left[current[t]] = {}
  /\ latch!WaitCall(t, current[t])
  /\ GoTo(t, "wait")
  /\ UNCHANGED <<queueVars, current, left, finished, returned>>

\* The wait is over; the latch goes with the frame.
ParallelReturn(t) ==
  /\ pc[t] = "wait"
  /\ latch!Destroy(t, current[t])
  /\ returned' = returned \cup {current[t]}
  /\ current' = [current EXCEPT ![t] = Nobody]
  /\ GoTo(t, IF t \in Workers THEN "after" ELSE "idle")
  /\ UNCHANGED <<queueVars, left, finished>>

-----------------------------------------------------------------------------
(* The worker.                                                              *)

\* tasks.pop_wait()
WorkerPop(w) ==
  /\ pc[w] = "loop"
  /\ queue!Deliver(w)
  /\ GoTo(w, "job")
  /\ UNCHANGED <<latchVars, current, left, finished, returned>>

\* A job is at its end once the call it makes has returned.
AtEnd(w) ==
  \/ pc[w] = "job" /\ Nested[popped[w]] = Nobody
  \/ pc[w] = "after"

\* task(); l.count_down();
JobEnd(w) ==
  /\ AtEnd(w)
  /\ popped[w] \notin Throws
  /\ finished' = finished \cup {popped[w]}
  /\ latch!CountDownCall(w, CallOf[popped[w]], 1)
  /\ GoTo(w, "count")
  /\ UNCHANGED <<queueVars, current, left, returned>>

\* task() throws: the closure ends there, and the worker catches.
JobThrow(w) ==
  /\ AtEnd(w)
  /\ popped[w] \in Throws
  /\ finished' = finished \cup {popped[w]}
  /\ GoTo(w, "loop")
  /\ UNCHANGED <<queueVars, latchVars, current, left, returned>>

\* count_down() returned, and with it the closure.
JobDone(w) ==
  /\ pc[w] = "count" /\ lpc[w] = "ready"
  /\ GoTo(w, "loop")
  /\ UNCHANGED <<queueVars, latchVars, current, left, finished, returned>>

-----------------------------------------------------------------------------
(* The latch's own steps, between the others.                               *)

LatchStep(t) ==
  /\ latch!Wait(t) \/ latch!CountDownStep(t)
  /\ UNCHANGED <<queueVars, pc, current, left, finished, returned>>

LatchSpuriousWake(t) ==
  /\ latch!SpuriousWake(t)
  /\ UNCHANGED <<queueVars, pc, current, left, finished, returned>>

-----------------------------------------------------------------------------
CallerStep(t) == ParallelEnqueue(t) \/ ParallelWait(t) \/ ParallelReturn(t)
WorkerStep(w) == WorkerPop(w) \/ JobEnd(w) \/ JobThrow(w) \/ JobDone(w)
NestedCall(w) == \E q \in NestedCalls \ {Nobody} : ParallelCall(w, q)

Next ==
  \/ \E t \in Clients, q \in Calls : ParallelCall(t, q)
  \/ \E t \in Threads : CallerStep(t) \/ LatchStep(t) \/ LatchSpuriousWake(t)
  \/ \E w \in Workers : WorkerStep(w) \/ NestedCall(w)

\* Threads inside a call, and the workers, keep running; jobs come to an end.
Fairness ==
  /\ \A t \in Threads : WF_vars(CallerStep(t)) /\ WF_vars(LatchStep(t))
  /\ \A w \in Workers : WF_vars(WorkerStep(w)) /\ WF_vars(NestedCall(w))

Safety == Init /\ [][Next]_vars
Spec == Safety /\ Fairness

-----------------------------------------------------------------------------
(* Properties.                                                              *)

\* When parallel() returns, its whole range has run, and so has every range
\* that was started by one of its jobs.
ParallelComplete ==
  \A q \in returned :
    \A j \in JobsOf(q) :
      j \in finished /\ (Nested[j] # Nobody => Nested[j] \in returned)

\* The closures hold references into the frame of parallel(): none of them is
\* queued, running or inside count_down() when that frame is gone.
FrameOutlivesClosures ==
  /\ latch!LatchOutlivesCalls
  /\ \A q \in Calls : life[q] = "destroyed" =>
       \A j \in JobsOf(q) :
         /\ \A n \in DOMAIN items : items[n] # j
         /\ \A w \in Workers :
              pc[w] \in {"job", "enqueue", "wait", "after"} => popped[w] # j

\* The calls that an exception can reach: a job of theirs throws, or a job of
\* a call that one of their jobs makes.
Spoiled ==
  {q \in Calls : \E j \in JobsOf(q) :
     j \in Throws \/ \E i \in Throws : CallOf[i] = Nested[j]}

\* Every call that a job makes may block a worker, and one is left.
WorkersSuffice == Cardinality(NestedCalls \ {Nobody}) < Cardinality(Workers)

\* A call of parallel() returns, also when other threads call it, from a job,
\* or with an exception elsewhere, as long as WorkersSuffice.
ParallelReturnsUnlessThrown ==
  WorkersSuffice => \A q \in Calls \ Spoiled : life[q] = "alive" ~> q \in returned

-----------------------------------------------------------------------------
(* The pool that parallel() uses is what AbstractPool promises: its tasks   *)
(* are the closures, each of which ends after its count_down.               *)

pool ==
  INSTANCE AbstractPool WITH
    Tasks <- Jobs,
    enqueued <- {j \in Jobs : j \notin left[CallOf[j]]},
    queued <- items,
    task <- [w \in Workers |-> IF pc[w] = "loop" THEN Nullopt ELSE popped[w]],
    flushing <- {},
    phase <- "open"

=============================================================================
