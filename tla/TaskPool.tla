------------------------------ MODULE TaskPool ------------------------------
(***************************************************************************)
(* c9y::task_pool (src/c9y/task_pool.cpp): workers that pop tasks from a    *)
(* c9y::queue, an atomic count of the tasks in flight, and flush(), which   *)
(* waits on a condition variable for that count to reach zero.              *)
(*                                                                          *)
(* The queue is the module Queue, step by step.  Each access to the counter *)
(* and each step of flush() is an action of its own, since the counter is   *)
(* not guarded by flush_mutex.  Tasks may enqueue tasks.                    *)
(*                                                                          *)
(* An exception of a task is caught and handed to the unhandled exception   *)
(* handler; the model's handler returns, so a task that throws and a task   *)
(* that returns take the same steps.                                        *)
(***************************************************************************)
EXTENDS Integers, Sequences, FiniteSets

CONSTANTS
  Workers,   \* the threads of the pool
  Clients,   \* the threads that enqueue and flush
  Owner,     \* the thread that destroys the pool
  Tasks,     \* bound: the tasks that are ever enqueued, each of them once
  Nullopt,   \* std::nullopt
  Nobody,    \* the owner of a free mutex
  UIntMod    \* the counter is unsigned: arithmetic modulo 2^32 in the code

Threads == Workers \cup Clients \cup {Owner}

\* thread_pool starts no thread when the concurrency is 0.
ASSUME WorkersAssumption == Workers # {} /\ IsFiniteSet(Threads)
ASSUME RolesAssumption ==
  /\ Workers \cap Clients = {}
  /\ Owner \notin Workers \cup Clients
  /\ Nobody \notin Threads
ASSUME TasksAssumption == IsFiniteSet(Tasks) /\ Nullopt \notin Tasks
ASSUME UIntModAssumption == UIntMod \in Nat /\ UIntMod > Cardinality(Tasks)

VARIABLES
  container, stopped, qpc, popped,  \* the queue "tasks"; see module Queue
  tasks_in_flight,                  \* the atomic counter
  flush_mutex,                      \* its holder, or Nobody
  pc,                               \* per thread: where it is in the pool
  arg,                              \* per thread: the task it is enqueuing
  enqueued,                         \* history: the tasks counted so far
  ancestors,                        \* history: the tasks a task descends from
  finished,                         \* history: the tasks that have run
  goal                              \* history: what a flush() waits for

queueVars == <<container, stopped, qpc, popped>>
history   == <<enqueued, ancestors, finished, goal>>
vars == <<queueVars, tasks_in_flight, flush_mutex, pc, arg, history>>

tasks ==
  INSTANCE Queue WITH
    Values <- Tasks, MaxLength <- Cardinality(Tasks),
    pc <- qpc, result <- popped

WorkerPCs == {"loop", "popping", "running", "decrement", "notify", "exited"}
FlushPCs  == {"flush_lock", "flush_test", "flush_check", "flush_sleep",
              "flush_asleep", "flush_relock"}
DtorPCs   == {"dtor_reset", "dtor_notify", "dtor_members", "dtor_join",
              "destroyed"}

TypeOK ==
  /\ tasks!TypeOK
  /\ tasks_in_flight \in 0..(UIntMod - 1)
  /\ flush_mutex \in Clients \cup {Nobody}
  /\ pc \in [Threads -> {"idle", "enqueue"} \cup WorkerPCs \cup FlushPCs \cup DtorPCs]
  /\ arg \in [Threads -> Tasks \cup {Nullopt}]
  /\ enqueued \subseteq Tasks /\ finished \subseteq enqueued
  /\ ancestors \in [Tasks -> SUBSET Tasks]
  /\ goal \in [Clients -> SUBSET Tasks]

\* The pool is built: its workers have started and the queue is empty.
Init ==
  /\ container = <<>>
  /\ tasks!Init
  /\ tasks_in_flight = 0
  /\ flush_mutex = Nobody
  /\ pc = [t \in Threads |-> IF t \in Workers THEN "loop" ELSE "idle"]
  /\ arg = [t \in Threads |-> Nullopt]
  /\ enqueued = {} /\ finished = {}
  /\ ancestors = [k \in Tasks |-> {}]
  /\ goal = [c \in Clients |-> {}]

\* Thread t is at this label and not inside a call of the queue.
At(t, label) == pc[t] = label /\ qpc[t] = "ready"
GoTo(t, label) == pc' = [pc EXCEPT ![t] = label]

\* Clients call the pool only until its owner starts to destroy it.  A task
\* may use the pool for as long as it runs.
Alive == pc[Owner] = "idle"

-----------------------------------------------------------------------------
(* The queue's own steps, between the pool's.                               *)

QueueStep(t) ==
  /\ tasks!NotifyOne(t) \/ tasks!NotifyAll(t) \/ tasks!Resume(t)
  /\ UNCHANGED <<tasks_in_flight, flush_mutex, pc, arg, history>>

QueueSpuriousWake(t) ==
  /\ tasks!SpuriousWake(t)
  /\ UNCHANGED <<tasks_in_flight, flush_mutex, pc, arg, history>>

-----------------------------------------------------------------------------
(* enqueue, called by a client or by the task a worker runs.                *)

\* tasks_in_flight++
EnqueueCount(t, k) ==
  /\ \/ t \in Clients /\ At(t, "idle") /\ Alive
     \/ t \in Workers /\ At(t, "running")
  /\ k \notin enqueued
  /\ tasks_in_flight' = (tasks_in_flight + 1) % UIntMod
  /\ arg' = [arg EXCEPT ![t] = k]
  /\ GoTo(t, "enqueue")
  /\ enqueued' = enqueued \cup {k}
  /\ ancestors' =
       IF t \in Workers
       THEN [ancestors EXCEPT ![k] = ancestors[popped[t]] \cup {popped[t]}]
       ELSE ancestors
  /\ UNCHANGED <<queueVars, flush_mutex, finished, goal>>

\* tasks.push(func); the call returns when the push has notified.
EnqueuePush(t) ==
  /\ At(t, "enqueue")
  /\ tasks!Push(t, arg[t])
  /\ GoTo(t, IF t \in Workers THEN "running" ELSE "idle")
  /\ arg' = [arg EXCEPT ![t] = Nullopt]
  /\ UNCHANGED <<tasks_in_flight, flush_mutex, history>>

-----------------------------------------------------------------------------
(* thread_func, the loop of a worker.                                       *)

\* Mutant: the loop polls.
WorkerPopNoWait(w) ==
  /\ At(w, "loop")
  /\ tasks!Pop(w)
  /\ GoTo(w, "popping")
  /\ UNCHANGED <<tasks_in_flight, flush_mutex, arg, history>>

\* tasks.pop_wait()
WorkerPop(w) ==
  /\ At(w, "loop")
  /\ tasks!PopWait(w)
  /\ GoTo(w, "popping")
  /\ UNCHANGED <<tasks_in_flight, flush_mutex, arg, history>>

\* Mutant: the loop ends as soon as the queue is stopped.
WorkerGotStopped(w) ==
  /\ At(w, "popping")
  /\ GoTo(w, IF popped[w] = Nullopt \/ stopped THEN "exited" ELSE "running")
  /\ UNCHANGED <<queueVars, tasks_in_flight, flush_mutex, arg, history>>

\* The loop ends with the first pop_wait that returns nothing.
WorkerGot(w) ==
  /\ At(w, "popping")
  /\ GoTo(w, IF popped[w] = Nullopt THEN "exited" ELSE "running")
  /\ UNCHANGED <<queueVars, tasks_in_flight, flush_mutex, arg, history>>

\* Mutant: an exception leaves the loop body early.
FinishThrow(w) ==
  /\ At(w, "running")
  /\ \/ GoTo(w, "decrement")
     \/ GoTo(w, "loop")
  /\ finished' = finished \cup {popped[w]}
  /\ UNCHANGED <<queueVars, tasks_in_flight, flush_mutex, arg,
                 enqueued, ancestors, goal>>

\* The task returned, or threw and was caught.
Finish(w) ==
  /\ At(w, "running")
  /\ GoTo(w, "decrement")
  /\ finished' = finished \cup {popped[w]}
  /\ UNCHANGED <<queueVars, tasks_in_flight, flush_mutex, arg,
                 enqueued, ancestors, goal>>

\* Mutant: the counter is signed.
DecrementSigned(w) ==
  /\ At(w, "decrement")
  /\ tasks_in_flight' = tasks_in_flight - 1
  /\ GoTo(w, IF tasks_in_flight' = 0 THEN "notify" ELSE "loop")
  /\ UNCHANGED <<queueVars, flush_mutex, arg, history>>

\* if (--tasks_in_flight == 0)
Decrement(w) ==
  /\ At(w, "decrement")
  /\ tasks_in_flight' = (tasks_in_flight - 1) % UIntMod
  /\ GoTo(w, IF tasks_in_flight' = 0 THEN "notify" ELSE "loop")
  /\ UNCHANGED <<queueVars, flush_mutex, arg, history>>

Flushers == {c \in Clients : pc[c] \in FlushPCs}

\* Every flush() asleep leaves the wait set; thread t goes on.
NotifyFlushCv(t, label) ==
  pc' = [s \in Threads |-> IF s = t THEN label
                           ELSE IF pc[s] = "flush_asleep" THEN "flush_relock"
                           ELSE pc[s]]

\* flush_cv.notify_all(), without flush_mutex.
WorkerNotify(w) ==
  /\ At(w, "notify")
  /\ NotifyFlushCv(w, "loop")
  /\ UNCHANGED <<queueVars, tasks_in_flight, flush_mutex, arg, history>>

-----------------------------------------------------------------------------
(* flush.                                                                   *)

FlushCall(c) ==
  /\ At(c, "idle") /\ Alive
  /\ GoTo(c, "flush_lock")
  /\ goal' = [goal EXCEPT ![c] = enqueued]
  /\ UNCHANGED <<queueVars, tasks_in_flight, flush_mutex, arg,
                 enqueued, ancestors, finished>>

FlushLock(c) ==
  /\ flush_mutex = Nobody
  /\ flush_mutex' = c
  /\ \/ At(c, "flush_lock") /\ GoTo(c, "flush_test")
     \/ At(c, "flush_relock") /\ GoTo(c, "flush_check")
  /\ UNCHANGED <<queueVars, tasks_in_flight, arg, history>>

\* Mutant: flush() looks at the queue instead of the counter.
FlushDoneWhenQueueEmpty == container = <<>>

\* tasks_in_flight == 0, read once each time it is evaluated.
FlushDone == tasks_in_flight = 0

FlushReturn(c) ==
  /\ FlushDone
  /\ GoTo(c, "idle")
  /\ flush_mutex' = Nobody
  /\ goal' = [goal EXCEPT ![c] = {}]

\* The early return, and otherwise on to the wait, which reads again.
FlushTest(c) ==
  /\ At(c, "flush_test")
  /\ \/ FlushReturn(c)
     \/ ~FlushDone /\ GoTo(c, "flush_check") /\ UNCHANGED <<flush_mutex, goal>>
  /\ UNCHANGED <<queueVars, tasks_in_flight, arg, enqueued, ancestors, finished>>

\* The wait's predicate.  A thread that found it false has not yet entered
\* the wait set, and no worker needs flush_mutex to decrement and to notify.
FlushCheck(c) ==
  /\ At(c, "flush_check")
  /\ \/ FlushReturn(c)
     \/ ~FlushDone /\ GoTo(c, "flush_sleep") /\ UNCHANGED <<flush_mutex, goal>>
  /\ UNCHANGED <<queueVars, tasks_in_flight, arg, enqueued, ancestors, finished>>

\* Enters the wait set and releases flush_mutex in one step.
FlushSleep(c) ==
  /\ At(c, "flush_sleep")
  /\ GoTo(c, "flush_asleep")
  /\ flush_mutex' = Nobody
  /\ UNCHANGED <<queueVars, tasks_in_flight, arg, history>>

FlushSpuriousWake(c) ==
  /\ At(c, "flush_asleep")
  /\ GoTo(c, "flush_relock")
  /\ UNCHANGED <<queueVars, tasks_in_flight, flush_mutex, arg, history>>

FlushStep(c) ==
  FlushLock(c) \/ FlushTest(c) \/ FlushCheck(c) \/ FlushSleep(c)

-----------------------------------------------------------------------------
(* The destructor, in the order of its body and then of its members.        *)

\* Mutant: the destructor does not stop the queue.
DtorNoStop ==
  /\ At(Owner, "idle")
  /\ \A c \in Clients : At(c, pc[c]) /\ pc[c] # "enqueue"
  /\ GoTo(Owner, "dtor_reset")
  /\ UNCHANGED <<queueVars, tasks_in_flight, flush_mutex, arg, history>>

\* tasks.stop(), when no client is in enqueue() any more.
DtorStop ==
  /\ At(Owner, "idle")
  /\ \A c \in Clients : At(c, pc[c]) /\ pc[c] # "enqueue"
  /\ tasks!Stop(Owner)
  /\ GoTo(Owner, "dtor_reset")
  /\ UNCHANGED <<tasks_in_flight, flush_mutex, arg, history>>

\* tasks_in_flight = 0
DtorReset ==
  /\ At(Owner, "dtor_reset")
  /\ tasks_in_flight' = 0
  /\ GoTo(Owner, "dtor_notify")
  /\ UNCHANGED <<queueVars, flush_mutex, arg, history>>

\* flush_cv.notify_all()
DtorNotify ==
  /\ At(Owner, "dtor_notify")
  /\ NotifyFlushCv(Owner, "dtor_members")
  /\ UNCHANGED <<queueVars, tasks_in_flight, flush_mutex, arg, history>>

\* flush_cv, flush_mutex and the counter are destroyed before the threads.
DtorMembers ==
  /\ At(Owner, "dtor_members")
  /\ GoTo(Owner, "dtor_join")
  /\ UNCHANGED <<queueVars, tasks_in_flight, flush_mutex, arg, history>>

\* The thread pool joins every worker; the queue is destroyed last.
DtorJoin ==
  /\ At(Owner, "dtor_join")
  /\ \A w \in Workers : At(w, "exited")
  /\ GoTo(Owner, "destroyed")
  /\ UNCHANGED <<queueVars, tasks_in_flight, flush_mutex, arg, history>>

DtorStep == DtorReset \/ DtorNotify \/ DtorMembers \/ DtorJoin

-----------------------------------------------------------------------------
WorkerStep(w) ==
  \/ WorkerPop(w)
  \/ WorkerGot(w)
  \/ Finish(w)
  \/ Decrement(w)
  \/ WorkerNotify(w)

ServiceNext ==
  \/ \E t \in Threads : QueueStep(t) \/ QueueSpuriousWake(t) \/ EnqueuePush(t)
  \/ \E t \in Workers \cup Clients, k \in Tasks : EnqueueCount(t, k)
  \/ \E w \in Workers : WorkerStep(w)
  \/ \E c \in Clients : FlushCall(c) \/ FlushStep(c) \/ FlushSpuriousWake(c)

\* The destructor is called when every call of a client has returned.
Next ==
  \/ ServiceNext
  \/ Flushers = {} /\ DtorStop
  \/ DtorStep

(***************************************************************************)
(* Every thread inside a call keeps running and every task terminates.  The *)
(* workers' loop is a thread of its own.  flush() gets flush_mutex if it is *)
(* free again and again.  No client is made to start a call.                *)
(***************************************************************************)
ServiceFairness ==
  /\ \A t \in Threads : WF_vars(QueueStep(t)) /\ WF_vars(EnqueuePush(t))
  /\ \A w \in Workers : WF_vars(WorkerStep(w))
  /\ \A c \in Clients : WF_vars(FlushStep(c)) /\ SF_vars(FlushLock(c))

ServiceSafety == Init /\ [][ServiceNext]_vars
ServiceSpec == ServiceSafety /\ ServiceFairness

Safety == Init /\ [][Next]_vars
Spec == Safety /\ ServiceFairness /\ WF_vars(DtorStep)

-----------------------------------------------------------------------------
(* Properties.                                                              *)

\* The tasks and their descendants.
Lineage(S) == {k \in enqueued : k \in S \/ ancestors[k] \cap S # {}}

\* "Wait for all pending work to clear": when flush() returns, every task that
\* had been counted when it was called has run, and so has every task those
\* enqueued, however deep.  It hinges on enqueue() counting a task before it
\* pushes it and on a worker discounting it after it ran.
FlushComplete ==
  [][\A c \in Clients :
       pc[c] \in FlushPCs /\ pc'[c] = "idle" => Lineage(goal[c]) \subseteq finished]_vars

\* The workers that hold a task they have not discounted.
Busy ==
  {w \in Workers : \/ pc[w] \in {"running", "enqueue", "decrement"}
                   \/ At(w, "popping") /\ popped[w] # Nullopt}

\* Until the destructor resets it, the counter and the queue never disagree: it
\* counts the queue, the tasks about to be pushed and the tasks workers hold.
CounterMatchesQueue ==
  pc[Owner] \in {"idle", "dtor_reset"} =>
    tasks_in_flight =
      Len(container) + Cardinality({t \in Threads : pc[t] = "enqueue"})
                     + Cardinality(Busy)

\* Every task that is enqueued runs, whichever thread enqueued it and however
\* its push interleaves with the workers going to sleep.
EveryTaskRuns == \A k \in Tasks : k \in enqueued ~> k \in finished

\* The destructor drains: when it has joined the workers, every task that was
\* ever enqueued has run, those enqueued by tasks after the stop included.
DtorDrains == pc[Owner] = "destroyed" => enqueued = finished

\* A destructor that is called returns.
DtorTerminates == pc[Owner] \in DtorPCs ~> pc[Owner] = "destroyed"

\* A call of flush() returns (the tasks are finitely many).
FlushReturns == \A c \in Clients : pc[c] \in FlushPCs ~> pc[c] = "idle"

\* No worker is about to use flush_cv once the destructor has destroyed it.
FlushCvOutlivesWorkers ==
  pc[Owner] \in {"dtor_join", "destroyed"} => \A w \in Workers : pc[w] # "notify"

-----------------------------------------------------------------------------
(* What the pool promises: AbstractPool.  A task is enqueued when it is in   *)
(* the queue, and starts when pop_wait has taken it out.                     *)

Enqueuers == {t \in Threads : pc[t] = "enqueue"}
Running ==
  {w \in Workers : \/ pc[w] \in {"running", "enqueue"}
                   \/ At(w, "popping") /\ popped[w] # Nullopt}

Abstract ==
  INSTANCE AbstractPool WITH
    enqueued <- enqueued \ {arg[t] : t \in Enqueuers},
    queued <- container,
    task <- [w \in Workers |-> IF w \in Running THEN popped[w] ELSE Nullopt],
    flushing <- Flushers,
    phase <- IF pc[Owner] = "idle" THEN "open"
             ELSE IF pc[Owner] = "destroyed" THEN "destroyed" ELSE "closing"

=============================================================================
