---------------------------- MODULE TaskPoolProofs ----------------------------
(***************************************************************************)
(* What TLAPS proves of TaskPool, for any finite sets of workers, clients   *)
(* and tasks and any width of the counter that can hold the tasks: that the *)
(* counter agrees with the queue and the workers, that flush() returns when *)
(* what it waits for has run, that the destructor drains the queue, and     *)
(* that the pool is the one AbstractPool describes.                         *)
(***************************************************************************)
EXTENDS TaskPool, FiniteSetTheorems, SequenceTheorems, TLAPS

-----------------------------------------------------------------------------
(* The inductive invariant.                                                 *)

\* The workers whose loop has got nothing from the queue and ends.
Leaving ==
  {w \in Workers : pc[w] = "exited" \/ (At(w, "popping") /\ popped[w] = Nullopt)}

\* Each thread is in the part of the pool that is its own.
Roles ==
  /\ \A w \in Workers : pc[w] \in WorkerPCs \cup {"enqueue"}
  /\ \A c \in Clients : pc[c] \in {"idle", "enqueue"} \cup FlushPCs
  /\ pc[Owner] \in {"idle"} \cup DtorPCs

\* Only the workers' pop waits in the queue, and whoever else is in a call of
\* the queue has still to notify.
Calls ==
  \A t \in Threads :
    IF pc[t] = "popping" THEN qpc[t] \in {"ready", "waiting", "woken"}
                         ELSE qpc[t] \in {"ready", "notify_one", "notify_all"}

\* What is pushed, queued or held has been counted, and it has run before it is
\* discounted.
Counted ==
  /\ \A i \in 1..Len(container) : container[i] \in enqueued
  /\ \A t \in Enqueuers : arg[t] \in enqueued
  /\ \A w \in Busy : popped[w] \in enqueued
  /\ \A w \in Workers : pc[w] = "decrement" => popped[w] \in finished

\* A task that was counted and has not run is about to be pushed, in the queue
\* or in the hands of a worker.
Whereabouts ==
  \A k \in enqueued \ finished :
    \/ \E i \in 1..Len(container) : container[i] = k
    \/ \E t \in Enqueuers : arg[t] = k
    \/ \E w \in Busy : popped[w] = k

\* No more is in flight than was counted, so that the counter never wraps
\* around before the destructor resets it.
NoWrap ==
  Len(container) + Cardinality(Enqueuers) + Cardinality(Busy) <= Cardinality(enqueued)

\* The destructor starts when the clients have left, the queue is stopped from
\* then on, and the last worker to leave has found the queue empty.
Shutdown ==
  /\ pc[Owner] = "idle" => ~stopped
  /\ pc[Owner] # "idle" => \A c \in Clients : pc[c] = "idle"
  /\ Leaving # {} => stopped
  /\ Workers \subseteq Leaving => container = <<>>
  /\ pc[Owner] = "destroyed" => \A w \in Workers : pc[w] = "exited"

IInv ==
  /\ TypeOK /\ Roles /\ Calls
  /\ Counted /\ Whereabouts /\ NoWrap /\ CounterMatchesQueue
  /\ Shutdown

-----------------------------------------------------------------------------
(* Counting.                                                                *)

LEMMA CountsFinite ==
  /\ IsFiniteSet(Enqueuers) /\ Cardinality(Enqueuers) \in Nat
  /\ IsFiniteSet(Enqueuers') /\ Cardinality(Enqueuers') \in Nat
  /\ IsFiniteSet(Busy) /\ Cardinality(Busy) \in Nat
  /\ IsFiniteSet(Busy') /\ Cardinality(Busy') \in Nat
<1>1. /\ Enqueuers \subseteq Threads /\ Enqueuers' \subseteq Threads
      /\ Busy \subseteq Threads /\ Busy' \subseteq Threads
  BY DEF Enqueuers, Busy, Threads
<1>2. /\ IsFiniteSet(Enqueuers) /\ IsFiniteSet(Enqueuers')
      /\ IsFiniteSet(Busy) /\ IsFiniteSet(Busy')
  BY <1>1, FS_Subset, WorkersAssumption
<1> QED BY <1>2, FS_CardinalityType

LEMMA CountedFinite ==
  ASSUME IInv
  PROVE  /\ IsFiniteSet(Tasks) /\ IsFiniteSet(enqueued)
         /\ Cardinality(enqueued) \in Nat /\ Cardinality(Tasks) \in Nat
         /\ Len(container) \in Nat
<1>1. enqueued \subseteq Tasks /\ container \in Seq(Tasks)
  BY DEF IInv, TypeOK, tasks!TypeOK
<1>2. IsFiniteSet(Tasks) /\ IsFiniteSet(enqueued)
  BY <1>1, FS_Subset, TasksAssumption
<1> QED BY <1>1, <1>2, FS_CardinalityType, LenProperties

\* The counter agrees as long as the destructor has not reset it.
Agrees ==
  tasks_in_flight = Len(container) + Cardinality(Enqueuers) + Cardinality(Busy)

LEMMA AgreesWithQueue ==
  /\ CounterMatchesQueue <=> (pc[Owner] \in {"idle", "dtor_reset"} => Agrees)
  /\ CounterMatchesQueue' <=> (pc'[Owner] \in {"idle", "dtor_reset"} => Agrees')
BY DEF CounterMatchesQueue, Agrees, Enqueuers

-----------------------------------------------------------------------------
(* Steps that leave the tasks where they are.                               *)

\* The part of the invariant that is about tasks.
TasksInv == Counted /\ Whereabouts /\ NoWrap /\ CounterMatchesQueue

\* A step after which the same threads push and hold the same tasks.
LEMMA NothingMoves ==
  ASSUME IInv,
         UNCHANGED <<container, popped, arg, enqueued>>,
         UNCHANGED Enqueuers, UNCHANGED Busy,
         finished \subseteq finished',
         \A w \in Workers : pc'[w] = "decrement" => popped[w] \in finished',
         pc'[Owner] \in {"idle", "dtor_reset"} =>
           pc[Owner] \in {"idle", "dtor_reset"} /\ UNCHANGED tasks_in_flight
  PROVE  TasksInv'
<1>1. Counted'
  BY DEF IInv, Counted
<1>2. Whereabouts'
  BY DEF IInv, Whereabouts
<1>3. NoWrap'
  BY DEF IInv, NoWrap
<1>4. CounterMatchesQueue'
  BY AgreesWithQueue DEF IInv, Agrees
<1> QED BY <1>1, <1>2, <1>3, <1>4 DEF TasksInv

\* Thread t, which is not in a call of the queue, goes on in its own part.
MayGo(t, label) ==
  /\ label # "popping"
  /\ \/ t \in Workers /\ label \in WorkerPCs \cup {"enqueue"}
     \/ t \in Clients /\ label \in {"idle", "enqueue"} \cup FlushPCs
     \/ t = Owner /\ label \in {"idle"} \cup DtorPCs

LEMMA GoesOn ==
  ASSUME IInv, NEW t \in Threads, NEW label, MayGo(t, label),
         qpc[t] = "ready", GoTo(t, label), UNCHANGED queueVars
  PROVE  /\ pc' \in [Threads -> {"idle", "enqueue"} \cup WorkerPCs \cup FlushPCs \cup DtorPCs]
         /\ pc'[t] = label /\ \A s \in Threads \ {t} : pc'[s] = pc[s]
         /\ tasks!TypeOK' /\ Roles' /\ Calls'
<1>1. /\ pc \in [Threads -> {"idle", "enqueue"} \cup WorkerPCs \cup FlushPCs \cup DtorPCs]
      /\ Roles /\ Calls /\ tasks!TypeOK
  BY DEF IInv, TypeOK
<1>2. label \in {"idle", "enqueue"} \cup WorkerPCs \cup FlushPCs \cup DtorPCs
  BY DEF MayGo
<1>3. /\ pc' \in [Threads -> {"idle", "enqueue"} \cup WorkerPCs \cup FlushPCs \cup DtorPCs]
      /\ pc'[t] = label /\ \A s \in Threads \ {t} : pc'[s] = pc[s]
  BY <1>1, <1>2 DEF GoTo
<1>4. tasks!TypeOK'
  BY <1>1 DEF tasks!TypeOK, queueVars
<1>5. Roles'
  BY <1>1, <1>3, RolesAssumption DEF Roles, MayGo, Threads
<1>6. Calls'
  BY <1>1, <1>3 DEF Calls, queueVars, MayGo
<1> QED BY <1>3, <1>4, <1>5, <1>6

\* A thread that is no worker, and does not come from or go to a push, holds no
\* task and changes neither who pushes nor who holds one.
LEMMA OthersHoldNothing ==
  ASSUME IInv, NEW t \in Threads \ Workers, NEW label, MayGo(t, label),
         pc[t] # "enqueue", label # "enqueue",
         qpc[t] = "ready", GoTo(t, label), UNCHANGED queueVars
  PROVE  UNCHANGED Enqueuers /\ UNCHANGED Busy /\ UNCHANGED Leaving
<1>1. pc'[t] = label /\ \A s \in Threads \ {t} : pc'[s] = pc[s]
  BY GoesOn
<1>2. \A w \in Workers : pc'[w] = pc[w]
  BY <1>1 DEF Threads
<1>3. qpc' = qpc /\ popped' = popped
  BY DEF queueVars
<1> QED BY <1>1, <1>2, <1>3 DEF Enqueuers, Busy, Leaving, At

\* A step that neither stops nor destroys the pool and lets no worker leave.
LEMMA NobodyLeaves ==
  ASSUME IInv, UNCHANGED <<container, stopped>>, UNCHANGED Leaving,
         pc'[Owner] = pc[Owner],
         pc[Owner] # "idle" => \A c \in Clients : pc'[c] = pc[c],
         \A w \in Workers : pc[w] = "exited" => pc'[w] = "exited"
  PROVE  Shutdown'
BY DEF IInv, Shutdown

LEMMA InitIInv == Init => IInv
<1> SUFFICES ASSUME Init PROVE IInv
  OBVIOUS
<1>1. /\ container = <<>> /\ stopped = FALSE /\ tasks_in_flight = 0
      /\ qpc = [t \in Threads |-> "ready"] /\ popped = [t \in Threads |-> Nullopt]
      /\ flush_mutex = Nobody /\ arg = [t \in Threads |-> Nullopt]
      /\ pc = [t \in Threads |-> IF t \in Workers THEN "loop" ELSE "idle"]
      /\ enqueued = {} /\ finished = {}
      /\ ancestors = [k \in Tasks |-> {}] /\ goal = [c \in Clients |-> {}]
  BY DEF Init, tasks!Init
<1>2. tasks!TypeOK
  BY <1>1, EmptySeq DEF tasks!TypeOK, tasks!PCs
<1>3. TypeOK
  BY <1>1, <1>2, UIntModAssumption, FS_CardinalityType, TasksAssumption
  DEF TypeOK, WorkerPCs
<1>4. Roles /\ Calls
  BY <1>1, RolesAssumption DEF Roles, Calls, Threads, WorkerPCs
<1>5. Enqueuers = {} /\ Busy = {} /\ Leaving = {}
  BY <1>1 DEF Enqueuers, Busy, Leaving, Threads, At
<1>6. Counted /\ Whereabouts
  BY <1>1, <1>5 DEF Counted, Whereabouts, Threads
<1>7. NoWrap /\ CounterMatchesQueue
  <2>1. Len(container) = 0 /\ Cardinality({}) = 0
    BY <1>1, FS_EmptySet
  <2> QED BY <1>1, <1>5, <2>1, AgreesWithQueue DEF NoWrap, Agrees
<1>8. Shutdown
  BY <1>1, <1>5, RolesAssumption, WorkersAssumption DEF Shutdown, Threads
<1> QED BY <1>3, <1>4, <1>6, <1>7, <1>8 DEF IInv

-----------------------------------------------------------------------------
(* The steps of flush() and of the destructor.                              *)

\* What is common to the steps of flush(): a client goes on and nothing happens
\* to the tasks.
LEMMA FlushKeeps ==
  ASSUME IInv, NEW c \in Clients, NEW label \in {"idle"} \cup FlushPCs,
         pc[c] \in {"idle"} \cup FlushPCs, qpc[c] = "ready", GoTo(c, label),
         pc[Owner] = "idle" \/ pc[c] # "idle",
         UNCHANGED <<queueVars, tasks_in_flight, arg, enqueued, ancestors, finished>>,
         flush_mutex' \in Clients \cup {Nobody},
         goal' \in [Clients -> SUBSET Tasks]
  PROVE  IInv'
<1>1. c \in Threads \ Workers /\ c # Owner /\ Owner \in Threads
  BY RolesAssumption DEF Threads
<1>2. MayGo(c, label) /\ pc[c] # "enqueue" /\ label # "enqueue"
  BY DEF MayGo, FlushPCs
<1>3. /\ tasks!TypeOK' /\ Roles' /\ Calls'
      /\ pc' \in [Threads -> {"idle", "enqueue"} \cup WorkerPCs \cup FlushPCs \cup DtorPCs]
      /\ pc'[c] = label /\ \A s \in Threads \ {c} : pc'[s] = pc[s]
  BY <1>1, <1>2, GoesOn
<1>4. UNCHANGED Enqueuers /\ UNCHANGED Busy /\ UNCHANGED Leaving
  BY <1>1, <1>2, OthersHoldNothing
<1>5. TypeOK'
  BY <1>3 DEF IInv, TypeOK
<1>6. \A w \in Workers : pc'[w] = pc[w] /\ w \in Threads
  BY <1>1, <1>3 DEF Threads
<1>7. TasksInv'
  BY <1>1, <1>3, <1>4, <1>6, NothingMoves DEF queueVars, IInv, Counted
<1>8. Shutdown'
  <2>1. pc[Owner] = "idle"
    BY DEF IInv, Shutdown
  <2> QED BY <1>1, <1>3, <1>4, <1>6, <2>1, NobodyLeaves DEF queueVars
<1> QED BY <1>3, <1>5, <1>7, <1>8 DEF IInv, TasksInv

LEMMA FlushIInv ==
  ASSUME IInv, NEW c \in Clients,
         FlushCall(c) \/ FlushStep(c) \/ FlushSpuriousWake(c)
  PROVE  IInv'
<1>1. goal \in [Clients -> SUBSET Tasks] /\ flush_mutex \in Clients \cup {Nobody} /\ enqueued \subseteq Tasks
  BY DEF IInv, TypeOK
<1>2. CASE FlushCall(c)
  BY <1>1, <1>2, FlushKeeps DEF FlushCall, At, Alive, FlushPCs
<1>3. CASE FlushLock(c)
  BY <1>1, <1>3, FlushKeeps DEF FlushLock, At, FlushPCs, history
<1>4. CASE FlushTest(c)
  BY <1>1, <1>4, FlushKeeps DEF FlushTest, FlushReturn, At, FlushPCs, history
<1>5. CASE FlushCheck(c)
  BY <1>1, <1>5, FlushKeeps DEF FlushCheck, FlushReturn, At, FlushPCs, history
<1>6. CASE FlushSleep(c)
  BY <1>1, <1>6, FlushKeeps DEF FlushSleep, At, FlushPCs, history
<1>7. CASE FlushSpuriousWake(c)
  BY <1>1, <1>7, FlushKeeps DEF FlushSpuriousWake, At, FlushPCs, history
<1> QED BY <1>2, <1>3, <1>4, <1>5, <1>6, <1>7 DEF FlushStep

\* A notification of flush_cv moves threads within flush() only.
LEMMA NotifyFlushCvIInv ==
  ASSUME IInv, NEW t \in Threads, NEW label,
         \/ t \in Workers /\ pc[t] = "notify" /\ label = "loop"
         \/ t = Owner /\ pc[t] = "dtor_notify" /\ label = "dtor_members",
         NotifyFlushCv(t, label), qpc[t] = "ready",
         UNCHANGED <<queueVars, tasks_in_flight, flush_mutex, arg, history>>
  PROVE  IInv'
<1>1. /\ pc'[t] = label
      /\ \A s \in Threads \ {t} : pc'[s] = IF pc[s] = "flush_asleep" THEN "flush_relock" ELSE pc[s]
      /\ pc' \in [Threads -> {"idle", "enqueue"} \cup WorkerPCs \cup FlushPCs \cup DtorPCs]
  BY DEF NotifyFlushCv, IInv, TypeOK, WorkerPCs, FlushPCs, DtorPCs
<1>2. t \notin Clients /\ Owner \in Threads /\ Owner \notin Workers \cup Clients
  BY RolesAssumption DEF Threads
<1>3. \A w \in Workers \ {t} : pc'[w] = pc[w] /\ w \in Threads
  BY <1>1 DEF IInv, Roles, Threads, WorkerPCs
<1>4. t # Owner => pc'[Owner] = pc[Owner]
  BY <1>1, <1>2 DEF IInv, Roles, DtorPCs
<1>5. TypeOK'
  BY <1>1 DEF IInv, TypeOK, tasks!TypeOK, queueVars, history
<1>6. Roles'
  <2>1. \A w \in Workers : pc'[w] \in WorkerPCs \cup {"enqueue"}
    BY <1>1, <1>2, <1>3 DEF IInv, Roles, WorkerPCs
  <2>2. \A c \in Clients : pc'[c] \in {"idle", "enqueue"} \cup FlushPCs
    BY <1>1, <1>2 DEF IInv, Roles, FlushPCs, Threads
  <2>3. pc'[Owner] \in {"idle"} \cup DtorPCs
    BY <1>1, <1>2, <1>4 DEF IInv, Roles, DtorPCs
  <2> QED BY <2>1, <2>2, <2>3 DEF Roles
<1>7. Calls'
  BY <1>1 DEF IInv, Calls, queueVars
<1>8. UNCHANGED Enqueuers /\ UNCHANGED Busy /\ UNCHANGED Leaving
  <2>1. UNCHANGED Enqueuers
    BY <1>1 DEF Enqueuers
  <2>2. UNCHANGED Busy /\ UNCHANGED Leaving
    BY <1>1, <1>2, <1>3 DEF Busy, Leaving, At, queueVars
  <2> QED BY <2>1, <2>2
<1>9. TasksInv'
  <2>1. \A w \in Workers : pc'[w] = "decrement" => popped[w] \in finished'
    BY <1>1, <1>2, <1>3 DEF IInv, Counted, history
  <2>2. pc'[Owner] \in {"idle", "dtor_reset"} => pc[Owner] \in {"idle", "dtor_reset"}
    BY <1>1, <1>4
  <2> QED BY <1>8, <2>1, <2>2, NothingMoves DEF queueVars, history
<1>10. Shutdown'
  <2>1. pc[Owner] # "idle" => \A c \in Clients : pc'[c] = "idle"
    BY <1>1, <1>2 DEF IInv, Shutdown, Threads
  <2>2. \A w \in Workers : pc[w] = "exited" => pc'[w] = "exited"
    BY <1>1, <1>2, <1>3
  <2>3. (pc'[Owner] = "idle" <=> pc[Owner] = "idle") /\ (pc'[Owner] = "destroyed" => pc[Owner] = "destroyed")
    BY <1>1, <1>4
  <2> QED BY <1>8, <2>1, <2>2, <2>3 DEF IInv, Shutdown, queueVars
<1> QED BY <1>5, <1>6, <1>7, <1>9, <1>10 DEF IInv, TasksInv

\* The destructor's steps after the stop: nothing happens to the tasks.
LEMMA DtorKeeps ==
  ASSUME IInv, NEW label \in DtorPCs, GoTo(Owner, label), qpc[Owner] = "ready",
         pc[Owner] \in DtorPCs, pc[Owner] # "destroyed",
         label = "destroyed" => \A w \in Workers : pc[w] = "exited",
         label # "dtor_reset", tasks_in_flight' \in 0..(UIntMod - 1),
         UNCHANGED <<queueVars, flush_mutex, arg, history>>
  PROVE  IInv'
<1>1. Owner \in Threads \ Workers /\ \A c \in Clients \cup Workers : c \in Threads \ {Owner}
  BY RolesAssumption DEF Threads
<1>2. MayGo(Owner, label) /\ pc[Owner] # "enqueue" /\ label # "enqueue"
  BY DEF MayGo, DtorPCs
<1>3. /\ tasks!TypeOK' /\ Roles' /\ Calls'
      /\ pc' \in [Threads -> {"idle", "enqueue"} \cup WorkerPCs \cup FlushPCs \cup DtorPCs]
      /\ pc'[Owner] = label /\ \A s \in Threads \ {Owner} : pc'[s] = pc[s]
  BY <1>1, <1>2, GoesOn
<1>4. UNCHANGED Enqueuers /\ UNCHANGED Busy /\ UNCHANGED Leaving
  BY <1>1, <1>2, OthersHoldNothing
<1>5. TypeOK'
  BY <1>3 DEF IInv, TypeOK, history
<1>6. TasksInv'
  <2>1. pc'[Owner] \notin {"idle", "dtor_reset"}
    BY <1>3 DEF DtorPCs
  <2> QED BY <1>1, <1>3, <1>4, <2>1, NothingMoves DEF queueVars, history, IInv, Counted
<1>7. Shutdown'
  BY <1>1, <1>3, <1>4 DEF IInv, Shutdown, queueVars, DtorPCs
<1> QED BY <1>3, <1>5, <1>6, <1>7 DEF IInv, TasksInv

LEMMA DtorIInv ==
  ASSUME IInv, DtorStep
  PROVE  IInv'
<1>1. 0 \in 0..(UIntMod - 1) /\ tasks_in_flight \in 0..(UIntMod - 1)
  BY UIntModAssumption, TasksAssumption, FS_CardinalityType DEF IInv, TypeOK
<1>2. CASE DtorReset
  BY <1>1, <1>2, DtorKeeps DEF DtorReset, At, DtorPCs
<1>3. CASE DtorNotify
  <2>1. Owner \in Threads
    BY DEF Threads
  <2> QED BY <1>3, <2>1, NotifyFlushCvIInv DEF DtorNotify, At
<1>4. CASE DtorMembers
  BY <1>1, <1>4, DtorKeeps DEF DtorMembers, At, DtorPCs
<1>5. CASE DtorJoin
  BY <1>1, <1>5, DtorKeeps DEF DtorJoin, At, DtorPCs
<1> QED BY <1>2, <1>3, <1>4, <1>5 DEF DtorStep

\* The destructor starts to run: it stops the queue.
LEMMA DtorStopIInv ==
  ASSUME IInv, Flushers = {}, DtorStop
  PROVE  IInv'
<1>1. Owner \in Threads \ Workers /\ \A c \in Clients \cup Workers : c \in Threads \ {Owner}
  BY RolesAssumption DEF Threads
<1>2. /\ pc[Owner] = "idle" /\ qpc[Owner] = "ready"
      /\ \A c \in Clients : pc[c] = "idle"
      /\ stopped' = TRUE /\ qpc' = [qpc EXCEPT ![Owner] = "notify_all"]
      /\ pc' = [pc EXCEPT ![Owner] = "dtor_reset"]
      /\ UNCHANGED <<container, popped, tasks_in_flight, flush_mutex, arg, history>>
  BY DEF DtorStop, At, GoTo, tasks!Stop, tasks!GoTo, Flushers, IInv, Roles
<1>3. /\ pc' \in [Threads -> {"idle", "enqueue"} \cup WorkerPCs \cup FlushPCs \cup DtorPCs]
      /\ pc'[Owner] = "dtor_reset" /\ \A s \in Threads \ {Owner} : pc'[s] = pc[s]
      /\ qpc' \in [Threads -> tasks!PCs]
      /\ qpc'[Owner] = "notify_all" /\ \A s \in Threads \ {Owner} : qpc'[s] = qpc[s]
  BY <1>1, <1>2 DEF IInv, TypeOK, tasks!TypeOK, DtorPCs, tasks!PCs
<1>4. TypeOK'
  BY <1>2, <1>3 DEF IInv, TypeOK, tasks!TypeOK, history
<1>5. Roles' /\ Calls'
  BY <1>1, <1>3 DEF IInv, Roles, Calls, DtorPCs
<1>6. UNCHANGED Enqueuers /\ UNCHANGED Busy /\ UNCHANGED Leaving
  <2>1. UNCHANGED Enqueuers
    BY <1>2, <1>3 DEF Enqueuers
  <2>2. UNCHANGED Busy /\ UNCHANGED Leaving
    BY <1>1, <1>2, <1>3 DEF Busy, Leaving, At
  <2> QED BY <2>1, <2>2
<1>7. TasksInv'
  BY <1>1, <1>2, <1>3, <1>6, NothingMoves DEF history, IInv, Counted
<1>8. Shutdown'
  BY <1>1, <1>2, <1>3, <1>6 DEF IInv, Shutdown
<1> QED BY <1>4, <1>5, <1>7, <1>8 DEF IInv, TasksInv

-----------------------------------------------------------------------------
(* The steps of a worker outside the queue.                                 *)

LEMMA WorkerGotIInv ==
  ASSUME IInv, NEW w \in Workers, WorkerGot(w)
  PROVE  IInv'
<1>1. w \in Threads /\ w # Owner /\ w \notin Clients /\ Owner \in Threads
      /\ \A v \in Workers : v \in Threads
  BY RolesAssumption DEF Threads
<1>2. PICK label \in {"exited", "running"} :
        /\ GoTo(w, label) /\ label = IF popped[w] = Nullopt THEN "exited" ELSE "running"
        /\ pc[w] = "popping" /\ qpc[w] = "ready"
        /\ UNCHANGED <<queueVars, tasks_in_flight, flush_mutex, arg, history>>
  BY DEF WorkerGot, At
<1>3. MayGo(w, label)
  BY DEF MayGo, WorkerPCs
<1>4. /\ tasks!TypeOK' /\ Roles' /\ Calls'
      /\ pc' \in [Threads -> {"idle", "enqueue"} \cup WorkerPCs \cup FlushPCs \cup DtorPCs]
      /\ pc'[w] = label /\ \A s \in Threads \ {w} : pc'[s] = pc[s]
  BY <1>1, <1>2, <1>3, GoesOn
<1>5. TypeOK'
  BY <1>2, <1>4 DEF IInv, TypeOK, history
<1>6. UNCHANGED Enqueuers
  BY <1>2, <1>4 DEF Enqueuers
<1>7. UNCHANGED Busy /\ UNCHANGED Leaving
  BY <1>1, <1>2, <1>4 DEF Busy, Leaving, At, queueVars
<1>8. TasksInv'
  BY <1>1, <1>2, <1>4, <1>6, <1>7, NothingMoves DEF queueVars, history, IInv, Counted
<1>9. Shutdown'
  <2>1. \A c \in Clients : c \in Threads \ {w}
    BY <1>1 DEF Threads
  <2> QED BY <1>1, <1>2, <1>4, <1>7, <2>1, NobodyLeaves DEF queueVars
<1> QED BY <1>4, <1>5, <1>8, <1>9 DEF IInv, TasksInv

LEMMA FinishIInv ==
  ASSUME IInv, NEW w \in Workers, Finish(w)
  PROVE  IInv'
<1>1. w \in Threads /\ w # Owner /\ w \notin Clients /\ Owner \in Threads
      /\ \A v \in Workers : v \in Threads
  BY RolesAssumption DEF Threads
<1>2. /\ pc[w] = "running" /\ qpc[w] = "ready" /\ GoTo(w, "decrement")
      /\ finished' = finished \cup {popped[w]}
      /\ UNCHANGED <<queueVars, tasks_in_flight, flush_mutex, arg, enqueued, ancestors, goal>>
  BY DEF Finish, At
<1>3. MayGo(w, "decrement")
  BY DEF MayGo, WorkerPCs
<1>4. /\ tasks!TypeOK' /\ Roles' /\ Calls'
      /\ pc' \in [Threads -> {"idle", "enqueue"} \cup WorkerPCs \cup FlushPCs \cup DtorPCs]
      /\ pc'[w] = "decrement" /\ \A s \in Threads \ {w} : pc'[s] = pc[s]
  BY <1>1, <1>2, <1>3, GoesOn
<1>5. popped[w] \in enqueued
  BY <1>2 DEF IInv, Counted, Busy
<1>6. TypeOK'
  BY <1>2, <1>4, <1>5 DEF IInv, TypeOK
<1>7. UNCHANGED Enqueuers
  BY <1>2, <1>4 DEF Enqueuers
<1>8. UNCHANGED Busy /\ UNCHANGED Leaving
  BY <1>1, <1>2, <1>4 DEF Busy, Leaving, At, queueVars
<1>9. TasksInv'
  BY <1>1, <1>2, <1>4, <1>7, <1>8, NothingMoves DEF queueVars, IInv, Counted
<1>10. Shutdown'
  <2>1. \A c \in Clients : c \in Threads \ {w}
    BY <1>1 DEF Threads
  <2> QED BY <1>1, <1>2, <1>4, <1>8, <2>1, NobodyLeaves DEF queueVars
<1> QED BY <1>4, <1>6, <1>9, <1>10 DEF IInv, TasksInv

\* A worker discounts the task it holds, which has run.
LEMMA DecrementIInv ==
  ASSUME IInv, NEW w \in Workers, Decrement(w)
  PROVE  IInv'
<1>1. w \in Threads /\ w # Owner /\ w \notin Clients /\ Owner \in Threads
      /\ \A v \in Workers : v \in Threads
  BY RolesAssumption DEF Threads
<1>2. PICK label \in {"notify", "loop"} :
        /\ GoTo(w, label) /\ pc[w] = "decrement" /\ qpc[w] = "ready"
        /\ tasks_in_flight' = (tasks_in_flight - 1) % UIntMod
        /\ UNCHANGED <<queueVars, flush_mutex, arg, history>>
  BY DEF Decrement, At
<1>3. MayGo(w, label)
  BY DEF MayGo, WorkerPCs
<1>4. /\ tasks!TypeOK' /\ Roles' /\ Calls'
      /\ pc' \in [Threads -> {"idle", "enqueue"} \cup WorkerPCs \cup FlushPCs \cup DtorPCs]
      /\ pc'[w] = label /\ \A s \in Threads \ {w} : pc'[s] = pc[s]
  BY <1>1, <1>2, <1>3, GoesOn
<1>5. /\ UIntMod \in Nat /\ UIntMod > 0
      /\ tasks_in_flight \in 0..(UIntMod - 1)
  BY UIntModAssumption, TasksAssumption, FS_CardinalityType DEF IInv, TypeOK
<1>6. TypeOK'
  <2>1. (tasks_in_flight - 1) % UIntMod \in 0..(UIntMod - 1)
    BY <1>5
  <2> QED BY <1>2, <1>4, <2>1 DEF IInv, TypeOK, history
<1>7. UNCHANGED Enqueuers
  BY <1>2, <1>4 DEF Enqueuers
<1>8. w \in Busy /\ Busy' = Busy \ {w}
  BY <1>1, <1>2, <1>4 DEF Busy, At, queueVars
<1>9. UNCHANGED Leaving
  BY <1>1, <1>2, <1>4 DEF Leaving, At, queueVars
<1>10. Cardinality(Busy') = Cardinality(Busy) - 1
  BY <1>8, CountsFinite, FS_RemoveElement
<1>11. popped[w] \in finished
  BY <1>2 DEF IInv, Counted
<1>12. Counted'
  BY <1>1, <1>2, <1>4, <1>7, <1>8 DEF IInv, Counted, queueVars, history
<1>13. Whereabouts'
  BY <1>2, <1>7, <1>8, <1>11 DEF IInv, Whereabouts, queueVars, history
<1>14. NoWrap'
  BY <1>2, <1>7, <1>10, CountsFinite, CountedFinite DEF IInv, NoWrap, queueVars, history
<1>15. CounterMatchesQueue'
  <2> SUFFICES ASSUME pc[Owner] \in {"idle", "dtor_reset"} PROVE Agrees'
    BY <1>1, <1>4, AgreesWithQueue
  <2>1. Agrees
    BY AgreesWithQueue DEF IInv
  <2>2. tasks_in_flight >= 1
    <3>1. Cardinality(Busy) >= 1
      BY <1>10, CountsFinite
    <3> QED BY <2>1, <3>1, CountsFinite, CountedFinite DEF Agrees
  <2>3. (tasks_in_flight - 1) % UIntMod = tasks_in_flight - 1
    BY <1>5, <2>2
  <2>4. tasks_in_flight' = Len(container) + Cardinality(Enqueuers) + Cardinality(Busy')
    BY <1>2, <1>10, <2>1, <2>3, CountsFinite, CountedFinite DEF Agrees
  <2> QED BY <1>2, <1>7, <2>4 DEF Agrees, queueVars
<1>16. Shutdown'
  <2>1. \A c \in Clients : c \in Threads \ {w}
    BY <1>1 DEF Threads
  <2> QED BY <1>1, <1>2, <1>4, <1>9, <2>1, NobodyLeaves DEF queueVars
<1> QED BY <1>4, <1>6, <1>12, <1>13, <1>14, <1>15, <1>16 DEF IInv

-----------------------------------------------------------------------------
(* enqueue.                                                                 *)

\* The counter goes up by one for a task that was not counted before.
LEMMA EnqueueCountIInv ==
  ASSUME IInv, NEW t \in Workers \cup Clients, NEW k \in Tasks, EnqueueCount(t, k)
  PROVE  IInv'
<1>1. t \in Threads /\ t # Owner /\ Owner \in Threads /\ Workers \cap Clients = {}
      /\ \A v \in Workers \cup Clients : v \in Threads
  BY RolesAssumption DEF Threads
<1>2. /\ \/ t \in Clients /\ pc[t] = "idle" /\ pc[Owner] = "idle"
         \/ t \in Workers /\ pc[t] = "running"
      /\ qpc[t] = "ready" /\ GoTo(t, "enqueue")
      /\ k \notin enqueued /\ enqueued' = enqueued \cup {k}
      /\ tasks_in_flight' = (tasks_in_flight + 1) % UIntMod
      /\ arg' = [arg EXCEPT ![t] = k]
      /\ UNCHANGED <<queueVars, flush_mutex, finished, goal>>
  BY DEF EnqueueCount, At, Alive
<1>3. MayGo(t, "enqueue")
  BY DEF MayGo
<1>4. /\ tasks!TypeOK' /\ Roles' /\ Calls'
      /\ pc' \in [Threads -> {"idle", "enqueue"} \cup WorkerPCs \cup FlushPCs \cup DtorPCs]
      /\ pc'[t] = "enqueue" /\ \A s \in Threads \ {t} : pc'[s] = pc[s]
  BY <1>1, <1>2, <1>3, GoesOn
<1>5. /\ UIntMod \in Nat /\ UIntMod > Cardinality(Tasks) /\ Cardinality(Tasks) \in Nat
      /\ tasks_in_flight \in 0..(UIntMod - 1)
  BY UIntModAssumption, TasksAssumption, FS_CardinalityType DEF IInv, TypeOK
<1>6. /\ ancestors' \in [Tasks -> SUBSET Tasks] /\ arg' \in [Threads -> Tasks \cup {Nullopt}]
      /\ enqueued \subseteq Tasks
  <2>1. CASE t \in Workers
    <3>1. t \in Busy /\ popped[t] \in Tasks
      BY <1>1, <1>2, <2>1 DEF IInv, Counted, Busy, TypeOK
    <3> QED BY <1>2, <2>1, <3>1 DEF EnqueueCount, IInv, TypeOK
  <2>2. CASE t \notin Workers
    BY <1>2, <2>2 DEF EnqueueCount, IInv, TypeOK
  <2> QED BY <2>1, <2>2
<1>7. TypeOK'
  <2>1. (tasks_in_flight + 1) % UIntMod \in 0..(UIntMod - 1)
    BY <1>5
  <2> QED BY <1>2, <1>4, <1>6, <2>1 DEF IInv, TypeOK
<1>8. t \notin Enqueuers /\ Enqueuers' = Enqueuers \cup {t}
  BY <1>1, <1>2, <1>4 DEF Enqueuers
<1>9. UNCHANGED Busy /\ UNCHANGED Leaving
  BY <1>1, <1>2, <1>4 DEF Busy, Leaving, At, queueVars
<1>10. /\ Cardinality(Enqueuers') = Cardinality(Enqueuers) + 1
       /\ Cardinality(enqueued') = Cardinality(enqueued) + 1
       /\ Cardinality(enqueued') <= Cardinality(Tasks)
  <2>1. Cardinality(Enqueuers') = Cardinality(Enqueuers) + 1
    BY <1>8, CountsFinite, FS_AddElement
  <2>2. Cardinality(enqueued') = Cardinality(enqueued) + 1
    BY <1>2, CountedFinite, FS_AddElement
  <2>3. enqueued' \subseteq Tasks
    BY <1>2, <1>6
  <2> QED BY <2>1, <2>2, <2>3, TasksAssumption, FS_Subset
<1>11. arg \in [Threads -> Tasks \cup {Nullopt}] /\ arg'[t] = k
       /\ \A s \in Threads \ {t} : arg'[s] = arg[s]
  BY <1>1, <1>2 DEF IInv, TypeOK
<1>12. Counted'
  <2>1. \A s \in Enqueuers' : arg'[s] \in enqueued'
    BY <1>2, <1>8, <1>11 DEF IInv, Counted, Enqueuers
  <2> QED BY <1>1, <1>2, <1>4, <1>9, <2>1 DEF IInv, Counted, queueVars
<1>13. Whereabouts'
  <2> SUFFICES ASSUME NEW j \in enqueued' \ finished'
               PROVE  \/ \E i \in 1..Len(container) : container[i] = j
                      \/ \E s \in Enqueuers' : arg'[s] = j
                      \/ \E w \in Busy : popped[w] = j
    BY <1>2, <1>9 DEF Whereabouts, queueVars
  <2>1. CASE j = k
    BY <1>8, <1>11, <2>1
  <2>2. CASE j # k
    <3>1. j \in enqueued \ finished
      BY <1>2, <2>2
    <3>2. \A s \in Enqueuers : s \in Enqueuers' /\ arg'[s] = arg[s]
      BY <1>8, <1>11 DEF Enqueuers
    <3> QED BY <3>1, <3>2 DEF IInv, Whereabouts
  <2> QED BY <2>1, <2>2
<1>14. NoWrap'
  BY <1>2, <1>9, <1>10, CountsFinite, CountedFinite DEF IInv, NoWrap, queueVars
<1>15. CounterMatchesQueue'
  <2> SUFFICES ASSUME pc[Owner] \in {"idle", "dtor_reset"} PROVE Agrees'
    BY <1>1, <1>4, AgreesWithQueue
  <2>1. Agrees
    BY AgreesWithQueue DEF IInv
  <2>2. tasks_in_flight + 1 < UIntMod
    BY <1>5, <1>10, <2>1, CountsFinite, CountedFinite DEF Agrees, IInv, NoWrap
  <2>3. (tasks_in_flight + 1) % UIntMod = tasks_in_flight + 1
    BY <1>5, <2>2
  <2>4. tasks_in_flight' = Len(container) + Cardinality(Enqueuers') + Cardinality(Busy)
    BY <1>2, <1>10, <2>1, <2>3, CountsFinite, CountedFinite DEF Agrees
  <2> QED BY <1>2, <1>9, <2>4 DEF Agrees, queueVars
<1>16. Shutdown'
  <2>1. pc[Owner] # "idle" => \A c \in Clients : pc'[c] = pc[c]
    <3>1. pc[Owner] # "idle" => t \in Workers
      BY <1>2
    <3>2. t \in Workers => \A c \in Clients : c \in Threads \ {t}
      BY <1>1
    <3> QED BY <1>4, <3>1, <3>2
  <2> QED BY <1>1, <1>2, <1>4, <1>9, <2>1, NobodyLeaves DEF queueVars
<1> QED BY <1>4, <1>7, <1>12, <1>13, <1>14, <1>15, <1>16 DEF IInv

\* The task of the thread goes to the end of the queue.
LEMMA EnqueuePushIInv ==
  ASSUME IInv, NEW t \in Threads, EnqueuePush(t)
  PROVE  IInv'
<1>1. /\ pc[t] = "enqueue" /\ qpc[t] = "ready" /\ t \in Enqueuers
      /\ container' = Append(container, arg[t])
      /\ qpc' = [qpc EXCEPT ![t] = "notify_one"]
      /\ pc' = [pc EXCEPT ![t] = IF t \in Workers THEN "running" ELSE "idle"]
      /\ arg' = [arg EXCEPT ![t] = Nullopt]
      /\ UNCHANGED <<stopped, popped, tasks_in_flight, flush_mutex, history>>
  BY DEF EnqueuePush, At, GoTo, tasks!Push, tasks!GoTo, Enqueuers
<1>2. t # Owner /\ Owner \in Threads /\ Workers \cap Clients = {}
      /\ \A v \in Workers \cup Clients : v \in Threads
  BY <1>1, RolesAssumption DEF Threads, IInv, Roles, DtorPCs
<1>3. /\ pc' \in [Threads -> {"idle", "enqueue"} \cup WorkerPCs \cup FlushPCs \cup DtorPCs]
      /\ pc'[t] = IF t \in Workers THEN "running" ELSE "idle"
      /\ \A s \in Threads \ {t} : pc'[s] = pc[s]
      /\ qpc' \in [Threads -> tasks!PCs]
      /\ qpc'[t] = "notify_one" /\ \A s \in Threads \ {t} : qpc'[s] = qpc[s]
      /\ arg' \in [Threads -> Tasks \cup {Nullopt}] /\ \A s \in Threads \ {t} : arg'[s] = arg[s]
  BY <1>1 DEF IInv, TypeOK, tasks!TypeOK, WorkerPCs, tasks!PCs
<1>4. arg[t] \in enqueued /\ arg[t] \in Tasks /\ container \in Seq(Tasks)
  BY <1>1 DEF IInv, Counted, TypeOK, tasks!TypeOK
<1>5. /\ container' \in Seq(Tasks) /\ Len(container') = Len(container) + 1
      /\ \A i \in 1..Len(container) : container'[i] = container[i]
      /\ container'[Len(container) + 1] = arg[t]
  BY <1>1, <1>4, AppendProperties
<1>6. TypeOK'
  BY <1>1, <1>3, <1>5 DEF IInv, TypeOK, tasks!TypeOK, history
<1>7. Roles' /\ Calls'
  BY <1>2, <1>3 DEF IInv, Roles, Calls, WorkerPCs, Threads
<1>8. Enqueuers' = Enqueuers \ {t}
  BY <1>3 DEF Enqueuers
<1>9. UNCHANGED Busy /\ UNCHANGED Leaving
  BY <1>1, <1>2, <1>3 DEF Busy, Leaving, At
<1>10. Cardinality(Enqueuers') = Cardinality(Enqueuers) - 1
  BY <1>1, <1>8, CountsFinite, FS_RemoveElement
<1>11. Counted'
  <2>1. \A i \in 1..Len(container') : container'[i] \in enqueued
    <3> SUFFICES ASSUME NEW i \in 1..Len(container') PROVE container'[i] \in enqueued
      OBVIOUS
    <3>1. i \in 1..Len(container) \/ i = Len(container) + 1
      BY <1>5, CountedFinite
    <3> QED BY <1>4, <1>5, <3>1 DEF IInv, Counted
  <2>2. \A s \in Enqueuers' : arg'[s] \in enqueued
    BY <1>3, <1>8 DEF IInv, Counted, Enqueuers
  <2>3. \A w \in Workers : pc'[w] = "decrement" => popped[w] \in finished
    BY <1>2, <1>3 DEF IInv, Counted
  <2> QED BY <1>1, <1>9, <2>1, <2>2, <2>3 DEF IInv, Counted, history
<1>12. Whereabouts'
  <2> SUFFICES ASSUME NEW k \in enqueued \ finished
               PROVE  \/ \E i \in 1..Len(container') : container'[i] = k
                      \/ \E s \in Enqueuers' : arg'[s] = k
                      \/ \E w \in Busy : popped[w] = k
    BY <1>1, <1>9 DEF Whereabouts, history
  <2>1. CASE \E i \in 1..Len(container) : container[i] = k
    <3>1. PICK i \in 1..Len(container) : container[i] = k
      BY <2>1
    <3>2. i \in 1..Len(container') /\ container'[i] = k
      BY <1>5, <3>1, CountedFinite
    <3> QED BY <3>2
  <2>2. CASE arg[t] = k
    <3>1. Len(container) + 1 \in 1..Len(container')
      BY <1>5, CountedFinite
    <3> QED BY <1>5, <2>2, <3>1
  <2>3. ASSUME NEW s \in Enqueuers, s # t, arg[s] = k
        PROVE  s \in Enqueuers' /\ arg'[s] = k
    BY <1>3, <1>8, <2>3 DEF Enqueuers
  <2> QED BY <2>1, <2>2, <2>3 DEF IInv, Whereabouts
<1>13. NoWrap'
  BY <1>1, <1>5, <1>9, <1>10, CountsFinite, CountedFinite DEF IInv, NoWrap, history
<1>14. CounterMatchesQueue'
  <2>1. pc'[Owner] = pc[Owner]
    BY <1>2, <1>3
  <2>2. Agrees => Agrees'
    BY <1>1, <1>5, <1>9, <1>10, CountsFinite, CountedFinite DEF Agrees
  <2> QED BY <2>1, <2>2, AgreesWithQueue DEF IInv
<1>15. Shutdown'
  <2>1. Leaving = {} \/ ~(Workers \subseteq Leaving)
    <3>1. CASE t \in Workers
      BY <1>1, <3>1 DEF Leaving, At
    <3>2. CASE t \notin Workers
      <4>1. pc[Owner] = "idle"
        BY <1>1, <1>2, <3>2 DEF IInv, Shutdown, Threads
      <4> QED BY <4>1 DEF IInv, Shutdown
    <3> QED BY <3>1, <3>2
  <2>2. ~(Workers \subseteq Leaving)
    BY <2>1, WorkersAssumption
  <2>3. pc'[Owner] = pc[Owner]
    BY <1>2, <1>3
  <2>4. pc[Owner] # "idle" => \A c \in Clients : pc'[c] = "idle"
    BY <1>2, <1>3 DEF IInv, Shutdown, Threads
  <2>5. \A w \in Workers : pc[w] = "exited" => pc'[w] = "exited"
    BY <1>1, <1>2, <1>3
  <2> QED BY <1>1, <1>9, <2>2, <2>3, <2>4, <2>5 DEF IInv, Shutdown
<1> QED BY <1>6, <1>7, <1>11, <1>12, <1>13, <1>14, <1>15 DEF IInv

-----------------------------------------------------------------------------
(* pop_wait, and what else the queue does.                                  *)

\* Who is in a call of the queue, and a thread that it wakes, changes nothing
\* in the pool.
LEMMA QueueKeeps ==
  ASSUME IInv, qpc' \in [Threads -> tasks!PCs],
         \A s \in Threads :
           \/ qpc'[s] = qpc[s]
           \/ pc[s] # "popping" /\ qpc'[s] = "ready"
           \/ qpc[s] = "waiting" /\ qpc'[s] = "woken",
         UNCHANGED <<container, stopped, popped>>,
         UNCHANGED <<tasks_in_flight, flush_mutex, pc, arg, history>>
  PROVE  IInv'
<1>1. TypeOK' /\ Roles'
  BY DEF IInv, TypeOK, tasks!TypeOK, Roles, history
<1>2. Calls'
  BY DEF IInv, Calls
<1>3. UNCHANGED Enqueuers
  BY DEF Enqueuers
<1>4. UNCHANGED Busy /\ UNCHANGED Leaving
  <2>1. \A w \in Workers : pc[w] = "popping" => (qpc'[w] = "ready" <=> qpc[w] = "ready")
    BY DEF Threads
  <2> QED BY <2>1 DEF Busy, Leaving, At
<1>5. TasksInv'
  BY <1>3, <1>4, NothingMoves DEF history, IInv, Counted
<1>6. Shutdown'
  BY <1>4, NobodyLeaves
<1> QED BY <1>1, <1>2, <1>5, <1>6 DEF IInv, TasksInv

\* A worker in pop_wait, at its first look or after a wake-up: it takes the
\* oldest task, goes to sleep, or finds the queue empty and stopped.
LEMMA PopIInv ==
  ASSUME IInv, NEW w \in Workers,
         \/ pc[w] = "loop" /\ qpc[w] = "ready"
         \/ pc[w] = "popping" /\ qpc[w] = "woken",
         tasks!TakeOrSleep(w, "waiting"), UNCHANGED stopped,
         pc' = [pc EXCEPT ![w] = "popping"],
         UNCHANGED <<tasks_in_flight, flush_mutex, arg, history>>
  PROVE  IInv'
<1>1. w \in Threads /\ w # Owner /\ w \notin Clients /\ Owner \in Threads
      /\ \A v \in Workers : v \in Threads
  BY RolesAssumption DEF Threads
<1>2. /\ pc' \in [Threads -> {"idle", "enqueue"} \cup WorkerPCs \cup FlushPCs \cup DtorPCs]
      /\ pc'[w] = "popping" /\ \A s \in Threads \ {w} : pc'[s] = pc[s]
  BY <1>1 DEF IInv, TypeOK, WorkerPCs
<1>3. \E label \in {"ready", "waiting"} : qpc' = [qpc EXCEPT ![w] = label]
  BY DEF tasks!TakeOrSleep, tasks!GoTo
<1>4. /\ qpc' \in [Threads -> tasks!PCs] /\ qpc'[w] \in {"ready", "waiting"}
      /\ \A s \in Threads \ {w} : qpc'[s] = qpc[s]
  BY <1>1, <1>3 DEF IInv, TypeOK, tasks!TypeOK, tasks!PCs
<1>5. Roles' /\ Calls'
  <2>1. Roles'
    BY <1>1, <1>2 DEF IInv, Roles, WorkerPCs, Threads
  <2>2. Calls'
    BY <1>2, <1>4 DEF IInv, Calls
  <2> QED BY <2>1, <2>2
<1>6. w \notin Busy /\ w \notin Leaving
  BY DEF Busy, Leaving, At
<1>7. UNCHANGED Enqueuers
  BY <1>1, <1>2 DEF Enqueuers
<1>8. container \in Seq(Tasks) /\ popped \in [Threads -> Tasks \cup {Nullopt}] /\ stopped \in BOOLEAN
  BY DEF IInv, TypeOK, tasks!TypeOK
<1>9. pc'[Owner] = pc[Owner] /\ \A c \in Clients : pc'[c] = pc[c]
  BY <1>1, <1>2 DEF Threads
<1>10. CASE container # <<>> /\ qpc'[w] = "ready" /\ tasks!Take(w)
  <2>1. /\ container' = Tail(container) /\ popped' = [popped EXCEPT ![w] = Head(container)]
        /\ Head(container) \in Tasks /\ Tail(container) \in Seq(Tasks)
        /\ Len(container') = Len(container) - 1
        /\ \A i \in 1..Len(container') : container'[i] = container[i + 1]
        /\ Len(container) >= 1 /\ Head(container) = container[1]
    BY <1>8, <1>10, HeadTailProperties, EmptySeq, CountedFinite DEF tasks!Take
  <2>2. /\ popped' \in [Threads -> Tasks \cup {Nullopt}]
        /\ popped'[w] = Head(container) /\ \A s \in Threads \ {w} : popped'[s] = popped[s]
    BY <1>1, <1>8, <2>1
  <2>3. TypeOK'
    BY <1>2, <1>4, <2>1, <2>2 DEF IInv, TypeOK, tasks!TypeOK, history
  <2>4. Busy' = Busy \cup {w}
    BY <1>1, <1>2, <1>4, <1>10, <2>1, <2>2, TasksAssumption DEF Busy, At
  <2>5. UNCHANGED Leaving
    BY <1>1, <1>2, <1>4, <1>6, <2>1, <2>2, TasksAssumption DEF Leaving, At
  <2>6. Cardinality(Busy') = Cardinality(Busy) + 1
    BY <1>6, <2>4, CountsFinite, FS_AddElement
  <2>7. Counted'
    <3>1. \A i \in 1..Len(container') : container'[i] \in enqueued
      <4> SUFFICES ASSUME NEW i \in 1..Len(container') PROVE container'[i] \in enqueued
        OBVIOUS
      <4>1. i + 1 \in 1..Len(container)
        BY <2>1, CountedFinite
      <4> QED BY <2>1, <4>1 DEF IInv, Counted
    <3>2. Head(container) \in enqueued
      <4>1. 1 \in 1..Len(container)
        BY <2>1, CountedFinite
      <4> QED BY <2>1, <4>1 DEF IInv, Counted
    <3>3. \A v \in Busy' : popped'[v] \in enqueued
      BY <1>1, <1>6, <2>2, <2>4, <3>2 DEF IInv, Counted, Busy
    <3>4. \A v \in Workers : pc'[v] = "decrement" => popped'[v] \in finished
      BY <1>1, <1>2, <2>2 DEF IInv, Counted
    <3> QED BY <1>7, <3>1, <3>3, <3>4 DEF IInv, Counted, history
  <2>8. Whereabouts'
    <3> SUFFICES ASSUME NEW k \in enqueued \ finished
                 PROVE  \/ \E i \in 1..Len(container') : container'[i] = k
                        \/ \E s \in Enqueuers : arg[s] = k
                        \/ \E v \in Busy' : popped'[v] = k
      BY <1>7 DEF Whereabouts, history
    <3>1. CASE \E i \in 1..Len(container) : container[i] = k
      <4>1. PICK i \in 1..Len(container) : container[i] = k
        BY <3>1
      <4>2. CASE i = 1
        BY <2>1, <2>2, <2>4, <4>1, <4>2
      <4>3. CASE i # 1
        <5>1. i - 1 \in 1..Len(container') /\ (i - 1) + 1 = i
          BY <2>1, <4>1, <4>3, CountedFinite
        <5>2. container'[i - 1] = k
          BY <2>1, <4>1, <5>1
        <5> QED BY <5>1, <5>2
      <4> QED BY <4>2, <4>3
    <3>2. ASSUME NEW v \in Busy, popped[v] = k PROVE v \in Busy' /\ popped'[v] = k
      BY <1>1, <1>6, <2>2, <2>4, <3>2 DEF Busy
    <3> QED BY <3>1, <3>2 DEF IInv, Whereabouts
  <2>9. NoWrap'
    BY <1>7, <2>1, <2>6, CountsFinite, CountedFinite DEF IInv, NoWrap, history
  <2>10. CounterMatchesQueue'
    <3>1. Agrees => Agrees'
      BY <1>7, <2>1, <2>6, CountsFinite, CountedFinite DEF Agrees
    <3> QED BY <1>9, <3>1, AgreesWithQueue DEF IInv
  <2>11. Shutdown'
    <3>1. w \in Workers /\ w \notin Leaving'
      BY <1>6, <2>5
    <3>2. \A v \in Workers : pc[v] = "exited" => pc'[v] = "exited"
      BY <1>1, <1>2
    <3> QED BY <1>9, <2>5, <3>1, <3>2 DEF IInv, Shutdown
  <2> QED BY <1>5, <2>3, <2>7, <2>8, <2>9, <2>10, <2>11 DEF IInv
<1>11. CASE /\ container = <<>> /\ stopped /\ qpc'[w] = "ready" /\ container' = container
            /\ popped' = [popped EXCEPT ![w] = Nullopt]
  <2>1. /\ popped' \in [Threads -> Tasks \cup {Nullopt}]
        /\ popped'[w] = Nullopt /\ \A s \in Threads \ {w} : popped'[s] = popped[s]
    BY <1>1, <1>8, <1>11
  <2>2. TypeOK'
    BY <1>2, <1>4, <1>11, <2>1 DEF IInv, TypeOK, tasks!TypeOK, history
  <2>3. UNCHANGED Busy
    BY <1>1, <1>2, <1>4, <1>6, <2>1 DEF Busy, At
  <2>4. \A v \in Busy : popped'[v] = popped[v]
    BY <1>1, <1>6, <2>1 DEF Busy
  <2>5. Counted'
    <3>1. \A v \in Workers : pc'[v] = "decrement" => popped'[v] \in finished
      BY <1>1, <1>2, <2>1 DEF IInv, Counted
    <3> QED BY <1>7, <1>11, <2>3, <2>4, <3>1 DEF IInv, Counted, history
  <2>6. Whereabouts'
    BY <1>7, <1>11, <2>3, <2>4 DEF IInv, Whereabouts, history
  <2>7. NoWrap'
    BY <1>7, <1>11, <2>3 DEF IInv, NoWrap, history
  <2>8. CounterMatchesQueue'
    BY <1>7, <1>9, <1>11, <2>3, AgreesWithQueue DEF IInv, Agrees
  <2>9. Shutdown'
    <3>1. \A v \in Workers : pc[v] = "exited" => pc'[v] = "exited"
      BY <1>1, <1>2
    <3> QED BY <1>9, <1>11, <3>1 DEF IInv, Shutdown
  <2> QED BY <1>5, <2>2, <2>5, <2>6, <2>7, <2>8, <2>9 DEF IInv
<1>12. CASE qpc'[w] = "waiting" /\ UNCHANGED <<container, popped>>
  <2>1. TypeOK'
    BY <1>2, <1>4, <1>12 DEF IInv, TypeOK, tasks!TypeOK, history
  <2>2. UNCHANGED Busy /\ UNCHANGED Leaving
    BY <1>1, <1>2, <1>4, <1>6, <1>12 DEF Busy, Leaving, At
  <2>3. \A v \in Workers : pc'[v] = "decrement" => popped[v] \in finished
    BY <1>1, <1>2 DEF IInv, Counted
  <2>4. TasksInv'
    BY <1>7, <1>9, <1>12, <2>2, <2>3, NothingMoves DEF history
  <2>5. Shutdown'
    <3>1. \A v \in Workers : pc[v] = "exited" => pc'[v] = "exited"
      BY <1>1, <1>2
    <3> QED BY <1>9, <1>12, <2>2, <3>1, NobodyLeaves
  <2> QED BY <1>5, <2>1, <2>4, <2>5 DEF IInv, TasksInv
<1>13. qpc' = [qpc EXCEPT ![w] = "ready"] => qpc'[w] = "ready"
  BY <1>1 DEF IInv, TypeOK, tasks!TypeOK
<1>14. qpc' = [qpc EXCEPT ![w] = "waiting"] => qpc'[w] = "waiting"
  BY <1>1 DEF IInv, TypeOK, tasks!TypeOK
<1> QED
  BY <1>10, <1>11, <1>12, <1>13, <1>14
  DEF tasks!TakeOrSleep, tasks!WaitOver, tasks!Take, tasks!GoTo

\* A step of the queue that ends no pop_wait: it wakes sleepers, or a thread
\* that was not in pop_wait leaves its call.
OnlyWakes ==
  /\ qpc' \in [Threads -> tasks!PCs]
  /\ \A s \in Threads :
       \/ qpc'[s] = qpc[s]
       \/ pc[s] # "popping" /\ qpc'[s] = "ready"
       \/ qpc[s] = "waiting" /\ qpc'[s] = "woken"
  /\ UNCHANGED <<container, stopped, popped>>

LEMMA QueueOnlyWakes ==
  ASSUME IInv, NEW t \in Threads,
         tasks!NotifyOne(t) \/ tasks!NotifyAll(t) \/ tasks!SpuriousWake(t)
  PROVE  OnlyWakes
<1>1. qpc \in [Threads -> tasks!PCs]
  BY DEF IInv, TypeOK, tasks!TypeOK
<1>2. \A s \in Threads : /\ qpc[s] \notin {"waiting_for", "woken_for"}
                         /\ qpc[s] \in {"notify_one", "notify_all"} => pc[s] # "popping"
  BY DEF IInv, Calls
<1>3. CASE tasks!NotifyOne(t)
  BY <1>1, <1>2, <1>3
     DEF OnlyWakes, tasks!NotifyOne, tasks!GoTo, tasks!WakeUp, tasks!PCs, tasks!Sleepers
<1>4. CASE tasks!NotifyAll(t)
  BY <1>1, <1>2, <1>4 DEF OnlyWakes, tasks!NotifyAll, tasks!WakeUp, tasks!PCs, tasks!Sleepers
<1>5. CASE tasks!SpuriousWake(t)
  BY <1>1, <1>2, <1>5
     DEF OnlyWakes, tasks!SpuriousWake, tasks!GoTo, tasks!WakeUp, tasks!PCs, tasks!Sleepers
<1> QED BY <1>3, <1>4, <1>5

LEMMA QueueStepIInv ==
  ASSUME IInv, NEW t \in Threads, QueueStep(t) \/ QueueSpuriousWake(t)
  PROVE  IInv'
<1>1. UNCHANGED <<tasks_in_flight, flush_mutex, pc, arg, history>>
  BY DEF QueueStep, QueueSpuriousWake
<1>2. CASE tasks!NotifyOne(t) \/ tasks!NotifyAll(t) \/ tasks!SpuriousWake(t)
  <2>1. OnlyWakes
    BY <1>2, QueueOnlyWakes
  <2> QED BY <1>1, <2>1, QueueKeeps DEF OnlyWakes
<1>3. CASE tasks!Resume(t)
  <2>1. pc[t] = "popping" => t \in Workers
    BY DEF IInv, Roles, Threads, FlushPCs, DtorPCs
  <2>2. /\ qpc[t] = "woken" /\ pc[t] = "popping" /\ t \in Workers
        /\ tasks!TakeOrSleep(t, "waiting") /\ UNCHANGED stopped
    BY <1>3, <2>1 DEF tasks!Resume, IInv, Calls
  <2>3. pc' = [pc EXCEPT ![t] = "popping"]
    BY <1>1, <2>2 DEF IInv, TypeOK
  <2> QED BY <1>1, <2>2, <2>3, PopIInv
<1> QED BY <1>2, <1>3 DEF QueueStep, QueueSpuriousWake

LEMMA NextIInv == IInv /\ [Next]_vars => IInv'
<1> SUFFICES ASSUME IInv, [Next]_vars PROVE IInv'
  OBVIOUS
<1>1. CASE ServiceNext
  <2>1. ASSUME NEW t \in Threads, QueueStep(t) \/ QueueSpuriousWake(t) \/ EnqueuePush(t)
        PROVE  IInv'
    BY <2>1, QueueStepIInv, EnqueuePushIInv
  <2>2. ASSUME NEW t \in Workers \cup Clients, NEW k \in Tasks, EnqueueCount(t, k)
        PROVE  IInv'
    BY <2>2, EnqueueCountIInv
  <2>3. ASSUME NEW w \in Workers, WorkerStep(w) PROVE IInv'
    <3>1. CASE WorkerPop(w)
      <4>1. /\ pc[w] = "loop" /\ qpc[w] = "ready"
            /\ tasks!TakeOrSleep(w, "waiting") /\ UNCHANGED stopped
            /\ pc' = [pc EXCEPT ![w] = "popping"]
            /\ UNCHANGED <<tasks_in_flight, flush_mutex, arg, history>>
        BY <3>1 DEF WorkerPop, At, GoTo, tasks!PopWait
      <4> QED BY <4>1, PopIInv
    <3>2. CASE WorkerNotify(w)
      <4>1. w \in Threads
        BY DEF Threads
      <4> QED BY <3>2, <4>1, NotifyFlushCvIInv DEF WorkerNotify, At
    <3> QED BY <2>3, <3>1, <3>2, WorkerGotIInv, FinishIInv, DecrementIInv DEF WorkerStep
  <2>4. ASSUME NEW c \in Clients, FlushCall(c) \/ FlushStep(c) \/ FlushSpuriousWake(c)
        PROVE  IInv'
    BY <2>4, FlushIInv
  <2> QED BY <1>1, <2>1, <2>2, <2>3, <2>4 DEF ServiceNext
<1>2. CASE Flushers = {} /\ DtorStop
  BY <1>2, DtorStopIInv
<1>3. CASE DtorStep
  BY <1>3, DtorIInv
<1>4. CASE UNCHANGED vars
  <2>1. UNCHANGED Enqueuers /\ UNCHANGED Busy /\ UNCHANGED Leaving
    BY <1>4 DEF vars, queueVars, Enqueuers, Busy, Leaving, At
  <2>2. TypeOK' /\ Roles' /\ Calls'
    BY <1>4 DEF vars, queueVars, history, IInv, TypeOK, tasks!TypeOK, Roles, Calls
  <2>3. TasksInv'
    BY <1>4, <2>1, NothingMoves DEF vars, queueVars, history, IInv, Counted
  <2>4. Shutdown'
    BY <1>4, <2>1, NobodyLeaves DEF vars, queueVars
  <2> QED BY <2>2, <2>3, <2>4 DEF IInv, TasksInv
<1> QED BY <1>1, <1>2, <1>3, <1>4 DEF Next

-----------------------------------------------------------------------------
(* The theorems.                                                            *)

THEOREM Invariance == Safety => []IInv
BY InitIInv, NextIInv, PTL DEF Safety

\* The state of the pool is always of its type.
THEOREM TypeCorrect == Safety => []TypeOK
<1>1. IInv => TypeOK
  BY DEF IInv
<1> QED BY <1>1, Invariance, PTL

\* Until the destructor resets the counter it is the number of tasks about to
\* be pushed, queued or held by a worker.  It never wraps around before.
THEOREM CounterIsExact == Safety => []CounterMatchesQueue
<1>1. IInv => CounterMatchesQueue
  BY DEF IInv
<1> QED BY <1>1, Invariance, PTL

\* The destructor returns when every task that was ever enqueued has run.
THEOREM DestructorDrains == Safety => []DtorDrains
<1>1. IInv => DtorDrains
  <2> SUFFICES ASSUME IInv, pc[Owner] = "destroyed" PROVE enqueued = finished
    BY DEF DtorDrains
  <2>1. /\ \A w \in Workers : pc[w] = "exited"
        /\ \A c \in Clients : pc[c] = "idle"
    BY DEF IInv, Shutdown
  <2>2. container = <<>>
    BY <2>1 DEF IInv, Shutdown, Leaving
  <2>3. Enqueuers = {} /\ Busy = {}
    BY <2>1 DEF Enqueuers, Busy, Threads, At
  <2>4. enqueued \ finished = {}
    BY <2>2, <2>3 DEF IInv, Whereabouts
  <2> QED BY <2>4 DEF IInv, TypeOK
<1> QED BY <1>1, Invariance, PTL

\* flush() returns only when every task that had been enqueued when it was
\* called has run, and whatever those have enqueued.
THEOREM FlushIsComplete == Safety => FlushComplete
<1> DEFINE Returns(c) ==
             pc[c] \in FlushPCs /\ pc'[c] = "idle" => Lineage(goal[c]) \subseteq finished
<1>1. ASSUME IInv, [Next]_vars PROVE [\A c \in Clients : Returns(c)]_vars
  <2> SUFFICES ASSUME Next, NEW c \in Clients, pc[c] \in FlushPCs, pc'[c] = "idle"
               PROVE  Lineage(goal[c]) \subseteq finished
    BY <1>1
  <2>1. pc[Owner] = "idle"
    BY <1>1 DEF IInv, Shutdown, FlushPCs
  <2>2. tasks_in_flight = 0
    <3>1. /\ pc \in [Threads -> {"idle", "enqueue"} \cup WorkerPCs \cup FlushPCs \cup DtorPCs]
          /\ c \in Threads \ Workers /\ c # Owner /\ pc[c] # "idle" /\ pc[c] # "enqueue"
      BY <1>1, RolesAssumption DEF IInv, TypeOK, Threads, FlushPCs
    <3>2. \A t \in Threads : \A label : GoTo(t, label) => t = c
      BY <3>1 DEF GoTo
    <3>3. \A t \in Threads : \A label : label # "idle" => ~GoTo(t, label)
      BY <3>1, <3>2 DEF GoTo
    <3>4. pc' # pc
      BY <3>1
    <3>5. CASE ServiceNext
      <4>1. ASSUME NEW t \in Threads, QueueStep(t) \/ QueueSpuriousWake(t) PROVE FALSE
        BY <3>4, <4>1 DEF QueueStep, QueueSpuriousWake
      <4>2. ASSUME NEW t \in Threads, EnqueuePush(t) PROVE FALSE
        BY <3>1, <3>2, <4>2 DEF EnqueuePush, At
      <4>3. ASSUME NEW t \in Workers \cup Clients, NEW k \in Tasks, EnqueueCount(t, k) PROVE FALSE
        BY <3>3, <4>3 DEF EnqueueCount, Threads
      <4>4. ASSUME NEW w \in Workers, WorkerStep(w) PROVE FALSE
        <5>1. w \in Threads /\ w # c
          BY <3>1 DEF Threads
        <5>2. ~WorkerNotify(w)
          BY <3>1, <5>1 DEF WorkerNotify, NotifyFlushCv
        <5> QED BY <3>2, <4>4, <5>1, <5>2 DEF WorkerStep, WorkerPop, WorkerGot, Finish, Decrement
      <4>5. ASSUME NEW d \in Clients, FlushCall(d) \/ FlushLock(d) \/ FlushSleep(d) \/ FlushSpuriousWake(d)
            PROVE  FALSE
        BY <3>3, <4>5 DEF FlushCall, FlushLock, FlushSleep, FlushSpuriousWake, Threads
      <4>6. ASSUME NEW d \in Clients, FlushTest(d) \/ FlushCheck(d) PROVE tasks_in_flight = 0
        BY <3>3, <4>6 DEF FlushTest, FlushCheck, FlushReturn, FlushDone, Threads
      <4> QED BY <3>5, <4>1, <4>2, <4>3, <4>4, <4>5, <4>6 DEF ServiceNext, FlushStep
    <3>6. CASE (Flushers = {} /\ DtorStop) \/ DtorStep
      <4>1. ~DtorStep
        BY <2>1 DEF DtorStep, DtorReset, DtorNotify, DtorMembers, DtorJoin, At
      <4>2. c \in Flushers
        BY DEF Flushers
      <4> QED BY <3>6, <4>1, <4>2
    <3> QED BY <3>5, <3>6 DEF Next
  <2>3. Len(container) = 0 /\ Cardinality(Enqueuers) = 0 /\ Cardinality(Busy) = 0
    BY <1>1, <2>1, <2>2, AgreesWithQueue, CountsFinite, CountedFinite DEF IInv, Agrees
  <2>4. Enqueuers = {} /\ Busy = {}
    BY <2>3, CountsFinite, FS_EmptySet
  <2>5. enqueued \subseteq finished
    BY <1>1, <2>3, <2>4 DEF IInv, Whereabouts
  <2> QED BY <2>5 DEF Lineage
<1> QED BY <1>1, Invariance, PTL DEF Safety, FlushComplete

-----------------------------------------------------------------------------
(* The pool uses its queue as the module Queue allows.                      *)

LEMMA StepUsesQueue == IInv /\ [Next]_vars => [tasks!Next]_(tasks!vars)
<1> SUFFICES ASSUME IInv, [Next]_vars PROVE [tasks!Next]_(tasks!vars)
  OBVIOUS
<1>1. UNCHANGED queueVars => UNCHANGED tasks!vars
  BY DEF queueVars, tasks!vars
<1>2. CASE ServiceNext
  <2>1. ASSUME NEW t \in Threads, QueueStep(t) \/ QueueSpuriousWake(t) PROVE tasks!Next
    BY <2>1 DEF QueueStep, QueueSpuriousWake, tasks!Next
  <2>2. ASSUME NEW t \in Threads, EnqueuePush(t) PROVE tasks!Next
    <3>1. arg[t] \in Tasks /\ tasks!Push(t, arg[t])
      BY <2>2 DEF EnqueuePush, At, IInv, Counted, Enqueuers, TypeOK
    <3> QED BY <3>1 DEF tasks!Next
  <2>3. ASSUME NEW t \in Workers \cup Clients, NEW k \in Tasks, EnqueueCount(t, k)
        PROVE  UNCHANGED queueVars
    BY <2>3 DEF EnqueueCount
  <2>4. ASSUME NEW w \in Workers, WorkerStep(w) PROVE tasks!Next \/ UNCHANGED queueVars
    <3>1. w \in Threads
      BY DEF Threads
    <3>2. WorkerPop(w) => tasks!Next
      BY <3>1 DEF WorkerPop, tasks!Next
    <3> QED BY <2>4, <3>2 DEF WorkerStep, WorkerGot, Finish, Decrement, WorkerNotify
  <2>5. ASSUME NEW c \in Clients, FlushCall(c) \/ FlushStep(c) \/ FlushSpuriousWake(c)
        PROVE  UNCHANGED queueVars
    BY <2>5 DEF FlushCall, FlushStep, FlushLock, FlushTest, FlushCheck, FlushSleep,
                FlushSpuriousWake
  <2> QED BY <1>1, <1>2, <2>1, <2>2, <2>3, <2>4, <2>5 DEF ServiceNext
<1>3. CASE DtorStop
  <2>1. Owner \in Threads
    BY DEF Threads
  <2> QED BY <1>3, <2>1 DEF DtorStop, tasks!Next
<1>4. CASE DtorStep
  BY <1>1, <1>4 DEF DtorStep, DtorReset, DtorNotify, DtorMembers, DtorJoin
<1>5. CASE UNCHANGED vars
  BY <1>1, <1>5 DEF vars
<1> QED BY <1>2, <1>3, <1>4, <1>5 DEF Next

\* Whatever the pool does, its queue is used as any client may use a queue, so
\* that what is proved of the queue holds of the pool's.
THEOREM UsesQueue == Safety => tasks!Safety
<1>1. Init => tasks!Init
  BY DEF Init
<1> QED BY <1>1, Invariance, StepUsesQueue, PTL DEF Safety, tasks!Safety

Proved ==
  INSTANCE QueueProofs WITH
    Values <- Tasks, MaxLength <- Cardinality(Tasks),
    pc <- qpc, result <- popped

\* In particular no worker sleeps while a task is queued that nobody is about to
\* notify it of or to look for, and none sleeps through the destructor's stop.
THEOREM WorkersAreWoken == Safety => [](tasks!NoLostWakeup /\ tasks!StopReachesSleepers)
<1>1. Proved!IsFiniteSet(Threads)
  BY WorkersAssumption DEF Proved!IsFiniteSet, IsFiniteSet
<1>2. Nullopt \notin Tasks /\ Cardinality(Tasks) \in Nat
  BY TasksAssumption, FS_CardinalityType
<1>3. Proved!Safety => []Proved!NoLostWakeup
  BY <1>1, <1>2, Proved!WakeupsAreNotLost
<1>4. Proved!Safety => []Proved!StopReachesSleepers
  BY <1>1, <1>2, Proved!StopLeavesNobody
<1>5. /\ tasks!Init => Proved!Init
      /\ [tasks!Next]_(tasks!vars) => [Proved!Next]_(Proved!vars)
  <2>1. tasks!Init => Proved!Init
    BY DEF tasks!Init, Proved!Init
  <2>2. tasks!vars = Proved!vars /\ tasks!vars' = Proved!vars'
    BY DEF tasks!vars, Proved!vars
  <2>3. tasks!Next => Proved!Next
    BY DEF tasks!Next, Proved!Next, tasks!Push, Proved!Push, tasks!NotifyOne, Proved!NotifyOne,
           tasks!Pop, Proved!Pop, tasks!PopWait, Proved!PopWait, tasks!PopWaitFor,
           Proved!PopWaitFor, tasks!Resume, Proved!Resume, tasks!SpuriousWake,
           Proved!SpuriousWake, tasks!Expire, Proved!Expire, tasks!ResumeExpired,
           Proved!ResumeExpired, tasks!Stop, Proved!Stop, tasks!NotifyAll, Proved!NotifyAll,
           tasks!Take, Proved!Take, tasks!TakeOrSleep, Proved!TakeOrSleep, tasks!WaitOver,
           Proved!WaitOver, tasks!GoTo, Proved!GoTo, tasks!WakeUp, Proved!WakeUp,
           tasks!Sleepers, Proved!Sleepers
  <2> QED BY <2>1, <2>2, <2>3
<1>6. /\ Proved!NoLostWakeup => tasks!NoLostWakeup
      /\ Proved!StopReachesSleepers => tasks!StopReachesSleepers
  BY DEF tasks!NoLostWakeup, Proved!NoLostWakeup, tasks!StopReachesSleepers,
         Proved!StopReachesSleepers, tasks!Sleepers, Proved!Sleepers, tasks!Stoppers,
         Proved!Stoppers, tasks!Alert, Proved!Alert, tasks!Notifiers, Proved!Notifiers,
         tasks!Awake, Proved!Awake, tasks!Cardinality, Proved!Cardinality
<1>7. tasks!Safety => Proved!Safety
  BY <1>5, PTL DEF tasks!Safety, Proved!Safety
<1> QED BY <1>3, <1>4, <1>6, <1>7, UsesQueue, PTL

-----------------------------------------------------------------------------
(* The pool implements the abstract pool.                                   *)

\* No two threads push the same task.
ArgsApart == \A s, t \in Enqueuers : arg[s] = arg[t] => s = t

\* A step that the abstract pool does not see.
Unseen ==
  /\ UNCHANGED <<container, enqueued, arg>>
  /\ UNCHANGED Enqueuers /\ UNCHANGED Running /\ UNCHANGED Flushers
  /\ \A w \in Running : popped'[w] = popped[w]
  /\ \/ pc'[Owner] = pc[Owner]
     \/ pc[Owner] \notin {"idle", "destroyed"} /\ pc'[Owner] \notin {"idle", "destroyed"}

LEMMA UnseenStutters ==
  ASSUME Unseen
  PROVE  UNCHANGED Abstract!vars /\ (ArgsApart => ArgsApart')
<1>1. UNCHANGED [w \in Workers |-> IF w \in Running THEN popped[w] ELSE Nullopt]
  BY DEF Unseen
<1>2. UNCHANGED (enqueued \ {arg[t] : t \in Enqueuers})
  BY DEF Unseen
<1>3. UNCHANGED (IF pc[Owner] = "idle" THEN "open"
                 ELSE IF pc[Owner] = "destroyed" THEN "destroyed" ELSE "closing")
  BY DEF Unseen
<1> QED BY <1>1, <1>2, <1>3 DEF Unseen, Abstract!vars, ArgsApart

\* Thread t goes on in its own part, without the queue.
LEMMA GoesOnUnseen ==
  ASSUME IInv, NEW t \in Threads, NEW label, MayGo(t, label),
         qpc[t] = "ready", GoTo(t, label), UNCHANGED queueVars, UNCHANGED <<arg, enqueued>>,
         pc[t] = "enqueue" <=> label = "enqueue",
         t \in Workers => (t \in Running <=> label = "running"),
         t \in Clients => (pc[t] \in FlushPCs <=> label \in FlushPCs),
         t = Owner => pc[t] \notin {"idle", "destroyed"} /\ label \notin {"idle", "destroyed"}
  PROVE  Unseen
<1>1. pc'[t] = label /\ \A s \in Threads \ {t} : pc'[s] = pc[s]
  BY GoesOn
<1>2. Workers \subseteq Threads /\ Clients \subseteq Threads /\ Owner \in Threads
  BY DEF Threads
<1>3. UNCHANGED Enqueuers
  BY <1>1 DEF Enqueuers
<1>4. UNCHANGED Flushers
  BY <1>1, <1>2 DEF Flushers
<1>5. UNCHANGED Running
  BY <1>1, <1>2 DEF Running, At, queueVars, MayGo
<1> QED BY <1>1, <1>2, <1>3, <1>4, <1>5 DEF Unseen, queueVars

\* So does a thread that wakes those in flush().
LEMMA NotifyUnseen ==
  ASSUME IInv, NEW t \in Threads, NEW label,
         \/ t \in Workers /\ pc[t] = "notify" /\ label = "loop"
         \/ t = Owner /\ pc[t] = "dtor_notify" /\ label = "dtor_members",
         NotifyFlushCv(t, label), UNCHANGED queueVars, UNCHANGED <<arg, enqueued>>
  PROVE  Unseen
<1>1. /\ Workers \subseteq Threads /\ Clients \subseteq Threads /\ Owner \in Threads
      /\ Owner \notin Workers /\ Owner \notin Clients /\ \A w \in Workers : w \notin Clients
  BY RolesAssumption DEF Threads
<1>2. /\ \A w \in Workers : pc[w] \in WorkerPCs \cup {"enqueue"}
      /\ pc[Owner] \in {"idle"} \cup DtorPCs
      /\ \A c \in Clients : pc[c] \in {"idle", "enqueue"} \cup FlushPCs
  BY DEF IInv, Roles
<1>3. \A s \in Threads :
        pc'[s] = IF s = t THEN label ELSE IF pc[s] = "flush_asleep" THEN "flush_relock" ELSE pc[s]
  BY DEF NotifyFlushCv
<1>4. UNCHANGED Enqueuers
  BY <1>3 DEF Enqueuers
<1>5. UNCHANGED Flushers
  BY <1>1, <1>3 DEF Flushers, FlushPCs
<1>6. UNCHANGED Running
  BY <1>1, <1>2, <1>3 DEF Running, At, queueVars, WorkerPCs
<1>7. \/ pc'[Owner] = pc[Owner]
      \/ pc[Owner] \notin {"idle", "destroyed"} /\ pc'[Owner] \notin {"idle", "destroyed"}
  BY <1>1, <1>2, <1>3 DEF DtorPCs
<1> QED BY <1>4, <1>5, <1>6, <1>7 DEF Unseen, queueVars

\* The queue's own steps, but for the end of a pop_wait.
LEMMA QueueUnseen ==
  ASSUME IInv, qpc' \in [Threads -> tasks!PCs],
         \A s \in Threads :
           \/ qpc'[s] = qpc[s]
           \/ pc[s] # "popping" /\ qpc'[s] = "ready"
           \/ qpc[s] = "waiting" /\ qpc'[s] = "woken",
         UNCHANGED <<container, popped, pc, arg, enqueued>>
  PROVE  Unseen
<1>1. \A w \in Workers : pc[w] = "popping" => (qpc'[w] = "ready" <=> qpc[w] = "ready")
  BY DEF Threads
<1>2. UNCHANGED Running
  BY <1>1 DEF Running, At
<1> QED BY <1>2 DEF Unseen, Enqueuers, Flushers

\* pop_wait: a task that is taken out of the queue starts.
LEMMA PopStarts ==
  ASSUME IInv, NEW w \in Workers,
         \/ pc[w] = "loop" /\ qpc[w] = "ready"
         \/ pc[w] = "popping" /\ qpc[w] = "woken",
         tasks!TakeOrSleep(w, "waiting"),
         pc' = [pc EXCEPT ![w] = "popping"],
         UNCHANGED <<arg, enqueued>>
  PROVE  /\ Abstract!Start(w) \/ UNCHANGED Abstract!vars
         /\ ArgsApart => ArgsApart'
<1>1. w \in Threads /\ w # Owner /\ w \notin Clients /\ Owner \in Threads
      /\ Workers \subseteq Threads /\ Clients \subseteq Threads
  BY RolesAssumption DEF Threads
<1>2. pc'[w] = "popping" /\ \A s \in Threads \ {w} : pc'[s] = pc[s]
  BY <1>1 DEF IInv, TypeOK
<1>3. container \in Seq(Tasks) /\ popped \in [Threads -> Tasks \cup {Nullopt}]
      /\ qpc \in [Threads -> tasks!PCs]
  BY DEF IInv, TypeOK, tasks!TypeOK
<1>4. UNCHANGED Enqueuers /\ UNCHANGED Flushers /\ pc'[Owner] = pc[Owner]
  BY <1>1, <1>2 DEF Enqueuers, Flushers
<1>5. w \notin Running
  BY DEF Running, At
<1>6. ArgsApart => ArgsApart'
  BY <1>4 DEF ArgsApart
<1>7. CASE container # <<>> /\ qpc' = [qpc EXCEPT ![w] = "ready"] /\ container' = Tail(container)
           /\ popped' = [popped EXCEPT ![w] = Head(container)]
  <2>1. Head(container) \in Tasks
    BY <1>3, <1>7, HeadTailProperties
  <2>2. /\ popped'[w] = Head(container) /\ \A s \in Threads \ {w} : popped'[s] = popped[s]
        /\ qpc'[w] = "ready" /\ \A s \in Threads \ {w} : qpc'[s] = qpc[s]
    BY <1>1, <1>3, <1>7
  <2>3. Running' = Running \cup {w}
    BY <1>1, <1>2, <2>1, <2>2, TasksAssumption DEF Running, At
  <2> DEFINE T == [v \in Workers |-> IF v \in Running THEN popped[v] ELSE Nullopt]
  <2>4. T' = [T EXCEPT ![w] = Head(container)]
    BY <1>1, <1>5, <2>2, <2>3
  <2>5. T[w] = Nullopt
    BY <1>5
  <2>6. UNCHANGED (enqueued \ {arg[t] : t \in Enqueuers})
    BY <1>4
  <2> QED BY <1>4, <1>6, <1>7, <2>4, <2>5, <2>6 DEF Abstract!Start
<1>8. CASE container = <<>> /\ qpc' = [qpc EXCEPT ![w] = "ready"] /\ container' = container
           /\ popped' = [popped EXCEPT ![w] = Nullopt]
  <2>1. /\ popped'[w] = Nullopt /\ \A s \in Threads \ {w} : popped'[s] = popped[s]
        /\ qpc'[w] = "ready" /\ \A s \in Threads \ {w} : qpc'[s] = qpc[s]
    BY <1>1, <1>3, <1>8
  <2>2. UNCHANGED Running
    BY <1>1, <1>2, <1>5, <2>1 DEF Running, At
  <2>3. Unseen
    BY <1>1, <1>4, <1>5, <1>8, <2>1, <2>2 DEF Unseen, Running
  <2> QED BY <2>3, UnseenStutters
<1>9. CASE qpc' = [qpc EXCEPT ![w] = "waiting"] /\ UNCHANGED <<container, popped>>
  <2>1. qpc'[w] = "waiting" /\ \A s \in Threads \ {w} : qpc'[s] = qpc[s]
    BY <1>1, <1>3, <1>9
  <2>2. UNCHANGED Running
    BY <1>1, <1>2, <1>5, <1>9, <2>1 DEF Running, At
  <2>3. Unseen
    BY <1>4, <1>9, <2>2 DEF Unseen
  <2> QED BY <2>3, UnseenStutters
<1> QED
  BY <1>7, <1>8, <1>9 DEF tasks!TakeOrSleep, tasks!Take, tasks!GoTo

\* A task that is only counted is not in the abstract pool yet; no other
\* thread is pushing it, since it is counted once.
LEMMA CountUnseen ==
  ASSUME IInv, ArgsApart, NEW t \in Workers \cup Clients, NEW k \in Tasks, EnqueueCount(t, k)
  PROVE  UNCHANGED Abstract!vars /\ ArgsApart'
<1>1. /\ t \in Threads /\ t # Owner /\ (t \in Workers => t \notin Clients) /\ Owner \in Threads
      /\ Workers \subseteq Threads /\ Clients \subseteq Threads
  BY RolesAssumption DEF Threads
<1>2. /\ qpc[t] = "ready" /\ GoTo(t, "enqueue") /\ UNCHANGED queueVars /\ k \notin enqueued
      /\ \/ t \in Clients /\ pc[t] = "idle"
         \/ t \in Workers /\ pc[t] = "running"
      /\ arg' = [arg EXCEPT ![t] = k] /\ enqueued' = enqueued \cup {k}
  BY DEF EnqueueCount, At
<1>3. MayGo(t, "enqueue")
  BY <1>2 DEF MayGo
<1>4. pc'[t] = "enqueue" /\ \A s \in Threads \ {t} : pc'[s] = pc[s]
  BY <1>1, <1>2, <1>3, GoesOn
<1>5. Enqueuers' = Enqueuers \cup {t} /\ t \notin Enqueuers
  BY <1>1, <1>2, <1>4 DEF Enqueuers
<1>6. arg'[t] = k /\ \A s \in Threads \ {t} : arg'[s] = arg[s]
  BY <1>1, <1>2 DEF IInv, TypeOK
<1>7. \A s \in Enqueuers : s # t /\ arg'[s] = arg[s] /\ arg[s] \in enqueued /\ arg[s] # k
  BY <1>2, <1>5, <1>6 DEF IInv, Counted, Enqueuers
<1>8. enqueued' \ {arg'[s] : s \in Enqueuers'} = enqueued \ {arg[s] : s \in Enqueuers}
  BY <1>2, <1>5, <1>6, <1>7
<1>9. UNCHANGED Running
  BY <1>1, <1>2, <1>4 DEF Running, At, queueVars
<1>10. UNCHANGED Flushers
  BY <1>1, <1>2, <1>4 DEF Flushers, FlushPCs
<1>11. pc'[Owner] = pc[Owner]
  BY <1>1, <1>4
<1>12. UNCHANGED Abstract!vars
  BY <1>2, <1>8, <1>9, <1>10, <1>11 DEF Abstract!vars, queueVars
<1>13. ArgsApart'
  BY <1>5, <1>6, <1>7 DEF ArgsApart
<1> QED BY <1>12, <1>13

\* The push enqueues the task.
LEMMA PushEnqueues ==
  ASSUME IInv, ArgsApart, NEW t \in Threads, EnqueuePush(t)
  PROVE  (\E k \in Tasks : t \in Workers \cup Clients /\ Abstract!Enqueue(t, k)) /\ ArgsApart'
<1> DEFINE label == IF t \in Workers THEN "running" ELSE "idle"
<1>0. PICK k \in Tasks : k = arg[t] /\ k \in enqueued
  BY DEF EnqueuePush, At, Enqueuers, IInv, Counted, TypeOK
<1>1. /\ pc[t] = "enqueue" /\ qpc[t] = "ready" /\ tasks!Push(t, k) /\ GoTo(t, label)
      /\ arg' = [arg EXCEPT ![t] = Nullopt] /\ UNCHANGED <<enqueued, finished, goal>>
  BY <1>0 DEF EnqueuePush, At, history
<1>2. t \in Workers \cup Clients /\ t # Owner /\ Owner \in Threads /\ (t \in Workers => t \notin Clients)
      /\ Workers \subseteq Threads /\ Clients \subseteq Threads
  BY <1>1, RolesAssumption DEF Threads, IInv, Roles, DtorPCs
<1>3. t \in Enqueuers
  BY <1>1 DEF Enqueuers
<1>4. pc'[t] = label /\ \A s \in Threads \ {t} : pc'[s] = pc[s]
  BY <1>1 DEF GoTo, IInv, TypeOK
<1>5. /\ container' = Append(container, k) /\ UNCHANGED <<stopped, popped>>
      /\ qpc'[t] = "notify_one" /\ \A s \in Threads \ {t} : qpc'[s] = qpc[s]
  BY <1>1 DEF tasks!Push, tasks!GoTo, IInv, TypeOK, tasks!TypeOK
<1>6. Enqueuers' = Enqueuers \ {t}
  BY <1>1, <1>4 DEF Enqueuers
<1>7. \A s \in Threads \ {t} : arg'[s] = arg[s]
  BY <1>1 DEF IInv, TypeOK
<1>8. \A s \in Enqueuers' : arg'[s] = arg[s] /\ arg[s] # k
  BY <1>0, <1>3, <1>6, <1>7 DEF ArgsApart, Enqueuers
<1>9. \A s \in Enqueuers : s = t \/ s \in Enqueuers'
  BY <1>6
<1>10. /\ enqueued' \ {arg'[s] : s \in Enqueuers'} = (enqueued \ {arg[s] : s \in Enqueuers}) \cup {k}
       /\ k \notin enqueued \ {arg[s] : s \in Enqueuers}
  <2>1. {arg'[s] : s \in Enqueuers'} = {arg[s] : s \in Enqueuers'}
    BY <1>8
  <2>2. {arg[s] : s \in Enqueuers} = {arg[s] : s \in Enqueuers'} \cup {k}
    BY <1>0, <1>3, <1>6, <1>9
  <2>3. k \notin {arg[s] : s \in Enqueuers'}
    BY <1>8
  <2> QED BY <1>0, <1>1, <2>1, <2>2, <2>3
<1>11. UNCHANGED Running
  BY <1>1, <1>2, <1>4, <1>5 DEF Running, At
<1>12. UNCHANGED Flushers
  BY <1>1, <1>2, <1>4 DEF Flushers, FlushPCs
<1>13. pc'[Owner] = pc[Owner]
  BY <1>2, <1>4
<1>14. t \in Clients => t \notin Flushers /\ pc[Owner] = "idle"
  BY <1>1 DEF Flushers, FlushPCs, IInv, Shutdown
<1>15. t \in Workers => t \in Running /\ popped[t] # Nullopt
  <2>1. t \in Workers => t \in Running /\ t \in Busy
    BY <1>1 DEF Running, Busy
  <2>2. t \in Workers => popped[t] \in enqueued
    BY <2>1 DEF IInv, Counted
  <2> QED BY <2>1, <2>2, TasksAssumption DEF IInv, TypeOK
<1>16. ArgsApart'
  BY <1>6, <1>8 DEF ArgsApart
<1>17. Abstract!Enqueue(t, k)
  BY <1>2, <1>5, <1>10, <1>11, <1>12, <1>13, <1>14, <1>15 DEF Abstract!Enqueue
<1> QED BY <1>2, <1>16, <1>17

LEMMA FinishFinishes ==
  ASSUME IInv, NEW w \in Workers, Finish(w)
  PROVE  Abstract!Finish(w) /\ (ArgsApart => ArgsApart')
<1>1. /\ w \in Threads /\ w # Owner /\ w \notin Clients /\ Owner \in Threads
      /\ Workers \subseteq Threads /\ Clients \subseteq Threads
  BY RolesAssumption DEF Threads
<1>2. /\ pc[w] = "running" /\ qpc[w] = "ready" /\ GoTo(w, "decrement") /\ UNCHANGED queueVars
      /\ UNCHANGED <<arg, enqueued>>
  BY DEF Finish, At
<1>3. MayGo(w, "decrement")
  BY DEF MayGo, WorkerPCs
<1>4. pc'[w] = "decrement" /\ \A s \in Threads \ {w} : pc'[s] = pc[s]
  BY <1>1, <1>2, <1>3, GoesOn
<1>5. w \in Running /\ Running' = Running \ {w}
  BY <1>1, <1>2, <1>4 DEF Running, At, queueVars
<1>6. UNCHANGED Enqueuers /\ UNCHANGED Flushers /\ pc'[Owner] = pc[Owner]
  BY <1>1, <1>2, <1>4 DEF Enqueuers, Flushers
<1>7. popped[w] # Nullopt
  <2>1. popped[w] \in enqueued
    BY <1>2 DEF IInv, Counted, Busy
  <2> QED BY <2>1, TasksAssumption DEF IInv, TypeOK
<1> DEFINE T == [v \in Workers |-> IF v \in Running THEN popped[v] ELSE Nullopt]
<1>8. T[w] # Nullopt /\ T' = [T EXCEPT ![w] = Nullopt]
  BY <1>2, <1>5, <1>7 DEF queueVars
<1>9. UNCHANGED (enqueued \ {arg[t] : t \in Enqueuers})
  BY <1>2, <1>6
<1> QED BY <1>2, <1>6, <1>8, <1>9 DEF Abstract!Finish, ArgsApart, queueVars

\* Nothing is queued and nothing runs when the counter is 0, as long as the
\* destructor has not reset it.
LEMMA ZeroIsIdle ==
  ASSUME IInv, tasks_in_flight = 0, pc[Owner] = "idle"
  PROVE  container = <<>> /\ Enqueuers = {} /\ Busy = {} /\ Running = {} /\ Abstract!Idle
<1>1. Len(container) = 0 /\ Cardinality(Enqueuers) = 0 /\ Cardinality(Busy) = 0
  BY AgreesWithQueue, CountsFinite, CountedFinite DEF IInv, Agrees
<1>2. container = <<>>
  <2>1. container \in Seq(Tasks)
    BY DEF IInv, TypeOK, tasks!TypeOK
  <2> QED BY <1>1, <2>1, EmptySeq
<1>3. Enqueuers = {} /\ Busy = {}
  BY <1>1, CountsFinite, FS_EmptySet
<1>4. Running = {}
  BY <1>3 DEF Running, Busy
<1> QED BY <1>2, <1>3, <1>4 DEF Abstract!Idle

LEMMA FlushImplements ==
  ASSUME IInv, NEW c \in Clients, FlushCall(c) \/ FlushStep(c) \/ FlushSpuriousWake(c)
  PROVE  /\ \/ Abstract!FlushCall(c) \/ Abstract!FlushReturn(c)
            \/ UNCHANGED Abstract!vars
         /\ ArgsApart => ArgsApart'
<1>1. /\ c \in Threads /\ c # Owner /\ c \notin Workers /\ Owner \in Threads
      /\ Workers \subseteq Threads /\ Clients \subseteq Threads
  BY RolesAssumption DEF Threads
<1>2. UNCHANGED queueVars /\ UNCHANGED <<arg, enqueued>> /\ qpc[c] = "ready"
  BY DEF FlushCall, FlushStep, FlushSpuriousWake, FlushLock, FlushTest, FlushCheck, FlushSleep, At,
         history
<1>3. ASSUME NEW label \in {"idle"} \cup FlushPCs, GoTo(c, label), pc[c] # "enqueue"
      PROVE  /\ UNCHANGED Enqueuers /\ UNCHANGED Running /\ pc'[Owner] = pc[Owner]
             /\ pc'[c] = label /\ \A s \in Threads \ {c} : pc'[s] = pc[s]
             /\ ArgsApart => ArgsApart'
             /\ UNCHANGED [w \in Workers |-> IF w \in Running THEN popped[w] ELSE Nullopt]
             /\ UNCHANGED (enqueued \ {arg[t] : t \in Enqueuers})
  <2>1. MayGo(c, label)
    BY <1>3 DEF MayGo, FlushPCs
  <2>2. pc'[c] = label /\ \A s \in Threads \ {c} : pc'[s] = pc[s]
    BY <1>1, <1>2, <1>3, <2>1, GoesOn
  <2>3. UNCHANGED Enqueuers
    BY <1>3, <2>2 DEF Enqueuers, FlushPCs
  <2>4. UNCHANGED Running
    BY <1>1, <1>2, <2>2 DEF Running, At, queueVars
  <2> QED BY <1>1, <1>2, <2>2, <2>3, <2>4 DEF ArgsApart, queueVars
<1>4. CASE FlushCall(c)
  <2>1. pc[c] = "idle" /\ GoTo(c, "flush_lock") /\ pc[Owner] = "idle"
    BY <1>4 DEF FlushCall, At, Alive
  <2>2. c \notin Flushers
    BY <2>1 DEF Flushers, FlushPCs
  <2>3. Flushers' = Flushers \cup {c}
    BY <1>1, <1>3, <2>1 DEF Flushers, FlushPCs
  <2>4. Abstract!FlushCall(c)
    BY <1>2, <1>3, <2>1, <2>2, <2>3 DEF Abstract!FlushCall, FlushPCs, queueVars
  <2> QED BY <1>3, <2>1, <2>4 DEF FlushPCs
<1>5. ASSUME FlushReturn(c), pc[c] \in FlushPCs
      PROVE  Abstract!FlushReturn(c) /\ (ArgsApart => ArgsApart')
  <2>1. tasks_in_flight = 0 /\ GoTo(c, "idle")
    BY <1>5 DEF FlushReturn, FlushDone
  <2>2. pc[c] # "enqueue" /\ pc[c] # "idle"
    BY <1>5 DEF FlushPCs
  <2>3. pc[Owner] = "idle"
    BY <2>2 DEF IInv, Shutdown
  <2>4. c \in Flushers
    BY <1>5 DEF Flushers
  <2>5. Flushers' = Flushers \ {c}
    BY <1>1, <1>3, <2>1, <2>2 DEF Flushers, FlushPCs
  <2>6. Abstract!Idle
    BY <2>1, <2>3, ZeroIsIdle
  <2>7. Abstract!FlushReturn(c)
    BY <1>2, <1>3, <2>1, <2>2, <2>4, <2>5, <2>6 DEF Abstract!FlushReturn, queueVars
  <2> QED BY <1>3, <2>1, <2>2, <2>7
<1>6. ASSUME NEW label \in FlushPCs, GoTo(c, label), pc[c] \in FlushPCs
      PROVE  UNCHANGED Abstract!vars /\ (ArgsApart => ArgsApart')
  <2>1. pc[c] # "enqueue"
    BY <1>6 DEF FlushPCs
  <2>2. UNCHANGED Flushers
    BY <1>1, <1>3, <1>6, <2>1 DEF Flushers
  <2>3. UNCHANGED Enqueuers /\ UNCHANGED Running /\ pc'[Owner] = pc[Owner]
    BY <1>3, <1>6, <2>1
  <2>4. Unseen
    BY <1>2, <2>2, <2>3 DEF Unseen, queueVars
  <2> QED BY <2>4, UnseenStutters
<1>7. CASE FlushStep(c) \/ FlushSpuriousWake(c)
  <2>1. pc[c] \in FlushPCs
    BY <1>7 DEF FlushStep, FlushLock, FlushTest, FlushCheck, FlushSleep, FlushSpuriousWake, At,
                FlushPCs
  <2>2. FlushReturn(c) \/ \E label \in FlushPCs : GoTo(c, label)
    BY <1>7 DEF FlushStep, FlushLock, FlushTest, FlushCheck, FlushSleep, FlushSpuriousWake,
                FlushPCs
  <2> QED BY <1>5, <1>6, <2>1, <2>2
<1> QED BY <1>4, <1>7

LEMMA DtorImplements ==
  ASSUME IInv, (Flushers = {} /\ DtorStop) \/ DtorStep
  PROVE  /\ Abstract!Close \/ Abstract!Destroy \/ UNCHANGED Abstract!vars
         /\ ArgsApart => ArgsApart'
<1>1. /\ Owner \in Threads /\ Owner \notin Workers /\ Owner \notin Clients
      /\ Workers \subseteq Threads /\ Clients \subseteq Threads
  BY RolesAssumption DEF Threads
<1>2. UNCHANGED <<container, popped, arg, enqueued>>
  BY DEF DtorStop, DtorStep, DtorReset, DtorNotify, DtorMembers, DtorJoin, tasks!Stop, history,
         queueVars
<1>3. ASSUME NEW label, GoTo(Owner, label), pc[Owner] # "enqueue", label # "enqueue",
             \A w \in Workers : qpc'[w] = qpc[w]
      PROVE  /\ UNCHANGED Enqueuers /\ UNCHANGED Flushers /\ UNCHANGED Running
             /\ pc'[Owner] = label
             /\ ArgsApart => ArgsApart'
             /\ UNCHANGED [w \in Workers |-> IF w \in Running THEN popped[w] ELSE Nullopt]
             /\ UNCHANGED (enqueued \ {arg[t] : t \in Enqueuers})
  <2>1. pc'[Owner] = label /\ \A s \in Threads \ {Owner} : pc'[s] = pc[s]
    BY <1>1, <1>3 DEF GoTo, IInv, TypeOK
  <2>2. UNCHANGED Enqueuers
    BY <1>1, <1>3, <2>1 DEF Enqueuers
  <2>3. UNCHANGED Flushers
    BY <1>1, <2>1 DEF Flushers
  <2>4. UNCHANGED Running
    BY <1>1, <1>2, <1>3, <2>1 DEF Running, At
  <2> QED BY <1>2, <2>1, <2>2, <2>3, <2>4 DEF ArgsApart
<1>4. CASE Flushers = {} /\ DtorStop
  <2>1. pc[Owner] = "idle" /\ GoTo(Owner, "dtor_reset") /\ \A w \in Workers : qpc'[w] = qpc[w]
    BY <1>1, <1>4 DEF DtorStop, At, tasks!Stop, tasks!GoTo, IInv, TypeOK, tasks!TypeOK
  <2>2. Abstract!Close
    BY <1>2, <1>3, <1>4, <2>1 DEF Abstract!Close
  <2> QED BY <1>3, <2>1, <2>2
<1>5. CASE DtorReset \/ DtorMembers
  <2>1. PICK label \in {"dtor_notify", "dtor_join"} :
          /\ GoTo(Owner, label) /\ pc[Owner] \in {"dtor_reset", "dtor_members"}
          /\ \A w \in Workers : qpc'[w] = qpc[w]
    BY <1>5 DEF DtorReset, DtorMembers, At, queueVars
  <2>2. Unseen
    BY <1>2, <1>3, <2>1 DEF Unseen
  <2> QED BY <2>2, UnseenStutters
<1>6. CASE DtorNotify
  <2>1. Unseen
    BY <1>1, <1>2, <1>6, NotifyUnseen DEF DtorNotify, At
  <2> QED BY <2>1, UnseenStutters
<1>7. CASE DtorJoin
  <2>1. /\ pc[Owner] = "dtor_join" /\ GoTo(Owner, "destroyed")
        /\ \A w \in Workers : qpc'[w] = qpc[w] /\ pc[w] = "exited"
    BY <1>7 DEF DtorJoin, At, queueVars
  <2>2. container = <<>> /\ Running = {}
    BY <2>1 DEF IInv, Shutdown, Leaving, Running, At
  <2>3. Abstract!Idle
    BY <2>2 DEF Abstract!Idle
  <2>4. Abstract!Destroy
    BY <1>2, <1>3, <2>1, <2>3 DEF Abstract!Destroy
  <2> QED BY <1>3, <2>1, <2>4
<1> QED BY <1>4, <1>5, <1>6, <1>7 DEF DtorStep

LEMMA StepImplements ==
  IInv /\ ArgsApart /\ [Next]_vars => [Abstract!Next]_(Abstract!vars) /\ ArgsApart'
<1> SUFFICES ASSUME IInv, ArgsApart, [Next]_vars
             PROVE  [Abstract!Next]_(Abstract!vars) /\ ArgsApart'
  OBVIOUS
<1>1. Workers \subseteq Threads /\ Clients \subseteq Threads
  BY DEF Threads
<1>2. CASE ServiceNext
  <2>1. ASSUME NEW t \in Threads, QueueStep(t) \/ QueueSpuriousWake(t)
        PROVE  [Abstract!Next]_(Abstract!vars) /\ ArgsApart'
    <3>1. CASE tasks!Resume(t) /\ UNCHANGED <<tasks_in_flight, flush_mutex, pc, arg, history>>
      <4>1. /\ qpc[t] = "woken" /\ pc[t] = "popping" /\ t \in Workers
            /\ tasks!TakeOrSleep(t, "waiting") /\ UNCHANGED <<arg, enqueued>>
        <5>1. pc[t] = "popping" => t \in Workers
          BY DEF IInv, Roles, Threads, FlushPCs, DtorPCs
        <5> QED BY <3>1, <5>1 DEF tasks!Resume, IInv, Calls, history
      <4>2. pc' = [pc EXCEPT ![t] = "popping"]
        BY <3>1, <4>1 DEF IInv, TypeOK
      <4> QED BY <4>1, <4>2, PopStarts DEF Abstract!Next
    <3>2. CASE ~tasks!Resume(t)
      <4>1. OnlyWakes /\ UNCHANGED <<pc, arg, enqueued>>
        BY <2>1, <3>2, QueueOnlyWakes DEF QueueStep, QueueSpuriousWake, history
      <4>2. Unseen
        BY <4>1, QueueUnseen DEF OnlyWakes
      <4> QED BY <4>2, UnseenStutters
    <3> QED BY <2>1, <3>1, <3>2 DEF QueueStep, QueueSpuriousWake
  <2>2. ASSUME NEW t \in Threads, EnqueuePush(t)
        PROVE  [Abstract!Next]_(Abstract!vars) /\ ArgsApart'
    BY <2>2, PushEnqueues DEF Abstract!Next
  <2>3. ASSUME NEW t \in Workers \cup Clients, NEW k \in Tasks, EnqueueCount(t, k)
        PROVE  [Abstract!Next]_(Abstract!vars) /\ ArgsApart'
    BY <2>3, CountUnseen
  <2>4. ASSUME NEW w \in Workers, WorkerStep(w)
        PROVE  [Abstract!Next]_(Abstract!vars) /\ ArgsApart'
    <3>1. CASE WorkerPop(w)
      <4>1. /\ pc[w] = "loop" /\ qpc[w] = "ready" /\ tasks!TakeOrSleep(w, "waiting")
            /\ pc' = [pc EXCEPT ![w] = "popping"] /\ UNCHANGED <<arg, enqueued>>
        BY <3>1 DEF WorkerPop, At, GoTo, tasks!PopWait, history
      <4> QED BY <4>1, PopStarts DEF Abstract!Next
    <3>2. CASE Finish(w)
      BY <3>2, FinishFinishes DEF Abstract!Next
    <3>3. CASE WorkerNotify(w)
      <4>1. Unseen
        BY <1>1, <3>3, NotifyUnseen DEF WorkerNotify, At, history
      <4> QED BY <4>1, UnseenStutters
    <3>4. CASE WorkerGot(w) \/ Decrement(w)
      <4>1. w \in Threads /\ w # Owner /\ w \notin Clients
        BY <1>1, RolesAssumption
      <4>2. PICK label \in {"exited", "running", "notify", "loop"} :
              /\ GoTo(w, label) /\ qpc[w] = "ready" /\ UNCHANGED queueVars
              /\ UNCHANGED <<arg, enqueued>> /\ pc[w] \in {"popping", "decrement"}
              /\ w \in Running <=> label = "running"
        <5>1. CASE WorkerGot(w)
          BY <5>1 DEF WorkerGot, At, Running, history
        <5>2. CASE Decrement(w)
          BY <5>2 DEF Decrement, At, Running, history
        <5> QED BY <3>4, <5>1, <5>2
      <4>3. MayGo(w, label)
        BY DEF MayGo, WorkerPCs
      <4>4. Unseen
        BY <4>1, <4>2, <4>3, GoesOnUnseen
      <4> QED BY <4>4, UnseenStutters
    <3> QED BY <2>4, <3>1, <3>2, <3>3, <3>4 DEF WorkerStep
  <2>5. ASSUME NEW c \in Clients, FlushCall(c) \/ FlushStep(c) \/ FlushSpuriousWake(c)
        PROVE  [Abstract!Next]_(Abstract!vars) /\ ArgsApart'
    BY <2>5, FlushImplements DEF Abstract!Next
  <2> QED BY <1>2, <2>1, <2>2, <2>3, <2>4, <2>5 DEF ServiceNext
<1>3. CASE (Flushers = {} /\ DtorStop) \/ DtorStep
  BY <1>3, DtorImplements DEF Abstract!Next
<1>4. CASE UNCHANGED vars
  <2>1. Unseen
    BY <1>4 DEF vars, queueVars, history, Unseen, Enqueuers, Flushers, Running, At
  <2> QED BY <2>1, UnseenStutters
<1> QED BY <1>2, <1>3, <1>4 DEF Next

\* The pool does nothing that the abstract pool does not promise: each task
\* that is enqueued is started once and in order, by clients and by tasks and
\* during the destructor alike; flush() and the destructor return to an idle
\* pool.
THEOREM ImplementsPool == Safety => Abstract!Safety
<1>1. Init => Abstract!Init /\ ArgsApart
  <2> SUFFICES ASSUME Init PROVE Abstract!Init /\ ArgsApart
    OBVIOUS
  <2>1. Enqueuers = {} /\ Running = {} /\ Flushers = {} /\ pc[Owner] = "idle"
    BY RolesAssumption DEF Init, Enqueuers, Running, Flushers, FlushPCs, At, Threads
  <2>2. enqueued = {} /\ container = <<>>
    BY DEF Init
  <2> QED BY <2>1, <2>2 DEF Abstract!Init, ArgsApart
<1> QED BY <1>1, Invariance, StepImplements, PTL DEF Safety, Abstract!Safety

\* The steps of the abstract pool as they are seen on a set of enqueued tasks,
\* a queue and the tasks of the workers.
Apart(e, q, k) ==
  /\ \A m, n \in 1..Len(q) : q[m] = q[n] => m = n
  /\ \A v, w \in Workers : k[v] # Nullopt /\ k[v] = k[w] => v = w
  /\ \A w \in Workers, n \in 1..Len(q) : q[n] # k[w]
  /\ \A n \in 1..Len(q) : q[n] \in e
  /\ \A w \in Workers : k[w] # Nullopt => k[w] \in e

LEMMA EnqueuedApart ==
  ASSUME NEW e, NEW q \in Seq(Tasks), NEW k, Apart(e, q, k), NEW x \in Tasks \ e
  PROVE  Apart(e \cup {x}, Append(q, x), k)
<1> DEFINE r == Append(q, x)
<1>1. PICK l \in Nat : l = Len(q)
  BY LenProperties
<1>2. /\ Len(r) = l + 1 /\ r[l + 1] = x /\ \A n \in 1..l : r[n] = q[n]
      /\ \A n \in 1..(l + 1) : n \in 1..l \/ n = l + 1
  BY <1>1, AppendProperties
<1>3. x # Nullopt
  BY TasksAssumption
<1> HIDE DEF r
<1>4. \A n \in 1..l : q[n] # x
  BY <1>1 DEF Apart
<1>5. \A w \in Workers : k[w] # x
  BY <1>3 DEF Apart
<1>6. \A m, n \in 1..(l + 1) : r[m] = r[n] => m = n
  <2> SUFFICES ASSUME NEW m \in 1..(l + 1), NEW n \in 1..(l + 1), r[m] = r[n] PROVE m = n
    OBVIOUS
  <2> QED BY <1>1, <1>2, <1>4 DEF Apart
<1>7. \A w \in Workers, n \in 1..(l + 1) : r[n] # k[w]
  BY <1>1, <1>2, <1>5 DEF Apart
<1>8. \A n \in 1..(l + 1) : r[n] \in e \cup {x}
  BY <1>1, <1>2 DEF Apart
<1> QED BY <1>2, <1>6, <1>7, <1>8 DEF Apart, r

LEMMA StartedApart ==
  ASSUME NEW e, NEW q \in Seq(Tasks), NEW k \in [Workers -> Tasks \cup {Nullopt}],
         Apart(e, q, k), NEW w \in Workers, k[w] = Nullopt, q # <<>>
  PROVE  Apart(e, Tail(q), [k EXCEPT ![w] = Head(q)])
<1> DEFINE r == Tail(q)
           h == [k EXCEPT ![w] = Head(q)]
<1>1. PICK l \in Nat : l = Len(q) /\ l >= 1
  BY LenProperties, EmptySeq
<1>2. Len(r) = l - 1 /\ \A n \in 1..(l - 1) : r[n] = q[n + 1] /\ n + 1 \in 1..l
  BY <1>1, HeadTailProperties
<1>3. h[w] = q[1] /\ 1 \in 1..l /\ \A v \in Workers \ {w} : h[v] = k[v]
  BY <1>1
<1> HIDE DEF r, h
<1>4. \A m, n \in 1..(l - 1) : r[m] = r[n] => m = n
  <2> SUFFICES ASSUME NEW m \in 1..(l - 1), NEW n \in 1..(l - 1), r[m] = r[n] PROVE m = n
    OBVIOUS
  <2>1. m + 1 = n + 1
    BY <1>1, <1>2 DEF Apart
  <2> QED BY <2>1
<1>5. \A u, v \in Workers : h[u] # Nullopt /\ h[u] = h[v] => u = v
  BY <1>1, <1>3 DEF Apart
<1>6. \A v \in Workers, n \in 1..(l - 1) : r[n] # h[v]
  <2> SUFFICES ASSUME NEW v \in Workers, NEW n \in 1..(l - 1), r[n] = h[v] PROVE FALSE
    OBVIOUS
  <2>1. CASE v = w
    <3>1. q[n + 1] = q[1] /\ n + 1 \in 1..l
      BY <1>2, <1>3, <2>1
    <3>2. n + 1 = 1
      BY <1>1, <1>3, <3>1 DEF Apart
    <3> QED BY <3>2
  <2>2. CASE v # w
    BY <1>1, <1>2, <1>3, <2>2 DEF Apart
  <2> QED BY <2>1, <2>2
<1>7. \A n \in 1..(l - 1) : r[n] \in e
  BY <1>1, <1>2 DEF Apart
<1>8. \A v \in Workers : h[v] # Nullopt => h[v] \in e
  BY <1>1, <1>3 DEF Apart
<1> QED BY <1>2, <1>4, <1>5, <1>6, <1>7, <1>8 DEF Apart, r, h

LEMMA OnePlaceStep ==
  ASSUME IInv, Abstract!OnePlace, [Abstract!Next]_(Abstract!vars)
  PROVE  Abstract!OnePlace'
<1> DEFINE e == enqueued \ {arg[t] : t \in Enqueuers}
           k == [w \in Workers |-> IF w \in Running THEN popped[w] ELSE Nullopt]
<1>1. container \in Seq(Tasks) /\ k \in [Workers -> Tasks \cup {Nullopt}]
  BY DEF IInv, TypeOK, tasks!TypeOK, Threads
<1>2. DOMAIN container = 1..Len(container)
  BY <1>1, LenProperties
<1>3. Apart(e, container, k)
  BY <1>2 DEF Abstract!OnePlace, Apart
<1>4. \/ \E x \in Tasks \ e : /\ e' = e \cup {x} /\ container' = Append(container, x)
                              /\ k' = k
      \/ \E w \in Workers : /\ k[w] = Nullopt /\ container # <<>>
                            /\ e' = e /\ container' = Tail(container)
                            /\ k' = [k EXCEPT ![w] = Head(container)]
      \/ \E w \in Workers : /\ e' = e /\ container' = container
                            /\ k' = [k EXCEPT ![w] = Nullopt]
      \/ UNCHANGED <<e, container, k>>
  BY DEF Abstract!Next, Abstract!vars, Abstract!Enqueue, Abstract!Start, Abstract!Finish,
         Abstract!FlushCall, Abstract!FlushReturn, Abstract!Close, Abstract!Destroy
<1> HIDE DEF e, k
<1>5. Apart(e', container', k') /\ container' \in Seq(Tasks)
  <2>1. ASSUME NEW x \in Tasks \ e, e' = e \cup {x}, container' = Append(container, x), k' = k
        PROVE  Apart(e', container', k') /\ container' \in Seq(Tasks)
    <3>1. Apart(e \cup {x}, Append(container, x), k)
      BY <1>1, <1>3, EnqueuedApart
    <3>2. Append(container, x) \in Seq(Tasks)
      BY <1>1, AppendProperties
    <3> QED BY <2>1, <3>1, <3>2
  <2>2. ASSUME NEW w \in Workers, k[w] = Nullopt, container # <<>>, e' = e,
               container' = Tail(container), k' = [k EXCEPT ![w] = Head(container)]
        PROVE  Apart(e', container', k') /\ container' \in Seq(Tasks)
    <3>1. Apart(e, Tail(container), [k EXCEPT ![w] = Head(container)])
      BY <1>1, <1>3, <2>2, StartedApart
    <3>2. Tail(container) \in Seq(Tasks)
      BY <1>1, <2>2, HeadTailProperties
    <3> QED BY <2>2, <3>1, <3>2
  <2>3. ASSUME NEW w \in Workers, e' = e, container' = container, k' = [k EXCEPT ![w] = Nullopt]
        PROVE  Apart(e', container', k') /\ container' \in Seq(Tasks)
    <3>1. k'[w] = Nullopt /\ \A v \in Workers \ {w} : k'[v] = k[v]
      BY <1>1, <2>3
    <3>2. \A n \in 1..Len(container) : container[n] # Nullopt
      BY <1>1, ElementOfSeq, TasksAssumption
    <3> QED BY <1>1, <1>3, <2>3, <3>1, <3>2 DEF Apart
  <2>4. CASE UNCHANGED <<e, container, k>>
    BY <1>1, <1>3, <2>4
  <2> QED BY <1>4, <2>1, <2>2, <2>3, <2>4
<1>6. DOMAIN container' = 1..Len(container')
  BY <1>5, LenProperties
<1> QED BY <1>5, <1>6 DEF Abstract!OnePlace, Apart, e, k

\* A task is queued once or at one worker, never both: none is started twice.
THEOREM RunsOnce == Safety => []Abstract!OnePlace
<1>1. Init => Abstract!OnePlace
  <2> SUFFICES ASSUME Init PROVE Abstract!OnePlace
    OBVIOUS
  <2>1. container = <<>> /\ Running = {}
    BY DEF Init, Running, At, Threads
  <2> QED BY <2>1 DEF Abstract!OnePlace
<1> QED BY <1>1, Invariance, ImplementsPool, OnePlaceStep, PTL DEF Safety, Abstract!Safety

=============================================================================
