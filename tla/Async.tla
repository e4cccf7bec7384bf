--------------------------------- MODULE Async ---------------------------------
(***************************************************************************)
(* Futures: async<T> (src/c9y/async.h, async.cpp), sync<T> (sync.h), the    *)
(* coroutines whose co_await goes through one of them (coroutine.h), and    *)
(* wait_all and all_ready (utils.h).                                        *)
(*                                                                          *)
(* A promise is kept by a function, which somebody has to run, or by a      *)
(* coroutine, which somebody has to resume; what is queued for that is the  *)
(* function or the coroutine itself.  The pool behind async() is its FIFO   *)
(* (see AbstractQueue) and its workers, the queues of sync() and delay()    *)
(* are those of module Sync.                                                *)
(*                                                                          *)
(* Functions make no calls; a coroutine awaits one thing after the other.   *)
(* Any function may throw.                                                  *)
(***************************************************************************)
EXTENDS Integers, Sequences, FiniteSets, SequencesExt

CONSTANTS
  Workers,     \* the threads of the pool
  Pollers,     \* threads that call sync_point and all_ready again and again
  Waiters,     \* threads that block in wait_all
  Functions,   \* the functions passed to async<T> and sync<T>
  Coroutines,  \* the calls of coroutines
  Body,        \* per coroutine: what it awaits, in order
  CoSync,      \* the coroutines that use co_sync; the others use co_async
  Owned,       \* per client: what it calls itself, in order
  Target,      \* per function: the thread sync<T> names, or Pool for async<T>
  TagOf,       \* per function: the once_tag passed with it, or NoTag
  Tags, NoTag,
  SelfTags,    \* the tags that a thread may also use in a call to itself
  Pool         \* no thread

Clients  == Pollers \cup Waiters
Threads  == Workers \cup Clients
Promises == Functions \cup Coroutines

ASSUME AsyncAssumption ==
  /\ Functions \cap Coroutines = {} /\ CoSync \subseteq Coroutines
  /\ Workers \cap Clients = {} /\ Pollers \cap Waiters = {} /\ Pool \notin Threads
  /\ Body \in [Coroutines -> Seq(Promises)]
  /\ Owned \in [Clients -> Seq(Promises)]
  /\ TagOf \in [Functions -> Tags \cup {NoTag}]
  /\ NoTag \notin Tags /\ SelfTags \subseteq Tags

\* A promise stands for one call, which is in one of the lists, once.
ASSUME CallsAssumption ==
  /\ \A t, u \in Clients : \A i \in DOMAIN Owned[t], j \in DOMAIN Owned[u] :
       Owned[t][i] = Owned[u][j] => t = u /\ i = j
  /\ \A c, d \in Coroutines : \A i \in DOMAIN Body[c], j \in DOMAIN Body[d] :
       Body[c][i] = Body[d][j] => c = d /\ i = j
  /\ \A t \in Clients, c \in Coroutines : \A i \in DOMAIN Owned[t], j \in DOMAIN Body[c] :
       Owned[t][i] # Body[c][j]

\* async<T> takes no tag.
ASSUME TagAssumption == \A x \in Functions : Target[x] = Pool => TagOf[x] = NoTag

\* What is queued for a thread, by sync or by the delay of co_sync, waits for
\* that thread to call sync_point.
ASSUME SyncPointAssumption ==
  /\ Target \in [Functions -> Pollers \cup {Pool}]
  /\ \A c \in CoSync : \E t \in Pollers : c \in Range(Owned[t])

VARIABLES
  future,    \* per promise: "none" until the call that makes it
  jobs,      \* the queue of the pool
  tasks,     \* per client: what is queued for its next sync_point
  batch,     \* per client: what its sync_point has still to run
  active,    \* per tag: its flag
  stack,     \* per thread: what it runs; the last one is on top
  phase,     \* per coroutine: where it is
  pos,       \* per coroutine: what it awaits, as an index of its body
  next,      \* per client: the next it calls
  waited     \* per client: the futures that it has seen ready

queues == <<jobs, tasks, batch, active>>
client == <<next, waited>>
vars == <<future, queues, stack, phase, pos, client>>

Init ==
  /\ future = [p \in Promises |-> "none"]
  /\ jobs = <<>>
  /\ tasks = [t \in Clients |-> <<>>] /\ batch = [t \in Clients |-> <<>>]
  /\ active = [g \in Tags |-> FALSE]
  /\ stack = [t \in Threads |-> <<>>]
  /\ phase = [c \in Coroutines |-> "none"] /\ pos = [c \in Coroutines |-> 1]
  /\ next = [t \in Clients |-> 1] /\ waited = [t \in Clients |-> 0]

Ready(p) == future[p] \in {"value", "exception", "broken"}
OnTop(t, p) == stack[t] # <<>> /\ Last(stack[t]) = p
SetFuture(p, status) == future' = [future EXCEPT ![p] = status]
Enter(t, p) == stack' = [stack EXCEPT ![t] = Append(@, p)]
Leave(t)    == stack' = [stack EXCEPT ![t] = Front(@)]
QueueFor(t, p) == tasks' = [tasks EXCEPT ![t] = Append(@, p)]

-----------------------------------------------------------------------------
(* Calls that return a future.                                              *)

\* async(func)
Enqueue(p) == jobs' = Append(jobs, p)

\* async<T>(func)
AsyncFuture(x) ==
  /\ Target[x] = Pool
  /\ Enqueue(x) /\ SetFuture(x, "pending")
  /\ UNCHANGED <<tasks, batch, active, stack>>

\* sync<T>(thread, func)
SyncFuture(t, x) ==
  /\ Target[x] \notin {Pool, t} /\ TagOf[x] = NoTag
  /\ QueueFor(Target[x], x) /\ SetFuture(x, "pending")
  /\ UNCHANGED <<jobs, batch, active, stack>>

\* Mutant: the function is queued for the thread that calls.
SyncOnceFutureSelf(t, x) ==
  /\ Target[x] \notin {Pool, t} /\ TagOf[x] # NoTag
  /\ \/ /\ active[TagOf[x]]
        /\ SetFuture(x, "broken")
        /\ UNCHANGED <<tasks, active>>
     \/ /\ ~active[TagOf[x]]
        /\ active' = [active EXCEPT ![TagOf[x]] = TRUE]
        /\ QueueFor(t, x) /\ SetFuture(x, "pending")
  /\ UNCHANGED <<jobs, batch, stack>>

\* sync<T>(tag, thread, func): a suppressed packaged_task is destroyed.
SyncOnceFuture(t, x) ==
  /\ Target[x] \notin {Pool, t} /\ TagOf[x] # NoTag
  /\ \/ /\ active[TagOf[x]]
        /\ SetFuture(x, "broken")
        /\ UNCHANGED <<tasks, active>>
     \/ /\ ~active[TagOf[x]]
        /\ active' = [active EXCEPT ![TagOf[x]] = TRUE]
        /\ QueueFor(Target[x], x) /\ SetFuture(x, "pending")
  /\ UNCHANGED <<jobs, batch, stack>>

\* sync<T> for the own thread runs the function at once; a tag is not taken.
SyncHere(t, x) ==
  /\ Target[x] = t /\ TagOf[x] \in SelfTags \cup {NoTag}
  /\ Enter(t, x) /\ SetFuture(x, "pending")
  /\ UNCHANGED queues

CallFunction(t, x) ==
  AsyncFuture(x) \/ SyncFuture(t, x) \/ SyncOnceFuture(t, x) \/ SyncHere(t, x)

\* A coroutine starts on the thread that calls it, and gives it its future.
CallCoroutine(t, c) ==
  /\ Enter(t, c) /\ SetFuture(c, "pending")
  /\ UNCHANGED queues

\* A function ends, and its packaged_task makes the future ready.
FunctionEnd(t) ==
  \E x \in Functions, status \in {"value", "exception"} :
    /\ OnTop(t, x) /\ ~Ready(x)
    /\ SetFuture(x, status)
    /\ IF TagOf[x] = NoTag THEN Leave(t) ELSE UNCHANGED stack
    /\ UNCHANGED <<queues, phase, pos, client>>

\* The closure around it puts the tag back, when others may have the result.
PutTagBack(t) ==
  \E x \in Functions :
    /\ OnTop(t, x) /\ Ready(x)
    /\ active' = [active EXCEPT ![TagOf[x]] = FALSE]
    /\ Leave(t)
    /\ UNCHANGED <<future, jobs, tasks, batch, phase, pos, client>>

RunFunction(t) == FunctionEnd(t) \/ PutTagBack(t)

-----------------------------------------------------------------------------
(* Coroutines.                                                              *)

Awaited(c) == Body[c][pos[c]]

\* The operand of co_await is called.
CoCall(t, c) ==
  /\ OnTop(t, c) /\ phase[c] = "call" /\ pos[c] <= Len(Body[c])
  /\ \/ /\ Awaited(c) \in Functions
        /\ CallFunction(t, Awaited(c))
        /\ phase' = [phase EXCEPT ![c] = "await"]
     \/ /\ Awaited(c) \in Coroutines
        /\ CallCoroutine(t, Awaited(c))
        /\ phase' = [phase EXCEPT ![c] = "await", ![Awaited(c)] = "call"]
  /\ UNCHANGED <<pos, client>>

\* Mutant: the frame is not left.
CoAwaitAsyncStays(t, c) ==
  /\ c \notin CoSync
  /\ Enqueue(c)
  /\ UNCHANGED <<stack, tasks>>

\* co_await of co_async: the rest of the coroutine is for the pool.
CoAwaitAsync(t, c) ==
  /\ c \notin CoSync
  /\ Enqueue(c)
  /\ Leave(t)
  /\ UNCHANGED tasks

\* co_await of co_sync: it is for the next sync_point of the own thread.
CoAwaitSync(t, c) ==
  /\ c \in CoSync
  /\ QueueFor(t, c)
  /\ Leave(t)
  /\ UNCHANGED jobs

\* await_ready is false.
CoSuspend(t, c) ==
  /\ OnTop(t, c) /\ phase[c] = "await" /\ ~Ready(Awaited(c))
  /\ CoAwaitAsync(t, c) \/ CoAwaitSync(t, c)
  /\ phase' = [phase EXCEPT ![c] = "suspended"]
  /\ UNCHANGED <<future, batch, active, pos, client>>

\* Mutant: wait() in place of get(), which would throw.
CoResumeWait(t, c) ==
  /\ OnTop(t, c) /\ phase[c] \in {"await", "resumed"} /\ Ready(Awaited(c))
  /\ phase' = [phase EXCEPT ![c] = "call"]
  /\ pos' = [pos EXCEPT ![c] = @ + 1]
  /\ UNCHANGED <<future, stack, queues, client>>

\* await_ready is true, or the wait of what was queued by co_await is over:
\* await_resume gets the value and the coroutine goes on, or it throws and
\* unhandled_exception makes that the outcome of the coroutine.
CoResume(t, c) ==
  /\ OnTop(t, c) /\ phase[c] \in {"await", "resumed"} /\ Ready(Awaited(c))
  /\ \/ /\ future[Awaited(c)] = "value"
        /\ phase' = [phase EXCEPT ![c] = "call"]
        /\ pos' = [pos EXCEPT ![c] = @ + 1]
        /\ UNCHANGED <<future, stack>>
     \/ /\ future[Awaited(c)] # "value"
        /\ SetFuture(c, "exception")
        /\ phase' = [phase EXCEPT ![c] = "done"]
        /\ Leave(t)
        /\ UNCHANGED pos
  /\ UNCHANGED <<queues, client>>

\* co_return
CoReturn(t, c) ==
  /\ OnTop(t, c) /\ phase[c] = "call" /\ pos[c] > Len(Body[c])
  /\ SetFuture(c, "value")
  /\ phase' = [phase EXCEPT ![c] = "done"]
  /\ Leave(t)
  /\ UNCHANGED <<queues, pos, client>>

CoStep(t) ==
  \E c \in Coroutines :
    CoCall(t, c) \/ CoSuspend(t, c) \/ CoResume(t, c) \/ CoReturn(t, c)

-----------------------------------------------------------------------------
(* Who runs what is queued.                                                 *)

\* A thread takes p, a function or a coroutine to wait for and resume.
Take(t, p) ==
  /\ Enter(t, p)
  /\ phase' = [c \in Coroutines |-> IF c = p THEN "resumed" ELSE phase[c]]
  /\ UNCHANGED <<future, active, pos, client>>

\* Mutant: the pool takes the youngest first.
WorkerPopLast(w) ==
  /\ stack[w] = <<>> /\ jobs # <<>>
  /\ Take(w, Last(jobs))
  /\ jobs' = Front(jobs)
  /\ UNCHANGED <<tasks, batch>>

WorkerPop(w) ==
  /\ stack[w] = <<>> /\ jobs # <<>>
  /\ Take(w, Head(jobs))
  /\ jobs' = Tail(jobs)
  /\ UNCHANGED <<tasks, batch>>

AtBase(t) == stack[t] = <<>> /\ batch[t] = <<>>

SyncPoint(t) ==
  /\ AtBase(t) /\ tasks[t] # <<>>
  /\ batch' = [batch EXCEPT ![t] = tasks[t]]
  /\ tasks' = [tasks EXCEPT ![t] = <<>>]
  /\ UNCHANGED <<future, jobs, active, stack, phase, pos, client>>

RunNext(t) ==
  /\ stack[t] = <<>> /\ batch[t] # <<>>
  /\ Take(t, Head(batch[t]))
  /\ batch' = [batch EXCEPT ![t] = Tail(@)]
  /\ UNCHANGED <<jobs, tasks>>

-----------------------------------------------------------------------------
(* The clients.                                                             *)

ClientCall(t) ==
  /\ AtBase(t) /\ next[t] <= Len(Owned[t])
  /\ LET p == Owned[t][next[t]] IN
       \/ /\ p \in Functions
          /\ CallFunction(t, p)
          /\ UNCHANGED phase
       \/ /\ p \in Coroutines
          /\ CallCoroutine(t, p)
          /\ phase' = [phase EXCEPT ![p] = "call"]
  /\ next' = [next EXCEPT ![t] = @ + 1]
  /\ UNCHANGED <<pos, waited>>

Called(t) == AtBase(t) /\ next[t] > Len(Owned[t]) /\ waited[t] < Len(Owned[t])

\* One round of the loop of wait_all.
WaitAll(t) ==
  /\ Called(t)
  /\ Ready(Owned[t][waited[t] + 1])
  /\ waited' = [waited EXCEPT ![t] = @ + 1]
  /\ UNCHANGED <<future, queues, stack, phase, pos, next>>

\* all_ready returns true.
AllReady(t) ==
  /\ Called(t)
  /\ \A i \in DOMAIN Owned[t] : Ready(Owned[t][i])
  /\ waited' = [waited EXCEPT ![t] = Len(Owned[t])]
  /\ UNCHANGED <<future, queues, stack, phase, pos, next>>

-----------------------------------------------------------------------------
WorkerStep(w) == WorkerPop(w) \/ RunFunction(w) \/ CoStep(w)
WaiterStep(t) == RunFunction(t) \/ CoStep(t) \/ WaitAll(t)
PollerStep(t) == RunFunction(t) \/ CoStep(t) \/ RunNext(t) \/ AllReady(t)

Next ==
  \/ \E w \in Workers : WorkerStep(w)
  \/ \E t \in Waiters : ClientCall(t) \/ WaiterStep(t)
  \/ \E t \in Pollers : ClientCall(t) \/ PollerStep(t) \/ SyncPoint(t)

(***************************************************************************)
(* What runs goes on, functions end, the pool's workers take what is        *)
(* queued, and the threads that sync<T> and co_sync need call sync_point.   *)
(***************************************************************************)
Fairness ==
  /\ \A w \in Workers : WF_vars(WorkerStep(w))
  /\ \A t \in Waiters : WF_vars(WaiterStep(t))
  /\ \A t \in Pollers : WF_vars(PollerStep(t)) /\ WF_vars(SyncPoint(t))

Safety == Init /\ [][Next]_vars
Spec == Safety /\ Fairness

-----------------------------------------------------------------------------
(* Properties.                                                              *)

TypeOK ==
  /\ future \in [Promises -> {"none", "pending", "value", "exception", "broken"}]
  /\ jobs \in Seq(Promises)
  /\ tasks \in [Clients -> Seq(Promises)] /\ batch \in [Clients -> Seq(Promises)]
  /\ \A t \in Waiters : tasks[t] = <<>> /\ batch[t] = <<>>
  /\ active \in [Tags -> BOOLEAN]
  /\ stack \in [Threads -> Seq(Promises)]
  /\ phase \in [Coroutines -> {"none", "call", "await", "suspended", "resumed", "done"}]
  /\ pos \in [Coroutines -> Nat] /\ next \in [Clients -> Nat] /\ waited \in [Clients -> Nat]
  /\ \A c \in Coroutines : pos[c] \in 1..(Len(Body[c]) + 1)
  /\ \A t \in Clients : next[t] \in 1..(Len(Owned[t]) + 1) /\ waited[t] \in 0..Len(Owned[t])

\* The places where p is queued or runs.
Places(p) ==
  LET In(s) == {i \in DOMAIN s : s[i] = p} IN
    {<<Pool, "jobs", i>> : i \in In(jobs)}
      \cup (UNION {{<<t, "stack", i>> : i \in In(stack[t])} : t \in Threads})
      \cup (UNION {{<<t, "tasks", i>> : i \in In(tasks[t])} : t \in Clients})
      \cup (UNION {{<<t, "batch", i>> : i \in In(batch[t])} : t \in Clients})

\* A future that is not ready has exactly one function or coroutine that will
\* make it so, queued or running in one place: a coroutine is never resumed
\* twice or by two threads, and no promise is forgotten.  A ready one has none,
\* but for a function that has still its tag to put back, which is its own if
\* no thread uses it in calls to itself.
OneKeeper ==
  \A p \in Promises :
    IF future[p] = "pending" THEN Cardinality(Places(p)) = 1
    ELSE \A place \in Places(p) :
           /\ p \in Functions /\ TagOf[p] # NoTag
           /\ TagOf[p] \notin SelfTags => active[TagOf[p]]
           /\ place[2] = "stack" /\ place[3] = Len(stack[place[1]])

\* A coroutine has a value when all it awaited have one; it ends with an
\* exception at the first that has none, and what comes after is not called.
OutcomeOfAwaited ==
  \A c \in Coroutines :
    LET Outcome(i) == future[Body[c][i]] IN
      /\ future[c] = "value" => \A i \in DOMAIN Body[c] : Outcome(i) = "value"
      /\ future[c] = "exception" =>
           \E i \in DOMAIN Body[c] :
             /\ Outcome(i) \in {"exception", "broken"}
             /\ \A j \in 1..(i - 1) : Outcome(j) = "value"
             /\ \A j \in (i + 1)..Len(Body[c]) : Outcome(j) = "none"

\* A coroutine that awaits another one waits for calls that are still to be
\* made; a function is queued before whoever waits for it.
AwaitsCoroutine(c) == Range(Body[c]) \cap Coroutines # {}
AsksPoller(c) == \E x \in Range(Body[c]) \cap Functions : Target[x] # Pool

\* What a poller waits for in its sync_point can be done by the pool alone: the
\* coroutines that a co_sync coroutine awaits, and those that they call.
PollersSuffice ==
  \E S \in SUBSET (Coroutines \ CoSync) :
    /\ \A c \in CoSync \cup S : Range(Body[c]) \cap Coroutines \subseteq S
    /\ \A c \in S : ~AsksPoller(c)

\* Of the pool's workers one is left when every coroutine that may have to wait
\* there for calls that are still to be made, or for a poller that waits itself
\* for some, blocks another.
WorkersSuffice ==
  LET pollersWait == \E c \in CoSync : AwaitsCoroutine(c)
      Blocks(c)   == AwaitsCoroutine(c) \/ (pollersWait /\ AsksPoller(c))
  IN Cardinality({c \in Coroutines \ CoSync : Blocks(c)}) < Cardinality(Workers)

\* Every future becomes ready: by a value, an exception, or the tag that
\* suppressed its function.  "On the upside this is that the code just works":
\* as long as the workers, and the pollers that wait in sync_point, suffice.
\* (A ready future stays so, and calls are made once: none is pending at last.)
FuturesResolve ==
  WorkersSuffice /\ PollersSuffice =>
    []<>(\A p \in Promises : future[p] # "pending")

=============================================================================
