# c9y in TLA+

c9y is a C++ library of concurrency building blocks: a blocking queue, thread
and task pools, a latch and a barrier, fork-join algorithms, a way to run
functions on another thread, and a replacement for `std::jthread` where the
standard library has none. This directory holds TLA+ specifications of its
core, the TLC configurations that check them, and TLAPS proofs.

## Inventory

| part | state | operations | works with |
|---|---|---|---|
| `queue` (queue.h) | deque, stop flag, mutex, condition variable | push, emplace, pop, pop_wait, pop_wait_for, stop | task_pool |
| `task_pool` | queue, threads, atomic counter `tasks_in_flight`, mutex and condition variable of flush | enqueue, flush, destructor; `thread_func` on each worker | queue, thread_pool, exceptions, parallel, async |
| `thread_pool` | vector of jthreads | constructor, move, join, request_stop | jthread, task_pool |
| `latch` | count, mutex, condition variable | count_down, wait, wait_for | parallel |
| `barrier` | count, expected, phase, completion function | arrive, wait, arrive_and_wait, arrive_and_drop | - |
| `parallel` | none of its own; a latch and results on the caller's stack | parallel, and 14 algorithms that cut a range in chunks | latch, task_pool |
| `sync` | map from thread id to functions, main thread id; `once_tag` flags of the callers | sync, delay, sync_point, with and without tag, with and without future | exceptions, coroutine |
| `jthread` | stop state (flag, callbacks, mutex), thread | stop_source, stop_token, stop_callback, jthread | thread_pool |
| `async` | one process-wide task_pool | async, async<T> | task_pool |
| `coroutine` | promise and future per coroutine | co_async, co_sync (only with `C9Y_OLD_COROUTINE`) | async, sync |
| `defer` | thread-local list | defer, catch_up | - |
| `exceptions` | the handler | set_unhandled_exception, unhandled_exception | every catch block |
| `utils` | none | all_ready, wait_all | async |

Parts interact by calls and by shared state: `parallel` and `async` enqueue
closures in a `task_pool`, whose workers block in `queue::pop_wait`; closures
hold references into the frames of their callers; `sync` moves functions
between threads.

What is hard in them, and what makes each correct:

- **queue**: `push` and `stop` notify after they have unlocked. Correct is: no
  wake-up is lost, `stop` ends every wait, and the queue is a FIFO that loses
  and repeats nothing whatever is overtaken.
- **task_pool**: the counter is not guarded by `flush_mutex`; tasks enqueue
  tasks; the destructor runs while workers run. Correct is: `flush` waits for
  everything and returns, and the destructor drains and returns.
- **latch**, **parallel**: the latch dies as soon as its waiter returns.
  Correct is: it outlives every call of it, and `parallel` returns exactly when
  its range has run.
- **sync**: a flag and a queue that change separately, functions that call
  `sync` and `sync_point` again, exceptions. Correct is: nothing is lost, order
  per sender is kept unless sync_points nest, and a tag is taken exactly while its
  function is on its way.
- **barrier**: phases that follow each other faster than waiters get the mutex,
  parties that drop out. Correct is: nobody leaves a phase before all have
  arrived, nobody sleeps through its end.
- **jthread**, **thread_pool**: users' callbacks run under the mutex of the stop
  state, and register and go away while a stop is requested; the stop source and
  the thread of a jthread move separately. Correct is: a stop reaches every
  callback once and none that is destroyed, and a jthread stops its own thread.
- **parallel algorithms**: chunk boundaries, a loop with up to four iterators
  that must stay in step, concurrent writes to packed bits. Correct is: the
  answer is that of the sequential algorithm, and no two tasks write one place.
- **async**, **coroutine**, **sync<T>**: a promise travels from queue to queue,
  a coroutine is suspended by one thread and resumed by another, a tag breaks a
  promise, and workers block in it. Correct is: each future has one keeper,
  becomes ready, and carries the outcome of what its coroutine awaited.

PROJECT.json lists these hazards at their lines.

## Modules

| module | models | state | actions |
|---|---|---|---|
| `AbstractQueue` | what a queue promises: a FIFO that can be closed, blocked calls that are served or may give up | FIFO, closed, blocked call and last result per thread | Insert, Close, Block, Deliver, GiveUp |
| `Queue` | queue.h | deque, flag, and per thread a label and the last result | one per critical section, one per notification, one per wake-up |
| `TaskPool` | task_pool.cpp over `Queue` (INSTANCE) | the queue's state, counter, flush mutex, label per thread | one per access to the counter, per step of flush, of the worker loop and of the destructor |
| `Latch` | latch.h, latch.cpp | per latch count, mutex holder and lifetime; per thread its label | one per step; the mutex is explicit, since count_down keeps it over its notification |
| `Parallel` | `parallel()` over `Latch` and `AbstractQueue` (INSTANCE) | the latches, the FIFO of closures, label per thread, history of what has run | one per step of caller and closure |
| `Sync` | sync.cpp | map of queues, tag flags, main thread id, a stack of frames per thread | one per locked section, per access to a flag, per start and end of a function |
| `Barrier` | barrier.h | count, expected, iteration, mutex, label and token per thread, parties per thread | one per critical section; three for the last arrival, which runs the completion function under the mutex |
| `StopState` | stop_state, stop_callback (jthread.cpp) | per state mutex, flag and registered callbacks, a stack of frames per thread | one per locked section, per callback started and ended |
| `JThread` | jthread and thread_pool over `StopState` (EXTENDS) | per handle its stop source and thread | one per operation of a handle, one per round of the pool's loops |
| `ParallelChunks` | the algorithms of parallel.h that cut a range | the call, the loop's iterators, tasks, results, output, map_reduce's groups, answer | one per algorithm, in alternatives: a round of the loop, a step of a task, what follows the tasks |
| `Async` | async.h, sync<T> of sync.h, coroutine.h, utils.h | per promise its future, the pool's queue, queue and batch per client, tag flags, a stack per thread, phase and position per coroutine | the calls that return a future, the steps of a coroutine around co_await, taking what is queued, the end of a function and, later, of its hold on its tag, a round of wait_all, all_ready |
| `AbstractPool` | what a task pool promises: every task starts once and in order, flush and the destructor return to an idle pool | tasks ever enqueued, FIFO, task per worker, who is in flush, phase | Enqueue, Start, Finish, FlushCall, FlushReturn, Close, Destroy |
| `AbstractBarrier` | what a barrier promises: a phase is completed once, by all its parties, and ends the waits for it | phases over, completions, parties held and due, arrival per thread, who waits | Arrive, ArriveAndDrop, Complete, NextPhase, Wait, Leave |
| `QueueProofs`, `LatchProofs`, `BarrierProofs`, `TaskPoolProofs`, `ParallelProofs` (with `ParallelChunks`), `JThreadProofs` (with `StopState`), `SyncProofs`, `AsyncProofs` | theorems about the module of that name | | |
| `MC...` | instances for TLC | | |

`Queue` and `Latch` are driven by the most general client: any thread may start
any operation whenever it is outside of one. `Barrier`'s client keeps to what a
barrier asks: each thread arrives once per phase for each party it stands for,
and waits when it has. In `JThread` one thread owns the jthreads and every
thread requests stops and uses callbacks through copies of sources and tokens. A
mutex whose critical section makes one step is part of that step. A mutex held
over several steps (`flush_mutex`, the latch's, the barrier's, the stop state's)
is a variable. Conditions that a sleeping thread re-evaluates are re-evaluated
in the model, and spurious wake-ups are steps.

Operators named as mutants in their comments belong to no specification. Each is
a plausible slip in the definition that follows it; with it in place of that
definition TLC finds the property named in PROJECT.json violated.

What is abstracted: values, tasks and functions are identities; an exception
ends a function and is handed to a handler that returns (the default handler
ends the process, after which there is nothing to check); the three overloads of
push are one action; `pop_wait_for`'s duration is a deadline that may pass at
any time; mutexes are acquired in no particular order. In `TaskPool` each task
is enqueued once, and clients have left the pool when its destructor starts. In
`JThread` the functions of the threads poll their token, a pool is constructed
in one step and its return value is left out, and a behaviour has a pool or
loose jthreads. A callback's function does nothing or requests one stop. In
`Parallel` the pool is a FIFO whose workers run what they take. That is
`AbstractPool`: `TaskPool` is proved to implement it, and `Parallel` to use no
more of it. That a worker does take what is queued is the liveness `EveryTaskRuns`
of run `pool`.

In `ParallelChunks` the loop runs step by step and the tasks interleave freely
when it is over; that they have all ended when the algorithm goes on is what
`Parallel` shows. (In the code tasks start when the loop has built the list of
them, `parallel()` being called with the list.) Operations, predicates and
generators have no state and do not throw: two predicates, a sum and a product
stand for them. Results in a `std::vector<bool>` are stored by reading and
writing a word, since the standard lets neighbouring bits race and the
implementations pack them so; undefined behaviour beyond a lost bit is left out.
A position of the output holds the list of what was written to it, so that a
position written twice or never is seen. `map_reduce` maps each element to a
pair of itself and its position, and its reduction leaves the list as it is.

In `Async` the pool is a FIFO with workers; functions make no calls (nesting is
the coroutines' part); `exchange` and push of a tagged sync are one step, since
`Sync` has them apart; the id of the main thread is known beforehand. A closure
queued by a `co_await` is the coroutine itself, which its taker waits for, then
resumes on its own stack. Coroutines with co_sync belong to a thread that polls
and await functions or co_async coroutines, none of their own kind; see "Not
modelled".

## Runs

| run | shows | bounds |
|---|---|---|
| `queue` | NoLostWakeup, StopReachesSleepers, StopEndsEveryWait; the monitor implements `AbstractQueue!Spec` with its liveness | 3 threads, 2 values, 2 queued: a sleeper, a notifier and an overtaking pop |
| `pool` | FlushComplete, CounterMatchesQueue, DtorDrains, EveryTaskRuns, DtorTerminates | 2 workers, 1 client, 3 tasks: chains of nested enqueues, before and during flush and destructor |
| `latch` | LatchOutlivesCalls, OpenIsFinal, OpenReleasesAll | 3 threads, 1 latch, counts up to 3, any amounts |
| `parallel` | ParallelComplete, FrameOutlivesClosures, ParallelReturnsUnlessThrown (while fewer jobs make calls than there are workers, `WorkersSuffice`) | 2 workers, 2 clients, an outer call of two jobs one of which makes an inner call, an empty call, and a call whose job throws |
| `chunks` | ChunksTypeOK, MatchesStd, TrueIsRight | values and initial values 0 to 2, ranges of up to 5 elements, chunk sizes 1 to 5, words of 2 bits: even and uneven last chunks, one chunk, the empty range, two words with one of them half used |
| `async` | OneKeeper, OutcomeOfAwaited, FuturesResolve (while `WorkersSuffice` and `PollersSuffice`) | 3 workers, a poller, a waiter; a co_sync coroutine that awaits a co_async one and a function, with another co_async coroutine below, and a third that needs two functions for main; 2 functions with one tag; any function may throw. Both conditions are tight here: without them FuturesResolve fails with 2 workers, and when the last function of the coroutines that main waits for is for main |
| `sync` | OrderUnlessNested (also what a nested sync_point overtakes), TagTracksClosure, EveryRequestRuns | 2 threads, 3 requests, 2 tags, one of them also used in calls to the own thread; stacks that nest a sync_point in a function of a sync_point |
| `barrier` | AllArrived, SleepersAreCurrent, ReleasedWhenComplete, WaitsEnd | 3 threads, 4 parties, 3 phases |
| `jthread` | StopReachesCallbacks, NoCallbackAfterDestructor, HandleStopsItsThread, PoolStopReachesAll, CallsReturn (while `LocksOrdered`) | 2 threads that call, 2 launched ones, 2 callbacks one of which stops the other state, a pool of two or two loose jthreads |

The properties relate two threads and two items at most, and every run has two
of each; where a third could overtake them (`queue`, `latch`, `barrier`) there is
a third. `chunks` goes through every range within its bounds, and in `MatchesStd`
a condition, `Exact`, says for which calls an answer must be the sequential one:
reductions start every chunk from the initial value, which is right when it is
neutral; predicates lose bits when there are two chunks or more, and then only a
TRUE is reliable (`TrueIsRight`); outputs need chunks of one length. What is
safety in these runs is proved for instances of any size.
`UIntMod` stands for 2^32; it only has to exceed the number of tasks.

Three runs end in a violation, each of something a comment, a document or a test
says (PROJECT.json quotes them):

- `pool_flush_returns`: the worker decrements and notifies without
  `flush_mutex`, between flush's check and its sleep; flush sleeps for ever on
  an idle pool. Taking `flush_mutex` around the decrement or the notification
  closes the window.
- `pool_flush_cv`: `flush_cv` is declared after the threads and destroyed before
  they are joined, while a worker is about to notify it. It needs no misuse:
  flush returns as soon as the counter is 0.
- `chunks_transform`: when a chunk is queued, `parallel_transform` and
  `parallel_copy` move the output iterator by the size of the next one; a last
  chunk that is shorter is written over the one before it, and the end of the
  output stays unwritten. Three elements in chunks of two do it.

The passing runs hold under conditions which their models or properties name,
and the code does otherwise outside of them:

- a job that throws skips the `count_down` of its closure, and its `parallel()`
  never returns (`ParallelReturnsUnlessThrown` asks for no throw in the call);
- a tagged sync to the own thread puts back a tag that a pending function of
  another thread holds (`SelfTags` in `Sync` and `Async`, for which
  `TagTracksClosure` and `OneKeeper` claim less);
- callbacks run with the mutex of their state held, so that one that stops its
  own state, or two that stop each other's, hang (in the standard's classes,
  which c9y says to replace, the request of the first returns false). `CallsReturn`
  states the condition, `LocksOrdered`: the states can be put in an order in
  which callbacks stop higher ones only. With `Tokens` giving a callback the state
  it stops, TLC finds a call that does not return (`CallsAlwaysReturn`);
- blocked workers are not replaced: nested `parallel()` or co_async needs one
  worker more than calls that block (`WorkersSuffice`). Without that condition
  both liveness properties fail with one worker less;
- a thread blocked in `sync_point` runs nothing that is queued for it. A co_sync
  coroutine waits there for what it awaits, so that a co_async coroutine it awaits
  can need the pool but no function for a thread (`PollersSuffice`); and while
  it waits, co_async coroutines that await functions for threads count as blocked
  workers too (in `WorkersSuffice` of `Async`);
- a sync_point inside a function of another one starts what was asked later
  before the rest of the outer batch (`OrderUnlessNested` says that it overtakes
  that rest and nothing else), and a function that `sync` calls on the spot
  overtakes everything queued.

The destructor of `task_pool` resets its counter "needed to release flush"; a
worker that ends a task afterwards wraps it around. That is in the model
(`DtorReset`, `Decrement`), and no property forbids it: nobody is in flush by
then.

## Fairness

Weak fairness is put on steps inside a call and on the pool's workers: the
operating system runs every runnable thread, and mutexes are free again and
again. `TaskPool` and `Sync` use strong fairness in one place each: a flush that
competes for `flush_mutex` gets it in the end, and a function that runs a
sync_point of its own now and then still ends. Deadlines pass. Tasks, jobs and
functions terminate. `Sync` also assumes that threads call `sync_point`
regularly, which is what sync.h asks of them, `Barrier` that every party that is
due arrives, and `JThread` that launched threads poll their tokens. `Async` has
weak fairness on each worker, on each waiter inside its calls, and on each poller
inside its calls and in calling `sync_point`. `ParallelChunks` has no liveness:
its loop and its tasks are bounded. Nothing
makes a client start a call, and no liveness property relies on a spurious
wake-up. Where the checking of deadlocks is off the modelled system really
stops: its pool or latch is destroyed, or all its calls are made.

## Proofs

TLAPS proves, for instances of any size, every invariant and every action
property that the passing runs check. The theorems are listed in PROJECT.json;
here is how they are proved and what they assume. An inductive invariant is
called `IInv` in each module (`ChunkInv` for `ParallelChunks`); each has one lemma
per action, or per group of actions that do the same to it.

**`QueueProofs`**, for finitely many threads. `WakeupsAreNotLost`: given
`TypeOK` the invariant is inductive because it counts: a push adds a value and
a notifier; a notification replaces a notifier by an awake thread; an awake
thread that finds a value takes one away and is gone, and one that finds none
shows that there is none. `StopLeavesNobody` is inductive too. `ImplementsSafety`:
each step of the monitor is a step of the abstract FIFO or leaves it unchanged.

**`TaskPoolProofs`**, for finitely many threads and tasks and a counter that can
hold the number of tasks (`UIntMod`; without that it wraps). `CounterIsExact` needs
`NoWrap` (no more is in flight than was ever counted) and where each thread can be;
`FlushIsComplete` needs in addition `Whereabouts`, that a task which was counted
and has not run is about to be pushed, queued or held, since a counter of 0 says
something about tasks only through it; `DestructorDrains` needs `Shutdown`: the
last worker to leave has seen the queue stopped and empty.

- `UsesQueue` shows that the pool takes steps of `Queue` only. What `QueueProofs`
  proves is then used, not proved again: `WorkersAreWoken`.
- `ImplementsPool`, `Safety => Abstract!Safety`, is the refinement of
  `AbstractPool`. A task counts as enqueued when it is pushed, as started when
  pop_wait has it out of the queue, as ended when the counter is decremented;
  flush and destructor return in an idle pool because the counter is 0 or the
  workers have left. It needs one invariant more, `ArgsApart`: what a thread is about to push
  is nowhere else.
- `RunsOnce` is proved of the abstract pool's steps, where it is simple, and holds
  of `TaskPool` by the refinement: a task is in one place.

**`LatchProofs`**, for finitely many threads. `Balance` ties the count to what
started calls still owe; that is a sum over threads, written as the cardinality
of a set of pairs, so that no induction over the threads is needed. `OutlivesCalls` rests on
`NotifierOwnsMutex` (count_down keeps the mutex until it has notified) and
`OpenHasWaitersOnly` (with the count at 0 nobody else is inside).

**`BarrierProofs`**, for finitely many threads and any natural numbers of parties,
which are again counted as pairs. `CompletedByAll` and `NobodyOversleeps` follow
with `CompleterOwnsMutex`, `DueIsCounted`, `HeldIsExpected`; the action property
`WaitsForCompletion` with the history of completed phases (`CompletedPhases`,
`TokensAreOld`). `ImplementsBarrier` is the refinement of `AbstractBarrier`, in which a
thread waits from its call until it has seen its phase over, asleep or not; it
follows from the same invariant, action by action.

**`ParallelProofs`**, first part, for finite sets of threads and jobs, any calls,
any nesting of them and any jobs that throw. A job is in one place (range, queue,
worker, finished), a call belongs to one thread, and a latch promises what the
jobs of its call still owe, those that threw included: hence `CompleteOnReturn` and `FrameIsLast`.
`UsesLatch` and `UsesPool` show that the latches take steps of `Latch`, and the pool
steps of `AbstractPool`; what is proved of a latch is used here through the first.

**`ParallelProofs`**, second part, about `ParallelChunks`, for ranges of any length
and any numbers, chunks of any size and words of any width. `ChunkInv` has what each
kind of algorithm needs:

- the cut: `LoopFits` (the iterators are in step, and there are as many results as
  chunks), `ChunksPartition` (the tasks have consecutive chunks and results of their
  own) and `OutputsFit` (with chunks of one length, where a task writes is where it
  reads); `map_reduce` has it of both its loops;
- what the tasks have stored so far: `BoolInv` (a TRUE is right, in the results and in
  a word on its way there), `SingleInv` (with one chunk it is not lost), `NumberInv`
  (the result of a task that has ended is the fold of its chunk), `WriteInv` (a position
  that was written was written once, with what belongs there);
- `GroupInv`: what `map_reduce` has grouped is what the sequential algorithm groups.

`ChunksTypeCorrect`, `TrueAnswersAreRight` and `AnswersMatchStd` are the three
properties of run `chunks`, for all algorithms. That the fold of the results is the
fold of the range (`ChunkedFold`) is an induction over the chunks. The induction
theorems of the library take an operator, which the provers cannot instantiate; so
it is made by the least counterexample: a set of natural numbers that is not empty
has a least element (`LeastNatural`, from `WFMin`), and the least length, chunk or
cardinality that fails does not fail when the one before it does not. `OnesCount` (the
sum of ones is a count) and `AscendingIs` (a finite set of keys can be gone through
in order) are made so, too. `Fold` is a recursive function, and not an operator, for
that reason.

**`JThreadProofs`**, for any threads, states and handles, any pool of distinct
handles, and finitely many callbacks. The stacks of frames are well formed
(`FramesAreFormed`); a frame inside a locked section owns the mutex, so that there is
one of it (`HoldersOwnMutex`); the frame below a callback's function is the operation
that called it; and a callback that lives is registered, or has been called, or
is in the hands of the one operation that constructs or destroys it: `StopReachesEach`,
`DestroyedIsGone`. `HandleStops` needs the state a handle's source points to and the
thread it has to go through each operation together (`HandlesFit`). `PoolIsStopped`
needs `PoolInv`: the loop of `request_stop` has told the handles it has passed, and
nobody changes their sources meanwhile.

**`SyncProofs`**, for any threads, tags, requests and stacks, finite or not.
`TagsAreTracked` follows from where closures of a tag are (`TakenIsHeld`,
`HeldIsTaken`, `HeldOnce`, by position in queues and stacks); the action property
`StartedInOrder` from `OrderInv`: requests of one thread to another lie in the order of
their numbers, those in a batch before those in the queue, those in an outer batch
before those in an inner one (`OuterBeforeInner`, for nested sync_points), and all of
them before the one that is about to be pushed.

**`AsyncProofs`**, for any threads, functions and coroutines. `OneKeeperHolds` needs
`PlaceInv`, where a promise can be, once, and on which stacks; `NotYetCalled`, that
a promise somebody will still make is nowhere; and `OutcomeFollows` needs `CoroutinesGo`,
how far each coroutine is and what became of what it awaited. The assumptions are
those the module declares: a promise stands for one call, made in one place; a function for
the pool has no tag; what is sent to a thread is sent to one that calls `sync_point`.

Otherwise the assumptions are that the bounds are natural numbers and that values
such as `Nobody` or `Nullopt` are not members of the sets they stand outside of.
All of them are ASSUMEs of the modules, which the runs evaluate, or hypotheses of the
theorem.

Model-checked only:

- liveness and the liveness half of the refinements: they need ENABLED, and fairness.

Every safety property of a passing run, invariant or action property, is a theorem.

## Plan

1. Done: all modules and runs, the proofs above.
2. An abstract latch that `Latch` implements, to be used by `Parallel` instead of
   its steps.
3. `Async` over a pool that takes a closure more than once, as a coroutine
   is; `AbstractPool` takes each task once.

## Not modelled

- `defer`: a queue local to its thread, filled and emptied by that thread; no
  step of another one touches it.
- `exceptions`: replacing the handler while workers call it is a data race of
  the library's users; the models have one handler, which returns.
- `thread_pool`: moving a pool moves its vector of jthreads as one.
- `sync_fun` and the overloads that only forward to the operation modelled.
- A chunk size of 0, a pool without workers, `flush` from a task of its own pool,
  threads that end with functions queued for them, `sync<T>` for the main thread
  before there is one, and co_sync coroutines that await their own kind. They
  fail or block in every schedule that reaches them, so that there is nothing to
  explore; PROJECT.json lists each as a hazard with what excludes it.
- Build files, the tests and documentation as programs, and the standard
  library's own latch and jthread, which replace c9y's where they exist.
