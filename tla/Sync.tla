-------------------------------- MODULE Sync --------------------------------
(***************************************************************************)
(* c9y::sync, delay and sync_point (src/c9y/sync.cpp): a map from thread    *)
(* ids to the functions other threads want run there, behind one mutex, and *)
(* once_tags, atomic flags taken when a function is queued and put back     *)
(* when it has run.                                                         *)
(*                                                                          *)
(* A function may itself call anything of this module, sync_point included, *)
(* so every thread has a stack of frames.  Accesses to the map and to a     *)
(* flag are separate steps; the run of a function is an interval, and its   *)
(* end is the step that puts the flag back.                                 *)
(***************************************************************************)
EXTENDS Integers, Sequences, FiniteSets, SequencesExt

CONSTANTS
  Threads,       \* the threads
  NoThread,      \* the default std::thread::id
  Tags,          \* the once_tags
  SelfTags,      \* those that a thread may also use in a call to itself
  NoTag,         \* a request made without one
  MaxRequests,   \* bound: the requests that are ever made, numbered in order
  MaxDepth       \* bound: the deepest stack of a thread

ASSUME NamesAssumption ==
  NoThread \notin Threads /\ NoTag \notin Tags /\ SelfTags \subseteq Tags
ASSUME BoundsAssumption == MaxRequests \in Nat /\ MaxDepth \in Nat

Requests == 1..MaxRequests

VARIABLES
  tasks,            \* the map: per thread id, the closures queued for it
  active,           \* per tag: its flag
  main_thread_id,   \* an atomic
  frames,           \* per thread: its stack; the last frame runs
  made,             \* history: the number of requests made
  dropped,          \* history: the requests a tag suppressed
  done              \* history: the requests whose function has ended

vars == <<tasks, active, main_thread_id, frames, made, dropped, done>>

\* A queued function: its request, who made it, and the tag it puts back.
Closure == [req : Requests, from : Threads, tag : Tags \cup {NoTag}]

\* A running function is in the loop of sync_point, or "direct" in sync().
PointFrames == [kind : {"sync_point"}, rest : Seq(Closure)]
FuncFrames  == [kind : {"func"}, closure : Closure, direct : BOOLEAN]
PushFrames  == [kind : {"push"}, closure : Closure, target : Threads]

\* Nothing is ever queued for the thread id of no thread.
TypeOK ==
  /\ tasks \in [Threads \cup {NoThread} -> Seq(Closure)]
  /\ tasks[NoThread] = <<>>
  /\ active \in [Tags -> BOOLEAN]
  /\ main_thread_id \in Threads \cup {NoThread}
  /\ frames \in [Threads -> Seq(PointFrames \cup FuncFrames \cup PushFrames)]
  /\ made \in 0..MaxRequests
  /\ dropped \subseteq Requests /\ done \subseteq Requests

Init ==
  /\ tasks = [t \in Threads \cup {NoThread} |-> <<>>]
  /\ active = [g \in Tags |-> FALSE]
  /\ main_thread_id = NoThread
  /\ frames = [t \in Threads |-> <<>>]
  /\ made = 0
  /\ dropped = {} /\ done = {}

Top(t) == Last(frames[t])
IsIn(t, kind) == frames[t] # <<>> /\ Top(t).kind = kind

\* User code runs on t, at its base or in a function, and can make a call.
CanCall(t) ==
  /\ frames[t] = <<>> \/ IsIn(t, "func")
  /\ Len(frames[t]) < MaxDepth

Enter(t, frame) == frames' = [frames EXCEPT ![t] = Append(@, frame)]
Leave(t)        == frames' = [frames EXCEPT ![t] = Front(@)]

\* User code on t asks for its next function to be run.
Ask(t) ==
  /\ CanCall(t)
  /\ made < MaxRequests
  /\ made' = made + 1
NewClosure(t, g) == [req |-> made + 1, from |-> t, tag |-> g]

SetMainThreadId(t) ==
  /\ CanCall(t)
  /\ main_thread_id' = t
  /\ UNCHANGED <<tasks, active, frames, made, dropped, done>>

-----------------------------------------------------------------------------
(* Queueing: _sync.                                                         *)

\* _sync(thread, func), under tasks_mutex.
Queue(target, closure) == tasks' = [tasks EXCEPT ![target] = Append(@, closure)]

\* Mutant: the flag is set when the function is queued, not tested and set.
ExchangeLate(t, g, target) ==
  /\ Ask(t)
  /\ \/ /\ active[g]
        /\ dropped' = dropped \cup {made + 1}
        /\ UNCHANGED <<active, frames>>
     \/ /\ ~active[g]
        /\ Enter(t, [kind |-> "push", closure |-> NewClosure(t, g), target |-> target])
        /\ UNCHANGED <<active, dropped>>
  /\ UNCHANGED <<tasks, main_thread_id, done>>

\* _sync(tag, thread, func): the exchange; whoever finds the flag down queues.
Exchange(t, g, target) ==
  /\ Ask(t)
  /\ \/ /\ active[g]
        /\ dropped' = dropped \cup {made + 1}
        /\ UNCHANGED <<active, frames>>
     \/ /\ ~active[g]
        /\ active' = [active EXCEPT ![g] = TRUE]
        /\ Enter(t, [kind |-> "push", closure |-> NewClosure(t, g), target |-> target])
        /\ UNCHANGED dropped
  /\ UNCHANGED <<tasks, main_thread_id, done>>

\* The other half of _sync(tag, thread, func).
Push(t) ==
  /\ IsIn(t, "push")
  /\ Queue(Top(t).target, Top(t).closure)
  /\ Leave(t)
  /\ UNCHANGED <<active, main_thread_id, made, dropped, done>>

-----------------------------------------------------------------------------
(* delay and sync.                                                          *)

Delay(t) ==
  /\ Ask(t)
  /\ Queue(t, NewClosure(t, NoTag))
  /\ UNCHANGED <<active, main_thread_id, frames, dropped, done>>

DelayOnce(t, g) == Exchange(t, g, t)

\* The function is called on the spot.
Shortcut(t, g) ==
  /\ Ask(t)
  /\ Enter(t, [kind |-> "func", closure |-> NewClosure(t, g), direct |-> TRUE])
  /\ UNCHANGED <<tasks, active, main_thread_id, dropped, done>>

\* sync(thread, func)
SyncTo(t, target) ==
  \/ /\ target # t
     /\ Ask(t)
     /\ Queue(target, NewClosure(t, NoTag))
     /\ UNCHANGED <<active, main_thread_id, frames, dropped, done>>
  \/ target = t /\ Shortcut(t, NoTag)

\* sync(tag, thread, func), in its two cases.
SyncOnceElsewhere(t, g, target) == target # t /\ Exchange(t, g, target)
SyncOnceHere(t, g)              == Shortcut(t, g)

\* Mutant: the assertion is compiled out.
SyncMainNoAssert(t) == SyncTo(t, main_thread_id)

\* sync(func) asserts that there is a main thread.
SyncMain(t) ==
  /\ main_thread_id # NoThread
  /\ SyncTo(t, main_thread_id)

\* sync(tag, func)
SyncMainOnce(t, g) ==
  /\ main_thread_id \notin {NoThread, t}
  /\ SyncOnceElsewhere(t, g, main_thread_id)

SyncMainOnceHere(t, g) == main_thread_id = t /\ SyncOnceHere(t, g)

-----------------------------------------------------------------------------
(* sync_point.                                                              *)

\* get_this_threads_tasks(): the queue is swapped against an empty one.
SyncPoint(t) ==
  /\ CanCall(t)
  /\ Enter(t, [kind |-> "sync_point", rest |-> tasks[t]])
  /\ tasks' = [tasks EXCEPT ![t] = <<>>]
  /\ UNCHANGED <<active, main_thread_id, made, dropped, done>>

\* Mutant: the batch is run from its end.
RunNextFromEnd(t) ==
  /\ IsIn(t, "sync_point")
  /\ Top(t).rest # <<>>
  /\ frames' = [frames EXCEPT ![t] =
       Front(@) \o << [kind |-> "sync_point", rest |-> Front(Top(t).rest)],
                      [kind |-> "func", closure |-> Last(Top(t).rest), direct |-> FALSE] >>]
  /\ UNCHANGED <<tasks, active, main_thread_id, made, dropped, done>>

RunNext(t) ==
  /\ IsIn(t, "sync_point")
  /\ Top(t).rest # <<>>
  /\ frames' = [frames EXCEPT ![t] =
       Front(@) \o << [kind |-> "sync_point", rest |-> Tail(Top(t).rest)],
                      [kind |-> "func", closure |-> Head(Top(t).rest), direct |-> FALSE] >>]
  /\ UNCHANGED <<tasks, active, main_thread_id, made, dropped, done>>

SyncPointReturn(t) ==
  /\ IsIn(t, "sync_point")
  /\ Top(t).rest = <<>>
  /\ Leave(t)
  /\ UNCHANGED <<tasks, active, main_thread_id, made, dropped, done>>

-----------------------------------------------------------------------------
(* The end of a function.                                                   *)

\* tag.active = false, unless there is no tag.
PutBack(g) == active' = [h \in Tags |-> active[h] /\ h # g]

\* The function returns: the closure puts its tag back, and so does the
\* shortcut, although it never took it.
FuncReturn(t) ==
  /\ IsIn(t, "func")
  /\ PutBack(Top(t).closure.tag)
  /\ done' = done \cup {Top(t).closure.req}
  /\ Leave(t)
  /\ UNCHANGED <<tasks, main_thread_id, made, dropped>>

\* Mutant: the try block is around the loop of sync_point.
FuncThrowEndsBatch(t) ==
  /\ IsIn(t, "func")
  /\ PutBack(IF Top(t).direct THEN NoTag ELSE Top(t).closure.tag)
  /\ done' = done \cup {Top(t).closure.req}
  /\ frames' = [frames EXCEPT ![t] =
       IF Top(t).direct THEN Front(@) ELSE Front(Front(@))]
  /\ UNCHANGED <<tasks, main_thread_id, made, dropped>>

\* The function throws: the closure still puts its tag back, the shortcut
\* does not, and the handler that sync or sync_point calls returns.
FuncThrow(t) ==
  /\ IsIn(t, "func")
  /\ PutBack(IF Top(t).direct THEN NoTag ELSE Top(t).closure.tag)
  /\ done' = done \cup {Top(t).closure.req}
  /\ Leave(t)
  /\ UNCHANGED <<tasks, main_thread_id, made, dropped>>

FuncEnd(t) == FuncReturn(t) \/ FuncThrow(t)

-----------------------------------------------------------------------------
\* User code on t uses the module; calls to the own thread that carry a tag
\* are confined to SelfTags.
UserCall(t) ==
  \/ SetMainThreadId(t)
  \/ Delay(t)
  \/ SyncMain(t)
  \/ \E target \in Threads : SyncTo(t, target)
  \/ \E g \in Tags : DelayOnce(t, g) \/ SyncMainOnce(t, g)
  \/ \E g \in Tags, target \in Threads : SyncOnceElsewhere(t, g, target)
  \/ \E g \in SelfTags : SyncOnceHere(t, g) \/ SyncMainOnceHere(t, g)

Progress(t) == Push(t) \/ RunNext(t) \/ SyncPointReturn(t)

Next == \E t \in Threads : UserCall(t) \/ SyncPoint(t) \/ Progress(t) \/ FuncEnd(t)

(***************************************************************************)
(* Every thread calls sync_point regularly, as set_main_thread_id asks of   *)
(* the main thread, the loop of sync_point runs on, and every function ends *)
(* even if it runs a sync_point of its own now and then.                    *)
(***************************************************************************)
Fairness ==
  \A t \in Threads :
    WF_vars(SyncPoint(t)) /\ WF_vars(Progress(t)) /\ SF_vars(FuncEnd(t))

Safety == Init /\ [][Next]_vars
Spec == Safety /\ Fairness

-----------------------------------------------------------------------------
(* Properties.                                                              *)

\* The closures that a frame will run, or runs for a sync_point.
CarriedBy(f) ==
  CASE f.kind = "sync_point" -> f.rest
    [] f.kind = "func" -> IF f.direct THEN <<>> ELSE <<f.closure>>
    [] f.kind = "push" -> <<f.closure>>

\* Those in place d of t: in its queue, which is place 0, or the frame at depth d.
Carried(t, d) == IF d = 0 THEN tasks[t] ELSE CarriedBy(frames[t][d])

\* Where the closures of tag g are that are queued, on their way or running.
Outstanding(g) ==
  LET In(t, d) == {i \in DOMAIN Carried(t, d) : Carried(t, d)[i].tag = g}
      On(t) == UNION {{<<t, d, i>> : i \in In(t, d)} : d \in 0..Len(frames[t])}
  IN UNION {On(t) : t \in Threads}

\* "Tag used to prevent multiple calls to the same feature": a tag is taken
\* only while a function of it is on its way, so that it is never left behind
\* by an exception, which would suppress the feature for good.  For a tag that
\* no thread uses to call itself there is exactly one such function then, and
\* none otherwise.
TagTracksClosure ==
  /\ \A g \in Tags : active[g] => Outstanding(g) # {}
  /\ \A g \in Tags \ SelfTags : Cardinality(Outstanding(g)) = IF active[g] THEN 1 ELSE 0

\* What the sync_points of t below its frame on top have still to run.
OuterBatches(t) ==
  UNION {Range(Carried(t, d)) :
    d \in {e \in 1..(Len(frames[t]) - 1) : frames[t][e].kind = "sync_point"}}

\* What one thread asks of another starts in the order it was asked, unless a
\* function that sync_point runs calls sync_point itself.  When sync_point starts
\* a function, nothing older of the same sender is left in its batch or still
\* queued; a nested sync_point overtakes what the outer ones have still to run,
\* and of the same sender all of that is older.  Without nesting OuterBatches is
\* empty.  A function that sync calls on the spot overtakes everything queued,
\* and is left out.
OrderUnlessNested ==
  [][\A t \in Threads :
       IsIn(t, "sync_point") /\ Len(frames'[t]) > Len(frames[t]) =>
         LET started == Last(frames'[t]).closure
             batch   == frames'[t][Len(frames[t])].rest
         IN /\ \A c \in Range(batch \o tasks'[t]) :
                 c.from = started.from => c.req > started.req
            /\ \A c \in OuterBatches(t) :
                 c.from = started.from => c.req < started.req]_vars

\* No request is lost: each one is run, or was suppressed by its tag, whatever
\* the functions before it throw and however sync_points nest.
EveryRequestRuns == \A r \in Requests : made >= r ~> r \in done \cup dropped

=============================================================================
