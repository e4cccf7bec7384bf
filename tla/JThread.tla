------------------------------ MODULE JThread -------------------------------
(***************************************************************************)
(* jthread (src/c9y/jthread.h, jthread.cpp) and the thread_pool made of     *)
(* them (src/c9y/thread_pool.h, thread_pool.cpp), over the stop states of   *)
(* module StopState.                                                        *)
(*                                                                          *)
(* A handle is a jthread object: a stop source and a thread.  The owner     *)
(* constructs, moves, joins and destroys handles; it and the other threads  *)
(* request stops and use callbacks, at any time, through copies of sources  *)
(* and tokens.  The functions of the launched threads poll their token and  *)
(* return when it says stop.  The handles in Pool are a pool's vector; the  *)
(* others are loose.                                                        *)
(***************************************************************************)
EXTENDS StopState

CONSTANTS
  Owner,     \* the thread that owns the handles
  Workers,   \* bound: the threads that are ever launched
  StateOf,   \* per worker: the stop state made when it is launched
  Handles,   \* bound: the jthread objects
  Pool,      \* the handles in thread_pool::threads, a sequence
  LooseWorkers,  \* bound: the workers that are launched in loose handles
  Tokens     \* per callback: the tokens it may be constructed with

ASSUME OwnerAssumption ==
  Owner \in Threads /\ Workers \cap (Threads \cup {Nobody}) = {}
ASSUME StateOfAssumption ==
  StateOf \in [Workers -> States] /\ IsInjective(StateOf)
ASSUME PoolAssumption == Pool \in Seq(Handles) /\ IsInjective(Pool)
ASSUME LooseAssumption == LooseWorkers \subseteq Workers
ASSUME TokensAssumption == Tokens \in [Callbacks -> SUBSET (States \cup {NoState})]

Loose == Handles \ Range(Pool)

VARIABLES
  source,    \* per handle: its stop source
  impl,      \* per handle: its thread, or Nobody
  object,    \* per handle: "none", "alive" or "destroyed"
  running,   \* per worker: "none", "running" or "ended"
  detached   \* history: the workers that were detached

handleVars == <<source, impl, object, running, detached>>
vars == <<stateVars, handleVars>>

HandleFrames ==
  [op : {"join", "destroy"}, handle : Handles, callback : {NoCallback},
   at : {"join", "destroy"}]
PoolFrames ==
  [op : {"pool_request_stop", "pool_join", "pool_destroy"},
   callback : {NoCallback}, at : {"loop"}, n : 1..Len(Pool) + 1]

\* Each stop is won by one request at most, each callback called at most once.
TypeOK ==
  /\ mutex \in [States -> Threads \cup {Nobody}]
  /\ stopping \in [States -> BOOLEAN]
  /\ callbacks \in [States -> Seq(Callbacks)]
  /\ frames \in [Threads -> Seq(StateFrames \cup HandleFrames \cup PoolFrames)]
  /\ token \in [Callbacks -> States \cup {NoState}]
  /\ life \in [Callbacks -> {"none", "constructing", "alive", "destroying", "destroyed"}]
  /\ calls \in [Callbacks -> 0..1] /\ wins \in [States -> 0..1]
  /\ source \in [Handles -> States \cup {NoState}]
  /\ impl \in [Handles -> Workers \cup {Nobody}]
  /\ object \in [Handles -> {"none", "alive", "destroyed"}]
  /\ running \in [Workers -> {"none", "running", "ended"}]
  /\ detached \subseteq Workers

Init ==
  /\ StateInit
  /\ source = [h \in Handles |-> NoState]
  /\ impl = [h \in Handles |-> Nobody]
  /\ object = [h \in Handles |-> "none"]
  /\ running = [w \in Workers |-> "none"]
  /\ detached = {}

Idle(t) == frames[t] = <<>>
Alive(h) == object[h] = "alive"
Joinable(h) == impl[h] # Nobody
\* The states there are: a source makes its own.
Made == {StateOf[w] : w \in {v \in Workers : running[v] # "none"}}

-----------------------------------------------------------------------------
(* jthread, by its owner.                                                   *)

\* A thread starts in h, with a token of the state that is made for it.
StartIn(h, w) == Idle(Owner) /\ object[h] = "none" /\ running[w] = "none"

\* Bound: a behaviour has the pool, or it has loose handles.
NoneOf(S) == \A h \in S : object[h] = "none"

\* jthread(f)
Launch(h, w) ==
  /\ StartIn(h, w) /\ h \in Loose /\ NoneOf(Range(Pool))
  /\ object' = [object EXCEPT ![h] = "alive"]
  /\ source' = [source EXCEPT ![h] = StateOf[w]]
  /\ impl' = [impl EXCEPT ![h] = w]
  /\ running' = [running EXCEPT ![w] = "running"]
  /\ UNCHANGED <<stateVars, detached>>

\* jthread(): no state and no thread.
LaunchNothing(h) ==
  /\ Idle(Owner) /\ object[h] = "none" /\ h \in Loose /\ NoneOf(Range(Pool))
  /\ object' = [object EXCEPT ![h] = "alive"]
  /\ UNCHANGED <<stateVars, source, impl, running, detached>>

\* g = std::move(h): member by member; a joinable g would end the process.
Move(g, h) ==
  /\ Idle(Owner) /\ {g, h} \subseteq Loose /\ g # h
  /\ Alive(g) /\ Alive(h) /\ ~Joinable(g)
  /\ source' = [source EXCEPT ![g] = source[h], ![h] = NoState]
  /\ impl' = [impl EXCEPT ![g] = impl[h], ![h] = Nobody]
  /\ UNCHANGED <<stateVars, object, running, detached>>

\* Mutant: the sources stay.
SwapThreads(g, h) ==
  /\ Idle(Owner) /\ {g, h} \subseteq Loose /\ Alive(g) /\ Alive(h)
  /\ impl' = [impl EXCEPT ![g] = impl[h], ![h] = impl[g]]
  /\ UNCHANGED <<stateVars, source, object, running, detached>>

Swap(g, h) ==
  /\ Idle(Owner) /\ {g, h} \subseteq Loose /\ Alive(g) /\ Alive(h)
  /\ source' = [source EXCEPT ![g] = source[h], ![h] = source[g]]
  /\ impl' = [impl EXCEPT ![g] = impl[h], ![h] = impl[g]]
  /\ UNCHANGED <<stateVars, object, running, detached>>

Detach(h) ==
  /\ Idle(Owner) /\ h \in Loose /\ Alive(h) /\ Joinable(h)
  /\ impl' = [impl EXCEPT ![h] = Nobody]
  /\ detached' = detached \cup {impl[h]}
  /\ UNCHANGED <<stateVars, source, object, running>>

HandleFrame(op, h, at) == [op |-> op, handle |-> h, callback |-> NoCallback, at |-> at]
StateUnchangedBut == <<mutex, stopping, callbacks, token, life, calls, wins>>

Join(h) ==
  /\ Idle(Owner) /\ h \in Loose /\ Alive(h) /\ Joinable(h)
  /\ Push(Owner, HandleFrame("join", h, "join"))
  /\ UNCHANGED <<StateUnchangedBut, handleVars>>

\* impl.join() returns.
JoinReturn ==
  /\ frames[Owner] # <<>> /\ Top(Owner).at = "join"
  /\ LET h == Top(Owner).handle
     IN /\ running[impl[h]] = "ended"
        /\ impl' = [impl EXCEPT ![h] = Nobody]
  /\ IF Top(Owner).op = "join" THEN Pop(Owner) ELSE GoTo(Owner, "destroy")
  /\ UNCHANGED <<StateUnchangedBut, source, object, running, detached>>

\* Mutant: ~jthread() only joins.
DestroyFramesNoStop(h) ==
  << HandleFrame("destroy", h, IF Joinable(h) THEN "join" ELSE "destroy") >>

\* What ~jthread() does, the first step on top: if it is joinable it requests
\* a stop and joins.
DestroyFrames(h) ==
  IF Joinable(h)
  THEN << HandleFrame("destroy", h, "join"), RequestStopFrame(source[h]) >>
  ELSE << HandleFrame("destroy", h, "destroy") >>

DestroyHandle(h) ==
  /\ Idle(Owner) /\ h \in Loose /\ Alive(h)
  /\ frames' = [frames EXCEPT ![Owner] = DestroyFrames(h)]
  /\ UNCHANGED <<StateUnchangedBut, handleVars>>

\* The members are gone.
DestroyReturn ==
  /\ In(Owner, "destroy", "destroy")
  /\ object' = [object EXCEPT ![Top(Owner).handle] = "destroyed"]
  /\ source' = [source EXCEPT ![Top(Owner).handle] = NoState]
  /\ Pop(Owner)
  /\ UNCHANGED <<StateUnchangedBut, impl, running, detached>>

\* while (!token.stop_requested()) ...; return;
WorkerEnds(w) ==
  /\ running[w] = "running"
  /\ mutex[StateOf[w]] = Nobody /\ stopping[StateOf[w]]
  /\ running' = [running EXCEPT ![w] = "ended"]
  /\ UNCHANGED <<stateVars, source, impl, object, detached>>

-----------------------------------------------------------------------------
(* thread_pool.                                                             *)

\* thread_pool(f, n): nobody can use the pool before all of it is there.
PoolConstruct ==
  /\ Pool # <<>> /\ NoneOf(Loose)
  /\ \E start \in [Range(Pool) -> Workers] :
       /\ IsInjective(start)
       /\ \A h \in Range(Pool) : StartIn(h, start[h])
       /\ object' = [h \in Handles |-> IF h \in Range(Pool) THEN "alive" ELSE object[h]]
       /\ source' = [h \in Handles |-> IF h \in Range(Pool) THEN StateOf[start[h]] ELSE source[h]]
       /\ impl' = [h \in Handles |-> IF h \in Range(Pool) THEN start[h] ELSE impl[h]]
       /\ running' = [w \in Workers |-> IF w \in Range(start) THEN "running" ELSE running[w]]
  /\ UNCHANGED <<stateVars, detached>>

PoolFrame(op) == [op |-> op, callback |-> NoCallback, at |-> "loop", n |-> 1]
PoolAlive == \A i \in DOMAIN Pool : Alive(Pool[i])

PoolRequestStop(t) ==
  /\ Idle(t) /\ PoolAlive
  /\ \A f \in Range(frames[Owner]) : f.op # "pool_destroy"
  /\ frames' = [frames EXCEPT ![t] = <<PoolFrame("pool_request_stop")>>]
  /\ UNCHANGED <<StateUnchangedBut, handleVars>>

PoolJoin ==
  /\ Idle(Owner) /\ PoolAlive
  /\ frames' = [frames EXCEPT ![Owner] = <<PoolFrame("pool_join")>>]
  /\ UNCHANGED <<StateUnchangedBut, handleVars>>

\* No other thread is in a call of the pool when it is destroyed.
PoolDestroy ==
  /\ Idle(Owner) /\ PoolAlive
  /\ \A t \in Threads : \A f \in Range(frames[t]) : f.op # "pool_request_stop"
  /\ frames' = [frames EXCEPT ![Owner] = <<PoolFrame("pool_destroy")>>]
  /\ UNCHANGED <<StateUnchangedBut, handleVars>>

\* Mutant: off by one.
PoolLoopOverEarly(t) == Top(t).n >= Len(Pool)

PoolLoopOver(t) == Top(t).n > Len(Pool)

PoolOps == {"pool_request_stop", "pool_join", "pool_destroy"}
InPoolLoop(t) == frames[t] # <<>> /\ Top(t).op \in PoolOps

\* What the loop calls for a handle.
PoolCalls(op, h) ==
  CASE op = "pool_request_stop" -> << RequestStopFrame(source[h]) >>
    [] op = "pool_join" -> IF Joinable(h) THEN << HandleFrame("join", h, "join") >> ELSE <<>>
    [] op = "pool_destroy" -> DestroyFrames(h)

PoolNext(t) ==
  /\ InPoolLoop(t) /\ ~PoolLoopOver(t)
  /\ frames' = [frames EXCEPT ![t] =
       Append(Front(@), [Top(t) EXCEPT !.n = Top(t).n + 1])
         \o PoolCalls(Top(t).op, Pool[Top(t).n])]
  /\ UNCHANGED <<StateUnchangedBut, handleVars>>

PoolReturn(t) ==
  /\ InPoolLoop(t) /\ PoolLoopOver(t)
  /\ Pop(t)
  /\ UNCHANGED <<StateUnchangedBut, handleVars>>

-----------------------------------------------------------------------------
(* What any thread does with copies of sources and tokens.                  *)

RequestStop(t) ==
  /\ Idle(t)
  /\ \E s \in Made \cup {NoState} : Push(t, RequestStopFrame(s))
  /\ UNCHANGED <<StateUnchangedBut, handleVars>>

\* get_stop_token() of a handle without a thread is an empty token.
UseCallback(t) ==
  /\ Idle(t)
  /\ \E c \in Callbacks :
       \/ \E s \in (Made \cup {NoState}) \cap Tokens[c] : Construct(t, c, s)
       \/ Destroy(t, c)
  /\ UNCHANGED handleVars

-----------------------------------------------------------------------------
OwnerCall ==
  \/ \E h \in Handles, w \in LooseWorkers : Launch(h, w)
  \/ \E h \in Handles : LaunchNothing(h) \/ Detach(h) \/ Join(h) \/ DestroyHandle(h)
  \/ \E g, h \in Handles : Move(g, h) \/ Swap(g, h)
  \/ PoolConstruct \/ PoolJoin \/ PoolDestroy

Call(t) == PoolRequestStop(t) \/ RequestStop(t) \/ UseCallback(t)

Step(t) ==
  \/ StateStep(t) /\ UNCHANGED handleVars
  \/ PoolNext(t)
  \/ PoolReturn(t)

HandleStep == JoinReturn \/ DestroyReturn

Next ==
  \/ OwnerCall
  \/ HandleStep
  \/ \E t \in Threads : Call(t) \/ Step(t)
  \/ \E w \in Workers : WorkerEnds(w)

\* Threads inside a call keep running, users' functions return, and the
\* launched threads poll their tokens again and again.
Fairness ==
  /\ WF_vars(HandleStep)
  /\ \A t \in Threads : WF_vars(Step(t))
  /\ \A w \in Workers : WF_vars(WorkerEnds(w))

Safety == Init /\ [][Next]_vars
Spec == Safety /\ Fairness

-----------------------------------------------------------------------------
(* Properties.                                                              *)

\* A thread that runs and was not detached is in exactly one jthread, which
\* holds the state of the thread's own token, wherever both were moved and
\* swapped to: no thread outlives its jthread, and whoever destroys that
\* jthread stops that thread.
HandleStopsItsThread ==
  \A w \in Workers : running[w] = "running" /\ w \notin detached =>
    /\ \E h \in Handles : Alive(h) /\ impl[h] = w /\ source[h] = StateOf[w]
    /\ \A g, h \in Handles : impl[g] = w /\ impl[h] = w => g = h

\* "Request the thread pool to stop": when request_stop() of a pool returns
\* every thread of it has been told to stop, also when another thread is
\* stopping the same pool, or one of its threads, at the same time.
PoolStopReachesAll ==
  [][\A t \in Threads :
       InPoolLoop(t) /\ Top(t).op = "pool_request_stop" /\ Idle(t)' =>
         \A h \in Range(Pool) : stopping[source[h]]]_vars

\* What a "drop in replacement" would do whatever the callbacks are: every
\* request_stop, every constructor and destructor of a callback, a jthread and a
\* pool returns.  (join alone waits for somebody to request a stop.)
CallsAlwaysReturn ==
  \A t \in Threads :
    frames[t] # <<>> /\ frames[t][1].op \notin {"join", "pool_join"} ~> Idle(t)

\* What the callbacks that s may have stop, with the mutex of s held.
StoppedUnder(s) == {Target[c] : c \in {d \in Callbacks : s \in Tokens[d]}}

\* The mutexes of the states can be put in an order in which all callbacks take
\* them: none stops the state that calls it, and no callbacks do so in a circle.
LocksOrdered ==
  \A S \in SUBSET States : S # {} => \E s \in S : StoppedUnder(s) \cap S = {}

\* All these calls return, whatever the other threads request at the same time,
\* if no callback stops, by itself or through others, the state that calls it.
\* One that does locks a mutex that is held for it.
CallsReturn == LocksOrdered => CallsAlwaysReturn

=============================================================================
