----------------------------- MODULE StopState ------------------------------
(***************************************************************************)
(* stop_state and stop_callback (src/c9y/jthread.h, jthread.cpp), as built  *)
(* where the standard library has no std::jthread.                          *)
(*                                                                          *)
(* request_stop() and the constructor of a callback run users' functions    *)
(* with the mutex of the state held, and such a function may itself request *)
(* a stop, so that every thread has a stack of frames.  Sources and tokens  *)
(* share the state, which lives as long as any of them: they are the state  *)
(* here, and one that is empty is NoState.                                  *)
(*                                                                          *)
(* This module has the steps; JThread says who takes them.                  *)
(***************************************************************************)
EXTENDS Integers, Sequences, FiniteSets, SequencesExt

CONSTANTS
  Threads,     \* the threads
  Nobody,      \* the owner of a free mutex
  States,      \* bound: the stop states that are ever made
  NoState,     \* an empty shared_ptr
  Callbacks,   \* bound: the stop_callbacks, each constructed at most once
  NoCallback,  \* no stop_callback
  Target       \* per callback: the state its function requests to stop, or NoState

ASSUME NamesAssumption ==
  Nobody \notin Threads /\ NoState \notin States /\ NoCallback \notin Callbacks
ASSUME CallbacksAssumption == IsFiniteSet(Callbacks)
ASSUME TargetAssumption == Target \in [Callbacks -> States \cup {NoState}]

VARIABLES
  mutex,      \* per state: the holder of its mutex
  stopping,   \* per state: the flag
  callbacks,  \* per state: the callbacks registered there
  frames,     \* per thread: its stack; the last frame runs
  token,      \* per callback: the state it was constructed with
  life,       \* per callback: its lifetime
  calls,      \* history, per callback: how often its function was called
  wins        \* history, per state: the request_stops that returned true

stateVars == <<mutex, stopping, callbacks, frames, token, life, calls, wins>>

\* A frame: the operation, what it is about, and where in it the thread is.
Frame(op, s, c, at) == [op |-> op, state |-> s, callback |-> c, at |-> at, n |-> 1]
StateFrames ==
  [op : {"request_stop", "add_callback", "remove_callback", "callback"},
   state : States \cup {NoState}, callback : Callbacks \cup {NoCallback},
   at : {"lock", "loop", "call", "return"}, n : 1..Cardinality(Callbacks) + 1]

StateInit ==
  /\ mutex = [s \in States |-> Nobody]
  /\ stopping = [s \in States |-> FALSE]
  /\ callbacks = [s \in States |-> <<>>]
  /\ frames = [t \in Threads |-> <<>>]
  /\ token = [c \in Callbacks |-> NoState]
  /\ life = [c \in Callbacks |-> "none"]
  /\ calls = [c \in Callbacks |-> 0]
  /\ wins = [s \in States |-> 0]

Top(t) == Last(frames[t])
In(t, op, at) == frames[t] # <<>> /\ Top(t).op = op /\ Top(t).at = at

Push(t, frame) == frames' = [frames EXCEPT ![t] = Append(@, frame)]
Pop(t)         == frames' = [frames EXCEPT ![t] = Front(@)]
\* The frame on top goes on to at.
GoTo(t, at)    == frames' = [frames EXCEPT ![t][Len(frames[t])].at = at]
\* The frame on top goes on to at and calls the next.
GoToAndPush(t, at, frame) ==
  frames' = [frames EXCEPT ![t] =
    Append(Front(@), [Top(t) EXCEPT !.at = at, !.n = Top(t).n + 1]) \o <<frame>>]

Acquire(t, s) == mutex[s] = Nobody /\ mutex' = [mutex EXCEPT ![s] = t]
Release(s) == mutex' = [s2 \in States |-> IF s2 = s THEN Nobody ELSE mutex[s2]]

-----------------------------------------------------------------------------
(* stop_source::request_stop, stop_state::request_stop.                     *)

RequestStopFrame(s) == Frame("request_stop", s, NoCallback, "lock")

\* Mutant: the flag is not looked at.
RequestStopAlways(t) ==
  /\ In(t, "request_stop", "lock")
  /\ Top(t).state # NoState
  /\ Acquire(t, Top(t).state)
  /\ stopping' = [stopping EXCEPT ![Top(t).state] = TRUE]
  /\ GoTo(t, "loop")
  /\ UNCHANGED <<callbacks, token, life, calls, wins>>

\* The state is there and nobody has stopped it yet.
RequestStopFirst(t) ==
  /\ In(t, "request_stop", "lock")
  /\ Top(t).state # NoState /\ ~stopping[Top(t).state]
  /\ Acquire(t, Top(t).state)
  /\ stopping' = [stopping EXCEPT ![Top(t).state] = TRUE]
  /\ GoTo(t, "loop")
  /\ UNCHANGED <<callbacks, token, life, calls, wins>>

\* There is no state, or it is stopped; false.
RequestStopFails(t) ==
  /\ In(t, "request_stop", "lock")
  /\ LET s == Top(t).state IN s # NoState => mutex[s] = Nobody /\ stopping[s]
  /\ Pop(t)
  /\ UNCHANGED <<mutex, stopping, callbacks, token, life, calls, wins>>

CallFunction(t, c, at) ==
  /\ calls' = [calls EXCEPT ![c] = @ + 1]
  /\ GoToAndPush(t, at, Frame("callback", NoState, c, "call"))

\* cb->callback() for the next of callbacks.
RequestStopNext(t) ==
  /\ In(t, "request_stop", "loop")
  /\ Top(t).n <= Len(callbacks[Top(t).state])
  /\ CallFunction(t, callbacks[Top(t).state][Top(t).n], "loop")
  /\ UNCHANGED <<mutex, stopping, callbacks, token, life, wins>>

\* callbacks.clear(); true.
RequestStopEnd(t) ==
  /\ In(t, "request_stop", "loop")
  /\ LET s == Top(t).state
     IN /\ Top(t).n > Len(callbacks[s])
        /\ callbacks' = [callbacks EXCEPT ![s] = <<>>]
        /\ Release(s)
        /\ wins' = [wins EXCEPT ![s] = @ + 1]
  /\ Pop(t)
  /\ UNCHANGED <<stopping, token, life, calls>>

-----------------------------------------------------------------------------
(* The constructor of stop_callback: self_register, add_callback.           *)

Construct(t, c, s) ==
  /\ life[c] = "none"
  /\ life' = [life EXCEPT ![c] = "constructing"]
  /\ token' = [token EXCEPT ![c] = s]
  /\ Push(t, Frame("add_callback", s, c, IF s = NoState THEN "call" ELSE "lock"))
  /\ UNCHANGED <<mutex, stopping, callbacks, calls, wins>>

\* Mutant: it is registered whether or not the state is stopped.
AddCallbackAlways(t) ==
  /\ In(t, "add_callback", "lock")
  /\ mutex[Top(t).state] = Nobody
  /\ callbacks' = [callbacks EXCEPT ![Top(t).state] = Append(@, Top(t).callback)]
  /\ life' = [life EXCEPT ![Top(t).callback] = "alive"]
  /\ Pop(t)
  /\ UNCHANGED <<mutex, stopping, token, calls, wins>>

AddCallback(t) ==
  /\ In(t, "add_callback", "lock")
  /\ mutex[Top(t).state] = Nobody /\ ~stopping[Top(t).state]
  /\ callbacks' = [callbacks EXCEPT ![Top(t).state] = Append(@, Top(t).callback)]
  /\ life' = [life EXCEPT ![Top(t).callback] = "alive"]
  /\ Pop(t)
  /\ UNCHANGED <<mutex, stopping, token, calls, wins>>

AddCallbackStopped(t) ==
  /\ In(t, "add_callback", "lock")
  /\ stopping[Top(t).state]
  /\ Acquire(t, Top(t).state)
  /\ GoTo(t, "call")
  /\ UNCHANGED <<stopping, callbacks, token, life, calls, wins>>

\* callback(), under the mutex if there is a state.
AddCallbackCall(t) ==
  /\ In(t, "add_callback", "call")
  /\ CallFunction(t, Top(t).callback, "return")
  /\ UNCHANGED <<mutex, stopping, callbacks, token, life, wins>>

AddCallbackReturn(t) ==
  /\ In(t, "add_callback", "return")
  /\ Release(Top(t).state)
  /\ life' = [life EXCEPT ![Top(t).callback] = "alive"]
  /\ Pop(t)
  /\ UNCHANGED <<stopping, callbacks, token, calls, wins>>

-----------------------------------------------------------------------------
(* The destructor of stop_callback: remove_callback.                        *)

Destroy(t, c) ==
  /\ life[c] = "alive"
  /\ life' = [life EXCEPT ![c] = "destroying"]
  /\ Push(t, Frame("remove_callback", token[c], c, "lock"))
  /\ UNCHANGED <<mutex, stopping, callbacks, token, calls, wins>>

\* Mutant: it does not wait for the mutex.
RemoveCallbackUnlocked(t) ==
  /\ In(t, "remove_callback", "lock")
  /\ callbacks' = [s \in States |-> IF mutex[s] = Nobody
                                    THEN RemoveFirst(callbacks[s], Top(t).callback)
                                    ELSE callbacks[s]]
  /\ life' = [life EXCEPT ![Top(t).callback] = "destroyed"]
  /\ Pop(t)
  /\ UNCHANGED <<mutex, stopping, token, calls, wins>>

RemoveCallback(t) ==
  /\ In(t, "remove_callback", "lock")
  /\ LET s == Top(t).state
     IN IF s = NoState
        THEN UNCHANGED callbacks
        ELSE /\ mutex[s] = Nobody
             /\ callbacks' = [callbacks EXCEPT ![s] = RemoveFirst(@, Top(t).callback)]
  /\ life' = [life EXCEPT ![Top(t).callback] = "destroyed"]
  /\ Pop(t)
  /\ UNCHANGED <<mutex, stopping, token, calls, wins>>

-----------------------------------------------------------------------------
(* The function of a callback.                                              *)

CallbackRequestsStop(t) ==
  /\ In(t, "callback", "call")
  /\ Target[Top(t).callback] # NoState
  /\ GoToAndPush(t, "return", RequestStopFrame(Target[Top(t).callback]))
  /\ UNCHANGED <<mutex, stopping, callbacks, token, life, calls, wins>>

CallbackReturn(t) ==
  /\ \/ In(t, "callback", "call") /\ Target[Top(t).callback] = NoState
     \/ In(t, "callback", "return")
  /\ Pop(t)
  /\ UNCHANGED <<mutex, stopping, callbacks, token, life, calls, wins>>

StateStep(t) ==
  \/ RequestStopFirst(t) \/ RequestStopFails(t)
  \/ RequestStopNext(t) \/ RequestStopEnd(t)
  \/ AddCallback(t) \/ AddCallbackStopped(t)
  \/ AddCallbackCall(t) \/ AddCallbackReturn(t)
  \/ RemoveCallback(t)
  \/ CallbackRequestsStop(t) \/ CallbackReturn(t)

-----------------------------------------------------------------------------
(* Properties.                                                              *)

\* While nobody holds the mutex of a state, each callback that is alive there
\* has been called exactly once if the state is stopped, and not at all if it
\* is not, however its registration raced the request; and of the requests
\* exactly one was told that it was the one.
StopReachesCallbacks ==
  \A s \in States : mutex[s] = Nobody =>
    /\ wins[s] = (IF stopping[s] THEN 1 ELSE 0)
    /\ \A c \in Callbacks : life[c] = "alive" /\ token[c] = s =>
         calls[c] = (IF stopping[s] THEN 1 ELSE 0)

\* When the destructor of a callback has returned its function is neither
\* running nor about to: no thread is in it and no state points to it.
NoCallbackAfterDestructor ==
  \A c \in Callbacks : life[c] = "destroyed" =>
    /\ \A s \in States : c \notin Range(callbacks[s])
    /\ \A t \in Threads : \A f \in Range(frames[t]) : f.callback # c

=============================================================================
