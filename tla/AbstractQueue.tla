---------------------------- MODULE AbstractQueue ----------------------------
(***************************************************************************)
(* What c9y::queue promises its callers, with no mutex, no condition        *)
(* variable and no notification: a FIFO of values that can be closed.  A    *)
(* call that finds nothing to take waits, and how it may end is the whole   *)
(* contract:                                                                *)
(*   - it receives the oldest value, or                                     *)
(*   - it receives nothing, and then only because the FIFO is empty and     *)
(*     either the queue is closed or the call was allowed to give up.       *)
(***************************************************************************)
EXTENDS Naturals, Sequences

CONSTANTS
  Threads,     \* the threads that call the queue
  Values,      \* the values that can be pushed
  Nullopt,     \* the empty std::optional
  MaxLength    \* bound: longest FIFO explored

VARIABLES
  items,       \* the FIFO, oldest value first
  closed,      \* stop() has been called
  call,        \* per thread: "none", or the waiting call it is blocked in
  result       \* per thread: what its last finished pop returned

vars == <<items, closed, call, result>>

CallKinds == {"none", "pop_wait", "pop_wait_for"}

Init ==
  /\ items \in UNION {[1..n -> Values] : n \in 0..MaxLength}
  /\ closed = FALSE
  /\ call = [t \in Threads |-> "none"]
  /\ result = [t \in Threads |-> Nullopt]

Insert(t, v) ==
  /\ call[t] = "none"
  /\ Len(items) < MaxLength
  /\ items' = Append(items, v)
  /\ UNCHANGED <<closed, call, result>>

Close(t) ==
  /\ call[t] = "none"
  /\ closed' = TRUE
  /\ UNCHANGED <<items, call, result>>

\* A call that would have to wait blocks only when there is nothing to take.
Block(t, c) ==
  /\ call[t] = "none"
  /\ items = <<>>
  /\ ~closed
  /\ call' = [call EXCEPT ![t] = c]
  /\ UNCHANGED <<items, closed, result>>

\* A caller, blocked or not, takes the oldest value.
Deliver(t) ==
  /\ items # <<>>
  /\ items' = Tail(items)
  /\ result' = [result EXCEPT ![t] = Head(items)]
  /\ call' = [call EXCEPT ![t] = "none"]
  /\ UNCHANGED closed

\* A caller that never blocks, or may stop blocking, finds nothing.
GiveUp(t) ==
  /\ items = <<>>
  /\ call[t] = "pop_wait" => closed
  /\ result' = [result EXCEPT ![t] = Nullopt]
  /\ call' = [call EXCEPT ![t] = "none"]
  /\ UNCHANGED <<items, closed>>

\* Only a blocked caller is owed anything.
ServeBlocked == \E t \in Threads : call[t] # "none" /\ Deliver(t)
ReleaseBlocked(t) == call[t] # "none" /\ GiveUp(t)

Next ==
  \E t \in Threads :
    \/ \E v \in Values : Insert(t, v)
    \/ Close(t)
    \/ \E c \in CallKinds \ {"none"} : Block(t, c)
    \/ Deliver(t)
    \/ GiveUp(t)

(***************************************************************************)
(* While values are available some blocked caller is served (which one is   *)
(* not promised), and a caller that is entitled to give up does not stay    *)
(* blocked.                                                                 *)
(***************************************************************************)
Fairness ==
  /\ WF_vars(ServeBlocked)
  /\ \A t \in Threads : WF_vars(ReleaseBlocked(t))

Safety == Init /\ [][Next]_vars
Spec == Safety /\ Fairness

=============================================================================
