---------------------------- MODULE AbstractPool ----------------------------
(***************************************************************************)
(* What c9y::task_pool promises its callers, with no queue that blocks, no  *)
(* counter and no condition variable:                                       *)
(*   - a task that is enqueued is run once, by one worker, and tasks start  *)
(*     in the order in which they were enqueued;                            *)
(*   - a task may enqueue tasks for as long as it runs, even when the pool  *)
(*     is being destroyed;                                                  *)
(*   - flush() returns only when nothing is queued and nothing runs, and so *)
(*     does the destructor.                                                 *)
(***************************************************************************)
EXTENDS Naturals, Sequences

CONSTANTS
  Workers,   \* the threads of the pool
  Clients,   \* the other threads that call it
  Tasks,     \* the tasks that can be enqueued, each of them once
  Nullopt    \* no task

VARIABLES
  enqueued,  \* the tasks that were ever enqueued
  queued,    \* those that have not started, oldest first
  task,      \* per worker: what it runs, or Nullopt
  flushing,  \* the clients in flush()
  phase      \* "open", "closing" while the destructor runs, "destroyed"

vars == <<enqueued, queued, task, flushing, phase>>

Init ==
  /\ enqueued = {} /\ queued = <<>>
  /\ task = [w \in Workers |-> Nullopt]
  /\ flushing = {} /\ phase = "open"

Idle == queued = <<>> /\ \A w \in Workers : task[w] = Nullopt

Enqueue(t, k) ==
  /\ \/ t \in Clients \ flushing /\ phase = "open"
     \/ t \in Workers /\ task[t] # Nullopt
  /\ k \notin enqueued
  /\ enqueued' = enqueued \cup {k}
  /\ queued' = Append(queued, k)
  /\ UNCHANGED <<task, flushing, phase>>

Start(w) ==
  /\ task[w] = Nullopt
  /\ queued # <<>>
  /\ task' = [task EXCEPT ![w] = Head(queued)]
  /\ queued' = Tail(queued)
  /\ UNCHANGED <<enqueued, flushing, phase>>

Finish(w) ==
  /\ task[w] # Nullopt
  /\ task' = [task EXCEPT ![w] = Nullopt]
  /\ UNCHANGED <<enqueued, queued, flushing, phase>>

FlushCall(c) ==
  /\ phase = "open" /\ c \notin flushing
  /\ flushing' = flushing \cup {c}
  /\ UNCHANGED <<enqueued, queued, task, phase>>

FlushReturn(c) ==
  /\ c \in flushing /\ Idle
  /\ flushing' = flushing \ {c}
  /\ UNCHANGED <<enqueued, queued, task, phase>>

\* The destructor is called, by the pool's owner and with nobody in flush().
Close ==
  /\ phase = "open" /\ flushing = {}
  /\ phase' = "closing"
  /\ UNCHANGED <<enqueued, queued, task, flushing>>

Destroy ==
  /\ phase = "closing" /\ Idle
  /\ phase' = "destroyed"
  /\ UNCHANGED <<enqueued, queued, task, flushing>>

Next ==
  \/ \E t \in Workers \cup Clients, k \in Tasks : Enqueue(t, k)
  \/ \E w \in Workers : Start(w) \/ Finish(w)
  \/ \E c \in Clients : FlushCall(c) \/ FlushReturn(c)
  \/ Close \/ Destroy

Safety == Init /\ [][Next]_vars

\* A task is in one place: not enqueued, queued once, at one worker, or done.
OnePlace ==
  /\ \A m, n \in DOMAIN queued : queued[m] = queued[n] => m = n
  /\ \A v, w \in Workers : task[v] # Nullopt /\ task[v] = task[w] => v = w
  /\ \A w \in Workers, n \in DOMAIN queued : queued[n] # task[w]
  /\ \A n \in DOMAIN queued : queued[n] \in enqueued
  /\ \A w \in Workers : task[w] # Nullopt => task[w] \in enqueued

=============================================================================
