--------------------------- MODULE ParallelProofs ---------------------------
(***************************************************************************)
(* What TLAPS proves of Parallel, for any finite sets of workers, clients   *)
(* and jobs, any calls, any nesting of them and any jobs that throw: when a *)
(* call returns its range has run, and the closures that refer to its frame *)
(* are gone before the frame is.                                            *)
(*                                                                          *)
(* The latches of the calls take steps of module Latch only, so that what   *)
(* LatchProofs proves of them is used here and not proved again, and the    *)
(* pool takes steps of AbstractPool, which TaskPool is proved to implement. *)
(*                                                                          *)
(* The second part is about ParallelChunks, the algorithms that cut a range *)
(* in chunks and give them to parallel(): for a range of any length, of any *)
(* values, and chunks of any size, what each of them returns.  What a fold  *)
(* of the results comes to takes an induction on the chunks.  It is done by *)
(* the least counterexample, whose existence is WFMin of the library.       *)
(***************************************************************************)
EXTENDS Parallel, ParallelChunks, FiniteSetTheorems, SequenceTheorems,
        WellFoundedInduction, TLAPS

-----------------------------------------------------------------------------
(* The inductive invariant.                                                 *)

\* The workers that have a job, and the threads inside parallel().
Holding == {w \in Workers : pc[w] \in {"job", "enqueue", "wait", "after"}}
Calling == {t \in Threads : pc[t] \in {"enqueue", "wait"}}

\* The jobs of a call that have not counted its latch down; those that threw
\* never will.
Owed(q) == JobsOf(q) \ (finished \ Throws)

Types ==
  /\ items \in Seq(Jobs)
  /\ popped \in [Threads -> Jobs \cup {Nullopt}]
  /\ pc \in [Threads -> {"idle", "loop", "job", "enqueue", "wait", "after", "count"}]
  /\ current \in [Threads -> Calls \cup {Nobody}]
  /\ left \in [Calls -> SUBSET Jobs]
  /\ finished \subseteq Jobs /\ returned \subseteq Calls

Roles ==
  \A t \in Threads :
    IF t \in Workers THEN pc[t] # "idle" ELSE pc[t] \in {"idle", "enqueue", "wait"}

\* A job is in one place: still in the range, queued, at one worker, finished.
QueuedOnce ==
  /\ \A m, n \in DOMAIN items : items[m] = items[n] => m = n
  /\ \A n \in DOMAIN items : items[n] \notin finished \cup left[CallOf[items[n]]]
HeldOnce ==
  \A w \in Holding :
    /\ popped[w] \in Jobs \ finished
    /\ popped[w] \notin left[CallOf[popped[w]]]
    /\ \A n \in DOMAIN items : items[n] # popped[w]
    /\ \A v \in Holding : popped[v] = popped[w] => v = w
LeftBehind ==
  \A q \in Calls :
    /\ left[q] \subseteq JobsOf(q) \ finished
    /\ life[q] = "none" => left[q] = JobsOf(q)

\* A call belongs to the thread that made it, and to the job that did.
OneCaller ==
  /\ \A t \in Calling : current[t] \in Calls /\ life[current[t]] = "alive"
  /\ \A s, t \in Calling : current[s] = current[t] => s = t
  /\ \A w \in Workers : w \in Calling => current[w] = Nested[popped[w]]

NestedBefore ==
  /\ \A w \in Workers : pc[w] = "after" => Nested[popped[w]] \in returned
  /\ \A j \in finished : Nested[j] # Nobody => Nested[j] \in returned

\* What the latch still expects is what the jobs have still to do.
LatchCountsJobs ==
  \A q \in Calls : life[q] = "alive" => promised[q] = Cardinality(Owed(q))

Complete ==
  \A q \in Calls :
    /\ life[q] = "destroyed" <=> q \in returned
    /\ q \in returned => JobsOf(q) \subseteq finished

IInv ==
  /\ Types /\ Roles
  /\ QueuedOnce /\ HeldOnce /\ LeftBehind
  /\ OneCaller /\ NestedBefore
  /\ LatchCountsJobs /\ Complete

\* Latch with its theorems, for the latches of the calls.
Proved ==
  INSTANCE LatchProofs WITH
    Latches <- Calls, MaxCount <- Cardinality(Jobs), pc <- lpc

-----------------------------------------------------------------------------
(* What the steps of the latch do to what the invariant looks at.           *)

LEMMA JobsAreCounted ==
  /\ Cardinality(Jobs) \in Nat
  /\ \A S \in SUBSET Jobs : IsFiniteSet(S) /\ Cardinality(S) \in 0..Cardinality(Jobs)
<1>1. IsFiniteSet(Jobs) /\ Cardinality(Jobs) \in Nat
  BY FiniteAssumption, FS_CardinalityType
<1>2. ASSUME NEW S \in SUBSET Jobs
      PROVE  IsFiniteSet(S) /\ Cardinality(S) \in Nat /\ Cardinality(S) <= Cardinality(Jobs)
  BY <1>1, <1>2, FS_Subset, FS_CardinalityType
<1> QED BY <1>1, <1>2

LEMMA InitIInv == Init => IInv
<1> SUFFICES ASSUME Init PROVE IInv
  OBVIOUS
<1>1. /\ items = <<>> /\ popped = [t \in Threads |-> Nullopt]
      /\ life = [q \in Calls |-> "none"]
      /\ finished = {} /\ returned = {} /\ left = [q \in Calls |-> JobsOf(q)]
      /\ pc = [t \in Threads |-> IF t \in Workers THEN "loop" ELSE "idle"]
      /\ current = [t \in Threads |-> Nobody]
  BY DEF Init, queue!Init, latch!Init
<1>2. Types
  BY <1>1, EmptySeq DEF Types, JobsOf
<1>3. Roles /\ QueuedOnce /\ HeldOnce /\ LeftBehind
  BY <1>1 DEF Roles, QueuedOnce, HeldOnce, LeftBehind, Holding, Threads
<1>4. OneCaller /\ NestedBefore /\ LatchCountsJobs /\ Complete
  BY <1>1 DEF OneCaller, NestedBefore, LatchCountsJobs, Complete, Calling, Threads
<1> QED BY <1>2, <1>3, <1>4 DEF IInv

\* latch l(distance): none of its jobs is finished, or anywhere but in the range.
LEMMA CallIInv ==
  ASSUME IInv, latch!TypeOK, NEW t \in Threads, NEW q \in Calls, ParallelCall(t, q)
  PROVE  IInv'
<1>1. /\ life[q] = "none" /\ life \in [Calls -> {"none", "alive", "destroyed"}]
      /\ IF t \in Workers THEN pc[t] = "job" /\ Nested[popped[t]] = q ELSE pc[t] = "idle"
      /\ pc' = [pc EXCEPT ![t] = "enqueue"]
      /\ current' = [current EXCEPT ![t] = q]
      /\ life' = [life EXCEPT ![q] = "alive"]
      /\ UNCHANGED <<items, popped, left, finished, returned>>
  BY DEF ParallelCall, latch!Construct, latch!TypeOK, GoTo, queueVars, IInv, Roles
<1>2. Types'
  BY <1>1 DEF IInv, Types
<1>3. Roles'
  BY <1>1 DEF IInv, Types, Roles
<1>4. Holding' = Holding /\ Calling' = Calling \cup {t}
  BY <1>1 DEF IInv, Types, Holding, Calling, Threads
<1>5. QueuedOnce' /\ HeldOnce'
  BY <1>1, <1>4 DEF IInv, QueuedOnce, HeldOnce
<1>6. LeftBehind' /\ Complete'
  BY <1>1 DEF IInv, LeftBehind, Complete, JobsOf
<1>7. OneCaller'
  <2>1. \A s \in Calling : s # t /\ current[s] # q /\ life'[current[s]] = "alive"
    BY <1>1 DEF IInv, OneCaller, Calling
  <2>2. \A s \in Threads \ {t} : current'[s] = current[s]
    BY <1>1 DEF IInv, Types
  <2>3. current'[t] = q /\ life'[q] = "alive"
    BY <1>1 DEF IInv, Types
  <2> QED
    BY <1>1, <1>4, <2>1, <2>2, <2>3 DEF IInv, OneCaller, Calling, Threads
<1>8. NestedBefore'
  BY <1>1 DEF IInv, Types, NestedBefore
<1>9. LatchCountsJobs'
  <2>1. promised' = [promised EXCEPT ![q] = Cardinality(JobsOf(q))]
    BY DEF ParallelCall, latch!Construct
  <2>2. Owed(q)' = JobsOf(q)
    BY <1>1 DEF IInv, LeftBehind, Owed, JobsOf
  <2>3. \A k \in Calls : Owed(k)' = Owed(k)
    BY <1>1 DEF Owed, JobsOf
  <2> QED BY <1>1, <2>1, <2>2, <2>3 DEF IInv, LatchCountsJobs, latch!TypeOK
<1> QED BY <1>2, <1>3, <1>5, <1>6, <1>7, <1>8, <1>9 DEF IInv

\* pool.enqueue: a job of the range is queued.
LEMMA EnqueueIInv ==
  ASSUME IInv, NEW t \in Threads, ParallelEnqueue(t)
  PROVE  IInv'
<1>0. PICK q \in Calls, j \in Jobs :
        /\ j \in left[q] /\ q = current[t] /\ t \in Calling
        /\ items' = Append(items, j)
        /\ left' = [left EXCEPT ![q] = @ \ {j}]
        /\ UNCHANGED <<popped, life, promised, pc, current, finished, returned>>
  BY DEF ParallelEnqueue, queue!Insert, latchVars, IInv, Types, OneCaller, Calling
<1>1. j \in JobsOf(q) \ finished /\ j \in Jobs /\ CallOf[j] = q
  BY <1>0 DEF IInv, LeftBehind, JobsOf
<1>2. /\ items \in Seq(Jobs) /\ items' \in Seq(Jobs)
      /\ Len(items') = Len(items) + 1 /\ items'[Len(items) + 1] = j
      /\ \A n \in 1..Len(items) : items'[n] = items[n]
      /\ DOMAIN items = 1..Len(items) /\ DOMAIN items' = 1..(Len(items) + 1)
  BY <1>0, <1>1, AppendProperties DEF IInv, Types
<1>3. Types'
  BY <1>0, <1>2 DEF IInv, Types
<1>4. Holding' = Holding /\ Calling' = Calling
  BY <1>0 DEF Holding, Calling
<1>5. Roles' /\ OneCaller' /\ NestedBefore' /\ Complete'
  BY <1>0, <1>4 DEF IInv, Roles, OneCaller, NestedBefore, Complete, JobsOf
<1>6. \A k \in Calls : left'[k] \subseteq left[k] /\ j \notin left'[q]
  BY <1>0 DEF IInv, Types
<1>7. \A n \in DOMAIN items : items[n] # j /\ items[n] \in Jobs /\ CallOf[items[n]] \in Calls
  BY <1>0, <1>1, <1>2, ParallelAssumption DEF IInv, QueuedOnce, Types
<1>8. \A n \in DOMAIN items' :
        \/ n \in DOMAIN items /\ items'[n] = items[n]
        \/ n = Len(items) + 1 /\ items'[n] = j
  BY <1>2
<1>9. QueuedOnce'
  BY <1>0, <1>1, <1>6, <1>7, <1>8 DEF IInv, QueuedOnce
<1>10. HeldOnce'
  <2>1. \A w \in Holding : popped[w] # j /\ popped[w] \in Jobs /\ CallOf[popped[w]] \in Calls
    BY <1>0, <1>1, ParallelAssumption DEF IInv, HeldOnce
  <2> QED BY <1>0, <1>4, <1>6, <1>8, <2>1 DEF IInv, HeldOnce
<1>11. LeftBehind'
  <2>1. life[q] = "alive"
    BY <1>0 DEF IInv, OneCaller
  <2> QED BY <1>0, <1>6, <2>1 DEF IInv, Types, LeftBehind, JobsOf
<1>12. LatchCountsJobs'
  BY <1>0 DEF IInv, LatchCountsJobs, Owed, JobsOf
<1> QED BY <1>3, <1>5, <1>9, <1>10, <1>11, <1>12 DEF IInv

\* Steps that move no job, and leave the caller where it is or in its wait.
LEMMA WaitIInv ==
  ASSUME IInv, NEW t \in Threads,
         \/ pc[t] = "enqueue" /\ pc' = [pc EXCEPT ![t] = "wait"]
         \/ pc[t] = "count" /\ pc' = [pc EXCEPT ![t] = "loop"]
         \/ pc' = pc,
         UNCHANGED <<items, popped, current, left, finished, returned, life, promised>>
  PROVE  IInv'
<1>1. Types' /\ Roles'
  BY DEF IInv, Types, Roles
<1>2. Holding' = Holding /\ Calling' = Calling
  BY DEF IInv, Types, Holding, Calling, Threads
<1>3. QueuedOnce' /\ HeldOnce' /\ LeftBehind' /\ OneCaller' /\ Complete' /\ LatchCountsJobs'
  BY <1>2 DEF IInv, QueuedOnce, HeldOnce, LeftBehind, OneCaller, Complete,
              LatchCountsJobs, Owed, JobsOf
<1>4. NestedBefore'
  BY DEF IInv, Types, NestedBefore, Threads
<1> QED BY <1>1, <1>3, <1>4 DEF IInv

\* The latch is open: nothing is promised any more, so that no job is owed.
LEMMA ReturnIInv ==
  ASSUME IInv, latch!TypeOK, latch!OpenIsFinal, NEW t \in Threads, ParallelReturn(t)
  PROVE  IInv'
<1>0. PICK q \in Calls :
        /\ q = current[t] /\ t \in Calling /\ pc[t] = "wait"
        /\ life[q] = "alive" /\ promised[q] = 0
        /\ life' = [life EXCEPT ![q] = "destroyed"]
        /\ returned' = returned \cup {q}
        /\ current' = [current EXCEPT ![t] = Nobody]
        /\ pc' = [pc EXCEPT ![t] = IF t \in Workers THEN "after" ELSE "idle"]
        /\ UNCHANGED <<items, popped, left, finished, promised>>
  <2>1. t \in Calling /\ current[t] \in Calls /\ current[t] # Nobody
    BY ParallelAssumption DEF ParallelReturn, IInv, OneCaller, Calling
  <2>2. passed[t] = current[t] /\ promised[current[t]] = 0
    BY <2>1 DEF ParallelReturn, latch!Destroy, latch!OpenIsFinal
  <2> QED BY <2>1, <2>2 DEF ParallelReturn, latch!Destroy, GoTo, queueVars
<1>1. JobsOf(q) \subseteq finished
  <2>1. Owed(q) \in SUBSET Jobs /\ Cardinality(Owed(q)) = 0
    BY <1>0 DEF IInv, LatchCountsJobs, Owed, JobsOf
  <2>2. Owed(q) = {}
    BY <2>1, JobsAreCounted, FS_EmptySet
  <2> QED BY <2>2 DEF Owed
<1>2. /\ \A s \in Threads \ {t} : pc'[s] = pc[s] /\ current'[s] = current[s]
      /\ pc'[t] = (IF t \in Workers THEN "after" ELSE "idle")
      /\ \A k \in Calls \ {q} : life'[k] = life[k]
      /\ life'[q] = "destroyed"
  BY <1>0 DEF IInv, Types, latch!TypeOK
<1>3. Types' /\ Roles'
  BY <1>0, <1>2 DEF IInv, Types, Roles
<1>4. Holding' = Holding /\ Calling' = Calling \ {t}
  BY <1>0, <1>2 DEF Holding, Calling, Threads
<1>5. QueuedOnce' /\ HeldOnce'
  BY <1>0, <1>4 DEF IInv, QueuedOnce, HeldOnce
<1>6. LeftBehind' /\ Complete'
  BY <1>0, <1>1, <1>2 DEF IInv, LeftBehind, Complete, JobsOf
<1>7. OneCaller'
  BY <1>0, <1>2, <1>4 DEF IInv, OneCaller, Calling, Threads
<1>8. NestedBefore'
  BY <1>0, <1>2 DEF IInv, NestedBefore, OneCaller, Threads
<1>9. LatchCountsJobs'
  BY <1>0, <1>2 DEF IInv, LatchCountsJobs, Owed, JobsOf
<1> QED BY <1>3, <1>5, <1>6, <1>7, <1>8, <1>9 DEF IInv

\* A worker takes the oldest job.
LEMMA PopIInv ==
  ASSUME IInv, NEW w \in Workers, WorkerPop(w)
  PROVE  IInv'
<1>0. /\ pc[w] = "loop" /\ w \in Threads /\ items # <<>>
      /\ items' = Tail(items)
      /\ popped' = [popped EXCEPT ![w] = Head(items)]
      /\ pc' = [pc EXCEPT ![w] = "job"]
      /\ UNCHANGED <<life, promised, current, left, finished, returned>>
  BY DEF WorkerPop, queue!Deliver, GoTo, latchVars, Threads
<1>1. /\ items \in Seq(Jobs) /\ Head(items) = items[1] /\ Head(items) \in Jobs
      /\ items' \in Seq(Jobs)
      /\ Len(items') = Len(items) - 1
      /\ \A n \in 1..Len(items') : items'[n] = items[n + 1]
      /\ DOMAIN items' = 1..Len(items') /\ DOMAIN items = 1..Len(items)
      /\ Len(items) \in Nat /\ 1 \in DOMAIN items
  BY <1>0, HeadTailProperties, EmptySeq DEF IInv, Types
<1>2. /\ popped'[w] = items[1] /\ pc'[w] = "job"
      /\ \A s \in Threads \ {w} : popped'[s] = popped[s] /\ pc'[s] = pc[s]
  BY <1>0, <1>1 DEF IInv, Types
<1>3. Types' /\ Roles'
  BY <1>0, <1>1, <1>2 DEF IInv, Types, Roles
<1>4. Holding' = Holding \cup {w} /\ w \notin Holding /\ Calling' = Calling /\ w \notin Calling
  BY <1>0, <1>2 DEF Holding, Calling, Threads
<1>5. \A n \in DOMAIN items' :
        n + 1 \in DOMAIN items /\ items'[n] = items[n + 1] /\ items'[n] # items[1]
  <2>1. \A n \in DOMAIN items' : n + 1 \in DOMAIN items /\ items'[n] = items[n + 1] /\ n + 1 # 1
    BY <1>1
  <2> QED BY <1>1, <2>1 DEF IInv, QueuedOnce
<1>6. QueuedOnce'
  <2>1. \A m, n \in DOMAIN items' : m + 1 = n + 1 => m = n
    BY <1>1
  <2> QED BY <1>0, <1>5, <2>1 DEF IInv, QueuedOnce
<1>7. HeldOnce'
  <2>1. items[1] \in Jobs \ finished /\ items[1] \notin left[CallOf[items[1]]]
    BY <1>1 DEF IInv, QueuedOnce
  <2>2. \A v \in Holding : popped'[v] = popped[v] /\ popped[v] # items[1]
    BY <1>1, <1>2, <1>4 DEF IInv, HeldOnce, Holding, Threads
  <2> QED BY <1>0, <1>2, <1>4, <1>5, <2>1, <2>2 DEF IInv, HeldOnce
<1>8. LeftBehind' /\ Complete' /\ LatchCountsJobs'
  BY <1>0 DEF IInv, LeftBehind, Complete, LatchCountsJobs, Owed, JobsOf
<1>9. OneCaller'
  BY <1>0, <1>2, <1>4 DEF IInv, OneCaller, Threads
<1>10. NestedBefore'
  BY <1>0, <1>2 DEF IInv, NestedBefore, Threads
<1> QED BY <1>3, <1>6, <1>7, <1>8, <1>9, <1>10 DEF IInv

\* A job comes to its end, and leaves its worker.
LEMMA EndIInv ==
  ASSUME IInv, NEW w \in Workers, NEW label \in {"count", "loop"}, AtEnd(w),
         finished' = finished \cup {popped[w]},
         pc' = [pc EXCEPT ![w] = label],
         UNCHANGED <<items, popped, current, left, returned, life>>
  PROVE  LatchCountsJobs' => IInv'
<1>0. /\ w \in Threads /\ w \in Holding /\ w \notin Calling /\ popped[w] \in Jobs \ finished
      /\ Nested[popped[w]] # Nobody => Nested[popped[w]] \in returned
  BY DEF AtEnd, IInv, HeldOnce, NestedBefore, Holding, Calling, Threads
<1>1. pc'[w] = label /\ \A s \in Threads \ {w} : pc'[s] = pc[s]
  BY <1>0 DEF IInv, Types
<1>2. Types' /\ Roles'
  BY <1>0, <1>1 DEF IInv, Types, Roles
<1>3. Holding' = Holding \ {w} /\ Calling' = Calling
  BY <1>0, <1>1 DEF Holding, Calling, Threads
<1>4. QueuedOnce' /\ HeldOnce'
  BY <1>0, <1>3 DEF IInv, QueuedOnce, HeldOnce
<1>5. LeftBehind' /\ Complete'
  BY <1>0 DEF IInv, HeldOnce, LeftBehind, Complete, JobsOf
<1>6. OneCaller' /\ NestedBefore'
  BY <1>0, <1>1, <1>3 DEF IInv, OneCaller, NestedBefore, Threads
<1> QED BY <1>2, <1>4, <1>5, <1>6 DEF IInv

\* l.count_down() pays for one job; one that threw is owed for ever.
LEMMA JobEndIInv ==
  ASSUME IInv, latch!TypeOK, NEW w \in Workers, JobEnd(w)
  PROVE  IInv'
<1>0. PICK j \in Jobs, q \in Calls :
        /\ j = popped[w] /\ q = CallOf[j]
        /\ j \notin finished /\ j \notin Throws /\ life[q] = "alive"
        /\ finished' = finished \cup {j}
        /\ promised' = [promised EXCEPT ![q] = @ - 1]
        /\ life' = life
  BY ParallelAssumption
  DEF JobEnd, AtEnd, latch!CountDownCall, IInv, HeldOnce, Holding
<1>1. \A k \in Calls \ {q} : Owed(k)' = Owed(k)
  BY <1>0 DEF Owed, JobsOf
<1>2. Owed(q)' = Owed(q) \ {j} /\ j \in Owed(q) /\ Owed(q) \in SUBSET Jobs
  BY <1>0 DEF Owed, JobsOf
<1>3. Cardinality(Owed(q)') = Cardinality(Owed(q)) - 1
  BY <1>2, JobsAreCounted, FS_RemoveElement
<1>4. promised[q] = Cardinality(Owed(q))
  BY <1>0 DEF IInv, LatchCountsJobs
<1>5. promised'[q] = Cardinality(Owed(q)')
  BY <1>0, <1>3, <1>4 DEF latch!TypeOK
<1>6. LatchCountsJobs'
  BY <1>0, <1>1, <1>5 DEF IInv, LatchCountsJobs, latch!TypeOK
<1> QED
  BY <1>6, EndIInv DEF JobEnd, latch!CountDownCall, GoTo, queueVars

LEMMA JobThrowIInv ==
  ASSUME IInv, NEW w \in Workers, JobThrow(w)
  PROVE  IInv'
<1>1. \A q \in Calls : Owed(q)' = Owed(q)
  BY DEF JobThrow, Owed, JobsOf, AtEnd, IInv, HeldOnce, Holding
<1>2. LatchCountsJobs'
  BY <1>1 DEF JobThrow, latchVars, IInv, LatchCountsJobs
<1> QED
  BY <1>2, EndIInv DEF JobThrow, latchVars, GoTo, queueVars

LEMMA NextIInv ==
  ASSUME IInv, latch!TypeOK, latch!OpenIsFinal, [Next]_vars
  PROVE  IInv'
<1>1. ASSUME NEW t \in Threads, NEW q \in Calls, ParallelCall(t, q) PROVE IInv'
  BY <1>1, CallIInv
<1>2. ASSUME NEW t \in Threads, CallerStep(t) PROVE IInv'
  <2>1. CASE ParallelEnqueue(t)
    BY <2>1, EnqueueIInv
  <2>2. CASE ParallelWait(t)
    BY <2>2, WaitIInv DEF ParallelWait, latch!WaitCall, GoTo, queueVars
  <2>3. CASE ParallelReturn(t)
    BY <2>3, ReturnIInv
  <2> QED BY <1>2, <2>1, <2>2, <2>3 DEF CallerStep
<1>3. ASSUME NEW t \in Threads, LatchStep(t) \/ LatchSpuriousWake(t) PROVE IInv'
  <2>1. UNCHANGED <<items, popped, pc, current, left, finished, returned, life, promised>>
    BY <1>3
    DEF LatchStep, LatchSpuriousWake, queueVars, latch!Wait, latch!WaitTest,
        latch!CountDownStep, latch!CountDown, latch!CountDownNotify,
        latch!CountDownUnlock, latch!SpuriousWake
  <2> QED BY <2>1, WaitIInv
<1>4. ASSUME NEW w \in Workers, WorkerStep(w) PROVE IInv'
  <2>1. CASE WorkerPop(w)
    BY <2>1, PopIInv
  <2>2. CASE JobEnd(w)
    BY <2>2, JobEndIInv
  <2>3. CASE JobThrow(w)
    BY <2>3, JobThrowIInv
  <2>4. CASE JobDone(w)
    BY <2>4, WaitIInv DEF JobDone, GoTo, queueVars, latchVars, Threads
  <2> QED BY <1>4, <2>1, <2>2, <2>3, <2>4 DEF WorkerStep
<1>5. ASSUME NEW w \in Workers, NestedCall(w) PROVE IInv'
  <2>1. PICK q \in NestedCalls \ {Nobody} : ParallelCall(w, q)
    BY <1>5 DEF NestedCall
  <2>2. q \in Calls /\ w \in Threads
    BY ParallelAssumption DEF NestedCalls, Threads
  <2> QED BY <2>1, <2>2, CallIInv
<1>6. CASE UNCHANGED vars
  <2>1. /\ UNCHANGED <<items, popped, pc, current, left, finished, returned>>
        /\ UNCHANGED <<life, promised>>
    BY <1>6 DEF vars, queueVars, latchVars
  <2> QED
    BY <2>1
    DEF IInv, Types, Roles, QueuedOnce, HeldOnce, LeftBehind, OneCaller, NestedBefore,
        LatchCountsJobs, Complete, Holding, Calling, Owed, JobsOf
<1> QED
  BY <1>1, <1>2, <1>3, <1>4, <1>5, <1>6 DEF Next, Threads

-----------------------------------------------------------------------------
(* Each step of Parallel is one of Latch, or leaves the latches alone.      *)

LEMMA StepsOfLatch ==
  ASSUME IInv, [Next]_vars
  PROVE  [latch!Next]_(latch!vars)
<1> SUFFICES latch!Next \/ UNCHANGED latchVars
  BY DEF latch!vars, latchVars
<1>1. ASSUME NEW t \in Threads, NEW q \in Calls, ParallelCall(t, q) PROVE latch!Next
  <2>1. Cardinality(JobsOf(q)) \in 0..Cardinality(Jobs)
    BY JobsAreCounted DEF JobsOf
  <2> QED BY <1>1, <2>1 DEF ParallelCall, latch!Next
<1>2. ASSUME NEW t \in Threads, CallerStep(t) PROVE latch!Next \/ UNCHANGED latchVars
  <2>1. t \in Calling => current[t] \in Calls
    BY DEF IInv, OneCaller
  <2> QED
    BY <1>2, <2>1
    DEF CallerStep, ParallelEnqueue, ParallelWait, ParallelReturn, Calling, latch!Next
<1>3. ASSUME NEW t \in Threads, LatchStep(t) \/ LatchSpuriousWake(t) PROVE latch!Next
  BY <1>3 DEF LatchStep, LatchSpuriousWake, latch!Next, latch!WaitStep
<1>4. ASSUME NEW w \in Workers, WorkerStep(w) PROVE latch!Next \/ UNCHANGED latchVars
  <2>1. CASE JobEnd(w)
    <3>1. popped[w] \in Jobs /\ CallOf[popped[w]] \in Calls /\ w \in Threads
      BY <2>1, ParallelAssumption DEF JobEnd, AtEnd, IInv, HeldOnce, Holding, Threads
    <3>2. Cardinality(Jobs) >= 1
      <4>1. Cardinality({popped[w]}) = 1
        BY FS_Singleton
      <4> QED BY <3>1, <4>1, JobsAreCounted
    <3>3. 1 \in 1..Cardinality(Jobs)
      BY <3>2, JobsAreCounted
    <3> QED BY <2>1, <3>1, <3>3 DEF JobEnd, latch!Next
  <2>2. CASE WorkerPop(w) \/ JobThrow(w) \/ JobDone(w)
    BY <2>2 DEF WorkerPop, JobThrow, JobDone
  <2> QED BY <1>4, <2>1, <2>2 DEF WorkerStep
<1>5. ASSUME NEW w \in Workers, NestedCall(w) PROVE latch!Next
  <2>1. PICK q \in NestedCalls \ {Nobody} : ParallelCall(w, q)
    BY <1>5 DEF NestedCall
  <2>2. q \in Calls /\ w \in Threads
    BY ParallelAssumption DEF NestedCalls, Threads
  <2> QED BY <1>1, <2>1, <2>2
<1>6. CASE UNCHANGED vars
  BY <1>6 DEF vars
<1> QED
  BY <1>1, <1>2, <1>3, <1>4, <1>5, <1>6 DEF Next, Threads

\* LatchProofs is about the same latches.
LEMMA SameLatch ==
  /\ latch!Init => Proved!Init
  /\ [latch!Next]_(latch!vars) => [Proved!Next]_(Proved!vars)
  /\ Proved!IInv => latch!TypeOK /\ latch!OpenIsFinal /\ latch!LatchOutlivesCalls
<1>1. latch!Init => Proved!Init
  BY DEF latch!Init, Proved!Init
<1>2. [latch!Next]_(latch!vars) => [Proved!Next]_(Proved!vars)
  <2>1. latch!vars = Proved!vars /\ latch!vars' = Proved!vars'
    BY DEF latch!vars, Proved!vars
  <2>2. latch!Next => Proved!Next
    BY DEF latch!Next, Proved!Next, latch!Construct, Proved!Construct,
           latch!CountDownCall, Proved!CountDownCall, latch!WaitCall, Proved!WaitCall,
           latch!WaitForCall, Proved!WaitForCall, latch!Destroy, Proved!Destroy,
           latch!CountDownStep, Proved!CountDownStep, latch!CountDown, Proved!CountDown,
           latch!CountDownNotify, Proved!CountDownNotify, latch!CountDownUnlock,
           Proved!CountDownUnlock, latch!WaitStep, Proved!WaitStep, latch!Wait,
           Proved!Wait, latch!WaitFor, Proved!WaitFor, latch!WaitForExpired,
           Proved!WaitForExpired, latch!WaitTest, Proved!WaitTest, latch!Expire,
           Proved!Expire, latch!SpuriousWake, Proved!SpuriousWake, latch!GoTo,
           Proved!GoTo, latch!Acquire, Proved!Acquire, latch!Release, Proved!Release,
           latch!Leave, Proved!Leave, latch!WakeUp, Proved!WakeUp, latch!Asleep,
           Proved!Asleep, latch!Waiting, Proved!Waiting
  <2> QED BY <2>1, <2>2
<1>3. Proved!IInv => latch!TypeOK /\ latch!OpenIsFinal /\ latch!LatchOutlivesCalls
  BY DEF Proved!IInv, Proved!TypeOK, latch!TypeOK, Proved!OpenHasWaitersOnly,
         latch!OpenIsFinal, Proved!LatchOutlivesCalls, latch!LatchOutlivesCalls,
         Proved!PCs, latch!PCs, Proved!Waiting, latch!Waiting
<1> QED BY <1>1, <1>2, <1>3

Invariant == IInv /\ Proved!IInv

LEMMA Inductive == Safety => []Invariant
<1>1. /\ Proved!IsFiniteSet(Threads)
      /\ Nobody \notin Threads /\ Nobody \notin Calls /\ Cardinality(Jobs) \in Nat
  <2>1. IsFiniteSet(Threads)
    BY FiniteAssumption, FS_Union DEF Threads
  <2> QED
    BY <2>1, JobsAreCounted, ParallelAssumption DEF Proved!IsFiniteSet, IsFiniteSet
<1>2. /\ Proved!Init => Proved!IInv
      /\ Proved!IInv /\ [Proved!Next]_(Proved!vars) => Proved!IInv'
  BY <1>1, Proved!InitIInv, Proved!NextIInv
<1>3. Init => Invariant
  BY <1>2, InitIInv, SameLatch DEF Init, Invariant
<1>4. Invariant /\ [Next]_vars => Invariant'
  BY <1>2, NextIInv, StepsOfLatch, SameLatch DEF Invariant
<1> QED BY <1>3, <1>4, PTL DEF Safety

-----------------------------------------------------------------------------
\* The labels, the queue and the ranges keep their types, and the latches
\* theirs: no latch is counted down below zero by its closures.
THEOREM TypeCorrect == Safety => []TypeOK
<1>1. Invariant => TypeOK
  BY SameLatch DEF Invariant, IInv, Types, TypeOK
<1> QED BY <1>1, Inductive, PTL

\* When parallel() returns its whole range has run, and every range that one
\* of its jobs started in turn.
THEOREM CompleteOnReturn == Safety => []ParallelComplete
<1>1. Invariant => ParallelComplete
  BY DEF Invariant, IInv, Types, Complete, NestedBefore, JobsOf, ParallelComplete
<1> QED BY <1>1, Inductive, PTL

\* No closure that refers to the frame of a call of parallel() is queued,
\* running, or still inside the latch, once that call has returned.
THEOREM FrameIsLast == Safety => []FrameOutlivesClosures
<1>1. Invariant => FrameOutlivesClosures
  <2> SUFFICES ASSUME Invariant PROVE FrameOutlivesClosures
    OBVIOUS
  <2>1. latch!LatchOutlivesCalls
    BY SameLatch DEF Invariant
  <2>2. ASSUME NEW q \in Calls, life[q] = "destroyed", NEW j \in JobsOf(q)
        PROVE  /\ \A n \in DOMAIN items : items[n] # j
               /\ \A w \in Workers :
                    pc[w] \in {"job", "enqueue", "wait", "after"} => popped[w] # j
    BY <2>2 DEF Invariant, IInv, Complete, QueuedOnce, HeldOnce, Holding
  <2> QED BY <2>1, <2>2 DEF FrameOutlivesClosures
<1> QED BY <1>1, Inductive, PTL

\* The calls use their latches as Latch's clients do: what is proved of Latch
\* holds for the latch on the stack of parallel().
THEOREM UsesLatch == Safety => latch!Safety
<1>1. Init => latch!Init
  BY DEF Init
<1>2. Invariant /\ [Next]_vars => [latch!Next]_(latch!vars)
  BY StepsOfLatch DEF Invariant
<1> QED BY <1>1, <1>2, Inductive, PTL DEF Safety, latch!Safety

\* A closure that is counting down is still the worker's task.
CountersHaveJobs == \A w \in Workers : pc[w] = "count" => popped[w] \in Jobs

LEMMA CountersStep ==
  ASSUME Invariant, CountersHaveJobs, [Next]_vars
  PROVE  CountersHaveJobs'
<1>0. pc \in [Threads -> {"idle", "loop", "job", "enqueue", "wait", "after", "count"}]
  BY DEF Invariant, IInv, Types
<1> SUFFICES ASSUME NEW w \in Workers, pc'[w] = "count" PROVE popped'[w] \in Jobs
  BY DEF CountersHaveJobs
<1>a. ASSUME NEW t \in Threads, NEW label, label # "count",
             pc' = [pc EXCEPT ![t] = label], popped' = popped
      PROVE  popped'[w] \in Jobs
  BY <1>0, <1>a DEF CountersHaveJobs
<1>1. ASSUME NEW t \in Threads, NEW q \in Calls, ParallelCall(t, q) PROVE popped'[w] \in Jobs
  BY <1>1, <1>a DEF ParallelCall, GoTo, queueVars
<1>2. ASSUME NEW t \in Threads, CallerStep(t) PROVE popped'[w] \in Jobs
  <2>1. CASE ParallelEnqueue(t)
    BY <2>1 DEF ParallelEnqueue, queue!Insert, CountersHaveJobs
  <2>2. CASE ParallelWait(t)
    BY <2>2, <1>a DEF ParallelWait, GoTo, queueVars
  <2>3. CASE ParallelReturn(t)
    <3>1. PICK label \in {"after", "idle"} : pc' = [pc EXCEPT ![t] = label] /\ popped' = popped
      BY <2>3 DEF ParallelReturn, GoTo, queueVars
    <3> QED BY <3>1, <1>a
  <2> QED BY <1>2, <2>1, <2>2, <2>3 DEF CallerStep
<1>3. ASSUME NEW t \in Threads, LatchStep(t) \/ LatchSpuriousWake(t) PROVE popped'[w] \in Jobs
  BY <1>3 DEF LatchStep, LatchSpuriousWake, queueVars, CountersHaveJobs
<1>4. ASSUME NEW v \in Workers, WorkerStep(v) PROVE popped'[w] \in Jobs
  <2>1. CASE WorkerPop(v)
    <3>1. /\ v \in Threads /\ pc' = [pc EXCEPT ![v] = "job"]
          /\ popped' = [popped EXCEPT ![v] = Head(items)]
      BY <2>1 DEF WorkerPop, queue!Deliver, GoTo, Threads
    <3>2. w # v /\ pc[w] = "count"
      BY <1>0, <3>1 DEF Threads
    <3> QED BY <3>1, <3>2 DEF CountersHaveJobs, Invariant, IInv, Types
  <2>2. CASE JobEnd(v)
    <3>1. popped[v] \in Jobs /\ UNCHANGED popped /\ pc' = [pc EXCEPT ![v] = "count"]
      BY <2>2 DEF JobEnd, AtEnd, GoTo, queueVars, Invariant, IInv, HeldOnce, Holding
    <3> QED BY <1>0, <3>1 DEF CountersHaveJobs
  <2>3. CASE JobThrow(v) \/ JobDone(v)
    BY <2>3, <1>a DEF JobThrow, JobDone, GoTo, queueVars, Threads
  <2> QED BY <1>4, <2>1, <2>2, <2>3 DEF WorkerStep
<1>5. ASSUME NEW v \in Workers, NestedCall(v) PROVE popped'[w] \in Jobs
  BY <1>5, <1>a DEF NestedCall, ParallelCall, GoTo, queueVars, Threads
<1>6. CASE UNCHANGED vars
  BY <1>6 DEF vars, queueVars, CountersHaveJobs
<1> QED BY <1>1, <1>2, <1>3, <1>4, <1>5, <1>6 DEF Next, Threads

\* What the abstract pool sees: the jobs out of their range, and the workers'.
Sent == {j \in Jobs : j \notin left[CallOf[j]]}
TaskAt == [w \in Workers |-> IF pc[w] = "loop" THEN Nullopt ELSE popped[w]]

LEMMA WorkersHaveJobs ==
  ASSUME Invariant, CountersHaveJobs, NEW w \in Workers, pc[w] # "loop"
  PROVE  popped[w] \in Jobs /\ popped[w] # Nullopt
BY ParallelAssumption
DEF CountersHaveJobs, Invariant, IInv, Types, Roles, HeldOnce, Holding, Threads

\* A step that sends, starts and ends no job.
LEMMA PoolStutters ==
  ASSUME Invariant, UNCHANGED <<items, popped, left>>,
         \A w \in Workers : pc'[w] = "loop" <=> pc[w] = "loop"
  PROVE  UNCHANGED pool!vars
BY DEF pool!vars

LEMMA StepsOfPool ==
  ASSUME Invariant, CountersHaveJobs, [Next]_vars
  PROVE  [pool!Next]_(pool!vars)
<1>0. /\ pc \in [Threads -> {"idle", "loop", "job", "enqueue", "wait", "after", "count"}]
      /\ popped \in [Threads -> Jobs \cup {Nullopt}]
      /\ \A w \in Workers : w \in Threads /\ pc[w] # "idle"
  BY DEF Invariant, IInv, Types, Roles, Threads
<1>1. ASSUME NEW t \in Threads, NEW q \in Calls, ParallelCall(t, q) PROVE UNCHANGED pool!vars
  <2>1. /\ UNCHANGED <<items, popped, left>>
        /\ pc[t] \in {"idle", "job"} /\ pc' = [pc EXCEPT ![t] = "enqueue"]
    BY <1>1 DEF ParallelCall, GoTo, queueVars
  <2> QED BY <1>0, <2>1, PoolStutters
<1>2. ASSUME NEW t \in Threads, ParallelEnqueue(t) PROVE pool!Next
  <2>1. PICK j \in left[current[t]] : /\ items' = Append(items, j)
                                      /\ left' = [left EXCEPT ![current[t]] = @ \ {j}]
                                      /\ UNCHANGED <<popped, pc>>
    BY <1>2 DEF ParallelEnqueue, queue!Insert
  <2>2. current[t] \in Calls /\ pc[t] = "enqueue"
    BY <1>2 DEF ParallelEnqueue, Invariant, IInv, OneCaller, Calling
  <2>3. j \in Jobs /\ CallOf[j] = current[t] /\ j \notin Sent
    BY <2>2 DEF Invariant, IInv, LeftBehind, JobsOf, Sent
  <2>4. Sent' = Sent \cup {j}
    BY <2>1, <2>2, <2>3, ParallelAssumption DEF Sent, Invariant, IInv, Types
  <2>5. \/ t \in Clients
        \/ t \in Workers /\ TaskAt[t] # Nullopt
    BY <2>2, WorkersHaveJobs DEF TaskAt, Threads
  <2>6. pool!Enqueue(t, j)
    BY <2>1, <2>3, <2>4, <2>5 DEF pool!Enqueue, Sent, TaskAt
  <2> QED BY <2>3, <2>6 DEF pool!Next, Threads
<1>3. ASSUME NEW t \in Threads, ParallelWait(t) \/ ParallelReturn(t) PROVE UNCHANGED pool!vars
  <2>1. /\ UNCHANGED <<items, popped, left>> /\ pc[t] \in {"enqueue", "wait"}
        /\ \E label \in {"wait", "after", "idle"} : pc' = [pc EXCEPT ![t] = label]
    BY <1>3 DEF ParallelWait, ParallelReturn, GoTo, queueVars
  <2> QED BY <1>0, <2>1, PoolStutters
<1>4. ASSUME NEW t \in Threads, LatchStep(t) \/ LatchSpuriousWake(t) PROVE UNCHANGED pool!vars
  BY <1>4, PoolStutters DEF LatchStep, LatchSpuriousWake, queueVars
<1>5. ASSUME NEW w \in Workers, WorkerPop(w) PROVE pool!Next
  <2>1. /\ pc[w] = "loop" /\ items # <<>> /\ items' = Tail(items)
        /\ popped' = [popped EXCEPT ![w] = Head(items)]
        /\ pc' = [pc EXCEPT ![w] = "job"] /\ left' = left
    BY <1>5 DEF WorkerPop, queue!Deliver, GoTo
  <2>2. TaskAt[w] = Nullopt /\ TaskAt' = [TaskAt EXCEPT ![w] = Head(items)] /\ Sent' = Sent
    BY <1>0, <2>1 DEF TaskAt, Sent
  <2>3. pool!Start(w)
    BY <2>1, <2>2 DEF pool!Start, TaskAt, Sent
  <2> QED BY <2>3 DEF pool!Next
<1>6. ASSUME NEW w \in Workers, JobThrow(w) \/ JobDone(w) PROVE pool!Next
  <2>1. /\ pc[w] # "loop" /\ pc' = [pc EXCEPT ![w] = "loop"]
        /\ UNCHANGED <<items, popped, left>>
    BY <1>6 DEF JobThrow, JobDone, AtEnd, GoTo, queueVars
  <2>2. TaskAt[w] # Nullopt
    BY <2>1, WorkersHaveJobs DEF TaskAt
  <2>3. TaskAt' = [TaskAt EXCEPT ![w] = Nullopt] /\ Sent' = Sent
    BY <1>0, <2>1 DEF TaskAt, Sent
  <2>4. pool!Finish(w)
    BY <2>1, <2>2, <2>3 DEF pool!Finish, TaskAt, Sent
  <2> QED BY <2>4 DEF pool!Next
<1>7. ASSUME NEW w \in Workers, JobEnd(w) PROVE UNCHANGED pool!vars
  <2>1. /\ UNCHANGED <<items, popped, left>>
        /\ pc[w] # "loop" /\ pc' = [pc EXCEPT ![w] = "count"]
    BY <1>7 DEF JobEnd, AtEnd, GoTo, queueVars
  <2> QED BY <1>0, <2>1, PoolStutters
<1>8. ASSUME NEW w \in Workers, NestedCall(w) PROVE UNCHANGED pool!vars
  <2>1. PICK q \in NestedCalls \ {Nobody} : ParallelCall(w, q)
    BY <1>8 DEF NestedCall
  <2>2. q \in Calls /\ w \in Threads
    BY ParallelAssumption DEF NestedCalls, Threads
  <2> QED BY <1>1, <2>1, <2>2
<1>9. CASE UNCHANGED vars
  BY <1>9 DEF vars, queueVars, pool!vars
<1> QED
  BY <1>1, <1>2, <1>3, <1>4, <1>5, <1>6, <1>7, <1>8, <1>9
  DEF Next, CallerStep, WorkerStep, Threads

\* The closures are tasks of the pool that AbstractPool describes, and they
\* end after their count_down: parallel() asks nothing of the pool beyond what
\* TaskPool is proved to keep.
THEOREM UsesPool == Safety => pool!Safety
<1>1. Init => pool!Init /\ CountersHaveJobs
  <2> SUFFICES ASSUME Init PROVE pool!Init /\ CountersHaveJobs
    OBVIOUS
  <2>1. /\ items = <<>> /\ left = [q \in Calls |-> JobsOf(q)]
        /\ \A w \in Workers : pc[w] = "loop"
    BY DEF Init, Threads
  <2>2. \A j \in Jobs : j \in left[CallOf[j]]
    BY <2>1, ParallelAssumption DEF JobsOf
  <2> QED BY <2>1, <2>2 DEF pool!Init, CountersHaveJobs
<1> QED
  BY <1>1, Inductive, CountersStep, StepsOfPool, PTL DEF Safety, pool!Safety

-----------------------------------------------------------------------------
(* Folds.                                                                   *)

\* A set of numbers that is not empty has a least one.
LEMMA LeastNatural ==
  ASSUME NEW T \in SUBSET Nat, T # {}
  PROVE  \E x \in T : \A y \in T : x <= y
<1>1. IsWellFoundedOn(OpToRel(<, Nat), Nat)
  BY NatLessThanWellFounded
<1>2. PICK x \in T : \A y \in T : ~ (<<y, x>> \in OpToRel(<, Nat))
  BY <1>1, WFMin
<1>3. \A y \in T : ~ (y < x)
  BY <1>2 DEF OpToRel
<1> QED BY <1>3

\* What a fold goes through, one value per element taken.
Partials(g, op, base, s) ==
  /\ g \in [0..Len(s) -> Nat]
  /\ g[0] = base
  /\ \A n \in 1..Len(s) : g[n] = Apply(op, g[n - 1], s[n])

\* Applying the operator of a reduction gives a number again.
LEMMA ApplyType ==
  ASSUME NEW op, NEW x \in Nat, NEW y \in Nat
  PROVE  Apply(op, x, y) \in Nat
BY DEF Apply

\* A fold of numbers has its partial values, whatever is folded: were a length
\* without them, the least one would be one more than a length that has them.
LEMMA PartialsExist ==
  ASSUME NEW op, NEW base \in Nat, NEW s \in Seq(Nat)
  PROVE  \E g : Partials(g, op, base, s)
<1>1. PICK l \in Nat : l = Len(s) /\ \A i \in 1..l : s[i] \in Nat
  BY LenProperties, ElementOfSeq
<1> DEFINE Upto(g, m) == /\ g \in [0..m -> Nat] /\ g[0] = base
                         /\ \A n \in 1..m : g[n] = Apply(op, g[n - 1], s[n])
           T == {m \in 0..l : ~ \E g : Upto(g, m)}
<1>2. ASSUME T # {} PROVE FALSE
  <2>1. PICK m \in T : \A k \in T : m <= k
    <3>1. T \in SUBSET Nat
      OBVIOUS
    <3> HIDE DEF T
    <3> QED BY <1>2, <3>1, LeastNatural
  <2>2. m \in 0..l /\ m \in Nat /\ ~ \E g : Upto(g, m)
    OBVIOUS
  <2>3. CASE m = 0
    <3> DEFINE g == [n \in 0..0 |-> base]
    <3>1. g \in [0..0 -> Nat] /\ g[0] = base /\ \A n \in 1..0 : FALSE
      OBVIOUS
    <3>2. Upto(g, 0)
      BY <3>1
    <3> QED BY <2>2, <2>3, <3>2
  <2>4. CASE m # 0
    <3>1. m - 1 \in 0..l /\ m \in 1..l /\ ~ (m <= m - 1)
      BY <2>2, <2>4
    <3>2. m - 1 \notin T
      BY <2>1, <3>1
    <3>3. \E g : Upto(g, m - 1)
      BY <3>1, <3>2
    <3>4. PICK g : Upto(g, m - 1)
      BY <3>3
    <3>5. g[m - 1] \in Nat /\ s[m] \in Nat
      BY <1>1, <3>1, <3>4
    <3>6. PICK v \in Nat : v = Apply(op, g[m - 1], s[m])
      BY <3>5, ApplyType
    <3> DEFINE h == [n \in 0..m |-> IF n = m THEN v ELSE g[n]]
    <3>7. \A n \in 0..m : n = m \/ n \in 0..(m - 1)
      BY <3>1
    <3>8. \A n \in 0..(m - 1) : n \in 0..m /\ n # m /\ h[n] = g[n] /\ g[n] \in Nat
      BY <3>1, <3>4
    <3>9. h[m] = v
      BY <3>1
    <3>10. h \in [0..m -> Nat]
      BY <3>7, <3>8, <3>9
    <3>11. h[0] = base
      BY <3>1, <3>4, <3>8
    <3>12. ASSUME NEW n \in 1..m PROVE h[n] = Apply(op, h[n - 1], s[n])
      <4>1. n - 1 \in 0..(m - 1) /\ h[n - 1] = g[n - 1]
        BY <3>1, <3>8
      <4>2. CASE n = m
        BY <3>6, <3>9, <4>1, <4>2
      <4>3. CASE n # m
        <5>1. n \in 1..(m - 1) /\ n \in 0..(m - 1)
          BY <3>1, <4>3
        <5>2. h[n] = g[n] /\ g[n] = Apply(op, g[n - 1], s[n])
          BY <3>4, <3>8, <5>1
        <5> QED BY <4>1, <5>2
      <4> QED BY <4>2, <4>3
    <3> HIDE DEF h
    <3>13. Upto(h, m)
      BY <3>10, <3>11, <3>12
    <3> QED BY <2>2, <3>13
  <2> QED BY <2>3, <2>4
<1>3. l \notin T
  BY <1>2
<1>4. \E g : Upto(g, l)
  BY <1>1, <1>3
<1> QED BY <1>1, <1>4 DEF Partials

\* Fold is the last of them.
LEMMA FoldIs ==
  ASSUME NEW op, NEW base \in Nat, NEW s \in Seq(Nat)
  PROVE  \E g : Partials(g, op, base, s) /\ Fold(op, base, s) = g[Len(s)]
<1>1. PICK g : Partials(g, op, base, s)
  BY PartialsExist
<1>2. PICK l \in Nat : l = Len(s)
  BY LenProperties
<1> DEFINE Eq(f) == f = [n \in 0..l |-> IF n = 0 THEN base ELSE Apply(op, f[n - 1], s[n])]
           p == CHOOSE f : Eq(f)
<1>3. Eq(g)
  BY <1>1, <1>2 DEF Partials
<1>4. Eq(p)
  BY <1>3
<1>5. Fold(op, base, s) = p[l]
  BY <1>2 DEF Fold
<1> HIDE DEF p
<1> DEFINE T == {n \in 0..l : p[n] # g[n]}
<1>6. ASSUME T # {} PROVE FALSE
  <2>1. PICK m \in T : \A k \in T : m <= k
    <3>1. T \in SUBSET Nat
      OBVIOUS
    <3> HIDE DEF T
    <3> QED BY <1>6, <3>1, LeastNatural
  <2>2. m \in 0..l /\ m \in Nat /\ p[m] # g[m]
    OBVIOUS
  <2>3. m # 0
    BY <1>3, <1>4, <2>2
  <2>4. m - 1 \in 0..l /\ ~ (m <= m - 1)
    BY <2>2, <2>3
  <2>5. m - 1 \notin T
    BY <2>1, <2>4
  <2>6. p[m - 1] = g[m - 1]
    BY <2>4, <2>5
  <2>7. p[m] = Apply(op, p[m - 1], s[m]) /\ g[m] = Apply(op, g[m - 1], s[m])
    BY <1>3, <1>4, <2>2, <2>3
  <2> QED BY <2>2, <2>6, <2>7
<1>7. p[l] = g[l]
  BY <1>2, <1>6
<1> QED BY <1>1, <1>2, <1>5, <1>7

\* A fold of numbers is one.
LEMMA FoldType ==
  ASSUME NEW op, NEW base \in Nat, NEW s \in Seq(Nat)
  PROVE  Fold(op, base, s) \in Nat
<1>1. PICK g : Partials(g, op, base, s) /\ Fold(op, base, s) = g[Len(s)]
  BY FoldIs
<1> QED BY <1>1, LenProperties DEF Partials

Unit(op) == IF op = "times" THEN 1 ELSE 0

\* 0 is the unit of plus, and 1 that of times.
LEMMA ApplyUnit ==
  ASSUME NEW op, NEW x \in Nat
  PROVE  Apply(op, x, Unit(op)) = x
BY DEF Apply, Unit

\* Both are associative.
LEMMA ApplyAssociates ==
  ASSUME NEW op, NEW x \in Nat, NEW y \in Nat, NEW z \in Nat
  PROVE  Apply(op, x, Apply(op, y, z)) = Apply(op, Apply(op, x, y), z)
<1>1. CASE op = "times"
  <2>1. x * (y * z) = (x * y) * z
    OBVIOUS
  <2> QED BY <1>1, <2>1 DEF Apply
<1>2. CASE op # "times"
  BY <1>2 DEF Apply
<1> QED BY <1>1, <1>2

\* A fold goes on after position a with the fold of what comes then.
LEMMA FoldGoesOn ==
  ASSUME NEW op, NEW base \in Nat, NEW z \in Seq(Nat), NEW F, Partials(F, op, base, z),
         NEW a \in Nat, NEW d \in Nat, a <= d, d <= Len(z)
  PROVE  Apply(op, F[a], Fold(op, Unit(op), SubSeq(z, a + 1, d))) = F[d]
<1>1. PICK l \in Nat : l = Len(z)
  BY LenProperties
<1>2. PICK s \in Seq(Nat) :
        /\ s = SubSeq(z, a + 1, d) /\ Len(s) = d - a
        /\ \A j \in 1..(d - a) : s[j] = z[a + j]
  <2>1. /\ SubSeq(z, a + 1, d) \in Seq(Nat)
        /\ Len(SubSeq(z, a + 1, d)) = IF a + 1 <= d THEN d - (a + 1) + 1 ELSE 0
        /\ \A j \in 1..(d - (a + 1) + 1) : SubSeq(z, a + 1, d)[j] = z[(a + 1) + j - 1]
    BY <1>1, SubSeqProperties
  <2>2. d - (a + 1) + 1 = d - a /\ \A j \in 1..(d - a) : (a + 1) + j - 1 = a + j
    OBVIOUS
  <2>3. Len(SubSeq(z, a + 1, d)) = d - a
    BY <2>1
  <2>4. \A j \in 1..(d - a) : SubSeq(z, a + 1, d)[j] = z[a + j]
    BY <2>1, <2>2
  <2> QED BY <2>1, <2>3, <2>4
<1>3. Unit(op) \in Nat
  BY DEF Unit
<1>4. PICK h : Partials(h, op, Unit(op), s) /\ Fold(op, Unit(op), s) = h[d - a]
  <2>1. PICK h : Partials(h, op, Unit(op), s) /\ Fold(op, Unit(op), s) = h[Len(s)]
    BY <1>3, FoldIs
  <2> QED BY <1>2, <2>1
<1> DEFINE T == {j \in 0..(d - a) : Apply(op, F[a], h[j]) # F[a + j]}
<1>5. ASSUME T # {} PROVE FALSE
  <2>1. PICK m \in T : \A k \in T : m <= k
    <3>1. T \in SUBSET Nat
      OBVIOUS
    <3> HIDE DEF T
    <3> QED BY <1>5, <3>1, LeastNatural
  <2>2. m \in 0..(d - a) /\ m \in Nat /\ Apply(op, F[a], h[m]) # F[a + m]
    OBVIOUS
  <2>3. F[a] \in Nat
    <3>1. a \in 0..Len(z)
      BY <1>1
    <3> QED BY <3>1 DEF Partials
  <2>4. m # 0
    <3>1. h[0] = Unit(op) /\ a + 0 = a
      BY <1>4 DEF Partials
    <3> QED BY <2>2, <2>3, <3>1, ApplyUnit
  <2>5. m - 1 \in 0..(d - a) /\ ~ (m <= m - 1) /\ m \in 1..(d - a)
    BY <2>2, <2>4
  <2>6. m - 1 \notin T
    BY <2>1, <2>5
  <2>7. Apply(op, F[a], h[m - 1]) = F[a + (m - 1)]
    BY <2>5, <2>6
  <2>8. h[m] = Apply(op, h[m - 1], s[m]) /\ s[m] = z[a + m] /\ h[m - 1] \in Nat
    BY <1>2, <1>4, <2>5 DEF Partials
  <2>9. /\ a + m \in 1..l /\ (a + m) - 1 = a + (m - 1)
    BY <1>1, <2>5
  <2>10. F[a + m] = Apply(op, F[a + (m - 1)], z[a + m])
    BY <1>1, <2>9 DEF Partials
  <2>11. z[a + m] \in Nat
    BY <1>1, <2>9, ElementOfSeq
  <2>12. Apply(op, F[a], h[m]) = Apply(op, Apply(op, F[a], h[m - 1]), z[a + m])
    <3>1. PICK x \in Nat, y \in Nat, v \in Nat : x = F[a] /\ y = h[m - 1] /\ v = z[a + m]
      BY <2>3, <2>8, <2>11
    <3>2. Apply(op, x, Apply(op, y, v)) = Apply(op, Apply(op, x, y), v)
      BY ApplyAssociates
    <3> QED BY <2>8, <3>1, <3>2
  <2> QED BY <2>2, <2>7, <2>10, <2>12
<1>6. d - a \in 0..(d - a) /\ a + (d - a) = d
  OBVIOUS
<1>7. Apply(op, F[a], h[d - a]) = F[a + (d - a)]
  BY <1>5, <1>6
<1> QED BY <1>2, <1>4, <1>6, <1>7

\* What count and reduce of parallel.h rest on: when each chunk is folded from
\* the neutral value, the fold of the results is the fold of the range, however
\* it was cut.  p: the positions the chunks end at; r: the fold of each chunk.
THEOREM ChunkedFold ==
  ASSUME NEW op, NEW base \in Nat, NEW z \in Seq(Nat), NEW r \in Seq(Nat),
         NEW p \in [0..Len(r) -> 0..Len(z)],
         p[0] = 0, p[Len(r)] = Len(z),
         \A k \in 1..Len(r) : p[k - 1] <= p[k],
         \A k \in 1..Len(r) : r[k] = Fold(op, base, SubSeq(z, p[k - 1] + 1, p[k])),
         Len(r) = 0 \/ base = Unit(op)
  PROVE  Fold(op, base, r) = Fold(op, base, z)
<1>1. PICK l \in Nat : l = Len(r)
  BY LenProperties
<1>2. PICK n \in Nat : n = Len(z)
  BY LenProperties
<1>3. PICK F : Partials(F, op, base, z) /\ Fold(op, base, z) = F[n]
  BY <1>2, FoldIs
<1>4. PICK G : Partials(G, op, base, r) /\ Fold(op, base, r) = G[l]
  BY <1>1, FoldIs
<1> DEFINE T == {k \in 0..l : G[k] # F[p[k]]}
<1>5. ASSUME T # {} PROVE FALSE
  <2>1. PICK m \in T : \A k \in T : m <= k
    <3>1. T \in SUBSET Nat
      OBVIOUS
    <3> HIDE DEF T
    <3> QED BY <1>5, <3>1, LeastNatural
  <2>2. m \in 0..l /\ m \in Nat /\ G[m] # F[p[m]]
    OBVIOUS
  <2>3. m # 0
    BY <1>3, <1>4, <2>2 DEF Partials
  <2>4. m - 1 \in 0..l /\ ~ (m <= m - 1) /\ m \in 1..l
    BY <2>2, <2>3
  <2>5. m - 1 \notin T
    BY <2>1, <2>4
  <2>6. G[m - 1] = F[p[m - 1]]
    BY <2>4, <2>5
  <2>7. G[m] = Apply(op, G[m - 1], r[m])
    BY <1>1, <1>4, <2>4 DEF Partials
  <2>8. base = Unit(op)
    BY <1>1, <2>4
  <2>9. PICK a \in Nat, d \in Nat : a = p[m - 1] /\ d = p[m] /\ a <= d /\ d <= n
    <3>1. p \in [0..l -> 0..n] /\ m - 1 \in 0..l /\ m \in 0..l
      BY <1>1, <1>2, <2>2, <2>4
    <3>2. p[m - 1] \in 0..n /\ p[m] \in 0..n
      BY <3>1
    <3>3. p[m - 1] <= p[m]
      BY <1>1, <2>4
    <3> QED BY <3>2, <3>3
  <2>10. r[m] = Fold(op, Unit(op), SubSeq(z, a + 1, d))
    BY <1>1, <2>4, <2>8, <2>9
  <2>11. Apply(op, F[a], Fold(op, Unit(op), SubSeq(z, a + 1, d))) = F[d]
    <3>1. Partials(F, op, base, z) /\ d <= Len(z)
      BY <1>2, <1>3, <2>9
    <3>2. a \in Nat /\ d \in Nat /\ a <= d
      BY <2>9
    <3> HIDE DEF T
    <3> QED BY ONLY base \in Nat, z \in Seq(Nat), <3>1, <3>2, FoldGoesOn
  <2> QED BY <2>2, <2>6, <2>7, <2>9, <2>10, <2>11
<1>6. G[l] = F[p[l]]
  BY <1>1, <1>5
<1> QED BY <1>1, <1>2, <1>3, <1>4, <1>6

\* The sum of zeros and ones is the number of ones.
LEMMA OnesCount ==
  ASSUME NEW z \in Seq({0, 1})
  PROVE  /\ z \in Seq(Nat)
         /\ Fold("plus", 0, z) = Cardinality({i \in DOMAIN z : z[i] = 1})
<1>1. PICK n \in Nat : n = Len(z) /\ DOMAIN z = 1..n
  BY LenProperties
<1>2. z \in Seq(Nat) /\ \A i \in 1..n : z[i] \in {0, 1}
  BY <1>1, ElementOfSeq
<1>3. PICK g : Partials(g, "plus", 0, z) /\ Fold("plus", 0, z) = g[n]
  BY <1>1, <1>2, FoldIs
<1> DEFINE Ones(m) == {i \in 1..m : z[i] = 1}
           T == {m \in 0..n : g[m] # Cardinality(Ones(m))}
<1>4. ASSUME T # {} PROVE FALSE
  <2>1. PICK m \in T : \A k \in T : m <= k
    <3>1. T \in SUBSET Nat
      OBVIOUS
    <3> HIDE DEF T
    <3> QED BY <1>4, <3>1, LeastNatural
  <2>2. m \in 0..n /\ m \in Nat /\ g[m] # Cardinality(Ones(m))
    OBVIOUS
  <2>3. m # 0
    <3>1. Ones(0) = {}
      OBVIOUS
    <3> QED BY <1>3, <2>2, <3>1, FS_EmptySet DEF Partials
  <2>4. m - 1 \in 0..n /\ ~ (m <= m - 1) /\ m \in 1..n
    BY <2>2, <2>3
  <2>5. m - 1 \notin T
    BY <2>1, <2>4
  <2>6. g[m - 1] = Cardinality(Ones(m - 1)) /\ g[m - 1] \in Nat
    BY <1>1, <1>3, <2>4, <2>5 DEF Partials
  <2>7. g[m] = g[m - 1] + z[m]
    BY <1>1, <1>3, <2>4 DEF Partials, Apply
  <2>8. IsFiniteSet(Ones(m - 1)) /\ m \notin Ones(m - 1)
    <3>1. IsFiniteSet(1..(m - 1))
      BY <2>4, FS_Interval
    <3>2. Ones(m - 1) \subseteq 1..(m - 1)
      OBVIOUS
    <3> QED BY <2>4, <3>1, <3>2, FS_Subset
  <2>9. \A i \in 1..m : i = m \/ i \in 1..(m - 1)
    BY <2>4
  <2>10. CASE z[m] = 1
    <3>1. Ones(m) = Ones(m - 1) \cup {m}
      BY <2>4, <2>9, <2>10
    <3> HIDE DEF Ones
    <3>2. Cardinality(Ones(m - 1) \cup {m}) = Cardinality(Ones(m - 1)) + 1
      BY <2>8, FS_AddElement
    <3> QED BY <2>2, <2>6, <2>7, <2>10, <3>1, <3>2
  <2>11. CASE z[m] = 0
    <3>1. Ones(m) = Ones(m - 1)
      BY <2>4, <2>9, <2>11
    <3> HIDE DEF Ones
    <3> QED BY <2>2, <2>6, <2>7, <2>11, <3>1
  <2> QED BY <1>2, <2>4, <2>10, <2>11
<1>5. g[n] = Cardinality(Ones(n))
  <2>1. T = {}
    BY <1>4
  <2>2. n \in 0..n
    BY <1>1
  <2> QED BY <2>1, <2>2
<1> QED BY <1>1, <1>2, <1>3, <1>5

\* A finite set of keys has an ascending enumeration.
LEMMA AscendingIs ==
  ASSUME NEW S \in SUBSET Nat, IsFiniteSet(S)
  PROVE  /\ Cardinality(S) \in Nat
         /\ Ascending(S) \in [1..Cardinality(S) -> S]
         /\ Range(Ascending(S)) = S
         /\ \A m, n \in 1..Cardinality(S) : m < n => Ascending(S)[m] < Ascending(S)[n]
<1> DEFINE Good(f, D) == /\ f \in [1..Cardinality(D) -> D] /\ Range(f) = D
                         /\ \A m, n \in DOMAIN f : m < n => f[m] < f[n]
           T == {c \in Nat : \E D \in SUBSET Nat : /\ IsFiniteSet(D) /\ Cardinality(D) = c
                                                  /\ ~ \E f : Good(f, D)}
<1>1. ASSUME T # {} PROVE FALSE
  <2>1. PICK c \in T : \A k \in T : c <= k
    <3>1. T \in SUBSET Nat
      OBVIOUS
    <3> HIDE DEF T
    <3> QED BY <1>1, <3>1, LeastNatural
  <2>2. c \in Nat
    OBVIOUS
  <2>3. PICK D \in SUBSET Nat : IsFiniteSet(D) /\ Cardinality(D) = c /\ ~ \E f : Good(f, D)
    OBVIOUS
  <2>4. CASE c = 0
    <3>1. D = {}
      BY <2>3, <2>4, FS_EmptySet
    <3> DEFINE f == [i \in 1..0 |-> 0]
    <3>2. f \in [1..0 -> D] /\ DOMAIN f = {} /\ Range(f) = {}
      BY DEF Range
    <3> HIDE DEF f
    <3>3. Good(f, D)
      BY <2>3, <2>4, <3>1, <3>2
    <3> QED BY <2>3, <3>3
  <2>5. CASE c # 0
    <3>1. D # {}
      BY <2>3, <2>5, FS_EmptySet
    <3>2. PICK x \in D : \A y \in D : x <= y
      BY <3>1, LeastNatural
    <3> DEFINE E == D \ {x}
    <3>3. IsFiniteSet(E) /\ Cardinality(E) = c - 1 /\ E \in SUBSET Nat
      BY <2>3, <3>2, FS_RemoveElement
    <3>4. c - 1 \in Nat /\ ~ (c <= c - 1)
      BY <2>2, <2>5
    <3>5. c - 1 \notin T
      BY <2>1, <3>4
    <3>6. PICK f : Good(f, E)
      BY <3>3, <3>4, <3>5
    <3> DEFINE g == [i \in 1..c |-> IF i = 1 THEN x ELSE f[i - 1]]
    <3>7. DOMAIN f = 1..(c - 1) /\ \A i \in 1..(c - 1) : f[i] \in E
      BY <3>3, <3>6
    <3>8. \A i \in 1..c : i = 1 \/ (i # 1 /\ i - 1 \in 1..(c - 1))
      BY <3>4
    <3>9. 1 \in 1..c /\ g[1] = x /\ \A i \in 1..(c - 1) : i + 1 \in 1..c /\ g[i + 1] = f[i]
      BY <3>4
    <3>10. \A i \in 1..c : i # 1 => g[i] = f[i - 1] /\ i - 1 \in 1..(c - 1)
      BY <3>8
    <3>11. g \in [1..c -> D] /\ DOMAIN g = 1..c
      <4>1. \A i \in 1..c : (IF i = 1 THEN x ELSE f[i - 1]) \in D
        BY <3>7, <3>8
      <4> QED BY <4>1
    <3>12. \A y \in E : x < y
      BY <3>2
    <3>13. Range(g) = D
      <4>1. \A y \in D : \E i \in 1..c : g[i] = y
        <5> SUFFICES ASSUME NEW y \in D PROVE \E i \in 1..c : g[i] = y
          OBVIOUS
        <5>1. CASE y = x
          BY <3>9, <5>1
        <5>2. CASE y # x
          <6>1. y \in Range(f)
            BY <3>6, <5>2
          <6>2. PICK i \in 1..(c - 1) : f[i] = y
            BY <3>7, <6>1 DEF Range
          <6> HIDE DEF g
          <6> QED BY <3>9, <6>2
        <5> QED BY <5>1, <5>2
      <4> HIDE DEF g
      <4> QED BY <3>11, <4>1 DEF Range
    <3>14. ASSUME NEW m \in 1..c, NEW n \in 1..c, m < n PROVE g[m] < g[n]
      <4>1. n # 1 /\ n - 1 \in 1..(c - 1) /\ g[n] = f[n - 1]
        BY <3>10, <3>14
      <4>2. CASE m = 1
        BY <3>7, <3>9, <3>12, <4>1, <4>2
      <4>3. CASE m # 1
        <5>1. m - 1 \in 1..(c - 1) /\ g[m] = f[m - 1] /\ m - 1 < n - 1
          BY <3>10, <3>14, <4>3
        <5> HIDE DEF g
        <5> QED BY <3>6, <3>7, <4>1, <5>1
      <4> QED BY <4>2, <4>3
    <3> HIDE DEF g
    <3>15. Good(g, D)
      BY <2>3, <3>11, <3>13, <3>14
    <3> QED BY <2>3, <3>15
  <2> QED BY <2>4, <2>5
<1>2. PICK c \in Nat : c = Cardinality(S)
  BY FS_CardinalityType
<1>3. c \notin T
  BY <1>1
<1>4. \E f : Good(f, S)
  BY <1>2, <1>3
<1>5. \E f \in [1..Cardinality(S) -> S] :
        Range(f) = S /\ \A m, n \in DOMAIN f : m < n => f[m] < f[n]
  BY <1>4
<1>6. /\ Ascending(S) \in [1..Cardinality(S) -> S] /\ Range(Ascending(S)) = S
      /\ \A m, n \in DOMAIN Ascending(S) : m < n => Ascending(S)[m] < Ascending(S)[n]
  BY <1>5 DEF Ascending
<1> QED BY <1>2, <1>6

-----------------------------------------------------------------------------
(* The algorithms that cut a range in chunks: the variables of one call of  *)
(* one of them, as in ParallelChunks.                                       *)

\* As many chunks as the range has, and as results, where there are any.
ResultsCount == ResultsSize(loop.size, chunk_size)
ChunkWords == UNION {[S -> BOOLEAN] : S \in SUBSET Nat}
ChunkTasks == [b : Nat, e : Nat, ri : Nat, ob : Nat, at : Nat, word : ChunkWords]

\* The call: map_reduce has a second loop, over what its first one grouped.
CallInv ==
  /\ algo \in Algorithms /\ init \in Nat /\ (algo \in Counts => init = 0)
  /\ stage \in {"map", "reduce"} /\ (algo # "map_reduce" => stage = "map")
  /\ stage = "map" => loop.size = Len(input)
  /\ algo \notin Storers => results = <<>>

\* The loop is at the next multiple of the chunk size, or at the end.
LoopFits ==
  /\ input \in Seq(Values) /\ chunk_size \in Nat \ {0}
  /\ loop \in [size : Nat, b : Nat, e : Nat, ri : Nat, ob : Nat]
  /\ loop.b \in 1..(loop.size + 1)
  /\ loop.e = loop.b + SafeAdvance(loop.b, loop.size + 1, chunk_size)
  /\ loop.ri = Len(tasks) + 1 /\ Len(tasks) <= ResultsCount
  /\ loop.b <= Len(tasks) * chunk_size + 1
  /\ loop.b # loop.size + 1 => loop.b = Len(tasks) * chunk_size + 1

\* The chunks cut so far follow each other, and leave nothing out.
EndOf(k) == IF k = 0 THEN 0 ELSE tasks[k].e - 1
ChunksPartition ==
  /\ tasks \in Seq(ChunkTasks)
  /\ \A k \in DOMAIN tasks :
       /\ tasks[k].ri = k
       /\ 1 <= tasks[k].b /\ tasks[k].b < tasks[k].e /\ tasks[k].e <= loop.b
       /\ tasks[k].at \in tasks[k].b..tasks[k].e
       /\ tasks[k].b = EndOf(k - 1) + 1
  /\ loop.b = EndOf(Len(tasks)) + 1
  /\ \A i \in 1..(loop.b - 1) : \E k \in DOMAIN tasks : tasks[k].b <= i /\ i < tasks[k].e
  /\ \A j, k \in DOMAIN tasks : j < k => tasks[j].e <= tasks[k].b

\* With chunks of one length the output of a chunk starts where its input does.
OutputsFit ==
  Even(loop.size) =>
    /\ loop.b # loop.size + 1 => loop.ob = loop.b
    /\ \A k \in DOMAIN tasks : tasks[k].ob = tasks[k].b

CutInv == LoopFits /\ ChunksPartition /\ OutputsFit

\* What a predicate asks of the elements from b to before e.
Passes(i) ==
  IF algo = "none_of" THEN ~Satisfies(input[i]) ELSE Satisfies(input[i])
Judge(b, e) ==
  IF algo = "any_of" THEN \E i \in b..(e - 1) : Passes(i) ELSE \A i \in b..(e - 1) : Passes(i)
Judged(r) == r \in DOMAIN tasks /\ Judge(tasks[r].b, tasks[r].e)

\* What is TRUE among the results, or in a word on its way there, is right.
BoolInv ==
  /\ results \in [1..ResultsCount -> BOOLEAN]
  /\ \A r \in 1..ResultsCount : results[r] => Judged(r)
  /\ \A k \in DOMAIN tasks : \A q \in DOMAIN tasks[k].word :
       q \in 1..ResultsCount /\ (tasks[k].word[q] => Judged(q))

\* With one chunk, what is right becomes TRUE.
SingleInv ==
  ResultsCount = 1 /\ Judged(1) =>
    /\ tasks[1].at = tasks[1].e => results[1]
    /\ tasks[1].word # <<>> => 1 \in DOMAIN tasks[1].word /\ tasks[1].word[1]

\* Counting is adding up ones.
Adds == Counts \cup Reduces
Operation == IF algo = "reduce_op" THEN "times" ELSE "plus"
Hits(x) == IF algo = "count" THEN IsValue(x) ELSE Satisfies(x)
Ones(s) == [i \in DOMAIN s |-> IF Hits(s[i]) THEN 1 ELSE 0]
Addends == IF algo \in Counts THEN Ones(input) ELSE input

\* The result of a task that has ended is the fold of its chunk.
NumberInv ==
  /\ results \in [1..ResultsCount -> Nat]
  /\ \A k \in DOMAIN tasks :
       tasks[k].at = tasks[k].e =>
         results[k] = Fold(Operation, init, SubSeq(Addends, EndOf(k - 1) + 1, EndOf(k)))

\* The algorithms that write: what is written is where it belongs.
Outputs == Writers \cup {"map_reduce"}
Straight == algo \in {"generate", "for_each"} \/ Even(loop.size)
Written(i) == \E k \in DOMAIN tasks : tasks[k].b <= i /\ i < tasks[k].at
OutType == out \in [1..loop.size -> Seq(1..loop.size)]
WriteInv == \A i \in 1..loop.size : out[i] = IF Written(i) THEN <<i>> ELSE <<>>

\* What map_reduce groups.
Groups == [x \in Range(input) |-> Group(input, [i \in DOMAIN input |-> <<i>>], x)]
GroupInv ==
  /\ IsFiniteSet(DOMAIN shuffled) /\ DOMAIN shuffled \in SUBSET Nat
  /\ loop.size = Cardinality(DOMAIN shuffled)
  /\ Even(Len(input)) => shuffled = Groups

AnswerInv ==
  answer # <<>> =>
    /\ algo \in Bools =>
         /\ answer \in {<<TRUE>>, <<FALSE>>}
         /\ answer = <<TRUE>> => Judge(1, Len(input) + 1)
         /\ (ResultsSize(Len(input), chunk_size) <= 1 /\ answer = <<FALSE>>) =>
              ~Judge(1, Len(input) + 1)
    /\ algo \notin Bools /\ Exact => answer = <<Std>>

ChunkInv ==
  /\ CallInv /\ CutInv /\ OutType
  /\ algo \in Bools => BoolInv /\ SingleInv
  /\ algo \in Adds => NumberInv
  /\ algo \in Outputs /\ Straight => WriteInv
  /\ stage = "reduce" => GroupInv
  /\ AnswerInv

-----------------------------------------------------------------------------
(* Cutting.                                                                 *)

\* As many chunks as there are results hold the range, and fewer do not.
LEMMA ResultsAreEnough ==
  ASSUME NEW n \in Nat, NEW c \in Nat \ {0}
  PROVE  /\ ResultsSize(n, c) \in Nat
         /\ n <= ResultsSize(n, c) * c
         /\ \A l \in Nat : l * c < n => l + 1 <= ResultsSize(n, c)
         /\ \A l \in Nat : n <= l * c => ResultsSize(n, c) <= l
<1> DEFINE q == n \div c
           r == n % c
<1>1. q \in Nat /\ r \in 0..(c - 1) /\ n = c * q + r
  OBVIOUS
<1>2. ResultsSize(n, c) = IF r = 0 THEN q ELSE q + 1
  BY DEF ResultsSize
<1> HIDE DEF q, r
<1>3. PICK s \in Nat : s = ResultsSize(n, c)
  BY <1>1, <1>2
<1>4. n <= s * c
  <2>1. (q + 1) * c = c * q + c /\ q * c = c * q
    BY <1>1
  <2> QED BY <1>1, <1>2, <1>3, <2>1
<1>5. ASSUME NEW l \in Nat, l * c < n PROVE l + 1 <= s
  <2> SUFFICES ASSUME l >= s PROVE FALSE
    BY <1>3
  <2>1. PICK d \in Nat : l = s + d
    <3>1. l - s \in Nat /\ l = s + (l - s)
      BY <1>3
    <3> QED BY <3>1
  <2>2. l * c = s * c + d * c /\ d * c >= 0
    BY <1>3, <2>1
  <2>3. l * c \in Int /\ s * c \in Int /\ d * c \in Int
    BY <1>3
  <2> HIDE DEF q
  <2> QED BY <1>4, <1>5, <2>2, <2>3
<1>6. ASSUME NEW l \in Nat, n <= l * c PROVE s <= l
  <2> SUFFICES ASSUME l + 1 <= s PROVE FALSE
    BY <1>3
  <2>1. l <= q /\ (r = 0 => l + 1 <= q)
    BY <1>1, <1>2, <1>3
  <2>2. PICK d \in Nat : q = l + d /\ (r = 0 => 1 <= d)
    <3>1. q - l \in Nat /\ q = l + (q - l) /\ (r = 0 => 1 <= q - l)
      BY <1>1, <2>1
    <3> QED BY <3>1
  <2>3. c * q = l * c + d * c /\ d * c >= 0 /\ d * c \in Int /\ l * c \in Int
    BY <2>2
  <2>4. 1 <= d => d * c >= c
    OBVIOUS
  <2> QED BY <1>1, <1>6, <2>2, <2>3, <2>4
<1> QED BY <1>3, <1>4, <1>5, <1>6

\* One round of the loop keeps it on the multiples of the chunk size, and adds a
\* chunk that starts where the last one ends.
LEMMA CutFits ==
  ASSUME LoopFits, ChunksPartition, Cut
  PROVE  /\ LoopFits' /\ ChunksPartition' /\ Len(tasks') = Len(tasks) + 1
         /\ loop'.size = loop.size
         /\ \A k \in DOMAIN tasks : tasks'[k] = tasks[k]
         /\ tasks'[Len(tasks) + 1] = NextTask
<1>1. PICK n \in Nat : n = loop.size
  BY DEF LoopFits
<1>2. PICK c \in Nat \ {0} : c = chunk_size
  BY DEF LoopFits
<1>3. PICK l \in Nat : l = Len(tasks) /\ DOMAIN tasks = 1..l
  BY LenProperties DEF ChunksPartition
<1>4. PICK b \in Nat, e \in Nat, ob \in Nat : b = loop.b /\ e = loop.e /\ ob = loop.ob
  BY DEF LoopFits
<1>5. /\ b \in 1..n /\ e = b + (IF n + 1 - b < c THEN n + 1 - b ELSE c)
      /\ b = l * c + 1 /\ loop.ri = l + 1 /\ loop.size = n
  BY <1>1, <1>2, <1>3, <1>4 DEF LoopFits, Cut, RangeEnd, SafeAdvance
<1>6. b < e /\ e <= n + 1 /\ e \in 1..(n + 1)
  BY <1>5
<1> DEFINE m == SafeAdvance(e, n + 1, c)
<1>7. m \in Nat
  BY <1>6 DEF SafeAdvance
<1>8. /\ loop' = [loop EXCEPT !.b = loop.e, !.e = loop.e + m, !.ri = loop.ri + 1, !.ob = loop.ob + m]
      /\ tasks' = Append(tasks, NextTask)
      /\ UNCHANGED <<input, chunk_size>>
  BY <1>1, <1>2, <1>4, <1>5 DEF Cut, RangeEnd, request
<1> HIDE DEF m
<1>9. /\ loop' \in [size : Nat, b : Nat, e : Nat, ri : Nat, ob : Nat]
      /\ loop'.size = n /\ loop'.b = e /\ loop'.e = e + m /\ loop'.ri = l + 2 /\ loop'.ob = ob + m
  <2>1. loop \in [size : Nat, b : Nat, e : Nat, ri : Nat, ob : Nat]
    BY DEF LoopFits
  <2>2. loop.e + m \in Nat /\ loop.ri + 1 \in Nat /\ loop.ob + m \in Nat /\ loop.e \in Nat
    BY <1>4, <1>5, <1>7
  <2>3. loop' \in [size : Nat, b : Nat, e : Nat, ri : Nat, ob : Nat]
    BY <1>8, <2>1, <2>2
  <2>4. /\ loop'.size = loop.size /\ loop'.b = loop.e /\ loop'.e = loop.e + m
        /\ loop'.ri = loop.ri + 1 /\ loop'.ob = loop.ob + m
    BY <1>8, <2>1
  <2>5. loop.ri + 1 = l + 2
    BY <1>5
  <2> QED BY <1>4, <1>5, <2>3, <2>4, <2>5
<1> DEFINE x == NextTask
<1>10. /\ x \in ChunkTasks /\ x.b = b /\ x.e = e /\ x.ri = l + 1 /\ x.at = b
  <2>1. <<>> \in ChunkWords
    <3>1. <<>> \in [{} -> BOOLEAN]
      OBVIOUS
    <3> QED BY <3>1 DEF ChunkWords
  <2> QED BY <1>4, <1>5, <2>1 DEF NextTask, ChunkTasks
<1> HIDE DEF x
<1>11. /\ tasks' \in Seq(ChunkTasks) /\ Len(tasks') = l + 1
       /\ \A k \in 1..l : tasks'[k] = tasks[k]
       /\ tasks'[l + 1] = x
  BY <1>3, <1>8, <1>10, AppendProperties DEF ChunksPartition, x
<1>12. DOMAIN tasks' = 1..(l + 1)
  BY <1>11, LenProperties
<1>13. \A k \in 1..(l + 1) : k = l + 1 \/ k \in 1..l
  OBVIOUS
<1>14. l + 1 <= ResultsCount
  <2>1. l * c \in Int /\ l * c < n
    BY <1>5
  <2> QED BY <1>1, <1>2, <2>1, ResultsAreEnough DEF ResultsCount
<1>15. e # n + 1 => e = (l + 1) * c + 1
  <2>1. (l + 1) * c = l * c + c
    OBVIOUS
  <2>2. l * c \in Int
    OBVIOUS
  <2> QED BY <1>5, <2>1, <2>2
<1>16. LoopFits'
  <2>1. ResultsCount' = ResultsCount
    BY <1>1, <1>8, <1>9 DEF ResultsCount, ResultsSize
  <2>2. SafeAdvance(e, n + 1, c)' = SafeAdvance(e, n + 1, c)
    BY DEF SafeAdvance
  <2>3. e <= (l + 1) * c + 1
    <3>1. (l + 1) * c = l * c + c /\ l * c \in Int
      OBVIOUS
    <3> QED BY <1>5, <3>1
  <2> QED BY <1>1, <1>2, <1>3, <1>6, <1>8, <1>9, <1>11, <1>14, <1>15, <2>1, <2>2, <2>3
          DEF LoopFits, m, SafeAdvance
<1>17. ChunksPartition'
  <2>0. \A k \in 1..(l + 1) : EndOf(k - 1)' = EndOf(k - 1)
    <3> SUFFICES ASSUME NEW k \in 1..(l + 1) PROVE EndOf(k - 1)' = EndOf(k - 1)
      OBVIOUS
    <3>1. k - 1 = 0 \/ k - 1 \in 1..l
      OBVIOUS
    <3> QED BY <1>11, <3>1 DEF EndOf
  <2>4. EndOf(l + 1)' + 1 = e
    BY <1>5, <1>6, <1>10, <1>11 DEF EndOf
  <2>5. \A k \in DOMAIN tasks' : tasks'[k].b = EndOf(k - 1)' + 1
    <3>1. \A k \in 1..l : tasks'[k].b = EndOf(k - 1) + 1
      BY <1>3, <1>11 DEF ChunksPartition
    <3>2. tasks'[l + 1].b = EndOf((l + 1) - 1) + 1
      BY <1>3, <1>4, <1>10, <1>11 DEF ChunksPartition
    <3> QED BY <1>12, <1>13, <2>0, <3>1, <3>2
  <2>6. loop'.b = (EndOf(Len(tasks)) + 1)'
    BY <1>9, <1>11, <2>4
  <2>1. \A k \in DOMAIN tasks' :
          /\ tasks'[k].ri = k
          /\ 1 <= tasks'[k].b /\ tasks'[k].b < tasks'[k].e /\ tasks'[k].e <= loop'.b
          /\ tasks'[k].at \in tasks'[k].b..tasks'[k].e
    <3>1. \A k \in 1..l :
            /\ tasks'[k].ri = k
            /\ 1 <= tasks'[k].b /\ tasks'[k].b < tasks'[k].e /\ tasks'[k].e <= loop'.b
            /\ tasks'[k].at \in tasks'[k].b..tasks'[k].e
      <4> SUFFICES ASSUME NEW k \in 1..l
                   PROVE  /\ tasks[k].ri = k
                          /\ 1 <= tasks[k].b /\ tasks[k].b < tasks[k].e /\ tasks[k].e <= e
                          /\ tasks[k].at \in tasks[k].b..tasks[k].e
        BY <1>9, <1>11
      <4>1. tasks[k] \in ChunkTasks
        BY <1>3, ElementOfSeq DEF ChunksPartition
      <4>2. tasks[k].e \in Nat
        BY <4>1 DEF ChunkTasks
      <4> QED BY <1>3, <1>4, <1>6, <4>2 DEF ChunksPartition
    <3>2. /\ tasks'[l + 1].ri = l + 1
          /\ 1 <= tasks'[l + 1].b /\ tasks'[l + 1].b < tasks'[l + 1].e
          /\ tasks'[l + 1].e <= loop'.b
          /\ tasks'[l + 1].at \in tasks'[l + 1].b..tasks'[l + 1].e
      <4>1. 1 <= b /\ b < e /\ e <= e /\ b \in b..e
        BY <1>5, <1>6
      <4> QED BY <1>9, <1>10, <1>11, <4>1
    <3> QED BY <1>12, <1>13, <3>1, <3>2
  <2>2. ASSUME NEW i \in 1..(loop'.b - 1)
        PROVE  \E k \in DOMAIN tasks' : tasks'[k].b <= i /\ i < tasks'[k].e
    <3>1. CASE i < b
      <4>1. i \in 1..(loop.b - 1)
        BY <1>4, <1>9, <3>1
      <4>2. PICK k \in 1..l : tasks[k].b <= i /\ i < tasks[k].e
        BY <1>3, <4>1 DEF ChunksPartition
      <4> QED BY <1>11, <1>12, <4>2
    <3>2. CASE i >= b
      BY <1>9, <1>10, <1>11, <1>12, <3>2
    <3> QED BY <1>9, <3>1, <3>2
  <2>3. \A j, k \in DOMAIN tasks' : j < k => tasks'[j].e <= tasks'[k].b
    <3> SUFFICES ASSUME NEW j \in 1..(l + 1), NEW k \in 1..(l + 1), j < k
                 PROVE  tasks'[j].e <= tasks'[k].b
      BY <1>12
    <3>1. j \in 1..l /\ tasks'[j] = tasks[j]
      BY <1>11
    <3>2. CASE k \in 1..l
      BY <1>3, <1>11, <3>1, <3>2 DEF ChunksPartition
    <3>3. CASE k = l + 1
      BY <1>3, <1>4, <1>10, <1>11, <3>1, <3>3 DEF ChunksPartition
    <3> QED BY <1>13, <3>2, <3>3
  <2> QED BY <1>11, <2>1, <2>2, <2>3, <2>5, <2>6 DEF ChunksPartition
<1> QED BY <1>1, <1>3, <1>9, <1>11, <1>16, <1>17 DEF x

\* When all chunks are of one length, so is the next one.
LEMMA CutOutputs ==
  ASSUME LoopFits, ChunksPartition, OutputsFit, Cut
  PROVE  OutputsFit'
<1>1. PICK n \in Nat : n = loop.size
  BY DEF LoopFits
<1>2. PICK c \in Nat \ {0} : c = chunk_size
  BY DEF LoopFits
<1>3. PICK l \in Nat : l = Len(tasks) /\ DOMAIN tasks = 1..l
  BY LenProperties DEF ChunksPartition
<1>4. PICK b \in Nat, e \in Nat, ob \in Nat : b = loop.b /\ e = loop.e /\ ob = loop.ob
  BY DEF LoopFits
<1>5. /\ b \in 1..n /\ e = b + (IF n + 1 - b < c THEN n + 1 - b ELSE c)
      /\ b = l * c + 1 /\ loop.size = n
  BY <1>1, <1>2, <1>3, <1>4 DEF LoopFits, Cut, RangeEnd, SafeAdvance
<1> DEFINE m == SafeAdvance(e, n + 1, c)
<1>6. UNCHANGED <<input, chunk_size>> /\ loop'.b = e /\ loop'.ob = ob + m /\ loop'.size = n
  BY <1>1, <1>2, <1>4, <1>5 DEF Cut, RangeEnd, request, LoopFits
<1>7. /\ DOMAIN tasks' = 1..(l + 1)
      /\ \A k \in 1..l : tasks'[k] = tasks[k]
      /\ tasks'[l + 1] = NextTask
  <2>1. /\ ChunksPartition' /\ Len(tasks') = Len(tasks) + 1
        /\ \A k \in DOMAIN tasks : tasks'[k] = tasks[k]
        /\ tasks'[Len(tasks) + 1] = NextTask
    BY CutFits
  <2>2. DOMAIN tasks' = 1..Len(tasks')
    BY <2>1, LenProperties DEF ChunksPartition
  <2> QED BY <1>3, <2>1, <2>2
<1>8. NextTask.ob = ob /\ NextTask.b = b
  BY <1>4 DEF NextTask
<1> SUFFICES ASSUME Even(n)
             PROVE  /\ e # n + 1 => ob + m = e
                    /\ \A k \in 1..(l + 1) : tasks'[k].ob = tasks'[k].b
  BY <1>1, <1>6, <1>7 DEF OutputsFit, Even
<1>9. ob = b /\ \A k \in 1..l : tasks[k].ob = tasks[k].b
  BY <1>1, <1>3, <1>4, <1>5 DEF OutputsFit
<1>10. \A k \in 1..(l + 1) : tasks'[k].ob = tasks'[k].b
  <2>1. \A k \in 1..(l + 1) : k \in 1..l \/ k = l + 1
    OBVIOUS
  <2> QED BY <1>7, <1>8, <1>9, <2>1
<1>11. ASSUME e # n + 1 PROVE m = c /\ e = b + c
  <2>1. e = b + c /\ e <= n
    BY <1>5, <1>11
  <2>2. l * c \in Nat /\ (l + 1) * c = l * c + c
    OBVIOUS
  <2>3. ~(n <= c)
    BY <1>5, <2>1, <2>2
  <2>4. PICK q \in Nat : n = c * q
    <3>1. n % c = 0
      BY <1>2, <2>3 DEF Even
    <3>2. n \div c \in Nat /\ n = c * (n \div c) + (n % c)
      OBVIOUS
    <3>3. c * (n \div c) + 0 = c * (n \div c)
      OBVIOUS
    <3> QED BY <3>1, <3>2, <3>3
  <2>5. (l + 1) * c < n
    BY <1>5, <2>1, <2>2
  <2>6. l + 2 <= q
    <3> SUFFICES ASSUME q <= l + 1 PROVE FALSE
      OBVIOUS
    <3>1. PICK d \in Nat : l + 1 = q + d
      <4>1. (l + 1) - q \in Nat /\ l + 1 = q + ((l + 1) - q)
        OBVIOUS
      <4> QED BY <4>1
    <3>2. (l + 1) * c = c * q + c * d /\ c * d >= 0 /\ c * d \in Int /\ c * q \in Int
      BY <3>1
    <3> QED BY <2>4, <2>5, <3>2
  <2>7. PICK d \in Nat : q = l + 2 + d
    <3>1. q - (l + 2) \in Nat /\ q = l + 2 + (q - (l + 2))
      BY <2>6
    <3> QED BY <3>1
  <2>8. n = l * c + c + c + c * d /\ c * d >= 0 /\ c * d \in Int
    BY <2>4, <2>7
  <2>9. ~(n + 1 - e < c)
    BY <1>5, <2>1, <2>2, <2>8
  <2> QED BY <2>1, <2>9 DEF SafeAdvance
<1> QED BY <1>9, <1>10, <1>11

-----------------------------------------------------------------------------
(* The tasks: a task of its own k moves, the loop and the chunks stay.      *)

\* A task that moves within its chunk leaves the chunks as they were cut.
LEMMA TaskMoves ==
  ASSUME LoopFits, ChunksPartition, OutputsFit, UNCHANGED <<request, loop>>,
         NEW k \in DOMAIN tasks, NEW x \in ChunkTasks, x.at \in tasks[k].b..tasks[k].e,
         x.b = tasks[k].b, x.e = tasks[k].e, x.ri = tasks[k].ri, x.ob = tasks[k].ob,
         tasks' = [tasks EXCEPT ![k] = x]
  PROVE  /\ LoopFits' /\ ChunksPartition' /\ OutputsFit' /\ DOMAIN tasks' = DOMAIN tasks
         /\ tasks'[k] = x /\ \A j \in DOMAIN tasks \ {k} : tasks'[j] = tasks[j]
         /\ \A j \in 0..Len(tasks) : EndOf(j)' = EndOf(j)
<1>1. DOMAIN tasks = 1..Len(tasks) /\ Len(tasks) \in Nat
  BY LenProperties DEF ChunksPartition
<1>2. /\ tasks' \in Seq(ChunkTasks) /\ Len(tasks') = Len(tasks)
      /\ \A j \in 1..Len(tasks) : tasks'[j] = IF j = k THEN x ELSE tasks[j]
  BY <1>1, ExceptSeq DEF ChunksPartition
<1>3. DOMAIN tasks' = DOMAIN tasks
  BY <1>1, <1>2, LenProperties
<1>4. \A j \in DOMAIN tasks :
        /\ tasks'[j].b = tasks[j].b /\ tasks'[j].e = tasks[j].e
        /\ tasks'[j].ri = tasks[j].ri /\ tasks'[j].ob = tasks[j].ob
        /\ tasks'[j].at \in tasks'[j].b..tasks'[j].e
  BY <1>1, <1>2 DEF ChunksPartition
<1>5. UNCHANGED <<input, chunk_size, loop>>
  BY DEF request
<1>6. LoopFits'
  BY <1>2, <1>5 DEF LoopFits, ResultsCount, ResultsSize, SafeAdvance
<1>7. \A j \in 0..Len(tasks) : EndOf(j)' = EndOf(j)
  <2> SUFFICES ASSUME NEW j \in 0..Len(tasks) PROVE EndOf(j)' = EndOf(j)
    OBVIOUS
  <2>1. j = 0 \/ j \in DOMAIN tasks
    BY <1>1
  <2> QED BY <1>4, <2>1 DEF EndOf
<1>9. ChunksPartition'
  <2>1. \A j \in DOMAIN tasks' : tasks'[j].b = EndOf(j - 1)' + 1
    <3> SUFFICES ASSUME NEW j \in DOMAIN tasks PROVE tasks'[j].b = EndOf(j - 1)' + 1
      BY <1>3
    <3>1. j - 1 \in 0..Len(tasks)
      BY <1>1
    <3> QED BY <1>4, <1>7, <3>1 DEF ChunksPartition
  <2>2. (loop.b = EndOf(Len(tasks)) + 1)'
    <3>1. EndOf(Len(tasks))' = EndOf(Len(tasks))
      <4>1. PICK l \in Nat : l = Len(tasks) /\ l = Len(tasks')
        BY <1>1, <1>2
      <4>2. EndOf(l)' = EndOf(l)
        BY <1>7, <4>1
      <4> QED BY <4>1, <4>2 DEF EndOf
    <3> QED BY <1>5, <3>1 DEF ChunksPartition
  <2>3. \A j \in DOMAIN tasks' :
          /\ tasks'[j].ri = j
          /\ 1 <= tasks'[j].b /\ tasks'[j].b < tasks'[j].e /\ tasks'[j].e <= loop'.b
    BY <1>3, <1>4, <1>5 DEF ChunksPartition
  <2>4. /\ \A i \in 1..(loop'.b - 1) : \E j \in DOMAIN tasks' : tasks'[j].b <= i /\ i < tasks'[j].e
        /\ \A i, j \in DOMAIN tasks' : i < j => tasks'[i].e <= tasks'[j].b
    BY <1>3, <1>4, <1>5 DEF ChunksPartition
  <2> QED BY <1>2, <1>3, <1>4, <2>1, <2>2, <2>3, <2>4 DEF ChunksPartition
<1>8. OutputsFit'
  BY <1>3, <1>4, <1>5 DEF OutputsFit, Even
<1> QED BY <1>1, <1>2, <1>3, <1>6, <1>7, <1>8, <1>9

\* What the predicate task k runs returns is Judge of its chunk.
LEMMA ChunkElements ==
  ASSUME LoopFits, NEW b \in Nat \ {0}, NEW e \in Nat, b < e, e <= Len(input) + 1
  PROVE  Range(SubSeq(input, b, e - 1)) = {input[i] : i \in b..(e - 1)}
<1>1. PICK n \in Nat : n = Len(input) /\ input \in Seq(Values)
  BY LenProperties DEF LoopFits
<1> DEFINE s == SubSeq(input, b, e - 1)
<1>2. Len(s) = e - b /\ \A i \in 1..(e - b) : s[i] = input[b + i - 1]
  BY <1>1, SubSeqProperties
<1>3. DOMAIN s = 1..(e - b)
  <2>1. s \in Seq(Values)
    BY <1>1, SubSeqProperties
  <2> QED BY <1>2, <2>1, LenProperties
<1>4. \A i \in b..(e - 1) : i - b + 1 \in 1..(e - b) /\ s[i - b + 1] = input[i]
  BY <1>2
<1>5. \A i \in 1..(e - b) : b + i - 1 \in b..(e - 1) /\ s[i] = input[b + i - 1]
  BY <1>2
<1> HIDE DEF s
<1>6. Range(s) = {s[i] : i \in 1..(e - b)}
  BY <1>3 DEF Range
<1>7. {s[i] : i \in 1..(e - b)} = {input[i] : i \in b..(e - 1)}
  BY <1>4, <1>5
<1> QED BY <1>6, <1>7 DEF s

\* A chunk is part of the range, and has a result.
LEMMA ChunkBounds ==
  ASSUME LoopFits, ChunksPartition, NEW k \in DOMAIN tasks
  PROVE  /\ tasks[k] \in ChunkTasks /\ k \in Nat /\ k \in 1..ResultsCount /\ ResultsCount \in Nat
         /\ tasks[k].b \in 1..loop.size /\ tasks[k].e \in 2..(loop.size + 1)
         /\ tasks[k].at \in tasks[k].b..tasks[k].e /\ tasks[k].b < tasks[k].e
<1>1. PICK n \in Nat : n = loop.size
  BY DEF LoopFits
<1>2. PICK l \in Nat : l = Len(tasks) /\ DOMAIN tasks = 1..l
  BY LenProperties DEF ChunksPartition
<1>3. tasks[k] \in ChunkTasks
  BY <1>2, ElementOfSeq DEF ChunksPartition
<1>4. tasks[k].b \in Nat /\ tasks[k].e \in Nat /\ loop.b \in Nat
  BY <1>3 DEF ChunkTasks, LoopFits
<1>5. ResultsCount \in Nat
  <2>1. PICK c \in Nat \ {0} : c = chunk_size
    BY DEF LoopFits
  <2> QED BY <1>1, <2>1, ResultsAreEnough DEF ResultsCount
<1>6. k \in Nat /\ k \in 1..ResultsCount
  <2>1. l <= ResultsCount
    BY <1>2 DEF LoopFits
  <2> QED BY <1>2, <1>5, <2>1
<1>7. /\ 1 <= tasks[k].b /\ tasks[k].b < tasks[k].e /\ tasks[k].e <= loop.b
      /\ tasks[k].at \in tasks[k].b..tasks[k].e
  BY DEF ChunksPartition
<1>8. tasks[k].b \in 1..n /\ tasks[k].e \in 2..(n + 1)
  <2>1. loop.b \in 1..(n + 1)
    BY <1>1 DEF LoopFits
  <2> QED BY <1>4, <1>7, <2>1
<1> QED BY <1>1, <1>3, <1>5, <1>6, <1>7, <1>8

\* What the task of chunk k stores is what is asked of its elements.
LEMMA StoredValue ==
  ASSUME LoopFits, ChunksPartition, loop.size = Len(input), NEW k \in DOMAIN tasks
  PROVE  /\ algo = "all_of" =>
              (Judge(tasks[k].b, tasks[k].e)
                 <=> \A x \in Range(Chunk(k)) : Satisfies(x))
         /\ algo = "any_of" =>
              (Judge(tasks[k].b, tasks[k].e)
                 <=> \E x \in Range(Chunk(k)) : Satisfies(x))
         /\ algo = "none_of" =>
              (Judge(tasks[k].b, tasks[k].e)
                 <=> \A x \in Range(Chunk(k)) : ~Satisfies(x))
<1>1. PICK n \in Nat : n = Len(input)
  BY LenProperties DEF LoopFits
<1>2. PICK b \in Nat \ {0}, e \in Nat : b = tasks[k].b /\ e = tasks[k].e /\ b < e /\ e <= n + 1
  <2>1. tasks[k].b \in 1..n /\ tasks[k].e \in 2..(n + 1) /\ tasks[k].b < tasks[k].e
    BY <1>1, ChunkBounds
  <2>2. tasks[k].b \in Nat \ {0} /\ tasks[k].e \in Nat /\ tasks[k].e <= n + 1
    BY <2>1
  <2> QED BY <2>1, <2>2
<1>3. Range(Chunk(k)) = {input[i] : i \in b..(e - 1)}
  BY <1>1, <1>2, ChunkElements DEF Chunk
<1> QED BY <1>2, <1>3 DEF Judge, Passes

\* An answer stays right: it depends on the call only.
LEMMA StdStays ==
  ASSUME UNCHANGED request
  PROVE  Std' = Std /\ (algo \notin Bools => (Exact' <=> Exact))
<1>1. UNCHANGED <<algo, input, chunk_size, init>>
  BY DEF request
<1>2. Std' = Std
  BY <1>1 DEF Std, CountIn, Satisfies, IsValue
<1>3. ASSUME algo \notin Bools PROVE Exact' <=> Exact
  BY <1>1, <1>3 DEF Exact, Even, Neutral
<1> QED BY <1>2, <1>3

\* So is what is known of an answer.
LEMMA AnswerStays ==
  ASSUME AnswerInv, UNCHANGED <<request, answer>>
  PROVE  AnswerInv'
<1>1. UNCHANGED <<algo, input, chunk_size, init, answer>>
  BY DEF request
<1>2. Std' = Std /\ (algo \notin Bools => (Exact' <=> Exact))
  BY StdStays
<1>3. /\ Judge(1, Len(input) + 1)' <=> Judge(1, Len(input) + 1)
      /\ ResultsSize(Len(input), chunk_size)' = ResultsSize(Len(input), chunk_size)
  BY <1>1 DEF Judge, Passes, ResultsSize
<1> QED BY <1>1, <1>2, <1>3 DEF AnswerInv

\* What is asked of a chunk stays, too.
LEMMA JudgedStays ==
  ASSUME UNCHANGED request, NEW r \in DOMAIN tasks, r \in DOMAIN tasks',
         tasks'[r].b = tasks[r].b, tasks'[r].e = tasks[r].e
  PROVE  Judged(r)' <=> Judged(r)
BY DEF Judged, Judge, Passes, request

-----------------------------------------------------------------------------
(* The steps.                                                               *)

\* A round of the loop of any algorithm.
LEMMA CutStep ==
  ASSUME ChunkInv, Cut
  PROVE  ChunkInv'
<1>1. LoopFits /\ ChunksPartition /\ OutputsFit /\ AnswerInv /\ CallInv
  BY DEF ChunkInv, CutInv
<1>2. /\ LoopFits' /\ ChunksPartition' /\ Len(tasks') = Len(tasks) + 1
      /\ loop'.size = loop.size
      /\ \A k \in DOMAIN tasks : tasks'[k] = tasks[k]
      /\ tasks'[Len(tasks) + 1] = NextTask
  BY <1>1, CutFits
<1>3. OutputsFit'
  BY <1>1, CutOutputs
<1>4. UNCHANGED <<request, algo, input, chunk_size, init, results, out, shuffled, stage, answer>>
  BY DEF Cut, request
<1>5. PICK l \in Nat : /\ l = Len(tasks) /\ DOMAIN tasks = 1..l /\ DOMAIN tasks' = 1..(l + 1)
                       /\ tasks'[l + 1] = NextTask
  BY <1>1, <1>2, LenProperties DEF ChunksPartition
<1>6. \A k \in 1..(l + 1) : k \in 1..l \/ k = l + 1
  OBVIOUS
<1>7. NextTask.at = loop.b /\ NextTask.b = loop.b /\ NextTask.word = <<>>
  BY DEF NextTask
<1>8. \A r \in 1..l : Judged(r)' <=> Judged(r)
  BY <1>2, <1>4, <1>5, <1>6, JudgedStays
<1>9. ResultsCount' = ResultsCount
  BY <1>2, <1>4 DEF ResultsCount, ResultsSize
<1>10. AnswerInv'
  BY <1>1, <1>4, AnswerStays
<1>11. CutInv' /\ CallInv' /\ OutType'
  BY <1>1, <1>2, <1>3, <1>4 DEF CutInv, CallInv, ChunkInv, OutType
<1>12. tasks'[l + 1].at # tasks'[l + 1].e
  <2>1. tasks'[l + 1].at = tasks'[l + 1].b /\ tasks'[l + 1].b = loop.b
    BY <1>5, <1>7
  <2>2. l + 1 \in DOMAIN tasks' /\ loop.b \in Nat
    BY <1>1, <1>5 DEF LoopFits
  <2>3. tasks'[l + 1].b < tasks'[l + 1].e
    BY <1>2, <2>2 DEF ChunksPartition
  <2>4. tasks'[l + 1].e \in Nat
    <3>1. tasks' \in Seq(ChunkTasks) /\ l + 1 \in 1..Len(tasks')
      BY <1>2, <1>5 DEF ChunksPartition
    <3>2. tasks'[l + 1] \in ChunkTasks
      BY <3>1, ElementOfSeq
    <3> QED BY <3>2 DEF ChunkTasks
  <2> QED BY <2>1, <2>2, <2>3, <2>4
<1>13. ASSUME algo \in Bools PROVE BoolInv' /\ SingleInv'
  <2>1. BoolInv /\ SingleInv
    BY <1>13 DEF ChunkInv
  <2>2. \A r : Judged(r) => Judged(r)'
    BY <1>5, <1>8 DEF Judged
  <2>3. BoolInv'
    <3>1. /\ results' \in [1..ResultsCount' -> BOOLEAN]
          /\ \A r \in 1..ResultsCount' : results'[r] => Judged(r)'
      BY <1>4, <1>9, <2>1, <2>2 DEF BoolInv
    <3>2. \A k \in 1..l : \A q \in DOMAIN tasks'[k].word :
            q \in 1..ResultsCount' /\ (tasks'[k].word[q] => Judged(q)')
      BY <1>2, <1>5, <1>9, <2>1, <2>2 DEF BoolInv
    <3>3. \A q \in DOMAIN tasks'[l + 1].word : FALSE
      BY <1>5, <1>7
    <3> QED BY <1>5, <1>6, <3>1, <3>2, <3>3 DEF BoolInv
  <2>4. SingleInv'
    <3> SUFFICES ASSUME ResultsCount' = 1, Judged(1)'
                 PROVE  /\ tasks'[1].at = tasks'[1].e => results'[1]
                        /\ tasks'[1].word # <<>> =>
                             1 \in DOMAIN tasks'[1].word /\ tasks'[1].word[1]
      BY DEF SingleInv
    <3>1. CASE l = 0
      BY <1>5, <1>7, <1>12, <3>1
    <3>2. CASE l # 0
      BY <1>2, <1>4, <1>5, <1>8, <1>9, <2>1, <3>2 DEF SingleInv
    <3> QED BY <3>1, <3>2
  <2> QED BY <2>3, <2>4
<1>14. ASSUME algo \in Adds PROVE NumberInv'
  <2>1. NumberInv
    BY <1>14 DEF ChunkInv
  <2>2. Addends' = Addends /\ Operation' = Operation /\ init' = init
    BY <1>4 DEF Addends, Ones, Hits, IsValue, Satisfies, Operation
  <2>3. \A k \in 0..l : EndOf(k)' = EndOf(k)
    BY <1>2, <1>5 DEF EndOf
  <2>4. ASSUME NEW k \in 1..l, tasks'[k].at = tasks'[k].e
        PROVE  results'[k] = Fold(Operation', init', SubSeq(Addends', EndOf(k - 1)' + 1, EndOf(k)'))
    <3>1. EndOf(k - 1)' = EndOf(k - 1) /\ EndOf(k)' = EndOf(k)
      <4>1. k - 1 \in 0..l /\ k \in 0..l
        OBVIOUS
      <4> QED BY <2>3, <4>1
    <3>2. tasks'[k] = tasks[k] /\ k \in DOMAIN tasks
      BY <1>2, <1>5
    <3> QED BY <1>4, <2>1, <2>2, <2>4, <3>1, <3>2 DEF NumberInv
  <2>5. \A k \in DOMAIN tasks' : tasks'[k].at = tasks'[k].e => k \in 1..l
    BY <1>5, <1>6, <1>12
  <2> QED BY <1>4, <1>9, <2>1, <2>4, <2>5 DEF NumberInv
<1>15. ASSUME algo \in Outputs, Straight' PROVE WriteInv'
  <2>1. WriteInv
    BY <1>2, <1>4, <1>15 DEF ChunkInv, Straight, Even
  <2>2. \A i \in 1..loop.size : Written(i)' <=> Written(i)
    <3> SUFFICES ASSUME NEW i \in 1..loop.size PROVE Written(i)' <=> Written(i)
      OBVIOUS
    <3>1. ~(tasks'[l + 1].b <= i /\ i < tasks'[l + 1].at)
      BY <1>1, <1>5, <1>7 DEF LoopFits
    <3> QED BY <1>2, <1>5, <1>6, <3>1 DEF Written
  <2> QED BY <1>2, <1>4, <2>1, <2>2 DEF WriteInv
<1>16. stage' = "reduce" => GroupInv'
  BY <1>2, <1>4 DEF ChunkInv, GroupInv, Groups, Even
<1> QED BY <1>4, <1>10, <1>11, <1>13, <1>14, <1>15, <1>16 DEF ChunkInv

\* What else the moves of a task leave as it is.
LEMMA MoveStays ==
  ASSUME ChunkInv, UNCHANGED <<request, loop, shuffled, stage, answer>>,
         NEW k \in DOMAIN tasks, NEW x \in ChunkTasks, x.at \in tasks[k].b..tasks[k].e,
         x.b = tasks[k].b, x.e = tasks[k].e, x.ri = tasks[k].ri, x.ob = tasks[k].ob,
         tasks' = [tasks EXCEPT ![k] = x]
  PROVE  /\ CutInv' /\ AnswerInv' /\ (stage' = "reduce" => GroupInv')
         /\ (algo \notin Storers => results' = <<>>) => CallInv'
         /\ DOMAIN tasks' = DOMAIN tasks
         /\ tasks'[k] = x /\ \A j \in DOMAIN tasks \ {k} : tasks'[j] = tasks[j]
         /\ \A j \in DOMAIN tasks : EndOf(j)' = EndOf(j) /\ EndOf(j - 1)' = EndOf(j - 1)
         /\ \A r : Judged(r)' <=> Judged(r)
         /\ Addends' = Addends /\ Operation' = Operation
         /\ ResultsCount' = ResultsCount /\ UNCHANGED <<algo, input, init, loop>>
         /\ Straight' <=> Straight
<1>1. LoopFits /\ ChunksPartition /\ OutputsFit /\ AnswerInv /\ CallInv
  BY DEF ChunkInv, CutInv
<1>2. UNCHANGED <<algo, input, chunk_size, init, loop>>
  BY DEF request
<1>3. /\ LoopFits' /\ ChunksPartition' /\ OutputsFit' /\ DOMAIN tasks' = DOMAIN tasks
      /\ tasks'[k] = x /\ \A j \in DOMAIN tasks \ {k} : tasks'[j] = tasks[j]
      /\ \A j \in 0..Len(tasks) : EndOf(j)' = EndOf(j)
  BY <1>1, TaskMoves
<1>4. \A r \in DOMAIN tasks : Judged(r)' <=> Judged(r)
  <2> SUFFICES ASSUME NEW r \in DOMAIN tasks PROVE Judged(r)' <=> Judged(r)
    OBVIOUS
  <2>1. r \in DOMAIN tasks' /\ tasks'[r].b = tasks[r].b /\ tasks'[r].e = tasks[r].e
    BY <1>3
  <2> QED BY <2>1, JudgedStays
<1>5. \A r : Judged(r)' <=> Judged(r)
  BY <1>3, <1>4 DEF Judged
<1>6. AnswerInv'
  BY <1>1, AnswerStays
<1>7. ResultsCount' = ResultsCount /\ (Straight' <=> Straight)
  BY <1>2 DEF ResultsCount, ResultsSize, Straight, Even
<1>8. stage' = "reduce" => GroupInv'
  BY <1>2 DEF ChunkInv, GroupInv, Groups, Even
<1>9. (algo \notin Storers => results' = <<>>) => CallInv'
  BY <1>1, <1>2 DEF CallInv
<1>10. \A j \in DOMAIN tasks : EndOf(j)' = EndOf(j) /\ EndOf(j - 1)' = EndOf(j - 1)
  <2>1. PICK l \in Nat : l = Len(tasks) /\ DOMAIN tasks = 1..l
    BY <1>1, LenProperties DEF ChunksPartition
  <2>2. \A j \in 1..l : j \in 0..l /\ j - 1 \in 0..l
    OBVIOUS
  <2> QED BY <1>3, <2>1, <2>2
<1>11. Addends' = Addends /\ Operation' = Operation
  BY <1>2 DEF Addends, Ones, Hits, IsValue, Satisfies, Operation
<1> QED BY <1>2, <1>3, <1>5, <1>6, <1>7, <1>8, <1>9, <1>10, <1>11 DEF CutInv

-----------------------------------------------------------------------------
(* Counts and reductions.                                                   *)

\* A count is the sum of a one per element that is counted.
LEMMA CountIsFold ==
  ASSUME NEW S, NEW s \in Seq(S)
  PROVE  /\ Ones(s) \in Seq({0, 1}) /\ Ones(s) \in Seq(Nat) /\ Len(Ones(s)) = Len(s)
         /\ Fold("plus", 0, Ones(s)) = Cardinality({i \in DOMAIN s : Hits(s[i])})
<1>1. PICK n \in Nat : n = Len(s) /\ DOMAIN s = 1..n
  BY LenProperties
<1> DEFINE z == [i \in 1..n |-> IF Hits(s[i]) THEN 1 ELSE 0]
<1>2. Ones(s) = z
  BY <1>1 DEF Ones
<1>3. z \in Seq({0, 1}) /\ z \in Seq(Nat) /\ Len(z) = n /\ DOMAIN z = 1..n
  OBVIOUS
<1>4. \A i \in 1..n : z[i] = 1 <=> Hits(s[i])
  OBVIOUS
<1> HIDE DEF z
<1>5. {i \in DOMAIN z : z[i] = 1} = {i \in DOMAIN s : Hits(s[i])}
  BY <1>1, <1>3, <1>4
<1> QED BY <1>1, <1>2, <1>3, <1>5, OnesCount

\* The part of the ones that belongs to a part of the range.
LEMMA OnesOfPart ==
  ASSUME NEW S, NEW s \in Seq(S), NEW b \in Nat \ {0}, NEW d \in Nat, b <= d, d <= Len(s)
  PROVE  Ones(SubSeq(s, b, d)) = SubSeq(Ones(s), b, d)
<1>1. PICK n \in Nat : n = Len(s) /\ DOMAIN s = 1..n
  BY LenProperties
<1> DEFINE u == SubSeq(s, b, d)
           m == d - b + 1
<1>2. u \in Seq(S) /\ Len(u) = m /\ \A i \in 1..m : u[i] = s[b + i - 1]
  BY <1>1, SubSeqProperties
<1>3. DOMAIN u = 1..m
  BY <1>2, LenProperties
<1> DEFINE v == SubSeq(Ones(s), b, d)
<1>4. v \in Seq(Nat) /\ Len(v) = m /\ \A i \in 1..m : v[i] = Ones(s)[b + i - 1]
  <2>1. Ones(s) \in Seq(Nat) /\ Len(Ones(s)) = n
    BY <1>1, CountIsFold
  <2> HIDE DEF v
  <2> QED BY <1>1, <2>1, SubSeqProperties DEF v
<1>5. Ones(u) \in Seq(Nat) /\ Len(Ones(u)) = m
  BY <1>2, CountIsFold
<1>6. ASSUME NEW i \in 1..m PROVE Ones(u)[i] = v[i]
  <2>1. b + i - 1 \in 1..n
    BY <1>1
  <2>2. Ones(s)[b + i - 1] = IF Hits(s[b + i - 1]) THEN 1 ELSE 0
    BY <1>1, <2>1 DEF Ones
  <2>3. Ones(u)[i] = IF Hits(u[i]) THEN 1 ELSE 0
    BY <1>3 DEF Ones
  <2> HIDE DEF u, v
  <2> QED BY <1>2, <1>4, <2>2, <2>3
<1> HIDE DEF u, v
<1>7. Ones(u) = v
  BY <1>4, <1>5, <1>6, SeqEqual
<1> QED BY <1>7 DEF u, v

\* What is folded is as long as the range.
LEMMA AddendsType ==
  ASSUME CallInv, LoopFits, algo \in Adds
  PROVE  /\ Addends \in Seq(Nat) /\ Len(Addends) = Len(input) /\ loop.size = Len(input)
         /\ input \in Seq(Nat) /\ algo \in Storers /\ algo \notin Bools /\ algo \notin Outputs
<1>1. algo \in Storers /\ algo \notin Bools /\ algo \notin Outputs /\ algo # "map_reduce"
  BY DEF Adds, Counts, Reduces, Storers, Bools, Outputs, Writers
<1>2. input \in Seq(Nat) /\ loop.size = Len(input)
  <2>1. PICK n \in Nat : n = Len(input) /\ input \in [1..n -> Values]
    BY LenProperties DEF LoopFits
  <2>2. input \in [1..n -> Nat]
    BY <2>1, ValuesAssumption
  <2> QED BY <1>1, <2>2 DEF CallInv
<1>3. Addends \in Seq(Nat) /\ Len(Addends) = Len(input)
  BY <1>2, CountIsFold DEF Addends
<1> QED BY <1>1, <1>2, <1>3

\* What a task computes of its chunk.
Part(k) == Fold(Operation, init, SubSeq(Addends, EndOf(k - 1) + 1, EndOf(k)))

\* What the task of chunk k stores is the fold of its part.
LEMMA StoredNumber ==
  ASSUME CallInv, LoopFits, ChunksPartition, algo \in Adds, NEW k \in DOMAIN tasks
  PROVE  /\ Part(k) \in Nat
         /\ algo = "count"     => CountIn(Chunk(k), IsValue) = Part(k)
         /\ algo = "count_if"  => CountIn(Chunk(k), Satisfies) = Part(k)
         /\ algo = "reduce"    => Fold("plus", init, Chunk(k)) = Part(k)
         /\ algo = "reduce_op" => Fold("times", init, Chunk(k)) = Part(k)
<1>1. /\ Addends \in Seq(Nat) /\ Len(Addends) = Len(input) /\ loop.size = Len(input)
      /\ input \in Seq(Nat)
  BY AddendsType
<1>2. PICK n \in Nat : n = Len(input)
  BY <1>1, LenProperties
<1>3. PICK b \in Nat \ {0}, d \in Nat : /\ b = tasks[k].b /\ d = tasks[k].e - 1
                                       /\ b <= d /\ d <= n
  <2>1. /\ tasks[k].b \in 1..n /\ tasks[k].e \in 2..(n + 1) /\ tasks[k].b < tasks[k].e
    BY <1>1, <1>2, ChunkBounds
  <2>2. tasks[k].e - 1 \in Nat /\ tasks[k].b <= tasks[k].e - 1 /\ tasks[k].e - 1 <= n
    BY <2>1
  <2> QED BY <2>1, <2>2
<1>4. EndOf(k - 1) + 1 = b /\ EndOf(k) = d
  <2>1. k # 0
    BY ChunkBounds
  <2> QED BY <1>3, <2>1 DEF ChunksPartition, EndOf
<1>5. Part(k) = Fold(Operation, init, SubSeq(Addends, b, d))
  BY <1>4 DEF Part
<1>6. Chunk(k) = SubSeq(input, b, d)
  BY <1>3 DEF Chunk
<1>7. SubSeq(Addends, b, d) \in Seq(Nat) /\ SubSeq(input, b, d) \in Seq(Nat)
  <2>1. \A i \in b..d : i \in 1..n
    BY <1>3
  <2>2. /\ \A i \in b..d : i \in 1..Len(Addends)
        /\ \A i \in b..d : i \in 1..Len(input)
    BY <1>1, <1>2, <2>1
  <2>3. SubSeq(Addends, b, d) \in Seq(Nat)
    BY <1>1, <2>2, SubSeqProperties
  <2>4. SubSeq(input, b, d) \in Seq(Nat)
    BY <1>1, <2>2, SubSeqProperties
  <2> QED BY <2>3, <2>4
<1>8. Part(k) \in Nat
  BY <1>5, <1>7, FoldType DEF CallInv
<1>9. ASSUME algo \in Counts
      PROVE  Part(k) = Cardinality({i \in DOMAIN Chunk(k) : Hits(Chunk(k)[i])})
  <2>1. Operation = "plus" /\ init = 0 /\ Addends = Ones(input)
    BY <1>9 DEF Operation, CallInv, Addends, Counts
  <2>2. Ones(SubSeq(input, b, d)) = SubSeq(Ones(input), b, d)
    BY <1>1, <1>2, <1>3, OnesOfPart
  <2>3. Fold("plus", 0, Ones(SubSeq(input, b, d)))
          = Cardinality({i \in DOMAIN SubSeq(input, b, d) : Hits(SubSeq(input, b, d)[i])})
    BY <1>7, CountIsFold
  <2> QED BY <1>5, <1>6, <2>1, <2>2, <2>3
<1>10. CASE algo = "count"
  <2>1. CountIn(Chunk(k), IsValue) = Cardinality({i \in DOMAIN Chunk(k) : Hits(Chunk(k)[i])})
    BY <1>10 DEF CountIn, Hits
  <2> QED BY <1>8, <1>9, <1>10, <2>1 DEF Counts
<1>11. CASE algo = "count_if"
  <2>1. CountIn(Chunk(k), Satisfies) = Cardinality({i \in DOMAIN Chunk(k) : Hits(Chunk(k)[i])})
    BY <1>11 DEF CountIn, Hits
  <2> QED BY <1>8, <1>9, <1>11, <2>1 DEF Counts
<1>12. CASE algo \in Reduces
  <2>1. Addends = input /\ (algo = "reduce" => Operation = "plus")
        /\ (algo = "reduce_op" => Operation = "times")
    BY <1>12 DEF Addends, Counts, Reduces, Operation
  <2> QED BY <1>5, <1>6, <1>8, <1>12, <2>1 DEF Reduces
<1> QED BY <1>10, <1>11, <1>12 DEF Adds, Counts, Reduces

\* What std::count, count_if and reduce return.
LEMMA StdOfAdds ==
  ASSUME CallInv, LoopFits, algo \in Adds
  PROVE  Std = Fold(Operation, init, Addends)
<1>1. input \in Seq(Nat)
  BY AddendsType
<1>2. ASSUME algo \in Counts
      PROVE  Fold(Operation, init, Addends) = Cardinality({i \in DOMAIN input : Hits(input[i])})
  <2>1. Operation = "plus" /\ init = 0 /\ Addends = Ones(input)
    BY <1>2 DEF Operation, CallInv, Addends, Counts
  <2> QED BY <1>1, <2>1, CountIsFold
<1>3. CASE algo = "count"
  <2>1. Std = CountIn(input, IsValue)
    BY <1>3 DEF Std, Writers
  <2>2. CountIn(input, IsValue) = Cardinality({i \in DOMAIN input : Hits(input[i])})
    BY <1>3 DEF CountIn, Hits
  <2> QED BY <1>2, <1>3, <2>1, <2>2 DEF Counts
<1>4. CASE algo = "count_if"
  <2>1. Std = CountIn(input, Satisfies)
    BY <1>4 DEF Std, Writers
  <2>2. CountIn(input, Satisfies) = Cardinality({i \in DOMAIN input : Hits(input[i])})
    BY <1>4 DEF CountIn, Hits
  <2> QED BY <1>2, <1>4, <2>1, <2>2 DEF Counts
<1>5. CASE algo = "reduce"
  BY <1>5 DEF Std, Writers, Addends, Counts, Operation
<1>6. CASE algo = "reduce_op"
  BY <1>6 DEF Std, Writers, Addends, Counts, Operation
<1> QED BY <1>3, <1>4, <1>5, <1>6 DEF Adds, Counts, Reduces

\* A count or a reduction stores the result of one chunk.
LEMMA StoreStep ==
  ASSUME ChunkInv, algo \in Adds, NEW k \in DOMAIN tasks, Store(k, Part(k))
  PROVE  ChunkInv'
<1>1. CallInv /\ LoopFits /\ ChunksPartition /\ NumberInv /\ OutType
  BY DEF ChunkInv, CutInv
<1>2. algo \in Storers /\ algo \notin Bools /\ algo \notin Outputs
  BY <1>1, AddendsType
<1>3. tasks[k] \in ChunkTasks /\ k \in 1..ResultsCount /\ tasks[k].ri = k
  BY <1>1, ChunkBounds DEF ChunksPartition
<1> DEFINE x == [tasks[k] EXCEPT !.at = tasks[k].e]
<1>4. /\ x \in ChunkTasks /\ x.at = tasks[k].e /\ x.b = tasks[k].b /\ x.e = tasks[k].e
      /\ x.ri = tasks[k].ri /\ x.ob = tasks[k].ob
  BY <1>3 DEF ChunkTasks
<1>5. x.at \in tasks[k].b..tasks[k].e
  <2>1. tasks[k].b \in Nat /\ tasks[k].e \in Nat /\ tasks[k].b < tasks[k].e
    BY <1>1, <1>3, ChunkBounds DEF ChunkTasks
  <2> QED BY <1>4, <2>1
<1>6. /\ tasks' = [tasks EXCEPT ![k] = x]
      /\ results' = [results EXCEPT ![k] = Part(k)]
      /\ UNCHANGED <<request, loop, out, shuffled, stage, answer>>
  BY <1>3 DEF Store
<1> HIDE DEF x
<1>7. /\ CutInv' /\ AnswerInv' /\ (stage' = "reduce" => GroupInv') /\ CallInv'
      /\ DOMAIN tasks' = DOMAIN tasks
      /\ \A j \in DOMAIN tasks \ {k} : tasks'[j] = tasks[j]
      /\ \A j \in DOMAIN tasks : EndOf(j)' = EndOf(j) /\ EndOf(j - 1)' = EndOf(j - 1)
      /\ Addends' = Addends /\ Operation' = Operation
      /\ ResultsCount' = ResultsCount /\ UNCHANGED <<algo, init, loop>>
  <2>1. UNCHANGED <<request, loop, shuffled, stage, answer>>
    BY <1>6
  <2> QED BY <1>2, <1>4, <1>5, <1>6, <2>1, MoveStays
<1>8. NumberInv'
  <2>1. Part(k) \in Nat
    BY <1>1, StoredNumber
  <2>2. /\ results' \in [1..ResultsCount -> Nat] /\ results'[k] = Part(k)
        /\ \A j \in 1..ResultsCount \ {k} : results'[j] = results[j]
    BY <1>1, <1>3, <1>6, <2>1 DEF NumberInv
  <2>3. ASSUME NEW j \in DOMAIN tasks, tasks'[j].at = tasks'[j].e
        PROVE  results'[j] = Part(j)
    <3>1. j \in 1..ResultsCount
      BY <1>1, ChunkBounds
    <3>2. CASE j = k
      BY <2>2, <3>2
    <3>3. CASE j # k
      BY <1>1, <1>7, <2>2, <2>3, <3>1, <3>3 DEF NumberInv, Part
    <3> QED BY <3>2, <3>3
  <2> QED BY <1>7, <2>2, <2>3 DEF NumberInv, Part
<1>9. OutType'
  BY <1>1, <1>6 DEF OutType
<1> QED BY <1>2, <1>7, <1>8, <1>9 DEF ChunkInv

-----------------------------------------------------------------------------
(* Predicates: a result is a bit of a word.                                 *)

\* A word that is read holds nothing that is not right, and so it does when it
\* is written.
LEMMA StoreBitStep ==
  ASSUME ChunkInv, algo \in Bools, NEW k \in DOMAIN tasks, NEW value \in BOOLEAN,
         value <=> Judge(tasks[k].b, tasks[k].e), StoreBit(k, value)
  PROVE  ChunkInv'
<1>1. algo \notin Outputs /\ algo \notin Adds /\ algo \in Storers
  BY DEF Outputs, Adds, Counts, Reduces, Bools, Writers, Storers
<1>2. LoopFits /\ ChunksPartition /\ BoolInv /\ SingleInv /\ OutType
  BY DEF ChunkInv, CutInv
<1>3. PICK l \in Nat : l = Len(tasks) /\ DOMAIN tasks = 1..l
  BY <1>2, LenProperties DEF ChunksPartition
<1>4. PICK c \in Nat : c = ResultsCount /\ \A j \in DOMAIN tasks : j \in 1..c
  BY <1>2, ChunkBounds
<1>5. /\ tasks[k] \in ChunkTasks /\ k \in 1..c /\ tasks[k].ri = k
      /\ tasks[k].b \in Nat /\ tasks[k].e \in Nat /\ tasks[k].at \in tasks[k].b..tasks[k].e
      /\ tasks[k].b < tasks[k].e
  <2>1. tasks[k] \in ChunkTasks /\ tasks[k].at \in tasks[k].b..tasks[k].e /\ tasks[k].b < tasks[k].e
    BY <1>2, ChunkBounds
  <2>2. tasks[k].ri = k
    BY <1>2 DEF ChunksPartition
  <2> QED BY <1>4, <2>1, <2>2 DEF ChunkTasks
<1>6. /\ results \in [1..c -> BOOLEAN]
      /\ \A r \in 1..c : results[r] => Judged(r)
      /\ \A j \in DOMAIN tasks : \A q \in DOMAIN tasks[j].word :
           q \in 1..c /\ (tasks[j].word[q] => Judged(q))
  BY <1>2, <1>4 DEF BoolInv
<1>7. value <=> Judged(k)
  BY DEF Judged
<1>8. UNCHANGED <<request, loop, shuffled, stage, answer, out>> /\ tasks[k].at # tasks[k].e
  BY DEF StoreBit, Runs
<1>9. CASE /\ tasks[k].word = <<>>
           /\ tasks' = [tasks EXCEPT ![k].word =
                [q \in WordOf(tasks[k].ri) |->
                   IF q = tasks[k].ri THEN value ELSE results[q]]]
           /\ UNCHANGED results
  <2> DEFINE w == [q \in WordOf(k) |-> IF q = k THEN value ELSE results[q]]
             x == [tasks[k] EXCEPT !.word = w]
  <2>1. WordOf(k) \subseteq 1..c /\ k \in WordOf(k)
    BY <1>5, <1>6 DEF WordOf
  <2>2. /\ w \in [WordOf(k) -> BOOLEAN] /\ DOMAIN w = WordOf(k)
        /\ w[k] = value /\ \A q \in DOMAIN w : q \in 1..c /\ (w[q] => Judged(q))
    BY <1>6, <1>7, <2>1
  <2>3. w \in ChunkWords
    <3>1. WordOf(k) \in SUBSET Nat
      BY <2>1
    <3> QED BY <2>2, <3>1 DEF ChunkWords
  <2>4. tasks' = [tasks EXCEPT ![k] = x]
    BY <1>5, <1>9
  <2> HIDE DEF w
  <2>5. /\ x \in ChunkTasks /\ x.at = tasks[k].at /\ x.b = tasks[k].b /\ x.e = tasks[k].e
        /\ x.ri = tasks[k].ri /\ x.ob = tasks[k].ob /\ x.word = w
    BY <1>5, <2>3 DEF ChunkTasks
  <2>6. x.at \in tasks[k].b..tasks[k].e
    BY <1>5, <2>5
  <2> HIDE DEF x
  <2>7. /\ CutInv' /\ AnswerInv' /\ CallInv' /\ (stage' = "reduce" => GroupInv')
        /\ UNCHANGED <<algo, loop>> /\ DOMAIN tasks' = DOMAIN tasks
        /\ tasks'[k] = x /\ \A j \in DOMAIN tasks \ {k} : tasks'[j] = tasks[j]
        /\ \A r : Judged(r)' <=> Judged(r)
        /\ ResultsCount' = ResultsCount
    BY <1>1, <1>8, <2>4, <2>5, <2>6, MoveStays
  <2>8. BoolInv'
    <3>1. /\ results' \in [1..c -> BOOLEAN]
          /\ \A r \in 1..c : results'[r] => Judged(r)'
      BY <1>6, <1>9, <2>7
    <3>2. \A j \in DOMAIN tasks' : \A q \in DOMAIN tasks'[j].word :
            q \in 1..c /\ (tasks'[j].word[q] => Judged(q)')
      BY <1>6, <2>2, <2>5, <2>7
    <3> QED BY <1>4, <2>7, <3>1, <3>2 DEF BoolInv
  <2>9. SingleInv'
    <3> SUFFICES ASSUME c = 1, Judged(1)
                 PROVE  /\ tasks'[1].at = tasks'[1].e => results'[1]
                        /\ tasks'[1].word # <<>> =>
                             1 \in DOMAIN tasks'[1].word /\ tasks'[1].word[1]
      BY <1>4, <2>7 DEF SingleInv
    <3>1. k = 1
      BY <1>5
    <3>2. value
      BY <1>7, <3>1
    <3> QED BY <1>8, <2>1, <2>2, <2>5, <2>7, <3>1, <3>2
  <2>10. OutType'
    BY <1>2, <1>8, <2>7 DEF OutType
  <2> QED BY <1>1, <2>7, <2>8, <2>9, <2>10 DEF ChunkInv
<1>10. CASE /\ tasks[k].word # <<>>
            /\ results' = [q \in DOMAIN results |->
                 IF q \in DOMAIN tasks[k].word THEN tasks[k].word[q] ELSE results[q]]
            /\ tasks' = [tasks EXCEPT ![k].at = tasks[k].e, ![k].word = <<>>]
  <2> DEFINE x == [tasks[k] EXCEPT !.at = tasks[k].e, !.word = <<>>]
  <2>1. <<>> \in ChunkWords
    <3>1. <<>> \in [{} -> BOOLEAN]
      OBVIOUS
    <3> QED BY <3>1 DEF ChunkWords
  <2>2. tasks' = [tasks EXCEPT ![k] = x]
    BY <1>5, <1>10
  <2>3. /\ x \in ChunkTasks /\ x.at = tasks[k].e /\ x.b = tasks[k].b /\ x.e = tasks[k].e
        /\ x.ri = tasks[k].ri /\ x.ob = tasks[k].ob /\ x.word = <<>>
    BY <1>5, <2>1 DEF ChunkTasks
  <2>4. x.at \in tasks[k].b..tasks[k].e
    BY <1>5, <2>3
  <2> HIDE DEF x
  <2>5. /\ CutInv' /\ AnswerInv' /\ CallInv' /\ (stage' = "reduce" => GroupInv')
        /\ UNCHANGED <<algo, loop>> /\ DOMAIN tasks' = DOMAIN tasks
        /\ tasks'[k] = x /\ \A j \in DOMAIN tasks \ {k} : tasks'[j] = tasks[j]
        /\ \A r : Judged(r)' <=> Judged(r)
        /\ ResultsCount' = ResultsCount
    BY <1>1, <1>8, <2>2, <2>3, <2>4, MoveStays
  <2>6. \A q \in DOMAIN tasks[k].word : tasks[k].word[q] \in BOOLEAN
    <3>1. tasks[k].word \in ChunkWords
      BY <1>5 DEF ChunkTasks
    <3>2. PICK S \in SUBSET Nat : tasks[k].word \in [S -> BOOLEAN]
      BY <3>1 DEF ChunkWords
    <3> QED BY <3>2
  <2>7. results' \in [1..c -> BOOLEAN]
    BY <1>6, <1>10, <2>6
  <2>8. \A r \in 1..c : results'[r] =
          IF r \in DOMAIN tasks[k].word THEN tasks[k].word[r] ELSE results[r]
    BY <1>6, <1>10
  <2>9. BoolInv'
    <3>1. \A r \in 1..c : results'[r] => Judged(r)'
      BY <1>6, <2>5, <2>8
    <3>2. \A j \in DOMAIN tasks' : \A q \in DOMAIN tasks'[j].word :
            q \in 1..c /\ (tasks'[j].word[q] => Judged(q)')
      <4>1. \A j \in DOMAIN tasks \ {k} : \A q \in DOMAIN tasks'[j].word :
              q \in 1..c /\ (tasks'[j].word[q] => Judged(q)')
        BY <1>6, <2>5
      <4>2. \A q \in DOMAIN tasks'[k].word : FALSE
        BY <2>3, <2>5
      <4> QED BY <2>5, <4>1, <4>2
    <3> QED BY <1>4, <2>5, <2>7, <3>1, <3>2 DEF BoolInv
  <2>10. SingleInv'
    <3> SUFFICES ASSUME c = 1, Judged(1)
                 PROVE  /\ tasks'[1].at = tasks'[1].e => results'[1]
                        /\ tasks'[1].word # <<>> =>
                             1 \in DOMAIN tasks'[1].word /\ tasks'[1].word[1]
      BY <1>4, <2>5 DEF SingleInv
    <3>1. k = 1
      BY <1>5
    <3>2. 1 \in DOMAIN tasks[1].word /\ tasks[1].word[1]
      BY <1>2, <1>4, <1>10, <3>1 DEF SingleInv
    <3> QED BY <1>5, <2>3, <2>5, <2>8, <3>1, <3>2
  <2>11. OutType'
    BY <1>2, <1>8, <2>5 DEF OutType
  <2> QED BY <1>1, <2>5, <2>9, <2>10, <2>11 DEF ChunkInv
<1> QED BY <1>9, <1>10 DEF StoreBit

\* A position that is written was not written before, and belongs there.
LEMMA WriteStep ==
  ASSUME ChunkInv, algo \in Outputs, NEW k \in DOMAIN tasks, NEW from,
         Straight => from = tasks[k].b, Write(k, from)
  PROVE  ChunkInv'
<1>1. algo \notin Bools /\ algo \notin Adds /\ algo \notin Storers
  BY DEF Outputs, Bools, Writers, Adds, Counts, Reduces, Storers
<1>2. LoopFits /\ ChunksPartition /\ CallInv
  BY DEF ChunkInv, CutInv
<1>3. PICK n \in Nat : n = loop.size
  BY <1>2 DEF LoopFits
<1>4. \A j \in DOMAIN tasks :
        /\ tasks[j].b \in 1..n /\ tasks[j].e \in 2..(n + 1)
        /\ tasks[j].at \in tasks[j].b..tasks[j].e /\ tasks[j].b < tasks[j].e
        /\ tasks[j] \in ChunkTasks /\ j \in Nat
  BY <1>2, <1>3, ChunkBounds
<1>5. PICK b \in 1..n, e \in 2..(n + 1), at \in 1..n :
        b = tasks[k].b /\ e = tasks[k].e /\ at = tasks[k].at /\ b <= at /\ at < e
  <2>1. tasks[k].at # tasks[k].e
    BY DEF Write, Runs
  <2>2. tasks[k].at \in 1..n /\ tasks[k].b <= tasks[k].at /\ tasks[k].at < tasks[k].e
    BY <1>4, <2>1
  <2> QED BY <1>4, <2>2
<1> DEFINE x == [tasks[k] EXCEPT !.at = at + 1]
<1>6. /\ x \in ChunkTasks /\ x.at = at + 1 /\ x.b = tasks[k].b /\ x.e = tasks[k].e
      /\ x.ri = tasks[k].ri /\ x.ob = tasks[k].ob
  <2>1. tasks[k] \in ChunkTasks
    BY <1>4
  <2> QED BY <2>1 DEF ChunkTasks
<1>7. x.at \in tasks[k].b..tasks[k].e
  BY <1>5, <1>6
<1>8. tasks' = [tasks EXCEPT ![k] = x] /\ UNCHANGED <<request, loop, results, shuffled, stage, answer>>
  BY <1>5 DEF Write
<1> HIDE DEF x
<1>9. /\ CutInv' /\ AnswerInv' /\ CallInv' /\ (stage' = "reduce" => GroupInv')
      /\ UNCHANGED <<algo, loop>> /\ DOMAIN tasks' = DOMAIN tasks
      /\ tasks'[k] = x /\ \A j \in DOMAIN tasks \ {k} : tasks'[j] = tasks[j]
      /\ (Straight' <=> Straight)
  <2>1. algo \notin Storers => results' = <<>>
    BY <1>2, <1>8 DEF CallInv
  <2> QED BY <1>6, <1>7, <1>8, <2>1, MoveStays
<1>11. OutType'
  <2>1. out \in [1..n -> Seq(1..n)]
    BY <1>3 DEF ChunkInv, OutType
  <2>2. PICK to : out' = [out EXCEPT ![to] = Append(out[to], at)]
    BY <1>5 DEF Write
  <2>3. to \in 1..n => Append(out[to], at) \in Seq(1..n)
    BY <2>1, AppendProperties
  <2>4. out' \in [1..n -> Seq(1..n)]
    BY <2>1, <2>2, <2>3
  <2> QED BY <1>3, <1>9, <2>4 DEF OutType
<1>10. ASSUME Straight PROVE WriteInv'
  <2>1. /\ out \in [1..n -> Seq(1..n)]
        /\ \A i \in 1..n : out[i] = IF Written(i) THEN <<i>> ELSE <<>>
    BY <1>3, <1>10 DEF ChunkInv, WriteInv, OutType
  <2>2. ~Written(at)
    <3> SUFFICES ASSUME NEW j \in DOMAIN tasks, tasks[j].b <= at, at < tasks[j].at
                 PROVE  FALSE
      BY DEF Written
    <3>1. j # k
      BY <1>5
    <3>2. CASE j < k
      <4>1. tasks[j].e <= b
        BY <1>2, <1>5, <3>2 DEF ChunksPartition
      <4> QED BY <1>4, <1>5, <4>1
    <3>3. CASE k < j
      <4>1. e <= tasks[j].b
        BY <1>2, <1>5, <3>3 DEF ChunksPartition
      <4> QED BY <1>4, <1>5, <4>1
    <3> QED BY <1>4, <3>1, <3>2, <3>3
  <2>3. out' = [out EXCEPT ![at] = <<at>>]
    <3>1. from + tasks[k].at - tasks[k].b = at
      BY <1>5, <1>10
    <3>2. out' = [out EXCEPT ![at] = Append(out[at], at)]
      BY <1>5, <3>1 DEF Write
    <3>3. Append(out[at], at) = <<at>>
      <4>1. out[at] = <<>>
        BY <2>1, <2>2
      <4>2. Append(<<>>, at) = <<at>>
        OBVIOUS
      <4> QED BY <4>1, <4>2
    <3> QED BY <3>2, <3>3
  <2>4. \A i \in 1..n : Written(i)' <=> Written(i) \/ i = at
    <3> SUFFICES ASSUME NEW i \in 1..n PROVE Written(i)' <=> Written(i) \/ i = at
      OBVIOUS
    <3>1. b <= i /\ i < at + 1 <=> (b <= i /\ i < at) \/ i = at
      BY <1>5
    <3> QED BY <1>5, <1>6, <1>9, <3>1 DEF Written
  <2>6. \A i \in 1..n : out'[i] = IF Written(i)' THEN <<i>> ELSE <<>>
    BY <2>1, <2>3, <2>4
  <2> QED BY <1>3, <1>9, <2>6 DEF WriteInv
<1> QED BY <1>1, <1>9, <1>10, <1>11 DEF ChunkInv

-----------------------------------------------------------------------------
(* The end of a call.                                                       *)

\* When all tasks have ended, each element is in a chunk that has, and each
\* result is that of a task.
LEMMA EndCovers ==
  ASSUME LoopFits, ChunksPartition, AllEnded
  PROVE  /\ \A k \in DOMAIN tasks : tasks[k].at = tasks[k].e
         /\ \A i \in 1..loop.size : \E k \in DOMAIN tasks : i \in tasks[k].b..(tasks[k].e - 1)
         /\ Len(tasks) = ResultsCount /\ loop.b = loop.size + 1
<1>1. PICK n \in Nat : n = loop.size
  BY DEF LoopFits
<1>2. loop.b = n + 1 /\ \A k \in DOMAIN tasks : tasks[k].at = tasks[k].e
  BY <1>1 DEF AllEnded, RangeEnd, LoopFits
<1>3. ASSUME NEW i \in 1..n
      PROVE  \E k \in DOMAIN tasks : i \in tasks[k].b..(tasks[k].e - 1)
  <2>1. i \in 1..(loop.b - 1)
    BY <1>2
  <2>2. PICK k \in DOMAIN tasks : tasks[k].b <= i /\ i < tasks[k].e
    BY <2>1 DEF ChunksPartition
  <2>3. tasks[k].b \in Nat /\ tasks[k].e \in Nat
    BY ChunkBounds DEF ChunkTasks
  <2>4. i \in tasks[k].b..(tasks[k].e - 1)
    BY <2>2, <2>3
  <2> QED BY <2>4
<1>4. Len(tasks) = ResultsCount
  <2>1. PICK l \in Nat : l = Len(tasks)
    BY LenProperties DEF ChunksPartition
  <2>2. PICK c \in Nat \ {0} : c = chunk_size
    BY DEF LoopFits
  <2>3. n <= l * c
    <3>1. n + 1 <= l * c + 1 /\ l * c \in Int
      BY <1>1, <1>2, <2>1, <2>2 DEF LoopFits
    <3> QED BY <3>1
  <2>4. ResultsCount <= l /\ l <= ResultsCount /\ ResultsCount \in Nat
    BY <1>1, <2>1, <2>2, <2>3, ResultsAreEnough DEF ResultsCount, LoopFits
  <2> QED BY <2>1, <2>4
<1> QED BY <1>1, <1>2, <1>3, <1>4

\* The value returned by the predicates.
LEMMA AnswerIsRight ==
  ASSUME LoopFits, ChunksPartition, BoolInv, SingleInv, AllEnded, loop.size = Len(input),
         NEW value \in BOOLEAN,
         value <=> IF algo = "any_of" THEN \E r \in DOMAIN results : results[r]
                                      ELSE \A r \in DOMAIN results : results[r]
  PROVE  /\ value => Judge(1, Len(input) + 1)
         /\ (ResultsCount <= 1 /\ ~value) => ~Judge(1, Len(input) + 1)
<1>1. PICK n \in Nat : n = Len(input)
  BY LenProperties DEF LoopFits
<1>2. PICK c \in Nat : c = ResultsCount
  <2>1. PICK d \in Nat \ {0} : d = chunk_size
    BY DEF LoopFits
  <2> QED BY <1>1, <2>1, ResultsAreEnough DEF ResultsCount
<1>3. /\ \A i \in 1..n : \E k \in DOMAIN tasks : i \in tasks[k].b..(tasks[k].e - 1)
      /\ \A k \in DOMAIN tasks : tasks[k].at = tasks[k].e
  BY <1>1, EndCovers
<1>4. /\ DOMAIN results = 1..c
      /\ \A r \in 1..c : results[r] => Judged(r)
  BY <1>2 DEF BoolInv
<1>5. \A k \in DOMAIN tasks :
        k \in 1..c /\ tasks[k].b \in 1..n /\ tasks[k].e \in 2..(n + 1)
  BY <1>1, <1>2, ChunkBounds
<1>6. \A k \in DOMAIN tasks : \A i \in tasks[k].b..(tasks[k].e - 1) : i \in 1..n
  BY <1>5
<1>7. (1..(n + 1 - 1)) = 1..n
  BY <1>1
<1>8. ASSUME value PROVE Judge(1, n + 1)
  <2>1. CASE algo = "any_of"
    <3>1. PICK r \in 1..c : results[r]
      BY <1>4, <1>8, <2>1
    <3>2. r \in DOMAIN tasks /\ Judge(tasks[r].b, tasks[r].e)
      BY <1>4, <3>1 DEF Judged
    <3>3. PICK i \in tasks[r].b..(tasks[r].e - 1) : Passes(i)
      BY <2>1, <3>2 DEF Judge
    <3> QED BY <1>6, <1>7, <2>1, <3>2, <3>3 DEF Judge
  <2>2. CASE algo # "any_of"
    <3>1. \A r \in 1..c : Judged(r)
      BY <1>4, <1>8, <2>2
    <3>2. ASSUME NEW i \in 1..n PROVE Passes(i)
      <4>1. PICK k \in DOMAIN tasks : i \in tasks[k].b..(tasks[k].e - 1)
        BY <1>3
      <4>2. Judge(tasks[k].b, tasks[k].e)
        BY <1>5, <3>1 DEF Judged
      <4> QED BY <2>2, <4>1, <4>2 DEF Judge
    <3> QED BY <1>7, <2>2, <3>2 DEF Judge
  <2> QED BY <2>1, <2>2
<1>9. ASSUME c <= 1, Judge(1, n + 1) PROVE value
  <2>1. CASE n = 0
    <3>1. c = 0
      <4>1. PICK d \in Nat \ {0} : d = chunk_size
        BY DEF LoopFits
      <4>2. 0 % d = 0 /\ 0 \div d = 0
        OBVIOUS
      <4> QED BY <1>1, <1>2, <2>1, <4>1, <4>2 DEF ResultsCount, ResultsSize
    <3>2. algo # "any_of"
      <4>1. \A i \in 1..n : FALSE
        BY <2>1
      <4> QED BY <1>7, <1>9, <4>1 DEF Judge
    <3>3. \A r \in 1..c : FALSE
      BY <3>1
    <3> QED BY <1>4, <3>2, <3>3
  <2>2. CASE n # 0
    <3>1. \A k \in DOMAIN tasks : k = 1
      BY <1>5, <1>9
    <3>2. 1 \in DOMAIN tasks /\ c = 1
      <4>1. 1 \in 1..n
        BY <2>2
      <4>2. PICK k \in DOMAIN tasks : 1 \in tasks[k].b..(tasks[k].e - 1)
        BY <1>3, <4>1
      <4>3. k = 1 /\ k \in 1..c
        BY <1>5, <3>1, <4>2
      <4> QED BY <1>9, <4>3
    <3>3. \A i \in 1..n : i \in tasks[1].b..(tasks[1].e - 1)
      BY <1>3, <3>1
    <3>4. Judge(tasks[1].b, tasks[1].e)
      <4>1. CASE algo = "any_of"
        <5>1. PICK i \in 1..n : Passes(i)
          BY <1>7, <1>9, <4>1 DEF Judge
        <5>2. i \in tasks[1].b..(tasks[1].e - 1)
          BY <3>3
        <5> QED BY <4>1, <5>1, <5>2 DEF Judge
      <4>2. CASE algo # "any_of"
        <5>1. \A i \in 1..n : Passes(i)
          BY <1>7, <1>9, <4>2 DEF Judge
        <5>2. \A i \in tasks[1].b..(tasks[1].e - 1) : i \in 1..n
          BY <1>6, <3>2
        <5> QED BY <4>2, <5>1, <5>2 DEF Judge
      <4> QED BY <4>1, <4>2
    <3>5. results[1]
      BY <1>2, <1>3, <3>2, <3>4 DEF SingleInv, Judged
    <3>6. 1..c = {1}
      BY <3>2
    <3> QED BY <1>4, <3>5, <3>6
  <2> QED BY <2>1, <2>2
<1> QED BY <1>1, <1>2, <1>8, <1>9

\* The end of a call changes the answer only.
LEMMA OnlyAnswer ==
  ASSUME ChunkInv, UNCHANGED <<request, loop, tasks, results, out, shuffled, stage>>, AnswerInv'
  PROVE  ChunkInv'
<1>1. UNCHANGED <<algo, input, chunk_size, init, loop, tasks, results, out, shuffled, stage>>
  BY DEF request
<1>2. CallInv'
  BY <1>1 DEF ChunkInv, CallInv
<1>3. ResultsCount' = ResultsCount /\ \A k : EndOf(k)' = EndOf(k)
  BY <1>1 DEF ResultsCount, ResultsSize, EndOf
<1>4. LoopFits' /\ OutputsFit' /\ OutType'
  BY <1>1, <1>3 DEF ChunkInv, CutInv, LoopFits, OutputsFit, SafeAdvance, Even, OutType
<1>5. ChunksPartition'
  BY <1>1, <1>3 DEF ChunkInv, CutInv, ChunksPartition, EndOf
<1>6. \A r : Judged(r)' <=> Judged(r)
  BY <1>1 DEF Judged, Judge, Passes
<1>7. algo \in Bools => BoolInv' /\ SingleInv'
  BY <1>1, <1>3, <1>6 DEF ChunkInv, BoolInv, SingleInv
<1>8. algo \in Adds => NumberInv'
  <2>1. Addends' = Addends /\ Operation' = Operation
    BY <1>1 DEF Addends, Ones, Hits, IsValue, Satisfies, Operation
  <2> QED BY <1>1, <1>3, <2>1 DEF ChunkInv, NumberInv
<1>9. algo \in Outputs /\ Straight' => WriteInv'
  BY <1>1 DEF ChunkInv, Straight, Even, WriteInv, Written
<1>10. stage' = "reduce" => GroupInv'
  BY <1>1 DEF ChunkInv, GroupInv, Groups, Even
<1> QED BY <1>1, <1>2, <1>4, <1>5, <1>7, <1>8, <1>9, <1>10 DEF ChunkInv, CutInv

\* The predicates return what is right, as far as the stores do not lose it.
LEMMA ReturnBoolStep ==
  ASSUME ChunkInv, algo \in Bools, NEW value \in BOOLEAN,
         value <=> IF algo = "any_of" THEN \E r \in DOMAIN results : results[r]
                                      ELSE \A r \in DOMAIN results : results[r],
         Return(value)
  PROVE  ChunkInv'
<1>1. /\ UNCHANGED <<request, algo, input, chunk_size, loop, tasks, results, out, shuffled, stage>>
      /\ answer' = <<value>> /\ AllEnded
  BY DEF Return, request
<1>2. LoopFits /\ ChunksPartition /\ BoolInv /\ SingleInv /\ loop.size = Len(input)
  BY DEF ChunkInv, CutInv, CallInv, Bools
<1>3. /\ value => Judge(1, Len(input) + 1)
      /\ (ResultsCount <= 1 /\ ~value) => ~Judge(1, Len(input) + 1)
  BY <1>1, <1>2, AnswerIsRight
<1>4. AnswerInv'
  <2>1. /\ Judge(1, Len(input) + 1)' <=> Judge(1, Len(input) + 1)
        /\ ResultsSize(Len(input), chunk_size)' = ResultsCount
    BY <1>1, <1>2 DEF Judge, Passes, ResultsCount, ResultsSize
  <2>2. <<value>> \in {<<TRUE>>, <<FALSE>>} /\ (<<value>> = <<TRUE>> => value)
        /\ (<<value>> = <<FALSE>> => ~value)
    OBVIOUS
  <2> QED BY <1>1, <1>3, <2>1, <2>2 DEF AnswerInv
<1> QED BY <1>1, <1>4, OnlyAnswer

\* The other algorithms: an answer that is right, where it is said to be.
LEMMA ReturnStep ==
  ASSUME ChunkInv, algo \notin Bools, NEW value, Return(value), Exact => value = Std
  PROVE  ChunkInv'
<1>1. /\ UNCHANGED <<request, algo, loop, tasks, results, out, shuffled, stage>>
      /\ answer' = <<value>>
  BY DEF Return, request
<1>2. Std' = Std /\ (Exact' <=> Exact)
  BY <1>1, StdStays
<1>3. AnswerInv'
  BY <1>1, <1>2 DEF AnswerInv
<1> QED BY <1>1, <1>3, OnlyAnswer

\* The results of the chunks are added up as the elements would be.
LEMMA NumberIsRight ==
  ASSUME ChunkInv, algo \in Adds, AllEnded, Exact
  PROVE  Fold(Operation, init, results) = Std
<1>1. LoopFits /\ ChunksPartition /\ NumberInv /\ CallInv
  BY DEF ChunkInv, CutInv
<1>2. PICK z \in Seq(Nat), n \in Nat : z = Addends /\ Len(z) = n /\ loop.size = n /\ Len(input) = n
  BY <1>1, AddendsType, LenProperties
<1>3. PICK l \in Nat : l = Len(tasks) /\ DOMAIN tasks = 1..l
  BY <1>1, LenProperties DEF ChunksPartition
<1>4. /\ \A k \in 1..l : tasks[k].at = tasks[k].e
      /\ ResultsCount = l /\ loop.b = n + 1
  BY <1>1, <1>2, <1>3, EndCovers
<1>5. results \in Seq(Nat) /\ Len(results) = l
  BY <1>1, <1>4 DEF NumberInv
<1>6. \A k \in 1..l : /\ tasks[k].b \in 1..n /\ tasks[k].e \in 2..(n + 1)
                      /\ tasks[k].b < tasks[k].e /\ tasks[k].b = EndOf(k - 1) + 1
                      /\ EndOf(k) = tasks[k].e - 1
  <2> SUFFICES ASSUME NEW k \in 1..l
               PROVE  /\ tasks[k].b \in 1..n /\ tasks[k].e \in 2..(n + 1)
                      /\ tasks[k].b < tasks[k].e /\ tasks[k].b = EndOf(k - 1) + 1
                      /\ EndOf(k) = tasks[k].e - 1
    OBVIOUS
  <2>1. k \in DOMAIN tasks /\ k # 0
    BY <1>3
  <2>2. tasks[k].b \in 1..n /\ tasks[k].e \in 2..(n + 1)
    BY <1>1, <1>2, <2>1, ChunkBounds
  <2>3. tasks[k].b < tasks[k].e /\ tasks[k].b = EndOf(k - 1) + 1
    BY <1>1, <2>1 DEF ChunksPartition
  <2>4. EndOf(k) = tasks[k].e - 1
    BY <2>1 DEF EndOf
  <2> QED BY <2>2, <2>3, <2>4
<1> DEFINE p == [k \in 0..l |-> EndOf(k)]
<1>7. p[0] = 0
  BY DEF EndOf
<1>8. \A k \in 0..l : p[k] = EndOf(k) /\ p[k] \in 0..n
  <2> SUFFICES ASSUME NEW k \in 0..l PROVE EndOf(k) \in 0..n
    OBVIOUS
  <2>1. CASE k = 0
    BY <2>1 DEF EndOf
  <2>2. CASE k # 0
    <3>1. k \in 1..l
      BY <2>2
    <3>2. EndOf(k) = tasks[k].e - 1 /\ tasks[k].e \in 2..(n + 1)
      BY <1>6, <3>1
    <3> QED BY <3>2
  <2> QED BY <2>1, <2>2
<1>8a. p \in [0..l -> 0..n]
  BY <1>8
<1>9. p[l] = n
  <2>1. n + 1 = EndOf(l) + 1 /\ p[l] = EndOf(l) /\ p[l] \in 0..n
    BY <1>1, <1>3, <1>4, <1>8 DEF ChunksPartition
  <2> QED BY <2>1
<1> HIDE DEF p
<1>10. ASSUME NEW k \in 1..l
       PROVE  /\ p[k - 1] <= p[k]
              /\ results[k] = Fold(Operation, init, SubSeq(z, p[k - 1] + 1, p[k]))
  <2>1. k - 1 \in 0..l /\ k \in 0..l
    OBVIOUS
  <2>2. p[k - 1] = EndOf(k - 1) /\ p[k] = EndOf(k) /\ p[k - 1] \in Nat /\ p[k] \in Nat
    BY <1>8, <2>1
  <2>3. p[k - 1] <= p[k]
    <3>1. /\ tasks[k].b \in 1..n /\ tasks[k].e \in 2..(n + 1) /\ tasks[k].b < tasks[k].e
          /\ tasks[k].b = p[k - 1] + 1 /\ p[k] = tasks[k].e - 1
      BY <1>6, <2>2
    <3> QED BY <2>2, <3>1
  <2>4. results[k] = Fold(Operation, init, SubSeq(Addends, EndOf(k - 1) + 1, EndOf(k)))
    BY <1>1, <1>3, <1>4 DEF NumberInv
  <2> QED BY <1>2, <2>2, <2>3, <2>4
<1>11. l = 0 \/ init = Unit(Operation)
  <2>1. CASE algo \in Counts
    BY <1>1, <2>1 DEF CallInv, Operation, Unit, Counts
  <2>2. CASE algo \in Reduces
    <3>1. input = <<>> \/ init = Neutral
      BY <2>2 DEF Exact, Reduces, Bools
    <3>2. Neutral = Unit(Operation)
      BY <2>2 DEF Neutral, Operation, Unit, Reduces
    <3>3. ASSUME input = <<>>, l # 0 PROVE FALSE
      <4>1. n = 0
        BY <1>2, <3>3
      <4>2. 1 \in 1..l
        BY <3>3
      <4> QED BY <1>6, <4>1, <4>2
    <3> QED BY <3>1, <3>2, <3>3
  <2> QED BY <2>1, <2>2 DEF Adds
<1>12. init \in Nat
  BY <1>1 DEF CallInv
<1>13. PICK r \in Seq(Nat) : r = results
  BY <1>5
<1>14. Fold(Operation, init, r) = Fold(Operation, init, z)
  <2>1. Len(r) = l
    BY <1>5, <1>13
  <2>2. p[Len(r)] = Len(z)
    BY <1>2, <1>9, <2>1
  <2>3. p \in [0..Len(r) -> 0..Len(z)]
    BY <1>2, <1>8a, <2>1
  <2>4. \A k \in 1..Len(r) : p[k - 1] <= p[k]
    BY <1>10, <2>1
  <2>5. \A k \in 1..Len(r) : r[k] = Fold(Operation, init, SubSeq(z, p[k - 1] + 1, p[k]))
    BY <1>10, <1>13, <2>1
  <2>6. Len(r) = 0 \/ init = Unit(Operation)
    BY <1>11, <2>1
  <2>7. z \in Seq(Nat) /\ r \in Seq(Nat) /\ init \in Nat
    BY <1>12
  <2> QED BY ONLY <1>7, <2>2, <2>3, <2>4, <2>5, <2>6, <2>7, ChunkedFold
<1>15. Std = Fold(Operation, init, Addends)
  BY <1>1, StdOfAdds
<1> QED BY <1>2, <1>13, <1>14, <1>15

-----------------------------------------------------------------------------
(* The algorithms that write.                                               *)

\* Every position has been written once.
LEMMA OutIsDone ==
  ASSUME ChunkInv, algo \in Outputs, Straight, AllEnded
  PROVE  out = [i \in 1..loop.size |-> <<i>>]
<1>1. LoopFits /\ ChunksPartition /\ OutType /\ WriteInv
  BY DEF ChunkInv, CutInv
<1>2. ASSUME NEW i \in 1..loop.size PROVE Written(i)
  <2>1. PICK k \in DOMAIN tasks : i \in tasks[k].b..(tasks[k].e - 1) /\ tasks[k].at = tasks[k].e
    BY <1>1, EndCovers
  <2>2. tasks[k].b \in Nat /\ tasks[k].e \in Nat
    BY <1>1, ChunkBounds DEF ChunkTasks
  <2>3. tasks[k].b <= i /\ i < tasks[k].at
    BY <2>1, <2>2
  <2> QED BY <2>3 DEF Written
<1>3. \A i \in 1..loop.size : out[i] = <<i>>
  BY <1>1, <1>2 DEF WriteInv
<1> QED BY <1>1, <1>3 DEF OutType

\* The algorithms that write return an output that is done.
LEMMA ReturnOutStep ==
  ASSUME ChunkInv, algo \in Writers, Return(out)
  PROVE  ChunkInv'
<1>1. /\ algo \in Outputs /\ algo \notin Bools /\ algo \notin Reduces
      /\ algo # "map_reduce" /\ algo \notin Counts
  BY DEF Outputs, Bools, Writers, Reduces, Counts
<1>2. CallInv /\ LoopFits
  BY DEF ChunkInv, CutInv
<1>3. loop.size = Len(input) /\ DOMAIN input = 1..Len(input)
  BY <1>1, <1>2, LenProperties DEF CallInv, LoopFits
<1>4. ASSUME Exact PROVE out = Std
  <2>1. Straight
    BY <1>1, <1>3, <1>4 DEF Exact, Straight, Writers
  <2>2. out = [i \in 1..loop.size |-> <<i>>]
    BY <1>1, <2>1, OutIsDone DEF Return
  <2>3. Std = [i \in DOMAIN input |-> <<i>>]
    BY DEF Std, Writers
  <2> QED BY <1>3, <2>2, <2>3
<1> QED BY <1>1, <1>4, ReturnStep

\* Where a loop over n elements starts.
LEMMA LoopStartIs ==
  ASSUME NEW n \in Nat, NEW c \in Nat \ {0}, c = chunk_size
  PROVE  /\ LoopStart(n) \in [size : Nat, b : Nat, e : Nat, ri : Nat, ob : Nat]
         /\ LoopStart(n).size = n /\ LoopStart(n).b = 1 /\ LoopStart(n).b \in 1..(n + 1)
         /\ LoopStart(n).e = 1 + SafeAdvance(1, n + 1, c)
         /\ LoopStart(n).ri = 1 /\ LoopStart(n).ob = 1
         /\ 0 * c + 1 = 1 /\ ResultsSize(n, c) \in Nat
<1>1. SafeAdvance(1, n + 1, c) \in Nat
  BY DEF SafeAdvance
<1> DEFINE m == SafeAdvance(1, n + 1, c)
<1>2. LoopStart(n) = [size |-> n, b |-> 1, e |-> 1 + m, ri |-> 1, ob |-> 1]
  BY DEF LoopStart
<1>3. 1 + m \in Nat /\ 1 \in 1..(n + 1)
  BY <1>1
<1> HIDE DEF m
<1>4. ResultsSize(n, c) \in Nat /\ 0 * c + 1 = 1
  BY ResultsAreEnough
<1> QED BY <1>2, <1>3, <1>4 DEF m

\* map_reduce groups the values of the input by their keys.
LEMMA ShuffleStep ==
  ASSUME ChunkInv, algo = "map_reduce", Shuffle, Values \subseteq Nat
  PROVE  ChunkInv'
<1>1. /\ AllEnded /\ stage = "map" /\ stage' = "reduce" /\ tasks' = <<>>
      /\ shuffled' = [x \in {KeyOf(input, out[i]) : i \in DOMAIN out} |-> Group(input, out, x)]
      /\ UNCHANGED <<request, algo, input, chunk_size, init, results, answer>>
  BY DEF Shuffle, request
<1>2. CallInv /\ LoopFits /\ OutType /\ AnswerInv
  BY DEF ChunkInv, CutInv
<1>3. PICK n \in Nat : n = Len(input) /\ loop.size = n /\ DOMAIN input = 1..n
  BY <1>1, <1>2, LenProperties DEF CallInv, LoopFits
<1>4. PICK c \in Nat \ {0} : c = chunk_size
  BY <1>2 DEF LoopFits
<1>5. DOMAIN out = 1..n /\ \A i \in 1..n : out[i] \in Seq(1..n)
  BY <1>2, <1>3 DEF OutType
<1>6. \A i \in 1..n : KeyOf(input, out[i]) \in Nat
  <2> SUFFICES ASSUME NEW i \in 1..n PROVE KeyOf(input, out[i]) \in Nat
    OBVIOUS
  <2>1. CASE out[i] = <<>>
    BY <2>1 DEF KeyOf
  <2>2. CASE out[i] # <<>>
    <3>1. PICK l \in Nat : l = Len(out[i])
      BY <1>5, LenProperties
    <3>2. out[i][l] \in 1..n
      <4>1. l # 0
        BY <1>5, <2>2, <3>1, EmptySeq
      <4> QED BY <1>5, <3>1, <4>1, ElementOfSeq
    <3>3. Last(out[i]) \in 1..n
      BY <3>1, <3>2 DEF Last
    <3>4. input[Last(out[i])] \in Nat
      <4>1. input \in Seq(Values)
        BY <1>2 DEF LoopFits
      <4> QED BY <1>3, <3>3, <4>1, ElementOfSeq
    <3> QED BY <2>2, <3>4 DEF KeyOf
  <2> QED BY <2>1, <2>2
<1> DEFINE f == [i \in 1..n |-> KeyOf(input, out[i])]
           K == {KeyOf(input, out[i]) : i \in 1..n}
<1>7. IsFiniteSet(K) /\ K \in SUBSET Nat /\ Cardinality(K) \in Nat
  <2>1. IsFiniteSet(1..n)
    BY FS_Interval
  <2>2. f \in Surjection(1..n, K)
    BY DEF Surjection
  <2>3. K \in SUBSET Nat
    BY <1>6
  <2> HIDE DEF f, K
  <2> QED BY <2>1, <2>2, <2>3, FS_Surjection, FS_CardinalityType
<1> HIDE DEF f
<1>8. DOMAIN shuffled' = K
  BY <1>1, <1>5
<1> HIDE DEF K
<1>9. PICK m \in Nat : m = Cardinality(K)
  BY <1>7
<1>10. /\ loop' = LoopStart(m)
       /\ out' = [i \in 1..m |-> <<>>]
  BY <1>8, <1>9 DEF Shuffle
<1>11. /\ loop' \in [size : Nat, b : Nat, e : Nat, ri : Nat, ob : Nat]
       /\ loop'.size = m /\ loop'.b = 1 /\ loop'.b \in 1..(m + 1)
       /\ loop'.e = 1 + SafeAdvance(1, m + 1, c) /\ loop'.ri = 1 /\ loop'.ob = 1
       /\ 0 * c + 1 = 1 /\ ResultsSize(m, c) \in Nat
  BY <1>4, <1>10, LoopStartIs
<1>12. DOMAIN tasks' = {} /\ Len(tasks') = 0 /\ tasks' \in Seq(ChunkTasks)
  BY <1>1
<1>13. LoopFits'
  <2>1. ResultsCount' = ResultsSize(m, c)
    BY <1>1, <1>4, <1>11 DEF ResultsCount, ResultsSize
  <2>2. input' \in Seq(Values) /\ chunk_size' = c
    BY <1>1, <1>2, <1>4 DEF LoopFits
  <2>3. Len(tasks') * chunk_size' + 1 = 1
    BY <1>11, <1>12, <2>2
  <2> QED BY <1>11, <1>12, <2>1, <2>2, <2>3 DEF LoopFits, SafeAdvance
<1>14. ChunksPartition' /\ OutputsFit'
  <2>1. EndOf(Len(tasks))' = 0
    BY <1>12 DEF EndOf
  <2>2. \A i \in 1..(loop'.b - 1) : FALSE
    BY <1>11
  <2>3. ChunksPartition'
    BY <1>11, <1>12, <2>1, <2>2 DEF ChunksPartition
  <2> QED BY <1>11, <1>12, <2>3 DEF OutputsFit
<1>15. OutType' /\ WriteInv'
  <2>1. \A i \in 1..m : out'[i] = <<>> /\ <<>> \in Seq(1..m)
    BY <1>10
  <2>2. DOMAIN out' = 1..m /\ out' = [i \in 1..m |-> out'[i]]
    BY <1>10
  <2> QED BY <1>11, <1>12, <2>1, <2>2 DEF OutType, WriteInv, Written
<1>16. CallInv'
  BY <1>1, <1>2 DEF CallInv
<1>17. GroupInv'
  <2>1. ASSUME Even(Len(input)) PROVE shuffled' = Groups'
    <3>1. Straight
      BY <1>3, <2>1 DEF Straight
    <3>2. out = [i \in 1..n |-> <<i>>]
      BY <1>1, <1>3, <3>1, OutIsDone DEF Outputs
    <3>3. \A i \in 1..n : KeyOf(input, out[i]) = input[i]
      BY <3>2 DEF KeyOf, Last
    <3>4. K = Range(input)
      BY <1>3, <3>3 DEF K, Range
    <3>5. shuffled' = [x \in K |-> Group(input, out, x)]
      BY <1>1, <1>5 DEF K
    <3>6. Groups' = Groups
      BY <1>1 DEF Groups
    <3> QED BY <1>3, <3>2, <3>4, <3>5, <3>6 DEF Groups
  <2>2. Even(Len(input))' <=> Even(Len(input))
    BY <1>1 DEF Even
  <2> QED BY <1>7, <1>8, <1>9, <1>11, <2>1, <2>2 DEF GroupInv
<1>18. AnswerInv'
  BY <1>1, <1>2, AnswerStays
<1>19. algo' \notin Bools /\ algo' \notin Adds
  BY <1>1 DEF Bools, Adds, Counts, Reduces
<1> QED BY <1>13, <1>14, <1>15, <1>16, <1>17, <1>18, <1>19 DEF ChunkInv, CutInv

\* map_reduce ends: the groups it reduced are those of the sequential one.
LEMMA RemapStep ==
  ASSUME ChunkInv, algo = "map_reduce", Remap
  PROVE  ChunkInv'
<1>1. stage = "reduce"
  BY DEF Remap
<1> DEFINE R == [x \in {KeyOf(Keys, out[i]) : i \in DOMAIN out} |->
                   ReducedList(out[SelectInSeq(out, LAMBDA cell : KeyOf(Keys, cell) = x)])]
<1>2. Return(R)
  BY DEF Remap
<1>3. ASSUME Exact PROVE R = Std
  <2>1. GroupInv /\ Even(Len(input)) /\ Even(Cardinality(Range(input)))
    BY <1>1, <1>3 DEF ChunkInv, Exact, Bools, Reduces
  <2>2. shuffled = Groups /\ DOMAIN shuffled = Range(input)
    BY <2>1 DEF GroupInv, Groups
  <2> DEFINE D == DOMAIN shuffled
  <2>3. PICK n \in Nat : n = loop.size /\ n = Cardinality(D)
    BY <2>1, FS_CardinalityType DEF GroupInv
  <2>4. Straight
    BY <2>1, <2>2, <2>3 DEF Straight
  <2>5. out = [i \in 1..n |-> <<i>>]
    BY <1>2, <2>3, <2>4, OutIsDone DEF Return, Outputs
  <2>6. D \in SUBSET Nat /\ IsFiniteSet(D)
    BY <2>1 DEF GroupInv
  <2> DEFINE a == Keys
  <2>7. /\ a \in [1..n -> D] /\ Range(a) = D
        /\ \A i, j \in 1..n : i < j => a[i] < a[j]
    BY <2>3, <2>6, AscendingIs DEF Keys
  <2>8. \A i \in 1..n : KeyOf(a, out[i]) = a[i]
    BY <2>5 DEF KeyOf, Last
  <2> HIDE DEF a, D
  <2>9. \A i, j \in 1..n : a[j] = a[i] => j = i
    <3> SUFFICES ASSUME NEW i \in 1..n, NEW j \in 1..n, a[j] = a[i], j # i PROVE FALSE
      OBVIOUS
    <3>1. a[i] \in Nat /\ a[j] \in Nat
      BY <2>6, <2>7
    <3> QED BY <2>7, <3>1
  <2>10. {KeyOf(a, out[i]) : i \in DOMAIN out} = D
    <3>1. DOMAIN out = 1..n /\ DOMAIN a = 1..n
      BY <2>5, <2>7
    <3>2. D = {a[i] : i \in 1..n}
      BY <2>7, <3>1 DEF Range
    <3> QED BY <2>8, <3>1, <3>2
  <2>11. ASSUME NEW x \in D
         PROVE  ReducedList(out[SelectInSeq(out, LAMBDA cell : KeyOf(a, cell) = x)]) = shuffled[x]
    <3>1. PICK i \in 1..n : a[i] = x
      BY <2>7, <2>11 DEF Range
    <3>2. \A j \in 1..n : a[j] = a[i] => j = i
      BY <2>9
    <3>3. SelectInSeq(out, LAMBDA cell : KeyOf(a, cell) = a[i]) = i
      <4>1. Len(out) = n
        BY <2>5
      <4>2. {j \in 1..Len(out) : KeyOf(a, out[j]) = a[i]} = {i}
        BY <2>8, <3>2, <4>1
      <4>3. Min({i}) = i
        BY DEF Min
      <4> QED BY <4>2, <4>3 DEF SelectInSeq
    <3>4. out[i] = <<i>> /\ out[i] # <<>> /\ Last(out[i]) = i
      BY <2>5 DEF Last
    <3>5. ReducedList(out[i]) = shuffled[a[i]]
      BY <3>4 DEF ReducedList, a
    <3> QED BY <3>1, <3>3, <3>5
  <2>12. shuffled = [x \in D |-> shuffled[x]]
    BY <2>2 DEF Groups, D
  <2>13. R = [x \in D |-> shuffled[x]]
    BY <2>10, <2>11 DEF a
  <2>14. Std = Groups
    BY DEF Std, Groups, Writers
  <2> QED BY <2>2, <2>12, <2>13, <2>14
<1>4. algo \notin Bools
  BY DEF Bools
<1> HIDE DEF R
<1> QED BY <1>2, <1>3, <1>4, ReturnStep

\* All steps of map_reduce.
LEMMA MapReduceStep ==
  ASSUME ChunkInv, ParallelMapReduce
  PROVE  ChunkInv'
<1>1. algo = "map_reduce" /\ algo \in Outputs /\ OutputsFit
  BY DEF ParallelMapReduce, Outputs, ChunkInv, CutInv
<1>2. Cut \/ (\E k \in DOMAIN tasks : Write(k, tasks[k].ob)) \/ Shuffle \/ Remap
  BY DEF ParallelMapReduce
<1>3. CASE Cut
  BY <1>3, CutStep
<1>4. ASSUME NEW k \in DOMAIN tasks, Write(k, tasks[k].ob) PROVE ChunkInv'
  <2>1. Straight => tasks[k].ob = tasks[k].b
    BY <1>1 DEF Straight, OutputsFit
  <2> QED BY <1>1, <1>4, <2>1, WriteStep
<1>5. CASE Shuffle
  BY <1>1, <1>5, ShuffleStep, ValuesAssumption
<1>6. CASE Remap
  BY <1>1, <1>6, RemapStep
<1> QED BY <1>2, <1>3, <1>4, <1>5, <1>6

-----------------------------------------------------------------------------
(* The invariant holds.                                                     *)

\* A call starts with nothing cut, stored or written.
LEMMA ChunkInit ==
  ASSUME ChunksInit
  PROVE  ChunkInv
<1>1. /\ algo \in Algorithms /\ tasks = <<>> /\ answer = <<>>
      /\ loop = LoopStart(Len(input)) /\ stage = "map"
      /\ out = [i \in 1..Len(input) |-> <<>>]
      /\ results =
           IF algo \in Storers
           THEN [r \in 1..ResultsSize(Len(input), chunk_size) |-> InitialResult] ELSE <<>>
  BY DEF ChunksInit
<1>2. input \in Seq(Values)
  <2>1. input \in BoundedSeq(Values, MaxLength)
    BY DEF ChunksInit
  <2>2. PICK m \in 0..MaxLength : input \in [1..m -> Values]
    BY <2>1, ChunkAssumption DEF BoundedSeq, SeqOf
  <2> QED BY <2>2
<1>3. PICK n \in Nat : n = Len(input)
  BY <1>2, LenProperties
<1>4. PICK c \in Nat \ {0} : c = chunk_size
  BY ChunkAssumption DEF ChunksInit
<1>5. /\ loop \in [size : Nat, b : Nat, e : Nat, ri : Nat, ob : Nat]
      /\ loop.size = n /\ loop.b = 1 /\ loop.b \in 1..(n + 1)
      /\ loop.e = 1 + SafeAdvance(1, n + 1, c) /\ loop.ri = 1 /\ loop.ob = 1
      /\ 0 * c + 1 = 1 /\ ResultsSize(n, c) \in Nat
  BY <1>1, <1>3, <1>4, LoopStartIs
<1>6. DOMAIN tasks = {} /\ Len(tasks) = 0 /\ tasks \in Seq(ChunkTasks)
  BY <1>1
<1>7. ResultsCount = ResultsSize(n, c)
  BY <1>4, <1>5 DEF ResultsCount
<1>8. LoopFits
  BY <1>2, <1>4, <1>5, <1>6, <1>7 DEF LoopFits
<1>9. ChunksPartition /\ OutputsFit
  <2>1. EndOf(Len(tasks)) = 0
    BY <1>6 DEF EndOf
  <2>2. \A i \in 1..(loop.b - 1) : FALSE
    BY <1>5
  <2> QED BY <1>5, <1>6, <2>1, <2>2 DEF ChunksPartition, OutputsFit
<1>10. CallInv
  <2>1. algo \in Counts => init = 0
    BY DEF ChunksInit, Counts, Reduces
  <2>2. init \in Nat
    BY ValuesAssumption DEF ChunksInit
  <2> QED BY <1>1, <1>3, <1>5, <2>1, <2>2 DEF CallInv
<1>11. ASSUME algo \in Bools PROVE BoolInv /\ SingleInv
  <2>1. results = [r \in 1..ResultsCount |-> FALSE]
    BY <1>1, <1>3, <1>4, <1>7, <1>11 DEF Storers, InitialResult
  <2> QED BY <1>6, <2>1 DEF BoolInv, SingleInv, Judged
<1>12. ASSUME algo \in Adds PROVE NumberInv
  <2>1. algo \in Storers /\ algo \notin Bools
    BY <1>12 DEF Adds, Storers, Bools, Counts, Reduces
  <2>2. results = [r \in 1..ResultsCount |-> init]
    BY <1>1, <1>3, <1>4, <1>7, <2>1 DEF InitialResult
  <2> QED BY <1>6, <1>10, <2>2 DEF NumberInv, CallInv
<1>13. OutType /\ WriteInv
  <2>1. \A i \in 1..n : out[i] = <<>> /\ <<>> \in Seq(1..n)
    BY <1>1, <1>3
  <2>2. DOMAIN out = 1..n /\ out = [i \in 1..n |-> out[i]]
    BY <1>1, <1>3
  <2> QED BY <1>5, <1>6, <2>1, <2>2 DEF OutType, WriteInv, Written
<1> QED BY <1>1, <1>8, <1>9, <1>10, <1>11, <1>12, <1>13 DEF ChunkInv, CutInv, AnswerInv

\* The steps of all_of, any_of and none_of.
LEMMA BoolStep ==
  ASSUME ChunkInv, ParallelAllOf \/ ParallelAnyOf \/ ParallelNoneOf
  PROVE  ChunkInv'
<1>1. algo \in {"all_of", "any_of", "none_of"}
  BY DEF ParallelAllOf, ParallelAnyOf, ParallelNoneOf
<1>2. algo \in Bools
  BY <1>1 DEF Bools
<1>3. LoopFits /\ ChunksPartition /\ loop.size = Len(input)
  BY <1>1 DEF ChunkInv, CutInv, CallInv
<1>4. CASE Cut
  BY <1>4, CutStep
<1>5. ASSUME algo = "all_of", NEW k \in DOMAIN tasks,
             StoreBit(k, \A x \in Range(Chunk(k)) : Satisfies(x))
      PROVE  ChunkInv'
  <2>1. PICK value \in BOOLEAN :
          value = \A x \in Range(Chunk(k)) : Satisfies(x)
    OBVIOUS
  <2>2. value <=> Judge(tasks[k].b, tasks[k].e)
    BY <1>3, <1>5, <2>1, StoredValue
  <2>3. StoreBit(k, value)
    BY <1>5, <2>1
  <2> QED BY <1>2, <2>2, <2>3, StoreBitStep
<1>6. ASSUME algo = "any_of", NEW k \in DOMAIN tasks,
             StoreBit(k, \E x \in Range(Chunk(k)) : Satisfies(x))
      PROVE  ChunkInv'
  <2>1. PICK value \in BOOLEAN :
          value = \E x \in Range(Chunk(k)) : Satisfies(x)
    OBVIOUS
  <2>2. value <=> Judge(tasks[k].b, tasks[k].e)
    BY <1>3, <1>6, <2>1, StoredValue
  <2>3. StoreBit(k, value)
    BY <1>6, <2>1
  <2> QED BY <1>2, <2>2, <2>3, StoreBitStep
<1>7. ASSUME algo = "none_of", NEW k \in DOMAIN tasks,
             StoreBit(k, \A x \in Range(Chunk(k)) : ~Satisfies(x))
      PROVE  ChunkInv'
  <2>1. PICK value \in BOOLEAN :
          value = \A x \in Range(Chunk(k)) : ~Satisfies(x)
    OBVIOUS
  <2>2. value <=> Judge(tasks[k].b, tasks[k].e)
    BY <1>3, <1>7, <2>1, StoredValue
  <2>3. StoreBit(k, value)
    BY <1>7, <2>1
  <2> QED BY <1>2, <2>2, <2>3, StoreBitStep
<1>8. ASSUME algo \in {"all_of", "none_of"}, Return(\A r \in DOMAIN results : results[r])
      PROVE  ChunkInv'
  <2>1. PICK value \in BOOLEAN : value = \A r \in DOMAIN results : results[r]
    OBVIOUS
  <2>2. Return(value)
    BY <1>8, <2>1
  <2>3. value <=> IF algo = "any_of" THEN \E r \in DOMAIN results : results[r]
                                     ELSE \A r \in DOMAIN results : results[r]
    BY <1>8, <2>1
  <2> QED BY <1>2, <2>2, <2>3, ReturnBoolStep
<1>9. ASSUME algo = "any_of", Return(\E r \in DOMAIN results : results[r])
      PROVE  ChunkInv'
  <2>1. PICK value \in BOOLEAN : value = \E r \in DOMAIN results : results[r]
    OBVIOUS
  <2>2. Return(value)
    BY <1>9, <2>1
  <2>3. value <=> IF algo = "any_of" THEN \E r \in DOMAIN results : results[r]
                                     ELSE \A r \in DOMAIN results : results[r]
    BY <1>9, <2>1
  <2> QED BY <1>2, <2>2, <2>3, ReturnBoolStep
<1> QED BY <1>4, <1>5, <1>6, <1>7, <1>8, <1>9
        DEF ParallelAllOf, ParallelAnyOf, ParallelNoneOf

\* The steps of count, count_if and the two reduce.
LEMMA NumberStep ==
  ASSUME ChunkInv, \/ ParallelCount \/ ParallelCountIf
                   \/ ParallelReduce \/ ParallelReduceOp
  PROVE  ChunkInv'
<1>1. algo \in Adds /\ algo \notin Bools
  BY DEF ParallelCount, ParallelCountIf, ParallelReduce, ParallelReduceOp,
         Adds, Counts, Reduces, Bools
<1>2. LoopFits /\ ChunksPartition /\ CallInv
  BY DEF ChunkInv, CutInv
<1>3. \/ Cut
      \/ \E k \in DOMAIN tasks : Store(k, Part(k))
      \/ Return(Fold(Operation, init, results))
  <2>1. \A k \in DOMAIN tasks :
          /\ algo = "count"     => CountIn(Chunk(k), IsValue) = Part(k)
          /\ algo = "count_if"  => CountIn(Chunk(k), Satisfies) = Part(k)
          /\ algo = "reduce"    => Fold("plus", init, Chunk(k)) = Part(k)
          /\ algo = "reduce_op" => Fold("times", init, Chunk(k)) = Part(k)
    BY <1>1, <1>2, StoredNumber
  <2>2. CASE ParallelCount
    <3>1. algo = "count" /\ init = 0 /\ Operation = "plus"
      BY <1>2, <2>2 DEF ParallelCount, CallInv, Counts, Operation
    <3> QED BY <2>1, <2>2, <3>1 DEF ParallelCount
  <2>3. CASE ParallelCountIf
    <3>1. algo = "count_if" /\ init = 0 /\ Operation = "plus"
      BY <1>2, <2>3 DEF ParallelCountIf, CallInv, Counts, Operation
    <3> QED BY <2>1, <2>3, <3>1 DEF ParallelCountIf
  <2>4. CASE ParallelReduce
    <3>1. algo = "reduce" /\ Operation = "plus"
      BY <2>4 DEF ParallelReduce, Operation
    <3> QED BY <2>1, <2>4, <3>1 DEF ParallelReduce
  <2>5. CASE ParallelReduceOp
    <3>1. algo = "reduce_op" /\ Operation = "times"
      BY <2>5 DEF ParallelReduceOp, Operation
    <3> QED BY <2>1, <2>5, <3>1 DEF ParallelReduceOp
  <2> QED BY <2>2, <2>3, <2>4, <2>5
<1>4. CASE Cut
  BY <1>4, CutStep
<1>5. ASSUME NEW k \in DOMAIN tasks, Store(k, Part(k)) PROVE ChunkInv'
  BY <1>1, <1>5, StoreStep
<1>6. CASE Return(Fold(Operation, init, results))
  <2>1. PICK value : value = Fold(Operation, init, results)
    OBVIOUS
  <2>2. Return(value)
    BY <1>6, <2>1
  <2>3. Exact => value = Std
    BY <1>1, <2>1, <2>2, NumberIsRight DEF Return
  <2> QED BY <1>1, <2>2, <2>3, ReturnStep
<1> QED BY <1>3, <1>4, <1>5, <1>6

\* The steps of generate, for_each, transform and copy.
LEMMA WriterStep ==
  ASSUME ChunkInv, \/ ParallelGenerate \/ ParallelForEach
                   \/ ParallelTransform \/ ParallelCopy
  PROVE  ChunkInv'
<1>1. algo \in {"generate", "for_each", "transform", "copy"}
  BY DEF ParallelGenerate, ParallelForEach, ParallelTransform,
         ParallelCopy
<1>2. algo \in Writers /\ algo \in Outputs
  BY <1>1 DEF Writers, Outputs
<1>3. OutputsFit
  BY DEF ChunkInv, CutInv
<1>4. \/ Cut \/ Return(out)
      \/ \E k \in DOMAIN tasks : Write(k, tasks[k].b) /\ algo \in {"generate", "for_each"}
      \/ \E k \in DOMAIN tasks : Write(k, tasks[k].ob) /\ algo \in {"transform", "copy"}
  BY DEF ParallelGenerate, ParallelForEach, ParallelTransform,
         ParallelCopy
<1>5. CASE Cut
  BY <1>5, CutStep
<1>6. CASE Return(out)
  BY <1>2, <1>6, ReturnOutStep
<1>7. ASSUME NEW k \in DOMAIN tasks, Write(k, tasks[k].b) PROVE ChunkInv'
  BY <1>2, <1>7, WriteStep
<1>8. ASSUME NEW k \in DOMAIN tasks, Write(k, tasks[k].ob), algo \in {"transform", "copy"}
      PROVE  ChunkInv'
  <2>1. Straight => tasks[k].ob = tasks[k].b
    BY <1>3, <1>8 DEF Straight, OutputsFit
  <2> QED BY <1>2, <1>8, <2>1, WriteStep
<1> QED BY <1>4, <1>5, <1>6, <1>7, <1>8

\* Every step of every algorithm.
LEMMA ChunkNext ==
  ASSUME ChunkInv, [ChunksNext]_chunkVars
  PROVE  ChunkInv'
<1>1. CASE ChunksNext
  BY <1>1, BoolStep, NumberStep, WriterStep, MapReduceStep DEF ChunksNext
<1>2. CASE UNCHANGED chunkVars
  <2>1. UNCHANGED <<request, loop, tasks, results, out, shuffled, stage, answer>>
    BY <1>2 DEF chunkVars
  <2>2. AnswerInv'
    BY <2>1, AnswerStays DEF ChunkInv
  <2> QED BY <2>1, <2>2, OnlyAnswer
<1> QED BY <1>1, <1>2

\* The strengthened invariant, of every call.
LEMMA ChunksHold ==
  ChunksSpec => []ChunkInv
BY ChunkInit, ChunkNext, PTL DEF ChunksSpec

-----------------------------------------------------------------------------
(* What the algorithms return.                                              *)

\* What std::all_of, any_of and none_of return is Judge of the whole range.
LEMMA StdOfBools ==
  ASSUME input \in Seq(Values), algo \in Bools
  PROVE  Std <=> Judge(1, Len(input) + 1)
<1>1. PICK n \in Nat : n = Len(input) /\ DOMAIN input = 1..n
  BY LenProperties
<1>2. Range(input) = {input[i] : i \in 1..n}
  BY <1>1 DEF Range
<1>3. 1..(n + 1 - 1) = 1..n
  BY <1>1
<1>4. algo \in {"all_of", "any_of", "none_of"}
  BY DEF Bools
<1>5. CASE algo = "all_of"
  <2>1. Std = (\A x \in Range(input) : Satisfies(x))
    BY <1>5 DEF Std, Writers
  <2>2. Judge(1, Len(input) + 1) <=> \A i \in 1..n : Satisfies(input[i])
    BY <1>1, <1>3, <1>5 DEF Judge, Passes
  <2> QED BY <1>2, <2>1, <2>2
<1>6. CASE algo = "any_of"
  <2>1. Std = (\E x \in Range(input) : Satisfies(x))
    BY <1>6 DEF Std, Writers
  <2>2. Judge(1, Len(input) + 1) <=> \E i \in 1..n : Satisfies(input[i])
    BY <1>1, <1>3, <1>6 DEF Judge, Passes
  <2> QED BY <1>2, <2>1, <2>2
<1>7. CASE algo = "none_of"
  <2>1. Std = (\A x \in Range(input) : ~Satisfies(x))
    BY <1>7 DEF Std, Writers
  <2>2. Judge(1, Len(input) + 1) <=> \A i \in 1..n : ~Satisfies(input[i])
    BY <1>1, <1>3, <1>7 DEF Judge, Passes
  <2> QED BY <1>2, <2>1, <2>2
<1> QED BY <1>4, <1>5, <1>6, <1>7

\* all_of, any_of and none_of, in any number of chunks, over any range, and
\* with any number of results in a word of the std::vector<bool> that several
\* tasks write: a TRUE is right.
THEOREM TrueAnswersAreRight == ChunksSpec => []TrueIsRight
<1>1. ChunkInv => TrueIsRight
  <2> SUFFICES ASSUME ChunkInv, algo \in Bools, answer = <<TRUE>>
               PROVE  Std
    BY DEF TrueIsRight
  <2>1. input \in Seq(Values) /\ Judge(1, Len(input) + 1)
    BY DEF ChunkInv, CutInv, LoopFits, AnswerInv
  <2> QED BY <2>1, StdOfBools
<1> QED BY <1>1, ChunksHold, PTL

\* Every algorithm, over any range and in chunks of any size, whatever the
\* interleaving of their tasks: under the condition stated by Exact the answer
\* is that of the sequential algorithm.
THEOREM AnswersMatchStd == ChunksSpec => []MatchesStd
<1>1. ChunkInv => MatchesStd
  <2> SUFFICES ASSUME ChunkInv, answer # <<>>, Exact
               PROVE  answer[1] = Std
    BY DEF MatchesStd
  <2>1. CASE algo \notin Bools
    <3>1. answer = <<Std>>
      BY <2>1 DEF ChunkInv, AnswerInv
    <3> QED BY <3>1
  <2>2. CASE algo \in Bools
    <3>1. input \in Seq(Values) /\ chunk_size \in Nat \ {0} /\ loop.size = Len(input)
      BY <2>2 DEF ChunkInv, CutInv, LoopFits, CallInv, Bools
    <3>2. ResultsCount \in Nat /\ results \in [1..ResultsCount -> BOOLEAN]
      <4>1. PICK n \in Nat, c \in Nat \ {0} : n = loop.size /\ c = chunk_size
        BY <3>1, LenProperties
      <4> QED BY <2>2, <4>1, ResultsAreEnough DEF ChunkInv, BoolInv, ResultsCount
    <3>3. Len(results) = ResultsCount
      BY <3>2
    <3>4. ResultsSize(Len(input), chunk_size) <= 1
      <4>1. Len(results) <= 1
        BY <2>2 DEF Exact, Bools, Reduces
      <4> QED BY <3>1, <3>3, <4>1 DEF ResultsCount
    <3>5. /\ answer \in {<<TRUE>>, <<FALSE>>}
          /\ answer = <<TRUE>> => Judge(1, Len(input) + 1)
          /\ answer = <<FALSE>> => ~Judge(1, Len(input) + 1)
      BY <2>2, <3>4 DEF ChunkInv, AnswerInv
    <3>6. Std <=> Judge(1, Len(input) + 1)
      BY <2>2, <3>1, StdOfBools
    <3>7. Std \in BOOLEAN
      BY <2>2 DEF Std, Bools, Writers
    <3>8. CASE answer = <<TRUE>>
      BY <3>5, <3>6, <3>7, <3>8
    <3>9. CASE answer = <<FALSE>>
      BY <3>5, <3>6, <3>7, <3>9
    <3> QED BY <3>5, <3>8, <3>9
  <2> QED BY <2>1, <2>2
<1> QED BY <1>1, ChunksHold, PTL

\* The loop that cuts stays in its range, each task that stores has a result
\* of its own, and what results and positions hold is of their type.
THEOREM ChunksTypeCorrect == ChunksSpec => []ChunksTypeOK
<1>1. ChunkInv => ChunksTypeOK
  <2> SUFFICES ASSUME ChunkInv PROVE ChunksTypeOK
    OBVIOUS
  <2>1. LoopFits /\ ChunksPartition /\ CallInv /\ OutType
    BY DEF ChunkInv, CutInv
  <2>2. 1 <= loop.b /\ loop.b <= loop.e /\ loop.e <= RangeEnd
    <3>1. PICK n \in Nat, c \in Nat \ {0}, b \in Nat :
            n = loop.size /\ c = chunk_size /\ b = loop.b
      BY <2>1 DEF LoopFits
    <3>2. loop.e = b + SafeAdvance(b, n + 1, c) /\ b \in 1..(n + 1)
      BY <2>1, <3>1 DEF LoopFits
    <3> QED BY <3>1, <3>2 DEF SafeAdvance, RangeEnd
  <2>3. \A r \in DOMAIN results : IF algo \in Bools THEN results[r] \in BOOLEAN
                                                    ELSE results[r] \in Nat
    <3>1. CASE algo \in Bools
      BY <3>1 DEF ChunkInv, BoolInv
    <3>2. CASE algo \in Adds
      <4>1. algo \notin Bools
        BY <3>2 DEF Adds, Counts, Reduces, Bools
      <4> QED BY <3>2, <4>1 DEF ChunkInv, NumberInv
    <3>3. CASE algo \notin Bools /\ algo \notin Adds
      <4>1. results = <<>>
        BY <2>1, <3>3 DEF CallInv, Storers, Adds
      <4> QED BY <4>1
    <3> QED BY <3>1, <3>2, <3>3
  <2>4. ASSUME NEW k \in DOMAIN tasks, algo \in Storers PROVE tasks[k].ri \in DOMAIN results
    <3>1. DOMAIN results = 1..ResultsCount
      BY <2>4 DEF ChunkInv, BoolInv, NumberInv, Storers, Adds
    <3>2. k \in 1..ResultsCount
      BY <2>1, ChunkBounds
    <3> QED BY <2>1, <3>1, <3>2 DEF ChunksPartition
  <2>5. \A k \in DOMAIN tasks :
          tasks[k].b < tasks[k].e /\ tasks[k].at \in tasks[k].b..tasks[k].e
    BY <2>1 DEF ChunksPartition
  <2>6. \A i \in DOMAIN out : out[i] \in Seq(1..loop.size)
    BY <2>1 DEF OutType
  <2> QED BY <2>1, <2>2, <2>3, <2>4, <2>5, <2>6 DEF ChunksTypeOK, CallInv, LoopFits
<1> QED BY <1>1, ChunksHold, PTL

=============================================================================
