----------------------------- MODULE QueueProofs ----------------------------
(***************************************************************************)
(* What TLAPS proves of Queue, for any finite set of threads, any values    *)
(* and any bound on the length: the type invariant, that no wake-up is      *)
(* lost, that stop() reaches every sleeper, and that every step of the      *)
(* monitor is a step of the abstract FIFO.                                  *)
(***************************************************************************)
EXTENDS Queue, FiniteSetTheorems, SequenceTheorems, TLAPS

-----------------------------------------------------------------------------
(* Type correctness.                                                        *)

\* What the tail of a pop does to the deque and to the results.
LEMMA TakeType ==
  ASSUME TypeOK, NEW t \in Threads, Take(t)
  PROVE  /\ container' \in Seq(Values)
         /\ result' \in [Threads -> Values \cup {Nullopt}]
<1>1. CASE container # <<>>
  <2>1. Head(container) \in Values /\ Tail(container) \in Seq(Values)
    BY <1>1, HeadTailProperties DEF TypeOK
  <2> QED BY <1>1, <2>1 DEF Take, TypeOK
<1>2. CASE container = <<>>
  BY <1>2 DEF Take, TypeOK
<1> QED BY <1>1, <1>2

LEMMA TakeOrSleepType ==
  ASSUME TypeOK, NEW t \in Threads, NEW sleep \in PCs, TakeOrSleep(t, sleep)
  PROVE  /\ container' \in Seq(Values)
         /\ result' \in [Threads -> Values \cup {Nullopt}]
         /\ pc' \in [Threads -> PCs]
<1>1. CASE WaitOver /\ Take(t) /\ GoTo(t, "ready")
  BY <1>1, TakeType DEF TypeOK, GoTo, PCs
<1>2. CASE GoTo(t, sleep) /\ UNCHANGED <<container, result>>
  BY <1>2 DEF TypeOK, GoTo
<1> QED BY <1>1, <1>2 DEF TakeOrSleep

LEMMA InitType == Init => TypeOK
<1> SUFFICES ASSUME Init PROVE TypeOK
  OBVIOUS
<1>1. container \in Seq(Values)
  <2>1. PICK n \in 0..MaxLength : container \in [1..n -> Values]
    BY DEF Init
  <2>2. n \in Nat
    BY MaxLengthAssumption
  <2> QED BY <2>1, <2>2, SeqDef
<1> QED BY <1>1 DEF Init, TypeOK, PCs

LEMMA NextType == TypeOK /\ [Next]_vars => TypeOK'
<1> SUFFICES ASSUME TypeOK, [Next]_vars PROVE TypeOK'
  OBVIOUS
<1>1. ASSUME NEW t \in Threads, NEW v \in Values, Push(t, v) PROVE TypeOK'
  <2>1. Append(container, v) \in Seq(Values)
    BY AppendProperties DEF TypeOK
  <2> QED BY <1>1, <2>1 DEF Push, GoTo, TypeOK, PCs
<1>2. ASSUME NEW t \in Threads, NotifyOne(t) PROVE TypeOK'
  BY <1>2 DEF NotifyOne, WakeUp, GoTo, TypeOK, PCs
<1>3. ASSUME NEW t \in Threads, Pop(t) PROVE TypeOK'
  BY <1>3, TakeType DEF Pop, TypeOK
<1>4. ASSUME NEW t \in Threads, PopWait(t) PROVE TypeOK'
  BY <1>4, TakeOrSleepType, "waiting" \in PCs DEF PopWait, TypeOK, PCs
<1>5. ASSUME NEW t \in Threads, PopWaitFor(t) PROVE TypeOK'
  BY <1>5, TakeOrSleepType, "waiting_for" \in PCs DEF PopWaitFor, TypeOK, PCs
<1>6. ASSUME NEW t \in Threads, Resume(t) PROVE TypeOK'
  BY <1>6, TakeOrSleepType, "waiting" \in PCs, "waiting_for" \in PCs
  DEF Resume, TypeOK, PCs
<1>7. ASSUME NEW t \in Threads, SpuriousWake(t) PROVE TypeOK'
  BY <1>7 DEF SpuriousWake, WakeUp, GoTo, TypeOK, PCs
<1>8. ASSUME NEW t \in Threads, Expire(t) PROVE TypeOK'
  BY <1>8 DEF Expire, GoTo, TypeOK, PCs
<1>9. ASSUME NEW t \in Threads, ResumeExpired(t) PROVE TypeOK'
  BY <1>9, TakeType DEF ResumeExpired, GoTo, TypeOK, PCs
<1>10. ASSUME NEW t \in Threads, Stop(t) PROVE TypeOK'
  BY <1>10 DEF Stop, GoTo, TypeOK, PCs
<1>11. ASSUME NEW t \in Threads, NotifyAll(t) PROVE TypeOK'
  BY <1>11 DEF NotifyAll, WakeUp, TypeOK, PCs
<1>12. CASE UNCHANGED vars
  BY <1>12 DEF vars, TypeOK
<1> QED
  BY <1>1, <1>2, <1>3, <1>4, <1>5, <1>6, <1>7, <1>8, <1>9, <1>10, <1>11, <1>12
  DEF Next

\* The state of the queue is always of its type: the deque holds only pushed
\* values and every pop has returned a value or nullopt.
THEOREM TypeCorrect == Safety => []TypeOK
BY InitType, NextType, PTL DEF Safety

-----------------------------------------------------------------------------
(* No lost wake-up.                                                         *)

\* A taken value, or a sleep, leaves no more in the deque than there was; and
\* nobody goes to sleep on a deque that holds something.
LEMMA TakeLength ==
  ASSUME TypeOK, NEW t \in Threads, Take(t)
  PROVE  /\ Len(container) \in Nat /\ Len(container') \in Nat
         /\ \/ Len(container') = Len(container) - 1
            \/ Len(container') = 0
<1>1. CASE container # <<>>
  BY <1>1, HeadTailProperties, LenProperties DEF Take, TypeOK
<1>2. CASE container = <<>>
  BY <1>2 DEF Take, TypeOK
<1> QED BY <1>1, <1>2

\* The alert threads can be counted.
LEMMA AlertFinite ==
  /\ IsFiniteSet(Alert) /\ Cardinality(Alert) \in Nat
  /\ IsFiniteSet(Alert') /\ Cardinality(Alert') \in Nat
<1>1. Alert \subseteq Threads /\ Alert' \subseteq Threads
  BY DEF Alert, Notifiers, Awake
<1>2. IsFiniteSet(Alert) /\ IsFiniteSet(Alert')
  BY <1>1, FS_Subset, ThreadsAssumption
<1> QED BY <1>2, FS_CardinalityType

\* One thread starts to be alert.
LEMMA AlertGains ==
  ASSUME NEW t, t \notin Alert, Alert' = Alert \cup {t}
  PROVE  Cardinality(Alert') = Cardinality(Alert) + 1
BY AlertFinite, FS_AddElement

\* One thread is no longer alert.
LEMMA AlertLoses ==
  ASSUME NEW t, t \in Alert, Alert' = Alert \ {t}
  PROVE  Cardinality(Alert') = Cardinality(Alert) - 1
BY AlertFinite, FS_RemoveElement

\* A notifying thread hands over to the thread it wakes.
LEMMA AlertPasses ==
  ASSUME NEW t, t \in Alert, NEW s, s \notin Alert,
         Alert' = (Alert \ {t}) \cup {s}
  PROVE  Cardinality(Alert') = Cardinality(Alert)
<1>1. /\ IsFiniteSet(Alert \ {t})
      /\ Cardinality(Alert \ {t}) = Cardinality(Alert) - 1
  BY AlertFinite, FS_RemoveElement
<1>2. Cardinality((Alert \ {t}) \cup {s}) = Cardinality(Alert \ {t}) + 1
  BY <1>1, FS_AddElement
<1> QED BY <1>1, <1>2, AlertFinite

\* A critical section of a pop, entered from outside the wait set.
LEMMA TakeOrSleepWakeup ==
  ASSUME TypeOK, NoLostWakeup,
         NEW t \in Threads, pc[t] \in {"ready", "woken", "woken_for"},
         NEW sleep \in {"waiting", "waiting_for"},
         TakeOrSleep(t, sleep)
  PROVE  NoLostWakeup'
<1>1. CASE WaitOver /\ Take(t) /\ GoTo(t, "ready")
  <2>1. Sleepers' = Sleepers
    BY <1>1 DEF Sleepers, GoTo, TypeOK
  <2>2. CASE pc[t] = "ready"
    <3>1. Alert' = Alert
      BY <1>1, <2>2 DEF Alert, Notifiers, Awake, GoTo, TypeOK
    <3> QED BY <1>1, <2>1, <3>1, TakeLength, AlertFinite DEF NoLostWakeup
  <2>3. CASE pc[t] \in {"woken", "woken_for"}
    <3>1. t \in Alert /\ Alert' = Alert \ {t}
      BY <1>1, <2>3 DEF Alert, Notifiers, Awake, GoTo, TypeOK
    <3>2. Cardinality(Alert') = Cardinality(Alert) - 1
      BY <3>1, AlertLoses
    <3> QED BY <1>1, <2>1, <3>2, TakeLength, AlertFinite DEF NoLostWakeup
  <2> QED BY <2>2, <2>3
<1>2. CASE ~WaitOver /\ UNCHANGED <<container, result>>
  <2>1. Len(container') = 0
    BY <1>2 DEF WaitOver
  <2> QED BY <2>1, AlertFinite DEF NoLostWakeup
<1> QED BY <1>1, <1>2 DEF TakeOrSleep

LEMMA InitWakeup == Init => NoLostWakeup
BY DEF Init, NoLostWakeup, Sleepers

LEMMA NextWakeup == TypeOK /\ NoLostWakeup /\ [Next]_vars => NoLostWakeup'
<1> SUFFICES ASSUME TypeOK, NoLostWakeup, [Next]_vars PROVE NoLostWakeup'
  OBVIOUS
<1>0. Len(container) \in Nat
  BY LenProperties DEF TypeOK
<1>1. ASSUME NEW t \in Threads, NEW v \in Values, Push(t, v) PROVE NoLostWakeup'
  <2>1. Sleepers' = Sleepers
    BY <1>1 DEF Push, GoTo, Sleepers, TypeOK
  <2>2. t \notin Alert /\ Alert' = Alert \cup {t}
    BY <1>1 DEF Push, GoTo, Alert, Notifiers, Awake, TypeOK
  <2>3. Len(container') = Len(container) + 1
    BY <1>1, AppendProperties DEF Push, TypeOK
  <2>4. Cardinality(Alert') = Cardinality(Alert) + 1
    BY <2>2, AlertGains
  <2> QED BY <2>1, <2>3, <2>4, <1>0, AlertFinite DEF NoLostWakeup
<1>2. ASSUME NEW t \in Threads, NotifyOne(t) PROVE NoLostWakeup'
  <2>1. CASE Sleepers = {} /\ GoTo(t, "ready")
    <3>1. Sleepers' = {}
      BY <2>1 DEF GoTo, Sleepers, TypeOK
    <3> QED BY <3>1 DEF NoLostWakeup
  <2>2. ASSUME NEW s \in Sleepers,
               pc' = [pc EXCEPT ![t] = "ready", ![s] = WakeUp(s)]
        PROVE  NoLostWakeup'
    <3>1. t \in Alert /\ s \notin Alert /\ Alert' = (Alert \ {t}) \cup {s}
      BY <1>2, <2>2
      DEF NotifyOne, Alert, Notifiers, Awake, Sleepers, WakeUp, TypeOK
    <3>2. Cardinality(Alert') = Cardinality(Alert)
      BY <3>1, AlertPasses
    <3>3. container' = container
      BY <1>2 DEF NotifyOne
    <3> QED BY <2>2, <3>2, <3>3 DEF NoLostWakeup
  <2> QED BY <1>2, <2>1, <2>2 DEF NotifyOne
<1>3. ASSUME NEW t \in Threads, Pop(t) PROVE NoLostWakeup'
  <2>1. Sleepers' = Sleepers /\ Alert' = Alert
    BY <1>3 DEF Pop, Sleepers, Alert, Notifiers, Awake
  <2> QED BY <1>3, <2>1, TakeLength, AlertFinite DEF Pop, NoLostWakeup
<1>4. ASSUME NEW t \in Threads, PopWait(t) PROVE NoLostWakeup'
  BY <1>4, TakeOrSleepWakeup DEF PopWait
<1>5. ASSUME NEW t \in Threads, PopWaitFor(t) PROVE NoLostWakeup'
  BY <1>5, TakeOrSleepWakeup DEF PopWaitFor
<1>6. ASSUME NEW t \in Threads, Resume(t) PROVE NoLostWakeup'
  BY <1>6, TakeOrSleepWakeup DEF Resume
<1>7. ASSUME NEW t \in Threads, SpuriousWake(t) PROVE NoLostWakeup'
  <2>1. t \notin Alert /\ Alert' = Alert \cup {t} /\ t \in Sleepers
    BY <1>7
    DEF SpuriousWake, WakeUp, GoTo, Sleepers, Alert, Notifiers, Awake, TypeOK
  <2>2. Cardinality(Alert') = Cardinality(Alert) + 1
    BY <2>1, AlertGains
  <2> QED BY <1>7, <2>1, <2>2, <1>0, AlertFinite DEF SpuriousWake, NoLostWakeup
<1>8. ASSUME NEW t \in Threads, Expire(t) PROVE NoLostWakeup'
  <2>1. CASE pc[t] = "waiting_for"
    <3>1. t \notin Alert /\ Alert' = Alert \cup {t} /\ t \in Sleepers
      BY <1>8, <2>1
      DEF Expire, GoTo, Sleepers, Alert, Notifiers, Awake, TypeOK
    <3>2. Cardinality(Alert') = Cardinality(Alert) + 1
      BY <3>1, AlertGains
    <3> QED BY <1>8, <3>1, <3>2, <1>0, AlertFinite DEF Expire, NoLostWakeup
  <2>2. CASE pc[t] = "woken_for"
    <3>1. Alert' = Alert /\ Sleepers' = Sleepers
      BY <1>8, <2>2
      DEF Expire, GoTo, Sleepers, Alert, Notifiers, Awake, TypeOK
    <3> QED BY <1>8, <3>1 DEF Expire, NoLostWakeup
  <2> QED BY <1>8, <2>1, <2>2 DEF Expire
<1>9. ASSUME NEW t \in Threads, ResumeExpired(t) PROVE NoLostWakeup'
  <2>1. t \in Alert /\ Alert' = Alert \ {t} /\ Sleepers' = Sleepers
    BY <1>9 DEF ResumeExpired, GoTo, Sleepers, Alert, Notifiers, Awake, TypeOK
  <2>2. Cardinality(Alert') = Cardinality(Alert) - 1
    BY <2>1, AlertLoses
  <2> QED BY <1>9, <2>1, <2>2, TakeLength, AlertFinite
          DEF ResumeExpired, NoLostWakeup
<1>10. ASSUME NEW t \in Threads, Stop(t) PROVE NoLostWakeup'
  <2>1. Alert' = Alert /\ Sleepers' = Sleepers
    BY <1>10 DEF Stop, GoTo, Sleepers, Alert, Notifiers, Awake, TypeOK
  <2> QED BY <1>10, <2>1 DEF Stop, NoLostWakeup
<1>11. ASSUME NEW t \in Threads, NotifyAll(t) PROVE NoLostWakeup'
  <2>1. Sleepers' = {}
    BY <1>11 DEF NotifyAll, WakeUp, Sleepers, TypeOK
  <2> QED BY <2>1 DEF NoLostWakeup
<1>12. CASE UNCHANGED vars
  <2>1. Alert' = Alert /\ Sleepers' = Sleepers
    BY <1>12 DEF vars, Sleepers, Alert, Notifiers, Awake
  <2> QED BY <1>12, <2>1 DEF vars, NoLostWakeup
<1> QED
  BY <1>1, <1>2, <1>3, <1>4, <1>5, <1>6, <1>7, <1>8, <1>9, <1>10, <1>11, <1>12
  DEF Next

\* While threads sleep, each value in the deque has a thread of its own that
\* is about to notify or is on its way to look, although push() notifies after
\* it has unlocked and any pop may overtake the thread that was woken.
THEOREM WakeupsAreNotLost == Safety => []NoLostWakeup
BY TypeCorrect, InitWakeup, NextWakeup, PTL DEF Safety

-----------------------------------------------------------------------------
(* stop() reaches every sleeper.                                            *)

\* Nobody goes to sleep in a critical section that finds the queue stopped.
LEMMA TakeOrSleepStop ==
  ASSUME TypeOK, StopReachesSleepers,
         NEW t \in Threads, pc[t] \in {"ready", "woken", "woken_for"},
         NEW sleep \in PCs, TakeOrSleep(t, sleep), UNCHANGED stopped
  PROVE  StopReachesSleepers'
<1>1. CASE GoTo(t, "ready")
  <2>1. Sleepers' = Sleepers /\ Stoppers' = Stoppers
    BY <1>1 DEF GoTo, Sleepers, Stoppers, TypeOK
  <2> QED BY <2>1 DEF StopReachesSleepers
<1>2. CASE ~WaitOver
  BY <1>2 DEF WaitOver, StopReachesSleepers
<1> QED BY <1>1, <1>2 DEF TakeOrSleep

LEMMA NextStop == TypeOK /\ StopReachesSleepers /\ [Next]_vars => StopReachesSleepers'
<1> SUFFICES ASSUME TypeOK, StopReachesSleepers, [Next]_vars
             PROVE  StopReachesSleepers'
  OBVIOUS
<1>1. ASSUME NEW t \in Threads, NEW v \in Values, Push(t, v)
      PROVE  StopReachesSleepers'
  <2>1. Sleepers' = Sleepers /\ Stoppers' = Stoppers
    BY <1>1 DEF Push, GoTo, Sleepers, Stoppers, TypeOK
  <2> QED BY <1>1, <2>1 DEF Push, StopReachesSleepers
<1>2. ASSUME NEW t \in Threads, NotifyOne(t) PROVE StopReachesSleepers'
  <2>1. Sleepers' \subseteq Sleepers /\ Stoppers' = Stoppers
    BY <1>2 DEF NotifyOne, WakeUp, GoTo, Sleepers, Stoppers, TypeOK
  <2> QED BY <1>2, <2>1 DEF NotifyOne, StopReachesSleepers
<1>3. ASSUME NEW t \in Threads, Pop(t) PROVE StopReachesSleepers'
  BY <1>3 DEF Pop, StopReachesSleepers, Sleepers, Stoppers
<1>4. ASSUME NEW t \in Threads, PopWait(t) PROVE StopReachesSleepers'
  BY <1>4, TakeOrSleepStop, "waiting" \in PCs DEF PopWait, PCs
<1>5. ASSUME NEW t \in Threads, PopWaitFor(t) PROVE StopReachesSleepers'
  BY <1>5, TakeOrSleepStop, "waiting_for" \in PCs DEF PopWaitFor, PCs
<1>6. ASSUME NEW t \in Threads, Resume(t) PROVE StopReachesSleepers'
  BY <1>6, TakeOrSleepStop, "waiting" \in PCs, "waiting_for" \in PCs
  DEF Resume, PCs
<1>7. ASSUME NEW t \in Threads, SpuriousWake(t) PROVE StopReachesSleepers'
  <2>1. Sleepers' \subseteq Sleepers /\ Stoppers' = Stoppers
    BY <1>7 DEF SpuriousWake, WakeUp, GoTo, Sleepers, Stoppers, TypeOK
  <2> QED BY <1>7, <2>1 DEF SpuriousWake, StopReachesSleepers
<1>8. ASSUME NEW t \in Threads, Expire(t) PROVE StopReachesSleepers'
  <2>1. Sleepers' \subseteq Sleepers /\ Stoppers' = Stoppers
    BY <1>8 DEF Expire, GoTo, Sleepers, Stoppers, TypeOK
  <2> QED BY <1>8, <2>1 DEF Expire, StopReachesSleepers
<1>9. ASSUME NEW t \in Threads, ResumeExpired(t) PROVE StopReachesSleepers'
  <2>1. Sleepers' = Sleepers /\ Stoppers' = Stoppers
    BY <1>9 DEF ResumeExpired, GoTo, Sleepers, Stoppers, TypeOK
  <2> QED BY <1>9, <2>1 DEF ResumeExpired, StopReachesSleepers
<1>10. ASSUME NEW t \in Threads, Stop(t) PROVE StopReachesSleepers'
  <2>1. t \in Stoppers'
    BY <1>10 DEF Stop, GoTo, Stoppers, TypeOK
  <2> QED BY <2>1 DEF StopReachesSleepers
<1>11. ASSUME NEW t \in Threads, NotifyAll(t) PROVE StopReachesSleepers'
  <2>1. Sleepers' = {}
    BY <1>11 DEF NotifyAll, WakeUp, Sleepers, TypeOK
  <2> QED BY <2>1 DEF StopReachesSleepers
<1>12. CASE UNCHANGED vars
  BY <1>12 DEF vars, StopReachesSleepers, Sleepers, Stoppers
<1> QED
  BY <1>1, <1>2, <1>3, <1>4, <1>5, <1>6, <1>7, <1>8, <1>9, <1>10, <1>11, <1>12
  DEF Next

\* A stopped queue never has a sleeper that no stop() is still to notify.
THEOREM StopLeavesNobody == Safety => []StopReachesSleepers
<1>1. Init => StopReachesSleepers
  BY DEF Init, StopReachesSleepers
<1> QED BY <1>1, TypeCorrect, NextStop, PTL DEF Safety

-----------------------------------------------------------------------------
(* The monitor implements the abstract FIFO.                                *)

AbstractCall == [t \in Threads |-> WaitingCall(t)]

\* The abstract call of a thread changes only with its own label.
LEMMA CallOfOne ==
  ASSUME TypeOK, NEW t \in Threads, NEW label \in PCs, GoTo(t, label)
  PROVE  /\ pc'[t] = label
         /\ AbstractCall' = [AbstractCall EXCEPT ![t] = WaitingCall(t)']
<1>1. pc'[t] = label /\ \A s \in Threads \ {t} : pc'[s] = pc[s]
  BY DEF GoTo, TypeOK
<1>2. \A s \in Threads \ {t} : WaitingCall(s)' = WaitingCall(s)
  BY <1>1 DEF WaitingCall
<1> QED BY <1>1, <1>2 DEF AbstractCall

\* A notification changes no abstract call.
LEMMA CallOfNotified ==
  ASSUME NEW s \in Sleepers, pc'[s] = WakeUp(s)
  PROVE  WaitingCall(s)' = WaitingCall(s)
BY DEF WakeUp, WaitingCall, Sleepers

\* The end of a pop is a delivery, or the end of a call that may give up.
LEMMA TakeRefines ==
  ASSUME TypeOK, NEW t \in Threads, Take(t), UNCHANGED stopped,
         AbstractCall' = [AbstractCall EXCEPT ![t] = "none"],
         AbstractCall[t] = "pop_wait" /\ container = <<>> => stopped
  PROVE  Abstract!Deliver(t) \/ Abstract!GiveUp(t)
BY DEF Take, Abstract!Deliver, Abstract!GiveUp, AbstractCall

LEMMA TakeOrSleepRefines ==
  ASSUME TypeOK, NEW t \in Threads, UNCHANGED stopped,
         \/ /\ pc[t] = "ready"
            /\ TakeOrSleep(t, "waiting") \/ TakeOrSleep(t, "waiting_for")
         \/ pc[t] = "woken" /\ TakeOrSleep(t, "waiting")
         \/ pc[t] = "woken_for" /\ TakeOrSleep(t, "waiting_for")
  PROVE  [Abstract!Next]_(Abstract!vars)
<1>1. CASE WaitOver /\ Take(t) /\ GoTo(t, "ready")
  <2>1. WaitingCall(t)' = "none" /\ AbstractCall' = [AbstractCall EXCEPT ![t] = WaitingCall(t)']
    BY <1>1, CallOfOne, "ready" \in PCs DEF WaitingCall, PCs
  <2>2. Abstract!Deliver(t) \/ Abstract!GiveUp(t)
    BY <1>1, <2>1, TakeRefines DEF WaitOver
  <2> QED BY <2>2 DEF Abstract!Next
<1>2. ASSUME NEW sleep \in {"waiting", "waiting_for"},
             ~WaitOver, GoTo(t, sleep), UNCHANGED <<container, result>>,
             \/ pc[t] = "ready"
             \/ pc[t] = "woken" /\ sleep = "waiting"
             \/ pc[t] = "woken_for" /\ sleep = "waiting_for"
      PROVE  [Abstract!Next]_(Abstract!vars)
  <2>1. /\ pc'[t] = sleep
        /\ AbstractCall' = [AbstractCall EXCEPT ![t] = WaitingCall(t)']
    BY <1>2, CallOfOne DEF PCs
  <2>2. WaitingCall(t)' = IF sleep = "waiting" THEN "pop_wait" ELSE "pop_wait_for"
    BY <2>1 DEF WaitingCall
  <2>3. CASE pc[t] = "ready"
    <3>1. WaitingCall(t) = "none"
      BY <2>3 DEF WaitingCall
    <3>2. \E c \in Abstract!CallKinds \ {"none"} : Abstract!Block(t, c)
      BY <1>2, <2>1, <2>2, <3>1
      DEF Abstract!Block, Abstract!CallKinds, AbstractCall, WaitOver
    <3> QED BY <3>2 DEF Abstract!Next
  <2>4. CASE pc[t] # "ready"
    <3>1. WaitingCall(t)' = WaitingCall(t)
      BY <1>2, <2>2, <2>4 DEF WaitingCall
    <3>2. AbstractCall' = AbstractCall
      BY <2>1, <3>1 DEF AbstractCall
    <3> QED BY <1>2, <3>2 DEF Abstract!vars, AbstractCall
  <2> QED BY <2>3, <2>4
<1> QED BY <1>1, <1>2 DEF TakeOrSleep

LEMMA StepRefines == TypeOK /\ [Next]_vars => [Abstract!Next]_(Abstract!vars)
<1> SUFFICES ASSUME TypeOK, [Next]_vars PROVE [Abstract!Next]_(Abstract!vars)
  OBVIOUS
<1> USE DEF AbstractCall
<1>1. ASSUME NEW t \in Threads, NEW v \in Values, Push(t, v)
      PROVE  [Abstract!Next]_(Abstract!vars)
  <2>1. /\ WaitingCall(t) = "none" /\ WaitingCall(t)' = "none"
        /\ AbstractCall' = [AbstractCall EXCEPT ![t] = WaitingCall(t)']
    BY <1>1, CallOfOne, "notify_one" \in PCs DEF Push, WaitingCall, PCs
  <2>2. Abstract!Insert(t, v)
    BY <1>1, <2>1 DEF Push, Abstract!Insert
  <2> QED BY <2>2 DEF Abstract!Next
<1>2. ASSUME NEW t \in Threads, NotifyOne(t) PROVE [Abstract!Next]_(Abstract!vars)
  <2>1. \A s \in Threads : WaitingCall(s)' = WaitingCall(s)
    <3> SUFFICES ASSUME NEW s \in Threads PROVE WaitingCall(s)' = WaitingCall(s)
      OBVIOUS
    <3>1. \/ pc'[s] = pc[s]
          \/ pc[s] = "notify_one" /\ pc'[s] = "ready"
          \/ s \in Sleepers /\ pc'[s] = WakeUp(s)
      BY <1>2 DEF NotifyOne, GoTo, Sleepers, TypeOK
    <3> QED BY <3>1, CallOfNotified DEF WaitingCall
  <2> QED BY <1>2, <2>1 DEF NotifyOne, Abstract!vars
<1>3. ASSUME NEW t \in Threads, Pop(t) PROVE [Abstract!Next]_(Abstract!vars)
  <2>1. WaitingCall(t) = "none" /\ \A s \in Threads : WaitingCall(s)' = WaitingCall(s)
    BY <1>3 DEF Pop, WaitingCall
  <2>2. AbstractCall' = [AbstractCall EXCEPT ![t] = "none"]
    BY <2>1
  <2>3. Abstract!Deliver(t) \/ Abstract!GiveUp(t)
    BY <1>3, <2>1, <2>2, TakeRefines DEF Pop
  <2> QED BY <2>3 DEF Abstract!Next
<1>4. ASSUME NEW t \in Threads, PopWait(t) PROVE [Abstract!Next]_(Abstract!vars)
  BY <1>4, TakeOrSleepRefines DEF PopWait
<1>5. ASSUME NEW t \in Threads, PopWaitFor(t) PROVE [Abstract!Next]_(Abstract!vars)
  BY <1>5, TakeOrSleepRefines DEF PopWaitFor
<1>6. ASSUME NEW t \in Threads, Resume(t) PROVE [Abstract!Next]_(Abstract!vars)
  BY <1>6, TakeOrSleepRefines DEF Resume
<1>7. ASSUME NEW t \in Threads, SpuriousWake(t)
      PROVE  [Abstract!Next]_(Abstract!vars)
  <2>1. pc'[t] = WakeUp(t) /\ \A s \in Threads \ {t} : pc'[s] = pc[s]
    BY <1>7 DEF SpuriousWake, GoTo, TypeOK
  <2>2. \A s \in Threads : WaitingCall(s)' = WaitingCall(s)
    BY <1>7, <2>1, CallOfNotified DEF SpuriousWake, WaitingCall
  <2> QED BY <1>7, <2>2 DEF SpuriousWake, Abstract!vars
<1>8. ASSUME NEW t \in Threads, Expire(t) PROVE [Abstract!Next]_(Abstract!vars)
  <2>1. pc'[t] = "expired" /\ \A s \in Threads \ {t} : pc'[s] = pc[s]
    BY <1>8 DEF Expire, GoTo, TypeOK
  <2>2. \A s \in Threads : WaitingCall(s)' = WaitingCall(s)
    BY <1>8, <2>1 DEF Expire, WaitingCall
  <2> QED BY <1>8, <2>2 DEF Expire, Abstract!vars
<1>9. ASSUME NEW t \in Threads, ResumeExpired(t)
      PROVE  [Abstract!Next]_(Abstract!vars)
  <2>1. /\ WaitingCall(t) = "pop_wait_for" /\ WaitingCall(t)' = "none"
        /\ AbstractCall' = [AbstractCall EXCEPT ![t] = WaitingCall(t)']
    BY <1>9, CallOfOne, "ready" \in PCs DEF ResumeExpired, WaitingCall, PCs
  <2>2. Abstract!Deliver(t) \/ Abstract!GiveUp(t)
    BY <1>9, <2>1, TakeRefines DEF ResumeExpired
  <2> QED BY <2>2 DEF Abstract!Next
<1>10. ASSUME NEW t \in Threads, Stop(t) PROVE [Abstract!Next]_(Abstract!vars)
  <2>1. /\ WaitingCall(t) = "none" /\ WaitingCall(t)' = "none"
        /\ AbstractCall' = [AbstractCall EXCEPT ![t] = WaitingCall(t)']
    BY <1>10, CallOfOne, "notify_all" \in PCs DEF Stop, WaitingCall, PCs
  <2>2. Abstract!Close(t)
    BY <1>10, <2>1 DEF Stop, Abstract!Close
  <2> QED BY <2>2 DEF Abstract!Next
<1>11. ASSUME NEW t \in Threads, NotifyAll(t) PROVE [Abstract!Next]_(Abstract!vars)
  <2>1. \A s \in Threads : WaitingCall(s)' = WaitingCall(s)
    <3> SUFFICES ASSUME NEW s \in Threads PROVE WaitingCall(s)' = WaitingCall(s)
      OBVIOUS
    <3>1. \/ pc'[s] = pc[s]
          \/ pc[s] = "notify_all" /\ pc'[s] = "ready"
          \/ s \in Sleepers /\ pc'[s] = WakeUp(s)
      BY <1>11 DEF NotifyAll
    <3> QED BY <3>1, CallOfNotified DEF WaitingCall
  <2> QED BY <1>11, <2>1 DEF NotifyAll, Abstract!vars
<1>12. CASE UNCHANGED vars
  BY <1>12 DEF vars, WaitingCall, Abstract!vars
<1> QED
  BY <1>1, <1>2, <1>3, <1>4, <1>5, <1>6, <1>7, <1>8, <1>9, <1>10, <1>11, <1>12
  DEF Next

LEMMA InitRefines == Init => Abstract!Init
BY DEF Init, Abstract!Init, WaitingCall

\* Whatever the monitor does is something the abstract FIFO may do: values
\* come out in the order they went in, each of them once, and a waiting call
\* that returns nothing has found the queue empty, and stopped unless the call
\* had a deadline.
THEOREM ImplementsSafety == Safety => Abstract!Safety
BY TypeCorrect, InitRefines, StepRefines, PTL DEF Safety, Abstract!Safety

=============================================================================
