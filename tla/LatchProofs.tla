------------------------------ MODULE LatchProofs ------------------------------
(***************************************************************************)
(* What TLAPS proves of Latch, for any finite set of threads, any latches   *)
(* and any counts: the type invariant, which includes that no counter goes  *)
(* below zero, that an open latch stays open, and that nobody is inside a   *)
(* call of a latch that is destroyed.                                       *)
(***************************************************************************)
EXTENDS Latch, FiniteSetTheorems, TLAPS

-----------------------------------------------------------------------------
(* The counts that started calls of count_down have still to take, as a set *)
(* of pairs, so that they can be added up.                                  *)

Unit == Threads \X (1..MaxCount)

Pending(l) ==
  {u \in Unit : on[u[1]] = l /\ pc[u[1]] = "count_down" /\ u[2] <= amount[u[1]]}

\* A count is what is promised to calls to come and what started ones owe.
Balance ==
  \A l \in Latches : count[l] = promised[l] + Cardinality(Pending(l))

CountsDownByOne == \A t \in Threads : pc[t] = "count_down" => amount[t] >= 1

ReadyIsNowhere == \A t \in Threads : pc[t] = "ready" <=> on[t] = Nobody

\* count_down keeps the mutex until it has notified.
NotifierOwnsMutex ==
  \A t \in Threads : pc[t] \in {"notify_all", "unlock"} => mutex[on[t]] = t

\* Who is in a call of a latch that was found open waits for it.
OpenHasWaitersOnly ==
  \A t \in Threads : passed[t] # Nobody =>
    /\ life[passed[t]] # "none"
    /\ count[passed[t]] = 0 /\ promised[passed[t]] = 0
    /\ \A s \in Threads : on[s] = passed[t] => pc[s] \in Waiting

IInv ==
  /\ TypeOK
  /\ Balance /\ CountsDownByOne
  /\ ReadyIsNowhere /\ NotifierOwnsMutex
  /\ OpenHasWaitersOnly /\ LatchOutlivesCalls

-----------------------------------------------------------------------------
(* Counting units.                                                          *)

LEMMA UnitsFinite ==
  ASSUME NEW S \in SUBSET Unit
  PROVE  IsFiniteSet(S) /\ Cardinality(S) \in Nat
<1>1. IsFiniteSet(1..MaxCount)
  BY FS_Interval, MaxCountAssumption
<1>2. IsFiniteSet(Unit)
  BY <1>1, FS_Product, ThreadsAssumption DEF Unit
<1> QED BY <1>2, FS_Subset, FS_CardinalityType

\* The units of one call.
LEMMA UnitsOfCall ==
  ASSUME NEW t \in Threads, NEW n \in 0..MaxCount
  PROVE  /\ {t} \X (1..n) \in SUBSET Unit
         /\ Cardinality({t} \X (1..n)) = n
<1>1. {t} \X (1..n) \in SUBSET Unit
  BY MaxCountAssumption DEF Unit
<1>2. IsFiniteSet(1..n) /\ Cardinality(1..n) = n
  BY FS_Interval, MaxCountAssumption
<1>3. IsFiniteSet({t}) /\ Cardinality({t}) = 1
  BY FS_Singleton
<1>4. Cardinality({t} \X (1..n)) = 1 * n
  BY <1>2, <1>3, FS_Product
<1> QED BY <1>1, <1>4, MaxCountAssumption

LEMMA UnitsAdded ==
  ASSUME NEW S \in SUBSET Unit, NEW t \in Threads, NEW n \in 0..MaxCount,
         \A u \in S : u[1] # t
  PROVE  Cardinality(S \cup ({t} \X (1..n))) = Cardinality(S) + n
<1> DEFINE C == {t} \X (1..n)
<1>1. S \cap C = {}
  OBVIOUS
<1>2. Cardinality(S \cup C) = Cardinality(S) + Cardinality(C) - Cardinality(S \cap C)
  BY FS_Union, UnitsFinite, UnitsOfCall
<1>3. Cardinality(S \cap C) = 0
  BY <1>1, FS_EmptySet
<1> QED BY <1>2, <1>3, UnitsOfCall, UnitsFinite, MaxCountAssumption

LEMMA UnitsRemoved ==
  ASSUME NEW S \in SUBSET Unit, NEW t \in Threads, NEW n \in 0..MaxCount,
         {t} \X (1..n) \subseteq S
  PROVE  /\ Cardinality(S \ ({t} \X (1..n))) = Cardinality(S) - n
         /\ n <= Cardinality(S)
<1> DEFINE C == {t} \X (1..n)
<1>1. S \cap C = C
  OBVIOUS
<1>2. Cardinality(S \ C) = Cardinality(S) - Cardinality(S \cap C)
  BY FS_Difference, UnitsFinite
<1>3. Cardinality(C) <= Cardinality(S)
  BY FS_Subset, UnitsFinite
<1> QED BY <1>1, <1>2, <1>3, UnitsOfCall

-----------------------------------------------------------------------------
(* The invariant is inductive.                                              *)

LEMMA PendingUnits == \A l \in Latches : Pending(l) \in SUBSET Unit /\ Pending(l)' \in SUBSET Unit
BY DEF Pending

\* A count_down has what it takes off the counter.
LEMMA CountSuffices ==
  ASSUME IInv, NEW t \in Threads, pc[t] = "count_down"
  PROVE  /\ on[t] \in Latches
         /\ amount[t] \in 1..MaxCount
         /\ {t} \X (1..amount[t]) \subseteq Pending(on[t])
         /\ amount[t] <= count[on[t]]
<1>1. on[t] \in Latches /\ amount[t] \in 1..MaxCount
  BY MaxCountAssumption, LatchesAssumption DEF IInv, TypeOK, ReadyIsNowhere, CountsDownByOne
<1>2. {t} \X (1..amount[t]) \subseteq Pending(on[t])
  BY <1>1, MaxCountAssumption DEF Pending, Unit
<1>3. Pending(on[t]) \in SUBSET Unit /\ amount[t] \in 0..MaxCount
  BY <1>1, PendingUnits, MaxCountAssumption
<1>4. amount[t] <= Cardinality(Pending(on[t]))
  BY <1>2, <1>3, UnitsRemoved
<1>5. count[on[t]] = promised[on[t]] + Cardinality(Pending(on[t]))
  BY <1>1 DEF IInv, Balance
<1>6. Cardinality(Pending(on[t])) \in Nat
  BY <1>3, UnitsFinite
<1>7. promised[on[t]] \in Nat
  BY <1>1, MaxCountAssumption DEF IInv, TypeOK
<1> QED BY <1>1, <1>2, <1>4, <1>5, <1>6, <1>7

\* What no count_down starts or ends, leaves the pending counts alone.
LEMMA PendingSame ==
  ASSUME TypeOK, UNCHANGED amount,
         \A t \in Threads : pc[t] = "count_down" <=> pc'[t] = "count_down",
         \A t \in Threads : pc[t] = "count_down" => on'[t] = on[t]
  PROVE  \A l \in Latches : Pending(l)' = Pending(l)
BY DEF Pending, Unit

LEMMA InitIInv == Init => IInv
<1> SUFFICES ASSUME Init PROVE IInv
  OBVIOUS
<1>1. \A l \in Latches : Pending(l) = {}
  BY DEF Init, Pending, Unit
<1>2. Balance
  BY <1>1, FS_EmptySet DEF Balance, Init
<1> QED
  BY <1>2, MaxCountAssumption
  DEF Init, IInv, TypeOK, PCs, Waiting, CountsDownByOne, ReadyIsNowhere,
      NotifierOwnsMutex, OpenHasWaitersOnly, LatchOutlivesCalls

LEMMA BalanceSame ==
  ASSUME IInv, UNCHANGED <<count, promised, amount>>,
         \A t \in Threads : pc[t] = "count_down" <=> pc'[t] = "count_down",
         \A t \in Threads : pc[t] = "count_down" => on'[t] = on[t]
  PROVE  Balance'
<1>1. \A l \in Latches : Pending(l)' = Pending(l)
  BY PendingSame DEF IInv
<1> QED BY <1>1 DEF IInv, Balance

\* Nothing is pending for a latch that nobody is in a call of.
LEMMA ConstructIInv ==
  ASSUME IInv, NEW l \in Latches, NEW n \in 0..MaxCount, Construct(l, n)
  PROVE  IInv'
<1>1. TypeOK'
  BY MaxCountAssumption DEF IInv, TypeOK, Construct
<1>2. Pending(l) = {}
  BY LatchesAssumption DEF IInv, LatchOutlivesCalls, Pending, Unit, Construct, TypeOK
<1>3. \A k \in Latches : Pending(k)' = Pending(k)
  BY PendingSame DEF IInv, Construct
<1>4. count'[l] = promised'[l] + Cardinality(Pending(l)')
  <2>1. Cardinality(Pending(l)') = 0
    BY <1>2, <1>3, FS_EmptySet
  <2>2. count'[l] = n /\ promised'[l] = n /\ n \in Nat
    BY MaxCountAssumption DEF IInv, TypeOK, Construct
  <2> QED BY <2>1, <2>2
<1>5. \A k \in Latches \ {l} : count'[k] = promised'[k] + Cardinality(Pending(k)')
  BY <1>3 DEF IInv, TypeOK, Balance, Construct
<1>6. Balance'
  BY <1>4, <1>5 DEF Balance
<1>7. OpenHasWaitersOnly'
  BY DEF IInv, TypeOK, OpenHasWaitersOnly, Construct
<1>8. CountsDownByOne' /\ ReadyIsNowhere' /\ NotifierOwnsMutex' /\ LatchOutlivesCalls'
  BY DEF IInv, TypeOK, CountsDownByOne, ReadyIsNowhere, NotifierOwnsMutex,
         LatchOutlivesCalls, Construct
<1> QED BY <1>1, <1>6, <1>7, <1>8 DEF IInv

\* Whoever destroys a latch has seen it open: only waiters are inside it then,
\* and Destroy has seen that there are none.
LEMMA DestroyIInv ==
  ASSUME IInv, NEW t \in Threads, NEW l \in Latches, Destroy(t, l)
  PROVE  IInv'
<1>1. TypeOK'
  BY DEF IInv, TypeOK, Destroy
<1>2. Balance'
  BY BalanceSame DEF Destroy
<1>3. \A s \in Threads : on[s] # l
  BY LatchesAssumption DEF IInv, OpenHasWaitersOnly, Destroy
<1>4. LatchOutlivesCalls'
  BY <1>3 DEF IInv, TypeOK, LatchOutlivesCalls, Destroy
<1>5. CountsDownByOne' /\ ReadyIsNowhere' /\ NotifierOwnsMutex' /\ OpenHasWaitersOnly'
  BY DEF IInv, TypeOK, CountsDownByOne, ReadyIsNowhere, NotifierOwnsMutex,
         OpenHasWaitersOnly, Destroy
<1> QED BY <1>1, <1>2, <1>4, <1>5 DEF IInv

\* A call of count_down moves its amount from promised to pending; it cannot
\* be of a latch that was found open, of which nothing is promised.
LEMMA CountDownCallIInv ==
  ASSUME IInv, NEW t \in Threads, NEW l \in Latches, NEW n \in 1..MaxCount,
         CountDownCall(t, l, n)
  PROVE  IInv'
<1>1. n \in 0..MaxCount /\ promised[l] \in Nat /\ t \in Threads /\ on[t] = Nobody
  BY MaxCountAssumption DEF IInv, TypeOK, ReadyIsNowhere, CountDownCall
<1>2. TypeOK'
  BY MaxCountAssumption DEF IInv, TypeOK, PCs, CountDownCall
<1>3. \A k \in Latches \ {l} : Pending(k)' = Pending(k)
  BY <1>1, LatchesAssumption DEF IInv, TypeOK, Pending, Unit, CountDownCall
<1>4. Pending(l)' = Pending(l) \cup ({t} \X (1..n))
  BY <1>1, MaxCountAssumption, LatchesAssumption
  DEF IInv, TypeOK, Pending, Unit, CountDownCall
<1>5. Pending(l) \in SUBSET Unit /\ \A u \in Pending(l) : u[1] # t
  BY <1>1, LatchesAssumption DEF Pending
<1>6. Cardinality(Pending(l)') = Cardinality(Pending(l)) + n
  BY <1>1, <1>4, <1>5, UnitsAdded
<1>7. Cardinality(Pending(l)) \in Nat
  BY <1>5, UnitsFinite
<1>8. promised'[l] = promised[l] - n /\ count' = count
  BY DEF IInv, TypeOK, CountDownCall
<1>9. count[l] = promised[l] + Cardinality(Pending(l))
  BY DEF IInv, Balance
<1>10. count'[l] = promised'[l] + Cardinality(Pending(l)')
  BY <1>1, <1>6, <1>7, <1>8, <1>9
<1>11. \A k \in Latches \ {l} : count'[k] = promised'[k] + Cardinality(Pending(k)')
  BY <1>3 DEF IInv, TypeOK, Balance, CountDownCall
<1>12. Balance'
  BY <1>10, <1>11 DEF Balance
<1>13. \A s \in Threads : passed[s] # l
  BY <1>1, LatchesAssumption DEF IInv, OpenHasWaitersOnly, CountDownCall
<1>14. OpenHasWaitersOnly'
  BY <1>13 DEF IInv, TypeOK, OpenHasWaitersOnly, CountDownCall
<1>15. CountsDownByOne' /\ ReadyIsNowhere' /\ NotifierOwnsMutex' /\ LatchOutlivesCalls'
  BY LatchesAssumption
  DEF IInv, TypeOK, CountsDownByOne, ReadyIsNowhere, NotifierOwnsMutex,
      LatchOutlivesCalls, CountDownCall
<1> QED BY <1>2, <1>12, <1>14, <1>15 DEF IInv

\* What count_down takes off the counter is no longer pending.  The thread has
\* the mutex afterwards.
LEMMA CountDownIInv ==
  ASSUME IInv, NEW t \in Threads, CountDown(t)
  PROVE  IInv'
<1>0. PICK l \in Latches, n \in 1..MaxCount : l = on[t] /\ n = amount[t]
  BY CountSuffices DEF CountDown
<1>1. /\ l \in Latches /\ n \in 1..MaxCount /\ n \in 0..MaxCount
      /\ {t} \X (1..n) \subseteq Pending(l) /\ n <= count[l]
  BY <1>0, CountSuffices, MaxCountAssumption DEF CountDown
<1>2. /\ count' = [count EXCEPT ![l] = @ - n]
      /\ mutex[l] = Nobody /\ mutex' = [mutex EXCEPT ![l] = t]
      /\ \E label \in {"notify_all", "unlock"} : pc' = [pc EXCEPT ![t] = label]
      /\ pc[t] = "count_down"
      /\ UNCHANGED <<promised, life, on, amount, passed>>
  BY <1>0 DEF CountDown, Acquire, GoTo
<1>3. TypeOK'
  <2>1. count'[l] \in 0..MaxCount
    BY <1>0, <1>1, <1>2, MaxCountAssumption DEF IInv, TypeOK
  <2> QED BY <1>0, <1>1, <1>2, <2>1 DEF IInv, TypeOK, PCs
<1>4. \A k \in Latches \ {l} : Pending(k)' = Pending(k)
  BY <1>0, <1>2 DEF IInv, TypeOK, Pending, Unit
<1>5. Pending(l)' = Pending(l) \ ({t} \X (1..n))
  BY <1>0, <1>1, <1>2, MaxCountAssumption DEF IInv, TypeOK, Pending, Unit
<1>6. Pending(l) \in SUBSET Unit
  BY DEF Pending
<1>7. Cardinality(Pending(l)') = Cardinality(Pending(l)) - n
  BY <1>1, <1>5, <1>6, UnitsRemoved
<1>8. Cardinality(Pending(l)) \in Nat
  BY <1>6, UnitsFinite
<1>9. count[l] = promised[l] + Cardinality(Pending(l))
  BY <1>1 DEF IInv, Balance
<1>10. promised'[l] = promised[l] /\ count'[l] = count[l] - n /\ promised[l] \in Nat
  BY <1>0, <1>1, <1>2, MaxCountAssumption DEF IInv, TypeOK
<1>11. count'[l] = promised'[l] + Cardinality(Pending(l)')
  BY <1>1, <1>7, <1>8, <1>9, <1>10, MaxCountAssumption
<1>12. \A k \in Latches \ {l} : count'[k] = promised'[k] + Cardinality(Pending(k)')
  BY <1>0, <1>1, <1>2, <1>4 DEF IInv, TypeOK, Balance
<1>13. Balance'
  BY <1>11, <1>12 DEF Balance
<1>14. OpenHasWaitersOnly'
  <2>1. \A s \in Threads : passed[s] # l
    BY <1>0, <1>1, <1>2, LatchesAssumption DEF IInv, OpenHasWaitersOnly, Waiting
  <2> QED BY <1>0, <1>1, <1>2, <2>1 DEF IInv, TypeOK, OpenHasWaitersOnly
<1>15. CountsDownByOne' /\ ReadyIsNowhere' /\ LatchOutlivesCalls'
  BY <1>0, <1>1, <1>2, LatchesAssumption
  DEF IInv, TypeOK, CountsDownByOne, ReadyIsNowhere, LatchOutlivesCalls
<1>16. NotifierOwnsMutex'
  <2>1. \A s \in Threads \ {t} : pc[s] \in {"notify_all", "unlock"} => on[s] # l
    BY <1>0, <1>1, <1>2, ThreadsAssumption DEF IInv, TypeOK, NotifierOwnsMutex
  <2>2. \A s \in Threads : pc[s] \in {"notify_all", "unlock"} => on[s] \in Latches
    BY LatchesAssumption DEF IInv, TypeOK, ReadyIsNowhere
  <2> QED BY <1>0, <1>1, <1>2, <2>1, <2>2 DEF IInv, TypeOK, NotifierOwnsMutex
<1> QED BY <1>3, <1>13, <1>14, <1>15, <1>16 DEF IInv

LEMMA CountDownNotifyIInv ==
  ASSUME IInv, NEW t \in Threads, CountDownNotify(t)
  PROVE  IInv'
<1>1. /\ pc[t] = "notify_all" /\ pc'[t] = "unlock"
      /\ \A s \in Threads \ {t} : \/ pc'[s] = pc[s]
                                  \/ pc[s] = "asleep" /\ pc'[s] = "relock"
                                  \/ pc[s] = "asleep_for" /\ pc'[s] = "relock_for"
      /\ pc' \in [Threads -> PCs]
      /\ UNCHANGED <<count, promised, mutex, life, on, amount, passed>>
  BY DEF IInv, TypeOK, CountDownNotify, Asleep, WakeUp, PCs, Waiting
<1>2. TypeOK'
  BY <1>1 DEF IInv, TypeOK
<1>3. Balance'
  <2>1. \A s \in Threads : pc[s] = "count_down" <=> pc'[s] = "count_down"
    BY <1>1
  <2>2. \A s \in Threads : pc[s] = "count_down" => on'[s] = on[s]
    BY <1>1
  <2>3. UNCHANGED <<count, promised, amount>>
    BY <1>1
  <2> QED BY <2>1, <2>2, <2>3, BalanceSame
<1>4. OpenHasWaitersOnly'
  BY <1>1 DEF IInv, TypeOK, OpenHasWaitersOnly, Waiting
<1>5. CountsDownByOne' /\ ReadyIsNowhere' /\ NotifierOwnsMutex' /\ LatchOutlivesCalls'
  BY <1>1
  DEF IInv, TypeOK, CountsDownByOne, ReadyIsNowhere, NotifierOwnsMutex,
      LatchOutlivesCalls
<1> QED BY <1>2, <1>3, <1>4, <1>5 DEF IInv

\* No other thread is past its count_down: each of them would own the mutex.
LEMMA CountDownUnlockIInv ==
  ASSUME IInv, NEW t \in Threads, CountDownUnlock(t)
  PROVE  IInv'
<1>1. /\ pc[t] = "unlock"
      /\ mutex' = [mutex EXCEPT ![on[t]] = Nobody]
      /\ pc' = [pc EXCEPT ![t] = "ready"] /\ on' = [on EXCEPT ![t] = Nobody]
      /\ UNCHANGED <<count, promised, life, amount, passed>>
  BY DEF CountDownUnlock, Release, Leave
<1>2. TypeOK'
  BY <1>1 DEF IInv, TypeOK, PCs
<1>3. Balance'
  BY <1>1, BalanceSame DEF IInv, TypeOK
<1>4. OpenHasWaitersOnly'
  BY <1>1, LatchesAssumption DEF IInv, TypeOK, OpenHasWaitersOnly
<1>5. CountsDownByOne' /\ ReadyIsNowhere' /\ LatchOutlivesCalls'
  BY <1>1
  DEF IInv, TypeOK, CountsDownByOne, ReadyIsNowhere, LatchOutlivesCalls
<1>6. NotifierOwnsMutex'
  <2>1. \A s \in Threads \ {t} : pc[s] \in {"notify_all", "unlock"} => on[s] # on[t]
    BY <1>1 DEF IInv, NotifierOwnsMutex
  <2>2. \A s \in Threads : pc[s] \in {"notify_all", "unlock"} => on[s] \in Latches
    BY LatchesAssumption DEF IInv, TypeOK, ReadyIsNowhere
  <2> QED BY <1>1, <2>1, <2>2 DEF IInv, TypeOK, NotifierOwnsMutex
<1> QED BY <1>2, <1>3, <1>4, <1>5, <1>6 DEF IInv

\* A thread enters a wait.
LEMMA WaitCallIInv ==
  ASSUME IInv, NEW t \in Threads, NEW l \in Latches, NEW label \in {"wait", "wait_for"},
         pc[t] = "ready", life[l] = "alive",
         pc' = [pc EXCEPT ![t] = label], on' = [on EXCEPT ![t] = l],
         UNCHANGED <<count, promised, mutex, life, amount, passed>>
  PROVE  IInv'
<1>1. TypeOK'
  BY DEF IInv, TypeOK, PCs, Waiting
<1>2. Balance'
  BY BalanceSame DEF IInv, TypeOK
<1>3. OpenHasWaitersOnly'
  BY DEF IInv, TypeOK, OpenHasWaitersOnly, Waiting
<1>4. CountsDownByOne' /\ ReadyIsNowhere' /\ NotifierOwnsMutex' /\ LatchOutlivesCalls'
  BY LatchesAssumption
  DEF IInv, TypeOK, CountsDownByOne, ReadyIsNowhere, NotifierOwnsMutex,
      LatchOutlivesCalls
<1> QED BY <1>1, <1>2, <1>3, <1>4 DEF IInv

\* A waiting thread stays inside its wait.
LEMMA WaitGoesOnIInv ==
  ASSUME IInv, NEW t \in Threads, pc[t] \in Waiting, NEW label \in Waiting,
         pc' = [pc EXCEPT ![t] = label],
         UNCHANGED <<count, promised, mutex, life, on, amount, passed>>
  PROVE  IInv'
<1>1. TypeOK'
  BY DEF IInv, TypeOK, PCs
<1>2. Balance'
  BY BalanceSame DEF IInv, TypeOK, Waiting
<1>3. OpenHasWaitersOnly'
  BY DEF IInv, TypeOK, OpenHasWaitersOnly
<1>4. CountsDownByOne' /\ ReadyIsNowhere' /\ NotifierOwnsMutex' /\ LatchOutlivesCalls'
  BY DEF IInv, TypeOK, CountsDownByOne, ReadyIsNowhere, NotifierOwnsMutex,
         LatchOutlivesCalls, Waiting
<1> QED BY <1>1, <1>2, <1>3, <1>4 DEF IInv

\* A thread leaves its wait.  If it found the counter at zero nothing is
\* pending, and the free mutex shows that no count_down is at its end.
LEMMA WaitReturnsIInv ==
  ASSUME IInv, NEW t \in Threads, pc[t] \in Waiting, mutex[on[t]] = Nobody,
         pc' = [pc EXCEPT ![t] = "ready"], on' = [on EXCEPT ![t] = Nobody],
         \/ count[on[t]] <= 0 /\ passed' = [passed EXCEPT ![t] = on[t]]
         \/ passed' = [passed EXCEPT ![t] = Nobody],
         UNCHANGED <<count, promised, mutex, life, amount>>
  PROVE  IInv'
<1>1. on[t] \in Latches
  BY DEF IInv, TypeOK, ReadyIsNowhere, Waiting
<1>2. TypeOK'
  BY <1>1 DEF IInv, TypeOK, PCs
<1>3. Balance'
  BY BalanceSame DEF IInv, TypeOK, Waiting
<1>4. CountsDownByOne' /\ ReadyIsNowhere' /\ NotifierOwnsMutex' /\ LatchOutlivesCalls'
  BY DEF IInv, TypeOK, CountsDownByOne, ReadyIsNowhere, NotifierOwnsMutex,
         LatchOutlivesCalls, Waiting
<1>5. CASE passed' = [passed EXCEPT ![t] = Nobody]
  <2>1. OpenHasWaitersOnly'
    BY <1>5, LatchesAssumption DEF IInv, TypeOK, OpenHasWaitersOnly
  <2> QED BY <1>2, <1>3, <1>4, <2>1 DEF IInv
<1>6. CASE count[on[t]] <= 0 /\ passed' = [passed EXCEPT ![t] = on[t]]
  <2> DEFINE l == on[t]
  <2>1. count[l] = promised[l] + Cardinality(Pending(l))
    BY <1>1 DEF IInv, Balance
  <2>2. Cardinality(Pending(l)) \in Nat /\ promised[l] \in Nat /\ count[l] \in Nat
    BY <1>1, UnitsFinite, PendingUnits, MaxCountAssumption DEF IInv, TypeOK
  <2>3. count[l] = 0 /\ promised[l] = 0 /\ Cardinality(Pending(l)) = 0
    BY <1>6, <2>1, <2>2
  <2>4. \A s \in Threads : pc[s] = "count_down" => on[s] # l
    <3> SUFFICES ASSUME NEW s \in Threads, pc[s] = "count_down", on[s] = l PROVE FALSE
      OBVIOUS
    <3>1. amount[s] \in 1..MaxCount /\ amount[s] <= count[l]
      BY CountSuffices
    <3> QED BY <2>3, <3>1, MaxCountAssumption
  <2>5. \A s \in Threads : on[s] = l => pc[s] \notin {"notify_all", "unlock"}
    BY ThreadsAssumption DEF IInv, NotifierOwnsMutex
  <2>6. \A s \in Threads : on[s] = l => pc[s] \in Waiting
    BY <1>1, <2>4, <2>5, LatchesAssumption DEF IInv, TypeOK, ReadyIsNowhere, PCs
  <2>7. life[l] = "alive"
    BY <1>1, LatchesAssumption DEF IInv, LatchOutlivesCalls
  <2>8. OpenHasWaitersOnly'
    BY <1>1, <1>6, <2>3, <2>6, <2>7, LatchesAssumption
    DEF IInv, TypeOK, OpenHasWaitersOnly
  <2> QED BY <1>2, <1>3, <1>4, <2>8 DEF IInv
<1> QED BY <1>5, <1>6

\* The three places where a waiting thread looks at the counter.
LEMMA WaitStepIInv ==
  ASSUME IInv, NEW t \in Threads, WaitStep(t)
  PROVE  IInv'
<1>1. CASE Wait(t)
  <2>1. pc[t] \in Waiting /\ "asleep" \in Waiting
    BY <1>1 DEF Wait, Waiting
  <2> QED
    BY <1>1, <2>1, WaitReturnsIInv, WaitGoesOnIInv DEF Wait, WaitTest, GoTo, Leave
<1>2. CASE WaitFor(t)
  <2>1. pc[t] \in Waiting /\ "asleep_for" \in Waiting
    BY <1>2 DEF WaitFor, Waiting
  <2> QED
    BY <1>2, <2>1, WaitReturnsIInv, WaitGoesOnIInv DEF WaitFor, WaitTest, GoTo, Leave
<1>3. CASE WaitForExpired(t)
  <2>1. pc[t] \in Waiting
    BY <1>3 DEF WaitForExpired, Waiting
  <2>2. \/ count[on[t]] <= 0 /\ passed' = [passed EXCEPT ![t] = on[t]]
        \/ passed' = [passed EXCEPT ![t] = Nobody]
    <3>1. CASE count[on[t]] = 0
      BY <1>3, <3>1 DEF WaitForExpired
    <3>2. CASE count[on[t]] # 0
      BY <1>3, <3>2 DEF WaitForExpired
    <3> QED BY <3>1, <3>2
  <2> QED BY <1>3, <2>1, <2>2, WaitReturnsIInv DEF WaitForExpired, Leave
<1> QED BY <1>1, <1>2, <1>3 DEF WaitStep

LEMMA NextIInv == IInv /\ [Next]_vars => IInv'
<1> SUFFICES ASSUME IInv, [Next]_vars PROVE IInv'
  OBVIOUS
<1>1. ASSUME NEW l \in Latches, NEW n \in 0..MaxCount, Construct(l, n) PROVE IInv'
  BY <1>1, ConstructIInv
<1>2. ASSUME NEW t \in Threads, NEW l \in Latches, NEW n \in 1..MaxCount,
             CountDownCall(t, l, n)
      PROVE  IInv'
  BY <1>2, CountDownCallIInv
<1>3. ASSUME NEW t \in Threads, NEW l \in Latches, WaitCall(t, l) PROVE IInv'
  BY <1>3, WaitCallIInv DEF WaitCall
<1>4. ASSUME NEW t \in Threads, NEW l \in Latches, WaitForCall(t, l) PROVE IInv'
  BY <1>4, WaitCallIInv DEF WaitForCall
<1>5. ASSUME NEW t \in Threads, NEW l \in Latches, Destroy(t, l) PROVE IInv'
  BY <1>5, DestroyIInv
<1>6. ASSUME NEW t \in Threads, CountDownStep(t) PROVE IInv'
  BY <1>6, CountDownIInv, CountDownNotifyIInv, CountDownUnlockIInv DEF CountDownStep
<1>7. ASSUME NEW t \in Threads, WaitStep(t) PROVE IInv'
  BY <1>7, WaitStepIInv
<1>8. ASSUME NEW t \in Threads, Expire(t) PROVE IInv'
  <2>1. pc[t] \in Waiting /\ "expired" \in Waiting
    BY <1>8 DEF Expire, Waiting
  <2> QED BY <1>8, <2>1, WaitGoesOnIInv DEF Expire, GoTo
<1>9. ASSUME NEW t \in Threads, SpuriousWake(t) PROVE IInv'
  <2>1. pc[t] \in Waiting /\ WakeUp(t) \in Waiting
    BY <1>9 DEF SpuriousWake, WakeUp, Waiting
  <2> QED BY <1>9, <2>1, WaitGoesOnIInv DEF SpuriousWake, GoTo
<1>10. CASE UNCHANGED vars
  <2>1. Balance'
    BY <1>10, BalanceSame DEF vars
  <2> QED
    BY <1>10, <2>1
    DEF vars, IInv, TypeOK, CountsDownByOne, ReadyIsNowhere, NotifierOwnsMutex,
        OpenHasWaitersOnly, LatchOutlivesCalls
<1> QED
  BY <1>1, <1>2, <1>3, <1>4, <1>5, <1>6, <1>7, <1>8, <1>9, <1>10 DEF Next

LEMMA Inductive == Safety => []IInv
BY InitIInv, NextIInv, PTL DEF Safety

-----------------------------------------------------------------------------
\* The state of a latch is always of its type: however calls of count_down
\* overlap, the counter stays between zero and what it was constructed with.
THEOREM TypeCorrect == Safety => []TypeOK
<1>1. IInv => TypeOK
  BY DEF IInv
<1> QED BY <1>1, Inductive, PTL

\* No thread is inside a call of a latch that has been destroyed, although its
\* owner destroys it as soon as a wait has returned.
THEOREM OutlivesCalls == Safety => []LatchOutlivesCalls
<1>1. IInv => LatchOutlivesCalls
  BY DEF IInv
<1> QED BY <1>1, Inductive, PTL

\* A latch that a wait has found open has been counted down by all it was
\* constructed for, and stays open.
THEOREM OpenStaysOpen == Safety => []OpenIsFinal
<1>1. IInv => OpenIsFinal
  BY DEF IInv, OpenHasWaitersOnly, OpenIsFinal, Waiting
<1> QED BY <1>1, Inductive, PTL

=============================================================================
