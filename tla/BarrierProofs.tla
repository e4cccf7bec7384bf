----------------------------- MODULE BarrierProofs -----------------------------
(***************************************************************************)
(* What TLAPS proves of Barrier, for any finite set of threads, any parties *)
(* and any number of phases: its safety invariants, that a wait returns     *)
(* only when the completion function of its phase has, and that it is the   *)
(* barrier AbstractBarrier describes.                                       *)
(***************************************************************************)
EXTENDS Barrier, FiniteSetTheorems, TLAPS

-----------------------------------------------------------------------------
(* The inductive invariant.                                                 *)

Dropping == {"complete_drop", "release_drop"}
Releasing == {"release", "release_drop"}

\* The last arrival keeps the mutex until it has started the next phase.
CompleterOwnsMutex ==
  \A t \in Threads : pc[t] \in Completing => mutex = t /\ iteration < MaxPhases

\* Who is still due has not been counted down.
DueIsCounted == Cardinality(Shares(due)) <= count

\* The next phase expects all parties that are left; one that drops out as the
\* last of its phase is left out when that phase is released.
HeldIsExpected ==
  /\ Cardinality(Shares(holds)) <= expected
  /\ \A t \in Threads : pc[t] \in Dropping => Cardinality(Shares(holds)) < expected

\* The completion function has returned once for every phase that is over, and
\* once more between its return and the change of phase.
CompletedPhases ==
  /\ (\A t \in Threads : pc[t] \notin Releasing) => completed = iteration
  /\ \A t \in Threads : pc[t] \in Releasing => completed = iteration + 1

TokensAreOld == \A t \in Threads : token[t] <= iteration

IInv ==
  /\ TypeOK
  /\ CompleterOwnsMutex
  /\ DueIsCounted /\ HeldIsExpected
  /\ CompletedPhases /\ TokensAreOld
  /\ AllArrived /\ SleepersAreCurrent

-----------------------------------------------------------------------------
(* Counting shares.                                                         *)

LEMMA SharesFinite ==
  ASSUME NEW f \in [Threads -> Nat]
  PROVE  IsFiniteSet(Shares(f)) /\ Cardinality(Shares(f)) \in Nat
<1> DEFINE share == [t \in Threads |-> {t} \X (1..f[t])]
           all == {{t} \X (1..f[t]) : t \in Threads}
<1>1. \A t \in Threads : IsFiniteSet({t} \X (1..f[t]))
  <2> SUFFICES ASSUME NEW t \in Threads PROVE IsFiniteSet({t} \X (1..f[t]))
    OBVIOUS
  <2>1. PICK n \in Int : n = f[t]
    OBVIOUS
  <2>2. IsFiniteSet(1..n)
    BY FS_Interval
  <2>3. IsFiniteSet({t})
    BY FS_Singleton
  <2> QED BY <2>1, <2>2, <2>3, FS_Product
<1>2. share \in Surjection(Threads, all)
  BY DEF Surjection
<1>3. IsFiniteSet(all)
  BY <1>2, FS_Surjection, ThreadsAssumption
<1>4. IsFiniteSet(UNION all)
  BY <1>1, <1>3, FS_UNION
<1> QED BY <1>4, FS_CardinalityType DEF Shares

\* Nobody has a share when there are none.
LEMMA SharesEmpty ==
  ASSUME NEW f \in [Threads -> Nat], Cardinality(Shares(f)) <= 0
  PROVE  \A t \in Threads : f[t] = 0
<1>1. Cardinality(Shares(f)) = 0
  BY SharesFinite
<1>2. Shares(f) = {}
  BY <1>1, SharesFinite, FS_EmptySet
<1>3. \A t \in Threads : f[t] >= 1 => <<t, 1>> \in Shares(f)
  BY DEF Shares
<1> QED BY <1>2, <1>3

\* One thread gives up some of its shares.
LEMMA SharesRemoved ==
  ASSUME NEW f \in [Threads -> Nat], NEW t \in Threads, NEW n \in Nat, n <= f[t]
  PROVE  /\ Cardinality(Shares([f EXCEPT ![t] = @ - n])) = Cardinality(Shares(f)) - n
         /\ n <= Cardinality(Shares(f))
<1> DEFINE g == [f EXCEPT ![t] = @ - n]
           C == {t} \X ((f[t] - n + 1)..f[t])
<1>1. f[t] \in Nat /\ f[t] - n \in Nat
  OBVIOUS
<1>2. g \in [Threads -> Nat] /\ g[t] = f[t] - n /\ \A s \in Threads \ {t} : g[s] = f[s]
  BY <1>1
<1>3. C \subseteq Shares(f)
  BY <1>1 DEF Shares
<1>4. Shares(g) = Shares(f) \ C
  <2>1. ASSUME NEW u, u \in Shares(g) PROVE u \in Shares(f) \ C
    <3>1. PICK s \in Threads : u \in {s} \X (1..g[s])
      BY <2>1 DEF Shares
    <3>2. u[1] = s /\ u[2] \in 1..g[s] /\ u = <<u[1], u[2]>>
      BY <3>1
    <3>3. u[2] \in 1..f[s] /\ u \notin C
      BY <1>1, <1>2, <3>2
    <3> QED BY <3>2, <3>3 DEF Shares
  <2>2. ASSUME NEW u, u \in Shares(f), u \notin C PROVE u \in Shares(g)
    <3>1. PICK s \in Threads : u \in {s} \X (1..f[s])
      BY <2>2 DEF Shares
    <3>2. u[1] = s /\ u[2] \in 1..f[s] /\ u = <<u[1], u[2]>>
      BY <3>1
    <3>3. u[2] \in 1..g[s]
      BY <1>1, <1>2, <2>2, <3>2
    <3> QED BY <3>2, <3>3 DEF Shares
  <2> QED BY <2>1, <2>2
<1>5. Cardinality(C) = n /\ IsFiniteSet(C)
  <2>1. PICK a \in Int, b \in Int : a = f[t] - n + 1 /\ b = f[t]
    BY <1>1
  <2>2. IsFiniteSet(a..b) /\ Cardinality(a..b) = IF a > b THEN 0 ELSE b - a + 1
    BY FS_Interval
  <2>3. Cardinality(a..b) = n
    BY <1>1, <2>1, <2>2
  <2>4. IsFiniteSet({t}) /\ Cardinality({t}) = 1
    BY FS_Singleton
  <2>5. Cardinality({t} \X (a..b)) = 1 * n /\ IsFiniteSet({t} \X (a..b))
    BY <2>2, <2>3, <2>4, FS_Product
  <2> QED BY <2>1, <2>5
<1>6. Shares(f) \cap C = C
  BY <1>3
<1>7. Cardinality(Shares(f) \ C) = Cardinality(Shares(f)) - Cardinality(C)
  <2>1. IsFiniteSet(Shares(f))
    BY SharesFinite
  <2>2. Cardinality(Shares(f) \ C) = Cardinality(Shares(f)) - Cardinality(Shares(f) \cap C)
    BY <2>1, FS_Difference
  <2> QED BY <1>6, <2>2
<1>8. Cardinality(C) <= Cardinality(Shares(f))
  BY <1>3, FS_Subset, SharesFinite
<1> QED BY <1>4, <1>5, <1>7, <1>8

LEMMA InitIInv == Init => IInv
<1> SUFFICES ASSUME Init PROVE IInv
  OBVIOUS
<1>1. Parties \in [Threads -> Nat] /\ Cardinality(Shares(Parties)) \in Nat
  BY PartiesAssumption, SharesFinite
<1>2. TypeOK
  BY <1>1, MaxPhasesAssumption DEF Init, TypeOK, Total
<1>3. DueIsCounted /\ HeldIsExpected
  BY <1>1 DEF Init, Total, DueIsCounted, HeldIsExpected, Dropping
<1> QED
  BY <1>2, <1>3
  DEF Init, IInv, CompleterOwnsMutex, CompletedPhases, TokensAreOld, AllArrived,
      SleepersAreCurrent, Completing, Releasing

-----------------------------------------------------------------------------
(* The invariant is inductive.                                              *)

\* What an arrival of n parties of thread t does to the count.  If it is the
\* last of its phase nobody is due any more.
LEMMA ArrivalCounts ==
  ASSUME IInv, NEW t \in Threads, NEW n \in Nat, NEW next, NEW last,
         DoArrive(t, n, next, last)
  PROVE  /\ due' = [due EXCEPT ![t] = @ - n]
         /\ count' = count - n /\ count' \in 0..Total(Parties)
         /\ due' \in [Threads -> Nat]
         /\ \A s \in Threads : due'[s] <= due[s]
         /\ DueIsCounted'
         /\ CountsDown(n) => \A s \in Threads : due'[s] = 0
<1>1. /\ due' = [due EXCEPT ![t] = @ - n] /\ count' = count - n
      /\ n <= due[t] /\ due \in [Threads -> Nat] /\ count \in 0..Total(Parties)
      /\ Cardinality(Shares(due)) <= count
  BY DEF IInv, TypeOK, DueIsCounted, DoArrive
<1>2. /\ due' \in [Threads -> Nat]
      /\ \A s \in Threads : due'[s] <= due[s]
  BY <1>1
<1>3. /\ Cardinality(Shares(due')) = Cardinality(Shares(due)) - n
      /\ n <= Cardinality(Shares(due))
  BY <1>1, SharesRemoved
<1>4. Cardinality(Shares(due)) \in Nat /\ Total(Parties) \in Nat
  BY <1>1, SharesFinite, PartiesAssumption DEF Total
<1>5. count' \in 0..Total(Parties) /\ Cardinality(Shares(due')) <= count'
  BY <1>1, <1>3, <1>4
<1>6. DueIsCounted'
  BY <1>5 DEF DueIsCounted, Shares
<1>7. ASSUME CountsDown(n) PROVE \A s \in Threads : due'[s] = 0
  <2>1. Cardinality(Shares(due')) <= 0
    BY <1>1, <1>3, <1>4, <1>7 DEF CountsDown
  <2> QED BY <1>2, <2>1, SharesEmpty
<1> QED BY <1>1, <1>2, <1>5, <1>6, <1>7

\* An arrival whatever it does to the parties that the thread holds, given
\* that these come out right.
LEMMA ArrivalIInv ==
  ASSUME IInv, NEW t \in Threads, NEW n \in Nat,
         NEW next \in {"ready", "wait"}, NEW last \in {"complete", "complete_drop"},
         DoArrive(t, n, next, last),
         token' = [token EXCEPT ![t] = iteration] \/ UNCHANGED token,
         holds' \in [Threads -> Nat],
         \A s \in Threads : due'[s] <= holds'[s] /\ holds'[s] <= Parties[s],
         Cardinality(Shares(holds')) <= expected,
         CountsDown(n) /\ last = "complete_drop" => Cardinality(Shares(holds')) < expected,
         forgotten' \in Nat
  PROVE  IInv'
<1>1. /\ pc[t] = "ready" /\ mutex = Nobody /\ iteration < MaxPhases
      /\ IF CountsDown(n) THEN mutex' = t /\ pc' = [pc EXCEPT ![t] = last]
                          ELSE mutex' = mutex /\ pc' = [pc EXCEPT ![t] = next]
      /\ UNCHANGED <<iteration, expected, completed>>
  BY DEF DoArrive, GoTo
<1>2. \A s \in Threads : pc[s] \notin Completing
  BY <1>1, ThreadsAssumption DEF IInv, CompleterOwnsMutex
<1>3. /\ pc' \in [Threads -> {"ready"} \cup Completing \cup Waiting]
      /\ mutex' \in Threads \cup {Nobody}
      /\ token' \in [Threads -> -1..MaxPhases]
  BY <1>1, MaxPhasesAssumption DEF IInv, TypeOK, Completing, Waiting
<1>4. TypeOK'
  BY <1>1, <1>3, ArrivalCounts DEF IInv, TypeOK, Total, Shares
<1>5. CompleterOwnsMutex'
  BY <1>1, <1>2 DEF IInv, TypeOK, CompleterOwnsMutex, Completing
<1>6. HeldIsExpected'
  <2>1. \A s \in Threads : pc[s] \notin Dropping
    BY <1>2 DEF Completing, Dropping
  <2>2. \A s \in Threads : pc'[s] \in Dropping => CountsDown(n) /\ last = "complete_drop"
    BY <1>1, <2>1 DEF IInv, TypeOK, Dropping
  <2> QED BY <1>1, <2>2 DEF HeldIsExpected, Shares
<1>7. CompletedPhases'
  BY <1>1, <1>2 DEF IInv, TypeOK, CompletedPhases, Completing, Releasing
<1>8. TokensAreOld'
  BY <1>1, MaxPhasesAssumption DEF IInv, TypeOK, TokensAreOld
<1>9. AllArrived'
  BY <1>1, <1>2, ArrivalCounts DEF IInv, TypeOK, AllArrived, Completing
<1>10. SleepersAreCurrent'
  BY <1>1 DEF IInv, TypeOK, SleepersAreCurrent
<1>11. DueIsCounted'
  BY ArrivalCounts
<1> QED BY <1>4, <1>5, <1>6, <1>7, <1>8, <1>9, <1>10, <1>11 DEF IInv

LEMMA ArriveIInv ==
  ASSUME IInv, NEW t \in Threads, NEW n \in Nat, NEW next \in {"ready", "wait"},
         DoArrive(t, n, next, "complete"),
         token' = [token EXCEPT ![t] = iteration],
         UNCHANGED <<holds, forgotten>>
  PROVE  IInv'
<1>1. /\ holds' \in [Threads -> Nat] /\ forgotten' \in Nat
      /\ \A s \in Threads : due[s] <= holds'[s] /\ holds'[s] <= Parties[s]
  BY DEF IInv, TypeOK
<1>2. Cardinality(Shares(holds')) <= expected
  BY DEF IInv, HeldIsExpected
<1>3. \A s \in Threads : due'[s] <= holds'[s] /\ holds'[s] <= Parties[s]
  <2> SUFFICES ASSUME NEW s \in Threads PROVE due'[s] <= holds'[s] /\ holds'[s] <= Parties[s]
    OBVIOUS
  <2>1. due'[s] <= due[s] /\ due'[s] \in Nat
    BY ArrivalCounts
  <2> QED BY <1>1, <2>1 DEF IInv, TypeOK
<1> QED BY <1>1, <1>2, <1>3, ArrivalIInv

\* A thread drops one of its parties, which has not arrived yet.
LEMMA ArriveAndDropIInv ==
  ASSUME IInv, NEW t \in Threads, ArriveAndDrop(t)
  PROVE  IInv'
<1>1. /\ DoArrive(t, 1, "ready", "complete_drop")
      /\ holds' = [holds EXCEPT ![t] = @ - 1]
      /\ forgotten' \in Nat /\ UNCHANGED token
      /\ 1 <= due[t] /\ due' = [due EXCEPT ![t] = @ - 1]
  BY DEF IInv, TypeOK, ArriveAndDrop, DoArrive
<1>2. /\ holds \in [Threads -> Nat] /\ due \in [Threads -> Nat]
      /\ \A s \in Threads : due[s] <= holds[s] /\ holds[s] <= Parties[s]
  BY DEF IInv, TypeOK
<1>3. holds' \in [Threads -> Nat]
  BY <1>1, <1>2
<1>4. \A s \in Threads : due'[s] <= holds'[s] /\ holds'[s] <= Parties[s]
  BY <1>1, <1>2, PartiesAssumption
<1>5. /\ Cardinality(Shares(holds')) = Cardinality(Shares(holds)) - 1
      /\ Cardinality(Shares(holds)) \in Nat
  <2>1. 1 <= holds[t] /\ 1 \in Nat
    BY <1>1, <1>2
  <2>2. Cardinality(Shares([holds EXCEPT ![t] = @ - 1])) = Cardinality(Shares(holds)) - 1
    BY <1>2, <2>1, SharesRemoved
  <2> QED BY <1>1, <1>2, <2>2, SharesFinite
<1>6. Cardinality(Shares(holds)) <= expected /\ expected \in Nat
  <2>1. Total(Parties) \in Nat
    BY SharesFinite, PartiesAssumption DEF Total
  <2> QED BY <2>1 DEF IInv, TypeOK, HeldIsExpected
<1>7. Cardinality(Shares(holds')) <= expected /\ Cardinality(Shares(holds')) < expected
  BY <1>5, <1>6
<1> QED BY <1>1, <1>3, <1>4, <1>7, ArrivalIInv

\* The completion function returns; the thread that ran it holds the mutex, so
\* there is no other that is about to start the next phase.
LEMMA CompleteIInv ==
  ASSUME IInv, NEW t \in Threads, Complete(t)
  PROVE  IInv'
<1>1. /\ \/ pc[t] = "complete" /\ pc' = [pc EXCEPT ![t] = "release"]
         \/ pc[t] = "complete_drop" /\ pc' = [pc EXCEPT ![t] = "release_drop"]
      /\ completed' = completed + 1
      /\ UNCHANGED <<count, iteration, expected, mutex, token, holds, due, forgotten>>
  BY DEF Complete, GoTo
<1>2. mutex = t /\ iteration < MaxPhases
  BY <1>1 DEF IInv, CompleterOwnsMutex, Completing
<1>3. \A s \in Threads : s # t => pc[s] \notin Completing /\ pc'[s] = pc[s]
  BY <1>1, <1>2 DEF IInv, TypeOK, CompleterOwnsMutex
<1>4. \A s \in Threads : pc[s] \notin Releasing
  BY <1>1, <1>3 DEF Completing, Releasing
<1>5. completed = iteration
  BY <1>4 DEF IInv, CompletedPhases
<1>6. pc' \in [Threads -> {"ready"} \cup Completing \cup Waiting]
  BY <1>1 DEF IInv, TypeOK, Completing
<1>7. pc'[t] \in Releasing /\ (pc'[t] \in Dropping <=> pc[t] \in Dropping)
  BY <1>1 DEF IInv, TypeOK, Releasing, Dropping
<1>8. TypeOK'
  BY <1>1, <1>2, <1>5, <1>6, MaxPhasesAssumption DEF IInv, TypeOK, Total, Shares
<1>9. CompleterOwnsMutex'
  BY <1>1, <1>2, <1>3 DEF CompleterOwnsMutex
<1>10. HeldIsExpected' /\ DueIsCounted'
  BY <1>1, <1>3, <1>7 DEF IInv, HeldIsExpected, DueIsCounted, Shares
<1>11. CompletedPhases'
  BY <1>1, <1>5, <1>7 DEF CompletedPhases
<1>12. AllArrived'
  <2>1. pc[t] \in Completing
    BY <1>1 DEF Completing
  <2> QED BY <1>1, <2>1 DEF IInv, AllArrived
<1>13. SleepersAreCurrent' /\ TokensAreOld'
  BY <1>1, <1>3, <1>7 DEF IInv, SleepersAreCurrent, TokensAreOld, Releasing
<1> QED BY <1>8, <1>9, <1>10, <1>11, <1>12, <1>13 DEF IInv

\* The next phase: all that are held are due, and all of them are expected.
LEMMA ReleaseIInv ==
  ASSUME IInv, NEW t \in Threads, Release(t)
  PROVE  IInv'
<1>1. /\ pc[t] \in Releasing
      /\ expected' = expected - IF pc[t] = "release_drop" THEN 1 ELSE 0
      /\ count' = expected' /\ iteration' = iteration + 1 /\ mutex' = Nobody
      /\ pc' = [s \in Threads |-> IF s = t THEN "ready"
                                  ELSE IF pc[s] = "asleep" THEN "relock" ELSE pc[s]]
      /\ due' = holds /\ UNCHANGED <<token, holds, completed, forgotten>>
  BY DEF Release, Releasing, NotifyAll
<1>2. mutex = t /\ iteration < MaxPhases
  BY <1>1 DEF IInv, CompleterOwnsMutex, Completing, Releasing
<1>3. \A s \in Threads : pc'[s] \notin Completing /\ pc'[s] # "asleep"
  <2>1. \A s \in Threads : s # t => pc[s] \notin Completing
    BY <1>2 DEF IInv, CompleterOwnsMutex
  <2> QED BY <1>1, <2>1 DEF Completing
<1>4. pc' \in [Threads -> {"ready"} \cup Completing \cup Waiting]
  BY <1>1 DEF IInv, TypeOK, Waiting
<1>5. expected' \in 0..Total(Parties) /\ Cardinality(Shares(holds)) <= expected'
  <2>1. Total(Parties) \in Nat /\ Cardinality(Shares(holds)) \in Nat
    BY SharesFinite, PartiesAssumption DEF Total, IInv, TypeOK
  <2>2. CASE pc[t] = "release_drop"
    <3>1. Cardinality(Shares(holds)) < expected
      BY <2>2 DEF IInv, HeldIsExpected, Dropping
    <3> QED BY <1>1, <2>1, <2>2, <3>1 DEF IInv, TypeOK
  <2>3. CASE pc[t] # "release_drop"
    BY <1>1, <2>1, <2>3 DEF IInv, TypeOK, HeldIsExpected
  <2> QED BY <2>2, <2>3
<1>6. TypeOK'
  <2>1. iteration' \in 0..MaxPhases
    BY <1>1, <1>2, MaxPhasesAssumption DEF IInv, TypeOK
  <2>2. Total(Parties)' = Total(Parties)
    BY DEF Total, Shares
  <2>3. holds \in [Threads -> Nat] /\ \A s \in Threads : holds[s] <= holds[s]
    BY DEF IInv, TypeOK
  <2> QED BY <1>1, <1>4, <1>5, <2>1, <2>2, <2>3 DEF IInv, TypeOK
<1>7. CompleterOwnsMutex' /\ AllArrived'
  BY <1>3 DEF CompleterOwnsMutex, AllArrived
<1>8. DueIsCounted'
  BY <1>1, <1>5 DEF DueIsCounted, Shares
<1>9. HeldIsExpected'
  BY <1>1, <1>3, <1>5 DEF HeldIsExpected, Shares, Dropping, Completing
<1>10. CompletedPhases'
  <2>1. completed = iteration + 1
    BY <1>1 DEF IInv, CompletedPhases
  <2> QED BY <1>1, <1>3, <2>1 DEF CompletedPhases, Completing, Releasing
<1>11. TokensAreOld' /\ SleepersAreCurrent'
  BY <1>1, <1>3, MaxPhasesAssumption DEF IInv, TypeOK, TokensAreOld, SleepersAreCurrent
<1> QED BY <1>6, <1>7, <1>8, <1>9, <1>10, <1>11 DEF IInv

\* A step that only moves a thread between the labels outside the last part of
\* do_ardive(), and may spend its token.
LEMMA MoveIInv ==
  ASSUME IInv, NEW t \in Threads, pc[t] \notin Completing,
         NEW next \in {"ready"} \cup Waiting,
         pc' = [pc EXCEPT ![t] = next],
         next = "asleep" => token[t] = iteration,
         token' = token \/ (next # "asleep" /\ token' = [token EXCEPT ![t] = -1]),
         UNCHANGED <<count, iteration, expected, mutex, holds, due, completed, forgotten>>
  PROVE  IInv'
<1>1. /\ pc' \in [Threads -> {"ready"} \cup Completing \cup Waiting]
      /\ token' \in [Threads -> -1..MaxPhases]
  BY MaxPhasesAssumption DEF IInv, TypeOK
<1>2. TypeOK'
  BY <1>1 DEF IInv, TypeOK, Total, Shares
<1>3. next \notin Completing
  BY DEF Waiting, Completing
<1>4. \A s \in Threads : /\ pc[s] \in Completing <=> pc'[s] \in Completing
                         /\ pc[s] \in Completing => pc'[s] = pc[s]
  BY <1>3 DEF IInv, TypeOK
<1>5. CompleterOwnsMutex' /\ AllArrived'
  BY <1>4 DEF IInv, CompleterOwnsMutex, AllArrived
<1>6. DueIsCounted' /\ HeldIsExpected'
  BY <1>4 DEF IInv, DueIsCounted, HeldIsExpected, Shares, Dropping, Completing
<1>7. CompletedPhases'
  BY <1>4 DEF IInv, CompletedPhases, Releasing, Completing
<1>8. TokensAreOld'
  BY MaxPhasesAssumption DEF IInv, TypeOK, TokensAreOld
<1>9. SleepersAreCurrent'
  BY DEF IInv, TypeOK, SleepersAreCurrent
<1> QED BY <1>2, <1>5, <1>6, <1>7, <1>8, <1>9 DEF IInv

LEMMA NextIInv == IInv /\ [Next]_vars => IInv'
<1> SUFFICES ASSUME IInv, [Next]_vars PROVE IInv'
  OBVIOUS
<1>1. ASSUME NEW t \in Threads, Arrival(t) PROVE IInv'
  <2>1. CASE \E n \in 1..Parties[t] : Arrive(t, n)
    <3>1. PICK n \in Nat : Arrive(t, n)
      BY <2>1, PartiesAssumption
    <3> QED BY <3>1, ArriveIInv DEF Arrive
  <2>2. CASE ArriveAndWait(t)
    <3>1. 1 \in Nat
      OBVIOUS
    <3> QED BY <2>2, <3>1, ArriveIInv DEF ArriveAndWait
  <2>3. CASE ArriveAndDrop(t)
    BY <2>3, ArriveAndDropIInv
  <2> QED BY <1>1, <2>1, <2>2, <2>3 DEF Arrival
<1>2. ASSUME NEW t \in Threads, WaitCall(t) PROVE IInv'
  BY <1>2, MoveIInv DEF WaitCall, GoTo, Completing, Waiting
<1>3. ASSUME NEW t \in Threads, Step(t) PROVE IInv'
  <2>1. CASE Complete(t)
    BY <2>1, CompleteIInv
  <2>2. CASE Release(t)
    BY <2>2, ReleaseIInv
  <2>3. CASE Wait(t) \/ Relock(t)
    <3>1. pc[t] \notin Completing /\ Test(t)
      BY <2>3 DEF Wait, Relock, Completing
    <3>2. CASE token[t] # iteration
      BY <3>1, <3>2, MoveIInv DEF Test, GoTo, Waiting
    <3>3. CASE token[t] = iteration
      BY <3>1, <3>3, MoveIInv DEF Test, GoTo, Waiting
    <3> QED BY <3>2, <3>3
  <2> QED BY <1>3, <2>1, <2>2, <2>3 DEF Step
<1>4. ASSUME NEW t \in Threads, SpuriousWake(t) PROVE IInv'
  BY <1>4, MoveIInv DEF SpuriousWake, GoTo, Completing, Waiting
<1>5. CASE UNCHANGED vars
  BY <1>5 DEF vars, IInv, TypeOK, CompleterOwnsMutex, DueIsCounted, HeldIsExpected,
              CompletedPhases, TokensAreOld, AllArrived, SleepersAreCurrent, Shares, Total
<1> QED BY <1>1, <1>2, <1>3, <1>4, <1>5 DEF Next

-----------------------------------------------------------------------------
(* The theorems.                                                            *)

THEOREM Invariance == Safety => []IInv
<1> QED BY InitIInv, NextIInv, PTL DEF Safety

\* Every member keeps its type; the counts stay within the parties there were
\* at first, so that do_ardive() never takes count or expected below zero.
THEOREM TypeCorrect == Safety => []TypeOK
<1>1. IInv => TypeOK
  BY DEF IInv
<1> QED BY <1>1, Invariance, PTL

\* The completion function of a phase runs when all of its parties, those that
\* leave with it included, have arrived.
THEOREM CompletedByAll == Safety => []AllArrived
<1>1. IInv => AllArrived
  BY DEF IInv
<1> QED BY <1>1, Invariance, PTL

\* Nobody sleeps on a token of a phase that is over, whatever the pace of the
\* phases: each change of phase wakes all that sleep.
THEOREM NobodyOversleeps == Safety => []SleepersAreCurrent
<1>1. IInv => SleepersAreCurrent
  BY DEF IInv
<1> QED BY <1>1, Invariance, PTL

\* A wait returns only when the completion function of its phase has.
THEOREM WaitsForCompletion == Safety => ReleasedWhenComplete
<1> DEFINE Returns(t) == pc[t] \in Waiting /\ pc'[t] = "ready" => token[t] < completed
<1>1. ASSUME IInv, [Next]_vars PROVE [\A t \in Threads : Returns(t)]_vars
  <2> SUFFICES ASSUME Next, NEW t \in Threads, pc[t] \in Waiting, pc'[t] = "ready"
               PROVE  token[t] < completed
    BY <1>1
  <2>1. PICK s \in Threads : Arrival(s) \/ WaitCall(s) \/ Step(s) \/ SpuriousWake(s)
    BY DEF Next
  <2>2. pc[t] \in {"wait", "relock"} /\ Test(t) /\ token[t] # iteration
    <3>1. pc \in [Threads -> {"ready"} \cup Completing \cup Waiting]
      BY <1>1 DEF IInv, TypeOK
    <3>2. pc[t] # "ready" /\ pc[t] \notin Completing
      BY DEF Waiting, Completing
    <3>3. CASE Arrival(s)
      <4>1. pc[s] = "ready" /\ \E label : pc' = [pc EXCEPT ![s] = label]
        BY <3>3 DEF Arrival, Arrive, ArriveAndWait, ArriveAndDrop, DoArrive, GoTo
      <4> QED BY <3>1, <3>2, <4>1
    <3>4. CASE WaitCall(s) \/ SpuriousWake(s)
      BY <3>1, <3>2, <3>4 DEF WaitCall, SpuriousWake, GoTo
    <3>5. CASE Complete(s)
      BY <3>1, <3>2, <3>5 DEF Complete, GoTo, Completing
    <3>6. CASE Release(s)
      BY <3>1, <3>2, <3>6 DEF Release, NotifyAll, Completing
    <3>7. CASE Wait(s) \/ Relock(s)
      <4>1. s = t
        BY <3>1, <3>2, <3>7 DEF Wait, Relock, Test, GoTo
      <4> QED BY <3>1, <3>7, <4>1 DEF Wait, Relock, Test, GoTo
    <3> QED BY <2>1, <3>3, <3>4, <3>5, <3>6, <3>7 DEF Step
  <2>3. \A u \in Threads : pc[u] \notin Completing
    BY <1>1, <2>2, ThreadsAssumption DEF IInv, CompleterOwnsMutex, Test
  <2>4. completed = iteration
    BY <1>1, <2>3 DEF IInv, CompletedPhases, Completing, Releasing
  <2>5. token[t] <= iteration /\ token[t] \in Int /\ iteration \in Int
    BY <1>1, MaxPhasesAssumption DEF IInv, TypeOK, TokensAreOld
  <2> QED BY <2>2, <2>4, <2>5
<1> QED BY <1>1, Invariance, PTL DEF Safety, ReleasedWhenComplete

-----------------------------------------------------------------------------
(* The barrier implements AbstractBarrier.                                  *)

Sleepy == {t \in Threads : pc[t] \in Waiting}

\* A thread goes to another label.
LEMMA LabelMoves ==
  ASSUME IInv, NEW t \in Threads, NEW label, pc' = [pc EXCEPT ![t] = label]
  PROVE  Sleepy' = IF label \in Waiting THEN Sleepy \cup {t} ELSE Sleepy \ {t}
<1>1. pc'[t] = label /\ \A s \in Threads \ {t} : pc'[s] = pc[s]
  BY DEF IInv, TypeOK
<1> QED BY <1>1 DEF Sleepy

\* An arrival, the last one of its phase or not.
LEMMA ArrivalImplements ==
  ASSUME IInv, NEW t \in Threads, Arrival(t)
  PROVE  Abstract!Next
<1>1. "ready" \notin Waiting /\ "complete" \notin Waiting /\ "complete_drop" \notin Waiting
      /\ "wait" \in Waiting
  BY DEF Waiting
<1>2. ASSUME NEW n \in 1..Parties[t], Arrive(t, n) PROVE Abstract!Next
  <2>0. /\ pc[t] = "ready"
        /\ \/ pc' = [pc EXCEPT ![t] = "ready"]
           \/ pc' = [pc EXCEPT ![t] = "complete"]
    BY <1>2 DEF Arrive, DoArrive, GoTo
  <2>1. t \notin Sleepy /\ Sleepy' = Sleepy
    BY <1>1, <2>0, LabelMoves DEF Sleepy
  <2>2. Abstract!Arrive(t, n)
    BY <1>2, <2>1 DEF Abstract!Arrive, Arrive, DoArrive, Sleepy
  <2> QED BY <2>2 DEF Abstract!Next
<1>3. CASE ArriveAndWait(t)
  <2>0. /\ pc[t] = "ready"
        /\ \/ pc' = [pc EXCEPT ![t] = "wait"]
           \/ pc' = [pc EXCEPT ![t] = "complete"]
    BY <1>3 DEF ArriveAndWait, DoArrive, GoTo
  <2>1. t \notin Sleepy /\ Sleepy' \in {Sleepy, Sleepy \cup {t}}
    BY <1>1, <2>0, LabelMoves DEF Sleepy
  <2>2. Abstract!Arrive(t, 1)
    BY <1>3, <2>1 DEF Abstract!Arrive, ArriveAndWait, DoArrive, Sleepy
  <2>3. 1 \in 1..Parties[t]
    <3>1. due[t] = 1 /\ due[t] <= holds[t] /\ holds[t] <= Parties[t]
      BY <1>3 DEF ArriveAndWait, IInv, TypeOK
    <3>2. Parties[t] \in Nat /\ holds[t] \in Nat
      BY PartiesAssumption DEF IInv, TypeOK
    <3> QED BY <3>1, <3>2
  <2> QED BY <2>2, <2>3 DEF Abstract!Next
<1>4. CASE ArriveAndDrop(t)
  <2>0. /\ pc[t] = "ready"
        /\ \/ pc' = [pc EXCEPT ![t] = "ready"]
           \/ pc' = [pc EXCEPT ![t] = "complete_drop"]
    BY <1>4 DEF ArriveAndDrop, DoArrive, GoTo
  <2>1. t \notin Sleepy /\ Sleepy' = Sleepy
    BY <1>1, <2>0, LabelMoves DEF Sleepy
  <2>2. Abstract!ArriveAndDrop(t)
    BY <1>4, <2>1 DEF Abstract!ArriveAndDrop, ArriveAndDrop, DoArrive, Sleepy
  <2> QED BY <2>2 DEF Abstract!Next
<1> QED BY <1>2, <1>3, <1>4 DEF Arrival

\* The last arrival runs the completion function, and starts the next phase.
LEMMA CompletionImplements ==
  ASSUME IInv, NEW t \in Threads, Complete(t) \/ Release(t)
  PROVE  Abstract!Next
<1>1. CASE Complete(t)
  <2>1. pc[t] \in {"complete", "complete_drop"} /\ t \in Threads /\ pc[t] \in Completing
    BY <1>1 DEF Complete, Completing
  <2>2. \A s \in Threads : pc[s] \in Completing => s = t
    BY <2>1 DEF IInv, CompleterOwnsMutex
  <2>3. completed = iteration /\ \A s \in Threads : due[s] = 0
    BY <2>1, <2>2 DEF IInv, CompletedPhases, Releasing, Completing, AllArrived
  <2>4. Sleepy' = Sleepy
    BY <1>1, <2>1, LabelMoves DEF Complete, GoTo, Waiting, Sleepy
  <2>5. Abstract!Complete
    BY <1>1, <2>3, <2>4 DEF Abstract!Complete, Complete, Sleepy
  <2> QED BY <2>5 DEF Abstract!Next
<1>2. CASE Release(t)
  <2>1. completed = iteration + 1
    BY <1>2 DEF Release, IInv, CompletedPhases, Releasing
  <2>2. Sleepy' = Sleepy
    BY <1>2 DEF Release, NotifyAll, Sleepy, Waiting
  <2>3. Abstract!NextPhase
    BY <1>2, <2>1, <2>2 DEF Abstract!NextPhase, Release, Sleepy
  <2> QED BY <2>3 DEF Abstract!Next
<1> QED BY <1>1, <1>2

\* wait() ends when its token is of a phase that is over, or sleeps on.
LEMMA WaitImplements ==
  ASSUME IInv, NEW t \in Threads, WaitCall(t) \/ Wait(t) \/ Relock(t) \/ SpuriousWake(t)
  PROVE  Abstract!Next \/ UNCHANGED Abstract!vars
<1>1. "ready" \notin Waiting /\ {"wait", "asleep", "relock"} \subseteq Waiting
  BY DEF Waiting
<1>2. CASE WaitCall(t)
  <2>1. t \notin Sleepy /\ Sleepy' = Sleepy \cup {t}
    BY <1>1, <1>2, LabelMoves DEF WaitCall, GoTo, Sleepy
  <2>2. Abstract!Wait(t)
    BY <1>2, <2>1 DEF Abstract!Wait, WaitCall, Sleepy
  <2> QED BY <2>2 DEF Abstract!Next
<1>3. CASE Wait(t) \/ Relock(t)
  <2>1. t \in Sleepy /\ Test(t)
    BY <1>1, <1>3 DEF Wait, Relock, Sleepy
  <2>2. CASE token[t] # iteration
    <3>1. token[t] < iteration
      BY <2>2, MaxPhasesAssumption DEF IInv, TypeOK, TokensAreOld
    <3>2. Sleepy' = Sleepy \ {t}
      BY <1>1, <2>1, <2>2, LabelMoves DEF Test, GoTo
    <3>3. Abstract!Leave(t)
      BY <2>1, <2>2, <3>1, <3>2 DEF Abstract!Leave, Test, Sleepy
    <3> QED BY <3>3 DEF Abstract!Next
  <2>3. CASE token[t] = iteration
    <3>1. Sleepy' = Sleepy
      BY <1>1, <2>1, <2>3, LabelMoves DEF Test, GoTo
    <3> QED BY <2>1, <2>3, <3>1 DEF Abstract!vars, Test, Sleepy
  <2> QED BY <2>2, <2>3
<1>4. CASE SpuriousWake(t)
  <2>1. Sleepy' = Sleepy
    BY <1>1, <1>4, LabelMoves DEF SpuriousWake, GoTo, Sleepy
  <2> QED BY <1>4, <2>1 DEF Abstract!vars, SpuriousWake, Sleepy
<1> QED BY <1>2, <1>3, <1>4

LEMMA StepImplements ==
  ASSUME IInv, [Next]_vars
  PROVE  [Abstract!Next]_(Abstract!vars)
<1>1. CASE UNCHANGED vars
  BY <1>1 DEF vars, Abstract!vars
<1>2. ASSUME NEW t \in Threads, Arrival(t) \/ WaitCall(t) \/ Step(t) \/ SpuriousWake(t)
      PROVE  Abstract!Next \/ UNCHANGED Abstract!vars
  BY <1>2, ArrivalImplements, CompletionImplements, WaitImplements DEF Step
<1> QED BY <1>1, <1>2 DEF Next

\* Each phase is completed once, when all its parties have arrived; the next
\* one has the parties that are left; and a wait ends after its phase.
THEOREM ImplementsBarrier == Safety => Abstract!Safety
<1>1. Init => Abstract!Init
  BY DEF Init, Abstract!Init, Waiting
<1> QED BY <1>1, Invariance, StepImplements, PTL DEF Safety, Abstract!Safety

=============================================================================
