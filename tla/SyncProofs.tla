------------------------------- MODULE SyncProofs -------------------------------
(***************************************************************************)
(* What TLAPS proves of Sync, for any threads and tags and any number of    *)
(* requests and depth of the stacks: the type invariant, that a tag is      *)
(* taken while a function of it is on its way, and only then if no thread   *)
(* uses it in calls to itself, and that sync_point starts what one thread   *)
(* asked of another in the order in which it was asked, a nested sync_point *)
(* overtaking just what the outer ones have still to run.                   *)
(***************************************************************************)
EXTENDS Sync, FiniteSetTheorems, SequenceTheorems, TLAPS

-----------------------------------------------------------------------------
(* The inductive invariant.                                                 *)

Frames == PointFrames \cup FuncFrames \cup PushFrames

\* The places of closures for t: its queue and its frames.
Spots(t) == 0..Len(frames[t])

\* Closure number i of place d of t carries tag g.
Has(t, d, i, g) ==
  d \in Spots(t) /\ i \in DOMAIN Carried(t, d) /\ Carried(t, d)[i].tag = g

TakenIsHeld ==
  \A g \in Tags : active[g] => \E t \in Threads, d \in Nat, i \in Nat : Has(t, d, i, g)

HeldIsTaken ==
  \A g \in Tags \ SelfTags, t \in Threads, d \in Nat, i \in Nat :
    Has(t, d, i, g) => active[g]

HeldOnce ==
  \A g \in Tags \ SelfTags, t \in Threads, u \in Threads :
    \A d \in Nat, i \in Nat, e \in Nat, j \in Nat :
      Has(t, d, i, g) /\ Has(u, e, j, g) => t = u /\ d = e /\ i = j

\* What is called on the spot has a tag that threads use to call themselves.
DirectIsOwn ==
  \A t \in Threads : \A d \in DOMAIN frames[t] :
    frames[t][d].kind = "func" /\ frames[t][d].direct =>
      frames[t][d].closure.tag \in SelfTags \cup {NoTag}

TagInv == TakenIsHeld /\ HeldIsTaken /\ HeldOnce /\ DirectIsOwn

\* A thread that has yet to push a closure of its own does nothing else.
PushIsOnTop ==
  \A t \in Threads : \A d \in DOMAIN frames[t] : frames[t][d].kind = "push" =>
    d = Len(frames[t]) /\ frames[t][d].closure.from = t

NumbersGiven ==
  \A t \in Threads : \A d \in Spots(t) : \A i \in DOMAIN Carried(t, d) :
    Carried(t, d)[i].req <= made

\* The closures in this place wait to be started.
Waits(t, d) == d \in Spots(t) /\ (d = 0 \/ frames[t][d].kind = "sync_point")

Older(c, than) == c.from = than.from => c.req < than.req

InOrder(s) == \A i, j \in DOMAIN s : i < j => Older(s[i], s[j])

PlacesInOrder ==
  \A t \in Threads : \A d \in Nat : Waits(t, d) => InOrder(Carried(t, d))

\* A batch was taken from the queue before what is there now was put into it.
BatchBeforeQueue ==
  \A t \in Threads : \A d \in Nat \ {0} : Waits(t, d) =>
    \A i \in DOMAIN Carried(t, d), j \in DOMAIN tasks[t] :
      Older(Carried(t, d)[i], tasks[t][j])

\* The batch of a nested sync_point was taken after those of the outer ones.
OuterBeforeInner ==
  \A t \in Threads : \A d, e \in Nat \ {0} : d < e /\ Waits(t, d) /\ Waits(t, e) =>
    \A i \in DOMAIN Carried(t, d), j \in DOMAIN Carried(t, e) :
      Older(Carried(t, d)[i], Carried(t, e)[j])

\* The closure that t has yet to push is younger than all its others.
PushIsLatest ==
  \A t \in Threads : IsIn(t, "push") =>
    \A u \in Threads : \A d \in Nat : Waits(u, d) =>
      \A i \in DOMAIN Carried(u, d) :
        Carried(u, d)[i].from = t => Carried(u, d)[i].req < Top(t).closure.req

OrderInv ==
  /\ PushIsOnTop /\ NumbersGiven /\ PlacesInOrder
  /\ BatchBeforeQueue /\ OuterBeforeInner /\ PushIsLatest

IInv == TypeOK /\ TagInv /\ OrderInv

-----------------------------------------------------------------------------
(* The stacks.                                                              *)

LEMMA FrontAndLast ==
  ASSUME NEW S, NEW s \in Seq(S), s # <<>>
  PROVE  /\ Len(s) \in Nat \ {0} /\ DOMAIN s = 1..Len(s)
         /\ Front(s) \in Seq(S) /\ Len(Front(s)) = Len(s) - 1
         /\ \A i \in 1..(Len(s) - 1) : Front(s)[i] = s[i]
         /\ Last(s) = s[Len(s)] /\ Last(s) \in S
<1>1. Len(s) \in Nat \ {0} /\ DOMAIN s = 1..Len(s)
  BY EmptySeq, LenProperties
<1>2. \A i \in 1..(Len(s) - 1) : s[i] \in S
  BY <1>1, ElementOfSeq
<1>3. /\ SubSeq(s, 1, Len(s) - 1) \in Seq(S)
      /\ Len(SubSeq(s, 1, Len(s) - 1)) = IF 1 <= Len(s) - 1 THEN (Len(s) - 1) - 1 + 1 ELSE 0
      /\ \A i \in 1..((Len(s) - 1) - 1 + 1) : SubSeq(s, 1, Len(s) - 1)[i] = s[1 + i - 1]
  <2>1. Len(s) - 1 \in Int /\ 1 \in Int
    BY <1>1
  <2> HIDE DEF Front
  <2> QED BY <1>2, <2>1, SubSeqProperties
<1>4. s[Len(s)] \in S
  BY <1>1, ElementOfSeq
<1> QED BY <1>1, <1>3, <1>4 DEF Front, Last

LEMMA FramesAreFrames ==
  ASSUME TypeOK
  PROVE  /\ frames \in [Threads -> Seq(Frames)]
         /\ \A t \in Threads : /\ Len(frames[t]) \in Nat
                               /\ DOMAIN frames[t] = 1..Len(frames[t])
                               /\ \A d \in 1..Len(frames[t]) : frames[t][d] \in Frames
<1>1. frames \in [Threads -> Seq(Frames)]
  BY DEF TypeOK, Frames
<1> QED BY <1>1, LenProperties, ElementOfSeq

LEMMA TopFrame ==
  ASSUME TypeOK, NEW t \in Threads, frames[t] # <<>>
  PROVE  /\ Len(frames[t]) \in Nat \ {0} /\ DOMAIN frames[t] = 1..Len(frames[t])
         /\ Top(t) = frames[t][Len(frames[t])] /\ Top(t) \in Frames
<1>1. frames[t] \in Seq(Frames)
  BY FramesAreFrames
<1> QED BY <1>1, FrontAndLast DEF Top

\* A frame carries closures.
LEMMA CarriedClosures ==
  ASSUME TypeOK, NEW t \in Threads, NEW d \in Spots(t)
  PROVE  /\ Carried(t, d) \in Seq(Closure)
         /\ Len(Carried(t, d)) \in Nat /\ DOMAIN Carried(t, d) = 1..Len(Carried(t, d))
         /\ \A i \in DOMAIN Carried(t, d) : Carried(t, d)[i] \in Closure
<1>1. Carried(t, d) \in Seq(Closure)
  <2>1. CASE d = 0
    BY <2>1, NamesAssumption DEF TypeOK, Carried
  <2>2. CASE d # 0
    <3>1. frames[t][d] \in Frames
      BY <2>2, FramesAreFrames DEF Spots
    <3> DEFINE f == frames[t][d]
    <3>2. CASE f \in PointFrames
      BY <2>2, <3>2 DEF Carried, CarriedBy, PointFrames
    <3>3. CASE f \in FuncFrames
      <4>1. f.kind = "func" /\ f.closure \in Closure
        BY <3>3 DEF FuncFrames
      <4> QED BY <2>2, <4>1 DEF Carried, CarriedBy
    <3>4. CASE f \in PushFrames
      <4>1. f.kind = "push" /\ f.closure \in Closure
        BY <3>4 DEF PushFrames
      <4> QED BY <2>2, <4>1 DEF Carried, CarriedBy
    <3> QED BY <3>1, <3>2, <3>3, <3>4 DEF Frames
  <2> QED BY <2>1, <2>2
<1> QED BY <1>1, LenProperties, ElementOfSeq

\* The stack of t keeps its k lowest frames and has m others on top of them.
Keeps(t, k, m) ==
  /\ frames' \in [Threads -> Seq(Frames)]
  /\ \A u \in Threads \ {t} : frames'[u] = frames[u]
  /\ k \in 0..Len(frames[t])
  /\ Len(frames'[t]) = k + m
  /\ \A d \in 1..k : frames'[t][d] = frames[t][d]

LEMMA LeaveKeeps ==
  ASSUME TypeOK, NEW t \in Threads, frames[t] # <<>>, Leave(t)
  PROVE  Keeps(t, Len(frames[t]) - 1, 0)
<1>1. frames[t] \in Seq(Frames)
  BY FramesAreFrames
<1>2. /\ Len(frames[t]) \in Nat \ {0}
      /\ Front(frames[t]) \in Seq(Frames) /\ Len(Front(frames[t])) = Len(frames[t]) - 1
      /\ \A i \in 1..(Len(frames[t]) - 1) : Front(frames[t])[i] = frames[t][i]
  BY <1>1, FrontAndLast
<1>3. frames'[t] = Front(frames[t]) /\ \A u \in Threads \ {t} : frames'[u] = frames[u]
  BY DEF Leave, TypeOK
<1>4. frames' \in [Threads -> Seq(Frames)]
  BY <1>2 DEF Leave, TypeOK, Frames
<1> QED BY <1>2, <1>3, <1>4 DEF Keeps

LEMMA EnterKeeps ==
  ASSUME TypeOK, NEW t \in Threads, NEW f \in Frames, Enter(t, f)
  PROVE  /\ Keeps(t, Len(frames[t]), 1)
         /\ frames'[t][Len(frames[t]) + 1] = f
<1>1. frames[t] \in Seq(Frames)
  BY FramesAreFrames
<1>2. /\ Len(frames[t]) \in Nat
      /\ Append(frames[t], f) \in Seq(Frames)
      /\ Len(Append(frames[t], f)) = Len(frames[t]) + 1
      /\ \A i \in 1..Len(frames[t]) : Append(frames[t], f)[i] = frames[t][i]
      /\ Append(frames[t], f)[Len(frames[t]) + 1] = f
  BY <1>1, AppendProperties, LenProperties
<1>3. frames'[t] = Append(frames[t], f) /\ \A u \in Threads \ {t} : frames'[u] = frames[u]
  BY DEF Enter, TypeOK
<1>4. frames' \in [Threads -> Seq(Frames)]
  BY <1>2 DEF Enter, TypeOK, Frames
<1> QED BY <1>2, <1>3, <1>4 DEF Keeps

\* The frame on top becomes f, and h is put on it.
LEMMA RaiseKeeps ==
  ASSUME TypeOK, NEW t \in Threads, frames[t] # <<>>, NEW f \in Frames, NEW h \in Frames,
         frames' = [frames EXCEPT ![t] = Front(@) \o <<f, h>>]
  PROVE  /\ Keeps(t, Len(frames[t]) - 1, 2)
         /\ frames'[t][Len(frames[t])] = f
         /\ frames'[t][Len(frames[t]) + 1] = h
<1> DEFINE s == Front(frames[t])
           g == <<f, h>>
<1>1. /\ Len(frames[t]) \in Nat \ {0}
      /\ s \in Seq(Frames) /\ Len(s) = Len(frames[t]) - 1
      /\ \A i \in 1..(Len(frames[t]) - 1) : s[i] = frames[t][i]
  BY FramesAreFrames, FrontAndLast
<1>2. g \in Seq(Frames) /\ Len(g) = 2 /\ g[1] = f /\ g[2] = h
  OBVIOUS
<1>3. frames'[t] = s \o g /\ \A u \in Threads \ {t} : frames'[u] = frames[u]
  BY DEF TypeOK
<1> HIDE DEF s, g
<1>4. /\ s \o g \in Seq(Frames) /\ Len(s \o g) = Len(s) + Len(g)
      /\ \A i \in 1..(Len(s) + Len(g)) : (s \o g)[i] = IF i <= Len(s) THEN s[i] ELSE g[i - Len(s)]
  BY ONLY <1>1, <1>2, ConcatProperties
<1>5. frames' \in [Threads -> Seq(Frames)]
  <2>1. frames' = [frames EXCEPT ![t] = frames'[t]]
    BY DEF TypeOK
  <2> QED BY <1>3, <1>4, <2>1 DEF TypeOK, Frames
<1>6. PICK n \in Nat : n = Len(s)
  BY <1>1
<1>7. n + 1 = Len(frames[t]) /\ n + 2 = Len(s) + Len(g) /\ n = Len(frames[t]) - 1
  BY <1>1, <1>2, <1>6
<1>8. (s \o g)[n + 1] = f /\ (s \o g)[n + 2] = h
  BY <1>2, <1>4, <1>6
<1>9. \A i \in 1..n : (s \o g)[i] = frames[t][i]
  BY <1>1, <1>2, <1>4, <1>6
<1>10. Keeps(t, n, 2)
  BY <1>1, <1>3, <1>4, <1>5, <1>6, <1>7, <1>9 DEF Keeps
<1>11. Len(frames[t]) + 1 = n + 2
  BY <1>6, <1>7
<1> QED BY <1>3, <1>7, <1>8, <1>10, <1>11

\* A place is there before and after the step, or is one of those on top.
LEMMA KeptPlaces ==
  ASSUME TypeOK, NEW t \in Threads, NEW k \in Nat, NEW m \in Nat, Keeps(t, k, m)
  PROVE  /\ \A u \in Threads : \A d \in Nat \ {0} : d \in Spots(u)' =>
              \/ u = t /\ d \in (k + 1)..(k + m)
              \/ /\ d \in Spots(u) /\ frames'[u][d] = frames[u][d]
                 /\ Carried(u, d)' = Carried(u, d)
                 /\ u = t => d <= k
         /\ \A u \in Threads : \A d \in Nat \ {0} : d \in Spots(u) =>
              \/ u = t /\ d > k
              \/ /\ d \in Spots(u)' /\ frames'[u][d] = frames[u][d]
                 /\ Carried(u, d)' = Carried(u, d)
         /\ \A u \in Threads : DOMAIN frames[u] = Spots(u) \ {0} /\ 0 \in Spots(u)
         /\ \A u \in Threads : DOMAIN frames'[u] = Spots(u)' \ {0} /\ 0 \in Spots(u)'
         /\ Spots(t)' = 0..(k + m)
<1>1. \A u \in Threads : Len(frames[u]) \in Nat /\ DOMAIN frames[u] = 1..Len(frames[u])
  BY FramesAreFrames
<1>2. \A u \in Threads : Len(frames'[u]) \in Nat /\ DOMAIN frames'[u] = 1..Len(frames'[u])
  BY LenProperties DEF Keeps
<1>3. \A u \in Threads : \A d \in Nat \ {0} :
        frames'[u][d] = frames[u][d] => Carried(u, d)' = Carried(u, d)
  BY DEF Carried
<1>4. \A u \in Threads \ {t} : Spots(u)' = Spots(u) /\ frames'[u] = frames[u]
  BY DEF Keeps, Spots
<1>5. \A u \in Threads : \A d \in Nat \ {0} : d \in Spots(u)' =>
        \/ u = t /\ d \in (k + 1)..(k + m)
        \/ d \in Spots(u) /\ frames'[u][d] = frames[u][d] /\ (u = t => d <= k)
  BY <1>1, <1>2, <1>4 DEF Keeps, Spots
<1>6. \A u \in Threads : \A d \in Nat \ {0} : d \in Spots(u) =>
        \/ u = t /\ d > k
        \/ d \in Spots(u)' /\ frames'[u][d] = frames[u][d]
  BY <1>1, <1>2, <1>4 DEF Keeps, Spots
<1>7. Spots(t)' = 0..(k + m)
  BY DEF Keeps, Spots
<1> HIDE DEF Carried
<1>8. /\ \A u \in Threads : DOMAIN frames[u] = Spots(u) \ {0} /\ 0 \in Spots(u)
      /\ \A u \in Threads : DOMAIN frames'[u] = Spots(u)' \ {0} /\ 0 \in Spots(u)'
  BY <1>1, <1>2 DEF Spots
<1> QED BY <1>3, <1>5, <1>6, <1>7, <1>8

LEMMA QueueAppends ==
  ASSUME TypeOK, NEW t \in Threads, NEW c \in Closure, Queue(t, c)
  PROVE  /\ tasks' \in [Threads \cup {NoThread} -> Seq(Closure)]
         /\ tasks'[NoThread] = <<>>
         /\ \A u \in Threads \ {t} : tasks'[u] = tasks[u]
         /\ Len(tasks[t]) \in Nat /\ DOMAIN tasks[t] = 1..Len(tasks[t])
         /\ DOMAIN tasks'[t] = 1..(Len(tasks[t]) + 1)
         /\ \A i \in 1..Len(tasks[t]) : tasks'[t][i] = tasks[t][i]
         /\ tasks'[t][Len(tasks[t]) + 1] = c
<1>1. /\ Len(tasks[t]) \in Nat /\ DOMAIN tasks[t] = 1..Len(tasks[t])
      /\ Append(tasks[t], c) \in Seq(Closure)
      /\ Len(Append(tasks[t], c)) = Len(tasks[t]) + 1
      /\ \A i \in 1..Len(tasks[t]) : Append(tasks[t], c)[i] = tasks[t][i]
      /\ Append(tasks[t], c)[Len(tasks[t]) + 1] = c
  BY AppendProperties, LenProperties DEF TypeOK
<1>2. DOMAIN Append(tasks[t], c) = 1..(Len(tasks[t]) + 1)
  BY <1>1, LenProperties
<1>3. tasks'[t] = Append(tasks[t], c) /\ \A u \in Threads \ {t} : tasks'[u] = tasks[u]
  BY DEF Queue, TypeOK
<1>4. tasks' \in [Threads \cup {NoThread} -> Seq(Closure)] /\ tasks'[NoThread] = <<>>
  BY <1>1, NamesAssumption DEF Queue, TypeOK
<1> QED BY <1>1, <1>2, <1>3, <1>4

-----------------------------------------------------------------------------
(* What a step does to the tags.                                            *)

\* The closures with tags stay where they are.
LEMMA TagsStay ==
  ASSUME TagInv, active' = active, DirectIsOwn',
         \A g \in Tags, t \in Threads, d \in Nat, i \in Nat : Has(t, d, i, g)' <=> Has(t, d, i, g)
  PROVE  TagInv'
<1>1. TakenIsHeld'
  BY DEF TagInv, TakenIsHeld
<1>2. HeldIsTaken'
  BY DEF TagInv, HeldIsTaken
<1>3. HeldOnce'
  BY DEF TagInv, HeldOnce
<1> QED BY <1>1, <1>2, <1>3 DEF TagInv

\* The frames of t above the k lowest are direct only for tags of its own.
LEMMA DirectStay ==
  ASSUME TypeOK, DirectIsOwn, NEW t \in Threads, NEW k \in Nat, NEW m \in Nat, Keeps(t, k, m),
         \A d \in (k + 1)..(k + m) :
           frames'[t][d].kind = "func" /\ frames'[t][d].direct =>
             frames'[t][d].closure.tag \in SelfTags \cup {NoTag}
  PROVE  DirectIsOwn'
<1>1. \A u \in Threads : \A d \in DOMAIN frames'[u] :
        \/ u = t /\ d \in (k + 1)..(k + m)
        \/ d \in DOMAIN frames[u] /\ frames'[u][d] = frames[u][d]
  <2>1. \A u \in Threads : Spots(u)' \subseteq Nat
    BY DEF Spots
  <2>2. \A u \in Threads : DOMAIN frames[u] = Spots(u) \ {0} /\ DOMAIN frames'[u] = Spots(u)' \ {0}
    BY KeptPlaces
  <2>3. \A u \in Threads : \A d \in Nat \ {0} : d \in Spots(u)' =>
          \/ u = t /\ d \in (k + 1)..(k + m)
          \/ d \in Spots(u) /\ frames'[u][d] = frames[u][d]
    BY KeptPlaces
  <2> QED BY <2>1, <2>2, <2>3
<1> QED BY <1>1 DEF DirectIsOwn

-----------------------------------------------------------------------------
(* A function is queued or waits to be queued.                              *)

\* Nothing is made that is running.
LEMMA NothingMoves ==
  ASSUME IInv, UNCHANGED <<tasks, active, frames>>, TypeOK', made' \in Nat, made' >= made
  PROVE  IInv'
<1>1. \A t \in Threads, d \in Nat : Carried(t, d)' = Carried(t, d) /\ Spots(t)' = Spots(t)
  BY DEF Carried, Spots
<1>2. \A g \in Tags, t \in Threads, d \in Nat, i \in Nat : Has(t, d, i, g)' <=> Has(t, d, i, g)
  BY <1>1 DEF Has
<1>3. DirectIsOwn'
  BY DEF IInv, TagInv, DirectIsOwn
<1>4. TagInv'
  BY <1>2, <1>3, TagsStay DEF IInv
<1>5. \A t \in Threads, d \in Nat : Waits(t, d)' = Waits(t, d)
  BY <1>1 DEF Waits
<1>6. PushIsOnTop'
  BY DEF IInv, OrderInv, PushIsOnTop
<1>7. NumbersGiven'
  <2> SUFFICES ASSUME NEW t \in Threads, NEW d \in Spots(t), NEW i \in DOMAIN Carried(t, d)
               PROVE  Carried(t, d)[i].req <= made'
    BY <1>1 DEF NumbersGiven, Spots
  <2>1. Carried(t, d)[i] \in Closure
    BY CarriedClosures DEF IInv
  <2>2. Carried(t, d)[i].req \in Int /\ Carried(t, d)[i].req <= made
    BY <2>1, BoundsAssumption DEF IInv, OrderInv, NumbersGiven, Closure, Requests
  <2> QED BY <2>2 DEF IInv, TypeOK
<1>8. PlacesInOrder'
  BY <1>1, <1>5 DEF IInv, OrderInv, PlacesInOrder, InOrder
<1>9. BatchBeforeQueue'
  BY <1>1, <1>5 DEF IInv, OrderInv, BatchBeforeQueue
<1>10. PushIsLatest'
  BY <1>1, <1>5 DEF IInv, OrderInv, PushIsLatest, IsIn, Top
<1>11. OuterBeforeInner'
  BY <1>1, <1>5 DEF IInv, OrderInv, OuterBeforeInner
<1> QED BY <1>4, <1>6, <1>7, <1>8, <1>9, <1>10, <1>11 DEF IInv, OrderInv

LEMMA NewClosureIsOne ==
  ASSUME TypeOK, NEW t \in Threads, NEW g \in Tags \cup {NoTag}, Ask(t)
  PROVE  /\ NewClosure(t, g) \in Closure
         /\ NewClosure(t, g).req = made + 1 /\ NewClosure(t, g).from = t
         /\ NewClosure(t, g).tag = g
         /\ made \in Nat /\ made' = made + 1 /\ made' \in 0..MaxRequests
<1>1. made + 1 \in Requests /\ made \in Nat /\ made + 1 \in 0..MaxRequests
  BY BoundsAssumption DEF Ask, TypeOK, Requests
<1> QED BY <1>1 DEF NewClosure, Closure, Ask

\* Who can make a call has nothing to push.
LEMMA CallerHasNoPush ==
  ASSUME IInv, NEW t \in Threads, CanCall(t)
  PROVE  /\ ~IsIn(t, "push")
         /\ \A d \in DOMAIN frames[t] : frames[t][d].kind # "push"
<1>1. ~IsIn(t, "push")
  BY DEF CanCall, IsIn
<1>2. ASSUME NEW d \in DOMAIN frames[t], frames[t][d].kind = "push" PROVE FALSE
  <2>1. d = Len(frames[t]) /\ frames[t] # <<>>
    BY <1>2 DEF IInv, OrderInv, PushIsOnTop
  <2>2. IsIn(t, "push")
    BY <1>2, <2>1 DEF IsIn, Top, Last
  <2> QED BY <1>1, <2>2
<1> QED BY <1>1, <1>2

\* delay, and sync to another thread.
LEMMA QueueNew ==
  ASSUME IInv, NEW t \in Threads, NEW target \in Threads, Ask(t),
         Queue(target, NewClosure(t, NoTag)),
         UNCHANGED <<active, main_thread_id, frames, dropped, done>>
  PROVE  IInv'
<1>1. PICK c \in Closure : c = NewClosure(t, NoTag)
  BY NewClosureIsOne DEF IInv
<1>2. /\ c.req = made + 1 /\ c.from = t /\ c.tag = NoTag
      /\ made \in Nat /\ made' = made + 1 /\ made' \in 0..MaxRequests
  BY <1>1, NewClosureIsOne DEF IInv
<1>3. PICK n \in Nat : n = Len(tasks[target])
  BY <1>1, QueueAppends DEF IInv
<1>4. /\ tasks' \in [Threads \cup {NoThread} -> Seq(Closure)]
      /\ tasks'[NoThread] = <<>>
      /\ \A u \in Threads \ {target} : tasks'[u] = tasks[u]
      /\ DOMAIN tasks[target] = 1..n
      /\ DOMAIN tasks'[target] = 1..(n + 1)
      /\ \A i \in 1..n : tasks'[target][i] = tasks[target][i]
      /\ tasks'[target][n + 1] = c
  BY <1>1, <1>3, QueueAppends DEF IInv
<1>5. TypeOK'
  BY <1>2, <1>4 DEF IInv, TypeOK
<1>6. /\ \A u \in Threads : Spots(u)' = Spots(u) /\ 0 \in Spots(u)
      /\ \A u \in Threads, d \in Nat : u # target \/ d # 0 => Carried(u, d)' = Carried(u, d)
      /\ Carried(target, 0) = tasks[target] /\ Carried(target, 0)' = tasks'[target]
      /\ \A u \in Threads, d \in Nat : Waits(u, d)' = Waits(u, d)
  <2>1. \A u \in Threads : Len(frames[u]) \in Nat
    BY FramesAreFrames DEF IInv
  <2> QED BY <1>4, <2>1 DEF Spots, Carried, Waits
<1>7. /\ \A i \in 1..n : i \in Nat /\ i # n + 1 /\ i \in 1..(n + 1)
      /\ n + 1 \in 1..(n + 1)
      /\ \A i \in 1..(n + 1) : i \in 1..n \/ i = n + 1
  OBVIOUS
<1>8. \A g \in Tags, u \in Threads, d \in Nat, i \in Nat : Has(u, d, i, g)' <=> Has(u, d, i, g)
  <2>1. \A g \in Tags, i \in Nat : Has(target, 0, i, g)' <=> Has(target, 0, i, g)
    BY <1>2, <1>4, <1>6, <1>7, NamesAssumption DEF Has
  <2>2. \A g \in Tags, u \in Threads, d \in Nat, i \in Nat : u # target \/ d # 0 =>
          (Has(u, d, i, g)' <=> Has(u, d, i, g))
    BY <1>6 DEF Has
  <2> QED BY <2>1, <2>2
<1>9. TagInv'
  <2>1. DirectIsOwn'
    BY DEF IInv, TagInv, DirectIsOwn
  <2> QED BY <1>8, <2>1, TagsStay DEF IInv
<1>10. PushIsOnTop'
  BY DEF IInv, OrderInv, PushIsOnTop
<1>11. \A u \in Threads : \A d \in Spots(u) : \A i \in DOMAIN Carried(u, d) :
         Carried(u, d)[i].req \in Int /\ Carried(u, d)[i].req < c.req
  <2> SUFFICES ASSUME NEW u \in Threads, NEW d \in Spots(u), NEW i \in DOMAIN Carried(u, d)
               PROVE  Carried(u, d)[i].req \in Int /\ Carried(u, d)[i].req < c.req
    OBVIOUS
  <2>1. Carried(u, d)[i] \in Closure
    BY CarriedClosures DEF IInv
  <2>2. Carried(u, d)[i].req \in Int /\ Carried(u, d)[i].req <= made
    BY <2>1, BoundsAssumption DEF IInv, OrderInv, NumbersGiven, Closure, Requests
  <2> QED BY <1>2, <2>2
<1>12. \A u \in Threads : \A d \in Spots(u) : \A i \in DOMAIN Carried(u, d)' :
         \/ i \in DOMAIN Carried(u, d) /\ Carried(u, d)'[i] = Carried(u, d)[i]
         \/ u = target /\ d = 0 /\ i = n + 1 /\ Carried(u, d)'[i] = c
  <2>1. \A i \in DOMAIN Carried(target, 0)' :
         \/ i \in DOMAIN Carried(target, 0) /\ Carried(target, 0)'[i] = Carried(target, 0)[i]
         \/ i = n + 1 /\ Carried(target, 0)'[i] = c
    BY <1>4, <1>6, <1>7
  <2>2. \A u \in Threads : Spots(u) \subseteq Nat
    BY DEF Spots
  <2> QED BY <1>6, <2>1, <2>2
<1>13. NumbersGiven'
  <2>1. \A u \in Threads : \A d \in Spots(u) : \A i \in DOMAIN Carried(u, d)' :
          Carried(u, d)'[i].req <= made'
    BY <1>2, <1>11, <1>12
  <2> QED BY <1>6, <2>1 DEF NumbersGiven
<1>14. PlacesInOrder'
  <2> SUFFICES ASSUME NEW u \in Threads, NEW d \in Nat, Waits(u, d)
               PROVE  InOrder(Carried(u, d))'
    BY <1>6 DEF PlacesInOrder
  <2>1. InOrder(Carried(u, d))
    BY DEF IInv, OrderInv, PlacesInOrder
  <2>2. CASE u # target \/ d # 0
    BY <1>6, <2>1, <2>2 DEF InOrder
  <2>3. CASE u = target /\ d = 0
    <3>1. \A i \in 1..n : tasks[target][i].req < c.req
      BY <1>4, <1>6, <1>11
    <3>2. ASSUME NEW i \in 1..(n + 1), NEW j \in 1..(n + 1), i < j
          PROVE  Older(tasks'[target][i], tasks'[target][j])
      <4>1. i \in 1..n
        BY <3>2
      <4>2. CASE j \in 1..n
        BY <1>4, <1>6, <2>1, <2>3, <3>2, <4>1, <4>2 DEF InOrder
      <4>3. CASE j = n + 1
        BY <1>4, <3>1, <4>1, <4>3 DEF Older
      <4> QED BY <4>2, <4>3
    <3> QED BY <1>4, <1>6, <2>3, <3>2 DEF InOrder
  <2> QED BY <2>2, <2>3
<1>15. BatchBeforeQueue'
  <2> SUFFICES ASSUME NEW u \in Threads, NEW d \in Nat \ {0}, Waits(u, d),
                      NEW i \in DOMAIN Carried(u, d), NEW j \in DOMAIN tasks'[u]
               PROVE  Older(Carried(u, d)[i], tasks'[u][j])
    BY <1>6 DEF BatchBeforeQueue
  <2>1. d \in Spots(u)
    BY DEF Waits
  <2>2. CASE j \in DOMAIN tasks[u] /\ tasks'[u][j] = tasks[u][j]
    BY <2>2 DEF IInv, OrderInv, BatchBeforeQueue
  <2>3. CASE u = target /\ tasks'[u][j] = c
    BY <1>11, <2>1, <2>3 DEF Older
  <2> QED BY <1>4, <1>7, <2>2, <2>3
<1>16. PushIsLatest'
  <2> SUFFICES ASSUME NEW v \in Threads, IsIn(v, "push"),
                      NEW u \in Threads, NEW d \in Nat, Waits(u, d),
                      NEW i \in DOMAIN Carried(u, d)', Carried(u, d)'[i].from = v
               PROVE  Carried(u, d)'[i].req < Top(v).closure.req
    BY <1>6 DEF PushIsLatest, IsIn, Top
  <2>1. v # t
    BY CallerHasNoPush DEF Ask
  <2>2. d \in Spots(u)
    BY DEF Waits
  <2>3. i \in DOMAIN Carried(u, d) /\ Carried(u, d)'[i] = Carried(u, d)[i]
    BY <1>2, <1>12, <2>1, <2>2
  <2> QED BY <2>3 DEF IInv, OrderInv, PushIsLatest
<1>17. OuterBeforeInner'
  BY <1>6 DEF IInv, OrderInv, OuterBeforeInner
<1> QED BY <1>5, <1>9, <1>10, <1>13, <1>14, <1>15, <1>16, <1>17 DEF IInv, OrderInv

\* A frame is put on the stack of t.
LEMMA PlacesWhenEntering ==
  ASSUME TypeOK, NEW t \in Threads, NEW f \in Frames, Enter(t, f), tasks' = tasks,
         NEW n \in Nat, n = Len(frames[t])
  PROVE  /\ Keeps(t, n, 1) /\ frames'[t][n + 1] = f
         /\ n + 1 \in Spots(t)' /\ n + 1 \notin Spots(t) /\ n + 1 # 0
         /\ Carried(t, n + 1)' = CarriedBy(f)
         /\ Waits(t, n + 1)' = (f.kind = "sync_point")
         /\ \A u \in Threads, d \in Nat : d \in Spots(u)' =>
              \/ u = t /\ d = n + 1
              \/ /\ d \in Spots(u) /\ Carried(u, d)' = Carried(u, d)
                 /\ Waits(u, d)' = Waits(u, d)
         /\ \A u \in Threads, d \in Nat : d \in Spots(u) =>
              d \in Spots(u)' /\ Carried(u, d)' = Carried(u, d) /\ Waits(u, d)' = Waits(u, d)
<1>1. Keeps(t, n, 1) /\ frames'[t][n + 1] = f
  BY EnterKeeps
<1>2. /\ \A u \in Threads : \A d \in Nat \ {0} : d \in Spots(u)' =>
           \/ u = t /\ d \in (n + 1)..(n + 1)
           \/ /\ d \in Spots(u) /\ frames'[u][d] = frames[u][d]
              /\ Carried(u, d)' = Carried(u, d)
              /\ u = t => d <= n
      /\ \A u \in Threads : \A d \in Nat \ {0} : d \in Spots(u) =>
           \/ u = t /\ d > n
           \/ /\ d \in Spots(u)' /\ frames'[u][d] = frames[u][d]
              /\ Carried(u, d)' = Carried(u, d)
      /\ \A u \in Threads : 0 \in Spots(u)
      /\ \A u \in Threads : 0 \in Spots(u)'
      /\ Spots(t)' = 0..(n + 1)
  BY <1>1, KeptPlaces
<1>3. Spots(t) = 0..n
  BY DEF Spots
<1>4. \A u \in Threads : Carried(u, 0)' = Carried(u, 0)
  BY DEF Carried
<1>5. n + 1 \in Spots(t)' /\ n + 1 \notin Spots(t) /\ n + 1 # 0
  BY <1>2, <1>3
<1>6. Carried(t, n + 1)' = CarriedBy(f)
  BY <1>1, <1>5 DEF Carried
<1>7. \A u \in Threads, d \in Nat : d \in Spots(u)' =>
        \/ u = t /\ d = n + 1
        \/ /\ d \in Spots(u) /\ Carried(u, d)' = Carried(u, d)
           /\ d # 0 => frames'[u][d] = frames[u][d]
  BY <1>2, <1>4
<1>8. \A u \in Threads, d \in Nat : d \in Spots(u) =>
        /\ d \in Spots(u)' /\ Carried(u, d)' = Carried(u, d)
        /\ d # 0 => frames'[u][d] = frames[u][d]
  BY <1>2, <1>3, <1>4
<1> HIDE DEF Carried, Spots
<1> QED BY <1>1, <1>5, <1>6, <1>7, <1>8 DEF Waits

\* The tag is free, and the closure has yet to be pushed.
LEMMA EnterPush ==
  ASSUME IInv, NEW t \in Threads, NEW target \in Threads, NEW g \in Tags, Ask(t), ~active[g],
         active' = [active EXCEPT ![g] = TRUE],
         Enter(t, [kind |-> "push", closure |-> NewClosure(t, g), target |-> target]),
         UNCHANGED <<tasks, main_thread_id, dropped, done>>
  PROVE  IInv'
<1>1. PICK c \in Closure : c = NewClosure(t, g)
  BY NewClosureIsOne DEF IInv
<1>2. /\ c.req = made + 1 /\ c.from = t /\ c.tag = g
      /\ made \in Nat /\ made' = made + 1 /\ made' \in 0..MaxRequests
  BY <1>1, NewClosureIsOne DEF IInv
<1>3. PICK f \in Frames : f = [kind |-> "push", closure |-> c, target |-> target]
  BY DEF Frames, PushFrames
<1>4. /\ f.kind = "push" /\ f.closure = c /\ CarriedBy(f) = <<c>>
      /\ DOMAIN <<c>> = {1} /\ <<c>>[1] = c
  BY <1>3 DEF CarriedBy
<1>5. PICK n \in Nat : n = Len(frames[t])
  BY FramesAreFrames DEF IInv
<1>6. Enter(t, f) /\ TypeOK
  BY <1>1, <1>3 DEF IInv
<1>7. /\ Keeps(t, n, 1) /\ frames'[t][n + 1] = f
      /\ n + 1 \in Spots(t)' /\ n + 1 \notin Spots(t) /\ n + 1 # 0
      /\ Carried(t, n + 1)' = <<c>>
      /\ ~Waits(t, n + 1)'
  BY <1>4, <1>5, <1>6, PlacesWhenEntering
<1>8. /\ \A u \in Threads, d \in Nat : d \in Spots(u)' =>
           \/ u = t /\ d = n + 1
           \/ /\ d \in Spots(u) /\ Carried(u, d)' = Carried(u, d)
              /\ Waits(u, d)' = Waits(u, d)
      /\ \A u \in Threads, d \in Nat : d \in Spots(u) =>
           d \in Spots(u)' /\ Carried(u, d)' = Carried(u, d) /\ Waits(u, d)' = Waits(u, d)
  BY <1>5, <1>6, PlacesWhenEntering
<1>9. TypeOK'
  BY <1>2, <1>7 DEF IInv, TypeOK, Keeps, Frames
<1>10. TagInv'
  <2>1. /\ \A h \in Tags, u \in Threads, d \in Nat, i \in Nat : Has(u, d, i, h)' =>
             \/ u = t /\ d = n + 1 /\ i = 1 /\ h = g
             \/ Has(u, d, i, h)
        /\ \A h \in Tags, u \in Threads, d \in Nat, i \in Nat : Has(u, d, i, h) => Has(u, d, i, h)'
        /\ Has(t, n + 1, 1, g)'
    BY <1>2, <1>4, <1>7, <1>8 DEF Has
  <2>2. active'[g] /\ \A h \in Tags \ {g} : active'[h] = active[h]
    BY <1>6 DEF TypeOK
  <2>3. TakenIsHeld'
    BY <2>1, <2>2 DEF IInv, TagInv, TakenIsHeld
  <2>4. HeldIsTaken'
    BY <2>1, <2>2 DEF IInv, TagInv, HeldIsTaken
  <2>5. HeldOnce'
    BY <2>1, <2>2 DEF IInv, TagInv, HeldOnce, HeldIsTaken
  <2>6. \A d \in (n + 1)..(n + 1) : frames'[t][d].kind # "func"
    BY <1>4, <1>7
  <2>7. DirectIsOwn'
    BY <1>7, <2>6, DirectStay DEF IInv, TagInv
  <2> QED BY <2>3, <2>4, <2>5, <2>7 DEF TagInv
<1>11. \A u \in Threads : \A d \in Spots(u) : \A i \in DOMAIN Carried(u, d) :
         Carried(u, d)[i].req \in Int /\ Carried(u, d)[i].req < c.req
  <2> SUFFICES ASSUME NEW u \in Threads, NEW d \in Spots(u), NEW i \in DOMAIN Carried(u, d)
               PROVE  Carried(u, d)[i].req \in Int /\ Carried(u, d)[i].req < c.req
    OBVIOUS
  <2>1. Carried(u, d)[i] \in Closure
    BY CarriedClosures DEF IInv
  <2>2. Carried(u, d)[i].req \in Int /\ Carried(u, d)[i].req <= made
    BY <2>1, BoundsAssumption DEF IInv, OrderInv, NumbersGiven, Closure, Requests
  <2> QED BY <1>2, <2>2
<1>12. /\ Len(frames'[t]) = n + 1
       /\ \A u \in Threads : Spots(u)' \subseteq Nat
       /\ \A u \in Threads : DOMAIN frames'[u] = Spots(u)' \ {0}
       /\ \A u \in Threads : DOMAIN frames[u] = Spots(u) \ {0}
       /\ \A u \in Threads \ {t} : frames'[u] = frames[u]
       /\ \A d \in 1..n : frames'[t][d] = frames[t][d]
       /\ \A d \in Spots(t) \ {0} : d \in 1..n
       /\ 1 \in Nat
  <2>1. Len(frames'[t]) = n + 1
    BY <1>7 DEF Keeps
  <2>2. \A u \in Threads : Spots(u)' \subseteq Nat
    BY DEF Spots
  <2>3. /\ \A u \in Threads : DOMAIN frames'[u] = Spots(u)' \ {0}
        /\ \A u \in Threads : DOMAIN frames[u] = Spots(u) \ {0}
    BY <1>6, <1>7, KeptPlaces
  <2>4. /\ \A u \in Threads \ {t} : frames'[u] = frames[u]
        /\ \A d \in 1..n : frames'[t][d] = frames[t][d]
        /\ \A d \in Spots(t) \ {0} : d \in 1..n
    BY <1>5, <1>7 DEF Keeps, Spots
  <2> QED BY <2>1, <2>2, <2>3, <2>4
<1>13. PushIsOnTop'
  <2> SUFFICES ASSUME NEW u \in Threads, NEW d \in DOMAIN frames'[u], frames'[u][d].kind = "push"
               PROVE  d = Len(frames'[u]) /\ frames'[u][d].closure.from = u
    BY DEF PushIsOnTop
  <2>1. CASE u # t
    BY <1>12, <2>1 DEF IInv, OrderInv, PushIsOnTop
  <2>2. CASE u = t /\ d = n + 1
    BY <1>2, <1>4, <1>7, <1>12, <2>2
  <2>3. CASE u = t /\ d # n + 1
    <3>1. d \in Spots(t) \ {0}
      BY <1>8, <1>12, <2>3
    <3>2. frames'[t][d] = frames[t][d] /\ d \in DOMAIN frames[t]
      BY <1>12, <3>1
    <3> QED BY <2>3, <3>2, CallerHasNoPush DEF Ask
  <2> QED BY <2>1, <2>2, <2>3
<1>14. NumbersGiven'
  <2> SUFFICES ASSUME NEW u \in Threads, NEW d \in Spots(u)', NEW i \in DOMAIN Carried(u, d)'
               PROVE  Carried(u, d)'[i].req <= made'
    BY DEF NumbersGiven
  <2>1. CASE d \in Spots(u) /\ Carried(u, d)' = Carried(u, d)
    BY <1>2, <1>11, <2>1
  <2>2. CASE u = t /\ d = n + 1
    BY <1>2, <1>4, <1>7, <2>2
  <2> QED BY <1>8, <1>12, <2>1, <2>2
<1>15. \A u \in Threads, d \in Nat : Waits(u, d)' =>
         d \in Spots(u) /\ Waits(u, d) /\ Carried(u, d)' = Carried(u, d)
  <2>1. \A u \in Threads, d \in Nat : Waits(u, d)' => d \in Spots(u)'
    BY DEF Waits
  <2> QED BY <1>7, <1>8, <2>1
<1>16. PlacesInOrder'
  BY <1>15 DEF IInv, OrderInv, PlacesInOrder, InOrder
<1>17. BatchBeforeQueue'
  BY <1>15 DEF IInv, OrderInv, BatchBeforeQueue
<1>18. PushIsLatest'
  <2> SUFFICES ASSUME NEW v \in Threads, IsIn(v, "push")',
                      NEW u \in Threads, NEW d \in Nat, Waits(u, d)',
                      NEW i \in DOMAIN Carried(u, d)', Carried(u, d)'[i].from = v
               PROVE  Carried(u, d)'[i].req < Top(v)'.closure.req
    BY DEF PushIsLatest
  <2>1. CASE v = t
    <3>1. Top(t)' = f
      BY <1>7, <1>12 DEF Top, Last
    <3> QED BY <1>4, <1>11, <1>15, <2>1, <3>1
  <2>2. CASE v # t
    <3>1. IsIn(v, "push") /\ Top(v)' = Top(v)
      BY <1>12, <2>2 DEF IsIn, Top
    <3> QED BY <1>15, <3>1 DEF IInv, OrderInv, PushIsLatest
  <2> QED BY <2>1, <2>2
<1>19. OuterBeforeInner'
  BY <1>15 DEF IInv, OrderInv, OuterBeforeInner
<1> QED BY <1>9, <1>10, <1>13, <1>14, <1>16, <1>17, <1>18, <1>19 DEF IInv, OrderInv

-----------------------------------------------------------------------------
(* Steps that queue nothing.                                                *)

LEMMA OrderNarrows ==
  ASSUME IInv, tasks' = tasks, PushIsOnTop', made \in Nat, made' \in {made, made + 1},
         \A u \in Threads, d \in Nat : d \in Spots(u)' =>
           \A i \in DOMAIN Carried(u, d)' :
             \/ Carried(u, d)'[i].req = made'
             \/ \E e \in Spots(u) : \E j \in DOMAIN Carried(u, e) :
                  Carried(u, d)'[i] = Carried(u, e)[j],
         \A u \in Threads, d \in Nat : Waits(u, d)' =>
           /\ Waits(u, d) /\ InOrder(Carried(u, d))'
           /\ \A i \in DOMAIN Carried(u, d)' : \E j \in DOMAIN Carried(u, d) :
                Carried(u, d)'[i] = Carried(u, d)[j],
         \A v \in Threads : IsIn(v, "push")' => IsIn(v, "push") /\ Top(v)' = Top(v)
  PROVE  OrderInv'
<1>1. NumbersGiven'
  <2> SUFFICES ASSUME NEW u \in Threads, NEW d \in Spots(u)', NEW i \in DOMAIN Carried(u, d)'
               PROVE  Carried(u, d)'[i].req <= made'
    BY DEF NumbersGiven
  <2>1. d \in Nat
    BY DEF Spots
  <2>2. CASE Carried(u, d)'[i].req = made'
    BY <2>2
  <2>3. ASSUME NEW e \in Spots(u), NEW j \in DOMAIN Carried(u, e),
               Carried(u, d)'[i] = Carried(u, e)[j]
        PROVE  Carried(u, d)'[i].req <= made'
    <3>1. Carried(u, e)[j] \in Closure /\ Carried(u, e)[j].req <= made
      BY CarriedClosures DEF IInv, OrderInv, NumbersGiven
    <3>2. Carried(u, e)[j].req \in Int
      BY <3>1, BoundsAssumption DEF Closure, Requests
    <3> QED BY <2>3, <3>1, <3>2
  <2> QED BY <2>1, <2>2, <2>3
<1>2. PlacesInOrder'
  BY DEF PlacesInOrder
<1>3. BatchBeforeQueue'
  BY DEF IInv, OrderInv, BatchBeforeQueue
<1>4. PushIsLatest'
  BY DEF IInv, OrderInv, PushIsLatest
<1>5. OuterBeforeInner'
  BY DEF IInv, OrderInv, OuterBeforeInner
<1> QED BY <1>1, <1>2, <1>3, <1>4, <1>5 DEF OrderInv

\* The stack of t changes above the k lowest frames, and t has nothing to push.
LEMMA PushesStay ==
  ASSUME IInv, NEW t \in Threads, NEW k \in Nat, NEW m \in Nat, Keeps(t, k, m),
         \A d \in 1..k : frames[t][d].kind # "push",
         \A d \in (k + 1)..(k + m) : frames'[t][d].kind # "push"
  PROVE  /\ PushIsOnTop'
         /\ \A v \in Threads : IsIn(v, "push")' => IsIn(v, "push") /\ Top(v)' = Top(v)
<1>1. /\ \A u \in Threads \ {t} : frames'[u] = frames[u]
      /\ Len(frames'[t]) = k + m /\ DOMAIN frames'[t] = 1..(k + m)
      /\ \A d \in 1..k : frames'[t][d] = frames[t][d]
  BY LenProperties DEF Keeps
<1>2. \A d \in DOMAIN frames'[t] : frames'[t][d].kind # "push"
  <2> TAKE d \in DOMAIN frames'[t]
  <2>1. d \in 1..k \/ d \in (k + 1)..(k + m)
    BY <1>1
  <2> QED BY <1>1, <2>1
<1>3. PushIsOnTop'
  BY <1>1, <1>2 DEF IInv, OrderInv, PushIsOnTop
<1>4. ~IsIn(t, "push")'
  <2>1. CASE frames'[t] = <<>>
    BY <2>1 DEF IsIn
  <2>2. CASE frames'[t] # <<>>
    <3>1. frames'[t] \in Seq(Frames)
      BY DEF Keeps
    <3>2. Len(frames'[t]) \in DOMAIN frames'[t]
      BY <2>2, <3>1, FrontAndLast
    <3> QED BY <1>2, <3>2 DEF IsIn, Top, Last
  <2> QED BY <2>1, <2>2
<1>5. \A v \in Threads \ {t} : IsIn(v, "push")' => IsIn(v, "push") /\ Top(v)' = Top(v)
  BY <1>1 DEF IsIn, Top
<1> QED BY <1>3, <1>4, <1>5

\* A function is called on the spot.
LEMMA EnterDirect ==
  ASSUME IInv, NEW t \in Threads, NEW g \in SelfTags \cup {NoTag}, Shortcut(t, g)
  PROVE  IInv'
<1>1. PICK c \in Closure : c = NewClosure(t, g)
  BY NewClosureIsOne, NamesAssumption DEF IInv, Shortcut
<1>2. /\ c.req = made + 1 /\ c.from = t /\ c.tag = g
      /\ made \in Nat /\ made' = made + 1 /\ made' \in 0..MaxRequests
  BY <1>1, NewClosureIsOne, NamesAssumption DEF IInv, Shortcut
<1>3. PICK f \in Frames : f = [kind |-> "func", closure |-> c, direct |-> TRUE]
  BY DEF Frames, FuncFrames
<1>4. f.kind = "func" /\ f.direct /\ f.closure = c /\ CarriedBy(f) = <<>> /\ DOMAIN <<>> = {}
  BY <1>3 DEF CarriedBy
<1>5. PICK n \in Nat : n = Len(frames[t])
  BY FramesAreFrames DEF IInv
<1>6. Enter(t, f) /\ TypeOK /\ UNCHANGED <<tasks, active, main_thread_id, dropped, done>>
  BY <1>1, <1>3 DEF IInv, Shortcut
<1>7. /\ Keeps(t, n, 1) /\ frames'[t][n + 1] = f
      /\ n + 1 \in Spots(t)' /\ n + 1 \notin Spots(t) /\ n + 1 # 0
      /\ Carried(t, n + 1)' = <<>>
      /\ ~Waits(t, n + 1)'
  <2>1. f.kind # "sync_point" /\ CarriedBy(f) = <<>>
    BY <1>4
  <2>2. tasks' = tasks
    BY <1>6
  <2>3. /\ Keeps(t, n, 1) /\ frames'[t][n + 1] = f
        /\ n + 1 \in Spots(t)' /\ n + 1 \notin Spots(t) /\ n + 1 # 0
        /\ Carried(t, n + 1)' = CarriedBy(f)
        /\ Waits(t, n + 1)' = (f.kind = "sync_point")
    BY <1>5, <1>6, <2>2, PlacesWhenEntering
  <2> QED BY <2>1, <2>3
<1>8. /\ \A u \in Threads, d \in Nat : d \in Spots(u)' =>
           \/ u = t /\ d = n + 1
           \/ /\ d \in Spots(u) /\ Carried(u, d)' = Carried(u, d)
              /\ Waits(u, d)' = Waits(u, d)
      /\ \A u \in Threads, d \in Nat : d \in Spots(u) =>
           d \in Spots(u)' /\ Carried(u, d)' = Carried(u, d) /\ Waits(u, d)' = Waits(u, d)
  BY <1>5, <1>6, PlacesWhenEntering
<1>9. TypeOK'
  BY <1>2, <1>6, <1>7 DEF TypeOK, Keeps, Frames
<1>10. TagInv'
  <2>1. \A h \in Tags, u \in Threads, d \in Nat, i \in Nat : Has(u, d, i, h)' <=> Has(u, d, i, h)
    BY <1>4, <1>7, <1>8 DEF Has
  <2>2. \A d \in (n + 1)..(n + 1) : frames'[t][d].closure.tag \in SelfTags \cup {NoTag}
    BY <1>2, <1>4, <1>7
  <2>3. DirectIsOwn'
    BY <1>6, <1>7, <2>2, DirectStay DEF IInv, TagInv
  <2> QED BY <1>6, <2>1, <2>3, TagsStay DEF IInv
<1>11. OrderInv'
  <2>1. \A d \in 1..n : frames[t][d].kind # "push"
    BY <1>5, <1>6, FramesAreFrames, CallerHasNoPush DEF Shortcut, Ask
  <2>2. \A d \in (n + 1)..(n + 1) : frames'[t][d].kind # "push"
    BY <1>4, <1>7
  <2>3. /\ PushIsOnTop'
        /\ \A v \in Threads : IsIn(v, "push")' => IsIn(v, "push") /\ Top(v)' = Top(v)
    BY <1>7, <2>1, <2>2, PushesStay
  <2>4. \A u \in Threads, d \in Nat : Waits(u, d)' =>
          d \in Spots(u) /\ Waits(u, d) /\ Carried(u, d)' = Carried(u, d)
    <3>1. \A u \in Threads, d \in Nat : Waits(u, d)' => d \in Spots(u)'
      BY DEF Waits
    <3> QED BY <1>7, <1>8, <3>1
  <2>5. \A u \in Threads, d \in Nat : Waits(u, d)' =>
          /\ Waits(u, d) /\ InOrder(Carried(u, d))'
          /\ \A i \in DOMAIN Carried(u, d)' : \E j \in DOMAIN Carried(u, d) :
               Carried(u, d)'[i] = Carried(u, d)[j]
    BY <2>4 DEF IInv, OrderInv, PlacesInOrder, InOrder
  <2>6. \A u \in Threads, d \in Nat : d \in Spots(u)' =>
          \A i \in DOMAIN Carried(u, d)' :
            \/ Carried(u, d)'[i].req = made'
            \/ \E e \in Spots(u) : \E j \in DOMAIN Carried(u, e) :
                 Carried(u, d)'[i] = Carried(u, e)[j]
    BY <1>4, <1>7, <1>8
  <2> QED BY <1>2, <1>6, <2>3, <2>5, <2>6, OrderNarrows
<1> QED BY <1>9, <1>10, <1>11 DEF IInv

\* The frame on top of t, which is of no interest to the order, is left.
LEMMA PlacesWhenLeaving ==
  ASSUME TypeOK, NEW t \in Threads, frames[t] # <<>>, Leave(t),
         NEW n \in Nat, n + 1 = Len(frames[t])
  PROVE  /\ Keeps(t, n, 0)
         /\ n + 1 \in Spots(t) /\ n + 1 \notin Spots(t)' /\ n + 1 # 0
         /\ Top(t) = frames[t][n + 1] /\ Carried(t, n + 1) = CarriedBy(Top(t))
         /\ \A u \in Threads, d \in Nat \ {0} : d \in Spots(u)' =>
              /\ d \in Spots(u) /\ Carried(u, d)' = Carried(u, d)
              /\ Waits(u, d)' = Waits(u, d)
         /\ \A u \in Threads, d \in Nat \ {0} : d \in Spots(u) =>
              \/ u = t /\ d = n + 1
              \/ d \in Spots(u)' /\ Carried(u, d)' = Carried(u, d) /\ Waits(u, d)' = Waits(u, d)
         /\ \A u \in Threads : 0 \in Spots(u) /\ 0 \in Spots(u)'
<1>1. Keeps(t, n, 0)
  <2>1. n = Len(frames[t]) - 1
    BY FramesAreFrames
  <2> QED BY <2>1, LeaveKeeps
<1>2. /\ \A u \in Threads : \A d \in Nat \ {0} : d \in Spots(u)' =>
           \/ u = t /\ d \in (n + 1)..(n + 0)
           \/ /\ d \in Spots(u) /\ frames'[u][d] = frames[u][d]
              /\ Carried(u, d)' = Carried(u, d)
              /\ u = t => d <= n
      /\ \A u \in Threads : \A d \in Nat \ {0} : d \in Spots(u) =>
           \/ u = t /\ d > n
           \/ /\ d \in Spots(u)' /\ frames'[u][d] = frames[u][d]
              /\ Carried(u, d)' = Carried(u, d)
      /\ \A u \in Threads : 0 \in Spots(u)
      /\ \A u \in Threads : 0 \in Spots(u)'
      /\ Spots(t)' = 0..(n + 0)
  <2>1. 0 \in Nat
    OBVIOUS
  <2> QED BY ONLY <1>1, <2>1, TypeOK, t \in Threads, n \in Nat, KeptPlaces
<1>3. Spots(t) = 0..(n + 1)
  BY DEF Spots
<1>4. n + 1 \in Spots(t) /\ n + 1 \notin Spots(t)' /\ n + 1 # 0
  BY <1>2, <1>3
<1>5. Top(t) = frames[t][n + 1] /\ Carried(t, n + 1) = CarriedBy(Top(t))
  BY <1>4, TopFrame DEF Carried
<1>6. \A u \in Threads, d \in Nat \ {0} : d \in Spots(u)' =>
        d \in Spots(u) /\ Carried(u, d)' = Carried(u, d) /\ frames'[u][d] = frames[u][d]
  BY <1>2
<1>7. \A u \in Threads, d \in Nat \ {0} : d \in Spots(u) =>
        \/ u = t /\ d = n + 1
        \/ d \in Spots(u)' /\ Carried(u, d)' = Carried(u, d) /\ frames'[u][d] = frames[u][d]
  BY <1>2, <1>3
<1> HIDE DEF Carried, Spots
<1> QED BY <1>1, <1>2, <1>4, <1>5, <1>6, <1>7 DEF Waits

\* What leaving the frame on top does to the order when the queues stay.
LEMMA LeaveKeepsOrder ==
  ASSUME IInv, NEW t \in Threads, frames[t] # <<>>, Leave(t), Top(t).kind # "push",
         UNCHANGED <<tasks, made>>
  PROVE  OrderInv'
<1>1. PICK n \in Nat : n + 1 = Len(frames[t])
  <2>1. Len(frames[t]) - 1 \in Nat /\ (Len(frames[t]) - 1) + 1 = Len(frames[t])
    BY TopFrame DEF IInv
  <2> QED BY <2>1
<1>2. /\ Keeps(t, n, 0)
      /\ \A u \in Threads, d \in Nat \ {0} : d \in Spots(u)' =>
           /\ d \in Spots(u) /\ Carried(u, d)' = Carried(u, d)
           /\ Waits(u, d)' = Waits(u, d)
      /\ \A u \in Threads : 0 \in Spots(u) /\ 0 \in Spots(u)'
  BY <1>1, PlacesWhenLeaving DEF IInv
<1>3. \A u \in Threads, d \in Nat : d \in Spots(u)' =>
        d \in Spots(u) /\ Carried(u, d)' = Carried(u, d) /\ Waits(u, d)' = Waits(u, d)
  <2>1. \A u \in Threads : Carried(u, 0)' = Carried(u, 0)
    BY DEF Carried
  <2>2. \A u \in Threads : Waits(u, 0)' = Waits(u, 0)
    BY <1>2 DEF Waits
  <2> QED BY <1>2, <2>1, <2>2
<1>4. \A d \in 1..n : frames[t][d].kind # "push"
  <2>1. DOMAIN frames[t] = 1..(n + 1) /\ \A d \in 1..n : d \in 1..(n + 1) /\ d # n + 1
    BY <1>1, TopFrame DEF IInv
  <2> QED BY <1>1, <2>1 DEF IInv, OrderInv, PushIsOnTop
<1>5. \A d \in (n + 1)..(n + 0) : frames'[t][d].kind # "push"
  OBVIOUS
<1>6. /\ PushIsOnTop'
      /\ \A v \in Threads : IsIn(v, "push")' => IsIn(v, "push") /\ Top(v)' = Top(v)
  BY <1>2, <1>4, <1>5, PushesStay
<1>7. \A u \in Threads, d \in Nat : Waits(u, d)' =>
        /\ Waits(u, d) /\ InOrder(Carried(u, d))'
        /\ \A i \in DOMAIN Carried(u, d)' : \E j \in DOMAIN Carried(u, d) :
             Carried(u, d)'[i] = Carried(u, d)[j]
  <2>1. \A u \in Threads, d \in Nat : Waits(u, d)' => d \in Spots(u)'
    BY DEF Waits
  <2> QED BY <1>3, <2>1 DEF IInv, OrderInv, PlacesInOrder, InOrder
<1>8. \A u \in Threads, d \in Nat : d \in Spots(u)' =>
        \A i \in DOMAIN Carried(u, d)' :
          \/ Carried(u, d)'[i].req = made'
          \/ \E e \in Spots(u) : \E j \in DOMAIN Carried(u, e) :
               Carried(u, d)'[i] = Carried(u, e)[j]
  BY <1>3
<1>9. made \in Nat
  BY BoundsAssumption DEF IInv, TypeOK
<1> QED BY <1>6, <1>7, <1>8, <1>9, OrderNarrows

LEMMA SyncPointReturnKeeps ==
  ASSUME IInv, NEW t \in Threads, SyncPointReturn(t)
  PROVE  IInv'
<1>1. /\ frames[t] # <<>> /\ Leave(t) /\ Top(t).kind = "sync_point" /\ Top(t).rest = <<>>
      /\ UNCHANGED <<tasks, active, main_thread_id, made, dropped, done>>
  BY DEF SyncPointReturn, IsIn
<1>2. OrderInv'
  BY <1>1, LeaveKeepsOrder
<1>3. PICK n \in Nat : n + 1 = Len(frames[t])
  <2>1. Len(frames[t]) - 1 \in Nat /\ (Len(frames[t]) - 1) + 1 = Len(frames[t])
    BY <1>1, TopFrame DEF IInv
  <2> QED BY <2>1
<1>4. /\ Keeps(t, n, 0)
      /\ n + 1 \in Spots(t) /\ n + 1 \notin Spots(t)'
      /\ Carried(t, n + 1) = CarriedBy(Top(t))
      /\ \A u \in Threads, d \in Nat \ {0} : d \in Spots(u)' =>
           d \in Spots(u) /\ Carried(u, d)' = Carried(u, d)
      /\ \A u \in Threads, d \in Nat \ {0} : d \in Spots(u) =>
           \/ u = t /\ d = n + 1
           \/ d \in Spots(u)' /\ Carried(u, d)' = Carried(u, d)
      /\ \A u \in Threads : 0 \in Spots(u) /\ 0 \in Spots(u)'
  BY <1>1, <1>3, PlacesWhenLeaving DEF IInv
<1>5. TypeOK'
  BY <1>1, <1>4 DEF IInv, TypeOK, Keeps, Frames
<1>6. TagInv'
  <2>1. Carried(t, n + 1) = <<>> /\ DOMAIN <<>> = {}
    BY <1>1, <1>4 DEF CarriedBy
  <2>2. \A u \in Threads : Carried(u, 0)' = Carried(u, 0)
    BY <1>1 DEF Carried
  <2>3. \A h \in Tags, u \in Threads, d \in Nat, i \in Nat : Has(u, d, i, h)' <=> Has(u, d, i, h)
    BY <1>4, <2>1, <2>2 DEF Has
  <2>4. \A d \in (n + 1)..(n + 0) : FALSE
    OBVIOUS
  <2>5. DirectIsOwn'
    BY <1>4, <2>4, DirectStay DEF IInv, TagInv
  <2> QED BY <1>1, <2>3, <2>5, TagsStay DEF IInv
<1> QED BY <1>2, <1>5, <1>6 DEF IInv

LEMMA FuncEndKeeps ==
  ASSUME IInv, NEW t \in Threads, FuncEnd(t)
  PROVE  IInv'
<1>1. PICK g \in Tags \cup {NoTag} :
        /\ g = Top(t).closure.tag \/ (g = NoTag /\ Top(t).direct)
        /\ PutBack(g)
  <2>1. Top(t).kind = "func" /\ Top(t) \in Frames
    BY TopFrame DEF FuncEnd, FuncReturn, FuncThrow, IsIn, IInv
  <2>2. Top(t) \in FuncFrames
    BY <2>1 DEF Frames, PointFrames, PushFrames
  <2>3. Top(t).closure.tag \in Tags \cup {NoTag}
    BY <2>2 DEF FuncFrames, Closure
  <2> QED BY <2>3 DEF FuncEnd, FuncReturn, FuncThrow
<1>2. /\ frames[t] # <<>> /\ Leave(t) /\ Top(t).kind = "func"
      /\ done' = done \cup {Top(t).closure.req}
      /\ UNCHANGED <<tasks, main_thread_id, made, dropped>>
  BY DEF FuncEnd, FuncReturn, FuncThrow, IsIn
<1>3. Top(t) \in FuncFrames
  <2>1. Top(t) \in Frames
    BY <1>2, TopFrame DEF IInv
  <2> QED BY <1>2, <2>1 DEF Frames, PointFrames, PushFrames
<1>4. PICK c \in Closure : c = Top(t).closure
  BY <1>3 DEF FuncFrames
<1>5. OrderInv'
  BY <1>2, LeaveKeepsOrder
<1>6. PICK n \in Nat : n + 1 = Len(frames[t])
  <2>1. Len(frames[t]) - 1 \in Nat /\ (Len(frames[t]) - 1) + 1 = Len(frames[t])
    BY <1>2, TopFrame DEF IInv
  <2> QED BY <2>1
<1>7. /\ Keeps(t, n, 0)
      /\ n + 1 \in Spots(t) /\ n + 1 \notin Spots(t)'
      /\ Top(t) = frames[t][n + 1] /\ Carried(t, n + 1) = CarriedBy(Top(t))
      /\ \A u \in Threads, d \in Nat \ {0} : d \in Spots(u)' =>
           d \in Spots(u) /\ Carried(u, d)' = Carried(u, d)
      /\ \A u \in Threads, d \in Nat \ {0} : d \in Spots(u) =>
           \/ u = t /\ d = n + 1
           \/ d \in Spots(u)' /\ Carried(u, d)' = Carried(u, d)
      /\ \A u \in Threads : 0 \in Spots(u) /\ 0 \in Spots(u)'
  BY <1>2, <1>6, PlacesWhenLeaving DEF IInv
<1>8. /\ active' \in [Tags -> BOOLEAN]
      /\ \A h \in Tags : active'[h] = (active[h] /\ h # g)
  BY <1>1 DEF PutBack, IInv, TypeOK
<1>9. TypeOK'
  <2>1. done' \subseteq Requests
    BY <1>2, <1>4 DEF IInv, TypeOK, Closure
  <2> QED BY <1>2, <1>7, <1>8, <2>1 DEF IInv, TypeOK, Keeps, Frames
<1>10. Carried(t, n + 1) = IF Top(t).direct THEN <<>> ELSE <<c>>
  BY <1>2, <1>4, <1>7 DEF CarriedBy
<1>11. Top(t).direct \in BOOLEAN /\ (Top(t).direct => c.tag \in SelfTags \cup {NoTag})
  <2>1. n + 1 \in DOMAIN frames[t]
    BY <1>2, <1>6, TopFrame DEF IInv
  <2> QED BY <1>2, <1>3, <1>4, <1>7, <2>1 DEF IInv, TagInv, DirectIsOwn, FuncFrames
<1>12. /\ \A h \in Tags, u \in Threads, d \in Nat, i \in Nat : Has(u, d, i, h)' => Has(u, d, i, h)
       /\ \A h \in Tags, u \in Threads, d \in Nat, i \in Nat : Has(u, d, i, h) =>
            \/ u = t /\ d = n + 1 /\ i = 1 /\ h = c.tag /\ ~Top(t).direct
            \/ Has(u, d, i, h)'
       /\ ~Top(t).direct /\ c.tag \in Tags => Has(t, n + 1, 1, c.tag)
       /\ \A h \in Tags, i \in Nat : ~Has(t, n + 1, i, h)'
  <2>1. \A u \in Threads : Carried(u, 0)' = Carried(u, 0)
    BY <1>2 DEF Carried
  <2>2. DOMAIN <<>> = {} /\ DOMAIN <<c>> = {1} /\ <<c>>[1] = c
    OBVIOUS
  <2> QED BY <1>7, <1>10, <1>11, <2>1, <2>2 DEF Has
<1>13. TagInv'
  <2>1. TakenIsHeld'
    BY <1>1, <1>4, <1>8, <1>12, NamesAssumption DEF IInv, TagInv, TakenIsHeld
  <2>2. HeldIsTaken'
    <3> SUFFICES ASSUME NEW h \in Tags \ SelfTags, NEW u \in Threads, NEW d \in Nat, NEW i \in Nat,
                        Has(u, d, i, h)'
                 PROVE  active'[h]
      BY DEF HeldIsTaken
    <3>1. Has(u, d, i, h) /\ active[h] /\ ~(u = t /\ d = n + 1)
      BY <1>12 DEF IInv, TagInv, HeldIsTaken
    <3>2. ASSUME h = g PROVE FALSE
      <4>1. c.tag = h /\ ~Top(t).direct
        BY <1>1, <1>4, <1>11, <3>2, NamesAssumption
      <4>2. Has(t, n + 1, 1, h)
        BY <1>12, <4>1
      <4> QED BY <3>1, <4>2 DEF IInv, TagInv, HeldOnce
    <3> QED BY <1>8, <3>1, <3>2
  <2>3. HeldOnce'
    BY <1>12 DEF IInv, TagInv, HeldOnce
  <2>4. \A d \in (n + 1)..(n + 0) : FALSE
    OBVIOUS
  <2>5. DirectIsOwn'
    BY <1>7, <2>4, DirectStay DEF IInv, TagInv
  <2> QED BY <2>1, <2>2, <2>3, <2>5 DEF TagInv
<1> QED BY <1>5, <1>9, <1>13 DEF IInv

-----------------------------------------------------------------------------
(* Steps that move closures.                                                *)

LEMMA SyncPointKeeps ==
  ASSUME IInv, NEW t \in Threads, SyncPoint(t)
  PROVE  IInv'
<1>1. PICK f \in Frames : f = [kind |-> "sync_point", rest |-> tasks[t]]
  BY DEF Frames, PointFrames, IInv, TypeOK
<1>2. f.kind = "sync_point" /\ CarriedBy(f) = tasks[t]
  BY <1>1 DEF CarriedBy
<1>3. PICK n \in Nat : n = Len(frames[t])
  BY FramesAreFrames DEF IInv
<1>4. CanCall(t) /\ Enter(t, f) /\ UNCHANGED <<active, main_thread_id, made, dropped, done>>
  BY <1>1 DEF SyncPoint
<1>5. Keeps(t, n, 1) /\ frames'[t][n + 1] = f
  BY <1>3, <1>4, EnterKeeps DEF IInv
<1>6. /\ tasks' \in [Threads \cup {NoThread} -> Seq(Closure)] /\ tasks'[NoThread] = <<>>
      /\ tasks'[t] = <<>> /\ \A u \in Threads \ {t} : tasks'[u] = tasks[u]
  <2>1. <<>> \in Seq(Closure)
    OBVIOUS
  <2> QED BY <2>1, NamesAssumption DEF SyncPoint, IInv, TypeOK
<1>7. TypeOK'
  BY <1>4, <1>5, <1>6 DEF IInv, TypeOK, Keeps, Frames
<1>8. /\ \A u \in Threads : \A d \in Nat \ {0} : d \in Spots(u)' =>
           \/ u = t /\ d \in (n + 1)..(n + 1)
           \/ /\ d \in Spots(u) /\ frames'[u][d] = frames[u][d]
              /\ Carried(u, d)' = Carried(u, d)
              /\ u = t => d <= n
      /\ \A u \in Threads : \A d \in Nat \ {0} : d \in Spots(u) =>
           \/ u = t /\ d > n
           \/ /\ d \in Spots(u)' /\ frames'[u][d] = frames[u][d]
              /\ Carried(u, d)' = Carried(u, d)
      /\ \A u \in Threads : 0 \in Spots(u)
      /\ \A u \in Threads : 0 \in Spots(u)'
      /\ Spots(t)' = 0..(n + 1)
  BY <1>5, KeptPlaces DEF IInv
<1>9. Spots(t) = 0..n
  BY <1>3 DEF Spots
<1>10. n + 1 \in Spots(t)' /\ n + 1 \notin Spots(t) /\ n + 1 # 0 /\ n + 1 \in Nat
  BY <1>8, <1>9
<1>11. /\ \A u \in Threads \ {t} : Carried(u, 0)' = Carried(u, 0)
       /\ Carried(t, 0) = tasks[t] /\ Carried(t, 0)' = <<>>
       /\ Carried(t, n + 1)' = tasks[t]
  BY <1>2, <1>5, <1>6, <1>10 DEF Carried
<1>12. \A u \in Threads, d \in Nat : d \in Spots(u)' =>
         \/ u = t /\ d = n + 1
         \/ u = t /\ d = 0
         \/ /\ d \in Spots(u) /\ Carried(u, d)' = Carried(u, d) /\ ~(u = t /\ d = 0)
            /\ d # 0 => frames'[u][d] = frames[u][d]
  BY <1>8, <1>11
<1>13. \A u \in Threads, d \in Nat : d \in Spots(u) =>
         \/ u = t /\ d = 0
         \/ d \in Spots(u)' /\ Carried(u, d)' = Carried(u, d) /\ ~(u = t /\ d = n + 1)
  BY <1>8, <1>9, <1>10, <1>11
<1> HIDE DEF Carried, Spots
<1>14. DOMAIN <<>> = {}
  OBVIOUS
<1>15. TagInv'
  <2>1. \A h \in Tags, u \in Threads, d \in Nat, i \in Nat : Has(u, d, i, h)' =>
          \/ u = t /\ d = n + 1 /\ Has(t, 0, i, h)
          \/ ~(u = t /\ d \in {0, n + 1}) /\ Has(u, d, i, h)
    BY <1>8, <1>10, <1>11, <1>12, <1>14 DEF Has
  <2>2. \A h \in Tags, u \in Threads, d \in Nat, i \in Nat : Has(u, d, i, h) =>
          Has(t, n + 1, i, h)' \/ Has(u, d, i, h)'
    BY <1>10, <1>11, <1>13 DEF Has
  <2>3. TakenIsHeld'
    BY <1>4, <1>10, <2>2 DEF IInv, TagInv, TakenIsHeld
  <2>4. HeldIsTaken'
    BY <1>4, <1>10, <2>1 DEF IInv, TagInv, HeldIsTaken
  <2>5. HeldOnce'
    <3> SUFFICES ASSUME NEW h \in Tags \ SelfTags, NEW u \in Threads, NEW v \in Threads,
                        NEW d \in Nat, NEW i \in Nat, NEW e \in Nat, NEW j \in Nat,
                        Has(u, d, i, h)', Has(v, e, j, h)'
                 PROVE  u = v /\ d = e /\ i = j
      BY DEF HeldOnce
    <3>1. \A a, b \in Threads : \A k, l, x, y \in Nat :
            Has(a, k, l, h) /\ Has(b, x, y, h) => a = b /\ k = x /\ l = y
      BY DEF IInv, TagInv, HeldOnce
    <3>2. 0 \in Nat
      OBVIOUS
    <3> QED BY <2>1, <3>1, <3>2
  <2>6. \A d \in (n + 1)..(n + 1) : frames'[t][d].kind # "func"
    BY <1>2, <1>5
  <2>7. DirectIsOwn'
    BY <1>5, <2>6, DirectStay DEF IInv, TagInv
  <2> QED BY <2>3, <2>4, <2>5, <2>7 DEF TagInv
<1>16. /\ PushIsOnTop'
       /\ \A v \in Threads : IsIn(v, "push")' => IsIn(v, "push") /\ Top(v)' = Top(v)
  <2>1. \A d \in 1..n : frames[t][d].kind # "push"
    BY <1>3, <1>4, FramesAreFrames, CallerHasNoPush DEF IInv
  <2>2. \A d \in (n + 1)..(n + 1) : frames'[t][d].kind # "push"
    BY <1>2, <1>5
  <2> QED BY <1>5, <2>1, <2>2, PushesStay
<1>17. NumbersGiven'
  <2>1. \A u \in Threads : \A d \in Spots(u)' : \A i \in DOMAIN Carried(u, d)' :
          \E e \in Spots(u) : \E j \in DOMAIN Carried(u, e) : Carried(u, d)'[i] = Carried(u, e)[j]
    <3>1. \A u \in Threads : Spots(u)' \subseteq Nat
      BY DEF Spots
    <3> QED BY <1>8, <1>11, <1>12, <1>14, <3>1
  <2> QED BY <1>4, <2>1 DEF IInv, OrderInv, NumbersGiven
<1>18. \A u \in Threads, d \in Nat : Waits(u, d)' =>
         \/ u = t /\ d = n + 1
         \/ u = t /\ d = 0
         \/ Waits(u, d) /\ Carried(u, d)' = Carried(u, d)
  BY <1>12 DEF Waits
<1>19. \A u \in Threads : Waits(u, 0) /\ 0 \in Nat
  BY <1>8 DEF Waits
<1>20. PlacesInOrder'
  <2> SUFFICES ASSUME NEW u \in Threads, NEW d \in Nat, Waits(u, d)'
               PROVE  InOrder(Carried(u, d))'
    BY DEF PlacesInOrder
  <2>1. CASE u = t /\ d = n + 1
    BY <1>11, <1>19, <2>1 DEF IInv, OrderInv, PlacesInOrder, InOrder
  <2>2. CASE u = t /\ d = 0
    BY <1>11, <1>14, <2>2 DEF InOrder
  <2>3. CASE Waits(u, d) /\ Carried(u, d)' = Carried(u, d)
    BY <2>3 DEF IInv, OrderInv, PlacesInOrder, InOrder
  <2> QED BY <1>18, <2>1, <2>2, <2>3
<1>21. BatchBeforeQueue'
  <2> SUFFICES ASSUME NEW u \in Threads, u # t, NEW d \in Nat \ {0}, Waits(u, d)'
               PROVE  \A i \in DOMAIN Carried(u, d)', j \in DOMAIN tasks'[u] :
                        Older(Carried(u, d)'[i], tasks'[u][j])
    BY <1>6, <1>14 DEF BatchBeforeQueue
  <2>1. Waits(u, d) /\ Carried(u, d)' = Carried(u, d) /\ tasks'[u] = tasks[u]
    BY <1>6, <1>18
  <2> QED BY <2>1 DEF IInv, OrderInv, BatchBeforeQueue
<1>22. PushIsLatest'
  <2> SUFFICES ASSUME NEW v \in Threads, IsIn(v, "push")',
                      NEW u \in Threads, NEW d \in Nat, Waits(u, d)',
                      NEW i \in DOMAIN Carried(u, d)', Carried(u, d)'[i].from = v
               PROVE  Carried(u, d)'[i].req < Top(v)'.closure.req
    BY DEF PushIsLatest
  <2>1. IsIn(v, "push") /\ Top(v)' = Top(v)
    BY <1>16
  <2>2. \E e \in Nat : Waits(u, e) /\ \E j \in DOMAIN Carried(u, e) : Carried(u, d)'[i] = Carried(u, e)[j]
    BY <1>11, <1>14, <1>18, <1>19
  <2> QED BY <2>1, <2>2 DEF IInv, OrderInv, PushIsLatest
<1>23. OuterBeforeInner'
  <2> SUFFICES ASSUME NEW u \in Threads, NEW d \in Nat \ {0}, NEW e \in Nat \ {0},
                      d < e, Waits(u, d)', Waits(u, e)'
               PROVE  \A i \in DOMAIN Carried(u, d)', j \in DOMAIN Carried(u, e)' :
                        Older(Carried(u, d)'[i], Carried(u, e)'[j])
    BY DEF OuterBeforeInner
  <2>1. ~(u = t /\ d = n + 1)
    BY <1>8 DEF Waits
  <2>2. Waits(u, d) /\ Carried(u, d)' = Carried(u, d)
    BY <1>18, <2>1
  <2>3. CASE u = t /\ e = n + 1
    BY <1>11, <2>2, <2>3 DEF IInv, OrderInv, BatchBeforeQueue
  <2>4. CASE ~(u = t /\ e = n + 1)
    <3>1. Waits(u, e) /\ Carried(u, e)' = Carried(u, e)
      BY <1>18, <2>4
    <3> QED BY <2>2, <3>1 DEF IInv, OrderInv, OuterBeforeInner
  <2> QED BY <2>3, <2>4
<1> QED BY <1>7, <1>15, <1>16, <1>17, <1>20, <1>21, <1>22, <1>23 DEF IInv, OrderInv

LEMMA PushKeeps ==
  ASSUME IInv, NEW t \in Threads, Push(t)
  PROVE  IInv'
<1>1. /\ frames[t] # <<>> /\ Leave(t) /\ Top(t).kind = "push"
      /\ Queue(Top(t).target, Top(t).closure)
      /\ UNCHANGED <<active, main_thread_id, made, dropped, done>>
  BY DEF Push, IsIn
<1>2. Top(t) \in PushFrames
  <2>1. Top(t) \in Frames
    BY <1>1, TopFrame DEF IInv
  <2> QED BY <1>1, <2>1 DEF Frames, PointFrames, FuncFrames
<1>3. PICK c \in Closure, target \in Threads : c = Top(t).closure /\ target = Top(t).target
  BY <1>2 DEF PushFrames
<1>4. PICK n \in Nat : n + 1 = Len(frames[t])
  <2>1. Len(frames[t]) - 1 \in Nat /\ (Len(frames[t]) - 1) + 1 = Len(frames[t])
    BY <1>1, TopFrame DEF IInv
  <2> QED BY <2>1
<1>5. /\ Keeps(t, n, 0)
      /\ n + 1 \in Spots(t) /\ n + 1 \notin Spots(t)' /\ n + 1 # 0
      /\ Top(t) = frames[t][n + 1] /\ Carried(t, n + 1) = CarriedBy(Top(t))
      /\ \A u \in Threads, d \in Nat \ {0} : d \in Spots(u)' =>
           /\ d \in Spots(u) /\ Carried(u, d)' = Carried(u, d)
           /\ Waits(u, d)' = Waits(u, d)
      /\ \A u \in Threads, d \in Nat \ {0} : d \in Spots(u) =>
           \/ u = t /\ d = n + 1
           \/ d \in Spots(u)' /\ Carried(u, d)' = Carried(u, d) /\ Waits(u, d)' = Waits(u, d)
      /\ \A u \in Threads : 0 \in Spots(u) /\ 0 \in Spots(u)'
  BY <1>1, <1>4, PlacesWhenLeaving DEF IInv
<1>6. PICK m \in Nat : m = Len(tasks[target])
  BY <1>1, <1>3, QueueAppends DEF IInv
<1>7. /\ tasks' \in [Threads \cup {NoThread} -> Seq(Closure)]
      /\ tasks'[NoThread] = <<>>
      /\ \A u \in Threads \ {target} : tasks'[u] = tasks[u]
      /\ DOMAIN tasks[target] = 1..m
      /\ DOMAIN tasks'[target] = 1..(m + 1)
      /\ \A i \in 1..m : tasks'[target][i] = tasks[target][i]
      /\ tasks'[target][m + 1] = c
  BY <1>1, <1>3, <1>6, QueueAppends DEF IInv
<1>8. TypeOK'
  BY <1>1, <1>5, <1>7 DEF IInv, TypeOK, Keeps, Frames
<1>9. /\ Carried(t, n + 1) = <<c>> /\ DOMAIN <<c>> = {1} /\ <<c>>[1] = c
      /\ n + 1 \in Nat /\ 1 \in Nat /\ 0 \in Nat /\ m + 1 \in Nat
  <2>1. CarriedBy(Top(t)) = <<c>>
    BY <1>1, <1>3 DEF CarriedBy
  <2> QED BY <1>5, <2>1
<1>10. /\ \A u \in Threads : Carried(u, 0) = tasks[u] /\ Carried(u, 0)' = tasks'[u]
       /\ \A u \in Threads : Waits(u, 0) /\ Waits(u, 0)'
  BY <1>5 DEF Carried, Waits
<1>11. /\ \A i \in 1..m : i \in Nat /\ i # m + 1 /\ i \in 1..(m + 1)
       /\ m + 1 \in 1..(m + 1)
       /\ \A i \in 1..(m + 1) : i \in 1..m \/ i = m + 1
       /\ \A u \in Threads : Spots(u) \subseteq Nat /\ Spots(u)' \subseteq Nat
  BY DEF Spots
<1>12. TagInv'
  <2>1. \A h \in Tags, u \in Threads, d \in Nat, i \in Nat : Has(u, d, i, h)' =>
          \/ u = target /\ d = 0 /\ i = m + 1 /\ Has(t, n + 1, 1, h)
          \/ /\ ~(u = target /\ d = 0 /\ i = m + 1) /\ ~(u = t /\ d = n + 1)
             /\ Has(u, d, i, h)
    <3> SUFFICES ASSUME NEW h \in Tags, NEW u \in Threads, NEW d \in Nat, NEW i \in Nat,
                        Has(u, d, i, h)'
                 PROVE  \/ u = target /\ d = 0 /\ i = m + 1 /\ Has(t, n + 1, 1, h)
                        \/ /\ ~(u = target /\ d = 0 /\ i = m + 1) /\ ~(u = t /\ d = n + 1)
                           /\ Has(u, d, i, h)
      OBVIOUS
    <3>1. CASE d # 0
      BY <1>5, <3>1 DEF Has
    <3>2. CASE d = 0 /\ u # target
      BY <1>5, <1>7, <1>10, <3>2 DEF Has
    <3>3. CASE d = 0 /\ u = target
      BY <1>5, <1>7, <1>9, <1>10, <1>11, <3>3 DEF Has
    <3> QED BY <3>1, <3>2, <3>3
  <2>2. \A h \in Tags, u \in Threads, d \in Nat, i \in Nat : Has(u, d, i, h) =>
          Has(target, 0, m + 1, h)' \/ Has(u, d, i, h)'
    <3> SUFFICES ASSUME NEW h \in Tags, NEW u \in Threads, NEW d \in Nat, NEW i \in Nat,
                        Has(u, d, i, h)
                 PROVE  Has(target, 0, m + 1, h)' \/ Has(u, d, i, h)'
      OBVIOUS
    <3>1. CASE u = t /\ d = n + 1
      BY <1>5, <1>7, <1>9, <1>10, <1>11, <3>1 DEF Has
    <3>2. CASE d # 0 /\ ~(u = t /\ d = n + 1)
      BY <1>5, <3>2 DEF Has
    <3>3. CASE d = 0
      BY <1>5, <1>7, <1>10, <1>11, <3>3 DEF Has
    <3> QED BY <3>1, <3>2, <3>3
  <2>3. TakenIsHeld'
    BY <1>1, <1>9, <2>2 DEF IInv, TagInv, TakenIsHeld
  <2>4. HeldIsTaken'
    BY <1>1, <1>9, <2>1 DEF IInv, TagInv, HeldIsTaken
  <2>5. HeldOnce'
    <3> SUFFICES ASSUME NEW h \in Tags \ SelfTags, NEW u \in Threads, NEW v \in Threads,
                        NEW d \in Nat, NEW i \in Nat, NEW e \in Nat, NEW j \in Nat,
                        Has(u, d, i, h)', Has(v, e, j, h)'
                 PROVE  u = v /\ d = e /\ i = j
      BY DEF HeldOnce
    <3>1. \A a, b \in Threads : \A k, l, x, y \in Nat :
            Has(a, k, l, h) /\ Has(b, x, y, h) => a = b /\ k = x /\ l = y
      BY DEF IInv, TagInv, HeldOnce
    <3> QED BY <1>9, <2>1, <3>1
  <2>6. \A d \in (n + 1)..(n + 0) : FALSE
    OBVIOUS
  <2>7. DirectIsOwn'
    BY <1>5, <2>6, DirectStay DEF IInv, TagInv
  <2> QED BY <2>3, <2>4, <2>5, <2>7 DEF TagInv
<1>13. /\ PushIsOnTop'
       /\ \A v \in Threads : IsIn(v, "push")' => IsIn(v, "push") /\ Top(v)' = Top(v)
  <2>1. \A d \in 1..n : frames[t][d].kind # "push"
    <3>1. DOMAIN frames[t] = 1..(n + 1) /\ \A d \in 1..n : d \in 1..(n + 1) /\ d # n + 1
      BY <1>1, <1>4, TopFrame DEF IInv
    <3> QED BY <1>4, <3>1 DEF IInv, OrderInv, PushIsOnTop
  <2>2. \A d \in (n + 1)..(n + 0) : frames'[t][d].kind # "push"
    OBVIOUS
  <2> QED BY <1>5, <2>1, <2>2, PushesStay
<1>14. /\ c.from = t
       /\ \A u \in Threads : \A d \in Nat : Waits(u, d) => \A i \in DOMAIN Carried(u, d) :
            Carried(u, d)[i].from = t => Carried(u, d)[i].req < c.req
  <2>1. n + 1 \in DOMAIN frames[t]
    BY <1>1, <1>4, TopFrame DEF IInv
  <2>2. IsIn(t, "push")
    BY <1>1 DEF IsIn
  <2> QED BY <1>1, <1>3, <1>5, <2>1, <2>2 DEF IInv, OrderInv, PushIsOnTop, PushIsLatest
<1>15. \A u \in Threads, d \in Nat : d \in Spots(u)' => \A i \in DOMAIN Carried(u, d)' :
         \/ d \in Spots(u) /\ i \in DOMAIN Carried(u, d) /\ Carried(u, d)'[i] = Carried(u, d)[i]
         \/ u = target /\ d = 0 /\ i = m + 1 /\ Carried(u, d)'[i] = c
  BY <1>5, <1>7, <1>10, <1>11
<1>16. NumbersGiven'
  <2>1. c.req <= made
    BY <1>5, <1>9 DEF IInv, OrderInv, NumbersGiven
  <2> QED BY <1>1, <1>11, <1>15, <2>1 DEF IInv, OrderInv, NumbersGiven
<1>17. PlacesInOrder'
  <2> SUFFICES ASSUME NEW u \in Threads, NEW d \in Nat, Waits(u, d)'
               PROVE  InOrder(Carried(u, d))'
    BY DEF PlacesInOrder
  <2>1. CASE d # 0
    <3>1. Waits(u, d) /\ Carried(u, d)' = Carried(u, d)
      <4>1. d \in Spots(u)'
        BY DEF Waits
      <4> QED BY <1>5, <2>1, <4>1
    <3> QED BY <3>1 DEF IInv, OrderInv, PlacesInOrder, InOrder
  <2>2. CASE d = 0 /\ u # target
    BY <1>7, <1>10, <2>2 DEF IInv, OrderInv, PlacesInOrder, InOrder
  <2>3. CASE d = 0 /\ u = target
    <3>1. InOrder(tasks[target])
      BY <1>9, <1>10 DEF IInv, OrderInv, PlacesInOrder
    <3>2. \A i \in 1..m : Older(tasks[target][i], c)
      BY <1>7, <1>9, <1>10, <1>14 DEF Older
    <3>3. ASSUME NEW i \in 1..(m + 1), NEW j \in 1..(m + 1), i < j
          PROVE  Older(tasks'[target][i], tasks'[target][j])
      <4>1. i \in 1..m
        BY <3>3
      <4>2. CASE j \in 1..m
        BY <1>7, <3>1, <3>3, <4>1, <4>2 DEF InOrder
      <4>3. CASE j = m + 1
        BY <1>7, <3>2, <4>1, <4>3
      <4> QED BY <4>2, <4>3
    <3> QED BY <1>7, <1>10, <2>3, <3>3 DEF InOrder
  <2> QED BY <2>1, <2>2, <2>3
<1>18. BatchBeforeQueue'
  <2> SUFFICES ASSUME NEW u \in Threads, NEW d \in Nat \ {0}, Waits(u, d)',
                      NEW i \in DOMAIN Carried(u, d)', NEW j \in DOMAIN tasks'[u]
               PROVE  Older(Carried(u, d)'[i], tasks'[u][j])
    BY DEF BatchBeforeQueue
  <2>1. Waits(u, d) /\ Carried(u, d)' = Carried(u, d)
    <3>1. d \in Spots(u)'
      BY DEF Waits
    <3> QED BY <1>5, <3>1
  <2>2. CASE j \in DOMAIN tasks[u] /\ tasks'[u][j] = tasks[u][j]
    BY <2>1, <2>2 DEF IInv, OrderInv, BatchBeforeQueue
  <2>3. CASE tasks'[u][j] = c
    BY <1>14, <2>1, <2>3 DEF Older
  <2> QED BY <1>7, <1>11, <2>2, <2>3
<1>19. PushIsLatest'
  <2> SUFFICES ASSUME NEW v \in Threads, IsIn(v, "push")',
                      NEW u \in Threads, NEW d \in Nat, Waits(u, d)',
                      NEW i \in DOMAIN Carried(u, d)', Carried(u, d)'[i].from = v
               PROVE  Carried(u, d)'[i].req < Top(v)'.closure.req
    BY DEF PushIsLatest
  <2>1. IsIn(v, "push") /\ Top(v)' = Top(v)
    BY <1>13
  <2>2. v # t
    <3>1. CASE frames'[t] = <<>>
      BY <3>1 DEF IsIn
    <3>2. CASE frames'[t] # <<>>
      <4>1. frames'[t] \in Seq(Frames) /\ Len(frames'[t]) = n + 0
        BY <1>5 DEF Keeps
      <4>2. Len(frames'[t]) \in DOMAIN frames'[t] /\ DOMAIN frames'[t] = 1..Len(frames'[t])
        BY <3>2, <4>1, FrontAndLast
      <4>3. n \in 1..n /\ n \in DOMAIN frames[t] /\ n # Len(frames[t]) /\ n = Len(frames'[t])
        BY <1>1, <1>4, <4>1, <4>2, TopFrame DEF IInv
      <4>4. frames'[t][n] = frames[t][n] /\ frames[t][n].kind # "push"
        BY <1>5, <4>3 DEF IInv, OrderInv, PushIsOnTop, Keeps
      <4>5. ~IsIn(t, "push")'
        BY <4>3, <4>4 DEF IsIn, Top, Last
      <4> QED BY <4>5
    <3> QED BY <3>1, <3>2
  <2>3. d \in Spots(u) /\ Waits(u, d)
    <3>1. d \in Spots(u)'
      BY DEF Waits
    <3> QED BY <1>5, <1>10, <3>1
  <2>4. i \in DOMAIN Carried(u, d) /\ Carried(u, d)'[i] = Carried(u, d)[i]
    <3>1. d \in Spots(u)'
      BY DEF Waits
    <3> QED BY <1>14, <1>15, <2>2, <3>1
  <2> QED BY <2>1, <2>3, <2>4 DEF IInv, OrderInv, PushIsLatest
<1>20. OuterBeforeInner'
  <2>1. \A u \in Threads, d \in Nat \ {0} : Waits(u, d)' =>
          Waits(u, d) /\ Carried(u, d)' = Carried(u, d)
    <3>1. \A u \in Threads, d \in Nat : Waits(u, d)' => d \in Spots(u)'
      BY DEF Waits
    <3> QED BY <1>5, <3>1
  <2> QED BY <2>1 DEF IInv, OrderInv, OuterBeforeInner
<1> QED BY <1>8, <1>12, <1>13, <1>16, <1>17, <1>18, <1>19, <1>20 DEF IInv, OrderInv

\* What RunNext does to the stack, and to the order of what is left.
LEMMA RunNextMoves ==
  ASSUME IInv, NEW t \in Threads, RunNext(t)
  PROVE  \E n \in Nat, r \in Seq(Closure) :
           /\ n + 1 = Len(frames[t]) /\ r = Top(t).rest
           /\ r = Carried(t, n + 1) /\ Waits(t, n + 1)
           /\ Head(r) = r[1] /\ 1 \in DOMAIN r
           /\ Tail(r) \in Seq(Closure)
           /\ \A i \in DOMAIN Tail(r) : i \in Nat /\ i + 1 \in DOMAIN r /\ Tail(r)[i] = r[i + 1]
                                        /\ i + 1 # 1 /\ i + 1 > 1
           /\ \A i \in DOMAIN r : i = 1 \/ (i - 1 \in DOMAIN Tail(r) /\ i - 1 \in Nat
                                            /\ Tail(r)[i - 1] = r[i])
           /\ Keeps(t, n, 2)
           /\ frames'[t][n + 1] = [kind |-> "sync_point", rest |-> Tail(r)]
           /\ frames'[t][n + 2] = [kind |-> "func", closure |-> Head(r), direct |-> FALSE]
<1>1. PICK n \in Nat : n + 1 = Len(frames[t])
  <2>1. frames[t] # <<>>
    BY DEF RunNext, IsIn
  <2>2. Len(frames[t]) - 1 \in Nat /\ (Len(frames[t]) - 1) + 1 = Len(frames[t])
    BY <2>1, TopFrame DEF IInv
  <2> QED BY <2>2
<1>2. PICK r : r = Top(t).rest
  OBVIOUS
<1>3. frames[t] # <<>> /\ Top(t).kind = "sync_point" /\ r # <<>>
  BY <1>2 DEF RunNext, IsIn
<1>4. Top(t) \in PointFrames /\ Top(t) = frames[t][n + 1]
  <2>1. Top(t) \in Frames /\ Top(t) = frames[t][n + 1]
    BY <1>1, <1>3, TopFrame DEF IInv
  <2> QED BY <1>3, <2>1 DEF Frames, PushFrames, FuncFrames
<1>5. r \in Seq(Closure)
  BY <1>2, <1>4 DEF PointFrames
<1>6. n + 1 # 0 /\ n + 1 \in Nat /\ n + 1 \in Spots(t)
  BY <1>1 DEF Spots
<1>7. r = Carried(t, n + 1) /\ Waits(t, n + 1)
  BY <1>2, <1>3, <1>4, <1>6 DEF Carried, CarriedBy, Waits
<1>8. /\ Head(r) \in Closure /\ Tail(r) \in Seq(Closure) /\ Len(Tail(r)) = Len(r) - 1
      /\ \A i \in 1..Len(Tail(r)) : Tail(r)[i] = r[i + 1]
      /\ Head(r) = r[1]
  BY <1>3, <1>5, HeadTailProperties
<1>9. /\ Len(r) \in Nat \ {0} /\ DOMAIN r = 1..Len(r)
      /\ DOMAIN Tail(r) = 1..(Len(r) - 1)
  BY <1>3, <1>5, <1>8, FrontAndLast, LenProperties
<1>10. \A i \in DOMAIN Tail(r) : i \in Nat /\ i + 1 \in DOMAIN r /\ Tail(r)[i] = r[i + 1]
                                /\ i + 1 # 1 /\ i + 1 > 1
  BY <1>8, <1>9
<1>11. \A i \in DOMAIN r : i = 1 \/ (i - 1 \in DOMAIN Tail(r) /\ i - 1 \in Nat
                                    /\ Tail(r)[i - 1] = r[i])
  <2> SUFFICES ASSUME NEW i \in DOMAIN r, i # 1
               PROVE  i - 1 \in DOMAIN Tail(r) /\ i - 1 \in Nat /\ Tail(r)[i - 1] = r[i]
    OBVIOUS
  <2>1. i - 1 \in DOMAIN Tail(r) /\ i - 1 \in Nat /\ (i - 1) + 1 = i
    BY <1>9
  <2> QED BY <1>10, <2>1
<1>12. PICK f \in Frames : f = [kind |-> "sync_point", rest |-> Tail(r)]
  BY <1>8 DEF Frames, PointFrames
<1>13. PICK h \in Frames : h = [kind |-> "func", closure |-> Head(r), direct |-> FALSE]
  BY <1>8 DEF Frames, FuncFrames
<1>14. frames' = [frames EXCEPT ![t] = Front(@) \o <<f, h>>]
  BY <1>2, <1>12, <1>13 DEF RunNext
<1>15. /\ Keeps(t, Len(frames[t]) - 1, 2)
       /\ frames'[t][Len(frames[t])] = f /\ frames'[t][Len(frames[t]) + 1] = h
  BY <1>3, <1>14, RaiseKeeps DEF IInv
<1>16. Len(frames[t]) - 1 = n /\ Len(frames[t]) + 1 = n + 2
  BY <1>1
<1> HIDE DEF Carried, Spots, Waits
<1>17. 1 \in DOMAIN r
  BY <1>9
<1>18. /\ n + 1 = Len(frames[t]) /\ r = Top(t).rest
       /\ r = Carried(t, n + 1) /\ Waits(t, n + 1)
       /\ Head(r) = r[1] /\ 1 \in DOMAIN r
       /\ Tail(r) \in Seq(Closure)
       /\ \A i \in DOMAIN Tail(r) : i \in Nat /\ i + 1 \in DOMAIN r /\ Tail(r)[i] = r[i + 1]
                                    /\ i + 1 # 1 /\ i + 1 > 1
       /\ \A i \in DOMAIN r : i = 1 \/ (i - 1 \in DOMAIN Tail(r) /\ i - 1 \in Nat
                                        /\ Tail(r)[i - 1] = r[i])
       /\ Keeps(t, n, 2)
       /\ frames'[t][n + 1] = [kind |-> "sync_point", rest |-> Tail(r)]
       /\ frames'[t][n + 2] = [kind |-> "func", closure |-> Head(r), direct |-> FALSE]
  BY <1>1, <1>2, <1>7, <1>8, <1>10, <1>11, <1>12, <1>13, <1>15, <1>16, <1>17
<1> QED BY <1>5, <1>18

LEMMA RunNextKeeps ==
  ASSUME IInv, NEW t \in Threads, RunNext(t)
  PROVE  IInv'
<1>1. PICK n \in Nat, r \in Seq(Closure) :
        /\ n + 1 = Len(frames[t]) /\ r = Top(t).rest
        /\ r = Carried(t, n + 1) /\ Waits(t, n + 1)
        /\ Head(r) = r[1] /\ 1 \in DOMAIN r
        /\ Tail(r) \in Seq(Closure)
        /\ \A i \in DOMAIN Tail(r) : i \in Nat /\ i + 1 \in DOMAIN r /\ Tail(r)[i] = r[i + 1]
                                     /\ i + 1 # 1 /\ i + 1 > 1
        /\ \A i \in DOMAIN r : i = 1 \/ (i - 1 \in DOMAIN Tail(r) /\ i - 1 \in Nat
                                         /\ Tail(r)[i - 1] = r[i])
        /\ Keeps(t, n, 2)
        /\ frames'[t][n + 1] = [kind |-> "sync_point", rest |-> Tail(r)]
        /\ frames'[t][n + 2] = [kind |-> "func", closure |-> Head(r), direct |-> FALSE]
  BY RunNextMoves
<1>2. n \in Nat /\ n + 1 = Len(frames[t])
  BY <1>1
<1>3. /\ r \in Seq(Closure) /\ r = Carried(t, n + 1) /\ Waits(t, n + 1)
      /\ Head(r) = r[1] /\ 1 \in DOMAIN r
      /\ \A i \in DOMAIN Tail(r) : i \in Nat /\ i + 1 \in DOMAIN r /\ Tail(r)[i] = r[i + 1]
                                   /\ i + 1 # 1 /\ i + 1 > 1
      /\ \A i \in DOMAIN r : i = 1 \/ (i - 1 \in DOMAIN Tail(r) /\ i - 1 \in Nat
                                       /\ Tail(r)[i - 1] = r[i])
      /\ Keeps(t, n, 2)
      /\ frames'[t][n + 1] = [kind |-> "sync_point", rest |-> Tail(r)]
      /\ frames'[t][n + 2] = [kind |-> "func", closure |-> Head(r), direct |-> FALSE]
  BY <1>1
<1>4. UNCHANGED <<tasks, active, main_thread_id, made, dropped, done>>
  BY DEF RunNext
<1>5. TypeOK'
  BY <1>3, <1>4 DEF IInv, TypeOK, Keeps, Frames
<1>6. /\ \A u \in Threads : \A d \in Nat \ {0} : d \in Spots(u)' =>
           \/ u = t /\ d \in (n + 1)..(n + 2)
           \/ /\ d \in Spots(u) /\ frames'[u][d] = frames[u][d]
              /\ Carried(u, d)' = Carried(u, d)
              /\ u = t => d <= n
      /\ \A u \in Threads : \A d \in Nat \ {0} : d \in Spots(u) =>
           \/ u = t /\ d > n
           \/ /\ d \in Spots(u)' /\ frames'[u][d] = frames[u][d]
              /\ Carried(u, d)' = Carried(u, d)
      /\ \A u \in Threads : 0 \in Spots(u)
      /\ \A u \in Threads : 0 \in Spots(u)'
      /\ Spots(t)' = 0..(n + 2)
  <2>1. 2 \in Nat
    OBVIOUS
  <2>2. TypeOK /\ Keeps(t, n, 2)
    BY <1>3 DEF IInv
  <2> QED BY ONLY <2>1, <2>2, t \in Threads, n \in Nat, KeptPlaces
<1>7. Spots(t) = 0..(n + 1) /\ \A u \in Threads : Spots(u) \subseteq Nat /\ Spots(u)' \subseteq Nat
  BY <1>1 DEF Spots
<1>8. /\ n + 1 \in Spots(t)' /\ n + 1 \in Spots(t)
      /\ n + 2 \in Spots(t)' /\ n + 2 \notin Spots(t)
      /\ n + 1 # 0 /\ n + 2 # 0 /\ n + 1 # n + 2 /\ n + 1 \in Nat /\ n + 2 \in Nat
      /\ 0 \in Nat /\ 1 \in Nat /\ \A i \in Nat : i + 1 \in Nat
  BY <1>6, <1>7
<1>9. /\ \A u \in Threads : Carried(u, 0)' = Carried(u, 0) /\ Carried(u, 0) = tasks[u]
      /\ Carried(t, n + 1)' = Tail(r)
      /\ Carried(t, n + 2)' = <<Head(r)>>
  <2>1. /\ CarriedBy([kind |-> "sync_point", rest |-> Tail(r)]) = Tail(r)
        /\ CarriedBy([kind |-> "func", closure |-> Head(r), direct |-> FALSE]) = <<Head(r)>>
    BY DEF CarriedBy
  <2> QED BY <1>3, <1>4, <1>8, <2>1 DEF Carried
<1>10. \A u \in Threads, d \in Nat : d \in Spots(u)' =>
         \/ u = t /\ d = n + 1
         \/ u = t /\ d = n + 2
         \/ /\ d \in Spots(u) /\ Carried(u, d)' = Carried(u, d) /\ ~(u = t /\ d = n + 1)
            /\ d # 0 => frames'[u][d] = frames[u][d]
  BY <1>6, <1>8, <1>9
<1>11. \A u \in Threads, d \in Nat : d \in Spots(u) =>
         \/ u = t /\ d = n + 1
         \/ d \in Spots(u)' /\ Carried(u, d)' = Carried(u, d) /\ ~(u = t /\ d = n + 2)
  BY <1>6, <1>7, <1>8, <1>9
<1>12. PICK c : c = Head(r)
  OBVIOUS
<1>13. c = r[1] /\ DOMAIN <<c>> = {1} /\ <<c>>[1] = c
  BY <1>3, <1>12
<1>14. PICK q : q = Tail(r)
  OBVIOUS
<1>15. /\ r = Carried(t, n + 1) /\ q = Carried(t, n + 1)' /\ <<c>> = Carried(t, n + 2)'
       /\ \A i \in DOMAIN q : i \in Nat /\ i + 1 \in DOMAIN r /\ q[i] = r[i + 1]
                              /\ i + 1 # 1 /\ i + 1 > 1
       /\ \A i \in DOMAIN r : i = 1 \/ (i - 1 \in DOMAIN q /\ i - 1 \in Nat /\ q[i - 1] = r[i])
  BY <1>3, <1>9, <1>12, <1>14
<1> HIDE DEF Carried, Spots
<1>16. TagInv'
  <2>1. \A h \in Tags, u \in Threads, d \in Nat, i \in Nat : Has(u, d, i, h)' =>
          \/ u = t /\ d = n + 1 /\ Has(t, n + 1, i + 1, h) /\ i + 1 # 1
          \/ u = t /\ d = n + 2 /\ i = 1 /\ Has(t, n + 1, 1, h)
          \/ ~(u = t /\ d \in {n + 1, n + 2}) /\ Has(u, d, i, h)
    <3> SUFFICES ASSUME NEW h \in Tags, NEW u \in Threads, NEW d \in Nat, NEW i \in Nat,
                        Has(u, d, i, h)'
                 PROVE  \/ u = t /\ d = n + 1 /\ Has(t, n + 1, i + 1, h) /\ i + 1 # 1
                        \/ u = t /\ d = n + 2 /\ i = 1 /\ Has(t, n + 1, 1, h)
                        \/ ~(u = t /\ d \in {n + 1, n + 2}) /\ Has(u, d, i, h)
      OBVIOUS
    <3>1. CASE u = t /\ d = n + 1
      BY <1>8, <1>15, <3>1 DEF Has
    <3>2. CASE u = t /\ d = n + 2
      BY <1>3, <1>8, <1>13, <1>15, <3>2 DEF Has
    <3>3. CASE ~(u = t /\ d \in {n + 1, n + 2})
      BY <1>10, <3>3 DEF Has
    <3> QED BY <3>1, <3>2, <3>3
  <2>2. \A h \in Tags, u \in Threads, d \in Nat, i \in Nat : Has(u, d, i, h) =>
          \/ \E j \in Nat : Has(t, n + 1, j, h)'
          \/ Has(t, n + 2, 1, h)'
          \/ Has(u, d, i, h)'
    <3> SUFFICES ASSUME NEW h \in Tags, NEW u \in Threads, NEW d \in Nat, NEW i \in Nat,
                        Has(u, d, i, h)
                 PROVE  \/ \E j \in Nat : Has(t, n + 1, j, h)'
                        \/ Has(t, n + 2, 1, h)'
                        \/ Has(u, d, i, h)'
      OBVIOUS
    <3>1. CASE u = t /\ d = n + 1 /\ i = 1
      BY <1>8, <1>13, <1>15, <3>1 DEF Has
    <3>2. CASE u = t /\ d = n + 1 /\ i # 1
      <4>1. i - 1 \in DOMAIN q /\ i - 1 \in Nat /\ q[i - 1] = r[i]
        BY <1>15, <3>2 DEF Has
      <4> QED BY <1>8, <1>15, <3>2, <4>1 DEF Has
    <3>3. CASE ~(u = t /\ d = n + 1)
      BY <1>11, <3>3 DEF Has
    <3> QED BY <3>1, <3>2, <3>3
  <2>3. TakenIsHeld'
    BY <1>4, <1>8, <2>2 DEF IInv, TagInv, TakenIsHeld
  <2>4. HeldIsTaken'
    BY <1>4, <1>8, <2>1 DEF IInv, TagInv, HeldIsTaken
  <2>5. HeldOnce'
    <3> SUFFICES ASSUME NEW h \in Tags \ SelfTags, NEW u \in Threads, NEW v \in Threads,
                        NEW d \in Nat, NEW i \in Nat, NEW e \in Nat, NEW j \in Nat,
                        Has(u, d, i, h)', Has(v, e, j, h)'
                 PROVE  u = v /\ d = e /\ i = j
      BY DEF HeldOnce
    <3>1. \A a, b \in Threads : \A k, l, x, y \in Nat :
            Has(a, k, l, h) /\ Has(b, x, y, h) => a = b /\ k = x /\ l = y
      BY DEF IInv, TagInv, HeldOnce
    <3>2. i + 1 = j + 1 => i = j
      OBVIOUS
    <3> QED BY <1>8, <2>1, <3>1, <3>2
  <2>6. \A d \in (n + 1)..(n + 2) :
          frames'[t][d].kind = "func" /\ frames'[t][d].direct =>
            frames'[t][d].closure.tag \in SelfTags \cup {NoTag}
    <3>1. \A d \in (n + 1)..(n + 2) : d = n + 1 \/ d = n + 2
      OBVIOUS
    <3>2. frames'[t][n + 1].kind # "func" /\ ~frames'[t][n + 2].direct
      BY <1>3
    <3> QED BY <3>1, <3>2
  <2>7. 2 \in Nat
    OBVIOUS
  <2>8. DirectIsOwn'
    BY <1>3, <2>6, <2>7, DirectStay DEF IInv, TagInv
  <2> QED BY <2>3, <2>4, <2>5, <2>8 DEF TagInv
<1>17. /\ PushIsOnTop'
       /\ \A v \in Threads : IsIn(v, "push")' => IsIn(v, "push") /\ Top(v)' = Top(v)
  <2>1. \A d \in 1..n : frames[t][d].kind # "push"
    <3>1. frames[t] # <<>>
      BY DEF RunNext, IsIn
    <3>2. DOMAIN frames[t] = 1..(n + 1) /\ \A d \in 1..n : d \in 1..(n + 1) /\ d # n + 1
      BY <1>1, <3>1, TopFrame DEF IInv
    <3> QED BY <1>1, <3>2 DEF IInv, OrderInv, PushIsOnTop
  <2>2. \A d \in (n + 1)..(n + 2) : frames'[t][d].kind # "push"
    <3>1. \A d \in (n + 1)..(n + 2) : d = n + 1 \/ d = n + 2
      OBVIOUS
    <3>2. frames'[t][n + 1].kind # "push" /\ frames'[t][n + 2].kind # "push"
      BY <1>3
    <3> QED BY <3>1, <3>2
  <2>3. 2 \in Nat
    OBVIOUS
  <2> QED BY <1>3, <2>1, <2>2, <2>3, PushesStay
<1>18. \A u \in Threads, d \in Nat : d \in Spots(u)' =>
         \A i \in DOMAIN Carried(u, d)' :
           \/ Carried(u, d)'[i].req = made'
           \/ \E e \in Spots(u) : \E j \in DOMAIN Carried(u, e) :
                Carried(u, d)'[i] = Carried(u, e)[j]
  <2> SUFFICES ASSUME NEW u \in Threads, NEW d \in Nat, d \in Spots(u)',
                      NEW i \in DOMAIN Carried(u, d)'
               PROVE  \E e \in Spots(u) : \E j \in DOMAIN Carried(u, e) :
                        Carried(u, d)'[i] = Carried(u, e)[j]
    OBVIOUS
  <2>1. CASE u = t /\ d = n + 1
    BY <1>8, <1>15, <2>1
  <2>2. CASE u = t /\ d = n + 2
    BY <1>3, <1>8, <1>13, <1>15, <2>2
  <2>3. CASE ~(u = t /\ d \in {n + 1, n + 2})
    BY <1>10, <2>3
  <2> QED BY <2>1, <2>2, <2>3
<1>19. InOrder(r)
  BY <1>3, <1>8 DEF IInv, OrderInv, PlacesInOrder
<1>20. InOrder(q)
  <2> SUFFICES ASSUME NEW i \in DOMAIN q, NEW j \in DOMAIN q, i < j
               PROVE  Older(q[i], q[j])
    BY DEF InOrder
  <2>1. i + 1 \in DOMAIN r /\ j + 1 \in DOMAIN r /\ i + 1 < j + 1
    BY <1>15
  <2> QED BY <1>15, <1>19, <2>1 DEF InOrder
<1>21. \A u \in Threads, d \in Nat : Waits(u, d)' =>
         /\ Waits(u, d) /\ InOrder(Carried(u, d))'
         /\ \A i \in DOMAIN Carried(u, d)' : \E j \in DOMAIN Carried(u, d) :
              Carried(u, d)'[i] = Carried(u, d)[j]
  <2> SUFFICES ASSUME NEW u \in Threads, NEW d \in Nat, Waits(u, d)'
               PROVE  /\ Waits(u, d) /\ InOrder(Carried(u, d))'
                      /\ \A i \in DOMAIN Carried(u, d)' : \E j \in DOMAIN Carried(u, d) :
                           Carried(u, d)'[i] = Carried(u, d)[j]
    OBVIOUS
  <2>1. d \in Spots(u)' /\ (d = 0 \/ frames'[u][d].kind = "sync_point")
    BY DEF Waits
  <2>2. CASE u = t /\ d = n + 1
    BY <1>3, <1>15, <1>20, <2>2 DEF InOrder
  <2>3. CASE u = t /\ d = n + 2
    BY <1>3, <1>8, <2>1, <2>3
  <2>4. CASE ~(u = t /\ d \in {n + 1, n + 2})
    <3>1. Waits(u, d) /\ Carried(u, d)' = Carried(u, d)
      BY <1>10, <2>1, <2>4 DEF Waits
    <3> QED BY <3>1 DEF IInv, OrderInv, PlacesInOrder, InOrder
  <2> QED BY <2>2, <2>3, <2>4
<1>22. made \in Nat
  BY BoundsAssumption DEF IInv, TypeOK
<1>23. OrderInv'
  BY <1>4, <1>17, <1>18, <1>21, <1>22, OrderNarrows
<1> QED BY <1>5, <1>16, <1>23 DEF IInv

-----------------------------------------------------------------------------
(* The specification.                                                       *)

LEMMA InitHolds == Init => IInv
<1> SUFFICES ASSUME Init PROVE IInv
  OBVIOUS
<1>1. TypeOK
  <2>1. <<>> \in Seq(Closure) /\ <<>> \in Seq(PointFrames \cup FuncFrames \cup PushFrames)
    OBVIOUS
  <2> QED BY <2>1, BoundsAssumption DEF Init, TypeOK
<1>2. \A t \in Threads : Spots(t) = {0} /\ Carried(t, 0) = <<>> /\ DOMAIN frames[t] = {}
                         /\ frames[t] = <<>>
  <2>1. Len(<<>>) = 0 /\ 0..0 = {0} /\ DOMAIN <<>> = {}
    OBVIOUS
  <2> QED BY <2>1 DEF Init, Spots, Carried
<1>3. DOMAIN <<>> = {}
  OBVIOUS
<1>4. TagInv
  <2>1. TakenIsHeld
    BY DEF Init, TakenIsHeld
  <2>2. HeldIsTaken /\ HeldOnce
    BY <1>2, <1>3 DEF HeldIsTaken, HeldOnce, Has
  <2>3. DirectIsOwn
    BY <1>2 DEF DirectIsOwn
  <2> QED BY <2>1, <2>2, <2>3 DEF TagInv
<1>5. OrderInv
  <2>1. PushIsOnTop
    BY <1>2 DEF PushIsOnTop
  <2>2. NumbersGiven
    BY <1>2, <1>3 DEF NumbersGiven
  <2>3. PlacesInOrder /\ BatchBeforeQueue
    BY <1>2, <1>3 DEF PlacesInOrder, BatchBeforeQueue, Waits, InOrder
  <2>4. PushIsLatest
    BY <1>2 DEF PushIsLatest, IsIn
  <2>5. OuterBeforeInner
    BY <1>2 DEF OuterBeforeInner, Waits
  <2> QED BY <2>1, <2>2, <2>3, <2>4, <2>5 DEF OrderInv
<1> QED BY <1>1, <1>4, <1>5 DEF IInv

\* A tagged request is suppressed or goes on its way.
LEMMA ExchangeKeeps ==
  ASSUME IInv, NEW t \in Threads, NEW g \in Tags, NEW target \in Threads, Exchange(t, g, target)
  PROVE  IInv'
<1>1. Ask(t) /\ UNCHANGED <<tasks, main_thread_id, done>>
  BY DEF Exchange
<1>2. CASE active[g] /\ dropped' = dropped \cup {made + 1} /\ UNCHANGED <<active, frames>>
  <2>1. /\ made \in Nat /\ made' = made + 1 /\ made' \in 0..MaxRequests
    BY <1>1, NewClosureIsOne DEF IInv
  <2>2. made + 1 \in Requests
    BY <2>1, BoundsAssumption DEF Requests
  <2>3. TypeOK'
    BY <1>1, <1>2, <2>1, <2>2 DEF IInv, TypeOK
  <2>4. made' \in Nat /\ made' >= made
    BY <2>1
  <2> QED BY <1>1, <1>2, <2>3, <2>4, NothingMoves
<1>3. CASE /\ ~active[g] /\ active' = [active EXCEPT ![g] = TRUE]
           /\ Enter(t, [kind |-> "push", closure |-> NewClosure(t, g), target |-> target])
           /\ UNCHANGED dropped
  BY <1>1, <1>3, EnterPush
<1> QED BY <1>2, <1>3 DEF Exchange

LEMMA SyncToKeeps ==
  ASSUME IInv, NEW t \in Threads, NEW target \in Threads, SyncTo(t, target)
  PROVE  IInv'
<1>1. CASE /\ Ask(t) /\ Queue(target, NewClosure(t, NoTag))
           /\ UNCHANGED <<active, main_thread_id, frames, dropped, done>>
  BY <1>1, QueueNew
<1>2. CASE Shortcut(t, NoTag)
  BY <1>2, EnterDirect
<1> QED BY <1>1, <1>2 DEF SyncTo

LEMMA UserCallKeeps ==
  ASSUME IInv, NEW t \in Threads, UserCall(t)
  PROVE  IInv'
<1>1. CASE SetMainThreadId(t)
  <2>1. TypeOK'
    BY <1>1 DEF SetMainThreadId, IInv, TypeOK
  <2>2. made' \in Nat /\ made' >= made
    BY <1>1, BoundsAssumption DEF SetMainThreadId, IInv, TypeOK
  <2> QED BY <1>1, <2>1, <2>2, NothingMoves DEF SetMainThreadId
<1>2. CASE Delay(t)
  BY <1>2, QueueNew DEF Delay
<1>3. CASE SyncMain(t)
  <2>1. main_thread_id \in Threads /\ SyncTo(t, main_thread_id)
    BY <1>3 DEF SyncMain, IInv, TypeOK
  <2> QED BY <2>1, SyncToKeeps
<1>4. CASE \E target \in Threads : SyncTo(t, target)
  BY <1>4, SyncToKeeps
<1>5. CASE \E g \in Tags : DelayOnce(t, g)
  BY <1>5, ExchangeKeeps DEF DelayOnce
<1>6. CASE \E g \in Tags : SyncMainOnce(t, g)
  <2>1. PICK g \in Tags : SyncMainOnce(t, g)
    BY <1>6
  <2>2. main_thread_id \in Threads /\ Exchange(t, g, main_thread_id)
    BY <2>1 DEF SyncMainOnce, SyncOnceElsewhere, IInv, TypeOK
  <2> QED BY <2>2, ExchangeKeeps
<1>7. CASE \E g \in Tags, target \in Threads : SyncOnceElsewhere(t, g, target)
  BY <1>7, ExchangeKeeps DEF SyncOnceElsewhere
<1>8. CASE \E g \in SelfTags : SyncOnceHere(t, g) \/ SyncMainOnceHere(t, g)
  BY <1>8, EnterDirect DEF SyncOnceHere, SyncMainOnceHere
<1> QED BY <1>1, <1>2, <1>3, <1>4, <1>5, <1>6, <1>7, <1>8 DEF UserCall

LEMMA StepKeeps == IInv /\ [Next]_vars => IInv'
<1> SUFFICES ASSUME IInv, [Next]_vars PROVE IInv'
  OBVIOUS
<1>1. CASE UNCHANGED vars
  <2>1. TypeOK'
    BY <1>1 DEF vars, IInv, TypeOK
  <2>2. made' \in Nat /\ made' >= made
    BY <1>1, BoundsAssumption DEF vars, IInv, TypeOK
  <2> QED BY <1>1, <2>1, <2>2, NothingMoves DEF vars
<1>2. ASSUME NEW t \in Threads, UserCall(t) PROVE IInv'
  BY <1>2, UserCallKeeps
<1>3. ASSUME NEW t \in Threads, SyncPoint(t) PROVE IInv'
  BY <1>3, SyncPointKeeps
<1>4. ASSUME NEW t \in Threads, Progress(t) PROVE IInv'
  BY <1>4, PushKeeps, RunNextKeeps, SyncPointReturnKeeps DEF Progress
<1>5. ASSUME NEW t \in Threads, FuncEnd(t) PROVE IInv'
  BY <1>5, FuncEndKeeps
<1> QED BY <1>1, <1>2, <1>3, <1>4, <1>5 DEF Next

LEMMA Invariance == Spec => []IInv
BY InitHolds, StepKeeps, PTL DEF Spec, Safety

\* Nothing is ever queued for the default thread id, stacks hold frames, and
\* requests are numbered up to the bound.
THEOREM TypeCorrect == Spec => []TypeOK
<1>1. IInv => TypeOK
  BY DEF IInv
<1> QED BY <1>1, Invariance, PTL

LEMMA OutstandingAreHad ==
  ASSUME IInv, NEW g \in Tags
  PROVE  /\ \A t \in Threads, d \in Nat, i \in Nat : Has(t, d, i, g) => <<t, d, i>> \in Outstanding(g)
         /\ \A x \in Outstanding(g) : \E t \in Threads, d \in Nat, i \in Nat :
              x = <<t, d, i>> /\ Has(t, d, i, g)
<1>1. \A t \in Threads, d \in Nat, i \in Nat : Has(t, d, i, g) => <<t, d, i>> \in Outstanding(g)
  BY DEF Has, Outstanding, Spots
<1>2. ASSUME NEW x \in Outstanding(g)
      PROVE  \E t \in Threads, d \in Nat, i \in Nat : x = <<t, d, i>> /\ Has(t, d, i, g)
  <2>1. PICK t \in Threads :
          \E d \in Spots(t) : \E i \in DOMAIN Carried(t, d) :
            Carried(t, d)[i].tag = g /\ x = <<t, d, i>>
    BY DEF Outstanding, Spots
  <2>2. PICK d \in Spots(t) : \E i \in DOMAIN Carried(t, d) :
          Carried(t, d)[i].tag = g /\ x = <<t, d, i>>
    BY <2>1
  <2>3. PICK i \in DOMAIN Carried(t, d) : Carried(t, d)[i].tag = g /\ x = <<t, d, i>>
    BY <2>2
  <2>4. d \in Nat /\ i \in Nat
    BY CarriedClosures DEF Spots, IInv
  <2> QED BY <2>3, <2>4 DEF Has
<1> QED BY <1>1, <1>2

\* A tag is taken only while a function of it is on its way, and one that no
\* thread uses to call itself exactly while one is.
THEOREM TagsAreTracked == Spec => []TagTracksClosure
<1>1. ASSUME IInv PROVE TagTracksClosure
  <2>1. ASSUME NEW g \in Tags, active[g] PROVE Outstanding(g) # {}
    <3>1. PICK t \in Threads, d \in Nat, i \in Nat : Has(t, d, i, g)
      BY <1>1, <2>1 DEF IInv, TagInv, TakenIsHeld
    <3> QED BY <1>1, <3>1, OutstandingAreHad
  <2>2. ASSUME NEW g \in Tags \ SelfTags
        PROVE  Cardinality(Outstanding(g)) = IF active[g] THEN 1 ELSE 0
    <3>1. CASE ~active[g]
      <4>1. Outstanding(g) = {}
        BY <1>1, <3>1, OutstandingAreHad DEF IInv, TagInv, HeldIsTaken
      <4> QED BY <3>1, <4>1, FS_EmptySet
    <3>2. CASE active[g]
      <4>1. PICK x : x \in Outstanding(g)
        BY <2>1, <3>2
      <4>2. ASSUME NEW y \in Outstanding(g) PROVE y = x
        <5>1. PICK t \in Threads, d \in Nat, i \in Nat : x = <<t, d, i>> /\ Has(t, d, i, g)
          BY <1>1, <4>1, OutstandingAreHad
        <5>2. PICK u \in Threads, e \in Nat, j \in Nat : y = <<u, e, j>> /\ Has(u, e, j, g)
          BY <1>1, <4>2, OutstandingAreHad
        <5>3. t = u /\ d = e /\ i = j
          BY <1>1, <5>1, <5>2 DEF IInv, TagInv, HeldOnce
        <5> QED BY <5>1, <5>2, <5>3
      <4>3. Outstanding(g) = {x}
        BY <4>1, <4>2
      <4> QED BY <3>2, <4>3, FS_Singleton
    <3> QED BY <3>1, <3>2 DEF IInv, TypeOK
  <2> QED BY <2>1, <2>2 DEF TagTracksClosure
<1> QED BY <1>1, Invariance, PTL

\* Only sync_point puts a frame on a frame of its own.
LEMMA GrowsByRunNext ==
  ASSUME IInv, [Next]_vars, NEW t \in Threads, IsIn(t, "sync_point"),
         Len(frames'[t]) > Len(frames[t])
  PROVE  RunNext(t)
<1>1. Len(frames[t]) \in Nat /\ frames'[t] # frames[t]
  <2>1. Len(frames[t]) \in Nat
    BY FramesAreFrames DEF IInv
  <2> QED BY <2>1
<1>2. frames # frames'
  BY <1>1
<1>3. ~CanCall(t)
  BY DEF CanCall, IsIn
<1>4. PICK u \in Threads : UserCall(u) \/ SyncPoint(u) \/ Progress(u) \/ FuncEnd(u)
  BY <1>2 DEF Next, vars
<1>5. \/ \E f : Enter(u, f) /\ CanCall(u)
      \/ Leave(u) /\ frames[u] # <<>>
      \/ RunNext(u)
  <2>1. CASE UserCall(u)
    BY <1>2, <2>1 DEF UserCall, SetMainThreadId, Delay, SyncMain, SyncTo, DelayOnce, SyncMainOnce,
      SyncOnceElsewhere, SyncOnceHere, SyncMainOnceHere, Exchange, Shortcut, Ask
  <2>2. CASE SyncPoint(u)
    BY <2>2 DEF SyncPoint
  <2>3. CASE Progress(u)
    BY <2>3 DEF Progress, Push, SyncPointReturn, IsIn
  <2>4. CASE FuncEnd(u)
    BY <2>4 DEF FuncEnd, FuncReturn, FuncThrow, IsIn
  <2> QED BY <1>4, <2>1, <2>2, <2>3, <2>4
<1>6. u = t
  <2>1. CASE u # t
    BY <1>1, <1>5, <2>1 DEF Enter, Leave, RunNext, IInv, TypeOK
  <2> QED BY <2>1
<1>7. ~(Leave(t) /\ frames[t] # <<>>)
  <2> SUFFICES ASSUME Leave(t), frames[t] # <<>> PROVE FALSE
    OBVIOUS
  <2>1. Len(frames'[t]) = Len(frames[t]) - 1 + 0
    BY LeaveKeeps DEF Keeps, IInv
  <2> QED BY <1>1, <2>1
<1> QED BY <1>3, <1>5, <1>6, <1>7

\* What one thread asks of another is started in the order it was asked, unless
\* sync_point is nested: the inner one overtakes what the outer ones have still
\* to run, all of which is older.
THEOREM StartedInOrder == Spec => OrderUnlessNested
<1> DEFINE Start(t) ==
             IsIn(t, "sync_point") /\ Len(frames'[t]) > Len(frames[t]) =>
               LET started == Last(frames'[t]).closure
                   batch   == frames'[t][Len(frames[t])].rest
               IN /\ \A c \in Range(batch \o tasks'[t]) :
                       c.from = started.from => c.req > started.req
                  /\ \A c \in OuterBatches(t) :
                       c.from = started.from => c.req < started.req
<1>1. ASSUME IInv, [Next]_vars PROVE [\A t \in Threads : Start(t)]_vars
  <2> SUFFICES ASSUME NEW t \in Threads, IsIn(t, "sync_point"),
                      Len(frames'[t]) > Len(frames[t])
               PROVE  /\ \A c \in Range(frames'[t][Len(frames[t])].rest \o tasks'[t]) :
                           c.from = Last(frames'[t]).closure.from =>
                             c.req > Last(frames'[t]).closure.req
                      /\ \A c \in OuterBatches(t) :
                           c.from = Last(frames'[t]).closure.from =>
                             c.req < Last(frames'[t]).closure.req
    OBVIOUS
  <2>1. RunNext(t)
    BY <1>1, GrowsByRunNext
  <2>2. PICK n \in Nat, r \in Seq(Closure) :
          /\ n + 1 = Len(frames[t]) /\ r = Top(t).rest
          /\ r = Carried(t, n + 1) /\ Waits(t, n + 1)
          /\ Head(r) = r[1] /\ 1 \in DOMAIN r
          /\ Tail(r) \in Seq(Closure)
          /\ \A i \in DOMAIN Tail(r) : i \in Nat /\ i + 1 \in DOMAIN r /\ Tail(r)[i] = r[i + 1]
                                       /\ i + 1 # 1 /\ i + 1 > 1
          /\ \A i \in DOMAIN r : i = 1 \/ (i - 1 \in DOMAIN Tail(r) /\ i - 1 \in Nat
                                           /\ Tail(r)[i - 1] = r[i])
          /\ Keeps(t, n, 2)
          /\ frames'[t][n + 1] = [kind |-> "sync_point", rest |-> Tail(r)]
          /\ frames'[t][n + 2] = [kind |-> "func", closure |-> Head(r), direct |-> FALSE]
    BY <1>1, <2>1, RunNextMoves
  <2>3. n \in Nat /\ n + 1 = Len(frames[t])
    BY <2>2
  <2>4. /\ r \in Seq(Closure) /\ r = Carried(t, n + 1) /\ Waits(t, n + 1)
        /\ Head(r) = r[1] /\ 1 \in DOMAIN r
        /\ Tail(r) \in Seq(Closure)
        /\ \A i \in DOMAIN Tail(r) : i \in Nat /\ i + 1 \in DOMAIN r /\ Tail(r)[i] = r[i + 1]
                                     /\ i + 1 # 1 /\ i + 1 > 1
        /\ Keeps(t, n, 2)
        /\ frames'[t][n + 1] = [kind |-> "sync_point", rest |-> Tail(r)]
        /\ frames'[t][n + 2] = [kind |-> "func", closure |-> Head(r), direct |-> FALSE]
    BY <2>2
  <2>5. tasks' = tasks /\ tasks[t] \in Seq(Closure)
    BY <1>1, <2>1 DEF RunNext, IInv, TypeOK
  <2>6. /\ Last(frames'[t]).closure = r[1]
        /\ frames'[t][Len(frames[t])].rest = Tail(r)
    BY <2>2, <2>4 DEF Last, Keeps
  <2>7. PICK q \in Seq(Closure) : q = Tail(r)
    BY <2>4
  <2>8. /\ Len(q) \in Nat /\ DOMAIN q = 1..Len(q)
        /\ Len(tasks[t]) \in Nat /\ DOMAIN tasks[t] = 1..Len(tasks[t])
        /\ q \o tasks[t] \in Seq(Closure) /\ Len(q \o tasks[t]) = Len(q) + Len(tasks[t])
        /\ \A i \in 1..(Len(q) + Len(tasks[t])) :
             (q \o tasks[t])[i] = IF i <= Len(q) THEN q[i] ELSE tasks[t][i - Len(q)]
    <3>1. /\ Len(q) \in Nat /\ DOMAIN q = 1..Len(q)
          /\ Len(tasks[t]) \in Nat /\ DOMAIN tasks[t] = 1..Len(tasks[t])
      BY <2>5, <2>7, LenProperties
    <3> QED BY ONLY <2>5, <2>7, <3>1, ConcatProperties
  <2>9. n + 1 \in Nat \ {0}
    OBVIOUS
  <2>10. r[1] \in Closure /\ r[1].req \in Int
    <3>1. r[1] \in Closure
      BY <2>4, ElementOfSeq, LenProperties
    <3> QED BY <3>1, BoundsAssumption DEF Closure, Requests
  <2>11. ASSUME NEW c \in Range(q \o tasks[t]), c.from = r[1].from
         PROVE  c.req > r[1].req
    <3>1. PICK i \in 1..(Len(q) + Len(tasks[t])) : c = (q \o tasks[t])[i]
      <4>1. DOMAIN (q \o tasks[t]) = 1..(Len(q) + Len(tasks[t]))
        BY <2>8, LenProperties
      <4> QED BY <2>11, <4>1 DEF Range
    <3>2. CASE i <= Len(q)
      <4>1. i \in DOMAIN q /\ c = q[i]
        BY <2>8, <3>1, <3>2
      <4>2. i + 1 \in DOMAIN r /\ c = r[i + 1] /\ 1 < i + 1
        BY <2>4, <2>7, <4>1
      <4>3. InOrder(r)
        BY <1>1, <2>4, <2>9 DEF IInv, OrderInv, PlacesInOrder
      <4>4. Older(r[1], c) /\ c \in Closure
        BY <2>4, <4>1, <4>2, <4>3, <2>7, ElementOfSeq, LenProperties DEF InOrder
      <4>5. c.req \in Int
        BY <4>4, BoundsAssumption DEF Closure, Requests
      <4> QED BY <2>10, <2>11, <4>4, <4>5 DEF Older
    <3>3. CASE ~(i <= Len(q))
      <4>1. i - Len(q) \in DOMAIN tasks[t] /\ c = tasks[t][i - Len(q)]
        BY <2>8, <3>1, <3>3
      <4>2. Older(r[1], c)
        BY <1>1, <2>4, <2>9, <4>1 DEF IInv, OrderInv, BatchBeforeQueue
      <4>3. c \in Closure
        BY <2>5, <4>1, ElementOfSeq, LenProperties
      <4>4. c.req \in Int
        BY <4>3, BoundsAssumption DEF Closure, Requests
      <4> QED BY <2>10, <2>11, <4>2, <4>4 DEF Older
    <3> QED BY <3>2, <3>3
  <2>12. ASSUME NEW c \in OuterBatches(t), c.from = r[1].from
         PROVE  c.req < r[1].req
    <3>1. PICK d \in 1..(Len(frames[t]) - 1) :
            frames[t][d].kind = "sync_point" /\ c \in Range(Carried(t, d))
      BY DEF OuterBatches
    <3>2. PICK i \in DOMAIN Carried(t, d) : c = Carried(t, d)[i]
      BY <3>1 DEF Range
    <3>3. d \in Nat \ {0} /\ d < n + 1 /\ Waits(t, d)
      BY <2>3, <3>1 DEF Waits, Spots
    <3>4. Older(c, r[1])
      BY <1>1, <2>4, <2>9, <3>2, <3>3 DEF IInv, OrderInv, OuterBeforeInner
    <3> QED BY <2>12, <3>4 DEF Older
  <2> QED BY <2>5, <2>6, <2>7, <2>11, <2>12
<1> QED BY <1>1, Invariance, PTL DEF Spec, Safety, OrderUnlessNested

=============================================================================
