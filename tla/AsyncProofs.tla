------------------------------ MODULE AsyncProofs ------------------------------
(***************************************************************************)
(* What TLAPS proves of Async, for any threads, functions and coroutines,   *)
(* whatever they await and who calls them: the type invariant, that a       *)
(* future that is not ready has exactly one function or coroutine that will *)
(* make it so, and that the outcome of a coroutine follows from those of    *)
(* what it awaits.                                                          *)
(***************************************************************************)
EXTENDS Async, FiniteSetTheorems, SequenceTheorems, TLAPS

-----------------------------------------------------------------------------
(* The places where a promise can be, in one line or another.               *)

Spots == Threads \cup {Pool}
Kinds == {"jobs", "stack", "tasks", "batch"}

IsLine(t, k) ==
  \/ k = "jobs" /\ t = Pool
  \/ k = "stack" /\ t \in Threads
  \/ k \in {"tasks", "batch"} /\ t \in Clients

Line(t, k) ==
  IF k = "jobs" THEN jobs
  ELSE IF k = "stack" THEN stack[t]
  ELSE IF k = "tasks" THEN tasks[t] ELSE batch[t]

Has(t, k, i, p) == IsLine(t, k) /\ i \in DOMAIN Line(t, k) /\ Line(t, k)[i] = p

-----------------------------------------------------------------------------
(* The inductive invariant.                                                 *)

PendingIsHeld ==
  \A p \in Promises : future[p] = "pending" =>
    \E t \in Spots, k \in Kinds, i \in Nat : Has(t, k, i, p)

HeldOnce ==
  \A p \in Promises, t \in Spots, u \in Spots, k \in Kinds, l \in Kinds, i \in Nat, j \in Nat :
    Has(t, k, i, p) /\ Has(u, l, j, p) => t = u /\ k = l /\ i = j

\* A function with a tag is still there when its future is ready.
HeldIsPending ==
  \A p \in Promises, t \in Spots, k \in Kinds, i \in Nat : Has(t, k, i, p) =>
    \/ future[p] = "pending"
    \/ Ready(p) /\ p \in Functions /\ TagOf[p] # NoTag /\ k = "stack"

\* Functions make no calls.
FunctionsOnTop ==
  \A x \in Functions, t \in Spots, i \in Nat :
    Has(t, "stack", i, x) => i = Len(stack[t])

\* A coroutine is suspended while it is queued, and only then.
QueuedIsSuspended ==
  \A c \in Coroutines, t \in Spots, k \in Kinds, i \in Nat : Has(t, k, i, c) =>
    IF k = "stack" THEN phase[c] \in {"call", "await", "resumed"} ELSE phase[c] = "suspended"

CoSyncOnPollers ==
  \A c \in CoSync, t \in Spots, k \in Kinds, i \in Nat : Has(t, k, i, c) => t \in Pollers

\* The function has a tag that it has taken when it was queued.
OwnsTag(x) == TagOf[x] \notin SelfTags \cup {NoTag}

TagsTaken ==
  \A x \in Functions, t \in Spots, k \in Kinds, i \in Nat :
    Has(t, k, i, x) /\ OwnsTag(x) => active[TagOf[x]]

TagsOnce ==
  \A x \in Functions, y \in Functions, t \in Spots, u \in Spots, k \in Kinds, l \in Kinds,
     i \in Nat, j \in Nat :
    Has(t, k, i, x) /\ Has(u, l, j, y) /\ TagOf[x] = TagOf[y] /\ OwnsTag(x) => x = y

PlaceInv ==
  /\ PendingIsHeld /\ HeldOnce /\ HeldIsPending
  /\ FunctionsOnTop /\ QueuedIsSuspended /\ CoSyncOnPollers
  /\ TagsTaken /\ TagsOnce

\* The coroutine has yet to call number i of its body.
Uncalled(c, i) == i > pos[c] \/ (i = pos[c] /\ phase[c] \in {"none", "call"})

NotYetCalled ==
  /\ \A t \in Clients : \A i \in DOMAIN Owned[t] : i >= next[t] => future[Owned[t][i]] = "none"
  /\ \A c \in Coroutines : \A i \in DOMAIN Body[c] : Uncalled(c, i) => future[Body[c][i]] = "none"

\* How far a coroutine is, what it has awaited and what became of it.
Goes(c) ==
  /\ phase[c] = "none" <=> future[c] = "none"
  /\ phase[c] = "done" <=> future[c] \in {"value", "exception"}
  /\ future[c] # "broken"
  /\ phase[c] = "none" => pos[c] = 1
  /\ phase[c] \in {"await", "suspended", "resumed"} => pos[c] \in DOMAIN Body[c]
  /\ \A i \in DOMAIN Body[c] : i < pos[c] => future[Body[c][i]] = "value"
  /\ future[c] = "value" => pos[c] > Len(Body[c])
  /\ future[c] = "exception" =>
       pos[c] \in DOMAIN Body[c] /\ future[Body[c][pos[c]]] \in {"exception", "broken"}

CoroutinesGo == \A c \in Coroutines : Goes(c)

IInv == TypeOK /\ PlaceInv /\ NotYetCalled /\ CoroutinesGo

-----------------------------------------------------------------------------
(* Sequences.                                                               *)

LEMMA AppendFacts ==
  ASSUME NEW S, NEW s \in Seq(S), NEW x \in S
  PROVE  /\ Append(s, x) \in Seq(S) /\ Len(s) \in Nat /\ DOMAIN s = 1..Len(s)
         /\ DOMAIN Append(s, x) = 1..(Len(s) + 1) /\ Len(Append(s, x)) = Len(s) + 1
         /\ \A i \in 1..Len(s) : Append(s, x)[i] = s[i]
         /\ Append(s, x)[Len(s) + 1] = x
<1>1. /\ Append(s, x) \in Seq(S) /\ Len(s) \in Nat /\ DOMAIN s = 1..Len(s)
      /\ Len(Append(s, x)) = Len(s) + 1
      /\ \A i \in 1..Len(s) : Append(s, x)[i] = s[i]
      /\ Append(s, x)[Len(s) + 1] = x
  BY AppendProperties, LenProperties
<1>2. DOMAIN Append(s, x) = 1..(Len(s) + 1)
  BY <1>1, LenProperties
<1> QED BY <1>1, <1>2

LEMMA FrontFacts ==
  ASSUME NEW S, NEW s \in Seq(S), s # <<>>
  PROVE  /\ Len(s) \in Nat \ {0} /\ DOMAIN s = 1..Len(s)
         /\ Front(s) \in Seq(S) /\ Len(Front(s)) = Len(s) - 1
         /\ DOMAIN Front(s) = 1..(Len(s) - 1)
         /\ \A i \in 1..(Len(s) - 1) : Front(s)[i] = s[i]
         /\ Last(s) = s[Len(s)] /\ Last(s) \in S
<1>1. Len(s) \in Nat \ {0} /\ DOMAIN s = 1..Len(s)
  BY EmptySeq, LenProperties
<1>2. \A i \in 1..(Len(s) - 1) : s[i] \in S
  BY <1>1, ElementOfSeq
<1>3. /\ SubSeq(s, 1, Len(s) - 1) \in Seq(S)
      /\ Len(SubSeq(s, 1, Len(s) - 1)) = IF 1 <= Len(s) - 1 THEN (Len(s) - 1) - 1 + 1 ELSE 0
      /\ \A i \in 1..((Len(s) - 1) - 1 + 1) : SubSeq(s, 1, Len(s) - 1)[i] = s[1 + i - 1]
  <2>1. Len(s) - 1 \in Int /\ 1 \in Int
    BY <1>1
  <2> HIDE DEF Front
  <2> QED BY <1>2, <2>1, SubSeqProperties
<1>4. s[Len(s)] \in S
  BY <1>1, ElementOfSeq
<1>5. Front(s) \in Seq(S) /\ Len(Front(s)) = Len(s) - 1
  BY <1>1, <1>3 DEF Front
<1>6. DOMAIN Front(s) = 1..(Len(s) - 1)
  BY <1>5, LenProperties
<1> QED BY <1>1, <1>3, <1>4, <1>5, <1>6 DEF Front, Last

LEMMA TailFacts ==
  ASSUME NEW S, NEW s \in Seq(S), s # <<>>
  PROVE  /\ Len(s) \in Nat \ {0} /\ DOMAIN s = 1..Len(s) /\ 1 \in DOMAIN s
         /\ Head(s) = s[1] /\ Head(s) \in S
         /\ Tail(s) \in Seq(S) /\ DOMAIN Tail(s) = 1..(Len(s) - 1)
         /\ \A i \in 1..(Len(s) - 1) : Tail(s)[i] = s[i + 1]
<1>1. Len(s) \in Nat \ {0} /\ DOMAIN s = 1..Len(s)
  BY EmptySeq, LenProperties
<1>2. /\ Head(s) \in S /\ Head(s) = s[1]
      /\ Tail(s) \in Seq(S) /\ Len(Tail(s)) = Len(s) - 1
      /\ \A i \in 1..Len(Tail(s)) : Tail(s)[i] = s[i + 1]
  BY HeadTailProperties
<1>3. DOMAIN Tail(s) = 1..(Len(s) - 1)
  BY <1>2, LenProperties
<1> QED BY <1>1, <1>2, <1>3

-----------------------------------------------------------------------------
(* Lines.                                                                   *)

LEMMA LinesAre ==
  ASSUME TypeOK, NEW t, NEW k, IsLine(t, k)
  PROVE  /\ t \in Spots /\ k \in Kinds
         /\ Line(t, k) \in Seq(Promises)
         /\ Len(Line(t, k)) \in Nat /\ DOMAIN Line(t, k) = 1..Len(Line(t, k))
<1>1. t \in Spots /\ k \in Kinds
  BY DEF IsLine, Spots, Kinds, Threads
<1>2. Line(t, k) \in Seq(Promises)
  BY DEF IsLine, Line, TypeOK
<1> QED BY <1>1, <1>2, LenProperties

LEMMA HeldIsPlace ==
  ASSUME TypeOK, NEW t, NEW k, NEW i, NEW p, Has(t, k, i, p)
  PROVE  t \in Spots /\ k \in Kinds /\ i \in Nat /\ p \in Promises /\ IsLine(t, k)
<1>1. IsLine(t, k) /\ i \in DOMAIN Line(t, k) /\ Line(t, k)[i] = p
  BY DEF Has
<1> QED BY <1>1, LinesAre, ElementOfSeq

\* p is put at the end of a line.
Appends(t, k, p) ==
  \A u \in Spots, l \in Kinds : IsLine(u, l) =>
    Line(u, l)' = IF u = t /\ l = k THEN Append(Line(t, k), p) ELSE Line(u, l)

LEMMA AppendedHas ==
  ASSUME TypeOK, NEW t, NEW k, IsLine(t, k), NEW p \in Promises, Appends(t, k, p),
         NEW n \in Nat, n = Len(Line(t, k))
  PROVE  \A u \in Spots, l \in Kinds, i \in Nat, q \in Promises :
           /\ Has(u, l, i, q)' <=> (Has(u, l, i, q) \/ (u = t /\ l = k /\ i = n + 1 /\ q = p))
           /\ Has(u, l, i, q) => ~(u = t /\ l = k /\ i = n + 1)
<1>1. PICK s \in Seq(Promises) : s = Line(t, k)
  BY LinesAre
<1>2. /\ DOMAIN s = 1..n /\ DOMAIN Append(s, p) = 1..(n + 1)
      /\ \A i \in 1..n : Append(s, p)[i] = s[i]
      /\ Append(s, p)[n + 1] = p
  BY <1>1, AppendFacts
<1>3. /\ n + 1 \notin 1..n /\ n + 1 \in 1..(n + 1) /\ \A i \in 1..n : i \in 1..(n + 1)
      /\ \A i \in 1..(n + 1) : i \in 1..n \/ i = n + 1
  OBVIOUS
<1>4. ASSUME NEW i \in Nat, NEW q \in Promises
      PROVE  /\ Has(t, k, i, q)' <=> (Has(t, k, i, q) \/ (i = n + 1 /\ q = p))
             /\ Has(t, k, i, q) => i # n + 1
  <2>1. Line(t, k)' = Append(s, p) /\ IsLine(t, k)' /\ t \in Spots /\ k \in Kinds
    BY <1>1, LinesAre DEF Appends, IsLine
  <2> QED BY <1>1, <1>2, <1>3, <2>1 DEF Has
<1>5. ASSUME NEW u \in Spots, NEW l \in Kinds, ~(u = t /\ l = k), NEW i \in Nat, NEW q \in Promises
      PROVE  Has(u, l, i, q)' <=> Has(u, l, i, q)
  <2>1. IsLine(u, l)' <=> IsLine(u, l)
    BY DEF IsLine
  <2>2. IsLine(u, l) => Line(u, l)' = Line(u, l)
    BY <1>5 DEF Appends
  <2> QED BY <2>1, <2>2 DEF Has
<1> QED BY <1>4, <1>5

LEMMA CallsAppend ==
  ASSUME TypeOK, NEW p \in Promises, UNCHANGED batch
  PROVE  /\ Enqueue(p) /\ UNCHANGED <<tasks, stack>> => Appends(Pool, "jobs", p)
         /\ \A t \in Clients : QueueFor(t, p) /\ UNCHANGED <<jobs, stack>> => Appends(t, "tasks", p)
         /\ \A t \in Threads : Enter(t, p) /\ UNCHANGED <<jobs, tasks>> => Appends(t, "stack", p)
<1>1. Enqueue(p) /\ UNCHANGED <<tasks, stack>> => Appends(Pool, "jobs", p)
  BY DEF Enqueue, Appends, IsLine, Line
<1>2. ASSUME NEW t \in Clients, QueueFor(t, p), UNCHANGED <<jobs, stack>>
      PROVE  Appends(t, "tasks", p)
  BY <1>2 DEF QueueFor, Appends, IsLine, Line, TypeOK
<1>3. ASSUME NEW t \in Threads, Enter(t, p), UNCHANGED <<jobs, tasks>>
      PROVE  Appends(t, "stack", p)
  BY <1>3 DEF Enter, Appends, IsLine, Line, TypeOK
<1> QED BY <1>1, <1>2, <1>3

\* The last of a stack is left.
LEMMA LeftHas ==
  ASSUME TypeOK, NEW t \in Threads, stack[t] # <<>>, Leave(t), UNCHANGED <<jobs, tasks, batch>>,
         NEW n, n = Len(stack[t])
  PROVE  /\ Has(t, "stack", n, Last(stack[t])) /\ n \in Nat /\ t \in Spots /\ "stack" \in Kinds
         /\ stack' \in [Threads -> Seq(Promises)]
         /\ \A u \in Spots, l \in Kinds, i \in Nat, q \in Promises :
              Has(u, l, i, q)' <=> (Has(u, l, i, q) /\ ~(u = t /\ l = "stack" /\ i = n))
<1>1. PICK s \in Seq(Promises) : s = stack[t]
  BY DEF TypeOK
<1>2. /\ Front(s) \in Seq(Promises)
      /\ n \in Nat \ {0} /\ DOMAIN s = 1..n /\ DOMAIN Front(s) = 1..(n - 1)
      /\ \A i \in 1..(n - 1) : Front(s)[i] = s[i]
      /\ Last(s) = s[n]
  BY <1>1, FrontFacts
<1>3. stack'[t] = Front(s) /\ \A u \in Threads \ {t} : stack'[u] = stack[u]
  BY <1>1 DEF Leave, TypeOK
<1>4. stack' \in [Threads -> Seq(Promises)]
  BY <1>1, <1>2 DEF Leave, TypeOK
<1>5. /\ n \in 1..n /\ n \notin 1..(n - 1)
      /\ \A i \in 1..n : i = n \/ i \in 1..(n - 1)
      /\ \A i \in 1..(n - 1) : i \in 1..n
  BY <1>2
<1>6. ASSUME NEW i \in Nat, NEW q \in Promises
      PROVE  Has(t, "stack", i, q)' <=> (Has(t, "stack", i, q) /\ i # n)
  BY <1>1, <1>2, <1>3, <1>5 DEF Has, IsLine, Line
<1>7. ASSUME NEW u \in Spots, NEW l \in Kinds, ~(u = t /\ l = "stack"), NEW i \in Nat, NEW q \in Promises
      PROVE  Has(u, l, i, q)' <=> Has(u, l, i, q)
  BY <1>3, <1>7 DEF Has, IsLine, Line
<1>8. Has(t, "stack", n, Last(stack[t])) /\ t \in Spots /\ "stack" \in Kinds
  BY <1>1, <1>2, <1>5 DEF Has, IsLine, Line, Spots, Kinds
<1> QED BY <1>2, <1>4, <1>6, <1>7, <1>8

LEMMA OnTopHas ==
  ASSUME TypeOK, NEW t \in Threads, NEW p, OnTop(t, p)
  PROVE  /\ stack[t] # <<>> /\ Last(stack[t]) = p /\ p \in Promises
         /\ Len(stack[t]) \in Nat /\ t \in Spots /\ "stack" \in Kinds
         /\ Has(t, "stack", Len(stack[t]), p)
<1>1. stack[t] \in Seq(Promises) /\ stack[t] # <<>> /\ Last(stack[t]) = p
  BY DEF TypeOK, OnTop
<1>2. /\ Len(stack[t]) \in Nat \ {0} /\ DOMAIN stack[t] = 1..Len(stack[t])
      /\ Last(stack[t]) = stack[t][Len(stack[t])] /\ Last(stack[t]) \in Promises
  BY <1>1, FrontFacts
<1> QED BY <1>1, <1>2 DEF Has, IsLine, Line, Spots, Kinds

-----------------------------------------------------------------------------
(* What keeps the promises in their places.                                 *)

Running == {"call", "await", "resumed"}

\* Of the other coroutines one may go on on its thread.
GoOn(S) ==
  \A c \in S : phase'[c] = phase[c] \/ (phase[c] \in Running /\ phase'[c] \in Running)

LEMMA CallKeepsPlaces ==
  ASSUME TypeOK, PlaceInv, NEW t, NEW k, IsLine(t, k), NEW p \in Promises, Appends(t, k, p),
         future[p] = "none", SetFuture(p, "pending"),
         k = "stack" => \A x \in Functions, i \in Nat : ~Has(t, "stack", i, x),
         \A g \in Tags : active[g] => active'[g],
         p \in Functions /\ OwnsTag(p) => ~active[TagOf[p]] /\ active'[TagOf[p]],
         p \in Coroutines => k = "stack" /\ phase'[p] = "call",
         p \in CoSync => t \in Pollers,
         GoOn(Coroutines \ {p})
  PROVE  PlaceInv'
<1>1. PICK n \in Nat : n = Len(Line(t, k))
  BY LinesAre
<1>2. t \in Spots /\ k \in Kinds
  BY LinesAre
<1>3. \A u \in Spots, l \in Kinds, i \in Nat, q \in Promises :
        /\ Has(u, l, i, q)' <=> (Has(u, l, i, q) \/ (u = t /\ l = k /\ i = n + 1 /\ q = p))
        /\ Has(u, l, i, q) => ~(u = t /\ l = k /\ i = n + 1)
  BY <1>1, AppendedHas
<1>4. \A u \in Spots, l \in Kinds, i \in Nat : ~Has(u, l, i, p)
  BY DEF PlaceInv, HeldIsPending, Ready
<1>5. future'[p] = "pending" /\ \A q \in Promises : q # p => future'[q] = future[q]
  BY DEF SetFuture, TypeOK
<1>6. n + 1 \in Nat
  BY <1>1
<1>7. PendingIsHeld'
  <2> SUFFICES ASSUME NEW q \in Promises, future'[q] = "pending"
               PROVE  \E u \in Spots, l \in Kinds, i \in Nat : Has(u, l, i, q)'
    BY DEF PendingIsHeld
  <2>1. CASE q = p
    BY <1>2, <1>3, <1>6, <2>1
  <2>2. CASE q # p
    BY <1>3, <1>5, <2>2 DEF PlaceInv, PendingIsHeld
  <2> QED BY <2>1, <2>2
<1>8. HeldOnce'
  <2> SUFFICES ASSUME NEW q \in Promises, NEW u \in Spots, NEW v \in Spots, NEW l \in Kinds,
                      NEW m \in Kinds, NEW i \in Nat, NEW j \in Nat,
                      Has(u, l, i, q)', Has(v, m, j, q)'
               PROVE  u = v /\ l = m /\ i = j
    BY DEF HeldOnce
  <2>1. CASE q = p
    BY <1>3, <1>4, <2>1
  <2>2. CASE q # p
    <3>1. Has(u, l, i, q) /\ Has(v, m, j, q)
      BY <1>3, <2>2
    <3> QED BY <3>1 DEF PlaceInv, HeldOnce
  <2> QED BY <2>1, <2>2
<1>9. HeldIsPending'
  <2> SUFFICES ASSUME NEW q \in Promises, NEW u \in Spots, NEW l \in Kinds, NEW i \in Nat,
                      Has(u, l, i, q)', q # p
               PROVE  \/ future'[q] = "pending"
                      \/ Ready(q)' /\ q \in Functions /\ TagOf[q] # NoTag /\ l = "stack"
    BY <1>5 DEF HeldIsPending
  <2>1. Has(u, l, i, q) /\ future'[q] = future[q]
    BY <1>3, <1>5
  <2> QED BY <2>1 DEF PlaceInv, HeldIsPending, Ready
<1>10. FunctionsOnTop'
  <2> SUFFICES ASSUME NEW x \in Functions, NEW u \in Spots, NEW i \in Nat, Has(u, "stack", i, x)'
               PROVE  i = Len(stack'[u])
    BY DEF FunctionsOnTop
  <2>0. x \in Promises /\ "stack" \in Kinds /\ IsLine(u, "stack") /\ Line(u, "stack") = stack[u]
        /\ Line(u, "stack")' = stack'[u]
    BY DEF Promises, Kinds, Has, IsLine, Line
  <2>1. CASE u = t /\ k = "stack"
    <3>1. i = n + 1
      BY <1>3, <2>0, <2>1
    <3>2. stack'[u] = Append(stack[u], p)
      BY <1>2, <2>0, <2>1 DEF Appends
    <3>3. stack[u] \in Seq(Promises) /\ n = Len(stack[u])
      BY <1>1, <2>0, <2>1, LinesAre
    <3> QED BY <3>1, <3>2, <3>3, AppendFacts
  <2>2. CASE ~(u = t /\ k = "stack")
    <3>1. Has(u, "stack", i, x)
      BY <1>3, <2>0, <2>2
    <3>2. stack'[u] = stack[u]
      BY <2>0, <2>2 DEF Appends
    <3> QED BY <3>1, <3>2 DEF PlaceInv, FunctionsOnTop
  <2> QED BY <2>1, <2>2
<1>11. QueuedIsSuspended'
  <2> SUFFICES ASSUME NEW c \in Coroutines, NEW u \in Spots, NEW l \in Kinds, NEW i \in Nat,
                      Has(u, l, i, c)'
               PROVE  IF l = "stack" THEN phase'[c] \in Running ELSE phase'[c] = "suspended"
    BY DEF QueuedIsSuspended, Running
  <2>0. c \in Promises
    BY DEF Promises
  <2>1. CASE c = p
    BY <1>3, <1>4, <2>0, <2>1 DEF Running
  <2>2. CASE c # p
    <3>1. Has(u, l, i, c)
      BY <1>3, <2>0, <2>2
    <3>2. IF l = "stack" THEN phase[c] \in Running ELSE phase[c] = "suspended"
      BY <3>1 DEF PlaceInv, QueuedIsSuspended, Running
    <3>3. phase'[c] = phase[c] \/ (phase[c] \in Running /\ phase'[c] \in Running)
      BY <2>2 DEF GoOn
    <3> QED BY <3>2, <3>3 DEF Running
  <2> QED BY <2>1, <2>2
<1>12. CoSyncOnPollers'
  <2> SUFFICES ASSUME NEW c \in CoSync, NEW u \in Spots, NEW l \in Kinds, NEW i \in Nat,
                      Has(u, l, i, c)'
               PROVE  u \in Pollers
    BY DEF CoSyncOnPollers
  <2>0. c \in Promises
    BY AsyncAssumption DEF Promises
  <2> QED BY <1>3, <2>0 DEF PlaceInv, CoSyncOnPollers
<1>13. TagsTaken'
  <2> SUFFICES ASSUME NEW x \in Functions, NEW u \in Spots, NEW l \in Kinds, NEW i \in Nat,
                      Has(u, l, i, x)', OwnsTag(x)
               PROVE  active'[TagOf[x]]
    BY DEF TagsTaken, OwnsTag
  <2>0. x \in Promises /\ TagOf[x] \in Tags
    BY AsyncAssumption DEF Promises, OwnsTag
  <2> QED BY <1>3, <2>0 DEF PlaceInv, TagsTaken
<1>14. TagsOnce'
  <2> SUFFICES ASSUME NEW x \in Functions, NEW y \in Functions, NEW u \in Spots, NEW v \in Spots,
                      NEW l \in Kinds, NEW m \in Kinds, NEW i \in Nat, NEW j \in Nat,
                      Has(u, l, i, x)', Has(v, m, j, y)', TagOf[x] = TagOf[y], OwnsTag(x)
               PROVE  x = y
    BY DEF TagsOnce, OwnsTag
  <2>0. x \in Promises /\ y \in Promises /\ OwnsTag(y)
    BY DEF Promises, OwnsTag
  <2>1. x = p \/ Has(u, l, i, x)
    BY <1>3, <2>0
  <2>2. y = p \/ Has(v, m, j, y)
    BY <1>3, <2>0
  <2>3. Has(u, l, i, x) => active[TagOf[x]]
    BY DEF PlaceInv, TagsTaken
  <2>4. Has(v, m, j, y) => active[TagOf[y]]
    BY <2>0 DEF PlaceInv, TagsTaken
  <2>5. Has(u, l, i, x) /\ Has(v, m, j, y) => x = y
    BY DEF PlaceInv, TagsOnce
  <2> QED BY <2>0, <2>1, <2>2, <2>3, <2>4, <2>5
<1> QED BY <1>7, <1>8, <1>9, <1>10, <1>11, <1>12, <1>13, <1>14 DEF PlaceInv

LEMMA LeaveKeepsPlaces ==
  ASSUME TypeOK, PlaceInv, NEW t \in Threads, NEW p, OnTop(t, p), Leave(t),
         UNCHANGED <<jobs, tasks, batch>>,
         \A q \in Promises : q # p => future'[q] = future[q],
         future'[p] # "pending",
         \A g \in Tags : active[g] => active'[g] \/ (p \in Functions /\ TagOf[p] = g),
         GoOn(Coroutines \ {p})
  PROVE  PlaceInv'
<1>1. PICK n \in Nat : n = Len(stack[t])
  BY OnTopHas
<1>2. /\ stack[t] # <<>> /\ Last(stack[t]) = p /\ p \in Promises
      /\ t \in Spots /\ "stack" \in Kinds /\ Has(t, "stack", n, p)
  BY <1>1, OnTopHas
<1>3. \A u \in Spots, l \in Kinds, i \in Nat, q \in Promises :
        Has(u, l, i, q)' <=> (Has(u, l, i, q) /\ ~(u = t /\ l = "stack" /\ i = n))
  BY <1>1, <1>2, LeftHas
<1>4. \A u \in Spots, l \in Kinds, i \in Nat, q \in Promises :
        Has(u, l, i, q)' => Has(u, l, i, q) /\ q # p
  BY <1>2, <1>3 DEF PlaceInv, HeldOnce
<1>5. \A u \in Spots, l \in Kinds, i \in Nat, q \in Promises :
        Has(u, l, i, q) => q = p \/ Has(u, l, i, q)'
  BY <1>2, <1>3, HeldIsPlace DEF Has
<1>6. Functions \subseteq Promises /\ Coroutines \subseteq Promises /\ CoSync \subseteq Coroutines
  BY AsyncAssumption DEF Promises
<1>7. PendingIsHeld'
  BY <1>5 DEF PlaceInv, PendingIsHeld
<1>8. HeldOnce'
  BY <1>4 DEF PlaceInv, HeldOnce
<1>9. HeldIsPending'
  <2> SUFFICES ASSUME NEW q \in Promises, NEW u \in Spots, NEW l \in Kinds, NEW i \in Nat,
                      Has(u, l, i, q)'
               PROVE  \/ future'[q] = "pending"
                      \/ Ready(q)' /\ q \in Functions /\ TagOf[q] # NoTag /\ l = "stack"
    BY DEF HeldIsPending
  <2>1. Has(u, l, i, q) /\ future'[q] = future[q]
    BY <1>4
  <2> QED BY <2>1 DEF PlaceInv, HeldIsPending, Ready
<1>10. FunctionsOnTop'
  <2> SUFFICES ASSUME NEW x \in Functions, NEW u \in Spots, NEW i \in Nat, Has(u, "stack", i, x)'
               PROVE  i = Len(stack'[u])
    BY DEF FunctionsOnTop
  <2>1. Has(u, "stack", i, x) /\ ~(u = t /\ i = n) /\ u \in Threads
    BY <1>2, <1>3, <1>6 DEF Has, IsLine
  <2>2. i = Len(stack[u])
    BY <2>1 DEF PlaceInv, FunctionsOnTop
  <2>3. stack'[u] = stack[u]
    BY <1>1, <2>1, <2>2 DEF Leave, TypeOK
  <2> QED BY <2>2, <2>3
<1>11. QueuedIsSuspended'
  <2> SUFFICES ASSUME NEW c \in Coroutines, NEW u \in Spots, NEW l \in Kinds, NEW i \in Nat,
                      Has(u, l, i, c)'
               PROVE  IF l = "stack" THEN phase'[c] \in Running ELSE phase'[c] = "suspended"
    BY DEF QueuedIsSuspended, Running
  <2>1. Has(u, l, i, c) /\ c # p
    BY <1>4, <1>6
  <2>2. IF l = "stack" THEN phase[c] \in Running ELSE phase[c] = "suspended"
    BY <2>1 DEF PlaceInv, QueuedIsSuspended, Running
  <2>3. phase'[c] = phase[c] \/ (phase[c] \in Running /\ phase'[c] \in Running)
    BY <2>1 DEF GoOn
  <2> QED BY <2>2, <2>3 DEF Running
<1>12. CoSyncOnPollers'
  BY <1>4, <1>6 DEF PlaceInv, CoSyncOnPollers
<1>13. TagsTaken'
  <2> SUFFICES ASSUME NEW x \in Functions, NEW u \in Spots, NEW l \in Kinds, NEW i \in Nat,
                      Has(u, l, i, x)', OwnsTag(x)
               PROVE  active'[TagOf[x]]
    BY DEF TagsTaken, OwnsTag
  <2>1. TagOf[x] \in Tags /\ Has(u, l, i, x) /\ x # p
    BY <1>4, <1>6, AsyncAssumption DEF OwnsTag
  <2>2. active[TagOf[x]]
    BY <2>1 DEF PlaceInv, TagsTaken
  <2>3. p \in Functions => TagOf[p] # TagOf[x]
    BY <1>2, <2>1 DEF PlaceInv, TagsOnce
  <2> QED BY <2>1, <2>2, <2>3
<1>14. TagsOnce'
  <2> SUFFICES ASSUME NEW x \in Functions, NEW y \in Functions, NEW u \in Spots, NEW v \in Spots,
                      NEW l \in Kinds, NEW m \in Kinds, NEW i \in Nat, NEW j \in Nat,
                      Has(u, l, i, x)', Has(v, m, j, y)', TagOf[x] = TagOf[y], OwnsTag(x)
               PROVE  x = y
    BY DEF TagsOnce, OwnsTag
  <2>1. Has(u, l, i, x) /\ Has(v, m, j, y)
    BY <1>4, <1>6
  <2> QED BY <2>1 DEF PlaceInv, TagsOnce
<1> QED BY <1>7, <1>8, <1>9, <1>10, <1>11, <1>12, <1>13, <1>14 DEF PlaceInv

\* Nothing moves; a function with a tag may end, or a call be suppressed.
LEMMA StayKeepsPlaces ==
  ASSUME TypeOK, PlaceInv, UNCHANGED <<jobs, tasks, batch, stack, active>>,
         \A q \in Promises :
           \/ future'[q] = future[q]
           \/ future[q] = "none" /\ future'[q] # "pending"
           \/ Ready(q)' /\ q \in Functions /\ TagOf[q] # NoTag /\ \E t \in Threads : OnTop(t, q),
         GoOn(Coroutines)
  PROVE  PlaceInv'
<1>1. \A u, l, i, q : Has(u, l, i, q)' <=> Has(u, l, i, q)
  BY DEF Has, IsLine, Line
<1>2. \A x : OwnsTag(x)' <=> OwnsTag(x)
  BY DEF OwnsTag
<1>3. PendingIsHeld'
  <2> SUFFICES ASSUME NEW q \in Promises, future'[q] = "pending"
               PROVE  \E u \in Spots, l \in Kinds, i \in Nat : Has(u, l, i, q)
    BY <1>1 DEF PendingIsHeld
  <2>1. future[q] = "pending"
    BY DEF Ready
  <2> QED BY <2>1 DEF PlaceInv, PendingIsHeld
<1>4. HeldOnce'
  BY <1>1 DEF PlaceInv, HeldOnce
<1>5. HeldIsPending'
  <2> SUFFICES ASSUME NEW q \in Promises, NEW u \in Spots, NEW l \in Kinds, NEW i \in Nat,
                      Has(u, l, i, q)
               PROVE  \/ future'[q] = "pending"
                      \/ Ready(q)' /\ q \in Functions /\ TagOf[q] # NoTag /\ l = "stack"
    BY <1>1 DEF HeldIsPending
  <2>1. \/ future[q] = "pending"
        \/ Ready(q) /\ q \in Functions /\ TagOf[q] # NoTag /\ l = "stack"
    BY DEF PlaceInv, HeldIsPending
  <2>2. CASE future'[q] = future[q]
    BY <2>1, <2>2 DEF Ready
  <2>3. CASE future[q] = "none"
    BY <2>1, <2>3 DEF Ready
  <2>4. ASSUME NEW t \in Threads, OnTop(t, q) PROVE l = "stack"
    BY <2>4, OnTopHas DEF PlaceInv, HeldOnce
  <2> QED BY <2>2, <2>3, <2>4
<1>6. FunctionsOnTop'
  BY <1>1 DEF PlaceInv, FunctionsOnTop
<1>7. QueuedIsSuspended'
  <2> SUFFICES ASSUME NEW c \in Coroutines, NEW u \in Spots, NEW l \in Kinds, NEW i \in Nat,
                      Has(u, l, i, c)
               PROVE  IF l = "stack" THEN phase'[c] \in Running ELSE phase'[c] = "suspended"
    BY <1>1 DEF QueuedIsSuspended, Running
  <2>1. IF l = "stack" THEN phase[c] \in Running ELSE phase[c] = "suspended"
    BY DEF PlaceInv, QueuedIsSuspended, Running
  <2> QED BY <2>1 DEF GoOn, Running
<1>8. CoSyncOnPollers' /\ TagsTaken'
  BY <1>1, <1>2 DEF PlaceInv, CoSyncOnPollers, TagsTaken
<1>9. TagsOnce'
  BY <1>1, <1>2 DEF PlaceInv, TagsOnce
<1> QED BY <1>3, <1>4, <1>5, <1>6, <1>7, <1>8, <1>9 DEF PlaceInv

\* A promise goes from one place to another.
LEMMA MoveKeepsPlaces ==
  ASSUME PlaceInv, UNCHANGED <<future, active>>,
         \A q \in Promises, u \in Spots, l \in Kinds, i \in Nat : Has(u, l, i, q)' =>
           \E v \in Spots, m \in Kinds, j \in Nat :
             Has(v, m, j, q) /\ (m = "stack" => l = "stack" \/ q \in Coroutines),
         \A q \in Promises, u \in Spots, l \in Kinds, i \in Nat : Has(u, l, i, q) =>
           \E v \in Spots, m \in Kinds, j \in Nat : Has(v, m, j, q)'
  PROVE  PendingIsHeld' /\ HeldIsPending' /\ TagsTaken' /\ TagsOnce'
<1>1. Functions \subseteq Promises /\ Functions \cap Coroutines = {}
  BY AsyncAssumption DEF Promises
<1>2. PendingIsHeld'
  BY DEF PlaceInv, PendingIsHeld
<1>3. HeldIsPending'
  <2> SUFFICES ASSUME NEW q \in Promises, NEW u \in Spots, NEW l \in Kinds, NEW i \in Nat,
                      Has(u, l, i, q)'
               PROVE  \/ future[q] = "pending"
                      \/ Ready(q) /\ q \in Functions /\ TagOf[q] # NoTag /\ l = "stack"
    BY DEF HeldIsPending, Ready
  <2>1. PICK v \in Spots, m \in Kinds, j \in Nat :
          Has(v, m, j, q) /\ (m = "stack" => l = "stack" \/ q \in Coroutines)
    OBVIOUS
  <2> QED BY <1>1, <2>1 DEF PlaceInv, HeldIsPending
<1>4. TagsTaken'
  <2> SUFFICES ASSUME NEW x \in Functions, NEW u \in Spots, NEW l \in Kinds, NEW i \in Nat,
                      Has(u, l, i, x)', OwnsTag(x)
               PROVE  active[TagOf[x]]
    BY DEF TagsTaken, OwnsTag
  <2>1. PICK v \in Spots, m \in Kinds, j \in Nat : Has(v, m, j, x)
    BY <1>1
  <2> QED BY <2>1 DEF PlaceInv, TagsTaken
<1>5. TagsOnce'
  <2> SUFFICES ASSUME NEW x \in Functions, NEW y \in Functions, NEW u \in Spots, NEW v \in Spots,
                      NEW l \in Kinds, NEW m \in Kinds, NEW i \in Nat, NEW j \in Nat,
                      Has(u, l, i, x)', Has(v, m, j, y)', TagOf[x] = TagOf[y], OwnsTag(x)
               PROVE  x = y
    BY DEF TagsOnce, OwnsTag
  <2>1. PICK u2 \in Spots, l2 \in Kinds, i2 \in Nat : Has(u2, l2, i2, x)
    BY <1>1
  <2>2. PICK v2 \in Spots, m2 \in Kinds, j2 \in Nat : Has(v2, m2, j2, y)
    BY <1>1
  <2> QED BY <2>1, <2>2 DEF PlaceInv, TagsOnce
<1> QED BY <1>2, <1>3, <1>4, <1>5

LEMMA SuspendKeepsPlaces ==
  ASSUME TypeOK, PlaceInv, NEW t \in Threads, NEW c \in Coroutines, OnTop(t, c),
         NEW u, NEW k, IsLine(u, k), k # "stack",
         \A v, l : IsLine(v, l) =>
           Line(v, l)' = IF v = t /\ l = "stack" THEN Front(stack[t])
                         ELSE IF v = u /\ l = k THEN Append(Line(u, k), c) ELSE Line(v, l),
         phase' = [phase EXCEPT ![c] = "suspended"],
         c \in CoSync => u \in Pollers,
         UNCHANGED <<future, active>>
  PROVE  PlaceInv'
<1>1. PICK s \in Seq(Promises) : s = stack[t]
  BY DEF TypeOK
<1>2. PICK n \in Nat : n = Len(stack[t])
  BY OnTopHas
<1>3. /\ n \in 1..n /\ DOMAIN s = 1..n /\ DOMAIN Front(s) = 1..(n - 1)
      /\ \A i \in 1..(n - 1) : Front(s)[i] = s[i]
      /\ s[n] = c /\ c \in Promises
      /\ t \in Spots /\ "stack" \in Kinds /\ Has(t, "stack", n, c)
  BY <1>1, <1>2, OnTopHas, FrontFacts
<1>4. PICK r \in Seq(Promises) : r = Line(u, k)
  BY LinesAre
<1>5. PICK m \in Nat : m = Len(r)
  BY LenProperties
<1>6. /\ DOMAIN r = 1..m /\ DOMAIN Append(r, c) = 1..(m + 1) /\ m + 1 \in Nat
      /\ \A i \in 1..m : Append(r, c)[i] = r[i]
      /\ Append(r, c)[m + 1] = c
      /\ u \in Spots /\ k \in Kinds
  BY <1>3, <1>4, <1>5, AppendFacts, LinesAre
<1>7. /\ \A i \in Nat : i \in 1..(n - 1) <=> i \in 1..n /\ i # n
      /\ \A i \in Nat : i \in 1..(m + 1) <=> i \in 1..m \/ i = m + 1
      /\ m + 1 \notin 1..m
  OBVIOUS
<1>8. \A v \in Spots, l \in Kinds, i \in Nat, q \in Promises :
        Has(v, l, i, q)' <=> \/ Has(v, l, i, q) /\ ~(v = t /\ l = "stack" /\ i = n)
                             \/ v = u /\ l = k /\ i = m + 1 /\ q = c
  <2> SUFFICES ASSUME NEW v \in Spots, NEW l \in Kinds, NEW i \in Nat, NEW q \in Promises
               PROVE  Has(v, l, i, q)' <=> \/ Has(v, l, i, q) /\ ~(v = t /\ l = "stack" /\ i = n)
                                           \/ v = u /\ l = k /\ i = m + 1 /\ q = c
    OBVIOUS
  <2>0. IsLine(v, l)' <=> IsLine(v, l)
    BY DEF IsLine
  <2>1. CASE v = t /\ l = "stack"
    <3>1. Line(v, l) = s /\ Line(v, l)' = Front(s) /\ IsLine(v, l)
      BY <1>1, <2>1 DEF IsLine, Line
    <3> QED BY <1>3, <1>7, <2>0, <2>1, <3>1 DEF Has
  <2>2. CASE v = u /\ l = k
    <3>1. Line(v, l) = r /\ Line(v, l)' = Append(r, c) /\ IsLine(v, l)
      BY <1>4, <2>2
    <3> QED BY <1>6, <1>7, <2>0, <2>2, <3>1 DEF Has
  <2>3. CASE ~(v = t /\ l = "stack") /\ ~(v = u /\ l = k)
    <3>1. IsLine(v, l) => Line(v, l)' = Line(v, l)
      BY <2>3
    <3> QED BY <2>0, <2>3, <3>1 DEF Has
  <2> QED BY <2>1, <2>2, <2>3
<1>9. \A v \in Spots, l \in Kinds, i \in Nat :
        Has(v, l, i, c)' <=> v = u /\ l = k /\ i = m + 1
  <2>1. \A v \in Spots, l \in Kinds, i \in Nat : Has(v, l, i, c) => v = t /\ l = "stack" /\ i = n
    BY <1>3 DEF PlaceInv, HeldOnce
  <2> QED BY <1>3, <1>8, <2>1
<1>10. \A v \in Spots, l \in Kinds, i \in Nat, q \in Promises :
         q # c => (Has(v, l, i, q)' <=> Has(v, l, i, q))
  BY <1>3, <1>8 DEF PlaceInv, HeldOnce, Has
<1>11. Functions \subseteq Promises /\ Coroutines \subseteq Promises /\ CoSync \subseteq Coroutines
       /\ c \notin Functions
  BY AsyncAssumption DEF Promises
<1>12. PendingIsHeld' /\ HeldIsPending' /\ TagsTaken' /\ TagsOnce'
  <2>1. \A q \in Promises, v \in Spots, l \in Kinds, i \in Nat : Has(v, l, i, q)' =>
           \E w \in Spots, o \in Kinds, j \in Nat :
             Has(w, o, j, q) /\ (o = "stack" => l = "stack" \/ q \in Coroutines)
    <3>1. ASSUME NEW q \in Promises, NEW v \in Spots, NEW l \in Kinds, NEW i \in Nat, Has(v, l, i, q)'
          PROVE  \E w \in Spots, o \in Kinds, j \in Nat :
                   Has(w, o, j, q) /\ (o = "stack" => l = "stack" \/ q \in Coroutines)
      <4>1. CASE q = c
        BY <1>3, <4>1
      <4>2. CASE q # c
        BY <1>10, <3>1, <4>2
      <4> QED BY <4>1, <4>2
    <3> QED BY <3>1
  <2>2. \A q \in Promises, v \in Spots, l \in Kinds, i \in Nat : Has(v, l, i, q) =>
           \E w \in Spots, o \in Kinds, j \in Nat : Has(w, o, j, q)'
    BY <1>6, <1>9, <1>10
  <2>3. UNCHANGED <<future, active>>
    OBVIOUS
  <2> QED BY ONLY <2>1, <2>2, <2>3, PlaceInv, MoveKeepsPlaces
<1>13. HeldOnce'
  <2> SUFFICES ASSUME NEW q \in Promises, NEW v \in Spots, NEW w \in Spots, NEW l \in Kinds,
                      NEW o \in Kinds, NEW i \in Nat, NEW j \in Nat,
                      Has(v, l, i, q)', Has(w, o, j, q)'
               PROVE  v = w /\ l = o /\ i = j
    BY DEF HeldOnce
  <2>1. CASE q = c
    BY <1>9, <2>1
  <2>2. CASE q # c
    BY <1>10, <2>2 DEF PlaceInv, HeldOnce
  <2> QED BY <2>1, <2>2
<1>14. FunctionsOnTop'
  <2> SUFFICES ASSUME NEW x \in Functions, NEW v \in Spots, NEW i \in Nat, Has(v, "stack", i, x)'
               PROVE  i = Len(stack'[v])
    BY DEF FunctionsOnTop
  <2>1. Has(v, "stack", i, x)
    BY <1>3, <1>10, <1>11
  <2>2. i = Len(stack[v])
    BY <2>1 DEF PlaceInv, FunctionsOnTop
  <2>3. v # t
    BY <1>2, <1>3, <1>11, <2>1, <2>2 DEF Has
  <2>4. IsLine(v, "stack") /\ Line(v, "stack") = stack[v] /\ Line(v, "stack")' = stack'[v]
    BY <2>1 DEF Has, Line
  <2> QED BY <2>2, <2>3, <2>4
<1>15. QueuedIsSuspended'
  <2> SUFFICES ASSUME NEW d \in Coroutines, NEW v \in Spots, NEW l \in Kinds, NEW i \in Nat,
                      Has(v, l, i, d)'
               PROVE  IF l = "stack" THEN phase'[d] \in Running ELSE phase'[d] = "suspended"
    BY DEF QueuedIsSuspended, Running
  <2>0. phase \in [Coroutines -> {"none", "call", "await", "suspended", "resumed", "done"}]
    BY DEF TypeOK
  <2>1. CASE d = c
    BY <1>9, <2>0, <2>1
  <2>2. CASE d # c
    <3>1. Has(v, l, i, d)
      BY <1>10, <1>11, <2>2
    <3> QED BY <2>0, <2>2, <3>1 DEF PlaceInv, QueuedIsSuspended, Running
  <2> QED BY <2>1, <2>2
<1>16. CoSyncOnPollers'
  BY <1>9, <1>10, <1>11 DEF PlaceInv, CoSyncOnPollers
<1> QED BY <1>12, <1>13, <1>14, <1>15, <1>16 DEF PlaceInv

\* The first of a line is taken by a thread that has nothing to do.
LEMMA TakeKeepsPlaces ==
  ASSUME TypeOK, PlaceInv, NEW t \in Threads, stack[t] = <<>>, NEW u, NEW k, IsLine(u, k),
         k # "stack", Line(u, k) # <<>>, NEW p, p = Head(Line(u, k)), Take(t, p),
         \A v, l : IsLine(v, l) /\ l # "stack" =>
           Line(v, l)' = IF v = u /\ l = k THEN Tail(Line(u, k)) ELSE Line(v, l),
         k = "jobs" \/ u = t
  PROVE  PlaceInv' /\ p \in Promises /\ Has(u, k, 1, p) /\ u \in Spots /\ k \in Kinds
<1>1. PICK r \in Seq(Promises) : r = Line(u, k)
  BY LinesAre
<1>2. PICK m \in Nat : m = Len(r)
  BY LenProperties
<1>3. /\ m \in 1..m /\ DOMAIN r = 1..m /\ 1 \in DOMAIN r /\ p = r[1] /\ p \in Promises
      /\ DOMAIN Tail(r) = 1..(m - 1)
      /\ \A i \in 1..(m - 1) : Tail(r)[i] = r[i + 1]
      /\ u \in Spots /\ k \in Kinds
  BY <1>1, <1>2, TailFacts, LinesAre
<1>4. Has(u, k, 1, p)
  BY <1>1, <1>3 DEF Has
<1>5. t \in Spots /\ "stack" \in Kinds /\ 1 \in Nat
  BY DEF Spots, Kinds
<1>6. stack' = [stack EXCEPT ![t] = Append(<<>>, p)]
  BY DEF Take, Enter
<1>7. stack'[t] = Append(<<>>, p) /\ \A v \in Threads : v # t => stack'[v] = stack[v]
  BY <1>6 DEF TypeOK
<1>8. /\ <<>> \in Seq(Promises) /\ Len(<<>>) = 0
      /\ DOMAIN Append(<<>>, p) = 1..1 /\ Len(Append(<<>>, p)) = 1 /\ Append(<<>>, p)[1] = p
  <2>1. <<>> \in Seq(Promises) /\ Len(<<>>) = 0
    BY EmptySeq
  <2> QED BY <1>3, <2>1, AppendFacts
<1>9. /\ \A i \in Nat : i \in 1..1 <=> i = 1
      /\ \A i \in Nat : i \in 1..(m - 1) <=> i >= 1 /\ i + 1 \in 1..m
  OBVIOUS
<1>10. \A v \in Spots, l \in Kinds, i \in Nat, q \in Promises :
         Has(v, l, i, q)' <=>
           IF v = t /\ l = "stack" THEN i = 1 /\ q = p
           ELSE IF v = u /\ l = k THEN i >= 1 /\ Has(u, k, i + 1, q) ELSE Has(v, l, i, q)
  <2> SUFFICES ASSUME NEW v \in Spots, NEW l \in Kinds, NEW i \in Nat, NEW q \in Promises
               PROVE  Has(v, l, i, q)' <=>
                        IF v = t /\ l = "stack" THEN i = 1 /\ q = p
                        ELSE IF v = u /\ l = k THEN i >= 1 /\ Has(u, k, i + 1, q) ELSE Has(v, l, i, q)
    OBVIOUS
  <2>0. IsLine(v, l)' <=> IsLine(v, l)
    BY DEF IsLine
  <2>1. CASE v = t /\ l = "stack"
    <3>1. Line(v, l)' = Append(<<>>, p) /\ IsLine(v, l)
      BY <1>7, <2>1 DEF IsLine, Line
    <3> QED BY <1>8, <1>9, <2>0, <2>1, <3>1 DEF Has
  <2>2. CASE v = u /\ l = k
    <3>1. Line(v, l) = r /\ Line(v, l)' = Tail(r) /\ IsLine(v, l)
      BY <1>1, <2>2
    <3> QED BY <1>3, <1>9, <2>0, <2>2, <3>1 DEF Has
  <2>3. CASE ~(v = t /\ l = "stack") /\ ~(v = u /\ l = k)
    <3>1. IsLine(v, l) => Line(v, l)' = Line(v, l)
      <4>1. CASE l = "stack"
        BY <1>7, <2>3, <4>1 DEF IsLine, Line
      <4>2. CASE l # "stack"
        BY <2>3, <4>2
      <4> QED BY <4>1, <4>2
    <3> QED BY <2>0, <2>3, <3>1 DEF Has
  <2> QED BY <2>1, <2>2, <2>3
<1>11. \A i \in Nat, q \in Promises : ~Has(t, "stack", i, q)
  <2>1. DOMAIN stack[t] = {}
    BY EmptySeq
  <2> QED BY <2>1 DEF Has, Line
<1>12. \A v \in Spots, l \in Kinds, i \in Nat : Has(v, l, i, p)' <=> v = t /\ l = "stack" /\ i = 1
  <2> SUFFICES ASSUME NEW v \in Spots, NEW l \in Kinds, NEW i \in Nat, Has(v, l, i, p)'
               PROVE  v = t /\ l = "stack" /\ i = 1
    BY <1>3, <1>5, <1>10
  <2>1. CASE v = t /\ l = "stack"
    BY <1>3, <1>10, <2>1
  <2>2. CASE v = u /\ l = k
    <3>1. i >= 1 /\ Has(u, k, i + 1, p) /\ i + 1 \in Nat
      BY <1>3, <1>10, <2>2
    <3>2. i + 1 = 1
      BY <1>3, <1>4, <1>5, <3>1 DEF PlaceInv, HeldOnce
    <3> QED BY <3>1, <3>2
  <2>3. CASE ~(v = t /\ l = "stack") /\ ~(v = u /\ l = k)
    <3>1. Has(v, l, i, p)
      BY <1>3, <1>10, <2>3
    <3> QED BY <1>3, <1>4, <1>5, <2>3, <3>1 DEF PlaceInv, HeldOnce
  <2> QED BY <2>1, <2>2, <2>3
<1>13. \A v \in Spots, l \in Kinds, i \in Nat, q \in Promises :
         q # p /\ Has(v, l, i, q)' =>
           /\ Has(v, l, IF v = u /\ l = k THEN i + 1 ELSE i, q)
           /\ (IF v = u /\ l = k THEN i + 1 ELSE i) \in Nat
           /\ ~(v = t /\ l = "stack")
  <2> SUFFICES ASSUME NEW v \in Spots, NEW l \in Kinds, NEW i \in Nat, NEW q \in Promises,
                      q # p, Has(v, l, i, q)'
               PROVE  /\ Has(v, l, IF v = u /\ l = k THEN i + 1 ELSE i, q)
                      /\ (IF v = u /\ l = k THEN i + 1 ELSE i) \in Nat
                      /\ ~(v = t /\ l = "stack")
    OBVIOUS
  <2>1. ~(v = t /\ l = "stack")
    BY <1>10
  <2>2. CASE v = u /\ l = k
    BY <1>10, <2>1, <2>2
  <2>3. CASE ~(v = u /\ l = k)
    BY <1>10, <2>1, <2>3
  <2> QED BY <2>1, <2>2, <2>3
<1>14. Functions \subseteq Promises /\ Coroutines \subseteq Promises /\ CoSync \subseteq Coroutines
  BY AsyncAssumption DEF Promises
<1>15. PendingIsHeld' /\ HeldIsPending' /\ TagsTaken' /\ TagsOnce'
  <2>1. \A q \in Promises, v \in Spots, l \in Kinds, i \in Nat : Has(v, l, i, q)' =>
           \E w \in Spots, o \in Kinds, j \in Nat :
             Has(w, o, j, q) /\ (o = "stack" => l = "stack" \/ q \in Coroutines)
    <3>1. ASSUME NEW q \in Promises, NEW v \in Spots, NEW l \in Kinds, NEW i \in Nat, Has(v, l, i, q)'
          PROVE  \E w \in Spots, o \in Kinds, j \in Nat :
                   Has(w, o, j, q) /\ (o = "stack" => l = "stack" \/ q \in Coroutines)
      <4>1. CASE q = p
        BY <1>3, <1>4, <1>5, <4>1
      <4>2. CASE q # p
        BY <1>13, <3>1, <4>2
      <4> QED BY <4>1, <4>2
    <3> QED BY <3>1
  <2>2. \A q \in Promises, v \in Spots, l \in Kinds, i \in Nat : Has(v, l, i, q) =>
           \E w \in Spots, o \in Kinds, j \in Nat : Has(w, o, j, q)'
    <3>1. ASSUME NEW q \in Promises, NEW v \in Spots, NEW l \in Kinds, NEW i \in Nat, Has(v, l, i, q)
          PROVE  \E w \in Spots, o \in Kinds, j \in Nat : Has(w, o, j, q)'
      <4>1. CASE q = p
        BY <1>3, <1>5, <1>12, <4>1
      <4>2. CASE q # p /\ v = u /\ l = k
        <5>1. i \in 1..m /\ i # 1
          BY <1>1, <1>3, <3>1, <4>2 DEF Has
        <5>2. PICK j \in Nat : j = i - 1
          BY <5>1
        <5>3. j >= 1 /\ j + 1 = i /\ j \in Nat
          BY <5>1, <5>2
        <5>4. Has(u, k, j + 1, q)
          BY <3>1, <4>2, <5>3
        <5>5. Has(u, k, j, q)'
          BY <1>3, <1>10, <5>3, <5>4
        <5> QED BY <1>3, <5>5
      <4>3. CASE ~(v = u /\ l = k)
        BY <1>10, <1>11, <3>1, <4>3
      <4> QED BY <4>1, <4>2, <4>3
    <3> QED BY <3>1
  <2>3. UNCHANGED <<future, active>>
    BY DEF Take
  <2> QED BY ONLY <2>1, <2>2, <2>3, PlaceInv, MoveKeepsPlaces
<1>16. HeldOnce'
  <2> SUFFICES ASSUME NEW q \in Promises, NEW v \in Spots, NEW w \in Spots, NEW l \in Kinds,
                      NEW o \in Kinds, NEW i \in Nat, NEW j \in Nat,
                      Has(v, l, i, q)', Has(w, o, j, q)'
               PROVE  v = w /\ l = o /\ i = j
    BY DEF HeldOnce
  <2>1. CASE q = p
    BY <1>12, <2>1
  <2>2. CASE q # p
    <3>1. /\ v = w /\ l = o
          /\ (IF v = u /\ l = k THEN i + 1 ELSE i) = IF w = u /\ o = k THEN j + 1 ELSE j
      BY <1>13, <2>2 DEF PlaceInv, HeldOnce
    <3> QED BY <3>1
  <2> QED BY <2>1, <2>2
<1>17. FunctionsOnTop'
  <2> SUFFICES ASSUME NEW x \in Functions, NEW v \in Spots, NEW i \in Nat, Has(v, "stack", i, x)'
               PROVE  i = Len(stack'[v])
    BY DEF FunctionsOnTop
  <2>1. CASE v = t
    BY <1>5, <1>7, <1>8, <1>10, <1>14, <2>1
  <2>2. CASE v # t
    <3>1. Has(v, "stack", i, x)
      BY <1>5, <1>10, <1>14, <2>2
    <3>2. v \in Threads
      BY <3>1 DEF Has, IsLine
    <3> QED BY <1>7, <2>2, <3>1, <3>2 DEF PlaceInv, FunctionsOnTop
  <2> QED BY <2>1, <2>2
<1>18. QueuedIsSuspended'
  <2> SUFFICES ASSUME NEW d \in Coroutines, NEW v \in Spots, NEW l \in Kinds, NEW i \in Nat,
                      Has(v, l, i, d)'
               PROVE  IF l = "stack" THEN phase'[d] \in Running ELSE phase'[d] = "suspended"
    BY DEF QueuedIsSuspended, Running
  <2>0. phase'[d] = IF d = p THEN "resumed" ELSE phase[d]
    BY DEF Take
  <2>1. CASE d = p
    BY <1>12, <2>0, <2>1 DEF Running
  <2>2. CASE d # p
    <3>1. Has(v, l, IF v = u /\ l = k THEN i + 1 ELSE i, d)
          /\ (IF v = u /\ l = k THEN i + 1 ELSE i) \in Nat
      BY <1>13, <1>14, <2>2
    <3> QED BY <2>0, <2>2, <3>1 DEF PlaceInv, QueuedIsSuspended, Running
  <2> QED BY <2>1, <2>2
<1>19. CoSyncOnPollers'
  <2> SUFFICES ASSUME NEW d \in CoSync, NEW v \in Spots, NEW l \in Kinds, NEW i \in Nat,
                      Has(v, l, i, d)'
               PROVE  v \in Pollers
    BY DEF CoSyncOnPollers
  <2>1. CASE d = p
    <3>1. u \in Pollers /\ v = t
      BY <1>3, <1>4, <1>5, <1>12, <2>1 DEF PlaceInv, CoSyncOnPollers
    <3>2. k = "jobs" => u = Pool
      BY DEF IsLine
    <3>3. Pool \notin Pollers
      BY AsyncAssumption DEF Threads, Clients
    <3> QED BY <3>1, <3>2, <3>3
  <2>2. CASE d # p
    BY <1>13, <1>14, <2>2 DEF PlaceInv, CoSyncOnPollers
  <2> QED BY <2>1, <2>2
<1> QED BY <1>3, <1>4, <1>15, <1>16, <1>17, <1>18, <1>19 DEF PlaceInv

\* What is queued for a thread becomes its batch.
LEMMA SyncPointKeepsPlaces ==
  ASSUME TypeOK, PlaceInv, NEW t \in Clients, SyncPoint(t)
  PROVE  PlaceInv'
<1>1. /\ batch[t] = <<>> /\ batch' = [batch EXCEPT ![t] = tasks[t]]
      /\ tasks' = [tasks EXCEPT ![t] = <<>>]
      /\ UNCHANGED <<future, jobs, active, stack, phase>>
  BY DEF SyncPoint, AtBase
<1>2. /\ batch'[t] = tasks[t] /\ tasks'[t] = <<>>
      /\ \A u \in Clients : u # t => batch'[u] = batch[u] /\ tasks'[u] = tasks[u]
  BY <1>1 DEF TypeOK
<1>3. DOMAIN <<>> = {}
  BY EmptySeq
<1>4. t \in Spots /\ {"tasks", "batch", "stack", "jobs"} = Kinds /\ IsLine(t, "tasks")
      /\ IsLine(t, "batch")
  BY DEF Spots, Threads, Kinds, IsLine
<1>5. \A u \in Spots, l \in Kinds, i \in Nat, q \in Promises :
        Has(u, l, i, q)' <=> IF u = t /\ l = "tasks" THEN FALSE
                             ELSE IF u = t /\ l = "batch" THEN Has(t, "tasks", i, q)
                             ELSE Has(u, l, i, q)
  <2> SUFFICES ASSUME NEW u \in Spots, NEW l \in Kinds, NEW i \in Nat, NEW q \in Promises
               PROVE  Has(u, l, i, q)' <=> IF u = t /\ l = "tasks" THEN FALSE
                                           ELSE IF u = t /\ l = "batch" THEN Has(t, "tasks", i, q)
                                           ELSE Has(u, l, i, q)
    OBVIOUS
  <2>1. CASE u = t /\ l = "tasks"
    BY <1>2, <1>3, <2>1 DEF Has, Line
  <2>2. CASE u = t /\ l = "batch"
    BY <1>2, <1>4, <2>2 DEF Has, Line, IsLine
  <2>3. CASE ~(u = t /\ l = "tasks") /\ ~(u = t /\ l = "batch")
    <3>1. IsLine(u, l) => Line(u, l)' = Line(u, l)
      BY <1>1, <1>2, <2>3 DEF IsLine, Line
    <3>2. IsLine(u, l)' <=> IsLine(u, l)
      BY DEF IsLine
    <3> QED BY <2>3, <3>1, <3>2 DEF Has
  <2> QED BY <2>1, <2>2, <2>3
<1>6. \A i \in Nat, q \in Promises : ~Has(t, "batch", i, q)
  BY <1>1, <1>3 DEF Has, Line
<1>7. Functions \subseteq Promises /\ Coroutines \subseteq Promises /\ CoSync \subseteq Coroutines
  BY AsyncAssumption DEF Promises
<1>8. PendingIsHeld' /\ HeldIsPending' /\ TagsTaken' /\ TagsOnce'
  <2>1. \A q \in Promises, v \in Spots, l \in Kinds, i \in Nat : Has(v, l, i, q)' =>
           \E w \in Spots, o \in Kinds, j \in Nat :
             Has(w, o, j, q) /\ (o = "stack" => l = "stack" \/ q \in Coroutines)
    BY <1>4, <1>5
  <2>2. \A q \in Promises, v \in Spots, l \in Kinds, i \in Nat : Has(v, l, i, q) =>
           \E w \in Spots, o \in Kinds, j \in Nat : Has(w, o, j, q)'
    BY <1>4, <1>5, <1>6
  <2>3. UNCHANGED <<future, active>>
    BY <1>1
  <2> QED BY ONLY <2>1, <2>2, <2>3, PlaceInv, MoveKeepsPlaces
<1>9. HeldOnce'
  BY <1>4, <1>5, <1>6 DEF PlaceInv, HeldOnce
<1>10. FunctionsOnTop'
  <2>1. \A u \in Spots, i \in Nat, q \in Promises : Has(u, "stack", i, q)' <=> Has(u, "stack", i, q)
    BY <1>4, <1>5
  <2> QED BY <1>1, <1>7, <2>1 DEF PlaceInv, FunctionsOnTop
<1>11. QueuedIsSuspended'
  <2> SUFFICES ASSUME NEW d \in Coroutines, NEW v \in Spots, NEW l \in Kinds, NEW i \in Nat,
                      Has(v, l, i, d)'
               PROVE  IF l = "stack" THEN phase[d] \in Running ELSE phase[d] = "suspended"
    BY <1>1 DEF QueuedIsSuspended, Running
  <2>1. CASE v = t /\ l = "batch"
    <3>1. Has(t, "tasks", i, d)
      BY <1>5, <1>7, <2>1
    <3> QED BY <1>4, <2>1, <3>1 DEF PlaceInv, QueuedIsSuspended
  <2>2. CASE ~(v = t /\ l = "batch")
    <3>1. Has(v, l, i, d)
      BY <1>5, <1>7, <2>2
    <3> QED BY <3>1 DEF PlaceInv, QueuedIsSuspended, Running
  <2> QED BY <2>1, <2>2
<1>12. CoSyncOnPollers'
  BY <1>4, <1>5, <1>7 DEF PlaceInv, CoSyncOnPollers
<1> QED BY <1>8, <1>9, <1>10, <1>11, <1>12 DEF PlaceInv

-----------------------------------------------------------------------------
(* The type invariant, in two halves.                                       *)

QueuesOK ==
  /\ future \in [Promises -> {"none", "pending", "value", "exception", "broken"}]
  /\ jobs \in Seq(Promises)
  /\ tasks \in [Clients -> Seq(Promises)] /\ batch \in [Clients -> Seq(Promises)]
  /\ \A t \in Waiters : tasks[t] = <<>> /\ batch[t] = <<>>
  /\ active \in [Tags -> BOOLEAN]
  /\ stack \in [Threads -> Seq(Promises)]

StagesOK ==
  /\ phase \in [Coroutines -> {"none", "call", "await", "suspended", "resumed", "done"}]
  /\ pos \in [Coroutines -> Nat] /\ next \in [Clients -> Nat] /\ waited \in [Clients -> Nat]
  /\ \A c \in Coroutines : pos[c] \in 1..(Len(Body[c]) + 1)
  /\ \A t \in Clients : next[t] \in 1..(Len(Owned[t]) + 1) /\ waited[t] \in 0..Len(Owned[t])

LEMMA TypeHalves == TypeOK <=> QueuesOK /\ StagesOK
BY DEF TypeOK, QueuesOK, StagesOK

LEMMA TypeHalvesPrime == TypeOK' <=> QueuesOK' /\ StagesOK'
BY DEF TypeOK, QueuesOK, StagesOK

LEMMA BodyFacts ==
  ASSUME NEW c \in Coroutines
  PROVE  /\ Body[c] \in Seq(Promises) /\ Len(Body[c]) \in Nat /\ DOMAIN Body[c] = 1..Len(Body[c])
         /\ \A i \in DOMAIN Body[c] : Body[c][i] \in Promises
<1>1. Body[c] \in Seq(Promises)
  BY AsyncAssumption
<1> QED BY <1>1, LenProperties, ElementOfSeq

LEMMA OwnedFacts ==
  ASSUME NEW t \in Clients
  PROVE  /\ Owned[t] \in Seq(Promises) /\ Len(Owned[t]) \in Nat
         /\ DOMAIN Owned[t] = 1..Len(Owned[t])
         /\ \A i \in DOMAIN Owned[t] : Owned[t][i] \in Promises
<1>1. Owned[t] \in Seq(Promises)
  BY AsyncAssumption
<1> QED BY <1>1, LenProperties, ElementOfSeq

LEMMA SetFutureType ==
  ASSUME QueuesOK, NEW p \in Promises,
         NEW s \in {"pending", "value", "exception", "broken"}, SetFuture(p, s)
  PROVE  /\ future' \in [Promises -> {"none", "pending", "value", "exception", "broken"}]
         /\ future'[p] = s /\ \A q \in Promises : q # p => future'[q] = future[q]
BY DEF SetFuture, QueuesOK

LEMMA EnterType ==
  ASSUME QueuesOK, NEW t \in Threads, NEW p \in Promises, Enter(t, p)
  PROVE  stack' \in [Threads -> Seq(Promises)]
<1>1. PICK s \in Seq(Promises) : s = Append(stack[t], p)
  BY AppendFacts DEF QueuesOK
<1>2. stack' = [stack EXCEPT ![t] = s]
  BY <1>1 DEF Enter
<1> QED BY <1>2 DEF QueuesOK

LEMMA LeaveType ==
  ASSUME QueuesOK, NEW t \in Threads, stack[t] # <<>>, Leave(t)
  PROVE  stack' \in [Threads -> Seq(Promises)]
<1>1. PICK s \in Seq(Promises) : s = Front(stack[t])
  BY FrontFacts DEF QueuesOK
<1>2. stack' = [stack EXCEPT ![t] = s]
  BY <1>1 DEF Leave
<1> QED BY <1>2 DEF QueuesOK

LEMMA QueueForType ==
  ASSUME QueuesOK, NEW t \in Pollers, NEW p \in Promises, QueueFor(t, p)
  PROVE  tasks' \in [Clients -> Seq(Promises)] /\ \A u \in Waiters : tasks'[u] = <<>>
<1>0. t \in Clients /\ t \notin Waiters /\ Waiters \subseteq Clients
  BY AsyncAssumption DEF Clients
<1>1. PICK s \in Seq(Promises) : s = Append(tasks[t], p)
  BY <1>0, AppendFacts DEF QueuesOK
<1>2. tasks' = [tasks EXCEPT ![t] = s]
  BY <1>1 DEF QueueFor
<1> QED BY <1>0, <1>2 DEF QueuesOK

LEMMA EnqueueType ==
  ASSUME QueuesOK, NEW p \in Promises, Enqueue(p)
  PROVE  jobs' \in Seq(Promises)
BY AppendFacts DEF QueuesOK, Enqueue

-----------------------------------------------------------------------------
(* The calls.                                                               *)

LEMMA CallFunctionHolds ==
  ASSUME TypeOK, PlaceInv, NEW t \in Threads, NEW x \in Functions, CallFunction(t, x),
         future[x] = "none", \A y \in Functions, i \in Nat : ~Has(t, "stack", i, y),
         GoOn(Coroutines)
  PROVE  PlaceInv' /\ QueuesOK' /\ (SetFuture(x, "pending") \/ SetFuture(x, "broken"))
<1>0. /\ QueuesOK /\ x \in Promises /\ x \notin Coroutines /\ x \notin CoSync
      /\ Coroutines \ {x} = Coroutines
  BY TypeHalves, AsyncAssumption DEF Promises
<1>1. ASSUME Target[x] # Pool
      PROVE  Target[x] \in Pollers /\ Target[x] \in Clients /\ IsLine(Target[x], "tasks")
             /\ Target[x] \in Spots
  BY <1>1, SyncPointAssumption DEF Clients, IsLine, Spots, Threads
<1>2. CASE AsyncFuture(x)
  <2>1. Target[x] = Pool /\ Enqueue(x) /\ SetFuture(x, "pending")
        /\ tasks' = tasks /\ batch' = batch /\ active' = active /\ stack' = stack
    BY <1>2 DEF AsyncFuture
  <2>2. ~OwnsTag(x)
    BY <2>1, TagAssumption DEF OwnsTag
  <2>3. Appends(Pool, "jobs", x)
    BY <1>0, <2>1, CallsAppend
  <2>4. IsLine(Pool, "jobs")
    BY DEF IsLine
  <2>5. PlaceInv'
    BY <1>0, <2>1, <2>2, <2>3, <2>4, CallKeepsPlaces
  <2>6. future' \in [Promises -> {"none", "pending", "value", "exception", "broken"}]
        /\ jobs' \in Seq(Promises)
    BY <1>0, <2>1, SetFutureType, EnqueueType
  <2>7. QueuesOK'
    BY <1>0, <2>1, <2>6 DEF QueuesOK
  <2> QED BY <2>1, <2>5, <2>7
<1>3. CASE SyncFuture(t, x)
  <2>1. Target[x] # Pool /\ QueueFor(Target[x], x) /\ SetFuture(x, "pending")
        /\ jobs' = jobs /\ batch' = batch /\ active' = active /\ stack' = stack
    BY <1>3 DEF SyncFuture
  <2>2. ~OwnsTag(x)
    BY <1>3 DEF OwnsTag, SyncFuture
  <2>3. Appends(Target[x], "tasks", x)
    BY <1>0, <1>1, <2>1, CallsAppend
  <2>5. PlaceInv'
    BY <1>0, <1>1, <2>1, <2>2, <2>3, CallKeepsPlaces
  <2>6. future' \in [Promises -> {"none", "pending", "value", "exception", "broken"}]
        /\ tasks' \in [Clients -> Seq(Promises)] /\ \A u \in Waiters : tasks'[u] = <<>>
    BY <1>0, <1>1, <2>1, SetFutureType, QueueForType
  <2>7. QueuesOK'
    BY <1>0, <2>1, <2>6 DEF QueuesOK
  <2> QED BY <2>1, <2>5, <2>7
<1>4. CASE SyncOnceFuture(t, x)
  <2>1. /\ Target[x] # Pool /\ TagOf[x] \in Tags
        /\ jobs' = jobs /\ batch' = batch /\ stack' = stack
    BY <1>4, AsyncAssumption DEF SyncOnceFuture
  <2>2. CASE active[TagOf[x]]
    <3>1. SetFuture(x, "broken") /\ tasks' = tasks /\ active' = active
      BY <1>4, <2>2 DEF SyncOnceFuture
    <3>2. future' \in [Promises -> {"none", "pending", "value", "exception", "broken"}]
          /\ future'[x] = "broken" /\ \A q \in Promises : q # x => future'[q] = future[q]
      BY <1>0, <3>1, SetFutureType
    <3>3. PlaceInv'
      BY <1>0, <2>1, <3>1, <3>2, StayKeepsPlaces
    <3>4. QueuesOK'
      BY <1>0, <2>1, <3>1, <3>2 DEF QueuesOK
    <3> QED BY <3>1, <3>3, <3>4
  <2>3. CASE ~active[TagOf[x]]
    <3>1. /\ active' = [active EXCEPT ![TagOf[x]] = TRUE]
          /\ QueueFor(Target[x], x) /\ SetFuture(x, "pending")
      BY <1>4, <2>3 DEF SyncOnceFuture
    <3>2. /\ active' \in [Tags -> BOOLEAN] /\ active'[TagOf[x]]
          /\ \A g \in Tags : active[g] => active'[g]
      BY <2>1, <3>1 DEF TypeOK
    <3>3. Appends(Target[x], "tasks", x)
      BY <1>0, <1>1, <2>1, <3>1, CallsAppend
    <3>4. PlaceInv'
      BY <1>0, <1>1, <2>1, <2>3, <3>1, <3>2, <3>3, CallKeepsPlaces
    <3>5. future' \in [Promises -> {"none", "pending", "value", "exception", "broken"}]
          /\ tasks' \in [Clients -> Seq(Promises)] /\ \A u \in Waiters : tasks'[u] = <<>>
      BY <1>0, <1>1, <2>1, <3>1, SetFutureType, QueueForType
    <3>6. QueuesOK'
      BY <1>0, <2>1, <3>2, <3>5 DEF QueuesOK
    <3> QED BY <3>1, <3>4, <3>6
  <2> QED BY <2>2, <2>3
<1>5. CASE SyncHere(t, x)
  <2>1. Enter(t, x) /\ SetFuture(x, "pending")
        /\ jobs' = jobs /\ tasks' = tasks /\ batch' = batch /\ active' = active
    BY <1>5 DEF SyncHere, queues
  <2>2. ~OwnsTag(x)
    BY <1>5 DEF OwnsTag, SyncHere
  <2>3. Appends(t, "stack", x) /\ IsLine(t, "stack")
    BY <1>0, <2>1, CallsAppend DEF IsLine
  <2>5. PlaceInv'
    BY <1>0, <2>1, <2>2, <2>3, CallKeepsPlaces
  <2>6. future' \in [Promises -> {"none", "pending", "value", "exception", "broken"}]
        /\ stack' \in [Threads -> Seq(Promises)]
    BY <1>0, <2>1, SetFutureType, EnterType
  <2>7. QueuesOK'
    BY <1>0, <2>1, <2>6 DEF QueuesOK
  <2> QED BY <2>1, <2>5, <2>7
<1> QED BY <1>2, <1>3, <1>4, <1>5 DEF CallFunction

LEMMA CallCoroutineHolds ==
  ASSUME TypeOK, PlaceInv, NEW t \in Threads, NEW c \in Coroutines, CallCoroutine(t, c),
         future[c] = "none", \A y \in Functions, i \in Nat : ~Has(t, "stack", i, y),
         phase'[c] = "call", GoOn(Coroutines \ {c}), c \in CoSync => t \in Pollers
  PROVE  PlaceInv' /\ QueuesOK' /\ SetFuture(c, "pending")
<1>0. QueuesOK /\ c \in Promises /\ c \notin Functions
  BY TypeHalves, AsyncAssumption DEF Promises
<1>1. Enter(t, c) /\ SetFuture(c, "pending")
      /\ jobs' = jobs /\ tasks' = tasks /\ batch' = batch /\ active' = active
  BY DEF CallCoroutine, queues
<1>2. Appends(t, "stack", c) /\ IsLine(t, "stack")
  BY <1>0, <1>1, CallsAppend DEF IsLine
<1>3. PlaceInv'
  BY <1>0, <1>1, <1>2, CallKeepsPlaces
<1>4. future' \in [Promises -> {"none", "pending", "value", "exception", "broken"}]
      /\ stack' \in [Threads -> Seq(Promises)]
  BY <1>0, <1>1, SetFutureType, EnterType
<1>5. QueuesOK'
  BY <1>0, <1>1, <1>4 DEF QueuesOK
<1> QED BY <1>1, <1>3, <1>5

-----------------------------------------------------------------------------
(* What keeps the coroutines going.                                         *)

\* A coroutine that makes no step of its own.
LEMMA GoesOn ==
  ASSUME TypeOK, NEW c \in Coroutines, Goes(c),
         future'[c] = future[c], pos'[c] = pos[c],
         \/ phase'[c] = phase[c]
         \/ {phase[c], phase'[c]} \subseteq {"await", "suspended", "resumed"},
         \A q \in Promises : Ready(q) => future'[q] = future[q]
  PROVE  Goes(c)'
<1>1. /\ \A i \in DOMAIN Body[c] : future[Body[c][i]] = "value" => future'[Body[c][i]] = "value"
      /\ \A i \in DOMAIN Body[c] : future[Body[c][i]] \in {"exception", "broken"} =>
           future'[Body[c][i]] \in {"exception", "broken"}
  BY BodyFacts DEF Ready
<1>2. phase'[c] = "none" <=> future'[c] = "none"
  BY DEF Goes
<1>3. phase'[c] = "done" <=> future'[c] \in {"value", "exception"}
  BY DEF Goes
<1>4. future'[c] # "broken" /\ (phase'[c] = "none" => pos'[c] = 1)
  BY DEF Goes
<1>5. phase'[c] \in {"await", "suspended", "resumed"} => pos'[c] \in DOMAIN Body[c]
  BY DEF Goes
<1>6. \A i \in DOMAIN Body[c] : i < pos'[c] => future'[Body[c][i]] = "value"
  BY <1>1 DEF Goes
<1>7. future'[c] = "value" => pos'[c] > Len(Body[c])
  BY DEF Goes
<1>8. future'[c] = "exception" =>
        pos'[c] \in DOMAIN Body[c] /\ future'[Body[c][pos'[c]]] \in {"exception", "broken"}
  BY <1>1 DEF Goes
<1> QED BY <1>2, <1>3, <1>4, <1>5, <1>6, <1>7, <1>8 DEF Goes

\* Every step but a call.
LEMMA NothingCalled ==
  ASSUME TypeOK, NotYetCalled, UNCHANGED next,
         \A q \in Promises : future[q] = "none" => future'[q] = "none",
         \A c \in Coroutines : \A i \in DOMAIN Body[c] : Uncalled(c, i)' => Uncalled(c, i)
  PROVE  NotYetCalled'
<1>1. ASSUME NEW t \in Clients, NEW i \in DOMAIN Owned[t], i >= next'[t]
      PROVE  future'[Owned[t][i]] = "none"
  BY <1>1, OwnedFacts DEF NotYetCalled
<1>2. ASSUME NEW c \in Coroutines, NEW i \in DOMAIN Body[c], Uncalled(c, i)'
      PROVE  future'[Body[c][i]] = "none"
  BY <1>2, BodyFacts DEF NotYetCalled
<1> QED BY <1>1, <1>2 DEF NotYetCalled

\* The stages of c, and of no other, change.
LEMMA OthersUncalled ==
  ASSUME TypeOK, NEW c \in Coroutines,
         \A d \in Coroutines \ {c} : phase'[d] = phase[d] /\ pos'[d] = pos[d],
         \/ phase'[c] \notin {"none", "call"} /\ pos'[c] = pos[c]
         \/ phase[c] \notin {"none", "call"} /\ pos'[c] = pos[c] + 1
  PROVE  \A d \in Coroutines : \A i \in DOMAIN Body[d] : Uncalled(d, i)' => Uncalled(d, i)
<1>1. ASSUME NEW d \in Coroutines \ {c}, NEW i \in DOMAIN Body[d], Uncalled(d, i)'
      PROVE  Uncalled(d, i)
  BY <1>1 DEF Uncalled
<1>2. ASSUME NEW i \in DOMAIN Body[c], Uncalled(c, i)'
      PROVE  Uncalled(c, i)
  <2>1. pos[c] \in Nat /\ i \in Nat
    BY BodyFacts DEF TypeOK
  <2> QED BY <1>2, <2>1 DEF Uncalled
<1> QED BY <1>1, <1>2

\* What the future of a promise becomes.
LEMMA SetFutureKeeps ==
  ASSUME QueuesOK, NEW p \in Promises, ~Ready(p), NEW s \in {"pending", "value", "exception", "broken"},
         SetFuture(p, s)
  PROVE  /\ \A q \in Promises : Ready(q) => future'[q] = future[q]
         /\ future[p] # "none" => \A q \in Promises : future[q] = "none" => future'[q] = "none"
BY SetFutureType DEF Ready

-----------------------------------------------------------------------------
(* What a thread does with what is on top of its stack.                     *)

LEMMA FunctionEndHolds ==
  ASSUME IInv, NEW t \in Threads, FunctionEnd(t)
  PROVE  IInv'
<1>1. PICK x \in Functions, s \in {"value", "exception"} :
        /\ OnTop(t, x) /\ ~Ready(x)
        /\ SetFuture(x, s)
        /\ IF TagOf[x] = NoTag THEN Leave(t) ELSE UNCHANGED stack
        /\ UNCHANGED <<queues, phase, pos, client>>
  BY DEF FunctionEnd
<1>2. /\ jobs' = jobs /\ tasks' = tasks /\ batch' = batch /\ active' = active
      /\ phase' = phase /\ pos' = pos /\ next' = next /\ waited' = waited
  BY <1>1 DEF queues, client
<1>3. TypeOK /\ PlaceInv /\ QueuesOK /\ StagesOK
  BY TypeHalves DEF IInv
<1>4. x \in Promises /\ x \notin Coroutines
  BY AsyncAssumption DEF Promises
<1>5. future[x] = "pending"
  BY <1>1, <1>3, OnTopHas DEF PlaceInv, HeldIsPending
<1>6. /\ future' \in [Promises -> {"none", "pending", "value", "exception", "broken"}]
      /\ future'[x] = s /\ \A q \in Promises : q # x => future'[q] = future[q]
  BY <1>1, <1>3, <1>4, SetFutureType
<1>7. /\ \A q \in Promises : Ready(q) => future'[q] = future[q]
      /\ \A q \in Promises : future[q] = "none" => future'[q] = "none"
  BY <1>1, <1>3, <1>4, <1>5, SetFutureKeeps
<1>8. GoOn(Coroutines \ {x}) /\ GoOn(Coroutines)
  BY <1>2 DEF GoOn
<1>9. PlaceInv' /\ stack' \in [Threads -> Seq(Promises)]
  <2>1. CASE TagOf[x] = NoTag
    <3>1. Leave(t) /\ future'[x] # "pending" /\ UNCHANGED <<jobs, tasks, batch>>
          /\ stack[t] # <<>>
          /\ \A g \in Tags : active[g] => active'[g] \/ (x \in Functions /\ TagOf[x] = g)
      BY <1>1, <1>2, <1>6, <2>1 DEF OnTop
    <3>2. PlaceInv'
      BY <1>1, <1>3, <1>6, <1>8, <3>1, LeaveKeepsPlaces
    <3> QED BY <1>3, <3>1, <3>2, LeaveType
  <2>2. CASE TagOf[x] # NoTag
    <3>1. UNCHANGED <<jobs, tasks, batch, stack, active>>
      BY <1>1, <1>2, <2>2
    <3>2. Ready(x)'
      BY <1>6 DEF Ready
    <3>3. \A q \in Promises :
            \/ future'[q] = future[q]
            \/ future[q] = "none" /\ future'[q] # "pending"
            \/ Ready(q)' /\ q \in Functions /\ TagOf[q] # NoTag /\ \E u \in Threads : OnTop(u, q)
      <4> SUFFICES ASSUME NEW q \in Promises, future'[q] # future[q]
                   PROVE  Ready(q)' /\ q \in Functions /\ TagOf[q] # NoTag
                          /\ \E u \in Threads : OnTop(u, q)
        OBVIOUS
      <4>1. q = x
        BY <1>6
      <4> QED BY <1>1, <2>2, <3>2, <4>1
    <3>4. PlaceInv'
      BY <1>3, <1>8, <3>1, <3>3, StayKeepsPlaces
    <3> QED BY <1>3, <3>1, <3>4 DEF QueuesOK
  <2> QED BY <2>1, <2>2
<1>10. QueuesOK' /\ StagesOK'
  BY <1>2, <1>3, <1>6, <1>9 DEF QueuesOK, StagesOK
<1>11. NotYetCalled'
  <2>1. \A c \in Coroutines : \A i \in DOMAIN Body[c] : Uncalled(c, i)' => Uncalled(c, i)
    BY <1>2 DEF Uncalled
  <2> QED BY <1>2, <1>3, <1>7, <2>1, NothingCalled DEF IInv
<1>12. CoroutinesGo'
  <2> SUFFICES ASSUME NEW c \in Coroutines PROVE Goes(c)'
    BY DEF CoroutinesGo
  <2>1. Goes(c) /\ future'[c] = future[c] /\ pos'[c] = pos[c] /\ phase'[c] = phase[c]
    BY <1>2, <1>4, <1>6 DEF IInv, CoroutinesGo, Promises
  <2> QED BY <1>3, <1>7, <2>1, GoesOn
<1> QED BY <1>9, <1>10, <1>11, <1>12, TypeHalvesPrime DEF IInv

LEMMA PutTagBackHolds ==
  ASSUME IInv, NEW t \in Threads, PutTagBack(t)
  PROVE  IInv'
<1>1. PICK x \in Functions :
        /\ OnTop(t, x) /\ Ready(x)
        /\ active' = [active EXCEPT ![TagOf[x]] = FALSE]
        /\ Leave(t)
        /\ UNCHANGED <<future, jobs, tasks, batch, phase, pos, client>>
  BY DEF PutTagBack
<1>2. /\ future' = future /\ jobs' = jobs /\ tasks' = tasks /\ batch' = batch
      /\ phase' = phase /\ pos' = pos /\ next' = next /\ waited' = waited
  BY <1>1 DEF client
<1>3. TypeOK /\ PlaceInv /\ QueuesOK /\ StagesOK
  BY TypeHalves DEF IInv
<1>4. active' \in [Tags -> BOOLEAN] /\ \A g \in Tags : active[g] => active'[g] \/ TagOf[x] = g
  BY <1>1, <1>3 DEF QueuesOK
<1>5. stack' \in [Threads -> Seq(Promises)]
  BY <1>1, <1>3, LeaveType DEF OnTop
<1>6. PlaceInv'
  <2>1. GoOn(Coroutines \ {x}) /\ future'[x] # "pending"
    BY <1>1, <1>2 DEF GoOn, Ready
  <2>2. UNCHANGED <<jobs, tasks, batch>> /\ \A q \in Promises : q # x => future'[q] = future[q]
    BY <1>2
  <2> QED BY <1>1, <1>3, <1>4, <2>1, <2>2, LeaveKeepsPlaces
<1>7. QueuesOK' /\ StagesOK'
  BY <1>2, <1>3, <1>4, <1>5 DEF QueuesOK, StagesOK
<1>8. NotYetCalled' /\ CoroutinesGo'
  BY <1>2 DEF IInv, NotYetCalled, CoroutinesGo, Uncalled, Goes
<1> QED BY <1>6, <1>7, <1>8, TypeHalvesPrime DEF IInv

\* A coroutine that runs has a future that is not ready.
LEMMA RunningIsPending ==
  ASSUME TypeOK, NEW c \in Coroutines, Goes(c), phase[c] \in {"call", "await", "resumed"}
  PROVE  future[c] = "pending" /\ ~Ready(c) /\ c \in Promises
BY DEF TypeOK, Goes, Ready, Promises

LEMMA NoFunctionBelow ==
  ASSUME TypeOK, PlaceInv, NEW t \in Threads, NEW c \in Coroutines, OnTop(t, c)
  PROVE  \A y \in Functions, i \in Nat : ~Has(t, "stack", i, y)
<1>1. Has(t, "stack", Len(stack[t]), c) /\ t \in Spots
  BY OnTopHas
<1>2. c \notin Functions
  BY AsyncAssumption
<1> QED BY <1>1, <1>2 DEF PlaceInv, FunctionsOnTop, Has

\* What happens to the futures by a call of p.
CallOf(p) == future[p] = "none" /\ (SetFuture(p, "pending") \/ SetFuture(p, "broken"))

LEMMA CallOfKeeps ==
  ASSUME QueuesOK, NEW p \in Promises, CallOf(p)
  PROVE  /\ \A q \in Promises : Ready(q) => future'[q] = future[q]
         /\ \A q \in Promises : q # p => future'[q] = future[q]
<1>1. ~Ready(p)
  BY DEF CallOf, Ready
<1>2. CASE SetFuture(p, "pending")
  BY <1>1, <1>2, SetFutureKeeps, SetFutureType
<1>3. CASE SetFuture(p, "broken")
  BY <1>1, <1>3, SetFutureKeeps, SetFutureType
<1> QED BY <1>2, <1>3 DEF CallOf

\* A coroutine that is called.
LEMMA CalledGoes ==
  ASSUME TypeOK, NEW c \in Coroutines, Goes(c), future[c] = "none", SetFuture(c, "pending"),
         phase'[c] = "call", pos'[c] = pos[c]
  PROVE  Goes(c)'
<1>1. future'[c] = "pending"
  BY TypeHalves, SetFutureType DEF Promises
<1>2. pos'[c] = 1
  BY DEF Goes
<1>3. \A i \in DOMAIN Body[c] : ~(i < 1)
  BY BodyFacts
<1> QED BY <1>1, <1>2, <1>3 DEF Goes

LEMMA CoCallHolds ==
  ASSUME IInv, NEW t \in Threads, NEW c \in Coroutines, CoCall(t, c)
  PROVE  IInv'
<1>1. /\ OnTop(t, c) /\ phase[c] = "call" /\ pos[c] <= Len(Body[c])
      /\ pos' = pos /\ next' = next /\ waited' = waited
  BY DEF CoCall, client
<1>2. TypeOK /\ PlaceInv /\ QueuesOK /\ StagesOK /\ NotYetCalled /\ CoroutinesGo
  BY TypeHalves DEF IInv
<1>3. PICK k \in DOMAIN Body[c] : k = pos[c]
  BY <1>1, <1>2, BodyFacts DEF StagesOK
<1>4. PICK p \in Promises : p = Body[c][k]
  BY BodyFacts
<1>5. Awaited(c) = p /\ future[p] = "none"
  BY <1>1, <1>2, <1>3, <1>4 DEF Awaited, NotYetCalled, Uncalled
<1>6. Goes(c) /\ future[c] = "pending" /\ p # c /\ c \in Promises
  BY <1>1, <1>2, <1>5, RunningIsPending DEF CoroutinesGo
<1>7. \A y \in Functions, i \in Nat : ~Has(t, "stack", i, y)
  BY <1>1, <1>2, NoFunctionBelow
<1>8. /\ \A u \in Clients : \A i \in DOMAIN Owned[u] : Owned[u][i] # p
      /\ \A d \in Coroutines : \A i \in DOMAIN Body[d] : Body[d][i] = p => d = c /\ i = k
  BY <1>3, <1>4, CallsAssumption
<1>9. /\ PlaceInv' /\ QueuesOK' /\ CallOf(p)
      /\ phase' = IF p \in Coroutines THEN [phase EXCEPT ![c] = "await", ![p] = "call"]
                  ELSE [phase EXCEPT ![c] = "await"]
      /\ (p \in Coroutines => SetFuture(p, "pending"))
  <2>1. CASE p \in Functions
    <3>1. p \notin Coroutines
      BY <2>1, AsyncAssumption
    <3>2. CallFunction(t, p) /\ phase' = [phase EXCEPT ![c] = "await"]
      BY <1>5, <3>1 DEF CoCall
    <3>3. GoOn(Coroutines)
      BY <1>1, <1>2, <3>2 DEF GoOn, Running, StagesOK
    <3> QED BY <1>2, <1>5, <1>7, <2>1, <3>1, <3>2, <3>3, CallFunctionHolds DEF CallOf
  <2>2. CASE p \in Coroutines
    <3>1. p \notin Functions
      BY <2>2, AsyncAssumption
    <3>2. CallCoroutine(t, p) /\ phase' = [phase EXCEPT ![c] = "await", ![p] = "call"]
      BY <1>5, <3>1 DEF CoCall
    <3>3. GoOn(Coroutines \ {p}) /\ phase'[p] = "call"
      BY <1>1, <1>2, <2>2, <3>2 DEF GoOn, Running, StagesOK
    <3>4. p \notin CoSync
      BY <1>8, SyncPointAssumption DEF Range, Clients
    <3> QED BY <1>2, <1>5, <1>7, <2>2, <3>2, <3>3, <3>4, CallCoroutineHolds DEF CallOf
  <2> QED BY <2>1, <2>2 DEF Promises
<1>10. /\ \A q \in Promises : Ready(q) => future'[q] = future[q]
       /\ \A q \in Promises : q # p => future'[q] = future[q]
  BY <1>2, <1>9, CallOfKeeps
<1>11. /\ phase' \in [Coroutines -> {"none", "call", "await", "suspended", "resumed", "done"}]
       /\ phase'[c] = "await" /\ (p \in Coroutines => phase'[p] = "call")
       /\ \A d \in Coroutines : d # c /\ d # p => phase'[d] = phase[d]
  BY <1>2, <1>6, <1>9 DEF StagesOK
<1>12. StagesOK'
  BY <1>1, <1>2, <1>11 DEF StagesOK
<1>13. \A d \in Coroutines : \A i \in DOMAIN Body[d] :
         Uncalled(d, i)' => Uncalled(d, i) /\ Body[d][i] # p
  <2> SUFFICES ASSUME NEW d \in Coroutines, NEW i \in DOMAIN Body[d], Uncalled(d, i)'
               PROVE  Uncalled(d, i) /\ Body[d][i] # p
    OBVIOUS
  <2>1. CASE d = c
    <3>1. i > pos[c]
      BY <1>1, <1>11, <2>1 DEF Uncalled
    <3>2. i # k
      BY <1>3, <3>1, BodyFacts
    <3> QED BY <1>8, <2>1, <3>1, <3>2 DEF Uncalled
  <2>2. CASE d = p /\ d # c
    <3>1. Goes(d)
      BY <1>2 DEF CoroutinesGo
    <3>2. phase[d] = "none"
      BY <1>5, <2>2, <3>1 DEF Goes
    <3> QED BY <1>1, <1>8, <2>2, <3>2 DEF Uncalled
  <2>3. CASE d # p /\ d # c
    BY <1>1, <1>8, <1>11, <2>3 DEF Uncalled
  <2> QED BY <2>1, <2>2, <2>3
<1>14. NotYetCalled'
  <2>1. ASSUME NEW u \in Clients, NEW i \in DOMAIN Owned[u], i >= next'[u]
        PROVE  future'[Owned[u][i]] = "none"
    BY <1>1, <1>2, <1>8, <1>10, <2>1, OwnedFacts DEF NotYetCalled
  <2>2. ASSUME NEW d \in Coroutines, NEW i \in DOMAIN Body[d], Uncalled(d, i)'
        PROVE  future'[Body[d][i]] = "none"
    BY <1>2, <1>10, <1>13, <2>2, BodyFacts DEF NotYetCalled
  <2> QED BY <2>1, <2>2 DEF NotYetCalled
<1>15. CoroutinesGo'
  <2> SUFFICES ASSUME NEW d \in Coroutines PROVE Goes(d)'
    BY DEF CoroutinesGo
  <2>0. Goes(d) /\ d \in Promises /\ pos'[d] = pos[d]
    BY <1>1, <1>2 DEF CoroutinesGo, Promises
  <2>1. CASE d = c
    <3>1. future'[c] = "pending"
      BY <1>6, <1>10
    <3>2. \A i \in DOMAIN Body[c] : i < pos'[c] => future'[Body[c][i]] = "value"
      <4>1. \A i \in DOMAIN Body[c] : i < pos[c] => future[Body[c][i]] = "value"
        BY <1>6 DEF Goes
      <4> QED BY <1>1, <1>10, <4>1, BodyFacts DEF Ready
    <3> QED BY <1>1, <1>3, <1>11, <2>1, <3>1, <3>2 DEF Goes
  <2>2. CASE d = p
    BY <1>2, <1>5, <1>9, <1>11, <2>0, <2>2, CalledGoes
  <2>3. CASE d # c /\ d # p
    BY <1>2, <1>10, <1>11, <2>0, <2>3, GoesOn
  <2> QED BY <2>1, <2>2, <2>3
<1> QED BY <1>9, <1>12, <1>14, <1>15, TypeHalvesPrime DEF IInv

LEMMA CoSuspendHolds ==
  ASSUME IInv, NEW t \in Threads, NEW c \in Coroutines, CoSuspend(t, c)
  PROVE  IInv'
<1>1. /\ OnTop(t, c) /\ phase[c] = "await"
      /\ CoAwaitAsync(t, c) \/ CoAwaitSync(t, c)
      /\ phase' = [phase EXCEPT ![c] = "suspended"]
      /\ future' = future /\ batch' = batch /\ active' = active /\ pos' = pos /\ next' = next
      /\ waited' = waited
  BY DEF CoSuspend, client
<1>2. TypeOK /\ PlaceInv /\ QueuesOK /\ StagesOK /\ NotYetCalled /\ CoroutinesGo
  BY TypeHalves DEF IInv
<1>3. /\ c \in Promises /\ stack[t] # <<>> /\ t \in Spots /\ "stack" \in Kinds
      /\ Has(t, "stack", Len(stack[t]), c) /\ Len(stack[t]) \in Nat
  BY <1>1, <1>2, OnTopHas
<1>4. PlaceInv' /\ QueuesOK'
  <2>1. CASE CoAwaitAsync(t, c)
    <3>1. c \notin CoSync /\ jobs' = Append(jobs, c) /\ tasks' = tasks
          /\ stack' = [stack EXCEPT ![t] = Front(@)] /\ Leave(t) /\ Enqueue(c)
      BY <2>1 DEF CoAwaitAsync, Enqueue, Leave
    <3>2. stack' \in [Threads -> Seq(Promises)] /\ jobs' \in Seq(Promises)
      BY <1>2, <1>3, <3>1, LeaveType, EnqueueType
    <3>3. \A v, l : IsLine(v, l) =>
            Line(v, l)' = IF v = t /\ l = "stack" THEN Front(stack[t])
                          ELSE IF v = Pool /\ l = "jobs" THEN Append(Line(Pool, "jobs"), c)
                          ELSE Line(v, l)
      BY <1>1, <1>2, <3>1 DEF IsLine, Line, QueuesOK
    <3>4. IsLine(Pool, "jobs") /\ "jobs" # "stack" /\ UNCHANGED <<future, active>>
      BY <1>1 DEF IsLine
    <3>5. PlaceInv'
      BY <1>1, <1>2, <3>1, <3>3, <3>4, SuspendKeepsPlaces
    <3> QED BY <1>1, <1>2, <3>1, <3>2, <3>5 DEF QueuesOK
  <2>2. CASE CoAwaitSync(t, c)
    <3>0. c \in CoSync
      BY <2>2 DEF CoAwaitSync
    <3>1. t \in Pollers /\ t \in Clients
      BY <1>2, <1>3, <3>0 DEF PlaceInv, CoSyncOnPollers, Clients
    <3>2. /\ tasks' = [tasks EXCEPT ![t] = Append(@, c)] /\ jobs' = jobs
          /\ stack' = [stack EXCEPT ![t] = Front(@)] /\ Leave(t) /\ QueueFor(t, c)
      BY <2>2 DEF CoAwaitSync, QueueFor, Leave
    <3>3. /\ stack' \in [Threads -> Seq(Promises)] /\ tasks' \in [Clients -> Seq(Promises)]
          /\ \A u \in Waiters : tasks'[u] = <<>>
      BY <1>2, <1>3, <3>1, <3>2, LeaveType, QueueForType
    <3>4. \A v, l : IsLine(v, l) =>
            Line(v, l)' = IF v = t /\ l = "stack" THEN Front(stack[t])
                          ELSE IF v = t /\ l = "tasks" THEN Append(Line(t, "tasks"), c)
                          ELSE Line(v, l)
      BY <1>1, <1>2, <3>1, <3>2 DEF IsLine, Line, QueuesOK
    <3>5. IsLine(t, "tasks") /\ "tasks" # "stack" /\ UNCHANGED <<future, active>>
      BY <1>1, <3>1 DEF IsLine
    <3>6. PlaceInv'
      BY <1>1, <1>2, <3>1, <3>4, <3>5, SuspendKeepsPlaces
    <3> QED BY <1>1, <1>2, <3>2, <3>3, <3>6 DEF QueuesOK
  <2> QED BY <1>1, <2>1, <2>2
<1>5. /\ phase' \in [Coroutines -> {"none", "call", "await", "suspended", "resumed", "done"}]
      /\ phase'[c] = "suspended" /\ \A d \in Coroutines : d # c => phase'[d] = phase[d]
  BY <1>1, <1>2 DEF StagesOK
<1>6. StagesOK'
  BY <1>1, <1>2, <1>5 DEF StagesOK
<1>7. NotYetCalled'
  <2>1. \A d \in Coroutines : \A i \in DOMAIN Body[d] : Uncalled(d, i)' => Uncalled(d, i)
    BY <1>1, <1>2, <1>5, OthersUncalled
  <2> QED BY <1>1, <1>2, <2>1, NothingCalled
<1>8. CoroutinesGo'
  <2> SUFFICES ASSUME NEW d \in Coroutines PROVE Goes(d)'
    BY DEF CoroutinesGo
  <2>1. Goes(d) /\ future'[d] = future[d] /\ pos'[d] = pos[d]
    BY <1>1, <1>2 DEF CoroutinesGo
  <2>2. \/ phase'[d] = phase[d]
        \/ {phase[d], phase'[d]} \subseteq {"await", "suspended", "resumed"}
    BY <1>1, <1>5
  <2>3. \A q \in Promises : Ready(q) => future'[q] = future[q]
    BY <1>1
  <2> QED BY <1>2, <2>1, <2>2, <2>3, GoesOn
<1> QED BY <1>4, <1>6, <1>7, <1>8, TypeHalvesPrime DEF IInv

\* The end of a coroutine.
LEMMA CoEndHolds ==
  ASSUME IInv, NEW t \in Threads, NEW c \in Coroutines, NEW s \in {"value", "exception"},
         OnTop(t, c), phase[c] \in {"call", "await", "resumed"}, SetFuture(c, s),
         phase' = [phase EXCEPT ![c] = "done"], Leave(t), UNCHANGED <<queues, pos, client>>,
         s = "value" => pos[c] > Len(Body[c]),
         s = "exception" => /\ pos[c] \in DOMAIN Body[c]
                            /\ future[Body[c][pos[c]]] \in {"exception", "broken"}
  PROVE  IInv'
<1>1. /\ jobs' = jobs /\ tasks' = tasks /\ batch' = batch /\ active' = active
      /\ pos' = pos /\ next' = next /\ waited' = waited
  BY DEF queues, client
<1>2. TypeOK /\ PlaceInv /\ QueuesOK /\ StagesOK /\ NotYetCalled /\ CoroutinesGo /\ Goes(c)
  BY TypeHalves DEF IInv, CoroutinesGo
<1>3. future[c] = "pending" /\ ~Ready(c) /\ c \in Promises
  BY <1>2, RunningIsPending
<1>4. /\ future' \in [Promises -> {"none", "pending", "value", "exception", "broken"}]
      /\ future'[c] = s /\ \A q \in Promises : q # c => future'[q] = future[q]
  BY <1>2, <1>3, SetFutureType
<1>5. /\ \A q \in Promises : Ready(q) => future'[q] = future[q]
      /\ \A q \in Promises : future[q] = "none" => future'[q] = "none"
  BY <1>2, <1>3, SetFutureKeeps
<1>6. /\ phase' \in [Coroutines -> {"none", "call", "await", "suspended", "resumed", "done"}]
      /\ phase'[c] = "done" /\ \A d \in Coroutines : d # c => phase'[d] = phase[d]
  BY <1>2 DEF StagesOK
<1>7. PlaceInv'
  <2>1. GoOn(Coroutines \ {c}) /\ future'[c] # "pending" /\ UNCHANGED <<jobs, tasks, batch>>
    BY <1>1, <1>4, <1>6 DEF GoOn
  <2>2. \A g \in Tags : active[g] => active'[g] \/ (c \in Functions /\ TagOf[c] = g)
    BY <1>1
  <2> QED BY <1>2, <1>4, <2>1, <2>2, LeaveKeepsPlaces
<1>8. stack' \in [Threads -> Seq(Promises)]
  BY <1>2, LeaveType DEF OnTop
<1>9. QueuesOK' /\ StagesOK'
  BY <1>1, <1>2, <1>4, <1>6, <1>8 DEF QueuesOK, StagesOK
<1>10. NotYetCalled'
  <2>1. \A d \in Coroutines : \A i \in DOMAIN Body[d] : Uncalled(d, i)' => Uncalled(d, i)
    BY <1>1, <1>2, <1>6, OthersUncalled
  <2> QED BY <1>1, <1>2, <1>5, <2>1, NothingCalled
<1>11. Goes(c)'
  <2>1. \A i \in DOMAIN Body[c] : future[Body[c][i]] # "pending" /\ i < pos[c] =>
          future'[Body[c][i]] = future[Body[c][i]]
    BY <1>3, <1>4, BodyFacts
  <2>2. \A i \in DOMAIN Body[c] : i < pos[c] => future[Body[c][i]] = "value"
    BY <1>2 DEF Goes
  <2>3. \A i \in DOMAIN Body[c] : i < pos'[c] => future'[Body[c][i]] = "value"
    BY <1>1, <2>1, <2>2
  <2>4. future'[c] = "exception" => pos'[c] \in DOMAIN Body[c]
          /\ future'[Body[c][pos'[c]]] \in {"exception", "broken"}
    <3> SUFFICES ASSUME s = "exception"
                 PROVE  pos[c] \in DOMAIN Body[c]
                        /\ future'[Body[c][pos[c]]] \in {"exception", "broken"}
      BY <1>1, <1>4
    <3>1. pos[c] \in DOMAIN Body[c] /\ future[Body[c][pos[c]]] \in {"exception", "broken"}
      OBVIOUS
    <3>2. Body[c][pos[c]] \in Promises /\ Ready(Body[c][pos[c]])
      BY <3>1, BodyFacts DEF Ready
    <3> QED BY <1>5, <3>1, <3>2
  <2>5. future'[c] = "value" => pos'[c] > Len(Body[c])
    BY <1>1, <1>4
  <2> QED BY <1>4, <1>6, <2>3, <2>4, <2>5 DEF Goes
<1>12. CoroutinesGo'
  <2> SUFFICES ASSUME NEW d \in Coroutines, d # c PROVE Goes(d)'
    BY <1>11 DEF CoroutinesGo
  <2>1. Goes(d) /\ future'[d] = future[d] /\ pos'[d] = pos[d] /\ phase'[d] = phase[d]
    BY <1>1, <1>2, <1>4, <1>6 DEF CoroutinesGo, Promises
  <2> QED BY <1>2, <1>5, <2>1, GoesOn
<1> QED BY <1>7, <1>9, <1>10, <1>12, TypeHalvesPrime DEF IInv

LEMMA CoReturnHolds ==
  ASSUME IInv, NEW t \in Threads, NEW c \in Coroutines, CoReturn(t, c)
  PROVE  IInv'
<1>1. /\ OnTop(t, c) /\ phase[c] = "call" /\ pos[c] > Len(Body[c])
      /\ SetFuture(c, "value") /\ phase' = [phase EXCEPT ![c] = "done"] /\ Leave(t)
      /\ UNCHANGED <<queues, pos, client>>
  BY DEF CoReturn
<1> QED BY <1>1, CoEndHolds

LEMMA CoResumeHolds ==
  ASSUME IInv, NEW t \in Threads, NEW c \in Coroutines, CoResume(t, c)
  PROVE  IInv'
<1>1. /\ OnTop(t, c) /\ phase[c] \in {"await", "resumed"} /\ Ready(Awaited(c))
      /\ UNCHANGED <<queues, client>>
  BY DEF CoResume
<1>2. TypeOK /\ PlaceInv /\ QueuesOK /\ StagesOK /\ NotYetCalled /\ CoroutinesGo /\ Goes(c)
  BY TypeHalves DEF IInv, CoroutinesGo
<1>3. pos[c] \in DOMAIN Body[c] /\ Awaited(c) = Body[c][pos[c]]
  BY <1>1, <1>2 DEF Goes, Awaited
<1>4. CASE future[Awaited(c)] # "value"
  <2>1. /\ SetFuture(c, "exception") /\ phase' = [phase EXCEPT ![c] = "done"] /\ Leave(t)
        /\ pos' = pos
    BY <1>4 DEF CoResume
  <2>2. future[Body[c][pos[c]]] \in {"exception", "broken"}
    BY <1>1, <1>3, <1>4 DEF Ready
  <2>3. UNCHANGED <<queues, pos, client>>
    BY <1>1, <2>1
  <2> QED BY <1>1, <1>3, <2>1, <2>2, <2>3, CoEndHolds
<1>5. CASE future[Awaited(c)] = "value"
  <2>1. /\ phase' = [phase EXCEPT ![c] = "call"] /\ pos' = [pos EXCEPT ![c] = @ + 1]
        /\ future' = future /\ stack' = stack
        /\ jobs' = jobs /\ tasks' = tasks /\ batch' = batch /\ active' = active
        /\ next' = next /\ waited' = waited
    BY <1>1, <1>5 DEF CoResume, queues, client
  <2>2. /\ phase' \in [Coroutines -> {"none", "call", "await", "suspended", "resumed", "done"}]
        /\ phase'[c] = "call" /\ \A d \in Coroutines : d # c => phase'[d] = phase[d]
    BY <1>2, <2>1 DEF StagesOK
  <2>3. /\ pos' \in [Coroutines -> Nat] /\ pos'[c] = pos[c] + 1
        /\ \A d \in Coroutines : d # c => pos'[d] = pos[d]
        /\ pos'[c] \in 1..(Len(Body[c]) + 1)
    BY <1>2, <1>3, <2>1, BodyFacts DEF StagesOK
  <2>4. QueuesOK' /\ StagesOK'
    BY <1>2, <2>1, <2>2, <2>3 DEF QueuesOK, StagesOK
  <2>5. PlaceInv'
    <3>1. GoOn(Coroutines)
      BY <1>1, <2>2 DEF GoOn, Running
    <3>2. UNCHANGED <<jobs, tasks, batch, stack, active>> /\ \A q \in Promises : future'[q] = future[q]
      BY <2>1
    <3> QED BY <1>2, <3>1, <3>2, StayKeepsPlaces
  <2>6. NotYetCalled'
    <3>1. \A d \in Coroutines : \A i \in DOMAIN Body[d] : Uncalled(d, i)' => Uncalled(d, i)
      BY <1>1, <1>2, <2>2, <2>3, OthersUncalled
    <3> QED BY <1>2, <2>1, <3>1, NothingCalled
  <2>7. Goes(c)'
    <3>1. future[c] = "pending"
      BY <1>1, <1>2, RunningIsPending
    <3>2. \A i \in DOMAIN Body[c] : i < pos[c] + 1 => i < pos[c] \/ i = pos[c]
      BY <1>3, BodyFacts
    <3>3. \A i \in DOMAIN Body[c] : i < pos'[c] => future'[Body[c][i]] = "value"
      BY <1>2, <1>3, <1>5, <2>1, <2>3, <3>2 DEF Goes
    <3> QED BY <2>1, <2>2, <3>1, <3>3 DEF Goes
  <2>8. CoroutinesGo'
    <3> SUFFICES ASSUME NEW d \in Coroutines, d # c PROVE Goes(d)'
      BY <2>7 DEF CoroutinesGo
    <3>1. /\ Goes(d) /\ future'[d] = future[d] /\ pos'[d] = pos[d] /\ phase'[d] = phase[d]
          /\ \A q \in Promises : Ready(q) => future'[q] = future[q]
      BY <1>2, <2>1, <2>2, <2>3 DEF CoroutinesGo
    <3> QED BY <1>2, <3>1, GoesOn
  <2> QED BY <2>4, <2>5, <2>6, <2>8, TypeHalvesPrime DEF IInv
<1> QED BY <1>4, <1>5

-----------------------------------------------------------------------------
(* Who takes what is queued.                                                *)

\* What is left when the places of the promises are in order.
LEMMA TakeHolds ==
  ASSUME IInv, NEW t \in Threads, NEW p \in Promises, Take(t, p), PlaceInv',
         NEW u \in Spots, NEW k \in Kinds, k # "stack", Has(u, k, 1, p),
         jobs' \in Seq(Promises), batch' \in [Clients -> Seq(Promises)],
         \A v \in Waiters : batch'[v] = <<>>, tasks' = tasks
  PROVE  IInv'
<1>1. /\ Enter(t, p)
      /\ phase' = [c \in Coroutines |-> IF c = p THEN "resumed" ELSE phase[c]]
      /\ future' = future /\ active' = active /\ pos' = pos /\ next' = next /\ waited' = waited
  BY DEF Take, client
<1>2. TypeOK /\ PlaceInv /\ QueuesOK /\ StagesOK /\ NotYetCalled /\ CoroutinesGo
  BY TypeHalves DEF IInv
<1>3. QueuesOK' /\ StagesOK'
  BY <1>1, <1>2, EnterType DEF QueuesOK, StagesOK
<1>4. p \in Coroutines => phase[p] = "suspended"
  BY <1>2 DEF PlaceInv, QueuedIsSuspended
<1>5. NotYetCalled'
  <2>1. \A d \in Coroutines : \A i \in DOMAIN Body[d] : Uncalled(d, i)' => Uncalled(d, i)
    BY <1>1 DEF Uncalled
  <2> QED BY <1>1, <1>2, <2>1, NothingCalled
<1>6. CoroutinesGo'
  <2> SUFFICES ASSUME NEW d \in Coroutines PROVE Goes(d)'
    BY DEF CoroutinesGo
  <2>1. /\ Goes(d) /\ future'[d] = future[d] /\ pos'[d] = pos[d]
        /\ \A q \in Promises : Ready(q) => future'[q] = future[q]
    BY <1>1, <1>2 DEF CoroutinesGo
  <2>2. \/ phase'[d] = phase[d]
        \/ {phase[d], phase'[d]} \subseteq {"await", "suspended", "resumed"}
    BY <1>1, <1>4
  <2> QED BY <1>2, <2>1, <2>2, GoesOn
<1> QED BY <1>3, <1>5, <1>6, TypeHalvesPrime DEF IInv

LEMMA WorkerPopHolds ==
  ASSUME IInv, NEW w \in Workers, WorkerPop(w)
  PROVE  IInv'
<1>1. /\ stack[w] = <<>> /\ jobs # <<>> /\ Take(w, Head(jobs)) /\ jobs' = Tail(jobs)
      /\ tasks' = tasks /\ batch' = batch
  BY DEF WorkerPop
<1>2. TypeOK /\ PlaceInv /\ QueuesOK /\ w \in Threads
  BY TypeHalves DEF IInv, Threads
<1>3. IsLine(Pool, "jobs") /\ Line(Pool, "jobs") = jobs /\ "jobs" # "stack"
  BY DEF IsLine, Line
<1>4. \A v, l : IsLine(v, l) /\ l # "stack" =>
        Line(v, l)' = IF v = Pool /\ l = "jobs" THEN Tail(Line(Pool, "jobs")) ELSE Line(v, l)
  BY <1>1 DEF IsLine, Line
<1>5. PICK p : p = Head(Line(Pool, "jobs"))
  OBVIOUS
<1>6. Take(w, p) /\ Line(Pool, "jobs") # <<>>
  BY <1>1, <1>3, <1>5
<1>7. PlaceInv' /\ p \in Promises /\ Has(Pool, "jobs", 1, p) /\ Pool \in Spots /\ "jobs" \in Kinds
  BY <1>1, <1>2, <1>3, <1>4, <1>5, <1>6, TakeKeepsPlaces
<1>8. jobs' \in Seq(Promises) /\ batch' \in [Clients -> Seq(Promises)]
      /\ \A v \in Waiters : batch'[v] = <<>>
  BY <1>1, <1>2, TailFacts DEF QueuesOK
<1> QED BY <1>1, <1>2, <1>6, <1>7, <1>8, TakeHolds

LEMMA RunNextHolds ==
  ASSUME IInv, NEW t \in Pollers, RunNext(t)
  PROVE  IInv'
<1>1. /\ stack[t] = <<>> /\ batch[t] # <<>> /\ Take(t, Head(batch[t]))
      /\ batch' = [batch EXCEPT ![t] = Tail(@)]
      /\ jobs' = jobs /\ tasks' = tasks
  BY DEF RunNext
<1>2. /\ TypeOK /\ PlaceInv /\ QueuesOK /\ t \in Threads /\ t \in Clients /\ t \notin Waiters
      /\ Waiters \subseteq Clients
  BY TypeHalves, AsyncAssumption DEF IInv, Threads, Clients
<1>3. IsLine(t, "batch") /\ Line(t, "batch") = batch[t] /\ "batch" # "stack"
  BY <1>2 DEF IsLine, Line
<1>4. \A v, l : IsLine(v, l) /\ l # "stack" =>
        Line(v, l)' = IF v = t /\ l = "batch" THEN Tail(Line(t, "batch")) ELSE Line(v, l)
  BY <1>1, <1>2 DEF IsLine, Line, QueuesOK
<1>5. PICK p : p = Head(Line(t, "batch"))
  OBVIOUS
<1>6. Take(t, p) /\ Line(t, "batch") # <<>>
  BY <1>1, <1>3, <1>5
<1>7. PlaceInv' /\ p \in Promises /\ Has(t, "batch", 1, p) /\ t \in Spots /\ "batch" \in Kinds
  BY <1>1, <1>2, <1>3, <1>4, <1>5, <1>6, TakeKeepsPlaces
<1>8. PICK s \in Seq(Promises) : s = Tail(batch[t])
  BY <1>1, <1>2, TailFacts DEF QueuesOK
<1>9. batch' = [batch EXCEPT ![t] = s]
  BY <1>1, <1>8
<1>10. jobs' \in Seq(Promises) /\ batch' \in [Clients -> Seq(Promises)]
       /\ \A v \in Waiters : batch'[v] = <<>>
  BY <1>1, <1>2, <1>9 DEF QueuesOK
<1> QED BY <1>1, <1>2, <1>6, <1>7, <1>10, TakeHolds

LEMMA SyncPointHolds ==
  ASSUME IInv, NEW t \in Pollers, SyncPoint(t)
  PROVE  IInv'
<1>1. /\ batch' = [batch EXCEPT ![t] = tasks[t]] /\ tasks' = [tasks EXCEPT ![t] = <<>>]
      /\ future' = future /\ jobs' = jobs /\ active' = active /\ stack' = stack
      /\ phase' = phase /\ pos' = pos /\ next' = next /\ waited' = waited
  BY DEF SyncPoint, client
<1>2. /\ TypeOK /\ PlaceInv /\ QueuesOK /\ StagesOK /\ t \in Clients /\ t \notin Waiters
      /\ Waiters \subseteq Clients
  BY TypeHalves, AsyncAssumption DEF IInv, Clients
<1>3. PlaceInv'
  BY <1>2, SyncPointKeepsPlaces
<1>4. <<>> \in Seq(Promises)
  BY EmptySeq
<1>5. QueuesOK' /\ StagesOK'
  BY <1>1, <1>2, <1>4 DEF QueuesOK, StagesOK
<1>6. NotYetCalled' /\ CoroutinesGo'
  BY <1>1 DEF IInv, NotYetCalled, CoroutinesGo, Uncalled, Goes
<1> QED BY <1>3, <1>5, <1>6, TypeHalvesPrime DEF IInv

-----------------------------------------------------------------------------
(* The clients.                                                             *)

LEMMA ClientCallHolds ==
  ASSUME IInv, NEW t \in Clients, ClientCall(t)
  PROVE  IInv'
<1>1. /\ stack[t] = <<>> /\ next[t] <= Len(Owned[t])
      /\ next' = [next EXCEPT ![t] = @ + 1] /\ pos' = pos /\ waited' = waited
  BY DEF ClientCall, AtBase
<1>2. /\ TypeOK /\ PlaceInv /\ QueuesOK /\ StagesOK /\ NotYetCalled /\ CoroutinesGo
      /\ t \in Threads
  BY TypeHalves DEF IInv, Threads
<1>3. PICK k \in DOMAIN Owned[t] : k = next[t]
  BY <1>1, <1>2, OwnedFacts DEF StagesOK
<1>4. PICK p \in Promises : p = Owned[t][k]
  BY OwnedFacts
<1>5. Owned[t][next[t]] = p /\ future[p] = "none"
  BY <1>2, <1>3, <1>4, OwnedFacts DEF NotYetCalled, StagesOK
<1>6. \A y \in Functions, i \in Nat : ~Has(t, "stack", i, y)
  <2>1. DOMAIN stack[t] = {}
    BY <1>1, EmptySeq
  <2> QED BY <2>1 DEF Has, Line
<1>7. /\ \A u \in Clients : \A i \in DOMAIN Owned[u] : Owned[u][i] = p => u = t /\ i = k
      /\ \A d \in Coroutines : \A i \in DOMAIN Body[d] : Body[d][i] # p
  BY <1>3, <1>4, CallsAssumption
<1>8. /\ PlaceInv' /\ QueuesOK' /\ CallOf(p)
      /\ phase' = IF p \in Coroutines THEN [phase EXCEPT ![p] = "call"] ELSE phase
      /\ p \in Coroutines => SetFuture(p, "pending")
  <2>1. CASE p \in Functions
    <3>1. p \notin Coroutines
      BY <2>1, AsyncAssumption
    <3>2. CallFunction(t, p) /\ phase' = phase
      BY <1>5, <3>1 DEF ClientCall
    <3>3. GoOn(Coroutines)
      BY <3>2 DEF GoOn
    <3> QED BY <1>2, <1>5, <1>6, <2>1, <3>1, <3>2, <3>3, CallFunctionHolds DEF CallOf
  <2>2. CASE p \in Coroutines
    <3>1. p \notin Functions
      BY <2>2, AsyncAssumption
    <3>2. CallCoroutine(t, p) /\ phase' = [phase EXCEPT ![p] = "call"]
      BY <1>5, <3>1 DEF ClientCall
    <3>3. GoOn(Coroutines \ {p}) /\ phase'[p] = "call"
      BY <1>2, <2>2, <3>2 DEF GoOn, StagesOK
    <3>4. p \in CoSync => t \in Pollers
      <4> SUFFICES ASSUME p \in CoSync PROVE t \in Pollers
        OBVIOUS
      <4>1. PICK u \in Pollers : p \in Range(Owned[u])
        BY SyncPointAssumption
      <4>2. PICK i \in DOMAIN Owned[u] : Owned[u][i] = p
        BY <4>1 DEF Range
      <4> QED BY <1>7, <4>2 DEF Clients
    <3> QED BY <1>2, <1>5, <1>6, <2>2, <3>2, <3>3, <3>4, CallCoroutineHolds DEF CallOf
  <2> QED BY <2>1, <2>2 DEF Promises
<1>9. /\ \A q \in Promises : Ready(q) => future'[q] = future[q]
      /\ \A q \in Promises : q # p => future'[q] = future[q]
  BY <1>2, <1>8, CallOfKeeps
<1>10. /\ phase' \in [Coroutines -> {"none", "call", "await", "suspended", "resumed", "done"}]
       /\ p \in Coroutines => phase'[p] = "call"
       /\ \A d \in Coroutines : d # p => phase'[d] = phase[d]
  BY <1>2, <1>8 DEF StagesOK
<1>11. /\ next' \in [Clients -> Nat] /\ next'[t] = next[t] + 1
       /\ \A u \in Clients : u # t => next'[u] = next[u]
       /\ next'[t] \in 1..(Len(Owned[t]) + 1)
  BY <1>1, <1>2, OwnedFacts DEF StagesOK
<1>12. StagesOK'
  BY <1>1, <1>2, <1>10, <1>11 DEF StagesOK
<1>13. NotYetCalled'
  <2>1. ASSUME NEW u \in Clients, NEW i \in DOMAIN Owned[u], i >= next'[u]
        PROVE  future'[Owned[u][i]] = "none"
    <3>1. i >= next[u] /\ (u = t => i # k)
      BY <1>2, <1>3, <1>11, <2>1, OwnedFacts DEF StagesOK
    <3>2. Owned[u][i] # p
      BY <1>7, <3>1
    <3> QED BY <1>2, <1>9, <3>1, <3>2, OwnedFacts DEF NotYetCalled
  <2>2. ASSUME NEW d \in Coroutines, NEW i \in DOMAIN Body[d], Uncalled(d, i)'
        PROVE  future'[Body[d][i]] = "none"
    <3>1. Uncalled(d, i)
      <4>1. CASE d = p
        <5>1. Goes(d)
          BY <1>2 DEF CoroutinesGo
        <5>2. phase[d] = "none"
          BY <1>5, <4>1, <5>1 DEF Goes
        <5> QED BY <1>1, <2>2, <5>2 DEF Uncalled
      <4>2. CASE d # p
        BY <1>1, <1>10, <2>2, <4>2 DEF Uncalled
      <4> QED BY <4>1, <4>2
    <3> QED BY <1>2, <1>7, <1>9, <3>1, BodyFacts DEF NotYetCalled
  <2> QED BY <2>1, <2>2 DEF NotYetCalled
<1>14. CoroutinesGo'
  <2> SUFFICES ASSUME NEW d \in Coroutines PROVE Goes(d)'
    BY DEF CoroutinesGo
  <2>0. Goes(d) /\ d \in Promises /\ pos'[d] = pos[d]
    BY <1>1, <1>2 DEF CoroutinesGo, Promises
  <2>1. CASE d = p
    BY <1>2, <1>5, <1>8, <1>10, <2>0, <2>1, CalledGoes
  <2>2. CASE d # p
    BY <1>2, <1>9, <1>10, <2>0, <2>2, GoesOn
  <2> QED BY <2>1, <2>2
<1> QED BY <1>8, <1>12, <1>13, <1>14, TypeHalvesPrime DEF IInv

LEMMA NothingHappens ==
  ASSUME IInv, UNCHANGED <<future, queues, stack, phase, pos, next>>, StagesOK'
  PROVE  IInv'
<1>1. /\ future' = future /\ jobs' = jobs /\ tasks' = tasks /\ batch' = batch
      /\ active' = active /\ stack' = stack /\ phase' = phase /\ pos' = pos /\ next' = next
  BY DEF queues
<1>2. TypeOK /\ PlaceInv /\ QueuesOK
  BY TypeHalves DEF IInv
<1>3. GoOn(Coroutines) /\ UNCHANGED <<jobs, tasks, batch, stack, active>>
      /\ \A q \in Promises : future'[q] = future[q]
  BY <1>1 DEF GoOn
<1>4. PlaceInv'
  BY <1>2, <1>3, StayKeepsPlaces
<1>5. QueuesOK' /\ NotYetCalled' /\ CoroutinesGo'
  BY <1>1, <1>2 DEF IInv, QueuesOK, NotYetCalled, CoroutinesGo, Uncalled, Goes
<1> QED BY <1>4, <1>5, TypeHalvesPrime DEF IInv

LEMMA ReadyClientHolds ==
  ASSUME IInv, NEW t \in Clients, WaitAll(t) \/ AllReady(t)
  PROVE  IInv'
<1>1. /\ UNCHANGED <<future, queues, stack, phase, pos, next>>
      /\ phase' = phase /\ pos' = pos /\ next' = next /\ waited[t] < Len(Owned[t])
      /\ \/ waited' = [waited EXCEPT ![t] = @ + 1]
         \/ waited' = [waited EXCEPT ![t] = Len(Owned[t])]
  BY DEF WaitAll, AllReady, Called
<1>2. StagesOK
  BY TypeHalves DEF IInv
<1>3. PICK n \in 0..Len(Owned[t]) : waited' = [waited EXCEPT ![t] = n]
  <2>1. Len(Owned[t]) \in 0..Len(Owned[t]) /\ waited[t] + 1 \in 0..Len(Owned[t])
    BY <1>1, <1>2, OwnedFacts DEF StagesOK
  <2> QED BY <1>1, <2>1
<1>4. n \in Nat
  BY OwnedFacts
<1>5. StagesOK'
  BY <1>1, <1>2, <1>3, <1>4 DEF StagesOK
<1> QED BY <1>1, <1>5, NothingHappens

-----------------------------------------------------------------------------
(* The steps together.                                                      *)

LEMMA InitHolds ==
  ASSUME Init
  PROVE  IInv
<1>1. <<>> \in Seq(Promises) /\ DOMAIN <<>> = {}
  BY EmptySeq
<1>2. Waiters \subseteq Clients /\ Clients \subseteq Threads
  BY DEF Clients, Threads
<1>3. QueuesOK
  BY <1>1, <1>2 DEF Init, QueuesOK
<1>4. StagesOK
  BY BodyFacts, OwnedFacts DEF Init, StagesOK
<1>5. \A u, l, i, q : ~Has(u, l, i, q)
  BY <1>1 DEF Init, Has, IsLine, Line
<1>6. PlaceInv
  <2>1. PendingIsHeld
    BY DEF Init, PendingIsHeld
  <2>2. HeldOnce /\ HeldIsPending /\ FunctionsOnTop /\ QueuedIsSuspended
    BY <1>5 DEF HeldOnce, HeldIsPending, FunctionsOnTop, QueuedIsSuspended
  <2>3. CoSyncOnPollers /\ TagsTaken /\ TagsOnce
    BY <1>5 DEF CoSyncOnPollers, TagsTaken, TagsOnce
  <2> QED BY <2>1, <2>2, <2>3 DEF PlaceInv
<1>7. NotYetCalled
  BY BodyFacts, OwnedFacts DEF Init, NotYetCalled
<1>8. CoroutinesGo
  <2> SUFFICES ASSUME NEW c \in Coroutines PROVE Goes(c)
    BY DEF CoroutinesGo
  <2>1. future[c] = "none" /\ phase[c] = "none" /\ pos[c] = 1
    BY DEF Init, Promises
  <2>2. \A i \in DOMAIN Body[c] : ~(i < 1)
    BY BodyFacts
  <2> QED BY <2>1, <2>2 DEF Goes
<1> QED BY <1>3, <1>4, <1>6, <1>7, <1>8, TypeHalves DEF IInv

LEMMA CoStepHolds ==
  ASSUME IInv, NEW t \in Threads, CoStep(t)
  PROVE  IInv'
BY CoCallHolds, CoSuspendHolds, CoResumeHolds, CoReturnHolds DEF CoStep

LEMMA RunFunctionHolds ==
  ASSUME IInv, NEW t \in Threads, RunFunction(t)
  PROVE  IInv'
BY FunctionEndHolds, PutTagBackHolds DEF RunFunction

LEMMA NextHolds ==
  ASSUME IInv, [Next]_vars
  PROVE  IInv'
<1>1. /\ Waiters \subseteq Clients /\ Pollers \subseteq Clients
      /\ Clients \subseteq Threads /\ Workers \subseteq Threads
  BY DEF Clients, Threads
<1>2. CASE \E w \in Workers : WorkerStep(w)
  BY <1>1, <1>2, WorkerPopHolds, RunFunctionHolds, CoStepHolds DEF WorkerStep
<1>3. CASE \E t \in Waiters : ClientCall(t) \/ WaiterStep(t)
  BY <1>1, <1>3, ClientCallHolds, RunFunctionHolds, CoStepHolds, ReadyClientHolds DEF WaiterStep
<1>4. CASE \E t \in Pollers : ClientCall(t) \/ PollerStep(t) \/ SyncPoint(t)
  BY <1>1, <1>4, ClientCallHolds, RunFunctionHolds, CoStepHolds, RunNextHolds, ReadyClientHolds,
     SyncPointHolds DEF PollerStep
<1>5. CASE UNCHANGED vars
  <2>1. UNCHANGED <<future, queues, stack, phase, pos, next>> /\ waited' = waited /\ phase' = phase
        /\ pos' = pos /\ next' = next
    BY <1>5 DEF vars, client
  <2>2. StagesOK'
    BY <2>1, TypeHalves DEF IInv, StagesOK
  <2> QED BY <2>1, <2>2, NothingHappens
<1> QED BY <1>2, <1>3, <1>4, <1>5 DEF Next

LEMMA Invariance == Spec => []IInv
BY InitHolds, NextHolds, PTL DEF Spec, Safety

-----------------------------------------------------------------------------
(* What it shows.                                                           *)

\* Futures, queues, tags, stacks and the stages of coroutines and clients hold
\* only what the code puts there: an await is of an operand that the coroutine
\* has, and nothing is queued for a thread that makes no sync_point.
THEOREM TypeCorrect == Spec => []TypeOK
<1>1. IInv => TypeOK
  BY DEF IInv
<1> QED BY <1>1, Invariance, PTL

LEMMA PlacesAreHad ==
  ASSUME TypeOK, NEW p, NEW x
  PROVE  x \in Places(p) <=>
           \E t \in Spots, k \in Kinds, i \in Nat : x = <<t, k, i>> /\ Has(t, k, i, p)
<1>1. /\ \A i \in DOMAIN jobs : i \in Nat
      /\ \A t \in Threads : \A i \in DOMAIN stack[t] : i \in Nat
      /\ \A t \in Clients : \A i \in DOMAIN tasks[t] : i \in Nat
      /\ \A t \in Clients : \A i \in DOMAIN batch[t] : i \in Nat
  BY LenProperties DEF TypeOK
<1>2. Clients \subseteq Threads /\ Threads \subseteq Spots /\ Pool \in Spots
      /\ "jobs" \in Kinds /\ "stack" \in Kinds /\ "tasks" \in Kinds /\ "batch" \in Kinds
  BY DEF Spots, Threads, Kinds
<1> DEFINE In(s) == {i \in DOMAIN s : s[i] = p}
<1>3. x \in {<<Pool, "jobs", i>> : i \in In(jobs)}
        <=> \E i \in Nat : x = <<Pool, "jobs", i>> /\ Has(Pool, "jobs", i, p)
  BY <1>1 DEF Has, IsLine, Line
<1>4. x \in UNION {{<<t, "stack", i>> : i \in In(stack[t])} : t \in Threads}
        <=> \E t \in Threads, i \in Nat : x = <<t, "stack", i>> /\ Has(t, "stack", i, p)
  <2>1. ASSUME NEW t \in Threads
        PROVE  \A i : i \in In(stack[t]) <=> i \in Nat /\ Has(t, "stack", i, p)
    BY <1>1 DEF Has, IsLine, Line
  <2> HIDE DEF In
  <2> QED BY <2>1
<1>5. x \in UNION {{<<t, "tasks", i>> : i \in In(tasks[t])} : t \in Clients}
        <=> \E t \in Clients, i \in Nat : x = <<t, "tasks", i>> /\ Has(t, "tasks", i, p)
  <2>1. ASSUME NEW t \in Clients
        PROVE  \A i : i \in In(tasks[t]) <=> i \in Nat /\ Has(t, "tasks", i, p)
    BY <1>1 DEF Has, IsLine, Line
  <2> HIDE DEF In
  <2> QED BY <2>1
<1>6. x \in UNION {{<<t, "batch", i>> : i \in In(batch[t])} : t \in Clients}
        <=> \E t \in Clients, i \in Nat : x = <<t, "batch", i>> /\ Has(t, "batch", i, p)
  <2>1. ASSUME NEW t \in Clients
        PROVE  \A i : i \in In(batch[t]) <=> i \in Nat /\ Has(t, "batch", i, p)
    BY <1>1 DEF Has, IsLine, Line
  <2> HIDE DEF In
  <2> QED BY <2>1
<1>7. x \in Places(p) <=>
        \/ \E i \in Nat : x = <<Pool, "jobs", i>> /\ Has(Pool, "jobs", i, p)
        \/ \E t \in Threads, i \in Nat : x = <<t, "stack", i>> /\ Has(t, "stack", i, p)
        \/ \E t \in Clients, i \in Nat : x = <<t, "tasks", i>> /\ Has(t, "tasks", i, p)
        \/ \E t \in Clients, i \in Nat : x = <<t, "batch", i>> /\ Has(t, "batch", i, p)
  <2> DEFINE J == {<<Pool, "jobs", i>> : i \in In(jobs)}
             S == UNION {{<<t, "stack", i>> : i \in In(stack[t])} : t \in Threads}
             T == UNION {{<<t, "tasks", i>> : i \in In(tasks[t])} : t \in Clients}
             B == UNION {{<<t, "batch", i>> : i \in In(batch[t])} : t \in Clients}
  <2>1. Places(p) = J \cup S \cup T \cup B
    BY Zenon DEF Places
  <2> HIDE DEF In
  <2>2. x \in J <=> \E i \in Nat : x = <<Pool, "jobs", i>> /\ Has(Pool, "jobs", i, p)
    BY ONLY <1>3
  <2>3. x \in S <=> \E t \in Threads, i \in Nat : x = <<t, "stack", i>> /\ Has(t, "stack", i, p)
    BY ONLY <1>4
  <2>4. x \in T <=> \E t \in Clients, i \in Nat : x = <<t, "tasks", i>> /\ Has(t, "tasks", i, p)
    BY ONLY <1>5
  <2>5. x \in B <=> \E t \in Clients, i \in Nat : x = <<t, "batch", i>> /\ Has(t, "batch", i, p)
    BY ONLY <1>6
  <2> HIDE DEF J, S, T, B
  <2> QED BY ONLY <2>1, <2>2, <2>3, <2>4, <2>5
<1>8. ASSUME NEW t \in Spots, NEW k \in Kinds, NEW i \in Nat, x = <<t, k, i>>, Has(t, k, i, p)
      PROVE  x \in Places(p)
  BY <1>7, <1>8 DEF Has, IsLine
<1>9. ASSUME x \in Places(p)
      PROVE  \E t \in Spots, k \in Kinds, i \in Nat : x = <<t, k, i>> /\ Has(t, k, i, p)
  BY <1>2, <1>7, <1>9
<1> QED BY <1>8, <1>9

\* A future that is not ready has exactly one function or coroutine that will
\* make it so, in one place; a ready one has none but a function that has still
\* its tag to put back.
THEOREM OneKeeperHolds == Spec => []OneKeeper
<1>1. ASSUME IInv PROVE OneKeeper
  <2>0. TypeOK /\ PlaceInv
    BY <1>1 DEF IInv
  <2>1. ASSUME NEW p \in Promises, future[p] = "pending"
        PROVE  Cardinality(Places(p)) = 1
    <3>1. PICK t \in Spots, k \in Kinds, i \in Nat : Has(t, k, i, p)
      BY <2>0, <2>1 DEF PlaceInv, PendingIsHeld
    <3>2. <<t, k, i>> \in Places(p)
      BY <2>0, <3>1, PlacesAreHad
    <3>3. ASSUME NEW x \in Places(p) PROVE x = <<t, k, i>>
      <4>1. PICK u \in Spots, l \in Kinds, j \in Nat : x = <<u, l, j>> /\ Has(u, l, j, p)
        BY <2>0, <3>3, PlacesAreHad
      <4>2. u = t /\ l = k /\ j = i
        BY <2>0, <3>1, <4>1 DEF PlaceInv, HeldOnce
      <4> QED BY <4>1, <4>2
    <3>4. Places(p) = {<<t, k, i>>}
      BY <3>2, <3>3
    <3> QED BY <3>4, FS_Singleton
  <2>2. ASSUME NEW p \in Promises, future[p] # "pending", NEW place \in Places(p)
        PROVE  /\ p \in Functions /\ TagOf[p] # NoTag
               /\ TagOf[p] \notin SelfTags => active[TagOf[p]]
               /\ place[2] = "stack" /\ place[3] = Len(stack[place[1]])
    <3>1. PICK t \in Spots, k \in Kinds, i \in Nat : place = <<t, k, i>> /\ Has(t, k, i, p)
      BY <2>0, <2>2, PlacesAreHad
    <3>2. p \in Functions /\ TagOf[p] # NoTag /\ k = "stack"
      BY <2>0, <2>2, <3>1 DEF PlaceInv, HeldIsPending
    <3>3. TagOf[p] \notin SelfTags => active[TagOf[p]]
      BY <2>0, <3>1, <3>2 DEF PlaceInv, TagsTaken, OwnsTag
    <3>4. i = Len(stack[t])
      BY <2>0, <3>1, <3>2 DEF PlaceInv, FunctionsOnTop
    <3>5. place[1] = t /\ place[2] = k /\ place[3] = i
      BY <3>1
    <3> QED BY <3>2, <3>3, <3>4, <3>5
  <2> QED BY <2>1, <2>2 DEF OneKeeper
<1> QED BY <1>1, Invariance, PTL

\* A coroutine has a value when all it awaited have one; it ends with an
\* exception at the first that has none, and what comes after is not called.
THEOREM OutcomeFollows == Spec => []OutcomeOfAwaited
<1>1. ASSUME IInv PROVE OutcomeOfAwaited
  <2> SUFFICES ASSUME NEW c \in Coroutines
               PROVE
                 /\ future[c] = "value" => \A i \in DOMAIN Body[c] : future[Body[c][i]] = "value"
                 /\ future[c] = "exception" =>
                      \E i \in DOMAIN Body[c] :
                        /\ future[Body[c][i]] \in {"exception", "broken"}
                        /\ \A j \in 1..(i - 1) : future[Body[c][j]] = "value"
                        /\ \A j \in (i + 1)..Len(Body[c]) : future[Body[c][j]] = "none"
    BY DEF OutcomeOfAwaited
  <2>0. Goes(c) /\ NotYetCalled
    BY <1>1 DEF IInv, CoroutinesGo
  <2>1. Len(Body[c]) \in Nat /\ DOMAIN Body[c] = 1..Len(Body[c])
    BY BodyFacts
  <2>2. \A i \in DOMAIN Body[c] : i < pos[c] => future[Body[c][i]] = "value"
    BY <2>0 DEF Goes
  <2>3. ASSUME future[c] = "value", NEW i \in DOMAIN Body[c]
        PROVE  future[Body[c][i]] = "value"
    <3>1. pos[c] \in Nat /\ pos[c] > Len(Body[c])
      BY <1>1, <2>0, <2>3 DEF Goes, IInv, TypeOK
    <3> QED BY <2>1, <2>2, <2>3, <3>1
  <2>4. ASSUME future[c] = "exception"
        PROVE  \E i \in DOMAIN Body[c] :
                 /\ future[Body[c][i]] \in {"exception", "broken"}
                 /\ \A j \in 1..(i - 1) : future[Body[c][j]] = "value"
                 /\ \A j \in (i + 1)..Len(Body[c]) : future[Body[c][j]] = "none"
    <3>1. pos[c] \in DOMAIN Body[c] /\ future[Body[c][pos[c]]] \in {"exception", "broken"}
      BY <2>0, <2>4 DEF Goes
    <3>2. \A j \in 1..(pos[c] - 1) : j \in DOMAIN Body[c] /\ j < pos[c]
      BY <2>1, <3>1
    <3>3. \A j \in (pos[c] + 1)..Len(Body[c]) : j \in DOMAIN Body[c] /\ j > pos[c]
      BY <2>1, <3>1
    <3>4. \A j \in (pos[c] + 1)..Len(Body[c]) : future[Body[c][j]] = "none"
      BY <2>0, <3>3 DEF NotYetCalled, Uncalled
    <3> QED BY <2>2, <3>1, <3>2, <3>4
  <2> QED BY <2>3, <2>4
<1> QED BY <1>1, Invariance, PTL

=============================================================================
