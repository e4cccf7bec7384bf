---------------------------- MODULE JThreadProofs ----------------------------
(***************************************************************************)
(* What TLAPS proves of StopState and JThread, for any threads, states,     *)
(* handles and pools, and any finite set of callbacks: a stop reaches each  *)
(* callback that is alive exactly once and none that is destroyed, the      *)
(* handle of a thread is the one that stops it, and request_stop of a pool  *)
(* has told all its threads when it returns.                                *)
(***************************************************************************)
EXTENDS JThread, FiniteSetTheorems, SequenceTheorems, TLAPS

-----------------------------------------------------------------------------
(* The inductive invariant.  A frame is a position in the stack of a thread.*)

Depth(t) == DOMAIN frames[t]

\* Its operation holds the mutex of its state.
Holds(f) ==
  \/ f.op = "request_stop" /\ f.at = "loop"
  \/ f.op = "add_callback" /\ f.at \in {"call", "return"} /\ f.state # NoState

\* Its operation constructs or destroys a callback.
OwnsCallback(f) == f.op \in {"add_callback", "remove_callback"}

\* The frame below the function of c is the operation that called it.
CallsFunction(f, c, lists) ==
  \/ f.op = "request_stop" /\ f.at = "loop" /\ c \in Range(lists[f.state])
  \/ f.op = "add_callback" /\ f.at = "return" /\ f.callback = c

\* The callbacks that a state is about to call, or has called.
Registered(s) == {c \in Callbacks : token[c] = s /\ life[c] \in {"alive", "destroying"}}

Formed(f) ==
  /\ f.op = "request_stop" => f.callback = NoCallback /\ f.at \in {"lock", "loop"}
  /\ f.op \in {"add_callback", "remove_callback", "callback"} => f.callback \in Callbacks
  /\ f.at \in {"lock", "call"} => f.n = 1

FramesAreFormed == \A t \in Threads : \A i \in Depth(t) : Formed(frames[t][i])

HoldersOwnMutex ==
  \A t \in Threads : \A i \in Depth(t) :
    Holds(frames[t][i]) =>
      /\ frames[t][i].state \in States
      /\ mutex[frames[t][i].state] = t
      /\ \A j \in Depth(t) :
           Holds(frames[t][j]) /\ frames[t][j].state = frames[t][i].state => j = i

FunctionsAreCalled ==
  \A t \in Threads : \A i \in Depth(t) :
    frames[t][i].op = "callback" =>
      i > 1 /\ CallsFunction(frames[t][i - 1], frames[t][i].callback, callbacks)

\* Constructors and destructors, and whether the constructor's call is made.
LifeFits(f) ==
  /\ f.op = "add_callback" =>
       /\ life[f.callback] = "constructing" /\ token[f.callback] = f.state
       /\ f.at \in {"lock", "call", "return"}
       /\ calls[f.callback] = (IF f.at = "return" THEN 1 ELSE 0)
       /\ f.at = "lock" => f.state # NoState
       /\ f.at # "lock" /\ f.state # NoState => stopping[f.state]
  /\ f.op = "remove_callback" =>
       life[f.callback] = "destroying" /\ token[f.callback] = f.state

LivesAreOwned == \A t \in Threads : \A i \in Depth(t) : LifeFits(frames[t][i])

OneOwner ==
  \A t, u \in Threads : \A i \in Depth(t), j \in Depth(u) :
    OwnsCallback(frames[t][i]) /\ OwnsCallback(frames[u][j])
      /\ frames[t][i].callback = frames[u][j].callback => t = u /\ i = j

Unborn == \A c \in Callbacks : life[c] = "none" => calls[c] = 0

\* What is in the list of s is alive, and there once.
ListIsSet(s) ==
  /\ \A k \in DOMAIN callbacks[s] : callbacks[s][k] \in Registered(s)
  /\ \A k, m \in DOMAIN callbacks[s] : callbacks[s][k] = callbacks[s][m] => k = m

\* No stop was requested: all are in the list, and none was called.
BeforeStop(s) ==
  ~stopping[s] =>
    /\ wins[s] = 0
    /\ \A c \in Registered(s) : calls[c] = 0 /\ c \in Range(callbacks[s])

Loops(f, s) == f.op = "request_stop" /\ f.at = "loop" /\ f.state = s

\* The loop has called those before its place in the list.
Looping(n, s) ==
  /\ stopping[s] /\ wins[s] = 0
  /\ n \in 1..Len(callbacks[s]) + 1
  /\ \A c \in Registered(s) : c \in Range(callbacks[s])
  /\ \A k \in DOMAIN callbacks[s] : calls[callbacks[s][k]] = IF k < n THEN 1 ELSE 0

DuringStop(s) ==
  \A t \in Threads : \A i \in Depth(t) :
    Loops(frames[t][i], s) => Looping(frames[t][i].n, s)

\* A loop won, called all and cleared the list.
Cleared(s) ==
  wins[s] = 1 /\ callbacks[s] = <<>> /\ \A c \in Registered(s) : calls[c] = 1

AfterStop(s) ==
  stopping[s] /\ (\A t \in Threads : \A i \in Depth(t) : ~Loops(frames[t][i], s)) =>
    Cleared(s)

StateFits(s) == ListIsSet(s) /\ BeforeStop(s) /\ DuringStop(s) /\ AfterStop(s)
StatesFit == \A s \in States : StateFits(s)

\* A thread that was launched is in one handle, with its state.
HandlesFit ==
  /\ \A h \in Handles : impl[h] # Nobody =>
       /\ Alive(h) /\ running[impl[h]] # "none" /\ source[h] = StateOf[impl[h]]
       /\ impl[h] \notin detached
  /\ \A g, h \in Handles : impl[g] = impl[h] /\ impl[h] # Nobody => g = h
  /\ \A w \in Workers : running[w] = "running" /\ w \notin detached =>
       \E h \in Handles : impl[h] = w
  /\ \A w \in detached : running[w] # "none"
  /\ \A i \in Depth(Owner) : LET f == frames[Owner][i] IN
       f.op = "destroy" /\ f.at = "destroy" => impl[f.handle] = Nobody

StopInv ==
  /\ FramesAreFormed
  /\ HoldersOwnMutex /\ FunctionsAreCalled
  /\ LivesAreOwned /\ OneOwner /\ Unborn
  /\ StatesFit

IInv == TypeOK /\ StopInv /\ HandlesFit

-----------------------------------------------------------------------------
(* What the operations on stacks do to them, frame by frame.                *)

Frames == StateFrames \cup HandleFrames \cup PoolFrames

\* The stack of t keeps its k lowest frames and has m others on top of them.
Keeps(t, k, m) ==
  /\ frames' \in [Threads -> Seq(Frames)]
  /\ \A u \in Threads \ {t} : frames'[u] = frames[u]
  /\ Len(frames[t]) \in Nat /\ DOMAIN frames[t] = 1..Len(frames[t])
  /\ k \in 0..Len(frames[t])
  /\ DOMAIN frames'[t] = 1..(k + m)
  /\ \A i \in 1..k : frames'[t][i] = frames[t][i]

LEMMA FrontAndLast ==
  ASSUME NEW S, NEW s \in Seq(S), s # <<>>
  PROVE  /\ Len(s) \in Nat \ {0} /\ DOMAIN s = 1..Len(s)
         /\ Front(s) \in Seq(S) /\ Len(Front(s)) = Len(s) - 1
         /\ \A i \in 1..(Len(s) - 1) : Front(s)[i] = s[i]
         /\ Last(s) = s[Len(s)] /\ Last(s) \in S
<1>1. Len(s) \in Nat \ {0} /\ DOMAIN s = 1..Len(s)
  BY EmptySeq, LenProperties
<1>2. \A i \in 1..(Len(s) - 1) : s[i] \in S
  BY <1>1, ElementOfSeq
<1>3. /\ SubSeq(s, 1, Len(s) - 1) \in Seq(S)
      /\ Len(SubSeq(s, 1, Len(s) - 1)) = IF 1 <= Len(s) - 1 THEN (Len(s) - 1) - 1 + 1 ELSE 0
      /\ \A i \in 1..((Len(s) - 1) - 1 + 1) : SubSeq(s, 1, Len(s) - 1)[i] = s[1 + i - 1]
  <2>1. Len(s) - 1 \in Int /\ 1 \in Int
    BY <1>1
  <2> HIDE DEF Front
  <2> QED BY <1>2, <2>1, SubSeqProperties
<1>4. s[Len(s)] \in S
  BY <1>1, ElementOfSeq
<1> QED BY <1>1, <1>3, <1>4 DEF Front, Last

LEMMA PopKeeps ==
  ASSUME TypeOK, NEW t \in Threads, frames[t] # <<>>, Pop(t)
  PROVE  Keeps(t, Len(frames[t]) - 1, 0)
<1>1. frames[t] \in Seq(Frames)
  BY DEF TypeOK, Frames
<1>2. /\ Len(frames[t]) \in Nat \ {0} /\ DOMAIN frames[t] = 1..Len(frames[t])
      /\ Front(frames[t]) \in Seq(Frames) /\ Len(Front(frames[t])) = Len(frames[t]) - 1
      /\ \A i \in 1..(Len(frames[t]) - 1) : Front(frames[t])[i] = frames[t][i]
  BY <1>1, FrontAndLast
<1>3. DOMAIN Front(frames[t]) = 1..(Len(frames[t]) - 1)
  BY <1>2, LenProperties
<1>4. frames'[t] = Front(frames[t]) /\ \A u \in Threads \ {t} : frames'[u] = frames[u]
  BY DEF Pop, TypeOK
<1>5. frames' \in [Threads -> Seq(Frames)]
  BY <1>2 DEF Pop, TypeOK, Frames
<1> QED BY <1>2, <1>3, <1>4, <1>5 DEF Keeps

LEMMA PushKeeps ==
  ASSUME TypeOK, NEW t \in Threads, NEW f \in Frames, Push(t, f)
  PROVE  /\ Keeps(t, Len(frames[t]), 1)
         /\ frames'[t][Len(frames[t]) + 1] = f
<1>1. frames[t] \in Seq(Frames)
  BY DEF TypeOK, Frames
<1>2. /\ Len(frames[t]) \in Nat /\ DOMAIN frames[t] = 1..Len(frames[t])
      /\ Append(frames[t], f) \in Seq(Frames)
      /\ Len(Append(frames[t], f)) = Len(frames[t]) + 1
      /\ \A i \in 1..Len(frames[t]) : Append(frames[t], f)[i] = frames[t][i]
      /\ Append(frames[t], f)[Len(frames[t]) + 1] = f
  BY <1>1, AppendProperties, LenProperties
<1>3. DOMAIN Append(frames[t], f) = 1..(Len(frames[t]) + 1)
  BY <1>2, LenProperties
<1>4. frames'[t] = Append(frames[t], f) /\ \A u \in Threads \ {t} : frames'[u] = frames[u]
  BY DEF Push, TypeOK
<1>5. frames' \in [Threads -> Seq(Frames)]
  BY <1>2 DEF Push, TypeOK, Frames
<1> QED BY <1>2, <1>3, <1>4, <1>5 DEF Keeps

LEMMA GoToKeeps ==
  ASSUME TypeOK, NEW t \in Threads, frames[t] # <<>>, NEW at,
         [Top(t) EXCEPT !.at = at] \in Frames, GoTo(t, at)
  PROVE  /\ Keeps(t, Len(frames[t]) - 1, 1)
         /\ frames'[t][Len(frames[t])] = [Top(t) EXCEPT !.at = at]
<1> DEFINE s == frames[t]
           f == [Top(t) EXCEPT !.at = at]
<1>1. s \in Seq(Frames) /\ Len(s) \in 1..Len(s) /\ Len(s) \in Nat
  BY FrontAndLast DEF TypeOK, Frames
<1>2. frames'[t] = [s EXCEPT ![Len(s)] = f]
  BY DEF GoTo, Top, Last, TypeOK
<1>3. /\ frames'[t] \in Seq(Frames) /\ Len(frames'[t]) = Len(s)
      /\ \A i \in 1..Len(s) : frames'[t][i] = IF i = Len(s) THEN f ELSE s[i]
  <2> HIDE DEF s, f
  <2> QED BY <1>1, <1>2, ExceptSeq DEF f
<1>4. \A u \in Threads \ {t} : frames'[u] = frames[u]
  BY DEF GoTo, TypeOK
<1>5. frames' \in [Threads -> Seq(Frames)]
  <2>1. frames' = [frames EXCEPT ![t] = frames'[t]]
    BY DEF GoTo, TypeOK
  <2> QED BY <1>3, <2>1 DEF TypeOK, Frames
<1>6. DOMAIN s = 1..Len(s) /\ DOMAIN frames'[t] = 1..Len(s)
  BY <1>1, <1>3, LenProperties
<1>7. (Len(s) - 1) + 1 = Len(s) /\ Len(s) - 1 \in 0..Len(s)
  BY <1>1
<1>8. /\ \A i \in 1..(Len(s) - 1) : frames'[t][i] = s[i]
      /\ frames'[t][Len(s)] = f
  BY <1>1, <1>3
<1>9. Keeps(t, Len(s) - 1, 1)
  BY <1>1, <1>4, <1>5, <1>6, <1>7, <1>8 DEF Keeps
<1> QED BY <1>8, <1>9

\* The frame on top becomes f, and g is put on it.
LEMMA RaiseKeeps ==
  ASSUME TypeOK, NEW t \in Threads, frames[t] # <<>>, NEW f \in Frames,
         NEW g \in Seq(Frames),
         frames' = [frames EXCEPT ![t] = Append(Front(@), f) \o g]
  PROVE  /\ Keeps(t, Len(frames[t]) - 1, 1 + Len(g))
         /\ frames'[t][Len(frames[t])] = f
         /\ \A i \in 1..Len(g) : frames'[t][Len(frames[t]) + i] = g[i]
<1> DEFINE s == frames[t]
           h == Append(Front(s), f)
<1>1. s \in Seq(Frames) /\ s # <<>>
  BY DEF TypeOK, Frames
<1>2. /\ Len(s) \in Nat \ {0} /\ DOMAIN s = 1..Len(s)
      /\ Front(s) \in Seq(Frames) /\ Len(Front(s)) = Len(s) - 1
      /\ \A i \in 1..(Len(s) - 1) : Front(s)[i] = s[i]
  BY <1>1, FrontAndLast
<1>3. /\ h \in Seq(Frames) /\ Len(h) = Len(s)
      /\ \A i \in 1..(Len(s) - 1) : h[i] = s[i]
      /\ h[Len(s)] = f
  <2>1. /\ h \in Seq(Frames) /\ Len(h) = Len(Front(s)) + 1
        /\ \A i \in 1..Len(Front(s)) : h[i] = Front(s)[i]
        /\ h[Len(Front(s)) + 1] = f
    BY <1>2, AppendProperties
  <2> HIDE DEF h, s
  <2>2. Len(Front(s)) + 1 = Len(s)
    BY <1>2
  <2> QED BY <1>2, <2>1, <2>2
<1>4. frames'[t] = h \o g /\ \A u \in Threads \ {t} : frames'[u] = frames[u]
  BY DEF TypeOK
<1> HIDE DEF h
<1>5. Len(g) \in Nat /\ Len(h) \in Nat
  BY <1>2, <1>3, LenProperties
<1>6. /\ h \o g \in Seq(Frames) /\ Len(h \o g) = Len(h) + Len(g)
      /\ \A i \in 1..(Len(h) + Len(g)) :
           (h \o g)[i] = IF i <= Len(h) THEN h[i] ELSE g[i - Len(h)]
  <2>1. h \in Seq(Frames) /\ g \in Seq(Frames)
    BY <1>3
  <2> QED BY ONLY <2>1, ConcatProperties
<1>7. DOMAIN (h \o g) = 1..(Len(s) + Len(g))
  BY <1>3, <1>6, LenProperties
<1>8. frames' \in [Threads -> Seq(Frames)]
  <2>1. frames' = [frames EXCEPT ![t] = frames'[t]]
    BY DEF TypeOK
  <2> QED BY <1>4, <1>6, <2>1 DEF TypeOK, Frames
<1>9. /\ (Len(s) - 1) + (1 + Len(g)) = Len(s) + Len(g)
      /\ Len(s) - 1 \in 0..Len(s) /\ Len(s) \in Nat
  <2> HIDE DEF s
  <2> QED BY <1>2, <1>5
<1>10. \A i \in 1..(Len(s) - 1) : frames'[t][i] = s[i]
  BY <1>2, <1>3, <1>4, <1>5, <1>6
<1>11. frames'[t][Len(s)] = f
  BY <1>2, <1>3, <1>4, <1>5, <1>6
<1>12. \A i \in 1..Len(g) : frames'[t][Len(s) + i] = g[i]
  <2> SUFFICES ASSUME NEW i \in 1..Len(g) PROVE frames'[t][Len(s) + i] = g[i]
    OBVIOUS
  <2>1. Len(s) + i \in 1..(Len(h) + Len(g)) /\ ~(Len(s) + i <= Len(h)) /\ Len(s) + i - Len(h) = i
    BY <1>2, <1>3, <1>5
  <2> QED BY <1>4, <1>6, <2>1
<1>13. Keeps(t, Len(s) - 1, 1 + Len(g))
  BY <1>2, <1>4, <1>7, <1>8, <1>9, <1>10 DEF Keeps
<1> QED BY <1>11, <1>12, <1>13

\* The stack is replaced.
LEMMA StartKeeps ==
  ASSUME TypeOK, NEW t \in Threads, NEW g \in Seq(Frames),
         frames' = [frames EXCEPT ![t] = g]
  PROVE  Keeps(t, 0, Len(g)) /\ frames'[t] = g
<1>1. frames[t] \in Seq(Frames) /\ frames'[t] = g
  BY DEF TypeOK, Frames
<1>2. /\ Len(frames[t]) \in Nat /\ DOMAIN frames[t] = 1..Len(frames[t])
      /\ Len(g) \in Nat /\ DOMAIN g = 1..Len(g)
  BY <1>1, LenProperties
<1>3. frames' \in [Threads -> Seq(Frames)] /\ \A u \in Threads \ {t} : frames'[u] = frames[u]
  BY DEF TypeOK, Frames
<1>4. 0 \in 0..Len(frames[t]) /\ 0 + Len(g) = Len(g)
  BY <1>2
<1> QED BY <1>1, <1>2, <1>3, <1>4 DEF Keeps

LEMMA CallKeeps ==
  ASSUME TypeOK, NEW t \in Threads, frames[t] # <<>>, NEW at, NEW g \in Frames,
         [Top(t) EXCEPT !.at = at, !.n = Top(t).n + 1] \in Frames,
         GoToAndPush(t, at, g)
  PROVE  /\ Keeps(t, Len(frames[t]) - 1, 2)
         /\ frames'[t][Len(frames[t])] = [Top(t) EXCEPT !.at = at, !.n = Top(t).n + 1]
         /\ frames'[t][Len(frames[t]) + 1] = g
<1> DEFINE f == [Top(t) EXCEPT !.at = at, !.n = Top(t).n + 1]
<1>1. <<g>> \in Seq(Frames) /\ Len(<<g>>) = 1 /\ <<g>>[1] = g
  OBVIOUS
<1>2. frames' = [frames EXCEPT ![t] = Append(Front(@), f) \o <<g>>]
  BY DEF GoToAndPush
<1>3. f \in Frames
  OBVIOUS
<1> HIDE DEF f
<1>4. /\ Keeps(t, Len(frames[t]) - 1, 1 + Len(<<g>>))
      /\ frames'[t][Len(frames[t])] = f
      /\ \A i \in 1..Len(<<g>>) : frames'[t][Len(frames[t]) + i] = <<g>>[i]
  BY <1>1, <1>2, <1>3, RaiseKeeps
<1>5. 1 \in 1..Len(<<g>>) /\ 1 + Len(<<g>>) = 2
  BY <1>1
<1>6. frames'[t][Len(frames[t]) + 1] = g
  BY <1>1, <1>4, <1>5
<1> QED BY <1>4, <1>5, <1>6 DEF f

\* A frame is there before and after the step, or is one of those on top.
LEMMA KeptFrames ==
  ASSUME TypeOK, NEW t \in Threads, NEW k \in Nat, NEW m \in Nat, Keeps(t, k, m)
  PROVE  /\ \A u \in Threads : \A i \in Depth(u)' :
              \/ u = t /\ i \in (k + 1)..(k + m)
              \/ /\ i \in Depth(u) /\ frames'[u][i] = frames[u][i]
                 /\ i > 1 => i - 1 \in Depth(u)' /\ i - 1 \in Depth(u)
                             /\ frames'[u][i - 1] = frames[u][i - 1]
         /\ \A u \in Threads : \A i \in Depth(u) :
              \/ u = t /\ i > k
              \/ i \in Depth(u)' /\ frames'[u][i] = frames[u][i]
<1>1. \A u \in Threads : Len(frames[u]) \in Nat /\ DOMAIN frames[u] = 1..Len(frames[u])
  BY LenProperties DEF TypeOK
<1>2. \A u \in Threads \ {t} : \A i \in Depth(u)' :
        /\ i \in Depth(u) /\ frames'[u][i] = frames[u][i]
        /\ i > 1 => i - 1 \in Depth(u)' /\ i - 1 \in Depth(u)
                    /\ frames'[u][i - 1] = frames[u][i - 1]
  BY <1>1 DEF Keeps, Depth
<1>3. \A i \in Depth(t)' :
        \/ i \in (k + 1)..(k + m)
        \/ /\ i \in Depth(t) /\ frames'[t][i] = frames[t][i]
           /\ i > 1 => i - 1 \in Depth(t)' /\ i - 1 \in Depth(t)
                       /\ frames'[t][i - 1] = frames[t][i - 1]
  BY <1>1 DEF Keeps, Depth
<1>4. \A u \in Threads \ {t} : \A i \in Depth(u) : i \in Depth(u)' /\ frames'[u][i] = frames[u][i]
  BY DEF Keeps, Depth
<1>5. \A i \in Depth(t) : i > k \/ (i \in Depth(t)' /\ frames'[t][i] = frames[t][i])
  BY <1>1 DEF Keeps, Depth
<1> QED BY <1>2, <1>3, <1>4, <1>5

LEMMA FormedStay ==
  ASSUME TypeOK, FramesAreFormed,
         NEW t \in Threads, NEW k \in Nat, NEW m \in Nat, Keeps(t, k, m),
         \A i \in (k + 1)..(k + m) : Formed(frames'[t][i])
  PROVE  FramesAreFormed'
<1>1. \A u \in Threads : \A i \in Depth(u)' : Formed(frames'[u][i])
  BY KeptFrames DEF FramesAreFormed
<1> QED BY <1>1 DEF FramesAreFormed, Formed

-----------------------------------------------------------------------------
(* What a step leaves as it is, under what it does to the rest.             *)

LEMMA TopFrame ==
  ASSUME TypeOK, StopInv, NEW t \in Threads, frames[t] # <<>>
  PROVE  /\ Len(frames[t]) \in Nat \ {0} /\ Len(frames[t]) \in Depth(t)
         /\ Len(frames[t]) - 1 \in Nat /\ (Len(frames[t]) - 1) + 1 = Len(frames[t])
         /\ Depth(t) = 1..Len(frames[t])
         /\ Top(t) = frames[t][Len(frames[t])]
         /\ Top(t) \in Frames /\ Formed(Top(t))
         /\ Top(t).op \in {"request_stop", "add_callback", "remove_callback", "callback"} =>
              Top(t) \in StateFrames
<1>1. frames[t] \in Seq(Frames)
  BY DEF TypeOK, Frames
<1>2. /\ Len(frames[t]) \in Nat \ {0} /\ Depth(t) = 1..Len(frames[t])
      /\ Top(t) = frames[t][Len(frames[t])] /\ Top(t) \in Frames
  BY <1>1, FrontAndLast DEF Top, Depth
<1>3. Formed(Top(t))
  BY <1>2 DEF StopInv, FramesAreFormed
<1>4. Top(t).op \in {"request_stop", "add_callback", "remove_callback", "callback"} =>
        Top(t) \in StateFrames
  BY <1>2 DEF Frames, HandleFrames, PoolFrames
<1> QED BY <1>2, <1>3, <1>4

\* Nobody who holds the mutex of a state loses it.
LEMMA HoldersStay ==
  ASSUME TypeOK, StopInv,
         NEW t \in Threads, NEW k \in Nat, NEW m \in Nat, Keeps(t, k, m),
         \A u \in Threads : \A i \in Depth(u) :
           Holds(frames[u][i]) /\ (u = t => i <= k) => mutex'[frames[u][i].state] = u,
         \A i \in (k + 1)..(k + m) : Holds(frames'[t][i]) =>
           /\ frames'[t][i].state \in States /\ mutex'[frames'[t][i].state] = t
           /\ \A j \in Depth(t) :
                Holds(frames[t][j]) /\ frames[t][j].state = frames'[t][i].state => j > k
           /\ \A j \in (k + 1)..(k + m) :
                Holds(frames'[t][j]) /\ frames'[t][j].state = frames'[t][i].state => j = i
  PROVE  HoldersOwnMutex'
<1>1. \A u \in Threads : \A i \in Depth(u)' :
        \/ u = t /\ i \in (k + 1)..(k + m)
        \/ i \in Depth(u) /\ frames'[u][i] = frames[u][i] /\ (u = t => i <= k)
  BY KeptFrames DEF Keeps, Depth
<1>2. \A u \in Threads : \A i \in Depth(u)' : Holds(frames'[u][i]) =>
        /\ frames'[u][i].state \in States
        /\ mutex'[frames'[u][i].state] = u
  BY <1>1 DEF StopInv, HoldersOwnMutex
<1>3. \A u \in Threads : \A i, j \in Depth(u)' :
        Holds(frames'[u][i]) /\ Holds(frames'[u][j])
          /\ frames'[u][j].state = frames'[u][i].state => j = i
  <2> SUFFICES ASSUME NEW u \in Threads, NEW i \in Depth(u)', NEW j \in Depth(u)',
                      Holds(frames'[u][i]), Holds(frames'[u][j]),
                      frames'[u][j].state = frames'[u][i].state
               PROVE  j = i
    OBVIOUS
  <2>1. CASE u = t /\ i \in (k + 1)..(k + m)
    BY <1>1, <2>1
  <2>2. CASE u = t /\ j \in (k + 1)..(k + m)
    <3>1. CASE i \in (k + 1)..(k + m)
      BY <2>2, <3>1
    <3>2. CASE i \in Depth(t) /\ frames'[t][i] = frames[t][i] /\ i <= k
      <4>1. Holds(frames[t][i]) /\ frames[t][i].state = frames'[t][j].state
        BY <2>2, <3>2
      <4>2. i > k
        BY <2>2, <3>2, <4>1
      <4> QED BY <3>2, <4>2 DEF Keeps, Depth
    <3> QED BY <1>1, <2>2, <3>1, <3>2 DEF Depth
  <2>3. CASE /\ i \in Depth(u) /\ frames'[u][i] = frames[u][i]
             /\ j \in Depth(u) /\ frames'[u][j] = frames[u][j]
    BY <2>3 DEF StopInv, HoldersOwnMutex
  <2> QED BY <1>1, <2>1, <2>2, <2>3
<1> QED BY <1>2, <1>3 DEF HoldersOwnMutex, Holds

\* The operations that called functions stay below them.
LEMMA FunctionsStay ==
  ASSUME TypeOK, StopInv,
         NEW t \in Threads, NEW k \in Nat, NEW m \in Nat, Keeps(t, k, m),
         \A u \in Threads : \A i \in Depth(u) : \A c :
           (u = t => i <= k) /\ CallsFunction(frames[u][i], c, callbacks) =>
             CallsFunction(frames[u][i], c, callbacks'),
         \A i \in (k + 1)..(k + m) : frames'[t][i].op = "callback" =>
           i > 1 /\ CallsFunction(frames'[t][i - 1], frames'[t][i].callback, callbacks')
  PROVE  FunctionsAreCalled'
<1> SUFFICES ASSUME NEW u \in Threads, NEW i \in Depth(u)', frames'[u][i].op = "callback"
             PROVE  i > 1 /\ CallsFunction(frames'[u][i - 1], frames'[u][i].callback, callbacks')
  BY DEF FunctionsAreCalled
<1>1. CASE u = t /\ i \in (k + 1)..(k + m)
  BY <1>1
<1>2. CASE ~(u = t /\ i \in (k + 1)..(k + m))
  <2>1. /\ i \in Depth(u) /\ frames'[u][i] = frames[u][i]
        /\ i > 1 => i - 1 \in Depth(u) /\ frames'[u][i - 1] = frames[u][i - 1]
    BY <1>2, KeptFrames
  <2>2. i > 1 /\ CallsFunction(frames[u][i - 1], frames[u][i].callback, callbacks)
    BY <2>1 DEF StopInv, FunctionsAreCalled
  <2>3. u = t => i - 1 <= k
    BY <1>2, <2>2 DEF Keeps, Depth
  <2> QED BY <2>1, <2>2, <2>3
<1> QED BY <1>1, <1>2

\* Callbacks that are constructed or destroyed are somebody else's.
LEMMA LivesStay ==
  ASSUME TypeOK, StopInv,
         NEW t \in Threads, NEW k \in Nat, NEW m \in Nat, Keeps(t, k, m),
         \A s \in States : stopping[s] => stopping'[s],
         \A u \in Threads : \A i \in Depth(u) :
           OwnsCallback(frames[u][i]) /\ (u = t => i <= k) =>
             LET c == frames[u][i].callback IN
               /\ token'[c] = token[c] /\ life'[c] = life[c]
               /\ frames[u][i].op = "add_callback" => calls'[c] = calls[c],
         \A i \in (k + 1)..(k + m) : OwnsCallback(frames'[t][i]) =>
           /\ LifeFits(frames[t][i])'
           /\ \A u \in Threads : \A j \in Depth(u) :
                OwnsCallback(frames[u][j]) /\ frames[u][j].callback = frames'[t][i].callback =>
                  u = t /\ j > k
           /\ \A j \in (k + 1)..(k + m) :
                OwnsCallback(frames'[t][j]) /\ frames'[t][j].callback = frames'[t][i].callback =>
                  j = i
  PROVE  LivesAreOwned' /\ OneOwner'
<1>1. \A u \in Threads : \A i \in Depth(u)' :
        \/ u = t /\ i \in (k + 1)..(k + m)
        \/ i \in Depth(u) /\ frames'[u][i] = frames[u][i] /\ (u = t => i <= k)
  BY KeptFrames DEF Keeps, Depth
<1>2. OneOwner'
  <2> SUFFICES ASSUME NEW u \in Threads, NEW v \in Threads,
                      NEW i \in Depth(u)', NEW j \in Depth(v)',
                      OwnsCallback(frames'[u][i]), OwnsCallback(frames'[v][j]),
                      frames'[u][i].callback = frames'[v][j].callback
               PROVE  u = v /\ i = j
    BY DEF OneOwner, OwnsCallback
  <2> DEFINE New(w, h) == w = t /\ h \in (k + 1)..(k + m)
             Old(w, h) == h \in Depth(w) /\ frames'[w][h] = frames[w][h] /\ (w = t => h <= k)
  <2>1. (New(u, i) \/ Old(u, i)) /\ (New(v, j) \/ Old(v, j))
    BY <1>1
  <2>2. CASE New(u, i) /\ New(v, j)
    BY <2>2
  <2>3. CASE New(u, i) /\ Old(v, j)
    <3>1. v = t /\ j > k
      BY <2>3
    <3> QED BY <2>3, <3>1 DEF Keeps, Depth
  <2>4. CASE Old(u, i) /\ New(v, j)
    <3>1. u = t /\ i > k
      BY <2>4
    <3> QED BY <2>4, <3>1 DEF Keeps, Depth
  <2>5. CASE Old(u, i) /\ Old(v, j)
    BY <2>5 DEF StopInv, OneOwner
  <2> QED BY <2>1, <2>2, <2>3, <2>4, <2>5
<1>3. \A u \in Threads : \A i \in Depth(u) :
        frames[u][i].op = "add_callback" /\ frames[u][i].state # NoState =>
          frames[u][i].state \in States
  <2> SUFFICES ASSUME NEW u \in Threads, NEW i \in Depth(u),
                      frames[u][i].op = "add_callback", frames[u][i].state # NoState
               PROVE  frames[u][i].state \in States
    OBVIOUS
  <2>1. frames[u] \in Seq(Frames) /\ i \in 1..Len(frames[u])
    BY LenProperties DEF TypeOK, Frames, Depth
  <2>2. frames[u][i] \in Frames
    BY <2>1, ElementOfSeq
  <2>3. frames[u][i] \in StateFrames
    BY <2>2 DEF Frames, HandleFrames, PoolFrames
  <2> QED BY <2>3 DEF StateFrames
<1>4. LivesAreOwned'
  <2> SUFFICES ASSUME NEW u \in Threads, NEW i \in Depth(u)', OwnsCallback(frames'[u][i])
               PROVE  LifeFits(frames[u][i])'
    BY DEF LivesAreOwned, OwnsCallback, LifeFits
  <2>1. CASE u = t /\ i \in (k + 1)..(k + m)
    BY <2>1
  <2>2. CASE i \in Depth(u) /\ frames'[u][i] = frames[u][i] /\ (u = t => i <= k)
    <3>1. LifeFits(frames[u][i])
      BY <2>2 DEF StopInv, LivesAreOwned
    <3> QED BY <1>3, <2>2, <3>1 DEF LifeFits
  <2> QED BY <1>1, <2>1, <2>2
<1> QED BY <1>2, <1>4

\* What does not touch the state s touches no list, loop or callback of it.
LEMMA StateStays ==
  ASSUME TypeOK, StopInv, NEW s \in States,
         NEW t \in Threads, NEW k \in Nat, NEW m \in Nat, Keeps(t, k, m),
         stopping'[s] = stopping[s], callbacks'[s] = callbacks[s], wins'[s] = wins[s],
         Registered(s)' = Registered(s),
         \A c \in Registered(s) : calls'[c] = calls[c],
         \A i \in Depth(t) : i > k => ~Loops(frames[t][i], s),
         \A i \in (k + 1)..(k + m) : ~Loops(frames'[t][i], s)
  PROVE  StateFits(s)'
<1>1. ListIsSet(s)' /\ BeforeStop(s)'
  BY DEF StopInv, StatesFit, StateFits, ListIsSet, BeforeStop
<1>2. \A u \in Threads : \A i \in Depth(u)' :
        Loops(frames'[u][i], s) => i \in Depth(u) /\ frames'[u][i] = frames[u][i]
  BY KeptFrames DEF Loops
<1>3. \A u \in Threads : \A i \in Depth(u) :
        Loops(frames[u][i], s) => i \in Depth(u)' /\ frames'[u][i] = frames[u][i]
  BY KeptFrames
<1>4. DuringStop(s)'
  <2> SUFFICES ASSUME NEW u \in Threads, NEW i \in Depth(u)', Loops(frames'[u][i], s)
               PROVE  Looping(frames[u][i].n, s)'
    BY DEF DuringStop, Loops
  <2>1. \A j \in DOMAIN callbacks[s] : calls'[callbacks[s][j]] = calls[callbacks[s][j]]
    BY DEF StopInv, StatesFit, StateFits, ListIsSet
  <2>2. i \in Depth(u) /\ frames'[u][i] = frames[u][i]
    BY <1>2
  <2>3. Looping(frames[u][i].n, s)
    BY <2>2 DEF StopInv, StatesFit, StateFits, DuringStop
  <2> QED BY <2>1, <2>2, <2>3 DEF Looping
<1>5. AfterStop(s)'
  <2> SUFFICES ASSUME stopping'[s], \A u \in Threads : \A i \in Depth(u)' : ~Loops(frames'[u][i], s)
               PROVE  Cleared(s)'
    BY DEF AfterStop, Loops
  <2>1. \A u \in Threads : \A i \in Depth(u) : ~Loops(frames[u][i], s)
    BY <1>3
  <2>2. Cleared(s)
    BY <2>1 DEF StopInv, StatesFit, StateFits, AfterStop
  <2> QED BY <2>2 DEF Cleared
<1> QED BY <1>1, <1>4, <1>5 DEF StateFits

\* Frames that hold nothing, call nothing and own nothing come and go; the
\* function of a callback may go on in its frame.
LEMMA Neutral ==
  ASSUME TypeOK, StopInv,
         NEW t \in Threads, NEW k \in Nat, NEW m \in Nat, Keeps(t, k, m),
         UNCHANGED <<mutex, stopping, callbacks, token, life, calls, wins>>,
         \A i \in Depth(t) : i > k => ~Holds(frames[t][i]),
         \A i \in (k + 1)..(k + m) :
           /\ Formed(frames'[t][i]) /\ ~Holds(frames'[t][i]) /\ ~OwnsCallback(frames'[t][i])
           /\ frames'[t][i].op = "callback" =>
                /\ i = k + 1 /\ i \in Depth(t) /\ frames[t][i].op = "callback"
                /\ frames'[t][i].callback = frames[t][i].callback
  PROVE  StopInv'
<1>1. FramesAreFormed'
  BY FormedStay DEF StopInv
<1>2. \A u \in Threads : \A i \in Depth(u)' :
        Holds(frames'[u][i]) => i \in Depth(u) /\ frames'[u][i] = frames[u][i]
  BY KeptFrames
<1>3. HoldersOwnMutex'
  BY <1>2 DEF StopInv, HoldersOwnMutex, Holds
<1>4. FunctionsAreCalled'
  <2> SUFFICES ASSUME NEW u \in Threads, NEW i \in Depth(u)', frames'[u][i].op = "callback"
               PROVE  i > 1 /\ CallsFunction(frames'[u][i - 1], frames'[u][i].callback, callbacks')
    BY DEF FunctionsAreCalled
  <2>1. CASE i \in Depth(u) /\ frames'[u][i] = frames[u][i]
                /\ (i > 1 => frames'[u][i - 1] = frames[u][i - 1])
    BY <2>1 DEF StopInv, FunctionsAreCalled, CallsFunction
  <2>2. CASE u = t /\ i \in (k + 1)..(k + m)
    <3>1. /\ i = k + 1 /\ i \in Depth(t) /\ frames[t][i].op = "callback"
          /\ frames'[t][i].callback = frames[t][i].callback
      BY <2>2
    <3>2. i > 1 /\ CallsFunction(frames[t][i - 1], frames[t][i].callback, callbacks)
      BY <3>1 DEF StopInv, FunctionsAreCalled
    <3>3. i - 1 \in 1..k
      BY <3>1, <3>2
    <3>4. frames'[t][i - 1] = frames[t][i - 1]
      BY <3>3 DEF Keeps
    <3> QED BY <2>2, <3>1, <3>2, <3>4 DEF CallsFunction
  <2> QED BY <2>1, <2>2, KeptFrames
<1>5. \A u \in Threads : \A i \in Depth(u)' :
        OwnsCallback(frames'[u][i]) => i \in Depth(u) /\ frames'[u][i] = frames[u][i]
  BY KeptFrames
<1>6. LivesAreOwned' /\ OneOwner'
  <2>1. OneOwner'
    BY <1>5 DEF StopInv, OneOwner, OwnsCallback
  <2>2. LivesAreOwned'
    BY <1>5 DEF StopInv, LivesAreOwned, LifeFits, OwnsCallback
  <2> QED BY <2>1, <2>2
<1>7. Unborn'
  BY DEF StopInv, Unborn
<1>8. StatesFit'
  <2> SUFFICES ASSUME NEW s \in States PROVE StateFits(s)'
    BY DEF StatesFit
  <2>1. Registered(s)' = Registered(s)
    BY DEF Registered
  <2>2. /\ \A i \in Depth(t) : i > k => ~Loops(frames[t][i], s)
        /\ \A i \in (k + 1)..(k + m) : ~Loops(frames'[t][i], s)
    BY DEF Loops, Holds
  <2> QED BY <2>1, <2>2, StateStays
<1> QED BY <1>1, <1>3, <1>4, <1>6, <1>7, <1>8 DEF StopInv

-----------------------------------------------------------------------------
(* The parts of the invariant that a step of StopState hardly touches.      *)

LEMMA TypesStay ==
  ASSUME TypeOK, UNCHANGED handleVars,
         NEW t \in Threads, NEW k \in Nat, NEW m \in Nat, Keeps(t, k, m),
         mutex' \in [States -> Threads \cup {Nobody}],
         stopping' \in [States -> BOOLEAN],
         callbacks' \in [States -> Seq(Callbacks)],
         token' \in [Callbacks -> States \cup {NoState}],
         life' \in [Callbacks -> {"none", "constructing", "alive", "destroying", "destroyed"}],
         calls' \in [Callbacks -> 0..1], wins' \in [States -> 0..1]
  PROVE  TypeOK'
BY DEF TypeOK, Keeps, Frames, handleVars

\* The member function of a handle is where it was.
LEMMA HandlesStay ==
  ASSUME TypeOK, HandlesFit, UNCHANGED handleVars,
         NEW t \in Threads, NEW k \in Nat, NEW m \in Nat, Keeps(t, k, m),
         \A i \in (k + 1)..(k + m) :
           frames'[t][i].op = "destroy" /\ frames'[t][i].at = "destroy" =>
             impl[frames'[t][i].handle] = Nobody
  PROVE  HandlesFit'
<1>1. \A i \in Depth(Owner)' :
        frames'[Owner][i].op = "destroy" /\ frames'[Owner][i].at = "destroy" =>
          impl[frames'[Owner][i].handle] = Nobody
  BY KeptFrames, OwnerAssumption DEF HandlesFit
<1> QED BY <1>1 DEF HandlesFit, handleVars, Alive

\* No callback is in a list twice, so that a loop ends after as many calls.
LEMMA ListIsShort ==
  ASSUME TypeOK, StopInv, NEW s \in States
  PROVE  /\ Cardinality(Callbacks) \in Nat /\ Len(callbacks[s]) \in Nat
         /\ Len(callbacks[s]) <= Cardinality(Callbacks)
         /\ DOMAIN callbacks[s] = 1..Len(callbacks[s])
         /\ \A i \in 1..Len(callbacks[s]) : callbacks[s][i] \in Callbacks
<1>1. /\ Len(callbacks[s]) \in Nat /\ DOMAIN callbacks[s] = 1..Len(callbacks[s])
      /\ callbacks[s] \in [1..Len(callbacks[s]) -> Callbacks]
  BY LenProperties DEF TypeOK
<1>2. \A i, j \in 1..Len(callbacks[s]) : callbacks[s][i] = callbacks[s][j] => i = j
  BY <1>1 DEF StopInv, StatesFit, StateFits, ListIsSet
<1>3. PICK n \in Nat : n = Len(callbacks[s])
  BY <1>1
<1>4. PICK q \in [1..n -> Callbacks] : \A i, j \in 1..n : q[i] = q[j] => i = j
  BY <1>1, <1>2, <1>3
<1>5. IsFiniteSet(1..n) /\ Cardinality(1..n) = n
  BY <1>3, FS_Interval
<1>6. q \in Injection(1..n, Callbacks)
  BY <1>4 DEF Injection, IsInjective
<1>7. Cardinality(1..n) <= Cardinality(Callbacks) /\ Cardinality(Callbacks) \in Nat
  BY <1>6, CallbacksAssumption, FS_Injection, FS_CardinalityType
<1> QED BY <1>1, <1>3, <1>5, <1>7

\* A frame on its way on is a frame.
LEMMA FrameGoesOn ==
  ASSUME NEW f \in StateFrames, NEW at \in {"lock", "loop", "call", "return"}
  PROVE  /\ [f EXCEPT !.at = at] \in StateFrames
         /\ f.n <= Cardinality(Callbacks) /\ Cardinality(Callbacks) \in Nat =>
              [f EXCEPT !.at = at, !.n = f.n + 1] \in StateFrames
<1>1. [f EXCEPT !.at = at] \in StateFrames
  BY DEF StateFrames
<1>2. ASSUME f.n <= Cardinality(Callbacks), Cardinality(Callbacks) \in Nat
      PROVE  [f EXCEPT !.at = at, !.n = f.n + 1] \in StateFrames
  <2>1. f.n + 1 \in 1..Cardinality(Callbacks) + 1
    BY <1>2 DEF StateFrames
  <2> QED BY <2>1 DEF StateFrames
<1> QED BY <1>1, <1>2

-----------------------------------------------------------------------------
(* request_stop().                                                          *)

LEMMA RequestStopFirstKeeps ==
  ASSUME IInv, UNCHANGED handleVars, NEW t \in Threads, RequestStopFirst(t)
  PROVE  IInv'
<1> DEFINE f == [Top(t) EXCEPT !.at = "loop"]
<1>1. frames[t] # <<>> /\ Top(t).op = "request_stop" /\ Top(t).at = "lock"
  BY DEF RequestStopFirst, In
<1>2. TypeOK /\ StopInv /\ HandlesFit
  BY DEF IInv
<1>3. PICK n \in Nat : n = Len(frames[t]) - 1
  BY <1>1, <1>2, TopFrame
<1>4. /\ n + 1 = Len(frames[t]) /\ n + 1 \in Depth(t) /\ Depth(t) = 1..(n + 1)
      /\ Top(t) = frames[t][n + 1] /\ Top(t) \in StateFrames /\ Formed(Top(t))
  BY <1>1, <1>2, <1>3, TopFrame
<1>5. PICK s \in States : s = Top(t).state
  BY <1>4 DEF RequestStopFirst, StateFrames
<1>6. f \in StateFrames /\ f \in Frames
  BY <1>4, FrameGoesOn DEF Frames
<1>7. f.op = "request_stop" /\ f.at = "loop" /\ f.state = s /\ f.n = 1 /\ f.callback = NoCallback
  BY <1>1, <1>4, <1>5 DEF StateFrames, Formed
<1>8. Keeps(t, n, 1) /\ frames'[t][n + 1] = f
  BY <1>1, <1>2, <1>3, <1>4, <1>6, GoToKeeps DEF RequestStopFirst
<1> HIDE DEF f
<1>9. /\ mutex[s] = Nobody /\ ~stopping[s]
      /\ mutex' = [mutex EXCEPT ![s] = t] /\ stopping' = [stopping EXCEPT ![s] = TRUE]
      /\ UNCHANGED <<callbacks, token, life, calls, wins>>
  BY <1>5 DEF RequestStopFirst, Acquire
<1>10. \A i \in (n + 1)..(n + 1) : i = n + 1
  OBVIOUS
<1>11. TypeOK'
  <2>1. mutex' \in [States -> Threads \cup {Nobody}] /\ stopping' \in [States -> BOOLEAN]
    BY <1>2, <1>9 DEF TypeOK
  <2> QED BY <1>2, <1>8, <1>9, <2>1, TypesStay DEF TypeOK
<1>12. HandlesFit'
  BY <1>2, <1>7, <1>8, <1>10, HandlesStay
<1>13. FramesAreFormed'
  BY <1>2, <1>7, <1>8, <1>10, FormedStay DEF Formed, StopInv
\* Nobody held the mutex.
<1>14. \A u \in Threads : \A i \in Depth(u) :
         Holds(frames[u][i]) => frames[u][i].state \in States \ {s} /\ mutex[frames[u][i].state] = u
  BY <1>2, <1>9, NamesAssumption DEF StopInv, HoldersOwnMutex
<1>15. HoldersOwnMutex'
  <2>1. \A u \in Threads : \A i \in Depth(u) :
          Holds(frames[u][i]) => mutex'[frames[u][i].state] = u
    BY <1>2, <1>9, <1>14 DEF TypeOK
  <2>2. mutex'[s] = t
    BY <1>2, <1>9 DEF TypeOK
  <2> QED BY <1>2, <1>7, <1>8, <1>10, <1>14, <2>1, <2>2, HoldersStay
<1>16. FunctionsAreCalled'
  BY <1>2, <1>7, <1>8, <1>9, <1>10, FunctionsStay DEF CallsFunction
<1>17. LivesAreOwned' /\ OneOwner'
  <2>1. \A r \in States : stopping[r] => stopping'[r]
    BY <1>2, <1>9 DEF TypeOK
  <2> QED BY <1>2, <1>7, <1>8, <1>9, <1>10, <2>1, LivesStay DEF OwnsCallback
<1>18. Unborn'
  BY <1>2, <1>9 DEF StopInv, Unborn
<1>19. \A r \in States : Registered(r)' = Registered(r)
  BY <1>9 DEF Registered
<1>20. ASSUME NEW r \in States \ {s} PROVE StateFits(r)'
  <2>1. stopping'[r] = stopping[r]
    BY <1>2, <1>9 DEF TypeOK
  <2>2. ~Loops(f, r) /\ \A i \in Depth(t) : i > n => ~Loops(frames[t][i], r)
    BY <1>1, <1>4, <1>7 DEF Loops
  <2> QED BY <1>2, <1>8, <1>9, <1>10, <1>19, <2>1, <2>2, StateStays
<1>21. StateFits(s)'
  <2>1. stopping'[s]
    BY <1>2, <1>9 DEF TypeOK
  <2>2. /\ ListIsSet(s) /\ wins[s] = 0
        /\ \A c \in Registered(s) : calls[c] = 0 /\ c \in Range(callbacks[s])
    BY <1>2, <1>9 DEF StopInv, StatesFit, StateFits, BeforeStop
  <2>3. ListIsSet(s)' /\ BeforeStop(s)'
    BY <1>9, <1>19, <2>1, <2>2 DEF ListIsSet, BeforeStop
  <2>4. \A u \in Threads : \A i \in Depth(u)' :
          Loops(frames'[u][i], s) => u = t /\ i = n + 1
    BY <1>2, <1>8, <1>10, <1>14, KeptFrames DEF Loops, Holds
  <2>5. DuringStop(s)'
    <3>1. 1 \in 1..Len(callbacks[s]) + 1
      BY <1>2, ListIsShort
    <3>2. \A k \in DOMAIN callbacks[s] : calls[callbacks[s][k]] = IF k < 1 THEN 1 ELSE 0
      BY <1>2, <2>2, ListIsShort DEF ListIsSet
    <3>3. Looping(1, s)'
      BY <1>9, <1>19, <2>1, <2>2, <3>1, <3>2 DEF Looping
    <3> QED BY <1>7, <1>8, <2>4, <3>3 DEF DuringStop
  <2>6. AfterStop(s)'
    <3>1. n + 1 \in Depth(t)' /\ Loops(frames'[t][n + 1], s)
      BY <1>7, <1>8 DEF Keeps, Depth, Loops
    <3> QED BY <3>1 DEF AfterStop
  <2> QED BY <2>3, <2>5, <2>6 DEF StateFits
<1>22. StatesFit'
  BY <1>20, <1>21 DEF StatesFit
<1> QED BY <1>11, <1>12, <1>13, <1>15, <1>16, <1>17, <1>18, <1>22 DEF IInv, StopInv

\* Who holds a mutex is the only one to do so.
LEMMA TopHolds ==
  ASSUME TypeOK, StopInv, NEW t \in Threads, frames[t] # <<>>, Holds(Top(t))
  PROVE  /\ Top(t).state \in States /\ mutex[Top(t).state] = t
         /\ \A u \in Threads : \A i \in Depth(u) :
              Holds(frames[u][i]) /\ frames[u][i].state = Top(t).state =>
                u = t /\ i = Len(frames[t])
<1>1. Len(frames[t]) \in Depth(t) /\ Top(t) = frames[t][Len(frames[t])]
  BY TopFrame
<1>2. /\ Top(t).state \in States /\ mutex[Top(t).state] = t
      /\ \A j \in Depth(t) : Holds(frames[t][j]) /\ frames[t][j].state = Top(t).state =>
           j = Len(frames[t])
  BY <1>1 DEF StopInv, HoldersOwnMutex
<1>3. \A u \in Threads : \A i \in Depth(u) :
        Holds(frames[u][i]) /\ frames[u][i].state = Top(t).state => u = t
  BY <1>2 DEF StopInv, HoldersOwnMutex
<1> QED BY <1>2, <1>3

LEMMA RequestStopNextKeeps ==
  ASSUME IInv, UNCHANGED handleVars, NEW t \in Threads, RequestStopNext(t)
  PROVE  IInv'
<1> DEFINE f == [Top(t) EXCEPT !.at = "loop", !.n = Top(t).n + 1]
<1>1. frames[t] # <<>> /\ Top(t).op = "request_stop" /\ Top(t).at = "loop"
  BY DEF RequestStopNext, In
<1>2. TypeOK /\ StopInv /\ HandlesFit
  BY DEF IInv
<1>3. PICK n \in Nat : n = Len(frames[t]) - 1
  BY <1>1, <1>2, TopFrame
<1>4. /\ n + 1 = Len(frames[t]) /\ n + 1 \in Depth(t) /\ Depth(t) = 1..(n + 1)
      /\ Top(t) = frames[t][n + 1] /\ Top(t) \in StateFrames /\ Formed(Top(t))
  BY <1>1, <1>2, <1>3, TopFrame
<1>5. /\ Holds(Top(t)) /\ Top(t).state \in States /\ mutex[Top(t).state] = t
      /\ \A u \in Threads : \A i \in Depth(u) :
           Holds(frames[u][i]) /\ frames[u][i].state = Top(t).state => u = t /\ i = n + 1
  BY <1>1, <1>2, <1>4, TopHolds DEF Holds
<1>6. PICK s \in States : s = Top(t).state
  BY <1>5
<1>7. Looping(Top(t).n, s) /\ ListIsSet(s)
  BY <1>1, <1>2, <1>4, <1>6 DEF StopInv, StatesFit, StateFits, DuringStop, Loops
<1>8. PICK p \in 1..Len(callbacks[s]) : p = Top(t).n
  BY <1>2, <1>6, <1>7, ListIsShort DEF RequestStopNext, Looping
<1>9. PICK c \in Callbacks : c = callbacks[s][p]
  BY <1>2, ListIsShort
<1> DEFINE g == Frame("callback", NoState, c, "call")
<1>10. c \in Registered(s) /\ calls[c] = 0 /\ c \in Range(callbacks[s])
  BY <1>2, <1>7, <1>8, <1>9, ListIsShort DEF ListIsSet, Looping, Range
<1>11. f \in Frames
  <2>1. Cardinality(Callbacks) \in Nat /\ p <= Cardinality(Callbacks)
    BY <1>2, ListIsShort
  <2>2. f \in StateFrames
    BY <1>4, <1>8, <2>1, FrameGoesOn
  <2> QED BY <2>2 DEF Frames
<1>12. g \in Frames
  <2>1. 1 \in 1..Cardinality(Callbacks) + 1
    BY <1>2, ListIsShort
  <2> QED BY <2>1 DEF Frame, Frames, StateFrames
<1>13. /\ f.op = "request_stop" /\ f.at = "loop" /\ f.state = s /\ f.n = p + 1
       /\ f.callback = NoCallback
       /\ g.op = "callback" /\ g.callback = c /\ g.at = "call" /\ g.n = 1
  BY <1>1, <1>4, <1>6, <1>8 DEF StateFrames, Formed, Frame
<1>14. /\ calls' = [calls EXCEPT ![c] = calls[c] + 1]
       /\ UNCHANGED <<mutex, stopping, callbacks, token, life, wins>>
       /\ GoToAndPush(t, "loop", g)
  BY <1>6, <1>8, <1>9 DEF RequestStopNext, CallFunction
<1>15. Keeps(t, n, 2) /\ frames'[t][n + 1] = f /\ frames'[t][n + 2] = g
  <2> HIDE DEF g
  <2>1. /\ Keeps(t, Len(frames[t]) - 1, 2)
        /\ frames'[t][Len(frames[t])] = f /\ frames'[t][Len(frames[t]) + 1] = g
    BY <1>1, <1>2, <1>11, <1>12, <1>14, CallKeeps
  <2> QED BY <1>3, <1>4, <2>1
<1> HIDE DEF f, g
<1>16. \A i \in (n + 1)..(n + 2) : i = n + 1 \/ i = n + 2
  OBVIOUS
<1>17. n + 1 \in (n + 1)..(n + 2) /\ n + 2 \in (n + 1)..(n + 2) /\ n + 2 > 1 /\ (n + 2) - 1 = n + 1
  OBVIOUS
<1>18. TypeOK'
  <2>1. calls' \in [Callbacks -> 0..1]
    BY <1>2, <1>10, <1>14 DEF TypeOK
  <2> QED BY <1>2, <1>14, <1>15, <2>1, TypesStay DEF TypeOK
<1>19. HandlesFit'
  BY <1>2, <1>13, <1>15, <1>16, HandlesStay
<1>20. FramesAreFormed'
  <2>1. Formed(f) /\ Formed(g)
    BY <1>13 DEF Formed
  <2> QED BY <1>2, <1>15, <1>16, <2>1, FormedStay DEF StopInv
<1>21. HoldersOwnMutex'
  <2>1. \A u \in Threads : \A i \in Depth(u) :
          Holds(frames[u][i]) => mutex'[frames[u][i].state] = u
    BY <1>2, <1>14 DEF StopInv, HoldersOwnMutex
  <2>2. ~Holds(g)
    BY <1>13 DEF Holds
  <2>3. f.state \in States /\ mutex'[f.state] = t
    BY <1>5, <1>6, <1>13, <1>14
  <2>4. \A j \in Depth(t) : Holds(frames[t][j]) /\ frames[t][j].state = f.state => j > n
    BY <1>5, <1>6, <1>13
  <2> QED BY <1>2, <1>15, <1>16, <2>1, <2>2, <2>3, <2>4, HoldersStay
<1>22. FunctionsAreCalled'
  <2>1. CallsFunction(f, c, callbacks')
    BY <1>10, <1>13, <1>14 DEF CallsFunction
  <2> QED BY <1>2, <1>13, <1>14, <1>15, <1>16, <1>17, <2>1, FunctionsStay DEF CallsFunction
<1>23. life[c] \in {"alive", "destroying"} /\ token[c] = s
  BY <1>10 DEF Registered
<1>24. LivesAreOwned' /\ OneOwner'
  <2>1. \A u \in Threads : \A i \in Depth(u) :
          frames[u][i].op = "add_callback" =>
            calls'[frames[u][i].callback] = calls[frames[u][i].callback]
    BY <1>2, <1>14, <1>23 DEF StopInv, LivesAreOwned, LifeFits, FramesAreFormed, Formed, TypeOK
  <2>2. ~OwnsCallback(f) /\ ~OwnsCallback(g)
    BY <1>13 DEF OwnsCallback
  <2> QED BY <1>2, <1>14, <1>15, <1>16, <2>1, <2>2, LivesStay
<1>25. Unborn'
  BY <1>2, <1>14, <1>23 DEF StopInv, Unborn, TypeOK
<1>26. \A r \in States : Registered(r)' = Registered(r)
  BY <1>14 DEF Registered
<1>27. ASSUME NEW r \in States \ {s} PROVE StateFits(r)'
  <2>1. \A b \in Registered(r) : calls'[b] = calls[b]
    BY <1>2, <1>14, <1>23 DEF Registered, TypeOK
  <2>2. ~Loops(f, r) /\ ~Loops(g, r) /\ \A i \in Depth(t) : i > n => ~Loops(frames[t][i], r)
    BY <1>4, <1>6, <1>13 DEF Loops
  <2> QED BY <1>2, <1>14, <1>15, <1>16, <1>26, <2>1, <2>2, StateStays
<1>28. StateFits(s)'
  <2>1. ListIsSet(s)' /\ BeforeStop(s)'
    BY <1>7, <1>14, <1>26 DEF ListIsSet, BeforeStop, Looping
  <2>2. \A u \in Threads : \A i \in Depth(u)' :
          Loops(frames'[u][i], s) => u = t /\ i = n + 1
    <3>1. ~Loops(g, s)
      BY <1>13 DEF Loops
    <3>2. \A u \in Threads : \A i \in Depth(u) : Loops(frames[u][i], s) => u = t /\ i = n + 1
      BY <1>5, <1>6 DEF Loops, Holds
    <3> SUFFICES ASSUME NEW u \in Threads, NEW i \in Depth(u)', Loops(frames'[u][i], s)
                 PROVE  u = t /\ i = n + 1
      BY DEF Loops
    <3>3. \/ u = t /\ i \in (n + 1)..(n + 2)
          \/ i \in Depth(u) /\ frames'[u][i] = frames[u][i]
      <4>1. TypeOK /\ Keeps(t, n, 2) /\ 2 \in Nat
        BY <1>2, <1>15
      <4> QED BY ONLY <4>1, t \in Threads, n \in Nat, u \in Threads, i \in Depth(u)', KeptFrames
    <3> QED BY <1>15, <1>16, <3>1, <3>2, <3>3
  <2>3. DuringStop(s)'
    <3>1. p + 1 \in 1..Len(callbacks[s]) + 1
      BY <1>2, ListIsShort
    <3>2. ASSUME NEW k \in DOMAIN callbacks[s]
          PROVE  calls'[callbacks[s][k]] = IF k < p + 1 THEN 1 ELSE 0
      <4>1. /\ calls[callbacks[s][k]] = IF k < p THEN 1 ELSE 0
            /\ callbacks[s][k] = c => k = p
            /\ k \in Nat /\ callbacks[s][k] \in Callbacks /\ p \in Nat
        BY <1>2, <1>7, <1>8, <1>9, ListIsShort DEF Looping, ListIsSet
      <4>2. CASE k = p
        BY <1>2, <1>9, <1>10, <1>14, <4>1, <4>2 DEF TypeOK
      <4>3. CASE k # p
        BY <1>2, <1>14, <4>1, <4>3 DEF TypeOK
      <4> QED BY <4>2, <4>3
    <3>3. Looping(p + 1, s)'
      BY <1>7, <1>14, <1>26, <3>1, <3>2 DEF Looping
    <3> QED BY <1>13, <1>15, <2>2, <3>3 DEF DuringStop
  <2>4. AfterStop(s)'
    <3>1. n + 1 \in Depth(t)' /\ Loops(frames'[t][n + 1], s)
      BY <1>13, <1>15 DEF Keeps, Depth, Loops
    <3> QED BY <3>1 DEF AfterStop
  <2> QED BY <2>1, <2>3, <2>4 DEF StateFits
<1>29. StatesFit'
  BY <1>27, <1>28 DEF StatesFit
<1> QED BY <1>18, <1>19, <1>20, <1>21, <1>22, <1>24, <1>25, <1>29 DEF IInv, StopInv

LEMMA RequestStopEndKeeps ==
  ASSUME IInv, UNCHANGED handleVars, NEW t \in Threads, RequestStopEnd(t)
  PROVE  IInv'
<1>1. frames[t] # <<>> /\ Top(t).op = "request_stop" /\ Top(t).at = "loop"
  BY DEF RequestStopEnd, In
<1>2. TypeOK /\ StopInv /\ HandlesFit
  BY DEF IInv
<1>3. PICK n \in Nat : n = Len(frames[t]) - 1
  BY <1>1, <1>2, TopFrame
<1>4. /\ n + 1 = Len(frames[t]) /\ n + 1 \in Depth(t) /\ Depth(t) = 1..(n + 1)
      /\ Top(t) = frames[t][n + 1]
  BY <1>1, <1>2, <1>3, TopFrame
<1>5. /\ Holds(Top(t)) /\ Top(t).state \in States /\ mutex[Top(t).state] = t
      /\ \A u \in Threads : \A i \in Depth(u) :
           Holds(frames[u][i]) /\ frames[u][i].state = Top(t).state => u = t /\ i = n + 1
  BY <1>1, <1>2, <1>4, TopHolds DEF Holds
<1>6. PICK s \in States : s = Top(t).state
  BY <1>5
<1>7. Looping(Top(t).n, s) /\ ListIsSet(s)
  BY <1>1, <1>2, <1>4, <1>6 DEF StopInv, StatesFit, StateFits, DuringStop, Loops
<1>8. Keeps(t, n, 0)
  BY <1>1, <1>2, <1>3, PopKeeps DEF RequestStopEnd
<1>9. /\ Top(t).n > Len(callbacks[s])
      /\ callbacks' = [callbacks EXCEPT ![s] = <<>>]
      /\ mutex' = [r \in States |-> IF r = s THEN Nobody ELSE mutex[r]]
      /\ wins' = [wins EXCEPT ![s] = wins[s] + 1]
      /\ UNCHANGED <<stopping, token, life, calls>>
  BY <1>6 DEF RequestStopEnd, Release
<1>10. \A i \in (n + 1)..(n + 0) : FALSE
  OBVIOUS
<1>11. TypeOK'
  <2>1. mutex' \in [States -> Threads \cup {Nobody}]
    BY <1>2, <1>9 DEF TypeOK
  <2>2. callbacks' \in [States -> Seq(Callbacks)]
    BY <1>2, <1>9 DEF TypeOK
  <2>3. wins' \in [States -> 0..1]
    BY <1>2, <1>7, <1>9 DEF TypeOK, Looping
  <2> QED BY <1>2, <1>8, <1>9, <2>1, <2>2, <2>3, TypesStay DEF TypeOK
<1>12. HandlesFit'
  BY <1>2, <1>8, <1>10, HandlesStay
<1>13. FramesAreFormed'
  BY <1>2, <1>8, <1>10, FormedStay DEF StopInv
\* The others hold other mutexes, and their loops have other lists.
<1>14. \A u \in Threads : \A i \in Depth(u) :
         Holds(frames[u][i]) /\ (u = t => i <= n) =>
           /\ frames[u][i].state \in States \ {s} /\ mutex[frames[u][i].state] = u
  <2> SUFFICES ASSUME NEW u \in Threads, NEW i \in Depth(u), Holds(frames[u][i]), u = t => i <= n
               PROVE  frames[u][i].state \in States \ {s} /\ mutex[frames[u][i].state] = u
    OBVIOUS
  <2>1. frames[u][i].state \in States /\ mutex[frames[u][i].state] = u
    BY <1>2 DEF StopInv, HoldersOwnMutex
  <2>2. frames[u][i].state # s
    BY <1>5, <1>6
  <2> QED BY <2>1, <2>2
<1>15. HoldersOwnMutex'
  <2>1. \A u \in Threads : \A i \in Depth(u) :
          Holds(frames[u][i]) /\ (u = t => i <= n) => mutex'[frames[u][i].state] = u
    BY <1>9, <1>14
  <2> QED BY <1>2, <1>8, <1>10, <2>1, HoldersStay
<1>16. FunctionsAreCalled'
  <2>1. \A u \in Threads : \A i \in Depth(u) : \A c :
          (u = t => i <= n) /\ CallsFunction(frames[u][i], c, callbacks) =>
            CallsFunction(frames[u][i], c, callbacks')
    BY <1>2, <1>9, <1>14 DEF CallsFunction, Holds, TypeOK
  <2> QED BY <1>2, <1>8, <1>10, <2>1, FunctionsStay
<1>17. LivesAreOwned' /\ OneOwner'
  BY <1>2, <1>8, <1>9, <1>10, LivesStay
<1>18. Unborn'
  BY <1>2, <1>9 DEF StopInv, Unborn
<1>19. \A r \in States : Registered(r)' = Registered(r)
  BY <1>9 DEF Registered
<1>20. ASSUME NEW r \in States \ {s} PROVE StateFits(r)'
  <2>1. callbacks'[r] = callbacks[r] /\ wins'[r] = wins[r] /\ stopping'[r] = stopping[r]
    BY <1>2, <1>9 DEF TypeOK
  <2>2. \A i \in Depth(t) : i > n => ~Loops(frames[t][i], r)
    BY <1>4, <1>6 DEF Loops
  <2>3. \A c \in Registered(r) : calls'[c] = calls[c]
    BY <1>9
  <2> QED BY <1>2, <1>8, <1>10, <1>19, <2>1, <2>2, <2>3, StateStays
<1>21. StateFits(s)'
  <2>1. callbacks'[s] = <<>> /\ wins'[s] = 1 /\ stopping'[s]
    BY <1>2, <1>7, <1>9 DEF TypeOK, Looping
  <2>2. \A c \in Registered(s) : calls'[c] = 1
    <3> SUFFICES ASSUME NEW c \in Registered(s) PROVE calls[c] = 1
      BY <1>9
    <3>1. PICK k \in DOMAIN callbacks[s] : callbacks[s][k] = c
      BY <1>7 DEF Looping, Range
    <3>2. k \in Nat /\ Top(t).n \in Nat /\ k < Top(t).n
      BY <1>2, <1>7, <1>9, ListIsShort DEF Looping
    <3> QED BY <1>7, <3>1, <3>2 DEF Looping
  <2>3. Cleared(s)'
    BY <1>19, <2>1, <2>2 DEF Cleared
  <2>4. ListIsSet(s)' /\ BeforeStop(s)'
    BY <2>1 DEF ListIsSet, BeforeStop
  <2>5. \A u \in Threads : \A i \in Depth(u)' : ~Loops(frames'[u][i], s)
    <3> SUFFICES ASSUME NEW u \in Threads, NEW i \in Depth(u)', Loops(frames'[u][i], s)
                 PROVE  FALSE
      BY DEF Loops
    <3>1. i \in Depth(u) /\ frames'[u][i] = frames[u][i] /\ (u = t => i <= n)
      BY <1>2, <1>8, <1>10, KeptFrames DEF Keeps, Depth
    <3> QED BY <1>14, <3>1 DEF Loops, Holds
  <2>6. DuringStop(s)'
    BY <2>5 DEF DuringStop
  <2> QED BY <2>3, <2>4, <2>6 DEF StateFits, AfterStop
<1>22. StatesFit'
  BY <1>20, <1>21 DEF StatesFit
<1> QED BY <1>11, <1>12, <1>13, <1>15, <1>16, <1>17, <1>18, <1>22 DEF IInv, StopInv

-----------------------------------------------------------------------------
(* The constructor of a callback.                                           *)

\* Whoever constructs or destroys a callback is the only one to do so.
LEMMA TopOwns ==
  ASSUME TypeOK, StopInv, NEW t \in Threads, frames[t] # <<>>, OwnsCallback(Top(t))
  PROVE  /\ Top(t).callback \in Callbacks /\ LifeFits(Top(t))
         /\ Top(t).state \in States \cup {NoState}
         /\ \A u \in Threads : \A i \in Depth(u) :
              OwnsCallback(frames[u][i]) /\ frames[u][i].callback = Top(t).callback =>
                u = t /\ i = Len(frames[t])
<1>1. /\ Len(frames[t]) \in Depth(t) /\ Top(t) = frames[t][Len(frames[t])]
      /\ Formed(Top(t)) /\ Top(t) \in StateFrames
  BY TopFrame DEF OwnsCallback
<1>2. Top(t).callback \in Callbacks /\ Top(t).state \in States \cup {NoState}
  BY <1>1 DEF Formed, OwnsCallback, StateFrames
<1>3. LifeFits(Top(t))
  BY <1>1 DEF StopInv, LivesAreOwned
<1>4. \A u \in Threads : \A i \in Depth(u) :
        OwnsCallback(frames[u][i]) /\ frames[u][i].callback = Top(t).callback =>
          u = t /\ i = Len(frames[t])
  BY <1>1 DEF StopInv, OneOwner
<1> QED BY <1>2, <1>3, <1>4

LEMMA AddCallbackKeeps ==
  ASSUME IInv, UNCHANGED handleVars, NEW t \in Threads, AddCallback(t)
  PROVE  IInv'
<1>1. frames[t] # <<>> /\ Top(t).op = "add_callback" /\ Top(t).at = "lock"
  BY DEF AddCallback, In
<1>2. TypeOK /\ StopInv /\ HandlesFit
  BY DEF IInv
<1>3. PICK n \in Nat : n = Len(frames[t]) - 1
  BY <1>1, <1>2, TopFrame
<1>4. /\ n + 1 = Len(frames[t]) /\ n + 1 \in Depth(t) /\ Depth(t) = 1..(n + 1)
      /\ Top(t) = frames[t][n + 1]
  BY <1>1, <1>2, <1>3, TopFrame
<1>5. /\ Top(t).callback \in Callbacks /\ LifeFits(Top(t))
      /\ Top(t).state \in States \cup {NoState}
      /\ \A u \in Threads : \A i \in Depth(u) :
           OwnsCallback(frames[u][i]) /\ frames[u][i].callback = Top(t).callback =>
             u = t /\ i = n + 1
  BY <1>1, <1>2, <1>4, TopOwns DEF OwnsCallback
<1>6. PICK c \in Callbacks : c = Top(t).callback
  BY <1>5
<1>7. life[c] = "constructing" /\ token[c] = Top(t).state /\ calls[c] = 0 /\ token[c] \in States
  BY <1>1, <1>5, <1>6 DEF LifeFits
<1>8. PICK s \in States : s = Top(t).state /\ token[c] = s
  BY <1>7
<1>9. /\ mutex[s] = Nobody /\ ~stopping[s]
      /\ callbacks' = [callbacks EXCEPT ![s] = Append(callbacks[s], c)]
      /\ life' = [life EXCEPT ![c] = "alive"]
      /\ UNCHANGED <<mutex, stopping, token, calls, wins>>
  BY <1>6, <1>8 DEF AddCallback
<1>10. Keeps(t, n, 0)
  BY <1>1, <1>2, <1>3, PopKeeps DEF AddCallback
<1>11. \A i \in (n + 1)..(n + 0) : FALSE
  OBVIOUS
<1>12. /\ Append(callbacks[s], c) \in Seq(Callbacks)
       /\ DOMAIN Append(callbacks[s], c) = 1..(Len(callbacks[s]) + 1)
       /\ \A k \in 1..Len(callbacks[s]) : Append(callbacks[s], c)[k] = callbacks[s][k]
       /\ Append(callbacks[s], c)[Len(callbacks[s]) + 1] = c
  <2>1. callbacks[s] \in Seq(Callbacks)
    BY <1>2 DEF TypeOK
  <2>2. /\ Append(callbacks[s], c) \in Seq(Callbacks)
        /\ Len(Append(callbacks[s], c)) = Len(callbacks[s]) + 1
        /\ \A k \in 1..Len(callbacks[s]) : Append(callbacks[s], c)[k] = callbacks[s][k]
        /\ Append(callbacks[s], c)[Len(callbacks[s]) + 1] = c
    BY <2>1, AppendProperties
  <2> QED BY <2>2, LenProperties
<1>13. TypeOK'
  <2>1. callbacks' \in [States -> Seq(Callbacks)]
    BY <1>2, <1>9, <1>12 DEF TypeOK
  <2>2. life' \in [Callbacks -> {"none", "constructing", "alive", "destroying", "destroyed"}]
    BY <1>2, <1>9 DEF TypeOK
  <2> QED BY <1>2, <1>9, <1>10, <2>1, <2>2, TypesStay DEF TypeOK
<1>14. HandlesFit'
  BY <1>2, <1>10, <1>11, HandlesStay
<1>15. FramesAreFormed'
  BY <1>2, <1>10, <1>11, FormedStay DEF StopInv
\* No list is being called.
<1>16. \A u \in Threads : \A i \in Depth(u) :
         Holds(frames[u][i]) => frames[u][i].state \in States \ {s} /\ mutex[frames[u][i].state] = u
  BY <1>2, <1>9, NamesAssumption DEF StopInv, HoldersOwnMutex
<1>17. HoldersOwnMutex'
  BY <1>2, <1>9, <1>10, <1>11, <1>16, HoldersStay
<1>18. FunctionsAreCalled'
  <2>1. \A u \in Threads : \A i \in Depth(u) : \A b :
          CallsFunction(frames[u][i], b, callbacks) => CallsFunction(frames[u][i], b, callbacks')
    BY <1>2, <1>9, <1>16 DEF CallsFunction, Holds, TypeOK
  <2> QED BY <1>2, <1>10, <1>11, <2>1, FunctionsStay
<1>19. LivesAreOwned' /\ OneOwner'
  <2>1. \A u \in Threads : \A i \in Depth(u) :
          OwnsCallback(frames[u][i]) /\ (u = t => i <= n) =>
            life'[frames[u][i].callback] = life[frames[u][i].callback]
    BY <1>2, <1>5, <1>6, <1>9 DEF TypeOK
  <2> QED BY <1>2, <1>9, <1>10, <1>11, <2>1, LivesStay
<1>20. Unborn'
  BY <1>2, <1>9 DEF StopInv, Unborn, TypeOK
<1>21. Registered(s)' = Registered(s) \cup {c} /\ c \notin Registered(s)
  BY <1>2, <1>7, <1>8, <1>9 DEF Registered, TypeOK
<1>22. ASSUME NEW r \in States \ {s} PROVE StateFits(r)'
  <2>1. callbacks'[r] = callbacks[r]
    BY <1>2, <1>9 DEF TypeOK
  <2>2. \A i \in Depth(t) : i > n => ~Loops(frames[t][i], r)
    BY <1>1, <1>4 DEF Loops
  <2>3. Registered(r)' = Registered(r)
    BY <1>2, <1>8, <1>9 DEF Registered, TypeOK
  <2> QED BY <1>2, <1>9, <1>10, <1>11, <2>1, <2>2, <2>3, StateStays
<1>23. StateFits(s)'
  <2>1. callbacks'[s] = Append(callbacks[s], c)
    BY <1>2, <1>9 DEF TypeOK
  <2>2. /\ ListIsSet(s) /\ wins[s] = 0
        /\ \A b \in Registered(s) : calls[b] = 0 /\ b \in Range(callbacks[s])
    BY <1>2, <1>9 DEF StopInv, StatesFit, StateFits, BeforeStop
  <2>3. DOMAIN callbacks[s] = 1..Len(callbacks[s]) /\ Len(callbacks[s]) \in Nat
    BY <1>2, ListIsShort
  <2>4. ListIsSet(s)'
    <3>1. \A k \in 1..(Len(callbacks[s]) + 1) :
            \/ k \in 1..Len(callbacks[s]) /\ callbacks'[s][k] = callbacks[s][k]
               /\ callbacks[s][k] \in Registered(s)
            \/ k = Len(callbacks[s]) + 1 /\ callbacks'[s][k] = c
      BY <1>12, <2>1, <2>2, <2>3 DEF ListIsSet
    <3>2. DOMAIN callbacks'[s] = 1..(Len(callbacks[s]) + 1)
      BY <1>12, <2>1
    <3> QED BY <1>21, <2>2, <2>3, <3>1, <3>2 DEF ListIsSet
  <2>5. BeforeStop(s)'
    <3>1. Len(callbacks[s]) + 1 \in DOMAIN callbacks'[s] /\ callbacks'[s][Len(callbacks[s]) + 1] = c
      BY <1>12, <2>1, <2>3
    <3>2. \A k \in DOMAIN callbacks[s] : k \in DOMAIN callbacks'[s] /\ callbacks'[s][k] = callbacks[s][k]
      BY <1>12, <2>1, <2>3
    <3>3. c \in Range(callbacks'[s]) /\ \A b \in Range(callbacks[s]) : b \in Range(callbacks'[s])
      BY <3>1, <3>2 DEF Range
    <3> QED BY <1>7, <1>9, <1>21, <2>2, <3>3 DEF BeforeStop
  <2>6. DuringStop(s)'
    <3> SUFFICES ASSUME NEW u \in Threads, NEW i \in Depth(u)', Loops(frames'[u][i], s)
                 PROVE  FALSE
      BY DEF DuringStop, Loops
    <3>1. i \in Depth(u) /\ frames'[u][i] = frames[u][i]
      BY <1>2, <1>10, <1>11, KeptFrames
    <3> QED BY <1>16, <3>1 DEF Loops, Holds
  <2>7. AfterStop(s)'
    BY <1>9 DEF AfterStop
  <2> QED BY <2>4, <2>5, <2>6, <2>7 DEF StateFits
<1>24. StatesFit'
  BY <1>22, <1>23 DEF StatesFit
<1> QED BY <1>13, <1>14, <1>15, <1>17, <1>18, <1>19, <1>20, <1>24 DEF IInv, StopInv

LEMMA AddCallbackStoppedKeeps ==
  ASSUME IInv, UNCHANGED handleVars, NEW t \in Threads, AddCallbackStopped(t)
  PROVE  IInv'
<1> DEFINE f == [Top(t) EXCEPT !.at = "call"]
<1>1. frames[t] # <<>> /\ Top(t).op = "add_callback" /\ Top(t).at = "lock"
  BY DEF AddCallbackStopped, In
<1>2. TypeOK /\ StopInv /\ HandlesFit
  BY DEF IInv
<1>3. PICK n \in Nat : n = Len(frames[t]) - 1
  BY <1>1, <1>2, TopFrame
<1>4. /\ n + 1 = Len(frames[t]) /\ n + 1 \in Depth(t) /\ Depth(t) = 1..(n + 1)
      /\ Top(t) = frames[t][n + 1] /\ Top(t) \in StateFrames /\ Formed(Top(t))
  BY <1>1, <1>2, <1>3, TopFrame
<1>5. /\ Top(t).callback \in Callbacks /\ LifeFits(Top(t))
      /\ Top(t).state \in States \cup {NoState}
      /\ \A u \in Threads : \A i \in Depth(u) :
           OwnsCallback(frames[u][i]) /\ frames[u][i].callback = Top(t).callback =>
             u = t /\ i = n + 1
  BY <1>1, <1>2, <1>4, TopOwns DEF OwnsCallback
<1>6. PICK s \in States : s = Top(t).state
  BY <1>1, <1>5 DEF LifeFits
<1>7. f \in Frames
  BY <1>4, FrameGoesOn DEF Frames
<1>8. /\ f.op = "add_callback" /\ f.at = "call" /\ f.state = s /\ f.n = 1
      /\ f.callback = Top(t).callback
  BY <1>1, <1>4, <1>6 DEF StateFrames, Formed
<1>9. Keeps(t, n, 1) /\ frames'[t][n + 1] = f
  BY <1>1, <1>2, <1>3, <1>4, <1>7, GoToKeeps DEF AddCallbackStopped
<1> HIDE DEF f
<1>10. /\ mutex[s] = Nobody /\ stopping[s] /\ mutex' = [mutex EXCEPT ![s] = t]
       /\ UNCHANGED <<stopping, callbacks, token, life, calls, wins>>
  BY <1>6 DEF AddCallbackStopped, Acquire
<1>11. \A i \in (n + 1)..(n + 1) : i = n + 1
  OBVIOUS
<1>12. TypeOK'
  <2>1. mutex' \in [States -> Threads \cup {Nobody}]
    BY <1>2, <1>10 DEF TypeOK
  <2> QED BY <1>2, <1>9, <1>10, <2>1, TypesStay DEF TypeOK
<1>13. HandlesFit'
  BY <1>2, <1>8, <1>9, <1>11, HandlesStay
<1>14. FramesAreFormed'
  <2>1. Formed(f)
    BY <1>5, <1>8 DEF Formed
  <2> QED BY <1>2, <1>9, <1>11, <2>1, FormedStay DEF StopInv
<1>15. \A u \in Threads : \A i \in Depth(u) :
         Holds(frames[u][i]) => frames[u][i].state \in States \ {s} /\ mutex[frames[u][i].state] = u
  BY <1>2, <1>10, NamesAssumption DEF StopInv, HoldersOwnMutex
<1>16. HoldersOwnMutex'
  <2>1. \A u \in Threads : \A i \in Depth(u) :
          Holds(frames[u][i]) => mutex'[frames[u][i].state] = u
    BY <1>2, <1>10, <1>15 DEF TypeOK
  <2>2. mutex'[s] = t
    BY <1>2, <1>10 DEF TypeOK
  <2> QED BY <1>2, <1>8, <1>9, <1>11, <1>15, <2>1, <2>2, HoldersStay
<1>17. FunctionsAreCalled'
  <2>1. f.op # "callback"
    BY <1>8
  <2> QED BY <1>2, <1>9, <1>10, <1>11, <2>1, FunctionsStay DEF CallsFunction
<1>18. LivesAreOwned' /\ OneOwner'
  <2>1. LifeFits(f)
    BY <1>1, <1>5, <1>6, <1>8, <1>10 DEF LifeFits
  <2>2. LifeFits(frames[t][n + 1])'
    BY <1>9, <1>10, <2>1 DEF LifeFits
  <2>3. \A u \in Threads : \A j \in Depth(u) :
          OwnsCallback(frames[u][j]) /\ frames[u][j].callback = f.callback => u = t /\ j > n
    BY <1>5, <1>8
  <2> QED BY <1>2, <1>9, <1>10, <1>11, <2>2, <2>3, LivesStay
<1>19. Unborn'
  BY <1>2, <1>10 DEF StopInv, Unborn
<1>20. StatesFit'
  <2> SUFFICES ASSUME NEW r \in States PROVE StateFits(r)'
    BY DEF StatesFit
  <2>1. Registered(r)' = Registered(r)
    BY <1>10 DEF Registered
  <2>2. ~Loops(f, r) /\ \A i \in Depth(t) : i > n => ~Loops(frames[t][i], r)
    BY <1>1, <1>4, <1>8 DEF Loops
  <2> QED BY <1>2, <1>9, <1>10, <1>11, <2>1, <2>2, StateStays
<1> QED BY <1>12, <1>13, <1>14, <1>16, <1>17, <1>18, <1>19, <1>20 DEF IInv, StopInv

LEMMA AddCallbackCallKeeps ==
  ASSUME IInv, UNCHANGED handleVars, NEW t \in Threads, AddCallbackCall(t)
  PROVE  IInv'
<1> DEFINE f == [Top(t) EXCEPT !.at = "return", !.n = Top(t).n + 1]
<1>1. frames[t] # <<>> /\ Top(t).op = "add_callback" /\ Top(t).at = "call"
  BY DEF AddCallbackCall, In
<1>2. TypeOK /\ StopInv /\ HandlesFit
  BY DEF IInv
<1>3. PICK n \in Nat : n = Len(frames[t]) - 1
  BY <1>1, <1>2, TopFrame
<1>4. /\ n + 1 = Len(frames[t]) /\ n + 1 \in Depth(t) /\ Depth(t) = 1..(n + 1)
      /\ Top(t) = frames[t][n + 1] /\ Top(t) \in StateFrames /\ Formed(Top(t))
  BY <1>1, <1>2, <1>3, TopFrame
<1>5. /\ Top(t).callback \in Callbacks /\ LifeFits(Top(t))
      /\ Top(t).state \in States \cup {NoState}
      /\ \A u \in Threads : \A i \in Depth(u) :
           OwnsCallback(frames[u][i]) /\ frames[u][i].callback = Top(t).callback =>
             u = t /\ i = n + 1
  BY <1>1, <1>2, <1>4, TopOwns DEF OwnsCallback
<1>6. PICK c \in Callbacks : c = Top(t).callback
  BY <1>5
<1>7. PICK s \in States \cup {NoState} : s = Top(t).state
  BY <1>5
<1> DEFINE g == Frame("callback", NoState, c, "call")
<1>8. life[c] = "constructing" /\ token[c] = s /\ calls[c] = 0 /\ (s # NoState => stopping[s])
  BY <1>1, <1>5, <1>6, <1>7 DEF LifeFits
<1>9. Cardinality(Callbacks) \in Nat /\ 1 <= Cardinality(Callbacks)
  BY <1>6, CallbacksAssumption, FS_CardinalityType, FS_EmptySet
<1>10. Top(t).n = 1
  BY <1>1, <1>4 DEF Formed
<1>11. f \in Frames /\ g \in Frames
  <2>1. f \in StateFrames
    BY <1>4, <1>9, <1>10, FrameGoesOn
  <2>2. 1 \in 1..Cardinality(Callbacks) + 1
    BY <1>9
  <2> QED BY <2>1, <2>2 DEF Frames, Frame, StateFrames
<1>12. /\ f.op = "add_callback" /\ f.at = "return" /\ f.state = s /\ f.callback = c
       /\ g.op = "callback" /\ g.callback = c /\ g.at = "call" /\ g.n = 1
  BY <1>1, <1>4, <1>6, <1>7 DEF StateFrames, Frame
<1>13. /\ calls' = [calls EXCEPT ![c] = calls[c] + 1]
       /\ UNCHANGED <<mutex, stopping, callbacks, token, life, wins>>
       /\ GoToAndPush(t, "return", g)
  BY <1>6 DEF AddCallbackCall, CallFunction
<1>14. Keeps(t, n, 2) /\ frames'[t][n + 1] = f /\ frames'[t][n + 2] = g
  <2> HIDE DEF g
  <2>1. /\ Keeps(t, Len(frames[t]) - 1, 2)
        /\ frames'[t][Len(frames[t])] = f /\ frames'[t][Len(frames[t]) + 1] = g
    BY <1>1, <1>2, <1>11, <1>13, CallKeeps
  <2> QED BY <1>3, <1>4, <2>1
<1> HIDE DEF f, g
<1>15. \A i \in (n + 1)..(n + 2) : i = n + 1 \/ i = n + 2
  OBVIOUS
<1>16. n + 2 > 1 /\ (n + 2) - 1 = n + 1
  OBVIOUS
<1>17. TypeOK'
  <2>1. calls' \in [Callbacks -> 0..1]
    BY <1>2, <1>8, <1>13 DEF TypeOK
  <2> QED BY <1>2, <1>13, <1>14, <2>1, TypesStay DEF TypeOK
<1>18. HandlesFit'
  BY <1>2, <1>12, <1>14, <1>15, HandlesStay
<1>19. FramesAreFormed'
  <2>1. Formed(f) /\ Formed(g)
    BY <1>12 DEF Formed
  <2> QED BY <1>2, <1>14, <1>15, <2>1, FormedStay DEF StopInv
<1>20. HoldersOwnMutex'
  <2>1. \A u \in Threads : \A i \in Depth(u) :
          Holds(frames[u][i]) => mutex'[frames[u][i].state] = u
    BY <1>2, <1>13 DEF StopInv, HoldersOwnMutex
  <2>2. ~Holds(g)
    BY <1>12 DEF Holds
  <2>3. Holds(f) => /\ f.state \in States /\ mutex'[f.state] = t
                    /\ \A j \in Depth(t) :
                         Holds(frames[t][j]) /\ frames[t][j].state = f.state => j > n
    <3> SUFFICES ASSUME Holds(f)
                 PROVE  /\ f.state \in States /\ mutex'[f.state] = t
                        /\ \A j \in Depth(t) :
                             Holds(frames[t][j]) /\ frames[t][j].state = f.state => j > n
      OBVIOUS
    <3>1. Holds(Top(t)) /\ Top(t).state = f.state
      BY <1>1, <1>7, <1>12 DEF Holds
    <3>2. /\ Top(t).state \in States /\ mutex[Top(t).state] = t
          /\ \A u \in Threads : \A i \in Depth(u) :
               Holds(frames[u][i]) /\ frames[u][i].state = Top(t).state => u = t /\ i = n + 1
      BY <1>1, <1>2, <1>4, <3>1, TopHolds
    <3> QED BY <1>13, <3>1, <3>2
  <2> QED BY <1>2, <1>14, <1>15, <2>1, <2>2, <2>3, HoldersStay
<1>21. FunctionsAreCalled'
  <2>1. CallsFunction(f, c, callbacks')
    BY <1>12 DEF CallsFunction
  <2> QED BY <1>2, <1>12, <1>13, <1>14, <1>15, <1>16, <2>1, FunctionsStay DEF CallsFunction
<1>22. calls'[c] = 1 /\ \A b \in Callbacks \ {c} : calls'[b] = calls[b]
  BY <1>2, <1>8, <1>13 DEF TypeOK
<1>23. LivesAreOwned' /\ OneOwner'
  <2>1. LifeFits(frames[t][n + 1])'
    BY <1>8, <1>12, <1>13, <1>14, <1>22 DEF LifeFits
  <2>2. \A u \in Threads : \A j \in Depth(u) :
          OwnsCallback(frames[u][j]) /\ frames[u][j].callback = f.callback => u = t /\ j > n
    BY <1>5, <1>6, <1>12
  <2>3. \A u \in Threads : \A i \in Depth(u) :
          frames[u][i].op = "add_callback" /\ (u = t => i <= n) =>
            calls'[frames[u][i].callback] = calls[frames[u][i].callback]
    BY <1>2, <1>5, <1>6, <1>22 DEF OwnsCallback, StopInv, FramesAreFormed, Formed
  <2>4. \A i \in (n + 1)..(n + 2) : OwnsCallback(frames'[t][i]) => i = n + 1
    BY <1>12, <1>14, <1>15 DEF OwnsCallback
  <2>5. \A i \in (n + 1)..(n + 2) : OwnsCallback(frames'[t][i]) =>
          /\ LifeFits(frames[t][i])'
          /\ \A u \in Threads : \A j \in Depth(u) :
               OwnsCallback(frames[u][j]) /\ frames[u][j].callback = frames'[t][i].callback =>
                 u = t /\ j > n
          /\ \A j \in (n + 1)..(n + 2) :
               OwnsCallback(frames'[t][j]) /\ frames'[t][j].callback = frames'[t][i].callback =>
                 j = i
    BY <1>14, <2>1, <2>2, <2>4
  <2> QED BY <1>2, <1>13, <1>14, <2>3, <2>5, LivesStay
<1>24. Unborn'
  BY <1>2, <1>8, <1>13, <1>22 DEF StopInv, Unborn
<1>25. StatesFit'
  <2> SUFFICES ASSUME NEW r \in States PROVE StateFits(r)'
    BY DEF StatesFit
  <2>1. Registered(r)' = Registered(r)
    BY <1>13 DEF Registered
  <2>2. \A b \in Registered(r) : calls'[b] = calls[b]
    BY <1>8, <1>22 DEF Registered
  <2>3. ~Loops(f, r) /\ ~Loops(g, r) /\ \A i \in Depth(t) : i > n => ~Loops(frames[t][i], r)
    BY <1>1, <1>4, <1>12 DEF Loops
  <2> QED BY <1>2, <1>13, <1>14, <1>15, <2>1, <2>2, <2>3, StateStays
<1> QED BY <1>17, <1>18, <1>19, <1>20, <1>21, <1>23, <1>24, <1>25 DEF IInv, StopInv

LEMMA AddCallbackReturnKeeps ==
  ASSUME IInv, UNCHANGED handleVars, NEW t \in Threads, AddCallbackReturn(t)
  PROVE  IInv'
<1>1. frames[t] # <<>> /\ Top(t).op = "add_callback" /\ Top(t).at = "return"
  BY DEF AddCallbackReturn, In
<1>2. TypeOK /\ StopInv /\ HandlesFit
  BY DEF IInv
<1>3. PICK n \in Nat : n = Len(frames[t]) - 1
  BY <1>1, <1>2, TopFrame
<1>4. /\ n + 1 = Len(frames[t]) /\ n + 1 \in Depth(t) /\ Depth(t) = 1..(n + 1)
      /\ Top(t) = frames[t][n + 1]
  BY <1>1, <1>2, <1>3, TopFrame
<1>5. /\ Top(t).callback \in Callbacks /\ LifeFits(Top(t))
      /\ Top(t).state \in States \cup {NoState}
      /\ \A u \in Threads : \A i \in Depth(u) :
           OwnsCallback(frames[u][i]) /\ frames[u][i].callback = Top(t).callback =>
             u = t /\ i = n + 1
  BY <1>1, <1>2, <1>4, TopOwns DEF OwnsCallback
<1>6. PICK c \in Callbacks : c = Top(t).callback
  BY <1>5
<1>7. PICK s \in States \cup {NoState} : s = Top(t).state
  BY <1>5
<1>8. life[c] = "constructing" /\ token[c] = s /\ calls[c] = 1 /\ (s # NoState => stopping[s])
  BY <1>1, <1>5, <1>6, <1>7 DEF LifeFits
<1>9. s \in States =>
        /\ mutex[s] = t
        /\ \A u \in Threads : \A i \in Depth(u) :
             Holds(frames[u][i]) /\ frames[u][i].state = s => u = t /\ i = n + 1
  <2>1. s \in States => Holds(Top(t))
    BY <1>1, <1>7, NamesAssumption DEF Holds
  <2> QED
  BY <1>1, <1>2, <1>4, <1>7, <2>1, TopHolds
<1>10. /\ mutex' = [r \in States |-> IF r = s THEN Nobody ELSE mutex[r]]
       /\ life' = [life EXCEPT ![c] = "alive"]
       /\ UNCHANGED <<stopping, callbacks, token, calls, wins>>
  BY <1>6, <1>7 DEF AddCallbackReturn, Release
<1>11. Keeps(t, n, 0)
  BY <1>1, <1>2, <1>3, PopKeeps DEF AddCallbackReturn
<1>12. \A i \in (n + 1)..(n + 0) : FALSE
  OBVIOUS
<1>13. TypeOK'
  <2>1. mutex' \in [States -> Threads \cup {Nobody}]
    BY <1>2, <1>10 DEF TypeOK
  <2>2. life' \in [Callbacks -> {"none", "constructing", "alive", "destroying", "destroyed"}]
    BY <1>2, <1>10 DEF TypeOK
  <2> QED BY <1>2, <1>10, <1>11, <2>1, <2>2, TypesStay DEF TypeOK
<1>14. HandlesFit'
  BY <1>2, <1>11, <1>12, HandlesStay
<1>15. FramesAreFormed'
  BY <1>2, <1>11, <1>12, FormedStay DEF StopInv
<1>16. \A u \in Threads : \A i \in Depth(u) :
         Holds(frames[u][i]) /\ (u = t => i <= n) =>
           /\ frames[u][i].state \in States \ {s} /\ mutex[frames[u][i].state] = u
  <2> SUFFICES ASSUME NEW u \in Threads, NEW i \in Depth(u), Holds(frames[u][i]), u = t => i <= n
               PROVE  frames[u][i].state \in States \ {s} /\ mutex[frames[u][i].state] = u
    OBVIOUS
  <2>1. frames[u][i].state \in States /\ mutex[frames[u][i].state] = u
    BY <1>2 DEF StopInv, HoldersOwnMutex
  <2>2. frames[u][i].state # s
    BY <1>9, <2>1
  <2> QED BY <2>1, <2>2
<1>17. HoldersOwnMutex'
  <2>1. \A u \in Threads : \A i \in Depth(u) :
          Holds(frames[u][i]) /\ (u = t => i <= n) => mutex'[frames[u][i].state] = u
    BY <1>10, <1>16
  <2> QED BY <1>2, <1>11, <1>12, <2>1, HoldersStay
<1>18. FunctionsAreCalled'
  BY <1>2, <1>10, <1>11, <1>12, FunctionsStay DEF CallsFunction
<1>19. LivesAreOwned' /\ OneOwner'
  <2>1. \A u \in Threads : \A i \in Depth(u) :
          OwnsCallback(frames[u][i]) /\ (u = t => i <= n) =>
            life'[frames[u][i].callback] = life[frames[u][i].callback]
    BY <1>2, <1>5, <1>6, <1>10 DEF TypeOK
  <2> QED BY <1>2, <1>10, <1>11, <1>12, <2>1, LivesStay
<1>20. Unborn'
  BY <1>2, <1>10 DEF StopInv, Unborn, TypeOK
<1>21. \A r \in States : Registered(r)' = IF r = s THEN Registered(r) \cup {c} ELSE Registered(r)
  BY <1>2, <1>8, <1>10 DEF Registered, TypeOK
<1>22. ASSUME NEW r \in States \ {s} PROVE StateFits(r)'
  <2>1. \A i \in Depth(t) : i > n => ~Loops(frames[t][i], r)
    BY <1>1, <1>4 DEF Loops
  <2>2. Registered(r)' = Registered(r)
    BY <1>21
  <2> QED BY <1>2, <1>10, <1>11, <1>12, <2>1, <2>2, StateStays
<1>23. ASSUME s \in States PROVE StateFits(s)'
  <2>1. \A u \in Threads : \A i \in Depth(u) : ~Loops(frames[u][i], s)
    <3> SUFFICES ASSUME NEW u \in Threads, NEW i \in Depth(u), Loops(frames[u][i], s) PROVE FALSE
      OBVIOUS
    <3>1. u = t /\ i = n + 1
      BY <1>9, <1>23 DEF Loops, Holds
    <3> QED BY <1>1, <1>4, <3>1 DEF Loops
  <2>2. stopping[s] /\ Cleared(s)
    BY <1>2, <1>8, <1>23, <2>1, NamesAssumption DEF StopInv, StatesFit, StateFits, AfterStop
  <2>3. Cleared(s)'
    <3>1. Registered(s)' = Registered(s) \cup {c}
      BY <1>21, <1>23
    <3> QED BY <1>8, <1>10, <2>2, <3>1 DEF Cleared
  <2>4. ListIsSet(s)' /\ BeforeStop(s)'
    BY <1>10, <2>2 DEF ListIsSet, BeforeStop, Cleared
  <2>5. DuringStop(s)'
    <3> SUFFICES ASSUME NEW u \in Threads, NEW i \in Depth(u)', Loops(frames'[u][i], s)
                 PROVE  FALSE
      BY DEF DuringStop, Loops
    <3>1. i \in Depth(u) /\ frames'[u][i] = frames[u][i]
      BY <1>2, <1>11, <1>12, KeptFrames
    <3> QED BY <2>1, <3>1
  <2> QED BY <2>3, <2>4, <2>5 DEF StateFits, AfterStop
<1>24. StatesFit'
  BY <1>22, <1>23 DEF StatesFit
<1> QED BY <1>13, <1>14, <1>15, <1>17, <1>18, <1>19, <1>20, <1>24 DEF IInv, StopInv

\* The constructor begins.
LEMMA ConstructKeeps ==
  ASSUME IInv, UNCHANGED handleVars, NEW t \in Threads, NEW c \in Callbacks,
         NEW s \in States \cup {NoState}, Construct(t, c, s)
  PROVE  IInv'
<1> DEFINE f == Frame("add_callback", s, c, IF s = NoState THEN "call" ELSE "lock")
<1>1. TypeOK /\ StopInv /\ HandlesFit
  BY DEF IInv
<1>2. frames[t] \in Seq(Frames)
  BY <1>1 DEF TypeOK, Frames
<1>3. PICK n \in Nat : n = Len(frames[t]) /\ Depth(t) = 1..n
  BY <1>2, LenProperties DEF Depth
<1>4. f \in Frames
  <2>1. 1 \in 1..Cardinality(Callbacks) + 1
    BY CallbacksAssumption, FS_CardinalityType
  <2> QED BY <2>1 DEF Frame, Frames, StateFrames
<1>5. /\ f.op = "add_callback" /\ f.state = s /\ f.callback = c /\ f.n = 1
      /\ f.at = (IF s = NoState THEN "call" ELSE "lock")
  BY DEF Frame
<1>6. Keeps(t, n, 1) /\ frames'[t][n + 1] = f
  BY <1>1, <1>3, <1>4, PushKeeps DEF Construct
<1> HIDE DEF f
<1>7. /\ life[c] = "none" /\ life' = [life EXCEPT ![c] = "constructing"]
      /\ token' = [token EXCEPT ![c] = s]
      /\ UNCHANGED <<mutex, stopping, callbacks, calls, wins>>
  BY DEF Construct
<1>8. \A i \in (n + 1)..(n + 1) : i = n + 1
  OBVIOUS
<1>9. \A u \in Threads : \A i \in Depth(u) :
        OwnsCallback(frames[u][i]) => frames[u][i].callback \in Callbacks \ {c}
  BY <1>1, <1>7 DEF StopInv, FramesAreFormed, Formed, LivesAreOwned, LifeFits, OwnsCallback
<1>10. TypeOK'
  <2>1. token' \in [Callbacks -> States \cup {NoState}]
    BY <1>1, <1>7 DEF TypeOK
  <2>2. life' \in [Callbacks -> {"none", "constructing", "alive", "destroying", "destroyed"}]
    BY <1>1, <1>7 DEF TypeOK
  <2> QED BY <1>1, <1>6, <1>7, <2>1, <2>2, TypesStay DEF TypeOK
<1>11. HandlesFit'
  BY <1>1, <1>5, <1>6, <1>8, HandlesStay
<1>12. FramesAreFormed'
  <2>1. Formed(f)
    BY <1>5 DEF Formed
  <2> QED BY <1>1, <1>6, <1>8, <2>1, FormedStay DEF StopInv
<1>13. HoldersOwnMutex'
  <2>1. \A u \in Threads : \A i \in Depth(u) :
          Holds(frames[u][i]) => mutex'[frames[u][i].state] = u
    BY <1>1, <1>7 DEF StopInv, HoldersOwnMutex
  <2>2. ~Holds(f)
    BY <1>5 DEF Holds
  <2> QED BY <1>1, <1>6, <1>8, <2>1, <2>2, HoldersStay
<1>14. FunctionsAreCalled'
  <2>1. f.op # "callback"
    BY <1>5
  <2> QED BY <1>1, <1>6, <1>7, <1>8, <2>1, FunctionsStay DEF CallsFunction
<1>15. life'[c] = "constructing" /\ token'[c] = s /\ calls'[c] = 0
  BY <1>1, <1>7 DEF TypeOK, StopInv, Unborn
<1>16. \A b \in Callbacks \ {c} : life'[b] = life[b] /\ token'[b] = token[b]
  BY <1>1, <1>7 DEF TypeOK
<1>17. LivesAreOwned' /\ OneOwner'
  <2>1. LifeFits(frames[t][n + 1])'
    BY <1>5, <1>6, <1>15 DEF LifeFits
  <2>2. \A u \in Threads : \A j \in Depth(u) :
          OwnsCallback(frames[u][j]) => frames[u][j].callback # f.callback
    BY <1>5, <1>9
  <2>3. \A u \in Threads : \A i \in Depth(u) :
          OwnsCallback(frames[u][i]) =>
            /\ token'[frames[u][i].callback] = token[frames[u][i].callback]
            /\ life'[frames[u][i].callback] = life[frames[u][i].callback]
    BY <1>9, <1>16
  <2> QED BY <1>1, <1>6, <1>7, <1>8, <2>1, <2>2, <2>3, LivesStay
<1>18. Unborn'
  BY <1>1, <1>7, <1>15, <1>16 DEF StopInv, Unborn
<1>19. StatesFit'
  <2> SUFFICES ASSUME NEW r \in States PROVE StateFits(r)'
    BY DEF StatesFit
  <2>1. Registered(r)' = Registered(r)
    BY <1>7, <1>15, <1>16 DEF Registered
  <2>2. ~Loops(f, r) /\ \A i \in Depth(t) : i > n => ~Loops(frames[t][i], r)
    BY <1>3, <1>5 DEF Loops
  <2> QED BY <1>1, <1>6, <1>7, <1>8, <2>1, <2>2, StateStays
<1> QED BY <1>10, <1>11, <1>12, <1>13, <1>14, <1>17, <1>18, <1>19 DEF IInv, StopInv

-----------------------------------------------------------------------------
(* The destructor of a callback.                                            *)

\* The destructor begins.
LEMMA DestroyKeeps ==
  ASSUME IInv, UNCHANGED handleVars, NEW t \in Threads, NEW c \in Callbacks, Destroy(t, c)
  PROVE  IInv'
<1>1. TypeOK /\ StopInv /\ HandlesFit
  BY DEF IInv
<1>2. frames[t] \in Seq(Frames)
  BY <1>1 DEF TypeOK, Frames
<1>3. PICK n \in Nat : n = Len(frames[t]) /\ Depth(t) = 1..n
  BY <1>2, LenProperties DEF Depth
<1>4. PICK s \in States \cup {NoState} : s = token[c]
  BY <1>1 DEF TypeOK
<1> DEFINE f == Frame("remove_callback", s, c, "lock")
<1>5. f \in Frames
  <2>1. 1 \in 1..Cardinality(Callbacks) + 1
    BY CallbacksAssumption, FS_CardinalityType
  <2> QED BY <2>1 DEF Frame, Frames, StateFrames
<1>6. f.op = "remove_callback" /\ f.state = s /\ f.callback = c /\ f.n = 1 /\ f.at = "lock"
  BY DEF Frame
<1>7. Keeps(t, n, 1) /\ frames'[t][n + 1] = f
  BY <1>1, <1>3, <1>4, <1>5, PushKeeps DEF Destroy
<1> HIDE DEF f
<1>8. /\ life[c] = "alive" /\ life' = [life EXCEPT ![c] = "destroying"]
      /\ UNCHANGED <<mutex, stopping, callbacks, token, calls, wins>>
  BY DEF Destroy
<1>9. \A i \in (n + 1)..(n + 1) : i = n + 1
  OBVIOUS
<1>10. \A u \in Threads : \A i \in Depth(u) :
         OwnsCallback(frames[u][i]) => frames[u][i].callback \in Callbacks \ {c}
  BY <1>1, <1>8 DEF StopInv, FramesAreFormed, Formed, LivesAreOwned, LifeFits, OwnsCallback
<1>11. TypeOK'
  <2>1. life' \in [Callbacks -> {"none", "constructing", "alive", "destroying", "destroyed"}]
    BY <1>1, <1>8 DEF TypeOK
  <2> QED BY <1>1, <1>7, <1>8, <2>1, TypesStay DEF TypeOK
<1>12. HandlesFit'
  BY <1>1, <1>6, <1>7, <1>9, HandlesStay
<1>13. FramesAreFormed'
  <2>1. Formed(f)
    BY <1>6 DEF Formed
  <2> QED BY <1>1, <1>7, <1>9, <2>1, FormedStay DEF StopInv
<1>14. HoldersOwnMutex'
  <2>1. \A u \in Threads : \A i \in Depth(u) :
          Holds(frames[u][i]) => mutex'[frames[u][i].state] = u
    BY <1>1, <1>8 DEF StopInv, HoldersOwnMutex
  <2>2. ~Holds(f)
    BY <1>6 DEF Holds
  <2> QED BY <1>1, <1>7, <1>9, <2>1, <2>2, HoldersStay
<1>15. FunctionsAreCalled'
  <2>1. f.op # "callback"
    BY <1>6
  <2> QED BY <1>1, <1>7, <1>8, <1>9, <2>1, FunctionsStay DEF CallsFunction
<1>16. life'[c] = "destroying" /\ \A b \in Callbacks \ {c} : life'[b] = life[b]
  BY <1>1, <1>8 DEF TypeOK
<1>17. LivesAreOwned' /\ OneOwner'
  <2>1. LifeFits(frames[t][n + 1])'
    BY <1>4, <1>6, <1>7, <1>8, <1>16 DEF LifeFits
  <2>2. \A u \in Threads : \A j \in Depth(u) :
          OwnsCallback(frames[u][j]) => frames[u][j].callback # f.callback
    BY <1>6, <1>10
  <2>3. \A u \in Threads : \A i \in Depth(u) :
          OwnsCallback(frames[u][i]) => life'[frames[u][i].callback] = life[frames[u][i].callback]
    BY <1>10, <1>16
  <2> QED BY <1>1, <1>7, <1>8, <1>9, <2>1, <2>2, <2>3, LivesStay
<1>18. Unborn'
  BY <1>1, <1>8, <1>16 DEF StopInv, Unborn
<1>19. StatesFit'
  <2> SUFFICES ASSUME NEW r \in States PROVE StateFits(r)'
    BY DEF StatesFit
  <2>1. Registered(r)' = Registered(r)
    BY <1>8, <1>16 DEF Registered
  <2>2. ~Loops(f, r) /\ \A i \in Depth(t) : i > n => ~Loops(frames[t][i], r)
    BY <1>3, <1>6 DEF Loops
  <2> QED BY <1>1, <1>7, <1>8, <1>9, <2>1, <2>2, StateStays
<1> QED BY <1>11, <1>12, <1>13, <1>14, <1>15, <1>17, <1>18, <1>19 DEF IInv, StopInv

\* From a list that has nothing twice, RemoveFirst takes the one there is.
LEMMA RemoveFirstRemoves ==
  ASSUME NEW S, NEW q \in Seq(S), NEW e,
         \A i, j \in DOMAIN q : q[i] = q[j] => i = j
  PROVE  /\ RemoveFirst(q, e) \in Seq(S)
         /\ \A i, j \in DOMAIN RemoveFirst(q, e) :
              RemoveFirst(q, e)[i] = RemoveFirst(q, e)[j] => i = j
         /\ Range(RemoveFirst(q, e)) = Range(q) \ {e}
<1> DEFINE r == RemoveFirst(q, e)
<1>1. Len(q) \in Nat /\ DOMAIN q = 1..Len(q)
  BY LenProperties
<1>2. CASE \A i \in 1..Len(q) : q[i] # e
  <2>1. r = q
    BY <1>2 DEF RemoveFirst
  <2>2. e \notin Range(q)
    BY <1>1, <1>2 DEF Range
  <2> QED BY <2>1, <2>2
<1>3. CASE \E i \in 1..Len(q) : q[i] = e
  <2>1. PICK m \in 1..Len(q) : q[m] = e
    BY <1>3
  <2>2. {i \in 1..Len(q) : q[i] = e} = {m}
    BY <1>1, <2>1
  <2>3. (CHOOSE x \in {m} : \A y \in {m} : x =< y) = m
    BY <1>1, <2>1
  <2>4. SelectInSeq(q, LAMBDA v : v = e) = m
    <3>1. Min({m}) = m
      BY <2>3 DEF Min
    <3> QED BY <2>2, <3>1 DEF SelectInSeq
  <2>5. r = SubSeq(q, 1, m - 1) \o SubSeq(q, m + 1, Len(q))
    BY <1>3, <2>4 DEF RemoveFirst, RemoveAt
  <2>6. PICK n \in Nat : n = Len(q)
    BY <1>1
  <2>7. m \in Nat /\ 1 <= m /\ m <= n
    BY <2>1, <2>6
  <2> DEFINE a == SubSeq(q, 1, m - 1)
             b == SubSeq(q, m + 1, n)
  <2>8. \A i \in 1..n : q[i] \in S
    BY <2>6, ElementOfSeq
  <2>9. a \in Seq(S) /\ Len(a) = m - 1 /\ \A i \in 1..(m - 1) : a[i] = q[i]
    <3>1. 1 \in Int /\ m - 1 \in Int /\ \A i \in 1..(m - 1) : q[i] \in S
      BY <2>7, <2>8
    <3>2. /\ a \in Seq(S)
          /\ Len(a) = IF 1 <= m - 1 THEN (m - 1) - 1 + 1 ELSE 0
          /\ \A i \in 1..((m - 1) - 1 + 1) : a[i] = q[1 + i - 1]
      BY <3>1, SubSeqProperties
    <3> HIDE DEF a
    <3> QED BY <2>7, <3>2
  <2>10. b \in Seq(S) /\ Len(b) = n - m /\ \A i \in 1..(n - m) : b[i] = q[m + i]
    <3>1. m + 1 \in Int /\ n \in Int /\ \A i \in (m + 1)..n : q[i] \in S
      BY <2>6, <2>7, <2>8
    <3>2. /\ b \in Seq(S)
          /\ Len(b) = IF m + 1 <= n THEN n - (m + 1) + 1 ELSE 0
          /\ \A i \in 1..(n - (m + 1) + 1) : b[i] = q[(m + 1) + i - 1]
      BY <3>1, SubSeqProperties
    <3> HIDE DEF b
    <3>3. n - (m + 1) + 1 = n - m /\ \A i \in 1..(n - m) : (m + 1) + i - 1 = m + i
      BY <2>6, <2>7
    <3> QED BY <2>6, <2>7, <3>2, <3>3
  <2>11. r = a \o b
    BY <2>5, <2>6
  <2> HIDE DEF a, b, r
  <2>12. /\ r \in Seq(S) /\ Len(r) = (m - 1) + (n - m)
         /\ \A i \in 1..((m - 1) + (n - m)) : r[i] = IF i <= m - 1 THEN a[i] ELSE b[i - (m - 1)]
    <3>1. /\ a \o b \in Seq(S) /\ Len(a \o b) = Len(a) + Len(b)
          /\ \A i \in 1..(Len(a) + Len(b)) :
               (a \o b)[i] = IF i <= Len(a) THEN a[i] ELSE b[i - Len(a)]
      BY <2>9, <2>10, ConcatProperties
    <3> QED BY <2>9, <2>10, <2>11, <3>1
  <2>13. DOMAIN r = 1..(n - 1)
    <3>1. DOMAIN r = 1..((m - 1) + (n - m))
      BY <2>12, LenProperties
    <3> QED BY <2>6, <2>7, <3>1
  <2>14. \A i \in 1..(n - 1) : r[i] = q[IF i < m THEN i ELSE i + 1]
    <3> SUFFICES ASSUME NEW i \in 1..(n - 1) PROVE r[i] = q[IF i < m THEN i ELSE i + 1]
      OBVIOUS
    <3>1. i \in 1..((m - 1) + (n - m))
      BY <2>6, <2>7
    <3>2. CASE i < m
      <4>1. i <= m - 1 /\ i \in 1..(m - 1)
        BY <2>7, <3>2
      <4> QED BY <2>9, <2>12, <3>1, <3>2, <4>1
    <3>3. CASE ~(i < m)
      <4>1. ~(i <= m - 1) /\ i - (m - 1) \in 1..(n - m) /\ m + (i - (m - 1)) = i + 1
        BY <2>6, <2>7, <3>3
      <4>2. b[i - (m - 1)] = q[m + (i - (m - 1))]
        BY <2>10, <4>1
      <4> QED BY <2>12, <3>1, <3>3, <4>1, <4>2
    <3> QED BY <3>2, <3>3
  <2>15. \A i \in 1..(n - 1) : (IF i < m THEN i ELSE i + 1) \in 1..n \ {m}
    BY <2>6, <2>7
  <2>16. \A i, j \in DOMAIN r : r[i] = r[j] => i = j
    <3> SUFFICES ASSUME NEW i \in 1..(n - 1), NEW j \in 1..(n - 1), r[i] = r[j] PROVE i = j
      BY <2>13
    <3>1. (IF i < m THEN i ELSE i + 1) = (IF j < m THEN j ELSE j + 1)
      BY <1>1, <2>6, <2>14, <2>15
    <3> QED BY <2>6, <2>7, <3>1
  <2>17. \A i \in 1..(n - 1) : r[i] \in Range(q) \ {e}
    BY <1>1, <2>1, <2>6, <2>14, <2>15 DEF Range
  <2>18. \A k \in 1..n \ {m} : \E i \in 1..(n - 1) : r[i] = q[k]
    <3> SUFFICES ASSUME NEW k \in 1..n, k # m PROVE \E i \in 1..(n - 1) : r[i] = q[k]
      OBVIOUS
    <3>1. CASE k < m
      <4>1. k \in 1..(n - 1)
        BY <2>6, <2>7, <3>1
      <4> QED BY <2>14, <3>1, <4>1
    <3>2. CASE k > m
      <4>1. k - 1 \in 1..(n - 1) /\ ~(k - 1 < m) /\ (k - 1) + 1 = k
        BY <2>6, <2>7, <3>2
      <4> QED BY <2>14, <4>1
    <3> QED BY <2>7, <3>1, <3>2
  <2>19. Range(r) = Range(q) \ {e}
    <3>1. \A x \in Range(r) : x \in Range(q) \ {e}
      BY <2>13, <2>17 DEF Range
    <3>2. ASSUME NEW x \in Range(q) \ {e} PROVE x \in Range(r)
      <4>1. PICK k \in 1..n : q[k] = x
        BY <1>1, <2>6 DEF Range
      <4>2. PICK i \in 1..(n - 1) : r[i] = q[k]
        BY <2>1, <2>18, <4>1
      <4> QED BY <2>13, <4>1, <4>2 DEF Range
    <3> QED BY <3>1, <3>2
  <2> QED BY <2>12, <2>16, <2>19 DEF r
<1> QED BY <1>2, <1>3

LEMMA RemoveCallbackKeeps ==
  ASSUME IInv, UNCHANGED handleVars, NEW t \in Threads, RemoveCallback(t)
  PROVE  IInv'
<1>1. frames[t] # <<>> /\ Top(t).op = "remove_callback" /\ Top(t).at = "lock"
  BY DEF RemoveCallback, In
<1>2. TypeOK /\ StopInv /\ HandlesFit
  BY DEF IInv
<1>3. PICK n \in Nat : n = Len(frames[t]) - 1
  BY <1>1, <1>2, TopFrame
<1>4. /\ n + 1 = Len(frames[t]) /\ n + 1 \in Depth(t) /\ Depth(t) = 1..(n + 1)
      /\ Top(t) = frames[t][n + 1]
  BY <1>1, <1>2, <1>3, TopFrame
<1>5. /\ Top(t).callback \in Callbacks /\ LifeFits(Top(t))
      /\ Top(t).state \in States \cup {NoState}
      /\ \A u \in Threads : \A i \in Depth(u) :
           OwnsCallback(frames[u][i]) /\ frames[u][i].callback = Top(t).callback =>
             u = t /\ i = n + 1
  BY <1>1, <1>2, <1>4, TopOwns DEF OwnsCallback
<1>6. PICK c \in Callbacks : c = Top(t).callback
  BY <1>5
<1>7. PICK s \in States \cup {NoState} : s = Top(t).state
  BY <1>5
<1>8. life[c] = "destroying" /\ token[c] = s
  BY <1>1, <1>5, <1>6, <1>7 DEF LifeFits
<1>9. /\ s = NoState => callbacks' = callbacks
      /\ s # NoState =>
           /\ mutex[s] = Nobody
           /\ callbacks' = [callbacks EXCEPT ![s] = RemoveFirst(callbacks[s], c)]
      /\ life' = [life EXCEPT ![c] = "destroyed"]
      /\ UNCHANGED <<mutex, stopping, token, calls, wins>>
  BY <1>6, <1>7 DEF RemoveCallback
<1>10. Keeps(t, n, 0)
  BY <1>1, <1>2, <1>3, PopKeeps DEF RemoveCallback
<1>11. \A i \in (n + 1)..(n + 0) : FALSE
  OBVIOUS
<1>12. ASSUME s # NoState
       PROVE  /\ s \in States /\ callbacks'[s] \in Seq(Callbacks)
              /\ ListIsSet(s)
              /\ \A i, j \in DOMAIN callbacks'[s] : callbacks'[s][i] = callbacks'[s][j] => i = j
              /\ Range(callbacks'[s]) = Range(callbacks[s]) \ {c}
  <2>1. s \in States /\ callbacks[s] \in Seq(Callbacks)
    BY <1>2, <1>12 DEF TypeOK
  <2>2. ListIsSet(s)
    BY <1>2, <2>1 DEF StopInv, StatesFit, StateFits
  <2>3. callbacks'[s] = RemoveFirst(callbacks[s], c)
    BY <1>2, <1>9, <1>12, <2>1 DEF TypeOK
  <2>4. \A i, j \in DOMAIN callbacks[s] : callbacks[s][i] = callbacks[s][j] => i = j
    BY <2>2 DEF ListIsSet
  <2>5. /\ RemoveFirst(callbacks[s], c) \in Seq(Callbacks)
        /\ \A i, j \in DOMAIN RemoveFirst(callbacks[s], c) :
             RemoveFirst(callbacks[s], c)[i] = RemoveFirst(callbacks[s], c)[j] => i = j
        /\ Range(RemoveFirst(callbacks[s], c)) = Range(callbacks[s]) \ {c}
    BY <2>1, <2>4, RemoveFirstRemoves
  <2> QED BY <2>1, <2>2, <2>3, <2>5
<1>13. \A r \in States \ {s} : callbacks'[r] = callbacks[r]
  BY <1>2, <1>9 DEF TypeOK
<1>14. TypeOK'
  <2>1. callbacks' \in [States -> Seq(Callbacks)]
    BY <1>2, <1>9, <1>12 DEF TypeOK
  <2>2. life' \in [Callbacks -> {"none", "constructing", "alive", "destroying", "destroyed"}]
    BY <1>2, <1>9 DEF TypeOK
  <2> QED BY <1>2, <1>9, <1>10, <2>1, <2>2, TypesStay DEF TypeOK
<1>15. HandlesFit'
  BY <1>2, <1>10, <1>11, HandlesStay
<1>16. FramesAreFormed'
  BY <1>2, <1>10, <1>11, FormedStay DEF StopInv
\* No list is being called.
<1>17. \A u \in Threads : \A i \in Depth(u) :
         Holds(frames[u][i]) => frames[u][i].state \in States \ {s} /\ mutex[frames[u][i].state] = u
  BY <1>2, <1>9, NamesAssumption DEF StopInv, HoldersOwnMutex
<1>18. HoldersOwnMutex'
  BY <1>2, <1>9, <1>10, <1>11, <1>17, HoldersStay
<1>19. FunctionsAreCalled'
  <2>1. \A u \in Threads : \A i \in Depth(u) : \A b :
          CallsFunction(frames[u][i], b, callbacks) => CallsFunction(frames[u][i], b, callbacks')
    BY <1>13, <1>17 DEF CallsFunction, Holds
  <2> QED BY <1>2, <1>10, <1>11, <2>1, FunctionsStay
<1>20. life'[c] = "destroyed" /\ \A b \in Callbacks \ {c} : life'[b] = life[b]
  BY <1>2, <1>9 DEF TypeOK
<1>21. LivesAreOwned' /\ OneOwner'
  <2>1. \A u \in Threads : \A i \in Depth(u) :
          OwnsCallback(frames[u][i]) /\ (u = t => i <= n) =>
            life'[frames[u][i].callback] = life[frames[u][i].callback]
    BY <1>2, <1>5, <1>6, <1>9 DEF TypeOK
  <2> QED BY <1>2, <1>9, <1>10, <1>11, <2>1, LivesStay
<1>22. Unborn'
  BY <1>2, <1>9, <1>20 DEF StopInv, Unborn
<1>23. \A r \in States : Registered(r)' = IF r = s THEN Registered(r) \ {c} ELSE Registered(r)
  BY <1>8, <1>9, <1>20 DEF Registered
<1>24. ASSUME NEW r \in States \ {s} PROVE StateFits(r)'
  <2>1. \A i \in Depth(t) : i > n => ~Loops(frames[t][i], r)
    BY <1>1, <1>4 DEF Loops
  <2>2. Registered(r)' = Registered(r)
    BY <1>23
  <2> QED BY <1>2, <1>9, <1>10, <1>11, <1>13, <2>1, <2>2, StateStays
<1>25. ASSUME s \in States PROVE StateFits(s)'
  <2>1. \A u \in Threads : \A i \in Depth(u) : ~Loops(frames[u][i], s)
    BY <1>17 DEF Loops, Holds
  <2>2. s # NoState /\ Registered(s)' = Registered(s) \ {c}
    BY <1>23, <1>25, NamesAssumption
  <2>3. \A k \in DOMAIN callbacks'[s] : callbacks'[s][k] \in Registered(s)'
    <3> SUFFICES ASSUME NEW k \in DOMAIN callbacks'[s] PROVE callbacks'[s][k] \in Registered(s)'
      OBVIOUS
    <3>1. callbacks'[s][k] \in Range(callbacks[s]) \ {c}
      BY <1>12, <2>2 DEF Range
    <3>2. callbacks'[s][k] \in Registered(s) \ {c}
      BY <1>12, <2>2, <3>1 DEF ListIsSet, Range
    <3> QED BY <2>2, <3>2
  <2>4. ListIsSet(s)'
    BY <1>12, <2>2, <2>3 DEF ListIsSet
  <2>5. BeforeStop(s)'
    BY <1>2, <1>9, <1>12, <1>25, <2>2 DEF StopInv, StatesFit, StateFits, BeforeStop
  <2>6. DuringStop(s)'
    <3> SUFFICES ASSUME NEW u \in Threads, NEW i \in Depth(u)', Loops(frames'[u][i], s)
                 PROVE  FALSE
      BY DEF DuringStop, Loops
    <3>1. i \in Depth(u) /\ frames'[u][i] = frames[u][i]
      BY <1>2, <1>10, <1>11, KeptFrames
    <3> QED BY <2>1, <3>1
  <2>7. ASSUME stopping'[s] PROVE Cleared(s)'
    <3>1. Cleared(s)
      BY <1>2, <1>9, <1>25, <2>1, <2>7 DEF StopInv, StatesFit, StateFits, AfterStop
    <3>2. callbacks'[s] = <<>>
      <4>1. Range(callbacks'[s]) = {}
        BY <1>12, <2>2, <3>1 DEF Cleared, Range
      <4>2. DOMAIN callbacks'[s] = {}
        BY <4>1 DEF Range
      <4>3. Len(callbacks'[s]) \in Nat /\ 1..Len(callbacks'[s]) = {}
        BY <1>12, <2>2, <4>2, LenProperties
      <4>4. Len(callbacks'[s]) = 0
        BY <4>3
      <4> QED BY <1>12, <2>2, <4>4, EmptySeq
    <3> QED BY <1>9, <2>2, <3>1, <3>2 DEF Cleared
  <2> QED BY <2>4, <2>5, <2>6, <2>7 DEF StateFits, AfterStop
<1>26. StatesFit'
  BY <1>24, <1>25 DEF StatesFit
<1> QED BY <1>14, <1>15, <1>16, <1>18, <1>19, <1>21, <1>22, <1>26 DEF IInv, StopInv

-----------------------------------------------------------------------------
(* The steps that hold nothing and call nothing of a state.                 *)

LEMMA RequestStopFailsKeeps ==
  ASSUME IInv, UNCHANGED handleVars, NEW t \in Threads, RequestStopFails(t)
  PROVE  IInv'
<1>1. frames[t] # <<>> /\ Top(t).op = "request_stop" /\ Top(t).at = "lock"
  BY DEF RequestStopFails, In
<1>2. TypeOK /\ StopInv /\ HandlesFit
  BY DEF IInv
<1>3. PICK n \in Nat : n = Len(frames[t]) - 1
  BY <1>1, <1>2, TopFrame
<1>4. n + 1 = Len(frames[t]) /\ Depth(t) = 1..(n + 1) /\ Top(t) = frames[t][n + 1]
  BY <1>1, <1>2, <1>3, TopFrame
<1>5. Keeps(t, n, 0) /\ UNCHANGED <<mutex, stopping, callbacks, token, life, calls, wins>>
  BY <1>1, <1>2, <1>3, PopKeeps DEF RequestStopFails
<1>6. \A i \in (n + 1)..(n + 0) : FALSE
  OBVIOUS
<1>7. \A i \in Depth(t) : i > n => ~Holds(frames[t][i])
  BY <1>1, <1>4 DEF Holds
<1>8. TypeOK'
  BY <1>2, <1>5, TypesStay DEF TypeOK
<1>9. HandlesFit' /\ StopInv'
  BY <1>2, <1>5, <1>6, <1>7, HandlesStay, Neutral
<1> QED BY <1>8, <1>9 DEF IInv

LEMMA CallbackReturnKeeps ==
  ASSUME IInv, UNCHANGED handleVars, NEW t \in Threads, CallbackReturn(t)
  PROVE  IInv'
<1>1. frames[t] # <<>> /\ Top(t).op = "callback"
  BY DEF CallbackReturn, In
<1>2. TypeOK /\ StopInv /\ HandlesFit
  BY DEF IInv
<1>3. PICK n \in Nat : n = Len(frames[t]) - 1
  BY <1>1, <1>2, TopFrame
<1>4. n + 1 = Len(frames[t]) /\ Depth(t) = 1..(n + 1) /\ Top(t) = frames[t][n + 1]
  BY <1>1, <1>2, <1>3, TopFrame
<1>5. Keeps(t, n, 0) /\ UNCHANGED <<mutex, stopping, callbacks, token, life, calls, wins>>
  BY <1>1, <1>2, <1>3, PopKeeps DEF CallbackReturn
<1>6. \A i \in (n + 1)..(n + 0) : FALSE
  OBVIOUS
<1>7. \A i \in Depth(t) : i > n => ~Holds(frames[t][i])
  BY <1>1, <1>4 DEF Holds
<1>8. TypeOK'
  BY <1>2, <1>5, TypesStay DEF TypeOK
<1>9. HandlesFit' /\ StopInv'
  BY <1>2, <1>5, <1>6, <1>7, HandlesStay, Neutral
<1> QED BY <1>8, <1>9 DEF IInv

\* What a request of a stop puts on a stack.
LEMMA RequestFrame ==
  ASSUME NEW s \in States \cup {NoState}
  PROVE  /\ RequestStopFrame(s) \in Frames /\ Formed(RequestStopFrame(s))
         /\ RequestStopFrame(s).op = "request_stop" /\ RequestStopFrame(s).at = "lock"
<1>1. 1 \in 1..Cardinality(Callbacks) + 1
  BY CallbacksAssumption, FS_CardinalityType
<1> QED BY <1>1 DEF RequestStopFrame, Frame, Frames, StateFrames, Formed

LEMMA CallbackRequestsStopKeeps ==
  ASSUME IInv, UNCHANGED handleVars, NEW t \in Threads, CallbackRequestsStop(t)
  PROVE  IInv'
<1> DEFINE f == [Top(t) EXCEPT !.at = "return", !.n = Top(t).n + 1]
<1>1. frames[t] # <<>> /\ Top(t).op = "callback" /\ Top(t).at = "call"
  BY DEF CallbackRequestsStop, In
<1>2. TypeOK /\ StopInv /\ HandlesFit
  BY DEF IInv
<1>3. PICK n \in Nat : n = Len(frames[t]) - 1
  BY <1>1, <1>2, TopFrame
<1>4. /\ n + 1 = Len(frames[t]) /\ Depth(t) = 1..(n + 1) /\ n + 1 \in Depth(t)
      /\ Top(t) = frames[t][n + 1] /\ Top(t) \in StateFrames /\ Formed(Top(t))
  BY <1>1, <1>2, <1>3, TopFrame
<1>5. PICK c \in Callbacks : c = Top(t).callback
  BY <1>1, <1>4 DEF Formed
<1>6. PICK r \in States \cup {NoState} : r = Target[c]
  BY TargetAssumption
<1> DEFINE g == RequestStopFrame(r)
<1>7. /\ g \in Frames /\ Formed(g) /\ g.op = "request_stop" /\ g.at = "lock"
  BY RequestFrame
<1>8. Cardinality(Callbacks) \in Nat /\ 1 <= Cardinality(Callbacks) /\ Top(t).n = 1
  BY <1>1, <1>4, <1>5, CallbacksAssumption, FS_CardinalityType, FS_EmptySet DEF Formed
<1>9. f \in Frames
  BY <1>4, <1>8, FrameGoesOn DEF Frames
<1>10. f.op = "callback" /\ f.at = "return" /\ f.callback = c
  BY <1>1, <1>4, <1>5 DEF StateFrames
<1>11. /\ GoToAndPush(t, "return", g)
       /\ UNCHANGED <<mutex, stopping, callbacks, token, life, calls, wins>>
  BY <1>5, <1>6 DEF CallbackRequestsStop
<1> HIDE DEF g
<1>12. Keeps(t, n, 2) /\ frames'[t][n + 1] = f /\ frames'[t][n + 2] = g
  <2>1. /\ Keeps(t, Len(frames[t]) - 1, 2)
        /\ frames'[t][Len(frames[t])] = f /\ frames'[t][Len(frames[t]) + 1] = g
    BY <1>1, <1>2, <1>7, <1>9, <1>11, CallKeeps
  <2> QED BY <1>3, <1>4, <2>1
<1> HIDE DEF f
<1>13. \A i \in (n + 1)..(n + 2) : i = n + 1 \/ i = n + 2
  OBVIOUS
<1>14. \A i \in Depth(t) : i > n => ~Holds(frames[t][i])
  BY <1>1, <1>4 DEF Holds
<1>15. TypeOK'
  BY <1>2, <1>11, <1>12, TypesStay DEF TypeOK
<1>16. HandlesFit'
  BY <1>2, <1>7, <1>10, <1>12, <1>13, HandlesStay
<1>17. StopInv'
  <2>1. Formed(f) /\ ~Holds(f) /\ ~OwnsCallback(f) /\ ~Holds(g) /\ ~OwnsCallback(g) /\ g.op # "callback"
    BY <1>7, <1>10 DEF Formed, Holds, OwnsCallback
  <2>2. n + 1 \in Depth(t) /\ frames[t][n + 1].op = "callback" /\ frames[t][n + 1].callback = c
    BY <1>1, <1>4, <1>5
  <2>3. \A i \in (n + 1)..(n + 2) :
          /\ Formed(frames'[t][i]) /\ ~Holds(frames'[t][i]) /\ ~OwnsCallback(frames'[t][i])
          /\ frames'[t][i].op = "callback" =>
               /\ i = n + 1 /\ i \in Depth(t) /\ frames[t][i].op = "callback"
               /\ frames'[t][i].callback = frames[t][i].callback
    BY <1>7, <1>10, <1>12, <1>13, <2>1, <2>2
  <2> QED BY <1>2, <1>11, <1>12, <1>14, <2>3, Neutral
<1> QED BY <1>15, <1>16, <1>17 DEF IInv

-----------------------------------------------------------------------------
(* The handles and the pool.                                                *)

\* A frame of a handle or a pool, or a request that has yet to look.
Plain(f) ==
  /\ Formed(f) /\ ~Holds(f) /\ ~OwnsCallback(f) /\ f.op # "callback"
  /\ f.op = "destroy" /\ f.at = "destroy" => impl[f.handle] = Nobody

LEMMA PlainKeeps ==
  ASSUME IInv, UNCHANGED <<StateUnchangedBut, handleVars>>,
         NEW t \in Threads, NEW k \in Nat, NEW m \in Nat, Keeps(t, k, m),
         \A i \in Depth(t) : i > k => ~Holds(frames[t][i]),
         \A i \in (k + 1)..(k + m) : frames'[t][i] \in {f \in Frames : Plain(f)}
  PROVE  IInv'
<1>1. UNCHANGED <<mutex, stopping, callbacks, token, life, calls, wins>> /\ UNCHANGED handleVars
  BY DEF StateUnchangedBut
<1>2. TypeOK /\ StopInv /\ HandlesFit
  BY DEF IInv
<1>3. \A i \in (k + 1)..(k + m) :
        /\ Formed(frames'[t][i]) /\ ~Holds(frames'[t][i]) /\ ~OwnsCallback(frames'[t][i])
        /\ frames'[t][i].op # "callback"
        /\ frames'[t][i].op = "destroy" /\ frames'[t][i].at = "destroy" =>
             impl[frames'[t][i].handle] = Nobody
  BY DEF Plain
<1>4. TypeOK'
  BY <1>1, <1>2, TypesStay DEF TypeOK
<1>5. HandlesFit'
  BY <1>1, <1>2, <1>3, HandlesStay
<1>6. StopInv'
  BY <1>1, <1>2, <1>3, Neutral
<1> QED BY <1>4, <1>5, <1>6 DEF IInv

\* The frames of handles and pools are plain.
LEMMA PlainFrames ==
  /\ \A s \in States \cup {NoState} : RequestStopFrame(s) \in {f \in Frames : Plain(f)}
  /\ \A h \in Handles, op \in {"join", "destroy"} :
       HandleFrame(op, h, "join") \in {f \in Frames : Plain(f)}
  /\ \A h \in Handles : ~Joinable(h) =>
       HandleFrame("destroy", h, "destroy") \in {f \in Frames : Plain(f)}
  /\ \A op \in PoolOps : PoolFrame(op) \in {f \in Frames : Plain(f)}
<1>1. \A s \in States \cup {NoState} : RequestStopFrame(s) \in {f \in Frames : Plain(f)}
  BY RequestFrame DEF Plain, Holds, OwnsCallback
<1>2. \A h \in Handles, op \in {"join", "destroy"} :
        HandleFrame(op, h, "join") \in {f \in Frames : Plain(f)}
  BY DEF HandleFrame, HandleFrames, Frames, Plain, Formed, Holds, OwnsCallback
<1>3. \A h \in Handles : ~Joinable(h) =>
        HandleFrame("destroy", h, "destroy") \in {f \in Frames : Plain(f)}
  BY DEF HandleFrame, HandleFrames, Frames, Plain, Formed, Holds, OwnsCallback, Joinable
<1>4. \A op \in PoolOps : PoolFrame(op) \in {f \in Frames : Plain(f)}
  <2>1. 1 \in 1..Len(Pool) + 1
    BY PoolAssumption, LenProperties
  <2> QED BY <2>1 DEF PoolFrame, PoolFrames, PoolOps, Frames, Plain, Formed, Holds, OwnsCallback
<1> QED BY <1>1, <1>2, <1>3, <1>4

\* A thread that is idle starts with g.
LEMMA StartPlain ==
  ASSUME IInv, UNCHANGED <<StateUnchangedBut, handleVars>>, NEW t \in Threads, Idle(t),
         NEW g \in Seq({f \in Frames : Plain(f)}), frames' = [frames EXCEPT ![t] = g]
  PROVE  IInv'
<1>1. PICK m \in Nat : m = Len(g)
  BY LenProperties
<1>2. \A i \in 1..m : g[i] \in {f \in Frames : Plain(f)}
  BY <1>1, ElementOfSeq
<1>3. g \in Seq(Frames)
  <2>1. {f \in Frames : Plain(f)} \subseteq Frames
    OBVIOUS
  <2> QED BY <2>1, SeqMonotonic
<1>4. Keeps(t, 0, m) /\ frames'[t] = g
  BY <1>1, <1>3, StartKeeps DEF IInv
<1>5. Depth(t) = {}
  BY DEF Idle, Depth
<1>6. \A i \in (0 + 1)..(0 + m) : i \in 1..m
  OBVIOUS
<1> QED BY <1>2, <1>4, <1>5, <1>6, PlainKeeps

\* The frame on top goes on to f, or goes, and g is put on it.
LEMMA RaisePlain ==
  ASSUME IInv, UNCHANGED <<StateUnchangedBut, handleVars>>,
         NEW t \in Threads, frames[t] # <<>>, ~Holds(Top(t)),
         NEW f \in {x \in Frames : Plain(x)}, NEW g \in Seq({x \in Frames : Plain(x)}),
         frames' = [frames EXCEPT ![t] = Append(Front(@), f) \o g]
  PROVE  IInv'
<1>1. PICK m \in Nat : m = Len(g)
  BY LenProperties
<1>2. \A i \in 1..m : g[i] \in {x \in Frames : Plain(x)}
  BY <1>1, ElementOfSeq
<1>3. g \in Seq(Frames)
  <2>1. {x \in Frames : Plain(x)} \subseteq Frames
    OBVIOUS
  <2> QED BY <2>1, SeqMonotonic
<1>4. TypeOK /\ StopInv
  BY DEF IInv
<1>5. PICK n \in Nat : n = Len(frames[t]) - 1
  BY <1>4, TopFrame
<1>6. n + 1 = Len(frames[t]) /\ Depth(t) = 1..(n + 1) /\ Top(t) = frames[t][n + 1]
  BY <1>4, <1>5, TopFrame
<1>7. /\ Keeps(t, n, 1 + m) /\ frames'[t][n + 1] = f
      /\ \A i \in 1..m : frames'[t][(n + 1) + i] = g[i]
  <2>1. f \in Frames
    OBVIOUS
  <2>2. /\ Keeps(t, Len(frames[t]) - 1, 1 + Len(g))
        /\ frames'[t][Len(frames[t])] = f
        /\ \A i \in 1..Len(g) : frames'[t][Len(frames[t]) + i] = g[i]
    BY <1>3, <1>4, <2>1, RaiseKeeps
  <2> QED BY <1>1, <1>5, <1>6, <2>2
<1>8. \A i \in (n + 1)..(n + (1 + m)) : i = n + 1 \/ (i - (n + 1) \in 1..m /\ (n + 1) + (i - (n + 1)) = i)
  OBVIOUS
<1>9. \A i \in (n + 1)..(n + (1 + m)) : frames'[t][i] \in {x \in Frames : Plain(x)}
  BY <1>2, <1>7, <1>8
<1>10. \A i \in Depth(t) : i > n => ~Holds(frames[t][i])
  BY <1>6
<1>11. 1 + m \in Nat
  OBVIOUS
<1> QED BY <1>7, <1>9, <1>10, <1>11, PlainKeeps

LEMMA PopPlain ==
  ASSUME IInv, UNCHANGED <<StateUnchangedBut, handleVars>>,
         NEW t \in Threads, frames[t] # <<>>, ~Holds(Top(t)), Pop(t)
  PROVE  IInv'
<1>1. TypeOK /\ StopInv
  BY DEF IInv
<1>2. PICK n \in Nat : n = Len(frames[t]) - 1
  BY <1>1, TopFrame
<1>3. n + 1 = Len(frames[t]) /\ Depth(t) = 1..(n + 1) /\ Top(t) = frames[t][n + 1]
  BY <1>1, <1>2, TopFrame
<1>4. Keeps(t, n, 0)
  BY <1>1, <1>2, PopKeeps
<1>5. \A i \in Depth(t) : i > n => ~Holds(frames[t][i])
  BY <1>3
<1>6. \A i \in (n + 1)..(n + 0) : FALSE
  OBVIOUS
<1> QED BY <1>4, <1>5, <1>6, PlainKeeps

\* What ~jthread() and the loops of the pool call.
LEMMA CallsArePlain ==
  ASSUME TypeOK, NEW h \in Handles
  PROVE  /\ DestroyFrames(h) \in Seq({f \in Frames : Plain(f)})
         /\ \A op \in PoolOps : PoolCalls(op, h) \in Seq({f \in Frames : Plain(f)})
<1>1. source[h] \in States \cup {NoState}
  BY DEF TypeOK
<1>2. RequestStopFrame(source[h]) \in {f \in Frames : Plain(f)}
  BY <1>1, PlainFrames
<1>3. \A op \in {"join", "destroy"} : HandleFrame(op, h, "join") \in {f \in Frames : Plain(f)}
  BY PlainFrames
<1>4. DestroyFrames(h) \in Seq({f \in Frames : Plain(f)})
  <2>1. CASE Joinable(h)
    BY <1>2, <1>3, <2>1 DEF DestroyFrames
  <2>2. CASE ~Joinable(h)
    <3>1. HandleFrame("destroy", h, "destroy") \in {f \in Frames : Plain(f)}
      BY <2>2, PlainFrames
    <3> QED BY <2>2, <3>1 DEF DestroyFrames
  <2> QED BY <2>1, <2>2
<1>5. ASSUME NEW op \in PoolOps PROVE PoolCalls(op, h) \in Seq({f \in Frames : Plain(f)})
  <2>1. CASE op = "pool_request_stop"
    BY <1>2, <2>1 DEF PoolCalls
  <2>2. CASE op = "pool_join"
    <3>1. CASE Joinable(h)
      BY <1>3, <2>2, <3>1 DEF PoolCalls
    <3>2. CASE ~Joinable(h)
      BY <2>2, <3>2 DEF PoolCalls
    <3> QED BY <3>1, <3>2
  <2>3. CASE op = "pool_destroy"
    BY <1>4, <2>3 DEF PoolCalls
  <2> QED BY <2>1, <2>2, <2>3 DEF PoolOps
<1> QED BY <1>4, <1>5

\* The calls that put plain frames on the stack of an idle thread.
LEMMA StartsKeep ==
  ASSUME IInv, NEW t \in Threads,
         \/ \E h \in Handles : Join(h) \/ DestroyHandle(h)
         \/ PoolJoin \/ PoolDestroy
         \/ PoolRequestStop(t) \/ RequestStop(t)
  PROVE  IInv'
<1>0. TypeOK
  BY DEF IInv
<1>1. ASSUME NEW h \in Handles, Join(h) PROVE IInv'
  <2>1. <<HandleFrame("join", h, "join")>> \in Seq({f \in Frames : Plain(f)})
    BY PlainFrames
  <2>2. frames' = [frames EXCEPT ![Owner] = <<HandleFrame("join", h, "join")>>]
    <3>1. frames[Owner] = <<>> /\ Append(<<>>, HandleFrame("join", h, "join")) = <<HandleFrame("join", h, "join")>>
      BY <1>1 DEF Join, Idle
    <3> QED BY <1>1, <3>1 DEF Join, Push
  <2> QED BY <1>1, <2>1, <2>2, StartPlain, OwnerAssumption DEF Join
<1>2. ASSUME NEW h \in Handles, DestroyHandle(h) PROVE IInv'
  <2>1. DestroyFrames(h) \in Seq({f \in Frames : Plain(f)})
    BY <1>0, CallsArePlain
  <2> QED BY <1>2, <2>1, StartPlain, OwnerAssumption DEF DestroyHandle
<1>3. ASSUME PoolJoin \/ PoolDestroy PROVE IInv'
  <2>1. PICK op \in PoolOps : frames' = [frames EXCEPT ![Owner] = <<PoolFrame(op)>>]
    BY <1>3 DEF PoolJoin, PoolDestroy, PoolOps
  <2>2. <<PoolFrame(op)>> \in Seq({f \in Frames : Plain(f)})
    BY PlainFrames
  <2> QED BY <1>3, <2>1, <2>2, StartPlain, OwnerAssumption DEF PoolJoin, PoolDestroy
<1>4. ASSUME PoolRequestStop(t) PROVE IInv'
  <2>1. <<PoolFrame("pool_request_stop")>> \in Seq({f \in Frames : Plain(f)})
    BY PlainFrames DEF PoolOps
  <2> QED BY <1>4, <2>1, StartPlain DEF PoolRequestStop
<1>5. ASSUME RequestStop(t) PROVE IInv'
  <2>1. PICK s \in Made \cup {NoState} : Push(t, RequestStopFrame(s))
    BY <1>5 DEF RequestStop
  <2>2. s \in States \cup {NoState}
    BY StateOfAssumption DEF Made
  <2>3. <<RequestStopFrame(s)>> \in Seq({f \in Frames : Plain(f)})
    BY <2>2, PlainFrames
  <2>4. frames' = [frames EXCEPT ![t] = <<RequestStopFrame(s)>>]
    <3>1. frames[t] = <<>> /\ Append(<<>>, RequestStopFrame(s)) = <<RequestStopFrame(s)>>
      BY <1>5 DEF RequestStop, Idle
    <3> QED BY <2>1, <3>1 DEF Push
  <2> QED BY <1>5, <2>3, <2>4, StartPlain DEF RequestStop
<1> QED BY <1>1, <1>2, <1>3, <1>4, <1>5

\* The loops of the pool.
LEMMA PoolStepKeeps ==
  ASSUME IInv, NEW t \in Threads, PoolNext(t) \/ PoolReturn(t)
  PROVE  IInv'
<1>1. TypeOK /\ StopInv
  BY DEF IInv
<1>2. frames[t] # <<>> /\ Top(t).op \in PoolOps
  BY DEF PoolNext, PoolReturn, InPoolLoop
<1>3. Top(t) \in Frames
  BY <1>1, <1>2, TopFrame
<1>4. Top(t) \in PoolFrames
  BY <1>2, <1>3 DEF Frames, StateFrames, HandleFrames, PoolOps
<1>5. ~Holds(Top(t))
  BY <1>2 DEF Holds, PoolOps
<1>6. CASE PoolReturn(t)
  BY <1>2, <1>5, <1>6, PopPlain DEF PoolReturn
<1>7. CASE PoolNext(t)
  <2>1. Len(Pool) \in Nat /\ DOMAIN Pool = 1..Len(Pool)
    BY PoolAssumption, LenProperties
  <2>2. Top(t).n \in 1..Len(Pool) /\ Top(t).n + 1 \in 1..Len(Pool) + 1
    BY <1>4, <1>7, <2>1 DEF PoolNext, PoolLoopOver, PoolFrames
  <2>3. PICK h \in Handles : h = Pool[Top(t).n]
    BY <2>2, PoolAssumption, ElementOfSeq
  <2>4. PICK g \in Seq({f \in Frames : Plain(f)}) : g = PoolCalls(Top(t).op, h)
    BY <1>1, <1>2, CallsArePlain
  <2> DEFINE f == [Top(t) EXCEPT !.n = Top(t).n + 1]
  <2>5. f \in PoolFrames /\ f.op \in PoolOps /\ f.at = "loop"
    BY <1>2, <1>4, <2>2 DEF PoolFrames
  <2>6. f \in Frames /\ Plain(f)
    BY <2>5 DEF Frames, Plain, Formed, Holds, OwnsCallback, PoolOps
  <2>7. frames' = [frames EXCEPT ![t] = Append(Front(@), f) \o g]
    BY <1>7, <2>3, <2>4 DEF PoolNext
  <2> HIDE DEF f
  <2> QED BY <1>2, <1>5, <1>7, <2>6, <2>7, RaisePlain DEF PoolNext
<1> QED BY <1>6, <1>7

-----------------------------------------------------------------------------
(* The handles: what is moved, launched, joined and detached.               *)

LEMMA StopStays ==
  ASSUME IInv, UNCHANGED stateVars
  PROVE  StopInv'
<1>1. TypeOK /\ StopInv
  BY DEF IInv
<1>2. PICK n \in Nat : n = Len(frames[Owner]) /\ DOMAIN frames[Owner] = 1..n
  BY <1>1, OwnerAssumption, LenProperties DEF TypeOK
<1>3. Keeps(Owner, n, 0)
  BY <1>1, <1>2 DEF Keeps, TypeOK, Frames, stateVars
<1>4. \A i \in Depth(Owner) : i > n => ~Holds(frames[Owner][i])
  BY <1>2 DEF Depth
<1>5. \A i \in (n + 1)..(n + 0) : FALSE
  OBVIOUS
<1>6. UNCHANGED <<mutex, stopping, callbacks, token, life, calls, wins>>
  BY DEF stateVars
<1> QED BY <1>1, <1>3, <1>4, <1>5, <1>6, OwnerAssumption, Neutral

\* The owner is idle and no frame of it comes.
LEMMA HandlesFitWhenIdle ==
  ASSUME Idle(Owner), UNCHANGED stateVars,
         \A h \in Handles : impl'[h] # Nobody =>
           /\ object'[h] = "alive" /\ running'[impl'[h]] # "none"
           /\ source'[h] = StateOf[impl'[h]] /\ impl'[h] \notin detached',
         \A g, h \in Handles : impl'[g] = impl'[h] /\ impl'[h] # Nobody => g = h,
         \A w \in Workers : running'[w] = "running" /\ w \notin detached' =>
           \E h \in Handles : impl'[h] = w,
         \A w \in detached' : running'[w] # "none"
  PROVE  HandlesFit'
<1>1. Depth(Owner)' = {}
  BY DEF Idle, Depth, stateVars
<1> QED BY <1>1 DEF HandlesFit, Alive

LEMMA LaunchKeeps ==
  ASSUME IInv, NEW h \in Handles, NEW w \in Workers, Launch(h, w)
  PROVE  IInv'
<1>1. TypeOK /\ HandlesFit
  BY DEF IInv
<1>2. TypeOK'
  BY <1>1, StateOfAssumption DEF TypeOK, Launch, stateVars
<1>3. /\ Idle(Owner) /\ UNCHANGED stateVars /\ detached' = detached
      /\ object[h] = "none" /\ running[w] = "none"
      /\ object'[h] = "alive" /\ source'[h] = StateOf[w] /\ impl'[h] = w /\ running'[w] = "running"
      /\ \A g \in Handles \ {h} : object'[g] = object[g] /\ source'[g] = source[g] /\ impl'[g] = impl[g]
      /\ \A v \in Workers \ {w} : running'[v] = running[v]
  BY <1>1 DEF Launch, StartIn, TypeOK
<1>4. \A g \in Handles : impl[g] # w /\ (impl[g] # Nobody => impl[g] \in Workers)
  BY <1>1, <1>3, OwnerAssumption DEF HandlesFit, TypeOK
<1>5. w # Nobody /\ w \notin detached /\ detached \subseteq Workers
  BY <1>1, <1>3, OwnerAssumption DEF HandlesFit, TypeOK
<1>6. impl[h] = Nobody
  BY <1>1, <1>3 DEF HandlesFit, Alive
<1>7. \A g \in Handles : impl'[g] # Nobody =>
        /\ object'[g] = "alive" /\ running'[impl'[g]] # "none"
        /\ source'[g] = StateOf[impl'[g]] /\ impl'[g] \notin detached'
  BY <1>1, <1>3, <1>4, <1>5 DEF HandlesFit, Alive
<1>8. \A f, g \in Handles : impl'[f] = impl'[g] /\ impl'[g] # Nobody => f = g
  BY <1>1, <1>3, <1>4 DEF HandlesFit
<1>9. \A v \in Workers : running'[v] = "running" /\ v \notin detached' => \E g \in Handles : impl'[g] = v
  BY <1>1, <1>3, <1>5, <1>6, OwnerAssumption DEF HandlesFit
<1>10. \A v \in detached' : running'[v] # "none"
  BY <1>1, <1>3, <1>5 DEF HandlesFit
<1>11. HandlesFit'
  BY <1>3, <1>7, <1>8, <1>9, <1>10, HandlesFitWhenIdle
<1> QED BY <1>2, <1>3, <1>11, StopStays DEF IInv

LEMMA LaunchNothingKeeps ==
  ASSUME IInv, NEW h \in Handles, LaunchNothing(h)
  PROVE  IInv'
<1>1. TypeOK /\ HandlesFit
  BY DEF IInv
<1>2. TypeOK'
  BY <1>1 DEF TypeOK, LaunchNothing, stateVars
<1>3. /\ Idle(Owner) /\ UNCHANGED <<stateVars, source, impl, running, detached>>
      /\ \A g \in Handles : Alive(g) => object'[g] = "alive"
  BY <1>1 DEF LaunchNothing, TypeOK, Alive
<1>4. HandlesFit'
  BY <1>1, <1>3, HandlesFitWhenIdle DEF HandlesFit
<1> QED BY <1>2, <1>3, <1>4, StopStays DEF IInv

LEMMA MoveKeeps ==
  ASSUME IInv, NEW g \in Handles, NEW h \in Handles, Move(g, h)
  PROVE  IInv'
<1>1. TypeOK /\ HandlesFit
  BY DEF IInv
<1>2. TypeOK'
  BY <1>1 DEF TypeOK, Move, stateVars
<1>3. /\ Idle(Owner) /\ UNCHANGED <<stateVars, object, running, detached>>
      /\ g # h /\ object[g] = "alive" /\ impl[g] = Nobody
      /\ source'[g] = source[h] /\ impl'[g] = impl[h] /\ impl'[h] = Nobody
      /\ \A f \in Handles \ {g, h} : source'[f] = source[f] /\ impl'[f] = impl[f]
  BY <1>1 DEF Move, TypeOK, Alive, Joinable
<1>4. \A f \in Handles : impl'[f] # Nobody =>
        /\ object'[f] = "alive" /\ running'[impl'[f]] # "none"
        /\ source'[f] = StateOf[impl'[f]] /\ impl'[f] \notin detached'
  BY <1>1, <1>3 DEF HandlesFit, Alive
<1>5. \A e, f \in Handles : impl'[e] = impl'[f] /\ impl'[f] # Nobody => e = f
  BY <1>1, <1>3 DEF HandlesFit
<1>6. \A v \in Workers : running'[v] = "running" /\ v \notin detached' => \E f \in Handles : impl'[f] = v
  <2> SUFFICES ASSUME NEW v \in Workers, running[v] = "running", v \notin detached
               PROVE  \E f \in Handles : impl'[f] = v
    BY <1>3
  <2>1. PICK f \in Handles : impl[f] = v /\ v # Nobody
    BY <1>1, OwnerAssumption DEF HandlesFit
  <2> QED BY <1>3, <2>1
<1>7. HandlesFit'
  BY <1>1, <1>3, <1>4, <1>5, <1>6, HandlesFitWhenIdle DEF HandlesFit
<1> QED BY <1>2, <1>3, <1>7, StopStays DEF IInv

LEMMA SwapKeeps ==
  ASSUME IInv, NEW g \in Handles, NEW h \in Handles, Swap(g, h)
  PROVE  IInv'
<1>1. TypeOK /\ HandlesFit
  BY DEF IInv
<1>2. TypeOK'
  BY <1>1 DEF TypeOK, Swap, stateVars
<1>3. /\ Idle(Owner) /\ UNCHANGED <<stateVars, object, running, detached>>
      /\ object[g] = "alive" /\ object[h] = "alive"
      /\ source'[g] = source[h] /\ impl'[g] = impl[h]
      /\ source'[h] = source[g] /\ impl'[h] = impl[g]
      /\ \A f \in Handles \ {g, h} : source'[f] = source[f] /\ impl'[f] = impl[f]
  BY <1>1 DEF Swap, TypeOK, Alive
<1>4. \A f \in Handles : impl'[f] # Nobody =>
        /\ object'[f] = "alive" /\ running'[impl'[f]] # "none"
        /\ source'[f] = StateOf[impl'[f]] /\ impl'[f] \notin detached'
  BY <1>1, <1>3 DEF HandlesFit, Alive
<1>5. \A e, f \in Handles : impl'[e] = impl'[f] /\ impl'[f] # Nobody => e = f
  BY <1>1, <1>3 DEF HandlesFit
<1>6. \A v \in Workers : running'[v] = "running" /\ v \notin detached' => \E f \in Handles : impl'[f] = v
  <2> SUFFICES ASSUME NEW v \in Workers, running[v] = "running", v \notin detached
               PROVE  \E f \in Handles : impl'[f] = v
    BY <1>3
  <2>1. PICK f \in Handles : impl[f] = v
    BY <1>1 DEF HandlesFit
  <2> QED BY <1>3, <2>1
<1>7. HandlesFit'
  BY <1>1, <1>3, <1>4, <1>5, <1>6, HandlesFitWhenIdle DEF HandlesFit
<1> QED BY <1>2, <1>3, <1>7, StopStays DEF IInv

LEMMA DetachKeeps ==
  ASSUME IInv, NEW h \in Handles, Detach(h)
  PROVE  IInv'
<1>1. TypeOK /\ HandlesFit
  BY DEF IInv
<1>2. impl[h] # Nobody /\ impl[h] \in Workers
  BY <1>1 DEF Detach, Joinable, TypeOK
<1>3. TypeOK'
  BY <1>1, <1>2 DEF TypeOK, Detach, stateVars
<1>4. /\ Idle(Owner) /\ UNCHANGED <<stateVars, source, object, running>>
      /\ impl'[h] = Nobody /\ detached' = detached \cup {impl[h]}
      /\ \A f \in Handles \ {h} : impl'[f] = impl[f]
  BY <1>1 DEF Detach, TypeOK
<1>5. \A f \in Handles : impl'[f] # Nobody =>
        /\ object'[f] = "alive" /\ running'[impl'[f]] # "none"
        /\ source'[f] = StateOf[impl'[f]] /\ impl'[f] \notin detached'
  BY <1>1, <1>2, <1>4 DEF HandlesFit, Alive
<1>6. \A e, f \in Handles : impl'[e] = impl'[f] /\ impl'[f] # Nobody => e = f
  BY <1>1, <1>4 DEF HandlesFit
<1>7. \A v \in Workers : running'[v] = "running" /\ v \notin detached' => \E f \in Handles : impl'[f] = v
  BY <1>1, <1>4 DEF HandlesFit
<1>8. \A v \in detached' : running'[v] # "none"
  BY <1>1, <1>2, <1>4 DEF HandlesFit
<1>9. HandlesFit'
  BY <1>4, <1>5, <1>6, <1>7, <1>8, HandlesFitWhenIdle
<1> QED BY <1>3, <1>4, <1>9, StopStays DEF IInv

LEMMA WorkerEndsKeeps ==
  ASSUME IInv, NEW w \in Workers, WorkerEnds(w)
  PROVE  IInv'
<1>1. TypeOK /\ HandlesFit
  BY DEF IInv
<1>2. TypeOK'
  BY <1>1 DEF TypeOK, WorkerEnds, stateVars
<1>3. /\ UNCHANGED <<stateVars, source, impl, object, detached>> /\ running'[w] = "ended"
      /\ \A v \in Workers \ {w} : running'[v] = running[v]
  BY <1>1 DEF WorkerEnds, TypeOK
<1>4. \A f \in Handles : impl[f] # Nobody => impl[f] \in Workers
  BY <1>1 DEF TypeOK
<1>5. detached \subseteq Workers
  BY <1>1 DEF TypeOK
<1>6. HandlesFit'
  BY <1>1, <1>3, <1>4, <1>5 DEF HandlesFit, Alive, Depth, stateVars
<1> QED BY <1>2, <1>3, <1>6, StopStays DEF IInv

LEMMA PoolConstructKeeps ==
  ASSUME IInv, PoolConstruct
  PROVE  IInv'
<1>1. TypeOK /\ HandlesFit
  BY DEF IInv
<1> DEFINE P == Range(Pool)
<1>2. PICK start \in [P -> Workers] :
        /\ IsInjective(start)
        /\ \A h \in P : StartIn(h, start[h])
        /\ object' = [h \in Handles |-> IF h \in P THEN "alive" ELSE object[h]]
        /\ source' = [h \in Handles |-> IF h \in P THEN StateOf[start[h]] ELSE source[h]]
        /\ impl' = [h \in Handles |-> IF h \in P THEN start[h] ELSE impl[h]]
        /\ running' = [w \in Workers |-> IF w \in Range(start) THEN "running" ELSE running[w]]
  BY DEF PoolConstruct
<1>3. P \subseteq Handles /\ P # {}
  <2>1. Len(Pool) \in Nat /\ DOMAIN Pool = 1..Len(Pool)
    BY PoolAssumption, LenProperties
  <2>2. \A i \in 1..Len(Pool) : Pool[i] \in Handles
    BY PoolAssumption, ElementOfSeq
  <2>3. Len(Pool) # 0
    BY PoolAssumption, EmptySeq DEF PoolConstruct
  <2>4. 1 \in DOMAIN Pool
    BY <2>1, <2>3
  <2> QED BY <2>1, <2>2, <2>4 DEF Range
<1> HIDE DEF P
<1>4. /\ Idle(Owner) /\ \A h \in P : object[h] = "none" /\ running[start[h]] = "none"
      /\ UNCHANGED <<stateVars, detached>>
  BY <1>2, <1>3 DEF StartIn, PoolConstruct
<1>5. /\ \A h \in P : /\ object'[h] = "alive" /\ source'[h] = StateOf[start[h]]
                      /\ impl'[h] = start[h] /\ start[h] \in Workers
                      /\ running'[start[h]] = "running" /\ impl[h] = Nobody
      /\ \A h \in Handles \ P : object'[h] = object[h] /\ source'[h] = source[h] /\ impl'[h] = impl[h]
  BY <1>1, <1>2, <1>3, <1>4 DEF Range, HandlesFit, Alive
<1>6. \A w \in Workers :
        \/ running'[w] = "running" /\ running[w] = "none" /\ \E h \in P : start[h] = w
        \/ running'[w] = running[w] /\ \A h \in P : start[h] # w
  BY <1>2, <1>4 DEF Range
<1>7. \A h \in Handles : impl[h] # Nobody => impl[h] \in Workers /\ running[impl[h]] # "none"
  BY <1>1 DEF HandlesFit, TypeOK
<1>8. detached \subseteq Workers /\ (\A w \in detached : running[w] # "none") /\ Nobody \notin Workers
  BY <1>1, OwnerAssumption DEF HandlesFit, TypeOK
<1>9. TypeOK'
  <2>1. /\ object' \in [Handles -> {"none", "alive", "destroyed"}]
        /\ source' \in [Handles -> States \cup {NoState}]
        /\ impl' \in [Handles -> Workers \cup {Nobody}]
        /\ running' \in [Workers -> {"none", "running", "ended"}]
    BY <1>1, <1>2, StateOfAssumption DEF TypeOK
  <2> QED BY <1>1, <1>4, <2>1 DEF TypeOK, stateVars
<1>10. \A f \in Handles : impl'[f] # Nobody =>
         /\ object'[f] = "alive" /\ running'[impl'[f]] # "none"
         /\ source'[f] = StateOf[impl'[f]] /\ impl'[f] \notin detached'
  <2> SUFFICES ASSUME NEW f \in Handles, impl'[f] # Nobody
               PROVE  /\ object'[f] = "alive" /\ running'[impl'[f]] # "none"
                      /\ source'[f] = StateOf[impl'[f]] /\ impl'[f] \notin detached'
    OBVIOUS
  <2>1. CASE f \in P
    BY <1>4, <1>5, <1>8, <2>1
  <2>2. CASE f \notin P
    BY <1>1, <1>4, <1>5, <1>6, <1>7, <2>2 DEF HandlesFit, Alive
  <2> QED BY <2>1, <2>2
<1>11. \A e, f \in Handles : impl'[e] = impl'[f] /\ impl'[f] # Nobody => e = f
  <2> SUFFICES ASSUME NEW e \in Handles, NEW f \in Handles, impl'[e] = impl'[f], impl'[f] # Nobody
               PROVE  e = f
    OBVIOUS
  <2>1. CASE e \in P /\ f \in P
    BY <1>2, <1>5, <2>1 DEF IsInjective
  <2>2. CASE e \notin P /\ f \notin P
    BY <1>1, <1>5, <2>2 DEF HandlesFit
  <2>3. CASE e \in P /\ f \notin P
    BY <1>4, <1>5, <1>7, <2>3
  <2>4. CASE e \notin P /\ f \in P
    BY <1>4, <1>5, <1>7, <2>4
  <2> QED BY <2>1, <2>2, <2>3, <2>4
<1>12. \A w \in Workers : running'[w] = "running" /\ w \notin detached' => \E f \in Handles : impl'[f] = w
  <2> SUFFICES ASSUME NEW w \in Workers, running'[w] = "running", w \notin detached
               PROVE  \E f \in Handles : impl'[f] = w
    BY <1>4
  <2>1. CASE \E h \in P : start[h] = w
    BY <1>3, <1>5, <2>1
  <2>2. CASE running'[w] = running[w]
    <3>1. PICK f \in Handles : impl[f] = w
      BY <1>1, <2>2 DEF HandlesFit
    <3>2. f \notin P
      BY <1>5, <1>8, <3>1
    <3> QED BY <1>5, <3>1, <3>2
  <2> QED BY <1>6, <2>1, <2>2
<1>13. \A w \in detached' : running'[w] # "none"
  BY <1>4, <1>6, <1>8
<1>14. HandlesFit'
  BY <1>4, <1>10, <1>11, <1>12, <1>13, HandlesFitWhenIdle
<1> QED BY <1>4, <1>9, <1>14, StopStays DEF IInv

\* join() returns, in a jthread or its destructor.
LEMMA JoinReturnKeeps ==
  ASSUME IInv, JoinReturn
  PROVE  IInv'
<1>1. TypeOK /\ StopInv /\ HandlesFit /\ Owner \in Threads
  BY OwnerAssumption DEF IInv
<1>2. frames[Owner] # <<>> /\ Top(Owner).at = "join"
  BY DEF JoinReturn
<1>3. PICK n \in Nat : n = Len(frames[Owner]) - 1
  BY <1>1, <1>2, TopFrame
<1>4. /\ n + 1 = Len(frames[Owner]) /\ Depth(Owner) = 1..(n + 1)
      /\ Top(Owner) = frames[Owner][n + 1] /\ Top(Owner) \in Frames
  BY <1>1, <1>2, <1>3, TopFrame
<1>5. Top(Owner) \in HandleFrames
  BY <1>2, <1>4 DEF Frames, StateFrames, PoolFrames
<1>6. PICK h \in Handles : h = Top(Owner).handle
  BY <1>5 DEF HandleFrames
<1>7. /\ running[impl[h]] = "ended" /\ impl' = [impl EXCEPT ![h] = Nobody]
      /\ UNCHANGED <<mutex, stopping, callbacks, token, life, calls, wins>>
      /\ UNCHANGED <<source, object, running, detached>>
  BY <1>6 DEF JoinReturn, StateUnchangedBut
<1> DEFINE f == [Top(Owner) EXCEPT !.at = "destroy"]
<1>8. PICK m \in {0, 1} :
        Keeps(Owner, n, m) /\ \A i \in (n + 1)..(n + m) : frames'[Owner][i] = f
  <2>1. CASE Top(Owner).op = "join"
    <3>1. Pop(Owner)
      BY <2>1 DEF JoinReturn
    <3>2. Keeps(Owner, n, 0)
      BY <1>1, <1>2, <1>3, <3>1, PopKeeps
    <3>3. \A i \in (n + 1)..(n + 0) : FALSE
      OBVIOUS
    <3> QED BY <3>2, <3>3
  <2>2. CASE Top(Owner).op # "join"
    <3>1. GoTo(Owner, "destroy")
      BY <2>2 DEF JoinReturn
    <3>2. f \in Frames
      BY <1>5 DEF HandleFrames, Frames
    <3>3. Keeps(Owner, n, 1) /\ frames'[Owner][n + 1] = f
      BY <1>1, <1>2, <1>3, <1>4, <3>1, <3>2, GoToKeeps
    <3>4. \A i \in (n + 1)..(n + 1) : i = n + 1
      OBVIOUS
    <3> QED BY <3>3, <3>4
  <2> QED BY <2>1, <2>2
<1>9. f \in HandleFrames /\ f.at = "destroy" /\ f.handle = h
  BY <1>5, <1>6 DEF HandleFrames
<1> HIDE DEF f
<1>10. m \in Nat
  BY <1>8
<1>11. \A g \in Handles : impl'[g] = IF g = h THEN Nobody ELSE impl[g]
  BY <1>1, <1>7 DEF TypeOK
<1>12. StopInv'
  <2>1. \A i \in Depth(Owner) : i > n => ~Holds(frames[Owner][i])
    BY <1>4, <1>5 DEF Holds, HandleFrames
  <2>2. Formed(f) /\ ~Holds(f) /\ ~OwnsCallback(f) /\ f.op # "callback"
    BY <1>9 DEF HandleFrames, Formed, Holds, OwnsCallback
  <2>3. \A i \in (n + 1)..(n + m) :
          /\ Formed(frames'[Owner][i]) /\ ~Holds(frames'[Owner][i])
          /\ ~OwnsCallback(frames'[Owner][i]) /\ frames'[Owner][i].op # "callback"
    BY <1>8, <2>2
  <2> QED BY <1>1, <1>7, <1>8, <1>10, <2>1, <2>3, Neutral
<1>13. TypeOK'
  <2>1. impl' \in [Handles -> Workers \cup {Nobody}] /\ frames' \in [Threads -> Seq(Frames)]
    BY <1>1, <1>7, <1>8 DEF TypeOK, Keeps
  <2> QED BY <1>1, <1>7, <2>1 DEF TypeOK, Frames
<1>14. HandlesFit'
  <2>1. \A i \in Depth(Owner)' :
          frames'[Owner][i].op = "destroy" /\ frames'[Owner][i].at = "destroy" =>
            impl'[frames'[Owner][i].handle] = Nobody
    <3> SUFFICES ASSUME NEW i \in Depth(Owner)',
                        frames'[Owner][i].op = "destroy", frames'[Owner][i].at = "destroy"
                 PROVE  impl'[frames'[Owner][i].handle] = Nobody
      OBVIOUS
    <3>1. CASE i \in (n + 1)..(n + m)
      BY <1>8, <1>9, <1>11, <3>1
    <3>2. CASE i \in Depth(Owner) /\ frames'[Owner][i] = frames[Owner][i]
      <4>1. impl[frames[Owner][i].handle] = Nobody
        BY <1>1, <3>2 DEF HandlesFit
      <4> QED BY <1>7, <3>2, <4>1
    <3> QED BY <1>1, <1>8, <1>10, <3>1, <3>2, KeptFrames
  <2>2. \A g \in Handles : impl'[g] # Nobody =>
          /\ object'[g] = "alive" /\ running'[impl'[g]] # "none"
          /\ source'[g] = StateOf[impl'[g]] /\ impl'[g] \notin detached'
    BY <1>1, <1>7, <1>11 DEF HandlesFit, Alive
  <2>3. \A e, g \in Handles : impl'[e] = impl'[g] /\ impl'[g] # Nobody => e = g
    BY <1>1, <1>11 DEF HandlesFit
  <2>4. \A w \in Workers : running'[w] = "running" /\ w \notin detached' => \E g \in Handles : impl'[g] = w
    BY <1>1, <1>7, <1>11 DEF HandlesFit
  <2>5. \A w \in detached' : running'[w] # "none"
    BY <1>1, <1>7 DEF HandlesFit
  <2> QED BY <2>1, <2>2, <2>3, <2>4, <2>5 DEF HandlesFit, Alive
<1> QED BY <1>12, <1>13, <1>14 DEF IInv

\* The handle is gone, and it had no thread.
LEMMA DestroyReturnKeeps ==
  ASSUME IInv, DestroyReturn
  PROVE  IInv'
<1>1. TypeOK /\ StopInv /\ HandlesFit /\ Owner \in Threads
  BY OwnerAssumption DEF IInv
<1>2. frames[Owner] # <<>> /\ Top(Owner).op = "destroy" /\ Top(Owner).at = "destroy"
  BY DEF DestroyReturn, In
<1>3. PICK n \in Nat : n = Len(frames[Owner]) - 1
  BY <1>1, <1>2, TopFrame
<1>4. /\ n + 1 = Len(frames[Owner]) /\ Depth(Owner) = 1..(n + 1) /\ n + 1 \in Depth(Owner)
      /\ Top(Owner) = frames[Owner][n + 1] /\ Top(Owner) \in Frames
  BY <1>1, <1>2, <1>3, TopFrame
<1>5. Top(Owner) \in HandleFrames
  BY <1>2, <1>4 DEF Frames, StateFrames, PoolFrames
<1>6. PICK h \in Handles : h = Top(Owner).handle
  BY <1>5 DEF HandleFrames
<1>7. impl[h] = Nobody
  BY <1>1, <1>2, <1>4, <1>6 DEF HandlesFit
<1>8. /\ object' = [object EXCEPT ![h] = "destroyed"] /\ source' = [source EXCEPT ![h] = NoState]
      /\ UNCHANGED <<mutex, stopping, callbacks, token, life, calls, wins>>
      /\ UNCHANGED <<impl, running, detached>>
  BY <1>6 DEF DestroyReturn, StateUnchangedBut
<1>9. Keeps(Owner, n, 0)
  BY <1>1, <1>2, <1>3, PopKeeps DEF DestroyReturn
<1>10. \A i \in (n + 1)..(n + 0) : FALSE
  OBVIOUS
<1>11. StopInv'
  <2>1. \A i \in Depth(Owner) : i > n => ~Holds(frames[Owner][i])
    BY <1>2, <1>4 DEF Holds
  <2> QED BY <1>1, <1>8, <1>9, <1>10, <2>1, Neutral
<1>12. TypeOK'
  <2>1. /\ object' \in [Handles -> {"none", "alive", "destroyed"}]
        /\ source' \in [Handles -> States \cup {NoState}] /\ frames' \in [Threads -> Seq(Frames)]
    BY <1>1, <1>8, <1>9 DEF TypeOK, Keeps
  <2> QED BY <1>1, <1>8, <2>1 DEF TypeOK, Frames
<1>13. HandlesFit'
  <2>1. \A i \in Depth(Owner)' : i \in Depth(Owner) /\ frames'[Owner][i] = frames[Owner][i]
    <3>1. \A u \in Threads : \A i \in Depth(u)' :
            \/ u = Owner /\ i \in (n + 1)..(n + 0)
            \/ i \in Depth(u) /\ frames'[u][i] = frames[u][i]
      BY <1>1, <1>9, KeptFrames
    <3> QED BY <1>1, <1>10, <3>1
  <2>2. \A g \in Handles \ {h} : object'[g] = object[g] /\ source'[g] = source[g]
    BY <1>1, <1>8 DEF TypeOK
  <2> QED BY <1>1, <1>7, <1>8, <2>1, <2>2 DEF HandlesFit, Alive
<1> QED BY <1>11, <1>12, <1>13 DEF IInv

-----------------------------------------------------------------------------
(* The theorems.                                                            *)

LEMMA InitIInv == Init => IInv
<1> SUFFICES ASSUME Init PROVE IInv
  OBVIOUS
<1>1. TypeOK
  BY NamesAssumption DEF Init, StateInit, TypeOK
<1>2. \A t \in Threads : Depth(t) = {}
  BY DEF Init, StateInit, Depth
<1>3. \A s \in States : callbacks[s] = <<>> /\ DOMAIN callbacks[s] = {} /\ Registered(s) = {}
  BY DEF Init, StateInit, Registered
<1>4. StatesFit
  BY <1>2, <1>3 DEF Init, StateInit, StatesFit, StateFits, ListIsSet, BeforeStop, DuringStop, AfterStop
<1>5. StopInv
  BY <1>2, <1>4 DEF Init, StateInit, StopInv, FramesAreFormed, HoldersOwnMutex, FunctionsAreCalled,
                    LivesAreOwned, OneOwner, Unborn
<1>6. HandlesFit
  BY <1>2, OwnerAssumption DEF Init, HandlesFit
<1> QED BY <1>1, <1>5, <1>6 DEF IInv

LEMMA NextIInv == IInv /\ [Next]_vars => IInv'
<1> SUFFICES ASSUME IInv, [Next]_vars PROVE IInv'
  OBVIOUS
<1>1. ASSUME NEW t \in Threads, StateStep(t), UNCHANGED handleVars PROVE IInv'
  BY <1>1, RequestStopFirstKeeps, RequestStopFailsKeeps, RequestStopNextKeeps,
     RequestStopEndKeeps, AddCallbackKeeps, AddCallbackStoppedKeeps, AddCallbackCallKeeps,
     AddCallbackReturnKeeps, RemoveCallbackKeeps, CallbackRequestsStopKeeps,
     CallbackReturnKeeps DEF StateStep
<1>2. ASSUME NEW t \in Threads, Step(t) PROVE IInv'
  BY <1>1, <1>2, PoolStepKeeps DEF Step
<1>3. ASSUME NEW t \in Threads, UseCallback(t) PROVE IInv'
  <2>1. PICK c \in Callbacks :
          \/ \E s \in (Made \cup {NoState}) \cap Tokens[c] : Construct(t, c, s)
          \/ Destroy(t, c)
    BY <1>3 DEF UseCallback
  <2>2. Made \subseteq States
    BY StateOfAssumption DEF Made
  <2> QED BY <1>3, <2>1, <2>2, ConstructKeeps, DestroyKeeps DEF UseCallback
<1>4. ASSUME NEW t \in Threads, Call(t) PROVE IInv'
  BY <1>3, <1>4, StartsKeep DEF Call
<1>5. ASSUME OwnerCall PROVE IInv'
  <2>1. ASSUME NEW h \in Handles, NEW w \in LooseWorkers, Launch(h, w) PROVE IInv'
    <3>1. w \in Workers
      BY LooseAssumption
    <3> QED BY <2>1, <3>1, LaunchKeeps
  <2>2. ASSUME NEW h \in Handles, LaunchNothing(h) \/ Detach(h) \/ Join(h) \/ DestroyHandle(h)
        PROVE  IInv'
    BY <2>2, LaunchNothingKeeps, DetachKeeps, StartsKeep, OwnerAssumption
  <2>3. ASSUME NEW g \in Handles, NEW h \in Handles, Move(g, h) \/ Swap(g, h) PROVE IInv'
    BY <2>3, MoveKeeps, SwapKeeps
  <2>4. ASSUME PoolConstruct \/ PoolJoin \/ PoolDestroy PROVE IInv'
    BY <2>4, PoolConstructKeeps, StartsKeep, OwnerAssumption
  <2> QED BY <1>5, <2>1, <2>2, <2>3, <2>4 DEF OwnerCall
<1>6. ASSUME HandleStep PROVE IInv'
  BY <1>6, JoinReturnKeeps, DestroyReturnKeeps DEF HandleStep
<1>7. ASSUME NEW w \in Workers, WorkerEnds(w) PROVE IInv'
  BY <1>7, WorkerEndsKeeps
<1>8. ASSUME UNCHANGED vars PROVE IInv'
  <2>1. UNCHANGED stateVars /\ UNCHANGED handleVars
    BY <1>8 DEF vars
  <2>2. TypeOK /\ HandlesFit
    BY DEF IInv
  <2>3. TypeOK'
    BY <2>1, <2>2 DEF TypeOK, stateVars, handleVars
  <2>4. HandlesFit'
    BY <2>1, <2>2 DEF HandlesFit, Alive, Depth, stateVars, handleVars
  <2> QED BY <2>1, <2>3, <2>4, StopStays DEF IInv
<1> QED BY <1>2, <1>4, <1>5, <1>6, <1>7, <1>8 DEF Next

LEMMA InvariantHolds == Safety => []IInv
<1>1. Init => IInv
  BY InitIInv
<1>2. IInv /\ [Next]_vars => IInv'
  BY NextIInv
<1> QED BY <1>1, <1>2, PTL DEF Safety

\* Every variable keeps its type: no loop runs past the callbacks there are,
\* each callback is called at most once, and each stop is won at most once,
\* whatever registrations, removals and requests race.
THEOREM TypeCorrect == Safety => []TypeOK
<1>1. IInv => TypeOK
  BY DEF IInv
<1> QED BY <1>1, InvariantHolds, PTL

\* stop_state::request_stop and add_callback: while the mutex of a state is
\* free, each callback that is alive there was called exactly once if the
\* state is stopped and not at all if it is not, and exactly one request won.
THEOREM StopReachesEach == Safety => []StopReachesCallbacks
<1>1. IInv => StopReachesCallbacks
  <2> SUFFICES ASSUME IInv, NEW s \in States, mutex[s] = Nobody
               PROVE  /\ wins[s] = (IF stopping[s] THEN 1 ELSE 0)
                      /\ \A c \in Callbacks : life[c] = "alive" /\ token[c] = s =>
                           calls[c] = (IF stopping[s] THEN 1 ELSE 0)
    BY DEF StopReachesCallbacks
  <2>1. \A t \in Threads : \A i \in Depth(t) : ~Loops(frames[t][i], s)
    BY NamesAssumption DEF IInv, StopInv, HoldersOwnMutex, Holds, Loops
  <2>2. StateFits(s)
    BY DEF IInv, StopInv, StatesFit
  <2>3. \A c \in Callbacks : life[c] = "alive" /\ token[c] = s => c \in Registered(s)
    BY DEF Registered
  <2>4. CASE stopping[s]
    BY <2>1, <2>2, <2>3, <2>4 DEF StateFits, AfterStop, Cleared
  <2>5. CASE ~stopping[s]
    BY <2>2, <2>3, <2>5 DEF StateFits, BeforeStop
  <2> QED BY <2>4, <2>5
<1> QED BY <1>1, InvariantHolds, PTL

\* stop_callback::~stop_callback: when it has returned, no state points to the
\* callback and no thread is in its function or about to call it.
THEOREM DestroyedIsGone == Safety => []NoCallbackAfterDestructor
<1>1. IInv => NoCallbackAfterDestructor
  <2> SUFFICES ASSUME IInv, NEW c \in Callbacks, life[c] = "destroyed"
               PROVE  /\ \A s \in States : c \notin Range(callbacks[s])
                      /\ \A t \in Threads : \A f \in Range(frames[t]) : f.callback # c
    BY DEF NoCallbackAfterDestructor
  <2>1. TypeOK /\ StopInv
    BY DEF IInv
  <2>2. \A s \in States : c \notin Range(callbacks[s])
    BY <2>1 DEF StopInv, StatesFit, StateFits, ListIsSet, Registered, Range
  <2>3. ASSUME NEW t \in Threads, NEW i \in Depth(t) PROVE frames[t][i].callback # c
    <3>1. frames[t][i] \in Frames
      <4>1. frames[t] \in Seq(Frames) /\ i \in 1..Len(frames[t])
        BY <2>1, <2>3, LenProperties DEF TypeOK, Frames, Depth
      <4> QED BY <4>1, ElementOfSeq
    <3>2. Formed(frames[t][i]) /\ LifeFits(frames[t][i])
      BY <2>1, <2>3 DEF StopInv, FramesAreFormed, LivesAreOwned
    <3>3. CASE OwnsCallback(frames[t][i])
      BY <3>2, <3>3 DEF LifeFits, OwnsCallback
    <3>4. CASE frames[t][i].op = "callback"
      <4>1. i > 1 /\ CallsFunction(frames[t][i - 1], frames[t][i].callback, callbacks)
        BY <2>1, <2>3, <3>4 DEF StopInv, FunctionsAreCalled
      <4>2. i - 1 \in Depth(t)
        <5>1. Depth(t) = 1..Len(frames[t]) /\ Len(frames[t]) \in Nat
          BY <2>1, LenProperties DEF TypeOK, Depth
        <5> QED BY <2>3, <4>1, <5>1
      <4>3. CASE frames[t][i - 1].op = "request_stop"
        <5>1. frames[t][i - 1].state \in States
          BY <2>1, <4>1, <4>2, <4>3 DEF StopInv, HoldersOwnMutex, CallsFunction, Holds
        <5> QED BY <2>2, <4>1, <4>3, <5>1 DEF CallsFunction
      <4>4. CASE frames[t][i - 1].op = "add_callback"
        <5>1. LifeFits(frames[t][i - 1])
          BY <2>1, <4>2 DEF StopInv, LivesAreOwned
        <5> QED BY <4>1, <4>4, <5>1 DEF CallsFunction, LifeFits
      <4> QED BY <4>1, <4>3, <4>4 DEF CallsFunction
    <3>5. CASE frames[t][i].op = "request_stop"
      BY <3>2, <3>5, NamesAssumption DEF Formed
    <3>6. CASE frames[t][i] \in HandleFrames \cup PoolFrames
      BY <3>6, NamesAssumption DEF HandleFrames, PoolFrames
    <3> QED BY <3>1, <3>3, <3>4, <3>5, <3>6 DEF Frames, StateFrames, OwnsCallback
  <2> QED BY <2>2, <2>3 DEF Range, Depth
<1> QED BY <1>1, InvariantHolds, PTL

\* jthread: a thread that runs and was not detached is in exactly one handle,
\* and the source there stops it, whatever was moved, swapped and joined, and
\* for the threads of a pool as well.
THEOREM HandleStops == Safety => []HandleStopsItsThread
<1>1. IInv => HandleStopsItsThread
  BY OwnerAssumption DEF IInv, HandlesFit, HandleStopsItsThread
<1> QED BY <1>1, InvariantHolds, PTL

-----------------------------------------------------------------------------
(* The pool's request_stop().  A loop of the pool is the lowest frame of its*)
(* stack; what it calls is the second.                                      *)

Stops(t) == frames[t] # <<>> /\ frames[t][1].op = "pool_request_stop"

PoolOpsAreFirst ==
  \A t \in Threads : \A i \in Depth(t) : frames[t][i].op \in PoolOps => i = 1

\* A handle of the pool is destroyed by the pool's destructor.
PoolDestroys ==
  \A i \in Depth(Owner) :
    frames[Owner][i].op = "destroy" /\ frames[Owner][i].handle \in Range(Pool) =>
      frames[Owner][1].op = "pool_destroy"

\* The destructor of the pool runs when nobody stops it.
PoolIsInUse ==
  \A t \in Threads : Stops(t) =>
    /\ \A h \in Range(Pool) : Alive(h)
    /\ \A i \in Depth(Owner) : frames[Owner][i].op # "pool_destroy"

SourcesAreMade == \A h \in Range(Pool) : Alive(h) => source[h] \in States

\* f is about to request a stop of s.
Asks(f, s) == f.op = "request_stop" /\ f.at = "lock" /\ f.state = s

\* The handles before the loop's place are stopped, but for the last one if the
\* call made for it has yet to look.
Told(t) ==
  \A k \in 1..(frames[t][1].n - 1) :
    \/ stopping[source[Pool[k]]]
    \/ k = frames[t][1].n - 1 /\ 2 \in Depth(t) /\ Asks(frames[t][2], source[Pool[k]])

PoolInv ==
  /\ PoolOpsAreFirst /\ PoolDestroys /\ PoolIsInUse /\ SourcesAreMade
  /\ \A t \in Threads : Stops(t) => Told(t)

LEMMA PoolIsHandles ==
  /\ Len(Pool) \in Nat /\ DOMAIN Pool = 1..Len(Pool)
  /\ \A k \in 1..Len(Pool) : Pool[k] \in Range(Pool) /\ Pool[k] \in Handles
  /\ Range(Pool) \subseteq Handles
<1>1. Len(Pool) \in Nat /\ DOMAIN Pool = 1..Len(Pool)
  BY PoolAssumption, LenProperties
<1>2. \A k \in 1..Len(Pool) : Pool[k] \in Handles
  BY PoolAssumption, ElementOfSeq
<1> QED BY <1>1, <1>2 DEF Range

\* A thread in the loop, and what it has come to.
LEMMA InLoop ==
  ASSUME TypeOK, NEW t \in Threads, Stops(t)
  PROVE  /\ 1 \in Depth(t) /\ frames[t][1] \in PoolFrames
         /\ frames[t][1].n \in 1..Len(Pool) + 1
<1>1. frames[t] \in Seq(Frames) /\ frames[t] # <<>>
  BY DEF TypeOK, Frames, Stops
<1>2. Len(frames[t]) \in Nat \ {0} /\ DOMAIN frames[t] = 1..Len(frames[t])
  BY <1>1, FrontAndLast
<1>3. 1 \in Depth(t)
  BY <1>2 DEF Depth
<1>4. frames[t][1] \in Frames
  BY <1>1, <1>2, <1>3, ElementOfSeq DEF Depth
<1>5. frames[t][1] \in PoolFrames
  BY <1>4 DEF Stops, Frames, StateFrames, HandleFrames
<1> QED BY <1>3, <1>5 DEF PoolFrames

\* A step that leaves the pool's loops and handles alone: what it puts on the
\* stack is no loop of the pool and, if it destroys a handle of the pool, it
\* has done so before; a request that it takes away has been made.
LEMMA PoolStays ==
  ASSUME TypeOK, PoolInv,
         NEW t \in Threads, NEW k \in Nat, NEW m \in Nat, Keeps(t, k, m),
         \A i \in (k + 1)..(k + m) :
           /\ frames'[t][i].op \notin PoolOps
           /\ frames'[t][i].op = "destroy" =>
                \/ frames'[t][i].handle \notin Range(Pool)
                \/ /\ i \in Depth(t) /\ i = k + 1 /\ frames[t][i].op = "destroy"
                   /\ frames[t][i].handle = frames'[t][i].handle,
         \A i \in Depth(t) : \A s \in States :
           i > k /\ Asks(frames[t][i], s) => stopping'[s],
         \A s \in States : stopping[s] => stopping'[s],
         \A h \in Range(Pool) : source'[h] = source[h] /\ object'[h] = object[h]
  PROVE  PoolInv'
<1>1. \A u \in Threads : \A i \in Depth(u)' :
        \/ u = t /\ i \in (k + 1)..(k + m)
        \/ i \in Depth(u) /\ frames'[u][i] = frames[u][i]
  BY KeptFrames
<1>2. \A u \in Threads : Len(frames[u]) \in Nat /\ Depth(u) = 1..Len(frames[u])
  BY LenProperties DEF TypeOK, Depth
<1>3. \A u \in Threads : Len(frames'[u]) \in Nat /\ Depth(u)' = 1..Len(frames'[u])
  <2>1. \A u \in Threads : frames'[u] \in Seq(Frames)
    BY DEF Keeps
  <2> QED BY <2>1, LenProperties DEF Depth
<1>4. PoolOpsAreFirst'
  BY <1>1 DEF PoolInv, PoolOpsAreFirst
\* The lowest frame is one of a loop only if it was.
<1>5. ASSUME NEW u \in Threads, 1 \in Depth(u)', frames'[u][1].op \in PoolOps
      PROVE  1 \in Depth(u) /\ frames'[u][1] = frames[u][1] /\ (u = t => k >= 1)
  <2>1. CASE u # t
    BY <1>1, <1>5, <2>1
  <2>2. CASE u = t /\ k = 0
    BY <1>1, <1>5, <2>2 DEF Keeps, Depth
  <2>3. CASE u = t /\ k >= 1
    BY <1>2, <2>3 DEF Keeps, Depth
  <2> QED BY <2>1, <2>2, <2>3
<1>6. \A u \in Threads : Stops(u)' =>
        /\ Stops(u) /\ 1 \in Depth(u)' /\ frames'[u][1] = frames[u][1] /\ (u = t => k >= 1)
  <2> SUFFICES ASSUME NEW u \in Threads, Stops(u)'
               PROVE  Stops(u) /\ 1 \in Depth(u)' /\ frames'[u][1] = frames[u][1] /\ (u = t => k >= 1)
    OBVIOUS
  <2>1. frames'[u] # <<>> /\ frames'[u][1].op = "pool_request_stop"
    BY DEF Stops
  <2>2. 1 \in Depth(u)'
    <3>1. frames'[u] \in Seq(Frames)
      BY DEF Keeps
    <3>2. Len(frames'[u]) # 0
      BY <2>1, <3>1, EmptySeq
    <3> QED BY <1>3, <3>2
  <2>3. 1 \in Depth(u) /\ frames'[u][1] = frames[u][1] /\ (u = t => k >= 1)
    BY <1>5, <2>1, <2>2 DEF PoolOps
  <2>4. frames[u] # <<>>
    BY <2>3 DEF Depth
  <2> QED BY <2>1, <2>2, <2>3, <2>4 DEF Stops
<1>7. PoolDestroys'
  <2> SUFFICES ASSUME NEW i \in Depth(Owner)', frames'[Owner][i].op = "destroy",
                      frames'[Owner][i].handle \in Range(Pool)
               PROVE  frames'[Owner][1].op = "pool_destroy"
    BY DEF PoolDestroys
  <2>1. /\ i \in Depth(Owner) /\ frames[Owner][i].op = "destroy"
        /\ frames[Owner][i].handle \in Range(Pool) /\ (Owner = t => i <= k + 1)
    <3>1. CASE Owner = t /\ i \in (k + 1)..(k + m)
      BY <3>1
    <3>2. CASE i \in Depth(Owner) /\ frames'[Owner][i] = frames[Owner][i] /\ (Owner = t => i \notin (k + 1)..(k + m))
      BY <3>2 DEF Keeps, Depth
    <3> QED BY <1>1, <3>1, <3>2, OwnerAssumption
  <2>2. frames[Owner][1].op = "pool_destroy"
    BY <2>1 DEF PoolInv, PoolDestroys
  <2>3. i # 1 /\ i > 1 /\ 1 \in Depth(Owner)
    BY <1>2, <2>1, <2>2, OwnerAssumption
  <2>4. frames'[Owner][1] = frames[Owner][1]
    <3>1. CASE Owner = t
      <4>1. 1 \in 1..k
        BY <1>2, <2>1, <2>3, <3>1
      <4> QED BY <3>1, <4>1 DEF Keeps
    <3>2. CASE Owner # t
      BY <3>2, OwnerAssumption DEF Keeps
    <3> QED BY <3>1, <3>2
  <2> QED BY <2>2, <2>4
<1>8. PoolIsInUse'
  <2> SUFFICES ASSUME NEW u \in Threads, Stops(u)'
               PROVE  /\ \A h \in Range(Pool) : Alive(h)'
                      /\ \A i \in Depth(Owner)' : frames'[Owner][i].op # "pool_destroy"
    BY DEF PoolIsInUse, Alive
  <2>1. /\ \A h \in Range(Pool) : Alive(h)
        /\ \A i \in Depth(Owner) : frames[Owner][i].op # "pool_destroy"
    BY <1>6 DEF PoolInv, PoolIsInUse
  <2>2. \A i \in Depth(Owner)' : frames'[Owner][i].op # "pool_destroy"
    BY <1>1, <2>1, OwnerAssumption DEF PoolOps
  <2> QED BY <2>1, <2>2 DEF Alive
<1>9. SourcesAreMade'
  BY DEF PoolInv, SourcesAreMade, Alive
<1>10. ASSUME NEW u \in Threads, Stops(u)' PROVE Told(u)'
  <2>1. /\ Stops(u) /\ frames'[u][1] = frames[u][1] /\ (u = t => k >= 1) /\ Told(u)
        /\ \A h \in Range(Pool) : Alive(h) /\ source[h] \in States
    BY <1>6, <1>10 DEF PoolInv, PoolIsInUse, SourcesAreMade
  <2>2. frames[u][1].n \in 1..Len(Pool) + 1
    BY <2>1, InLoop
  <2> SUFFICES ASSUME NEW j \in 1..(frames[u][1].n - 1)
               PROVE  \/ stopping'[source'[Pool[j]]]
                      \/ /\ j = frames[u][1].n - 1 /\ 2 \in Depth(u)'
                         /\ Asks(frames'[u][2], source'[Pool[j]])
    BY <2>1 DEF Told, Asks
  <2>3. Pool[j] \in Range(Pool)
    BY <2>2, PoolIsHandles
  <2>4. source'[Pool[j]] = source[Pool[j]] /\ source[Pool[j]] \in States
    BY <2>1, <2>3
  <2>5. CASE stopping[source[Pool[j]]]
    BY <2>4, <2>5
  <2>6. CASE j = frames[u][1].n - 1 /\ 2 \in Depth(u) /\ Asks(frames[u][2], source[Pool[j]])
    <3>1. CASE u = t /\ k < 2
      BY <2>4, <2>6, <3>1
    <3>2. CASE u # t \/ k >= 2
      <4>1. 2 \in Depth(u)' /\ frames'[u][2] = frames[u][2]
        BY <1>2, <2>6, <3>2 DEF Keeps, Depth
      <4> QED BY <2>4, <2>6, <4>1
    <3> QED BY <3>1, <3>2
  <2> QED BY <2>1, <2>5, <2>6 DEF Told
<1> QED BY <1>4, <1>7, <1>8, <1>9, <1>10 DEF PoolInv

\* What a step of StopState does to the stack, whatever the frames are.
LEMMA StackMoves ==
  ASSUME TypeOK, TypeOK', NEW t \in Threads, frames[t] # <<>>, NEW n \in Nat,
         n + 1 = Len(frames[t])
  PROVE  /\ Pop(t) => Keeps(t, n, 0)
         /\ \A at : GoTo(t, at) => Keeps(t, n, 1) /\ frames'[t][n + 1].op = Top(t).op
         /\ \A at, g : GoToAndPush(t, at, g) =>
              Keeps(t, n, 2) /\ frames'[t][n + 1].op = Top(t).op /\ frames'[t][n + 2] = g
<1>1. /\ frames[t] \in Seq(Frames) /\ frames'[t] \in Seq(Frames)
      /\ frames' \in [Threads -> Seq(Frames)] /\ n = Len(frames[t]) - 1
  BY DEF TypeOK, Frames
<1>2. DOMAIN frames[t] = 1..(n + 1) /\ Top(t) = frames[t][n + 1] /\ Top(t) \in Frames
  BY <1>1, FrontAndLast DEF Top
<1>3. Pop(t) => Keeps(t, n, 0)
  BY <1>1, PopKeeps
<1>4. ASSUME NEW at, GoTo(t, at)
      PROVE  Keeps(t, n, 1) /\ frames'[t][n + 1].op = Top(t).op
  <2> DEFINE f == [Top(t) EXCEPT !.at = at]
  <2>1. frames'[t] = [frames[t] EXCEPT ![n + 1] = f] /\ \A u \in Threads \ {t} : frames'[u] = frames[u]
    BY <1>2, <1>4 DEF GoTo, TypeOK
  <2>2. f.op = Top(t).op
    BY <1>2 DEF Frames, StateFrames, HandleFrames, PoolFrames
  <2> HIDE DEF f
  <2>3. /\ DOMAIN frames'[t] = 1..(n + 1) /\ frames'[t][n + 1] = f
        /\ \A i \in 1..n : frames'[t][i] = frames[t][i]
    BY <1>2, <2>1
  <2>4. n \in 0..Len(frames[t]) /\ DOMAIN frames[t] = 1..Len(frames[t])
    BY <1>2
  <2> QED BY <1>1, <2>1, <2>2, <2>3, <2>4 DEF Keeps
<1>5. ASSUME NEW at, NEW g, GoToAndPush(t, at, g)
      PROVE  Keeps(t, n, 2) /\ frames'[t][n + 1].op = Top(t).op /\ frames'[t][n + 2] = g
  <2> DEFINE f == [Top(t) EXCEPT !.at = at, !.n = Top(t).n + 1]
             S == Frames \cup {f, g}
             p == Front(frames[t])
             q == Append(p, f)
  <2>1. frames'[t] = q \o <<g>> /\ \A u \in Threads \ {t} : frames'[u] = frames[u]
    BY <1>5 DEF GoToAndPush, TypeOK
  <2>2. f.op = Top(t).op
    BY <1>2 DEF Frames, StateFrames, HandleFrames, PoolFrames
  <2>3. p \in Seq(Frames) /\ Len(p) = n /\ \A i \in 1..n : p[i] = frames[t][i]
    BY <1>1, FrontAndLast
  <2> HIDE DEF f, p
  <2>4. p \in Seq(S) /\ f \in S /\ <<g>> \in Seq(S)
    <3>1. p \in Seq(S)
      BY <2>3, SeqMonotonic
    <3> QED BY <3>1
  <2> HIDE DEF S
  <2>5. /\ q \in Seq(S) /\ Len(q) = n + 1 /\ q[n + 1] = f
        /\ \A i \in 1..n : q[i] = p[i]
    BY <2>3, <2>4, AppendProperties
  <2> HIDE DEF q
  <2>6. Len(<<g>>) = 1 /\ <<g>>[1] = g
    OBVIOUS
  <2>7. /\ q \o <<g>> \in Seq(S) /\ Len(q \o <<g>>) = Len(q) + Len(<<g>>)
        /\ \A i \in 1..(Len(q) + Len(<<g>>)) :
             (q \o <<g>>)[i] = IF i <= Len(q) THEN q[i] ELSE <<g>>[i - Len(q)]
    BY ONLY <2>4, <2>5, ConcatProperties
  <2>8. DOMAIN (q \o <<g>>) = 1..(n + 2)
    BY <2>5, <2>6, <2>7, LenProperties
  <2>9. \A i \in 1..n : frames'[t][i] = frames[t][i]
    BY <2>1, <2>3, <2>5, <2>6, <2>7
  <2>10. frames'[t][n + 1] = f
    BY <2>1, <2>5, <2>6, <2>7
  <2>11. frames'[t][n + 2] = g
    <3>1. n + 2 \in 1..(Len(q) + Len(<<g>>)) /\ ~(n + 2 <= Len(q)) /\ (n + 2) - Len(q) = 1
      BY <2>5, <2>6
    <3> QED BY <2>1, <2>6, <2>7, <3>1
  <2>12. n \in 0..Len(frames[t]) /\ DOMAIN frames[t] = 1..Len(frames[t])
    BY <1>2
  <2> QED BY <1>1, <2>1, <2>2, <2>8, <2>9, <2>10, <2>11, <2>12 DEF Keeps
<1> QED BY <1>3, <1>4, <1>5

\* The operations of StopState.
StateOps == {"request_stop", "add_callback", "remove_callback", "callback"}

LEMMA StateStepMoves ==
  ASSUME IInv, IInv', NEW t \in Threads, StateStep(t), NEW n \in Nat,
         n = Len(frames[t]) - 1
  PROVE  /\ frames[t] # <<>> /\ Top(t).op \in StateOps
         /\ \E m \in 0..2 : /\ Keeps(t, n, m)
                            /\ \A i \in (n + 1)..(n + m) : frames'[t][i].op \in StateOps
<1>1. frames[t] # <<>> /\ Top(t).op \in StateOps
  BY DEF StateStep, RequestStopFirst, RequestStopFails, RequestStopNext, RequestStopEnd,
         AddCallback, AddCallbackStopped, AddCallbackCall, AddCallbackReturn,
         RemoveCallback, CallbackRequestsStop, CallbackReturn, In, StateOps
<1>2. TypeOK /\ TypeOK' /\ StopInv
  BY DEF IInv
<1>3. n + 1 = Len(frames[t])
  BY <1>1, <1>2, TopFrame
<1>4. CASE Pop(t)
  <2>1. \A i \in (n + 1)..(n + 0) : FALSE
    OBVIOUS
  <2> QED BY <1>1, <1>2, <1>3, <1>4, <2>1, StackMoves
<1>5. CASE \E at : GoTo(t, at)
  <2>1. \A i \in (n + 1)..(n + 1) : i = n + 1
    OBVIOUS
  <2>2. Keeps(t, n, 1) /\ frames'[t][n + 1].op = Top(t).op
    BY <1>1, <1>2, <1>3, <1>5, StackMoves
  <2>3. \A i \in (n + 1)..(n + 1) : frames'[t][i].op \in StateOps
    BY <1>1, <2>1, <2>2
  <2> QED BY <1>1, <2>2, <2>3
<1>6. CASE \E at, g : GoToAndPush(t, at, g) /\ g.op \in StateOps
  <2>1. \A i \in (n + 1)..(n + 2) : i = n + 1 \/ i = n + 2
    OBVIOUS
  <2>2. PICK at, g : GoToAndPush(t, at, g) /\ g.op \in StateOps
    BY <1>6
  <2>3. Keeps(t, n, 2) /\ frames'[t][n + 1].op = Top(t).op /\ frames'[t][n + 2] = g
    BY <1>1, <1>2, <1>3, <2>2, StackMoves
  <2>4. \A i \in (n + 1)..(n + 2) : frames'[t][i].op \in StateOps
    BY <1>1, <2>1, <2>2, <2>3
  <2> QED BY <1>1, <2>3, <2>4
<1>7. \A c : Frame("callback", NoState, c, "call").op \in StateOps
  BY DEF Frame, StateOps
<1>8. \A s : RequestStopFrame(s).op \in StateOps
  BY DEF RequestStopFrame, Frame, StateOps
<1>9. \A c, at : CallFunction(t, c, at) => \E g : GoToAndPush(t, at, g) /\ g.op \in StateOps
  BY <1>7 DEF CallFunction
<1>10. \/ Pop(t) \/ \E at : GoTo(t, at)
       \/ \E at, g : GoToAndPush(t, at, g) /\ g.op \in StateOps
  <2>1. CASE \/ RequestStopFails(t) \/ RequestStopEnd(t) \/ AddCallback(t)
             \/ AddCallbackReturn(t) \/ RemoveCallback(t) \/ CallbackReturn(t)
    BY <2>1 DEF RequestStopFails, RequestStopEnd, AddCallback, AddCallbackReturn,
                RemoveCallback, CallbackReturn
  <2>2. CASE RequestStopFirst(t) \/ AddCallbackStopped(t)
    BY <2>2 DEF RequestStopFirst, AddCallbackStopped
  <2>3. CASE RequestStopNext(t) \/ AddCallbackCall(t)
    BY <1>9, <2>3 DEF RequestStopNext, AddCallbackCall
  <2>4. CASE CallbackRequestsStop(t)
    BY <1>8, <2>4 DEF CallbackRequestsStop
  <2> QED BY <2>1, <2>2, <2>3, <2>4 DEF StateStep
<1> QED BY <1>4, <1>5, <1>6, <1>10

LEMMA StateStepKeepsPool ==
  ASSUME IInv, IInv', PoolInv, UNCHANGED handleVars, NEW t \in Threads, StateStep(t)
  PROVE  PoolInv'
<1>1. TypeOK /\ TypeOK' /\ StopInv
  BY DEF IInv
<1>2. frames[t] # <<>>
  BY DEF StateStep, RequestStopFirst, RequestStopFails, RequestStopNext, RequestStopEnd,
         AddCallback, AddCallbackStopped, AddCallbackCall, AddCallbackReturn,
         RemoveCallback, CallbackRequestsStop, CallbackReturn, In
<1>3. PICK n \in Nat : n = Len(frames[t]) - 1
  BY <1>1, <1>2, TopFrame
<1>4. n + 1 = Len(frames[t]) /\ Depth(t) = 1..(n + 1) /\ Top(t) = frames[t][n + 1]
  BY <1>1, <1>2, <1>3, TopFrame
<1>5. PICK m \in 0..2 : /\ Keeps(t, n, m)
                        /\ \A i \in (n + 1)..(n + m) : frames'[t][i].op \in StateOps
  BY <1>3, StateStepMoves
<1>6. \A i \in (n + 1)..(n + m) : frames'[t][i].op \notin PoolOps /\ frames'[t][i].op # "destroy"
  BY <1>5 DEF StateOps, PoolOps
<1>7. \A s \in States : stopping[s] => stopping'[s]
  <2>1. CASE UNCHANGED stopping
    BY <2>1
  <2>2. CASE RequestStopFirst(t)
    BY <1>1, <2>2 DEF RequestStopFirst, TypeOK
  <2> QED BY <2>1, <2>2
      DEF StateStep, RequestStopFails, RequestStopNext, RequestStopEnd,
          AddCallback, AddCallbackStopped, AddCallbackCall, AddCallbackReturn,
          RemoveCallback, CallbackRequestsStop, CallbackReturn
\* The request on top of the stack has looked.
<1>8. ASSUME NEW s \in States, Asks(Top(t), s) PROVE stopping'[s]
  <2>1. RequestStopFirst(t) \/ RequestStopFails(t)
    BY <1>8 DEF Asks, StateStep, RequestStopNext, RequestStopEnd,
          AddCallback, AddCallbackStopped, AddCallbackCall, AddCallbackReturn,
          RemoveCallback, CallbackRequestsStop, CallbackReturn, In
  <2>2. Top(t).state = s
    BY <1>8 DEF Asks
  <2>3. CASE RequestStopFirst(t)
    BY <1>1, <2>2, <2>3 DEF RequestStopFirst, TypeOK
  <2>4. CASE RequestStopFails(t)
    BY <2>2, <2>4, NamesAssumption DEF RequestStopFails
  <2> QED BY <2>1, <2>3, <2>4
<1>9. \A i \in Depth(t) : \A s \in States : i > n /\ Asks(frames[t][i], s) => stopping'[s]
  BY <1>4, <1>8
<1>10. \A h \in Range(Pool) : source'[h] = source[h] /\ object'[h] = object[h]
  BY DEF handleVars
<1>11. m \in Nat
  OBVIOUS
<1> QED BY <1>1, <1>5, <1>6, <1>7, <1>9, <1>10, <1>11, PoolStays

\* An idle thread starts with g, which is no loop of the pool.
LEMMA StartKeepsPool ==
  ASSUME IInv, IInv', PoolInv, NEW t \in Threads, Idle(t),
         NEW g, frames' = [frames EXCEPT ![t] = g],
         \A i \in DOMAIN g :
           /\ g[i].op \notin PoolOps
           /\ g[i].op = "destroy" => g[i].handle \notin Range(Pool),
         UNCHANGED stopping, UNCHANGED <<source, object>>
  PROVE  PoolInv'
<1>1. TypeOK /\ TypeOK'
  BY DEF IInv
<1>2. frames'[t] = g /\ frames'[t] \in Seq(Frames)
  BY <1>1 DEF TypeOK, Frames
<1>3. PICK m \in Nat : m = Len(g) /\ DOMAIN g = 1..m
  BY <1>2, LenProperties
<1>4. Keeps(t, 0, m)
  BY <1>1, <1>2, <1>3, StartKeeps
<1>5. Depth(t) = {}
  BY DEF Idle, Depth
<1>6. \A i \in (0 + 1)..(0 + m) :
        /\ frames'[t][i].op \notin PoolOps
        /\ frames'[t][i].op = "destroy" => frames'[t][i].handle \notin Range(Pool)
  BY <1>2, <1>3
<1> QED BY <1>1, <1>4, <1>5, <1>6, PoolStays

\* The pool's vector is as it was.
LEMMA HandlesKeepPool ==
  ASSUME IInv, PoolInv, UNCHANGED stateVars,
         \A h \in Range(Pool) : source'[h] = source[h] /\ object'[h] = object[h]
  PROVE  PoolInv'
<1>1. TypeOK
  BY DEF IInv
<1>2. PICK n \in Nat : n = Len(frames[Owner]) /\ DOMAIN frames[Owner] = 1..n
  BY <1>1, OwnerAssumption, LenProperties DEF TypeOK
<1>3. Keeps(Owner, n, 0)
  BY <1>1, <1>2 DEF Keeps, TypeOK, Frames, stateVars
<1>4. \A i \in Depth(Owner) : ~(i > n)
  BY <1>2 DEF Depth
<1>5. \A i \in (n + 1)..(n + 0) : FALSE
  OBVIOUS
<1>6. UNCHANGED stopping
  BY DEF stateVars
<1> QED BY <1>1, <1>3, <1>4, <1>5, <1>6, OwnerAssumption, PoolStays

\* A loop of the pool starts.
LEMMA LoopStartKeepsPool ==
  ASSUME IInv, PoolInv, NEW t \in Threads, NEW op \in PoolOps, Idle(t),
         frames' = [frames EXCEPT ![t] = <<PoolFrame(op)>>],
         UNCHANGED <<StateUnchangedBut, handleVars>>,
         op = "pool_request_stop" =>
           PoolAlive /\ \A f \in Range(frames[Owner]) : f.op # "pool_destroy",
         op = "pool_destroy" => \A u \in Threads : ~Stops(u)
  PROVE  PoolInv'
<1>1. TypeOK /\ UNCHANGED <<source, object, stopping>>
  BY DEF IInv, StateUnchangedBut, handleVars
<1>2. /\ frames'[t] = <<PoolFrame(op)>> /\ Depth(t)' = {1}
      /\ frames'[t][1].op = op /\ frames'[t][1].n = 1
      /\ \A u \in Threads \ {t} : frames'[u] = frames[u]
  BY <1>1 DEF TypeOK, PoolFrame, Depth
<1>3. PoolOpsAreFirst'
  BY <1>2 DEF PoolInv, PoolOpsAreFirst, Depth
<1>4. PoolDestroys'
  <2>1. CASE Owner = t
    BY <1>2, <2>1 DEF PoolDestroys, PoolOps
  <2>2. CASE Owner # t
    BY <1>2, <2>2, OwnerAssumption DEF PoolInv, PoolDestroys, Depth
  <2> QED BY <2>1, <2>2
<1>5. SourcesAreMade'
  BY <1>1 DEF PoolInv, SourcesAreMade, Alive
<1>6. PoolIsInUse'
  <2> SUFFICES ASSUME NEW u \in Threads, Stops(u)'
               PROVE  /\ \A h \in Range(Pool) : Alive(h)
                      /\ \A i \in Depth(Owner)' : frames'[Owner][i].op # "pool_destroy"
    BY <1>1 DEF PoolIsInUse, Alive
  <2>1. CASE op = "pool_request_stop"
    <3>1. \A h \in Range(Pool) : Alive(h)
      BY <2>1 DEF PoolAlive, Range
    <3>2. \A i \in Depth(Owner) : frames[Owner][i].op # "pool_destroy"
      BY <2>1 DEF Range, Depth
    <3>3. \A i \in Depth(Owner)' : frames'[Owner][i].op # "pool_destroy"
      BY <1>2, <2>1, <3>2, OwnerAssumption DEF Depth
    <3> QED BY <3>1, <3>3
  <2>2. CASE op # "pool_request_stop"
    <3>1. u # t /\ Stops(u)
      BY <1>2, <2>2 DEF Stops
    <3>2. op # "pool_destroy"
      BY <3>1
    <3>3. /\ \A h \in Range(Pool) : Alive(h)
          /\ \A i \in Depth(Owner) : frames[Owner][i].op # "pool_destroy"
      BY <3>1 DEF PoolInv, PoolIsInUse
    <3> QED BY <1>2, <3>2, <3>3, OwnerAssumption DEF Depth
  <2> QED BY <2>1, <2>2
<1>7. ASSUME NEW u \in Threads, Stops(u)' PROVE Told(u)'
  <2>1. CASE u = t
    BY <1>2, <2>1 DEF Told
  <2>2. CASE u # t
    <3>1. Stops(u) /\ frames'[u] = frames[u]
      BY <1>2, <1>7, <2>2 DEF Stops
    <3> QED BY <1>1, <3>1 DEF PoolInv, Told, Depth, Asks
  <2> QED BY <2>1, <2>2
<1> QED BY <1>3, <1>4, <1>5, <1>6, <1>7 DEF PoolInv

\* A frame of a pool's loop on top of a stack is alone there.
LEMMA LoopIsAlone ==
  ASSUME IInv, PoolInv, NEW t \in Threads, InPoolLoop(t)
  PROVE  /\ Len(frames[t]) = 1 /\ Depth(t) = {1} /\ frames[t] # <<>>
         /\ Top(t) = frames[t][1] /\ Top(t) \in PoolFrames
<1>1. TypeOK /\ StopInv /\ frames[t] # <<>> /\ Top(t).op \in PoolOps
  BY DEF IInv, InPoolLoop
<1>2. /\ Len(frames[t]) \in Nat \ {0} /\ Len(frames[t]) \in Depth(t) /\ Depth(t) = 1..Len(frames[t])
      /\ Top(t) = frames[t][Len(frames[t])] /\ Top(t) \in Frames
  BY <1>1, TopFrame
<1>3. Len(frames[t]) = 1
  BY <1>1, <1>2 DEF PoolInv, PoolOpsAreFirst
<1>4. Top(t) \in PoolFrames
  BY <1>1, <1>2 DEF Frames, StateFrames, HandleFrames, PoolOps
<1> QED BY <1>1, <1>2, <1>3, <1>4

LEMMA PoolReturnKeepsPool ==
  ASSUME IInv, PoolInv, NEW t \in Threads, PoolReturn(t)
  PROVE  PoolInv'
<1>1. TypeOK /\ InPoolLoop(t) /\ Pop(t)
  BY DEF IInv, PoolReturn
<1>2. Len(frames[t]) = 1 /\ Depth(t) = {1} /\ Top(t) = frames[t][1] /\ frames[t] # <<>>
  BY <1>1, LoopIsAlone
<1>3. Keeps(t, 0, 0)
  <2>1. Len(frames[t]) - 1 = 0
    BY <1>2
  <2> QED BY <1>1, <1>2, <2>1, PopKeeps
<1>4. \A i \in (0 + 1)..(0 + 0) : FALSE
  OBVIOUS
<1>5. \A i \in Depth(t) : \A s \in States : ~Asks(frames[t][i], s)
  BY <1>1, <1>2 DEF InPoolLoop, Asks, PoolOps
<1>6. UNCHANGED <<stopping, source, object>>
  BY DEF PoolReturn, StateUnchangedBut, handleVars
<1> QED BY <1>1, <1>3, <1>4, <1>5, <1>6, PoolStays

\* The loop goes on: it counts, and makes the call for the next handle.
LEMMA PoolNextMoves ==
  ASSUME IInv, PoolInv, NEW t \in Threads, PoolNext(t)
  PROVE  \E n \in 1..Len(Pool), m \in Nat :
           /\ n = Top(t).n
           /\ Keeps(t, 0, 1 + m) /\ frames'[t][1] = [Top(t) EXCEPT !.n = n + 1]
           /\ LET g == PoolCalls(Top(t).op, Pool[n])
              IN  m = Len(g) /\ DOMAIN g = 1..m /\ \A i \in 1..m : frames'[t][1 + i] = g[i]
<1>1. TypeOK /\ StopInv /\ InPoolLoop(t) /\ ~PoolLoopOver(t)
  BY DEF IInv, PoolNext
<1>2. Len(frames[t]) = 1 /\ frames[t] # <<>> /\ Top(t) \in PoolFrames
  BY <1>1, LoopIsAlone
<1>3. PICK n \in 1..Len(Pool) : n = Top(t).n
  BY <1>1, <1>2, PoolIsHandles DEF PoolLoopOver, PoolFrames
<1> DEFINE f == [Top(t) EXCEPT !.n = n + 1]
           g == PoolCalls(Top(t).op, Pool[n])
<1>4. f \in Frames
  BY <1>2, <1>3, PoolIsHandles DEF PoolFrames, Frames
<1>5. g \in Seq({x \in Frames : Plain(x)})
  <2>1. Top(t).op \in PoolOps /\ Pool[n] \in Handles
    BY <1>1, PoolIsHandles DEF InPoolLoop
  <2> QED BY <1>1, <2>1, CallsArePlain
<1>6. frames' = [frames EXCEPT ![t] = Append(Front(@), f) \o g]
  BY <1>3 DEF PoolNext
<1> HIDE DEF f, g
<1>7. PICK m \in Nat : m = Len(g) /\ DOMAIN g = 1..m
  BY <1>5, LenProperties
<1>8. g \in Seq(Frames)
  <2>1. {x \in Frames : Plain(x)} \subseteq Frames
    OBVIOUS
  <2> QED BY <1>5, <2>1, SeqMonotonic
<1>9. /\ Keeps(t, Len(frames[t]) - 1, 1 + Len(g))
      /\ frames'[t][Len(frames[t])] = f
      /\ \A i \in 1..Len(g) : frames'[t][Len(frames[t]) + i] = g[i]
  BY <1>1, <1>2, <1>4, <1>6, <1>8, RaiseKeeps
<1>10. Len(frames[t]) - 1 = 0
  BY <1>2
<1>11. /\ Keeps(t, 0, 1 + m) /\ frames'[t][1] = f
       /\ \A i \in 1..m : frames'[t][1 + i] = g[i]
  BY <1>2, <1>7, <1>9, <1>10
<1> QED BY <1>3, <1>7, <1>11 DEF f, g

LEMMA PoolNextKeepsPool ==
  ASSUME IInv, PoolInv, NEW t \in Threads, PoolNext(t)
  PROVE  PoolInv'
<1>1. TypeOK /\ InPoolLoop(t) /\ UNCHANGED <<stopping, source, object>>
  BY DEF IInv, PoolNext, StateUnchangedBut, handleVars
<1>2. /\ Depth(t) = {1} /\ frames[t] # <<>>
      /\ Top(t) = frames[t][1] /\ Top(t) \in PoolFrames
  BY <1>1, LoopIsAlone
<1>3. PICK n \in 1..Len(Pool), m \in Nat :
        /\ n = Top(t).n
        /\ Keeps(t, 0, 1 + m) /\ frames'[t][1] = [Top(t) EXCEPT !.n = n + 1]
        /\ LET g == PoolCalls(Top(t).op, Pool[n])
           IN  m = Len(g) /\ DOMAIN g = 1..m /\ \A i \in 1..m : frames'[t][1 + i] = g[i]
  BY PoolNextMoves
<1>4. PICK op \in PoolOps : op = Top(t).op
  BY <1>1 DEF InPoolLoop
<1>5. PICK h \in Handles : h = Pool[n] /\ h \in Range(Pool)
  BY PoolIsHandles
<1>6. PICK f : f = frames'[t][1] /\ f.op = op /\ f.n = n + 1
  BY <1>2, <1>3, <1>4 DEF PoolFrames
<1> DEFINE g == PoolCalls(op, h)
<1>7. m = Len(g) /\ DOMAIN g = 1..m
  BY <1>3, <1>4, <1>5
<1>8. /\ Keeps(t, 0, 1 + m) /\ frames'[t][1] = f
      /\ \A i \in 1..m : frames'[t][1 + i] = g[i]
  BY <1>3, <1>4, <1>5, <1>6
\* What the loop calls.
<1>9. \A i \in 1..m :
         /\ g[i].op \notin PoolOps
         /\ g[i].op = "destroy" => op = "pool_destroy"
  BY <1>4, <1>7 DEF PoolCalls, PoolOps, DestroyFrames, HandleFrame, RequestStopFrame, Frame
<1>10. /\ Depth(t)' = 1..(1 + m)
       /\ \A i \in Depth(t)' : i = 1 \/ (i - 1 \in 1..m /\ frames'[t][i] = g[i - 1])
  <2>1. Depth(t)' = 1..(1 + m)
    BY <1>8 DEF Keeps, Depth
  <2>2. \A i \in 1..(1 + m) : i = 1 \/ (i - 1 \in 1..m /\ 1 + (i - 1) = i)
    BY <1>7
  <2> QED BY <1>8, <2>1, <2>2
<1>11. \A u \in Threads \ {t} : frames'[u] = frames[u]
  BY <1>8 DEF Keeps
<1>12. PoolOpsAreFirst'
  <2>1. \A i \in Depth(t)' : frames'[t][i].op \in PoolOps => i = 1
    BY <1>9, <1>10
  <2> QED BY <1>11, <2>1 DEF PoolInv, PoolOpsAreFirst, Depth
<1>13. PoolDestroys'
  <2>1. CASE Owner = t
    <3>1. \A i \in Depth(t)' : frames'[t][i].op = "destroy" => frames'[t][1].op = "pool_destroy"
      BY <1>6, <1>8, <1>9, <1>10 DEF PoolOps
    <3> QED BY <2>1, <3>1 DEF PoolDestroys, Depth
  <2>2. CASE Owner # t
    BY <1>11, <2>2, OwnerAssumption DEF PoolInv, PoolDestroys, Depth
  <2> QED BY <2>1, <2>2
<1>14. \A u \in Threads : Stops(u)' => Stops(u)
  BY <1>1, <1>2, <1>4, <1>6, <1>8, <1>11 DEF Stops
<1>15. PoolIsInUse'
  <2> SUFFICES ASSUME NEW u \in Threads, Stops(u)'
               PROVE  /\ \A x \in Range(Pool) : Alive(x)
                      /\ \A i \in Depth(Owner)' : frames'[Owner][i].op # "pool_destroy"
    BY <1>1 DEF PoolIsInUse, Alive
  <2>1. /\ \A x \in Range(Pool) : Alive(x)
        /\ \A i \in Depth(Owner) : frames[Owner][i].op # "pool_destroy"
    BY <1>14 DEF PoolInv, PoolIsInUse
  <2>2. \A i \in Depth(Owner)' : frames'[Owner][i].op # "pool_destroy"
    <3>1. CASE Owner = t
      BY <1>2, <1>4, <1>6, <1>8, <1>9, <1>10, <2>1, <3>1 DEF PoolOps
    <3>2. CASE Owner # t
      BY <1>11, <2>1, <3>2, OwnerAssumption DEF Depth
    <3> QED BY <3>1, <3>2
  <2> QED BY <2>1, <2>2
<1>16. SourcesAreMade'
  BY <1>1 DEF PoolInv, SourcesAreMade, Alive
<1>17. ASSUME NEW u \in Threads, Stops(u)' PROVE Told(u)'
  <2>1. Stops(u) /\ Told(u)
    BY <1>14, <1>17 DEF PoolInv
  <2>2. CASE u # t
    BY <1>1, <1>11, <2>1, <2>2 DEF Told, Depth, Asks
  <2>3. CASE u = t
    <3>1. op = "pool_request_stop"
      BY <1>2, <1>4, <2>1, <2>3 DEF Stops
    <3>2. g = <<RequestStopFrame(source[h])>> /\ m = 1
      BY <1>4, <1>7, <3>1 DEF PoolCalls
    <3>3. 2 \in Depth(t)' /\ frames'[t][2] = RequestStopFrame(source[h])
      BY <1>8, <1>10, <3>2
    <3>4. Asks(frames'[t][2], source[h])
      BY <3>3 DEF Asks, RequestStopFrame, Frame
    <3>5. \A k \in 1..(n - 1) : stopping[source[Pool[k]]]
      BY <1>2, <1>3, <2>1, <2>3 DEF Told
    <3>6. \A k \in 1..n : k = n \/ k \in 1..(n - 1)
      OBVIOUS
    <3>7. frames'[t][1].n = n + 1 /\ frames'[t][1].n - 1 = n
      BY <1>6, <1>8
    <3> SUFFICES ASSUME NEW k \in 1..n
                 PROVE  \/ stopping[source[Pool[k]]]
                        \/ k = n /\ 2 \in Depth(t)' /\ Asks(frames'[t][2], source[Pool[k]])
      BY <1>1, <2>3, <3>7 DEF Told, Asks
    <3> QED BY <1>5, <3>3, <3>4, <3>5, <3>6
  <2> QED BY <2>2, <2>3
<1> QED BY <1>12, <1>13, <1>15, <1>16, <1>17 DEF PoolInv

LEMMA JoinReturnKeepsPool ==
  ASSUME IInv, IInv', PoolInv, JoinReturn
  PROVE  PoolInv'
<1>1. TypeOK /\ TypeOK' /\ StopInv /\ Owner \in Threads
  BY OwnerAssumption DEF IInv
<1>2. /\ frames[Owner] # <<>> /\ Top(Owner).at = "join"
      /\ UNCHANGED <<stopping, source, object>>
  BY DEF JoinReturn, StateUnchangedBut
<1>3. PICK n \in Nat : n = Len(frames[Owner]) - 1
  BY <1>1, <1>2, TopFrame
<1>4. /\ n + 1 = Len(frames[Owner]) /\ Depth(Owner) = 1..(n + 1) /\ n + 1 \in Depth(Owner)
      /\ Top(Owner) = frames[Owner][n + 1] /\ Top(Owner) \in Frames
  BY <1>1, <1>2, <1>3, TopFrame
<1>5. Top(Owner) \in HandleFrames
  BY <1>2, <1>4 DEF Frames, StateFrames, PoolFrames
<1> DEFINE f == [Top(Owner) EXCEPT !.at = "destroy"]
<1>6. f \in HandleFrames /\ f.op = Top(Owner).op /\ f.handle = Top(Owner).handle
  BY <1>5 DEF HandleFrames
<1>7. PICK m \in {0, 1} :
        Keeps(Owner, n, m) /\ \A i \in (n + 1)..(n + m) : i = n + 1 /\ frames'[Owner][i] = f
  <2>1. CASE Top(Owner).op = "join"
    <3>1. Keeps(Owner, n, 0)
      BY <1>1, <1>2, <1>3, <2>1, PopKeeps DEF JoinReturn
    <3>2. \A i \in (n + 1)..(n + 0) : FALSE
      OBVIOUS
    <3> QED BY <3>1, <3>2
  <2>2. CASE Top(Owner).op # "join"
    <3>1. GoTo(Owner, "destroy")
      BY <2>2 DEF JoinReturn
    <3>2. f \in Frames
      BY <1>6 DEF Frames
    <3>3. Keeps(Owner, n, 1) /\ frames'[Owner][n + 1] = f
      BY <1>1, <1>2, <1>3, <1>4, <3>1, <3>2, GoToKeeps
    <3>4. \A i \in (n + 1)..(n + 1) : i = n + 1
      OBVIOUS
    <3> QED BY <3>3, <3>4
  <2> QED BY <2>1, <2>2
<1> HIDE DEF f
<1>8. \A i \in (n + 1)..(n + m) :
        /\ frames'[Owner][i].op \notin PoolOps
        /\ frames'[Owner][i].op = "destroy" =>
             \/ frames'[Owner][i].handle \notin Range(Pool)
             \/ /\ i \in Depth(Owner) /\ i = n + 1 /\ frames[Owner][i].op = "destroy"
                /\ frames[Owner][i].handle = frames'[Owner][i].handle
  BY <1>4, <1>6, <1>7 DEF HandleFrames, PoolOps
<1>9. \A i \in Depth(Owner) : \A s \in States : ~(i > n /\ Asks(frames[Owner][i], s))
  BY <1>2, <1>4 DEF Asks
<1>10. m \in Nat
  BY <1>7
<1> QED BY <1>1, <1>2, <1>7, <1>8, <1>9, <1>10, PoolStays

\* A handle of the pool goes when nobody is stopping the pool.
LEMMA DestroyReturnKeepsPool ==
  ASSUME IInv, IInv', PoolInv, DestroyReturn
  PROVE  PoolInv'
<1>1. TypeOK /\ TypeOK' /\ StopInv /\ Owner \in Threads
  BY OwnerAssumption DEF IInv
<1>2. /\ frames[Owner] # <<>> /\ Top(Owner).op = "destroy" /\ Top(Owner).at = "destroy"
      /\ UNCHANGED stopping
  BY DEF DestroyReturn, In, StateUnchangedBut
<1>3. PICK n \in Nat : n = Len(frames[Owner]) - 1
  BY <1>1, <1>2, TopFrame
<1>4. /\ n + 1 = Len(frames[Owner]) /\ Depth(Owner) = 1..(n + 1) /\ n + 1 \in Depth(Owner)
      /\ Top(Owner) = frames[Owner][n + 1] /\ Top(Owner) \in Frames
  BY <1>1, <1>2, <1>3, TopFrame
<1>5. PICK h \in Handles : h = Top(Owner).handle
  BY <1>2, <1>4 DEF Frames, StateFrames, HandleFrames, PoolFrames
<1>6. /\ object' = [object EXCEPT ![h] = "destroyed"] /\ source' = [source EXCEPT ![h] = NoState]
      /\ \A g \in Handles \ {h} : source'[g] = source[g] /\ object'[g] = object[g]
  BY <1>1, <1>5 DEF DestroyReturn, TypeOK
<1>7. Keeps(Owner, n, 0)
  BY <1>1, <1>2, <1>3, PopKeeps DEF DestroyReturn
<1>8. \A i \in (n + 1)..(n + 0) : FALSE
  OBVIOUS
<1>9. CASE h \notin Range(Pool)
  <2>1. \A i \in Depth(Owner) : \A s \in States : ~(i > n /\ Asks(frames[Owner][i], s))
    BY <1>2, <1>4 DEF Asks
  <2>2. \A g \in Range(Pool) : source'[g] = source[g] /\ object'[g] = object[g]
    BY <1>6, <1>9, PoolIsHandles
  <2> QED BY <1>1, <1>2, <1>7, <1>8, <2>1, <2>2, PoolStays
<1>10. CASE h \in Range(Pool)
  <2>1. frames[Owner][1].op = "pool_destroy" /\ 1 \in Depth(Owner)
    BY <1>2, <1>4, <1>5, <1>10 DEF PoolInv, PoolDestroys
  <2>2. \A u \in Threads : ~Stops(u)
    BY <2>1 DEF PoolInv, PoolIsInUse
  <2>3. \A u \in Threads : \A i \in Depth(u)' : i \in Depth(u) /\ frames'[u][i] = frames[u][i]
    <3>1. \A u \in Threads : \A i \in Depth(u)' :
            \/ u = Owner /\ i \in (n + 1)..(n + 0)
            \/ i \in Depth(u) /\ frames'[u][i] = frames[u][i]
      BY <1>1, <1>7, KeptFrames
    <3> QED BY <1>8, <3>1
  <2>4. \A u \in Threads : ~Stops(u)'
    <3> SUFFICES ASSUME NEW u \in Threads, Stops(u)' PROVE FALSE
      OBVIOUS
    <3>1. 1 \in Depth(u)'
      <4>1. frames'[u] \in Seq(Frames) /\ frames'[u] # <<>>
        BY <1>1 DEF TypeOK, Frames, Stops
      <4>2. Len(frames'[u]) \in Nat \ {0} /\ DOMAIN frames'[u] = 1..Len(frames'[u])
        BY <4>1, EmptySeq, LenProperties
      <4> QED BY <4>2 DEF Depth
    <3> QED BY <2>2, <2>3, <3>1 DEF Stops, Depth
  <2>5. PoolOpsAreFirst'
    BY <2>3 DEF PoolInv, PoolOpsAreFirst
  <2>6. PoolDestroys'
    <3>1. \A i \in Depth(Owner)' : 1 \in Depth(Owner)'
      BY <1>7 DEF Keeps, Depth
    <3> QED BY <1>1, <2>1, <2>3, <3>1 DEF PoolDestroys
  <2>7. SourcesAreMade'
    <3>1. \A g \in Range(Pool) : object'[g] = "alive" => g # h /\ g \in Handles
      BY <1>1, <1>6, PoolIsHandles DEF TypeOK
    <3> QED BY <1>6, <3>1 DEF PoolInv, SourcesAreMade, Alive
  <2> QED BY <2>4, <2>5, <2>6, <2>7 DEF PoolInv, PoolIsInUse
<1> QED BY <1>9, <1>10

\* Nobody stops a pool that is being constructed.
LEMMA PoolConstructKeepsPool ==
  ASSUME IInv, PoolInv, PoolConstruct
  PROVE  PoolInv'
<1>1. TypeOK
  BY DEF IInv
<1>2. PICK start \in [Range(Pool) -> Workers] :
        /\ \A h \in Range(Pool) : StartIn(h, start[h])
        /\ source' = [h \in Handles |-> IF h \in Range(Pool) THEN StateOf[start[h]] ELSE source[h]]
  BY DEF PoolConstruct
<1>3. UNCHANGED <<frames, stopping>>
  BY DEF PoolConstruct, stateVars
<1>4. \E h \in Range(Pool) : ~Alive(h)
  <2>1. Len(Pool) # 0
    BY PoolAssumption, EmptySeq DEF PoolConstruct
  <2>2. 1 \in 1..Len(Pool)
    BY <2>1, PoolIsHandles
  <2>3. Pool[1] \in Range(Pool)
    BY <2>2, PoolIsHandles
  <2> QED BY <1>2, <2>3 DEF StartIn, Alive
<1>5. \A u \in Threads : ~Stops(u)
  BY <1>4 DEF PoolInv, PoolIsInUse
<1>6. \A u \in Threads : ~Stops(u)'
  BY <1>3, <1>5 DEF Stops
<1>7. SourcesAreMade'
  BY <1>2, PoolIsHandles, StateOfAssumption DEF SourcesAreMade
<1>8. PoolOpsAreFirst' /\ PoolDestroys'
  BY <1>3 DEF PoolInv, PoolOpsAreFirst, PoolDestroys, Depth
<1> QED BY <1>6, <1>7, <1>8 DEF PoolInv, PoolIsInUse

\* The handles' own operations are about loose handles.
LEMMA OwnerCallKeepsPool ==
  ASSUME IInv, IInv', PoolInv, OwnerCall
  PROVE  PoolInv'
<1>1. TypeOK /\ Owner \in Threads
  BY OwnerAssumption DEF IInv
<1>2. ASSUME NEW h \in Handles, NEW w \in LooseWorkers, Launch(h, w) PROVE PoolInv'
  <2>1. \A g \in Range(Pool) : source'[g] = source[g] /\ object'[g] = object[g]
    BY <1>1, <1>2, PoolIsHandles DEF Launch, Loose, TypeOK
  <2> QED BY <1>2, <2>1, HandlesKeepPool DEF Launch
<1>3. ASSUME NEW h \in Handles, LaunchNothing(h) PROVE PoolInv'
  <2>1. \A g \in Range(Pool) : source'[g] = source[g] /\ object'[g] = object[g]
    BY <1>1, <1>3, PoolIsHandles DEF LaunchNothing, Loose, TypeOK
  <2> QED BY <1>3, <2>1, HandlesKeepPool DEF LaunchNothing
<1>4. ASSUME NEW h \in Handles, Detach(h) PROVE PoolInv'
  BY <1>4, HandlesKeepPool DEF Detach
<1>5. ASSUME NEW g \in Handles, NEW h \in Handles, Move(g, h) \/ Swap(g, h) PROVE PoolInv'
  <2>1. {g, h} \cap Range(Pool) = {} /\ UNCHANGED object /\ UNCHANGED stateVars
    BY <1>5 DEF Move, Swap, Loose
  <2>2. \A x \in Range(Pool) : source'[x] = source[x]
    BY <1>1, <1>5, <2>1, PoolIsHandles DEF Move, Swap, TypeOK
  <2> QED BY <2>1, <2>2, HandlesKeepPool
<1>6. ASSUME NEW h \in Handles, Join(h) PROVE PoolInv'
  <2> DEFINE g == <<HandleFrame("join", h, "join")>>
  <2>1. Idle(Owner) /\ UNCHANGED stopping /\ UNCHANGED <<source, object>>
    BY <1>6 DEF Join, StateUnchangedBut, handleVars
  <2>2. frames' = [frames EXCEPT ![Owner] = g]
    BY <1>6, <2>1 DEF Join, Push, Idle
  <2>3. \A i \in DOMAIN g : g[i].op \notin PoolOps /\ g[i].op # "destroy"
    BY DEF HandleFrame, PoolOps
  <2> HIDE DEF g
  <2> QED BY <1>1, <2>1, <2>2, <2>3, StartKeepsPool
<1>7. ASSUME NEW h \in Handles, DestroyHandle(h) PROVE PoolInv'
  <2>1. PICK g : g = DestroyFrames(h)
    OBVIOUS
  <2>2. \A i \in DOMAIN g :
          /\ g[i].op \notin PoolOps
          /\ g[i].op = "destroy" => g[i].handle \notin Range(Pool)
    BY <1>7, <2>1 DEF DestroyHandle, Loose, DestroyFrames, HandleFrame, RequestStopFrame, Frame, PoolOps
  <2>3. Idle(Owner) /\ frames' = [frames EXCEPT ![Owner] = g]
    BY <1>7, <2>1 DEF DestroyHandle
  <2>4. UNCHANGED stopping /\ UNCHANGED <<source, object>>
    BY <1>7 DEF DestroyHandle, StateUnchangedBut, handleVars
  <2> QED BY <1>1, <2>2, <2>3, <2>4, StartKeepsPool
<1>8. ASSUME PoolJoin PROVE PoolInv'
  <2>1. "pool_join" \in PoolOps
    BY DEF PoolOps
  <2> QED BY <1>1, <1>8, <2>1, LoopStartKeepsPool DEF PoolJoin
<1>9. ASSUME PoolDestroy PROVE PoolInv'
  <2>1. "pool_destroy" \in PoolOps
    BY DEF PoolOps
  <2>2. \A u \in Threads : ~Stops(u)
    <3> SUFFICES ASSUME NEW u \in Threads, Stops(u) PROVE FALSE
      OBVIOUS
    <3>1. 1 \in Depth(u)
      BY <1>1, InLoop
    <3> QED BY <1>9, <3>1 DEF PoolDestroy, Stops, Range, Depth
  <2> QED BY <1>1, <1>9, <2>1, <2>2, LoopStartKeepsPool DEF PoolDestroy
<1> QED BY <1>2, <1>3, <1>4, <1>5, <1>6, <1>7, <1>8, <1>9, PoolConstructKeepsPool DEF OwnerCall

LEMMA CallKeepsPool ==
  ASSUME IInv, IInv', PoolInv, NEW t \in Threads, Call(t)
  PROVE  PoolInv'
<1>1. ASSUME PoolRequestStop(t) PROVE PoolInv'
  <2>1. "pool_request_stop" \in PoolOps
    BY DEF PoolOps
  <2> QED BY <1>1, <2>1, LoopStartKeepsPool DEF PoolRequestStop
<1>2. ASSUME NEW f, Idle(t), Push(t, f), f.op \in StateOps,
             UNCHANGED stopping, UNCHANGED <<source, object>>
      PROVE  PoolInv'
  <2> DEFINE g == <<f>>
  <2>1. frames' = [frames EXCEPT ![t] = g]
    BY <1>2 DEF Push, Idle
  <2>2. \A i \in DOMAIN g : g[i].op \notin PoolOps /\ g[i].op # "destroy"
    BY <1>2 DEF StateOps, PoolOps
  <2> HIDE DEF g
  <2> QED BY <1>2, <2>1, <2>2, StartKeepsPool
<1>3. ASSUME RequestStop(t) PROVE PoolInv'
  <2>1. PICK s : Push(t, RequestStopFrame(s))
    BY <1>3 DEF RequestStop
  <2>2. RequestStopFrame(s).op \in StateOps
    BY DEF RequestStopFrame, Frame, StateOps
  <2> QED BY <1>2, <1>3, <2>1, <2>2 DEF RequestStop, StateUnchangedBut, handleVars
<1>4. ASSUME UseCallback(t) PROVE PoolInv'
  <2>1. Idle(t) /\ UNCHANGED stopping /\ UNCHANGED <<source, object>>
    BY <1>4 DEF UseCallback, Construct, Destroy, handleVars
  <2>2. PICK c \in Callbacks : (\E s : Construct(t, c, s)) \/ Destroy(t, c)
    BY <1>4 DEF UseCallback
  <2>3. \E f : Push(t, f) /\ f.op \in StateOps
    <3>1. CASE Destroy(t, c)
      <4>1. Frame("remove_callback", token[c], c, "lock").op \in StateOps
        BY DEF Frame, StateOps
      <4> QED BY <3>1, <4>1 DEF Destroy
    <3>2. ASSUME NEW s, Construct(t, c, s) PROVE \E f : Push(t, f) /\ f.op \in StateOps
      <4>1. Frame("add_callback", s, c, IF s = NoState THEN "call" ELSE "lock").op \in StateOps
        BY DEF Frame, StateOps
      <4> QED BY <3>2, <4>1 DEF Construct
    <3> QED BY <2>2, <3>1, <3>2
  <2> QED BY <1>2, <2>1, <2>3
<1> QED BY <1>1, <1>3, <1>4 DEF Call

LEMMA NextPoolInv == IInv /\ IInv' /\ PoolInv /\ [Next]_vars => PoolInv'
<1> SUFFICES ASSUME IInv, IInv', PoolInv, [Next]_vars PROVE PoolInv'
  OBVIOUS
<1>1. ASSUME NEW t \in Threads, Step(t) PROVE PoolInv'
  BY <1>1, StateStepKeepsPool, PoolNextKeepsPool, PoolReturnKeepsPool DEF Step
<1>2. ASSUME NEW w \in Workers, WorkerEnds(w) PROVE PoolInv'
  BY <1>2, HandlesKeepPool DEF WorkerEnds
<1>3. ASSUME UNCHANGED vars PROVE PoolInv'
  BY <1>3, HandlesKeepPool DEF vars, handleVars
<1> QED BY <1>1, <1>2, <1>3, OwnerCallKeepsPool, CallKeepsPool, JoinReturnKeepsPool,
           DestroyReturnKeepsPool DEF Next, HandleStep

LEMMA InitPoolInv == Init => PoolInv
<1> SUFFICES ASSUME Init PROVE PoolInv
  OBVIOUS
<1>1. \A t \in Threads : frames[t] = <<>> /\ Depth(t) = {}
  BY DEF Init, StateInit, Depth
<1>2. SourcesAreMade
  BY PoolIsHandles DEF Init, SourcesAreMade, Alive
<1> QED BY <1>1, <1>2, OwnerAssumption
        DEF PoolInv, PoolOpsAreFirst, PoolDestroys, PoolIsInUse, Stops

\* Only the end of a loop of the pool leaves the stack empty.
LEMMA LoopEnds ==
  ASSUME IInv, IInv', PoolInv, [Next]_vars, NEW t \in Threads, InPoolLoop(t), Idle(t)'
  PROVE  PoolReturn(t)
<1>1. TypeOK /\ StopInv /\ Owner \in Threads
  BY OwnerAssumption DEF IInv
<1>2. /\ Len(frames[t]) = 1 /\ Depth(t) = {1} /\ frames[t] # <<>> /\ frames'[t] = <<>>
      /\ Top(t) = frames[t][1] /\ Top(t) \in PoolFrames /\ Top(t).op \in PoolOps
  BY LoopIsAlone DEF Idle, InPoolLoop
<1>3. ~Idle(t) /\ ~(UNCHANGED frames)
  BY <1>2 DEF Idle
<1>4. \A u \in Threads \ {t} : \A g : frames' # [frames EXCEPT ![u] = g]
  BY <1>1, <1>2 DEF TypeOK
<1>5. ~OwnerCall
  BY <1>1, <1>3, <1>4
     DEF OwnerCall, Launch, LaunchNothing, Detach, Join, DestroyHandle, Move, Swap,
         PoolConstruct, PoolJoin, PoolDestroy, StartIn, Push, stateVars
<1>6. ~HandleStep
  <2>1. CASE Owner = t
    BY <1>2, <2>1 DEF HandleStep, JoinReturn, DestroyReturn, In, PoolFrames
  <2>2. CASE Owner # t
    BY <1>1, <1>4, <2>2 DEF HandleStep, JoinReturn, DestroyReturn, Pop, GoTo
  <2> QED BY <2>1, <2>2
<1>7. \A u \in Threads : ~Call(u)
  BY <1>3, <1>4
     DEF Call, PoolRequestStop, RequestStop, UseCallback, Construct, Destroy, Push
<1>8. \A u \in Threads : ~StateStep(u)
  <2> SUFFICES ASSUME NEW u \in Threads, StateStep(u) PROVE FALSE
    OBVIOUS
  <2>1. PICK n : n = Len(frames[u]) - 1
    OBVIOUS
  <2>2. frames[u] # <<>> /\ Top(u).op \in StateOps
    BY <1>1 DEF StateStep, RequestStopFirst, RequestStopFails, RequestStopNext, RequestStopEnd,
         AddCallback, AddCallbackStopped, AddCallbackCall, AddCallbackReturn,
         RemoveCallback, CallbackRequestsStop, CallbackReturn, In, StateOps
  <2>3. n \in Nat
    BY <1>1, <2>1, <2>2, TopFrame
  <2>4. PICK m \in 0..2 : Keeps(u, n, m)
    BY <2>1, <2>3, StateStepMoves
  <2>5. u # t
    BY <1>2, <2>2 DEF StateOps, PoolOps
  <2> QED BY <1>2, <2>4, <2>5 DEF Keeps
<1>9. \A u \in Threads : ~PoolNext(u)
  <2> SUFFICES ASSUME NEW u \in Threads, PoolNext(u) PROVE FALSE
    OBVIOUS
  <2>1. CASE u # t
    BY <1>4, <2>1 DEF PoolNext
  <2>2. CASE u = t
    <3>1. PICK m \in Nat : Keeps(t, 0, 1 + m)
      BY <2>2, PoolNextMoves
    <3>2. 1 \in DOMAIN frames'[t]
      BY <3>1 DEF Keeps
    <3> QED BY <1>2, <3>2
  <2> QED BY <2>1, <2>2
<1>10. \A u \in Threads \ {t} : ~PoolReturn(u)
  BY <1>4 DEF PoolReturn, Pop
<1>11. \A w \in Workers : ~WorkerEnds(w)
  BY <1>3 DEF WorkerEnds, stateVars
<1>12. ~(UNCHANGED vars)
  BY <1>3 DEF vars, stateVars
<1> QED BY <1>5, <1>6, <1>7, <1>8, <1>9, <1>10, <1>11, <1>12 DEF Next, Step

\* thread_pool::request_stop: when it returns, every thread of the pool has
\* been told to stop, whoever else stops the pool, its threads or the states,
\* and whatever their callbacks do.
THEOREM PoolIsStopped == Safety => PoolStopReachesAll
<1>1. ASSUME IInv, IInv', PoolInv, [Next]_vars, NEW t \in Threads,
             InPoolLoop(t), Top(t).op = "pool_request_stop", Idle(t)', NEW h \in Range(Pool)
      PROVE  stopping[source[h]]
  <2>1. PoolReturn(t)
    BY <1>1, LoopEnds
  <2>2. TypeOK
    BY <1>1 DEF IInv
  <2>3. /\ frames[t] # <<>> /\ Depth(t) = {1} /\ Top(t) = frames[t][1]
        /\ Top(t) \in PoolFrames
    BY <1>1, LoopIsAlone
  <2>4. Stops(t) /\ Told(t)
    BY <1>1, <2>3 DEF PoolInv, Stops
  <2>5. frames[t][1].n - 1 = Len(Pool)
    BY <2>1, <2>3, PoolIsHandles DEF PoolReturn, PoolLoopOver, PoolFrames
  <2>6. PICK k \in 1..Len(Pool) : h = Pool[k]
    BY PoolIsHandles DEF Range
  <2> QED BY <2>3, <2>4, <2>5, <2>6 DEF Told
<1>2. IInv /\ IInv' /\ PoolInv /\ [Next]_vars =>
        [\A t \in Threads :
           InPoolLoop(t) /\ Top(t).op = "pool_request_stop" /\ Idle(t)' =>
             \A h \in Range(Pool) : stopping[source[h]]]_vars
  BY <1>1
<1> QED BY <1>2, InvariantHolds, InitPoolInv, NextPoolInv, PTL DEF Safety, PoolStopReachesAll

=============================================================================
