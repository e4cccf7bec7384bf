----------------------------- MODULE MCJThread ------------------------------
(***************************************************************************)
(* JThread for TLC: the function of callback c1 does nothing, that of c2    *)
(* requests s2 to stop.                                                     *)
(***************************************************************************)
EXTENDS JThread, TLC

CONSTANTS w1, w2, s1, s2, c1, c2, p1, p2

MCPool == <<p1, p2>>

MCStateOf == w1 :> s1 @@ w2 :> s2
MCTarget  == c1 :> NoState @@ c2 :> s2

\* c2 is not registered with the state it stops, as LocksOrdered asks.
MCTokens == c1 :> {s1, s2, NoState} @@ c2 :> {s1}

=============================================================================
