-------------------------------- MODULE MCAsync --------------------------------
(***************************************************************************)
(* Async for TLC.  main calls sync_point and owns the co_sync coroutine s,  *)
(* for which it blocks there until the pool is done with the co_async       *)
(* coroutine d, which awaits another one, e.  c1 waits for the co_async     *)
(* coroutine a, which needs main meanwhile.  x1 and x2 have the same tag;   *)
(* both are for main, f3 and f4 are for main without a tag, f4 from the     *)
(* coroutine that runs there.                                               *)
(***************************************************************************)
EXTENDS Async, TLC

CONSTANTS main, c1, a, d, e, s, f1, f2, f3, f4, x1, x2, g

MCBody   == a :> <<x1, f3>> @@ s :> <<d, f4>> @@ d :> <<e>> @@ e :> <<f1, f2>>
MCOwned  == main :> <<s>> @@ c1 :> <<x2, a>>
MCTarget == [x \in Functions |-> IF x \in {f3, f4, x1, x2} THEN main ELSE Pool]
MCTagOf  == [x \in Functions |-> IF x \in {x1, x2} THEN g ELSE NoTag]

=============================================================================
