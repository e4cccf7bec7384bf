----------------------------- MODULE MCParallel -----------------------------
(***************************************************************************)
(* Parallel for TLC: the outer call has two jobs, one of which makes the    *)
(* inner call of one more; the other call has a job of its own; the empty   *)
(* call has an empty range.                                                 *)
(***************************************************************************)
EXTENDS Parallel, TLC

CONSTANTS outer, inner, other, empty, j1, j2, j3, j4

MCCalls  == {outer, inner, other, empty}
MCJobs   == {j1, j2, j3, j4}
MCCallOf ==
  [j \in MCJobs |-> CASE j \in {j1, j2} -> outer
                      [] j = j3 -> inner
                      [] j = j4 -> other]
MCNested == [j \in MCJobs |-> IF j = j1 THEN inner ELSE Nobody]

=============================================================================
