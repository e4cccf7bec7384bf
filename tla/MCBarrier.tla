----------------------------- MODULE MCBarrier ------------------------------
(* Barrier for TLC: one thread stands for two parties, two for one each.    *)
EXTENDS Barrier

CONSTANTS t1, t2, t3

MCThreads == {t1, t2, t3}
MCParties == [t \in MCThreads |-> IF t = t1 THEN 2 ELSE 1]

=============================================================================
