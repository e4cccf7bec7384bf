--------------------------- MODULE MCParallelChunks ---------------------------
(* ParallelChunks for TLC. *)
EXTENDS ParallelChunks, TLC

=============================================================================
