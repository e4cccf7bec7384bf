------------------------------- MODULE MCSync -------------------------------
(* Sync for TLC.                                                            *)
EXTENDS Sync, TLC

=============================================================================
