------------------------------ MODULE MCLatch -------------------------------
(* Latch for TLC.                                                           *)
EXTENDS Latch, TLC

=============================================================================
