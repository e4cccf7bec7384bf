------------------------------ MODULE MCQueue -------------------------------
(* Queue for TLC: three threads, two values, at most two values queued.     *)
EXTENDS Queue, TLC

=============================================================================
