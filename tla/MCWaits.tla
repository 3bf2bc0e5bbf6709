------------------------------ MODULE MCWaits -------------------------------
(***************************************************************************)
(* Instances of Waits for TLC: tasks that may suspend and be paused, and   *)
(* listeners that contend for the lease.                                   *)
(***************************************************************************)
EXTENDS Waits, TLC

CONSTANTS h1, l1, l2
=============================================================================
