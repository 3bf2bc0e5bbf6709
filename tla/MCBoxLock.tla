------------------------------ MODULE MCBoxLock ------------------------------
(***************************************************************************)
(* Instances of BoxLock for TLC: one exclusive client, a shared client     *)
(* that needs one slot of a larger capacity override, two that need two,   *)
(* a slot-only client with the larger capacity, and an observer.           *)
(***************************************************************************)
EXTENDS BoxLock, TLC

CONSTANTS e1, s1, s2, s3, o1, ob

MCCapacity == [c \in Clients |-> IF c \in {s1, o1} THEN MaxSlots ELSE 2]
MCWeight == [c \in Clients |-> IF c \in {s2, s3} THEN 2 ELSE 1]
=============================================================================
