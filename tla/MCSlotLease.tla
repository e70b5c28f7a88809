----------------------------- MODULE MCSlotLease -----------------------------
(***************************************************************************)
(* Instances of SlotLease for TLC.                                         *)
(***************************************************************************)
EXTENDS SlotLease

CONSTANTS n1, s1, s2, s3, t1

TwoEach == [n \in Nodes |-> 2]

==============================================================================
