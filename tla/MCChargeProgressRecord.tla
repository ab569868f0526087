----------------------- MODULE MCChargeProgressRecord -----------------------
(* Instances of ChargeProgressRecord for TLC. *)
EXTENDS ChargeProgressRecord, TLC

SessionSymmetry == Permutations(Session)
=============================================================================
