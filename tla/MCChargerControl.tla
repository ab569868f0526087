-------------------------- MODULE MCChargerControl --------------------------
(* Instances of ChargerControl for TLC. *)
EXTENDS ChargerControl
=============================================================================
