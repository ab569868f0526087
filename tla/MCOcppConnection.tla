-------------------------- MODULE MCOcppConnection --------------------------
(* Instances of OcppConnection for TLC. *)
EXTENDS OcppConnection
=============================================================================
