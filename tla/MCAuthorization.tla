-------------------------- MODULE MCAuthorization ---------------------------
(* Instances of Authorization for TLC. *)
EXTENDS Authorization, TLC

TagSymmetry == Permutations(Tag)

(* Bounds: a behaviour is followed up to the first verdict cached for a    *)
(* tag it was not given on or lost with the power, and with at most two    *)
(* messages shown or answers to come.                                      *)
Followed == ~(mixed \/ lost) /\ closings + Len(calls) <= 2
=============================================================================
