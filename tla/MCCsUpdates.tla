---------------------------- MODULE MCCsUpdates -----------------------------
(* Instances of CsUpdates for TLC. *)
EXTENDS CsUpdates, TLC

CONSTANTS a, b

(* The second version takes a listed tag from the list, which no            *)
(* differential update can do, and blocks the other; the third lists the   *)
(* first again.                                                            *)
Versions ==
    (0 :> [t \in Tag |-> NotListed]) @@
    (1 :> (a :> "Accepted" @@ b :> NotListed)) @@
    (2 :> (a :> NotListed @@ b :> "Expired")) @@
    (3 :> (a :> "Accepted" @@ b :> "Expired"))
=============================================================================
