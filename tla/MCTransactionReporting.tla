----------------------- MODULE MCTransactionReporting -----------------------
(* Instances of TransactionReporting for TLC. *)
EXTENDS TransactionReporting

(* One user, so that all sessions have the same tag. *)
OneTag == [s \in Session |-> "tag"]

(* One remote command carried no tag. *)
OneUntagged ==
    LET untagged == CHOOSE s \in Session : TRUE
    IN [s \in Session |-> IF s = untagged THEN NoTag ELSE "tag"]

(* A session starts only beside MaxSessions - 1 others. Sessions with the  *)
(* same tag differ in nothing, so that any one of those never used stands  *)
(* for all of them.                                                        *)
MaxSessions == 2

StartsAllowed ==
    \A s \in Session :
        connector'.session = s /\ NeverUsed(s) =>
            /\ Cardinality({x \in Session : ~NeverUsed(x)}) < MaxSessions
            /\ s = CHOOSE x \in Session : NeverUsed(x) /\ IdTag[x] = IdTag[s]

(* TimelySpec with any two sessions, one of them perhaps without a tag. *)
TimelyBoundedSpec ==
    /\ Init
    /\ [][\/ Charger /\ StartsAllowed
          \/ Reporting \/ Restart
          \/ OnCheckTransactionTimeout /\ ocppOnline]_vars
    /\ Fairness
=============================================================================
