------------------------ MODULE TransactionalOutbox ------------------------
(***************************************************************************)
(* What OcppOutMessageQueue promises the transaction requester about       *)
(* StartTransaction, MeterValues and StopTransaction calls, whatever the   *)
(* connection and the timers do: they are kept in the order of submission, *)
(* first reach the CS in that order, and leave only because the CS         *)
(* answered them, a later call of the same action replaced them, or        *)
(* sending them failed.                                                    *)
(***************************************************************************)
EXTENDS Integers, Sequences, FiniteSets

CONSTANTS
    Call,    \* transactional calls
    Action   \* their OCPP actions

VARIABLES
    pending, \* accepted and not yet done with, in order of acceptance
    fate,    \* what became of a call
    written  \* calls that have reached the CS

vars == <<pending, fate, written>>

Init ==
    /\ pending = <<>>
    /\ fate = [m \in Call |-> "new"]
    /\ written = {}

Subsequence(q, keep) ==
    { [i \in 1..Cardinality(keep) |-> q[f[i]]] :
        f \in { g \in [1..Cardinality(keep) -> keep] :
                  \A i, j \in 1..Cardinality(keep) : i < j => g[i] < g[j] } }

(* Calls at some positions gone of the same action make way for m. *)
Accept(m) ==
    /\ fate[m] = "new"
    /\ \E gone \in SUBSET {i \in DOMAIN pending : Action[pending[i]] = Action[m]} :
         /\ \E rest \in Subsequence(pending, DOMAIN pending \ gone) : pending' = Append(rest, m)
         /\ fate' = [n \in Call |-> CASE n = m -> "held"
                                      [] \E i \in gone : pending[i] = n -> "replaced"
                                      [] OTHER -> fate[n]]
    /\ UNCHANGED written

Leave(m, f) ==
    /\ \E i \in DOMAIN pending :
         /\ pending[i] = m
         /\ pending' = SubSeq(pending, 1, i - 1) \o SubSeq(pending, i + 1, Len(pending))
    /\ fate' = [fate EXCEPT ![m] = f]
    /\ UNCHANGED written

Answered(m) == m \in written /\ Leave(m, "answered")
SendingFailed(m) == Leave(m, "discarded")

(* Calls S reach the CS: for the first time only after all calls accepted  *)
(* before them that are still pending.                                     *)
Write(S) ==
    /\ written' = written \cup S
    /\ \A i \in DOMAIN pending :
         pending[i] \in S => \A j \in 1..(i - 1) : pending[j] \in written'
    /\ UNCHANGED <<pending, fate>>

Next ==
    \/ \E m \in Call : Accept(m) \/ Answered(m) \/ SendingFailed(m)
    \/ \E S \in SUBSET Call : Write(S)

Spec == Init /\ [][Next]_vars
=============================================================================
