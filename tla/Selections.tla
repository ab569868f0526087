---------------------------- MODULE Selections ------------------------------
(***************************************************************************)
(* The elements of a sequence that are in a set, in their order: what the  *)
(* erase-remove loops over std::vector leave. SelectSeq of Sequences says  *)
(* the same, but the proof system knows no fact about it; SelectionsProofs *)
(* proves the facts about this one.                                        *)
(***************************************************************************)
EXTENDS Integers, Sequences

Selected(q, S) ==
    LET sel[i \in 0..Len(q)] ==
            IF i = 0 THEN <<>>
            ELSE IF q[i] \in S THEN Append(sel[i-1], q[i]) ELSE sel[i-1]
    IN sel[Len(q)]
=============================================================================
