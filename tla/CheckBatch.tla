------------------------------ MODULE CheckBatch ------------------------------
(***************************************************************************)
(* What checkAll promises to checkOnce: it is asked once and answers with  *)
(* a prefix of the target list, every result of which is final.  Without a *)
(* signal the prefix is the whole list and no result speaks of a canceled  *)
(* context, so ctx.Err() alone tells a complete run from a garbled one.    *)
(***************************************************************************)
EXTENDS Integers

CONSTANTS
    N,          \* length of the target list
    Final,      \* results a finished check may leave
    Garbled     \* those a signal cut short

VARIABLES cancelled, answered, list

vars == <<cancelled, answered, list>>

Init == cancelled = FALSE /\ answered = FALSE /\ list = <<>>

Cancel == cancelled' = TRUE /\ UNCHANGED <<answered, list>>

Answer ==
    /\ ~answered
    /\ answered' = TRUE
    /\ \E n \in IF cancelled THEN 0..N ELSE {N} :
         /\ list' \in [1..n -> Final]
         /\ \A i \in 1..n : cancelled \/ list'[i] \notin Garbled
    /\ UNCHANGED cancelled

Next == Cancel \/ Answer

Safety == Init /\ [][Next]_vars

Spec == Safety /\ WF_vars(Answer)
==============================================================================
