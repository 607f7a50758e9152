---------------------------- MODULE EventHistory ----------------------------
(***************************************************************************)
(* What the audit log promises its readers (replay, verify_chain, the      *)
(* outcome recorder): one history per task that only ever grows, one event *)
(* at a time, whoever is writing.                                          *)
(***************************************************************************)
EXTENDS Sequences

CONSTANT Bodies

VARIABLE history

Init == history = << >>

Record(b) == history' = Append(history, b)

Next == \E b \in Bodies : Record(b)

Spec == Init /\ [][Next]_history
=============================================================================
