------------------------------ MODULE MC_Submit ------------------------------
(* Two submissions; the second may find the count of decisions where the   *)
(* first one found it, and so take the same task.                          *)
EXTENDS Submit, TLC

MCTaskIds == 0 .. 1
MCQualified == {0} \X ContractIds
MCMaxLog == [t \in MCTaskIds |-> IF t = 0 THEN 4 ELSE 2]

(* The executive gives a contract its qualified name only while no second  *)
(* submission has started; what two submissions do to each other's rows is *)
(* explored with the local name.                                           *)
IsQualified(name) == name \in TaskIds \X ContractIds
NamesApart ==
    \/ \E p \in Shells : shell[p].phase = "new"
    \/ /\ \A t \in TaskIds : \A i \in DOMAIN events[t] : ~IsQualified(events[t][i].cid)
       /\ \A p \in Shells : \A i \in DOMAIN shell[p].jobs : ~IsQualified(shell[p].jobs[i].cid)

Symmetry == Permutations(Shells)
=============================================================================
