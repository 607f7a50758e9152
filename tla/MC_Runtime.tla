----------------------------- MODULE MC_Runtime -----------------------------
(* Small instances of the runtime.  Each cfg gives the executive the verbs *)
(* of one subject; all (MC_Runtime_all) has all of them.                   *)
EXTENDS Runtime

(* Budgets: the default, and one that estimates nothing.                   *)
Standard == [usd |-> 1, quota |-> 1, complete |-> TRUE]
Free == [usd |-> 0, quota |-> 0, complete |-> TRUE]
JustStandard == {Standard}
TwoBudgets == {Standard, Free}

MeterNames == {"tokens_usd", "quota_units", "wall_s"}

Cost(usd, quota) ==
    [m \in MeterNames |-> CASE m = "tokens_usd" -> usd [] m = "quota_units" -> quota [] OTHER -> 0]
NoCost == {Cost(0, 0)}
SomeCosts == {Cost(1, 0), Cost(1, 4), Cost(3, 0), Cost(0, 2)}
MCAmounts == 0 .. 5

(* 60, 85 and 100 percent of 3 are crossed by steps of their own or all at *)
(* once; quota reaches 60 percent and 100 percent of 3.                    *)
MCLimit == [m \in MeterNames |-> IF m = "wall_s" THEN 0 ELSE 3]
Ample == [m \in MeterNames |-> IF m = "wall_s" THEN 0 ELSE 100]

AllVerbs == {"dispatch", "route", "retry", "race", "verify", "escalate", "compress_ledger",
             "revise_plan", "edit_policy", "request_human", "checkpoint", "halt"}

(* Races of up to three lanes.                                             *)
BudgetRaces == UNION {[1 .. k -> {"WR", "W1"}] : k \in 0 .. 3}
AllRaces == {<< >>, <<"W3", "WR">>, <<"WR", "WR", "WR">>}
PairOfLanes == {<<"WR", "WR">>}

OnAny == [on |-> None, lane |-> "WR", cid |-> 0]
NoPatch == {}
OnePatch == {OnAny}
JustDone == {"done"}
Fails == {"done", "failed", "timeout"}
=============================================================================
