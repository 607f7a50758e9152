------------------------------ MODULE MC_Parts ------------------------------
(* The two parts of the runtime, each by itself: a behaviour is one of the *)
(* bus or one of the meters.  The bus has event types of three priorities, *)
(* two of them equally urgent, and two processes one after the other on    *)
(* the same task.  The meters have limits on which 60, 85 and 100 percent  *)
(* fall between, on, and beside the amounts: 85% of 10 is no amount, 60%   *)
(* of 5 is one, and a meter of 1 crosses all three thresholds in one step. *)
EXTENDS Bus, Meters

MCEmitted == {"human_input", "worker_failed", "timeout", "worker_done"}
MCLimit == [m \in Meter |-> CASE m = "tokens_usd" -> 10
                              [] m = "quota_units" -> 5
                              [] m = "wall_s" -> 1]
MCAmounts == {0, 1, 3, 12}

(* Spending is cut off where nothing new can happen to a meter without a   *)
(* guard; the guarded ones stop by themselves.                             *)
WallBounded == spent["wall_s"] <= 4 /\ \A m \in Guarded : spent[m] <= 24

VARIABLE part

PartsInit == Init /\ MInit /\ part \in {"bus", "meters"}
PartsNext ==
    \/ part = "bus" /\ Next /\ UNCHANGED <<metersVars, part>>
    \/ part = "meters" /\ MNext /\ UNCHANGED <<vars, part>>
PartsSpec == PartsInit /\ [][PartsNext]_<<vars, metersVars, part>>
=============================================================================
