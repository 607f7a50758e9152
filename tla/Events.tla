------------------------------- MODULE Events -------------------------------
(***************************************************************************)
(* The vocabulary of kernel/events.py: the event types, the priority each  *)
(* has in the bus queue (lower is popped first), and the types no reflex   *)
(* may answer.                                                             *)
(***************************************************************************)
EXTENDS Naturals

EventType ==
    {"task_received", "worker_done", "worker_failed", "worker_refused",
     "verify_failed", "budget_threshold", "quota_threshold", "timeout",
     "policy_exception", "human_input", "decision_invalid"}

NEVER_REFLEXABLE ==
    {"human_input", "decision_invalid", "policy_exception", "budget_threshold"}

PRIORITY ==
    [t \in EventType |->
        CASE t = "human_input" -> 0
          [] t \in {"budget_threshold", "quota_threshold"} -> 1
          [] t = "decision_invalid" -> 2
          [] t \in {"worker_refused", "worker_failed", "verify_failed", "timeout"} -> 3
          [] t \in {"worker_done", "policy_exception"} -> 4
          [] t = "task_received" -> 5]

Reflexable(t) == t \notin NEVER_REFLEXABLE
=============================================================================
