---------------------------- MODULE MC_Executive ----------------------------
(* Who answers an event, and how the executive does: a behaviour is one of *)
(* the policy file or one of the wakes, each by itself.                    *)
(* The policy has two processes on tasks of two types, a day of two hours, *)
(* and reflexes of one day's life: one for hour 0 of one type of task, one *)
(* from hour 1 over midnight in a zone, one in a zone nobody knows, one    *)
(* with a ttl of zero.  By hand comes a rule under the developer's own     *)
(* name, or under the executive's and dated ahead.  The wakes have a verb  *)
(* of each kind: routine, gated, neither; two that fill the ledger.        *)
EXTENDS PolicyStore, Wake, TLC

Patch(on, task, window, ttl) ==
    [on |-> on, task |-> task, window |-> window, ttl |-> ttl, acts |-> TRUE]
Window(start, end, zone) == [start |-> start, end |-> end, zone |-> zone]
RoutineAtZero == Patch(None, "routine", Window(0, 1, 0), 1)
MCPatches ==
    {RoutineAtZero, Patch("worker_done", None, Window(1, 0, 1), 1),
     Patch(None, None, Window(0, 1, None), 1), Patch(None, None, None, 0)}

Edit(author, created) == [patch |-> RoutineAtZero, author |-> author, created |-> created]
MCEdits == {Edit("developer", 0), Edit("executive", 1)}
MCTypes == {"worker_done", "human_input"}
MCTaskTypes == {"routine", "research"}

MCVerbs == {"dispatch", "revise_plan", "compress_ledger", "request_human"}
MCCandidateVerbs == {"dispatch", "revise_plan", "request_human"}
MCPlanLengths == {2, 5}

(* A rule forged in the executive's name meets at most one of its own: the *)
(* two that MaxAuthored allows are written where nobody forges.            *)
Forged(rs) == \E r \in Elements(rs) : r.no = 0 /\ r.author = "executive"
ForgedMeetsOne ==
    \/ Len(wrote) <= 1
    \/ /\ file = Garbled \/ ~Forged(file)
       /\ \A p \in Processes : ~Forged(proc[p].reflexes)

Symmetry == Permutations(Processes)

VARIABLE part

(* Where the policy is explored, the ledger that stays idle is one of them. *)
ExecutiveInit ==
    /\ Init /\ WInit /\ part \in {"policy", "wakes"}
    /\ part = "policy" => ledger.plan = 2
ExecutiveNext ==
    \/ part = "policy" /\ Next /\ UNCHANGED <<wakeVars, part>>
    \/ part = "wakes" /\ WNext /\ UNCHANGED <<vars, part>>
ExecutiveSpec == ExecutiveInit /\ [][ExecutiveNext]_<<vars, wakeVars, part>>
=============================================================================
