------------------------------ MODULE Runtime ------------------------------
(***************************************************************************)
(* kernel/runtime.py: one task's engine.  It composes the bus (Bus) and    *)
(* the meters (Meters) with what the runtime itself keeps: the contracts   *)
(* and their retry counts, the lanes' failure streaks, the drained lanes,  *)
(* and the reflexes of kernel/policy_runtime.py.                           *)
(*                                                                         *)
(* The executive is free: at each wake it may take any decision its schema *)
(* allows (executive/client.py), with any confidence.  So is an adapter:   *)
(* it may return any status at any cost, or raise.                         *)
(*                                                                         *)
(* A wake is one synchronous call in the code, but it is many steps here,  *)
(* because the process can be killed, and an audit write can fail, between *)
(* any two of them, and what was logged by then stays:                     *)
(*   Wake*          pop the event, find out who answers it, run the verb   *)
(*   StartDispatch  contract, drain, adapter and budget checks             *)
(*   Finish/Raise   the adapter came back; charge and classify             *)
(*   Flush          one emission (or one halt) of those the verb made      *)
(*   HandlersReturn nothing is left to do for this event                   *)
(* outbox is the list of emissions still to be made, in the code's order.  *)
(***************************************************************************)
EXTENDS Integers, Sequences, FiniteSets, Events

CONSTANTS
    None,           \* an absent parameter (Python's None)
    Lanes,          \* the lane names the executive can write
    Adapters,       \* the lanes cli.build_adapters built an adapter for
    VALID_LANES,    \* the lanes contracts/store.py accepts
    ContractIds,    \* c_0000, c_0001, ...
    Named,          \* those the executive writes in a decision
    Outcomes,       \* the outcomes of an adapter run (a subset of Status)
    Budgets,        \* the budgets an executive can put on a contract
    DefaultBudget,  \* the budget _contract_for fills in
    Costs,          \* what an adapter can report, per meter
    Verbs,          \* the verbs the executive uses
    Races,          \* the lists of lanes it races (the code takes a list of any length)
    Patches,        \* the reflexes it writes
    Verifier,       \* what the runtime was given as verifier
    HasPolicy,      \* whether it was given a PolicyRuntime
    Limit, Amounts,                     \* see Meters
    MAX_RETRIES_PER_CONTRACT, LANE_FAILURES_BEFORE_DRAIN,
    MaxEvents, MaxLog, MaxRuns          \* see Bus

ASSUME RuntimeAssumption ==
    /\ None \notin ContractIds /\ None \notin Lanes /\ None \notin Budgets
    /\ ContractIds \subseteq Nat /\ 0 \in ContractIds
    /\ Named \subseteq ContractIds
    /\ Adapters \subseteq Lanes /\ VALID_LANES \subseteq Lanes
    /\ Races \subseteq Seq(Lanes)
    /\ \A b \in Budgets : b.usd \in Nat /\ b.quota \in Nat /\ b.complete \in BOOLEAN
    /\ DefaultBudget \in Budgets
    /\ \A r \in Patches :
        r.on \in EventType \cup {None} /\ r.lane \in Lanes /\ r.cid \in ContractIds \cup {None}
    /\ Verifier \in {"none", "V1Runner", "tiered"}
    /\ HasPolicy \in BOOLEAN
    /\ MAX_RETRIES_PER_CONTRACT \in Nat
    /\ LANE_FAILURES_BEFORE_DRAIN \in Nat \ {0}

VARIABLES
    \* the bus; see Bus
    log, mode, nextSeq, queue, counter, processed, halted, n, runs, base, born,
    \* the meters; see Meters
    spent, fired, told,
    \* durable, beside the log
    payload,    \* per logged event: the payload fields the kernel reads
    store,      \* the contracts table: contract id -> lane it was stored with
    policy,     \* the reflexes; author() and save() keep the file equal to them
    \* the runtime
    contracts,  \* TaskState.contracts
    retries,    \* TaskState.retries; None is the key "" of an event without contract
    failures,   \* TaskState.consecutive_failures
    drained,    \* TaskState.drained_lanes
    awaiting,   \* whether TaskState.awaiting_human is set
    inReflex,   \* whether Runtime._in_reflex is set
    todo,       \* dispatches the verb still has to make
    flight,     \* the dispatch whose adapter is running
    outbox,     \* emissions and halts the verb still has to make
    \* recorded for the properties only
    handledBy,  \* per processed event: "reflex" or "executive"
    results     \* per lane: how its adapter runs ended

busVars == <<log, mode, nextSeq, queue, counter, processed, halted, n, runs, base, born>>
meterVars == <<spent, fired, told>>
stateVars == <<contracts, retries, failures, drained, awaiting, inReflex>>
workVars == <<todo, flight, outbox>>
ghostVars == <<handledBy, results>>
diskVars == <<payload, store, policy>>
vars == <<busVars, meterVars, stateVars, workVars, ghostVars, diskVars>>

NoFlight == [lane |-> None]

B == INSTANCE Bus WITH Emitted <- EventType
M == INSTANCE Meters WITH inFlight <- (flight # NoFlight)

ASSUME PartsAssumption ==
    /\ B!BusAssumption /\ M!MetersAssumption
    /\ Costs \subseteq [M!Meter -> Amounts]
    /\ \A b \in Budgets : b.usd \in Amounts /\ b.quota \in Amounts
    /\ None \notin M!Threshold

(* One emission still to be made; th is the threshold event charge()       *)
(* returned, halts says that bus.halt follows.                             *)
Out(type, cid) == [type |-> type, cid |-> cid, th |-> None, halts |-> FALSE]
Halting == Out("halt", None)

(* What is left to do of a verb: a dispatch (race has one per lane), or    *)
(* the call of the verifier.                                               *)
Work(d, lane) == [verb |-> d.verb, lane |-> lane, cid |-> d.cid, budget |-> d.budget]

Ids == ContractIds \cup {None}

Status == {"done", "verify_failed", "refused", "timeout", "failed"}

-----------------------------------------------------------------------------
(* Decisions: the verb, its parameters, and whether its confidence is at   *)
(* least CONFIDENCE_FLOOR.  validate looks at no parameter: those of the    *)
(* wrong kind make the verb raise (WakeUnanswered, DispatchRaises).        *)
Decision(verbs, lanes, cids, budgets, targets, patches) ==
    [verb : verbs \cap Verbs, confident : BOOLEAN, lanes : lanes, cid : cids,
     budget : budgets, target : targets, patch : patches]

Decisions ==
    UNION {
        Decision({"dispatch", "route", "retry"}, {<<l>> : l \in Lanes}, Named \cup {None},
                 Budgets \cup {None}, {None}, {None}),
        Decision({"race"}, Races, Named \cup {None}, Budgets \cup {None}, {None}, {None}),
        Decision({"escalate"}, {<< >>}, {None}, {None}, {None, "sol", "operator"}, {None}),
        Decision({"edit_policy"}, {<< >>}, {None}, {None}, {None}, Patches \cup {None}),
        Decision({"verify", "compress_ledger", "revise_plan", "request_human",
                  "checkpoint", "halt"}, {<< >>}, {None}, {None}, {None}, {None})}

(* apply_confidence_gate: the parameters are kept, no target is added.     *)
Gated(d) == ~d.confident /\ d.verb # "escalate"
ApplyConfidenceGate(d) == IF Gated(d) THEN [d EXCEPT !.verb = "escalate"] ELSE d

-----------------------------------------------------------------------------
NoneYet == [l \in Lanes |-> 0]
NoRetries == [c \in Ids |-> 0]
Unspent == [m \in M!Meter |-> 0]
Unfired == [m \in M!Meter |-> {}]
NoResults == [l \in Lanes |-> << >>]

Init ==
    /\ B!Init
    /\ spent = Unspent /\ fired = Unfired /\ told = << >>
    /\ contracts = << >> /\ retries = NoRetries /\ failures = NoneYet /\ drained = {}
    /\ awaiting = FALSE /\ inReflex = FALSE
    /\ todo = << >> /\ flight = NoFlight /\ outbox = << >>
    /\ handledBy = << >> /\ results = NoResults
    /\ payload = << >> /\ store = [c \in ContractIds |-> None]
    /\ policy \in SUBSET Patches     \* the file other tasks left behind

(* What a process leaves behind is the database and the policy file; a new *)
(* one (Runtime.__init__) starts over with all else, the meters included.  *)
StartsOver ==
    /\ spent' = Unspent /\ fired' = Unfired /\ told' = << >>
    /\ contracts' = << >> /\ retries' = NoRetries /\ failures' = NoneYet /\ drained' = {}
    /\ awaiting' = FALSE /\ inReflex' = FALSE
    /\ todo' = << >> /\ flight' = NoFlight /\ outbox' = << >>
    /\ handledBy' = << >> /\ results' = NoResults

Open ==
    /\ B!Open
    /\ StartsOver
    /\ UNCHANGED diskVars

Crash ==
    /\ B!Crash
    /\ StartsOver
    /\ UNCHANGED diskVars

(* Mutant of Record: a threshold is emitted on the bus itself, unmarked.   *)
RecordUnmarked(cid, th) ==
    payload' = Append(payload,
        [cid |-> cid, th |-> th, reflex |-> inReflex /\ th = None,
         cause |-> IF mode = "handling" THEN Len(processed) ELSE 0])

(* The caller: Runtime.submit, then possibly an operator's message.        *)
Record(cid, th) ==
    payload' = Append(payload,
        [cid |-> cid, th |-> th, reflex |-> inReflex,
         cause |-> IF mode = "handling" THEN Len(processed) ELSE 0])

Submit ==
    /\ mode = "open" /\ Len(log) = base
    /\ B!Emit("task_received") /\ Record(None, None)
    /\ UNCHANGED <<meterVars, contracts, retries, failures, drained, awaiting, inReflex,
                   workVars, ghostVars, store, policy>>

OperatorSpeaks ==
    /\ mode = "open" /\ Len(log) = base + 1
    /\ B!Emit("human_input") /\ Record(None, None)
    /\ UNCHANGED <<meterVars, stateVars, workVars, ghostVars, store, policy>>

RunStarts ==
    /\ Len(log) > base
    /\ B!RunStarts
    /\ UNCHANGED <<meterVars, stateVars, workVars, ghostVars, diskVars>>

-----------------------------------------------------------------------------
(* _wake.  The event just popped and its payload:                          *)
Taken == processed'[Len(processed')]
TakenPayload == payload[Taken.seq + 1]

(* Whether a live reflex matches depends on its TTL, on the time window and *)
(* on the task type, none of which is modelled here: a reflex whose event  *)
(* type fits may match or not.                                             *)
WakeReflex ==
    /\ HasPolicy
    /\ B!Pop
    /\ Reflexable(Taken.type)
    /\ ~TakenPayload.reflex
    /\ \E r \in policy :
        /\ r.on \in {Taken.type, None}
        /\ todo' = <<[verb |-> "dispatch", lane |-> r.lane, cid |-> r.cid, budget |-> None]>>
    /\ inReflex' = TRUE
    /\ handledBy' = Append(handledBy, "reflex")
    /\ UNCHANGED <<meterVars, contracts, retries, failures, drained, awaiting,
                   flight, outbox, results, diskVars>>

(* _verb_retry counts on the contract the decision or else the event names,*)
(* and passes the decision on to _verb_dispatch as it is.                  *)
RetryKey(d) == IF d.cid # None THEN d.cid ELSE TakenPayload.cid

Retry(d) ==
    LET c == RetryKey(d)  k == retries[c] + 1
    IN  /\ retries' = [retries EXCEPT ![c] = k]
        /\ IF k > MAX_RETRIES_PER_CONTRACT
           THEN outbox' = <<Out("policy_exception", c)>> /\ todo' = << >>
           ELSE todo' = <<Work(d, d.lanes[1])>> /\ outbox' = << >>
        /\ UNCHANGED <<awaiting, policy>>

(* escalate: only "operator" stops the task; the default target is "sol",  *)
(* which is a line in the ledger.                                          *)
Escalate(d) ==
    /\ awaiting' = (awaiting \/ d.target = "operator")
    /\ outbox' = IF d.target = "operator" THEN <<Halting>> ELSE << >>
    /\ todo' = << >>
    /\ UNCHANGED <<retries, policy>>

(* edit_policy: author() raises on a patch without an action or with a TTL *)
(* that is not positive.                                                   *)
EditPolicy(d) ==
    /\ CASE ~HasPolicy -> outbox' = <<Out("policy_exception", None)>> /\ UNCHANGED policy
         [] HasPolicy /\ d.patch = None ->
                outbox' = <<Out("decision_invalid", None)>> /\ UNCHANGED policy
         [] OTHER -> policy' = policy \cup {d.patch} /\ outbox' = << >>
    /\ todo' = << >>
    /\ UNCHANGED <<retries, awaiting>>

Stop(d) ==
    /\ awaiting' = (awaiting \/ d.verb = "request_human")
    /\ outbox' = <<Halting>>
    /\ todo' = << >>
    /\ UNCHANGED <<retries, policy>>

(* The other verbs: dispatch, route and race make dispatches, verify makes *)
(* a call; checkpoint, compress_ledger and revise_plan only write to the   *)
(* ledger and the checkpoint list, which nothing in the kernel reads.      *)
Plain(d) ==
    /\ todo' = CASE d.verb \in {"dispatch", "route", "race"} ->
                        [i \in DOMAIN d.lanes |-> Work(d, d.lanes[i])]
                 [] d.verb = "verify" -> <<Work(d, None)>>
                 [] OTHER -> << >>
    /\ outbox' = << >>
    /\ UNCHANGED <<retries, awaiting, policy>>

Execute(d) ==
    CASE d.verb = "retry" -> Retry(d)
      [] d.verb = "escalate" -> Escalate(d)
      [] d.verb = "edit_policy" -> EditPolicy(d)
      [] d.verb \in {"request_human", "halt"} -> Stop(d)
      [] OTHER -> Plain(d)

WakeExecutive ==
    /\ B!Pop
    /\ \E d \in Decisions : Execute(ApplyConfidenceGate(d))
    /\ handledBy' = Append(handledBy, "executive")
    /\ UNCHANGED <<meterVars, contracts, failures, drained, inReflex,
                   flight, results, payload, store>>

(* The executive's call raises (a transport error is not an invalid answer), *)
(* or the verb does before it has done anything (a plan or a list of lanes *)
(* that is none): the exception is on its way out of the wake.             *)
NoDecision == [verb |-> "decide", lane |-> None, cid |-> None, budget |-> None]

WakeUnanswered ==
    /\ B!Pop
    /\ todo' = <<NoDecision>>
    /\ handledBy' = Append(handledBy, "executive")
    /\ UNCHANGED <<meterVars, stateVars, flight, outbox, results, diskVars>>

-----------------------------------------------------------------------------
(* _contract_for: an id that is known -- named by the executive, or equal  *)
(* to the number of contracts so far -- means a revision.                  *)
IdFor(w) == IF w.cid # None THEN w.cid ELSE Cardinality(DOMAIN contracts)

ContractFor(w) ==
    [lane |-> w.lane,
     budget |-> CASE w.budget # None -> w.budget
                  [] w.budget = None /\ IdFor(w) \in DOMAIN contracts ->
                        contracts[IdFor(w)].budget
                  [] OTHER -> DefaultBudget]

(* ContractStore.put validates first; _contract_for notes its exception in *)
(* the ledger and goes on.                                                 *)
Valid(c) == c.lane \in VALID_LANES /\ c.budget.complete

Ready == mode = "handling" /\ outbox = << >> /\ flight = NoFlight /\ todo # << >>

StartDispatch ==
    /\ Ready /\ Head(todo).verb \notin {"verify", "decide"}
    /\ LET w == Head(todo)  id == IdFor(w)  c == ContractFor(w)
           runs_adapter == w.lane \notin drained /\ w.lane \in Adapters
       IN  /\ id \in ContractIds
           /\ contracts' = [i \in DOMAIN contracts \cup {id} |->
                                IF i = id THEN c ELSE contracts[i]]
           /\ store' = IF Valid(c) THEN [store EXCEPT ![id] = c.lane] ELSE store
           /\ \/ /\ w.lane \in drained
                 /\ outbox' = <<Out("policy_exception", id)>>
                 /\ UNCHANGED flight
              \/ /\ w.lane \notin drained /\ w.lane \notin Adapters
                 /\ outbox' = <<Out("policy_exception", None)>>
                 /\ UNCHANGED flight
              \/ /\ runs_adapter /\ ~M!Affordable(c.budget.usd, c.budget.quota)
                 /\ outbox' = <<[Out("budget_threshold", None) EXCEPT !.halts = TRUE]>>
                 /\ UNCHANGED flight
              \/ /\ runs_adapter
                 /\ flight' = [lane |-> w.lane, cid |-> id, verb |-> w.verb]
                 /\ M!Preflight(c.budget.usd, c.budget.quota)
                 /\ UNCHANGED outbox
    /\ todo' = Tail(todo)
    /\ UNCHANGED <<busVars, meterVars, retries, failures, drained, awaiting, inReflex,
                   handledBy, results, payload, policy>>

(* Mutant of ThresholdOut: only the dollar meter halts the bus.            *)
ThresholdOutHaltsOnDollars(th) ==
    [type |-> IF th.meter = "quota_units" THEN "quota_threshold" ELSE "budget_threshold",
     cid |-> None, th |-> th, halts |-> M!HardHalt(th) /\ th.meter = "tokens_usd"]

(* The adapter returned.  Emissions in the code's order: thresholds, then  *)
(* the drain notice, then the status.                                      *)
ThresholdOut(th) ==
    [type |-> IF th.meter = "quota_units" THEN "quota_threshold" ELSE "budget_threshold",
     cid |-> None, th |-> th, halts |-> M!HardHalt(th)]

StatusType(status) ==
    CASE status = "done" -> "worker_done"
      [] status = "verify_failed" -> "verify_failed"
      [] status = "refused" -> "worker_refused"
      [] status = "timeout" -> "timeout"
      [] status = "failed" -> "worker_failed"

(* Mutant of FailuresAfter: a success leaves the streak alone.             *)
FailuresInTotal(lane, status) ==
    IF status = "failed" THEN [failures EXCEPT ![lane] = @ + 1] ELSE failures

(* "verify_failed" is a worker that reported done and whose V1 failed, so  *)
(* it clears the lane's streak too; refusals and timeouts leave it alone.  *)
FailuresAfter(lane, status) ==
    CASE status \in {"done", "verify_failed"} -> [failures EXCEPT ![lane] = 0]
      [] status = "failed" -> [failures EXCEPT ![lane] = @ + 1]
      [] OTHER -> failures

Drains(lane, status) ==
    /\ status = "failed"
    /\ failures[lane] + 1 >= LANE_FAILURES_BEFORE_DRAIN
    /\ lane \notin drained

Finish(status, cost) ==
    /\ mode = "handling" /\ flight # NoFlight
    /\ LET lane == flight.lane
           ths == M!Returned(cost)
       IN  /\ outbox' = [i \in DOMAIN ths |-> ThresholdOut(ths[i])]
                          \o (IF Drains(lane, status)
                              THEN <<Out("policy_exception", None)>> ELSE << >>)
                          \o <<Out(StatusType(status), flight.cid)>>
           /\ failures' = FailuresAfter(lane, status)
           /\ drained' = IF Drains(lane, status) THEN drained \cup {lane} ELSE drained
           /\ results' = [results EXCEPT ![lane] = Append(@, status)]
    /\ flight' = NoFlight
    /\ M!Charge(cost)
    /\ UNCHANGED <<busVars, contracts, retries, awaiting, inReflex, todo,
                   handledBy, diskVars>>

(* The worktree or the adapter raised: "an adapter crash is a              *)
(* worker_failed, not ours" -- and nothing else is done about it.          *)
AdapterRaises ==
    /\ mode = "handling" /\ flight # NoFlight
    /\ outbox' = <<Out("worker_failed", flight.cid)>>
    /\ results' = [results EXCEPT ![flight.lane] = Append(@, "raised")]
    /\ flight' = NoFlight
    /\ M!Forgo
    /\ UNCHANGED <<busVars, stateVars, todo, handledBy, diskVars>>

(* verify: no verifier is a policy exception; the V1Runner that cli.py     *)
(* installs has no method run, so the call raises (see HandlerRaises); a   *)
(* verifier that has one passes or fails the artifact.                     *)
Verify ==
    /\ Ready /\ Head(todo).verb = "verify"
    /\ \/ Verifier = "none" /\ outbox' = <<Out("policy_exception", None)>>
       \/ Verifier = "tiered" /\ outbox' \in {<< >>, <<Out("verify_failed", None)>>}
    /\ todo' = Tail(todo)
    /\ UNCHANGED <<busVars, meterVars, stateVars, flight, ghostVars, diskVars>>

(* A parameter of the wrong kind raises once the contract is made: a lane  *)
(* that is no name, a budget that is no object, or holds what is no number *)
(* (then the store has taken the contract).                                *)
DispatchRaises ==
    /\ Ready /\ Head(todo).verb \notin {"verify", "decide"}
    /\ B!HandlerRaises
    /\ LET w == Head(todo)
       IN  store' \in {store} \cup
               {[store EXCEPT ![id] = lane] : id \in {IdFor(w)} \cap ContractIds,
                                                lane \in {w.lane} \cap VALID_LANES}
    /\ UNCHANGED <<meterVars, stateVars, workVars, ghostVars, payload, policy>>

(* Nothing between a verb and cli.cmd_submit catches its exception.        *)
HandlerRaises ==
    /\ Ready
    /\ Head(todo).verb = "decide" \/ (Head(todo).verb = "verify" /\ Verifier = "V1Runner")
    /\ B!HandlerRaises
    /\ UNCHANGED <<meterVars, stateVars, workVars, ghostVars, diskVars>>

(* Runtime._emit: the marker is added while a reflex is being executed.    *)
FlushEmit ==
    /\ mode = "handling" /\ outbox # << >> /\ Head(outbox).type # "halt"
    /\ B!Emit(Head(outbox).type)
    /\ Record(Head(outbox).cid, Head(outbox).th)
    /\ outbox' = IF Head(outbox).halts THEN <<Halting>> \o Tail(outbox) ELSE Tail(outbox)
    /\ UNCHANGED <<meterVars, stateVars, todo, flight, ghostVars, store, policy>>

(* Mutant of FlushHalt: the verb is left at the first hard halt.           *)
FlushHaltAndStop ==
    /\ mode = "handling" /\ outbox # << >> /\ Head(outbox).type = "halt"
    /\ IF halted THEN UNCHANGED busVars ELSE B!Halt
    /\ outbox' = << >>
    /\ UNCHANGED <<meterVars, stateVars, todo, flight, ghostVars, diskVars>>

FlushHalt ==
    /\ mode = "handling" /\ outbox # << >> /\ Head(outbox).type = "halt"
    /\ IF halted THEN UNCHANGED busVars ELSE B!Halt
    /\ outbox' = Tail(outbox)
    /\ UNCHANGED <<meterVars, stateVars, todo, flight, ghostVars, diskVars>>

(* The audit write raises: the rest of the verb's emissions are not made.  *)
EmitRaises ==
    /\ mode = "open" \/ (outbox # << >> /\ Head(outbox).type # "halt")
    /\ B!EmitRaises
    /\ UNCHANGED <<meterVars, stateVars, workVars, ghostVars, diskVars>>

HandlersReturn ==
    /\ todo = << >> /\ flight = NoFlight /\ outbox = << >>
    /\ B!HandlersReturn
    /\ inReflex' = FALSE
    /\ UNCHANGED <<meterVars, contracts, retries, failures, drained, awaiting,
                   workVars, ghostVars, diskVars>>

RunEnds ==
    /\ B!RunReturns \/ B!RunRaises
    /\ UNCHANGED <<meterVars, stateVars, workVars, ghostVars, diskVars>>

-----------------------------------------------------------------------------
AdapterReturns ==
    \/ \E status \in Outcomes \cap Status, cost \in Costs : Finish(status, cost)
    \/ AdapterRaises

Flush == FlushEmit \/ FlushHalt

Kernel ==
    \/ WakeReflex \/ WakeExecutive \/ WakeUnanswered
    \/ StartDispatch \/ DispatchRaises \/ Verify \/ HandlerRaises
    \/ Flush \/ HandlersReturn \/ RunEnds

Next ==
    \/ Open \/ Submit \/ OperatorSpeaks \/ RunStarts
    \/ Kernel \/ AdapterReturns
    \/ EmitRaises \/ Crash

Spec == Init /\ [][Next]_vars

(* The kernel's own steps follow one another in one thread, and adapters   *)
(* come back (every one of them runs its worker under a timeout).          *)
FairSpec == Spec /\ WF_vars(Kernel) /\ WF_vars(AdapterReturns)

-----------------------------------------------------------------------------
EventPayload ==
    [cid : Ids, th : M!Threshold \cup {None}, reflex : BOOLEAN, cause : Nat]

WorkItem ==
    [verb : Verbs \cup {"dispatch", "decide"}, lane : Lanes \cup {None}, cid : Ids,
     budget : Budgets \cup {None}]

OutItem ==
    [type : EventType \cup {"halt"}, cid : Ids, th : M!Threshold \cup {None}, halts : BOOLEAN]

TypeOK ==
    /\ B!TypeOK /\ M!MTypeOK
    /\ payload \in Seq(EventPayload) /\ Len(payload) = Len(log)
    /\ store \in [ContractIds -> VALID_LANES \cup {None}]
    /\ policy \subseteq Patches
    /\ DOMAIN contracts \subseteq ContractIds
    /\ \A c \in DOMAIN contracts : contracts[c] \in [lane : Lanes, budget : Budgets]
    /\ retries \in [Ids -> Nat]
    /\ failures \in [Lanes -> Nat] /\ drained \subseteq Lanes
    /\ awaiting \in BOOLEAN /\ inReflex \in BOOLEAN
    /\ todo \in Seq(WorkItem) /\ outbox \in Seq(OutItem)
    /\ handledBy \in Seq({"reflex", "executive"}) /\ Len(handledBy) = Len(processed)
    /\ results \in [Lanes -> Seq(Status \cup {"raised"})]

(* "an unsupervised control loop" cannot arise: no reflex answers an event *)
(* that a reflex brought about, however many emissions later in the same   *)
(* verb, and none answers an event the executive must always see.          *)
CausedByReflex(seq) ==
    payload[seq + 1].cause > 0 /\ handledBy[payload[seq + 1].cause] = "reflex"

ReflexesStayBetweenWakes ==
    \A i \in DOMAIN handledBy :
        handledBy[i] = "reflex" =>
            Reflexable(processed[i].type) /\ ~CausedByReflex(processed[i].seq)

(* A lane is drained exactly when its last result was a failure and with   *)
(* it LANE_FAILURES_BEFORE_DRAIN failures have come since its last         *)
(* success; in particular nothing runs on it afterwards.                   *)
FailuresSinceSuccess(rs) ==
    Cardinality({i \in DOMAIN rs :
        rs[i] = "failed" /\ \A j \in i .. Len(rs) : rs[j] \notin {"done", "verify_failed"}})

DrainedIffOutage ==
    \A l \in Lanes :
        LET rs == results[l]
        IN  /\ l \in drained <=> FailuresSinceSuccess(rs) >= LANE_FAILURES_BEFORE_DRAIN
            /\ l \in drained => rs[Len(rs)] = "failed"

(* Every threshold the meters report reaches the audit log, once and in    *)
(* the order reported, even those behind the one that halts the bus: when  *)
(* a verb has made its emissions, the k-th threshold logged is the k-th    *)
(* one reported, and there are as many.                                    *)
Logged == {i \in base + 1 .. Len(log) : payload[i].th # None}

Rank(i) == Cardinality({j \in Logged : j <= i})

ThresholdsReachTheLog ==
    B!Alive /\ outbox = << >> =>
        /\ Cardinality(Logged) = Len(told)
        /\ \A i \in Logged : payload[i].th = told[Rank(i)]

(* At 100 percent of a meter the run is over: the bus is halted before any *)
(* other event is taken from the queue, and all that still runs after a    *)
(* halt, whatever caused it, is the rest of the race under way.            *)
HardHaltStopsTheRun ==
    /\ mode = "running" /\ (\E i \in DOMAIN told : M!HardHalt(told[i])) => halted
    /\ halted /\ flight # NoFlight => flight.verb = "race"
    /\ halted => \A i \in DOMAIN todo : todo[i].verb = "race"

(* "no dispatch may follow a hard halt" (tests/test_b3_scenarios.py:185).  *)
(* A race goes on: a preflight of nothing passes at exactly the limit.     *)
NoDispatchAfterHardHalt ==
    (\E i \in DOMAIN told : M!HardHalt(told[i])) => flight = NoFlight

(* A run comes to an end, whatever the executive decides.                  *)
RunTerminates ==
    (mode \in {"running", "handling"}) ~> (mode \in {"returned", "raised", "down"})
=============================================================================
