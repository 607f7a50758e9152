------------------------------- MODULE Submit -------------------------------
(***************************************************************************)
(* cli.cmd_submit: several submissions on one database, from the choice of *)
(* a task id to the last row of what the learning loop trains on.          *)
(*                                                                         *)
(* A submission runs its task (kernel/runtime.py; here only what reaches   *)
(* the database: events, contracts, and which wakes took a decision), and  *)
(* when the run has returned it writes its decisions (kernel/decision_log) *)
(* and then one outcome per contract (record_outcomes), row by row on an   *)
(* autocommit connection.  It may stop between any two steps: killed, or   *)
(* ended by an exception.                                                  *)
(***************************************************************************)
EXTENDS Integers, Sequences, Events

CONSTANTS
    None,           \* no task id given, an event without contract
    Shells,         \* the submissions, each a process
    TaskIds,        \* t_00000, t_00001, ...
    Given,          \* the ids an operator passes as --task-id
    ContractIds,    \* the names the executive gives contracts ...
    Qualified,      \* ... and those it gives with a task in front (t_00000:c_0001)
    Lanes,          \* the lanes with an adapter (cli.build_adapters)
    VALID_LANES,    \* the lanes contracts/store.py accepts
    FLEETS,         \* the lanes the table accepts (migrations/002_lane_set.sql)
    Results,        \* what a dispatch can end in (a subset of WORKER_RESULTS)
    Notes,          \* the events of a dispatch that name no contract
    MaxEvents,      \* cmd_submit's --max-events
    MaxLog          \* per task: bound on the length of its log

ASSUME SubmitAssumption ==
    /\ None \notin ContractIds \cup Qualified
    /\ TaskIds \subseteq Nat /\ Given \subseteq TaskIds
    /\ Qualified \subseteq TaskIds \X ContractIds
    /\ VALID_LANES \subseteq FLEETS /\ Notes \subseteq EventType
    /\ MaxEvents \in Nat /\ MaxLog \in [TaskIds -> Nat]

VARIABLES
    events,     \* table events: per task its rows, the row of seq at seq + 1
    contracts,  \* table contracts: row id -> the contract stored
    decisions,  \* table decisions, in the order of their ids
    outcomes,   \* table outcomes: row id -> the outcome
    shell       \* per submission: where it is and what it holds in memory

vars == <<events, contracts, decisions, outcomes, shell>>

WORKER_RESULTS == {"worker_done", "verify_failed", "worker_failed", "worker_refused", "timeout"}

TERMINAL_EVENTS == {"worker_done", "verify_failed", "worker_failed", "worker_refused"}

Names == ContractIds \cup Qualified

(* Mutant of row_id: the executive's own name is the key.                  *)
row_id_local(task, name) == <<0, name>>

(* Idempotent: a name its own task is in front of is the key already.      *)
row_id(task, name) == IF name \in {task} \X ContractIds THEN name ELSE <<task, name>>

RowIds == TaskIds \X Names

Absent == [none |-> TRUE]

(* What a submission holds: Bus (nextSeq, waiting, processed, halted), the *)
(* dispatches the current verb still makes, TaskState.decisions as the seq *)
(* each was taken on, and how far the recording has come.                  *)
Fresh == [phase |-> "new", task |-> 0, nextSeq |-> 0, waiting |-> {}, processed |-> << >>,
          halted |-> FALSE, jobs |-> << >>, taken |-> << >>, wrote |-> 0, recorded |-> {}]

Init ==
    /\ events = [t \in TaskIds |-> << >>]
    /\ contracts = [k \in RowIds |-> Absent]
    /\ decisions = << >>
    /\ outcomes = [k \in RowIds |-> Absent]
    /\ shell = [p \in Shells |-> Fresh]

Become(p, s) == shell' = [shell EXCEPT ![p] = s]

(* The process is gone, and what it held in memory.                        *)
Die(p) == Become(p, [Fresh EXCEPT !.phase = "dead"])

LogOf(p) == events[shell[p].task]

-----------------------------------------------------------------------------
(* DecisionLog.count() names the task unless the operator does; a Bus is   *)
(* opened on it.                                                           *)
Start(p) ==
    /\ shell[p].phase = "new"
    /\ \E t \in Given \cup ({Len(decisions)} \cap TaskIds) :
        /\ Len(events[t]) < MaxLog[t]
        /\ Become(p, [Fresh EXCEPT !.phase = "open", !.task = t, !.nextSeq = Len(events[t])])
    /\ UNCHANGED <<events, contracts, decisions, outcomes>>

(* Bus.emit: s is the submission after it; lost if the log has moved.      *)
Continues(p) == shell[p].nextSeq = Len(LogOf(p))

Emitting(s) == [s EXCEPT !.nextSeq = @ + 1, !.waiting = @ \cup {s.nextSeq}]

Logging(p, type, cid, lane) ==
    events' = [events EXCEPT ![shell[p].task] =
                Append(@, [type |-> type, cid |-> cid, lane |-> lane, by |-> p])]

(* Runtime.submit.                                                         *)
Receive(p) ==
    /\ shell[p].phase = "open" /\ Continues(p)
    /\ Logging(p, "task_received", None, None)
    /\ Become(p, [Emitting(shell[p]) EXCEPT !.phase = "running"])
    /\ UNCHANGED <<contracts, decisions, outcomes>>

(* The event the bus takes next.                                           *)
TypeOf(p, e) == LogOf(p)[e + 1].type

IsNext(p, e) ==
    /\ e \in shell[p].waiting
    /\ \A f \in shell[p].waiting \ {e} :
        \/ PRIORITY[TypeOf(p, e)] < PRIORITY[TypeOf(p, f)]
        \/ PRIORITY[TypeOf(p, e)] = PRIORITY[TypeOf(p, f)] /\ e < f

Running(p) == shell[p].phase = "running" /\ shell[p].jobs = << >>

Taking(s, e) == [s EXCEPT !.waiting = @ \ {e}, !.processed = Append(@, e)]

(* One wake: the executive decides -- on one dispatch, on a race of as     *)
(* many as it likes, on a halt, or on something that leaves no trace in    *)
(* the database -- or a reflex dispatches, and no decision is taken.       *)
(* MaxLog bounds the race: what it may log must fit.                       *)
Job == [cid : Names, lane : Lanes, put : {FALSE}]

Wake(p) ==
    /\ Running(p) /\ ~shell[p].halted
    /\ Len(shell[p].processed) < MaxEvents
    /\ \E e \in shell[p].waiting :
        /\ IsNext(p, e)
        /\ LET s == Taking(shell[p], e)
               d == [s EXCEPT !.taken = Append(@, e)]
           IN  \/ \E n \in 0 .. MaxLog[s.task] - Len(LogOf(p)) : \E js \in [1 .. n -> Job] :
                    Become(p, [d EXCEPT !.jobs = js])
               \/ Become(p, [d EXCEPT !.halted = TRUE])
               \/ /\ Reflexable(TypeOf(p, e))
                  /\ Len(LogOf(p)) < MaxLog[s.task]
                  /\ \E j \in Job : Become(p, [s EXCEPT !.jobs = <<j>>])
    /\ UNCHANGED <<events, contracts, decisions, outcomes>>

(* ContractStore.put: validate refuses the contract, or INSERT OR REPLACE. *)
Put(p, j) ==
    contracts' = IF j.lane \in VALID_LANES
                 THEN [contracts EXCEPT ![row_id(shell[p].task, j.cid)] =
                        [lane |-> j.lane, by |-> p]]
                 ELSE contracts

(* A dispatch puts its contract, whatever comes of it ...                  *)
StartDispatch(p) ==
    /\ shell[p].phase = "running" /\ shell[p].jobs # << >> /\ ~Head(shell[p].jobs).put
    /\ Put(p, Head(shell[p].jobs))
    /\ Become(p, [shell[p] EXCEPT !.jobs[1].put = TRUE])
    /\ UNCHANGED <<events, decisions, outcomes>>

(* ... and ends, if the log has not moved meanwhile, in its result.  It    *)
(* may log events that name no contract, before its result (thresholds) or *)
(* in its place (a refusal); either may halt the bus.                      *)
FinishDispatch(p) ==
    /\ shell[p].phase = "running" /\ shell[p].jobs # << >> /\ Head(shell[p].jobs).put
    /\ LET j == Head(shell[p].jobs)  s == Emitting(shell[p])
       IN  \/ /\ Continues(p) /\ Len(LogOf(p)) < MaxLog[s.task]
              /\ \/ /\ \E type \in Results \cap WORKER_RESULTS : Logging(p, type, j.cid, j.lane)
                    /\ Become(p, [s EXCEPT !.jobs = Tail(@)])
                 \/ /\ \E type \in Notes : Logging(p, type, None, None)
                    /\ \E over, halts \in BOOLEAN :
                        Become(p, [s EXCEPT !.jobs = IF over THEN Tail(@) ELSE @,
                                            !.halted = @ \/ halts])
           \/ /\ ~Continues(p)
              /\ Die(p)
              /\ UNCHANGED events
    /\ UNCHANGED <<contracts, decisions, outcomes>>

(* Another submission has written to the task's log: audit.append raises,  *)
(* and so does Runtime.submit.                                             *)
ReceiveRejected(p) ==
    /\ shell[p].phase = "open" /\ ~Continues(p)
    /\ Die(p)
    /\ UNCHANGED <<events, contracts, decisions, outcomes>>

(* Runtime.run returns, or raises at the event limit: then nothing of the  *)
(* run is recorded.                                                        *)
RunEnds(p) ==
    /\ Running(p)
    /\ \/ /\ shell[p].halted \/ shell[p].waiting = {}
          /\ Become(p, [shell[p] EXCEPT !.phase = "decisions"])
       \/ /\ ~shell[p].halted /\ shell[p].waiting # {}
          /\ Len(shell[p].processed) >= MaxEvents
          /\ Die(p)
    /\ UNCHANGED <<events, contracts, decisions, outcomes>>

-----------------------------------------------------------------------------
Smaller(i, j) == IF i < j THEN i ELSE j

(* The event the i-th decision is linked to: the one numbered i, not the   *)
(* i-th processed one.                                                     *)
EventIndex(s) == Smaller(s.wrote, Len(s.processed) - 1)

(* log.record, if event_id_for finds a row; no is not in the table: it is  *)
(* which of the submission's decisions the row is.                         *)
RecordDecision(p) ==
    LET s == shell[p]  seq == EventIndex(s)
    IN  /\ s.phase = "decisions" /\ s.wrote < Len(s.taken)
        /\ decisions' =
            IF seq \in 0 .. Len(LogOf(p)) - 1
            THEN Append(decisions, [task |-> s.task, seq |-> seq, by |-> p, no |-> s.wrote])
            ELSE decisions
        /\ Become(p, [s EXCEPT !.wrote = @ + 1])
        /\ UNCHANGED <<events, contracts, outcomes>>

DecisionsRecorded(p) ==
    /\ shell[p].phase = "decisions" /\ shell[p].wrote = Len(shell[p].taken)
    /\ Become(p, [shell[p] EXCEPT !.phase = "outcomes"])
    /\ UNCHANGED <<events, contracts, decisions, outcomes>>

(* record_outcomes: where among the processed events the terminal ones of  *)
(* a row are; the names of one row are one contract.                       *)
Terminal(p, k) ==
    LET took == shell[p].processed
    IN  {i \in DOMAIN took :
            /\ TypeOf(p, took[i]) \in TERMINAL_EVENTS
            /\ row_id(shell[p].task, LogOf(p)[took[i] + 1].cid) = k}

Labelled(p) == {k \in RowIds : Terminal(p, k) # {}}

(* A dict keeps the order in which its keys came first.                    *)
IsNextContract(p, k) ==
    /\ k \notin shell[p].recorded
    /\ \E i \in Terminal(p, k) :
        \A c \in Labelled(p) \ shell[p].recorded : \A j \in Terminal(p, c) : i <= j

(* Mutant of IsOutcome: the first attempt counts.                          *)
IsOutcomeFirst(p, k, i) == i \in Terminal(p, k) /\ \A j \in Terminal(p, k) : i <= j

(* "the LAST is its outcome".                                              *)
IsOutcome(p, k, i) == i \in Terminal(p, k) /\ \A j \in Terminal(p, k) : j <= i

OutcomeAt(p, i) == [type |-> TypeOf(p, shell[p].processed[i]), by |-> p]

(* INSERT OR REPLACE under the foreign key onto contracts.                 *)
RecordOutcome(p) ==
    /\ shell[p].phase = "outcomes"
    /\ \E k \in RowIds, i \in DOMAIN shell[p].processed :
        /\ IsNextContract(p, k) /\ IsOutcome(p, k, i)
        /\ \/ /\ contracts[k] # Absent
              /\ outcomes' = [outcomes EXCEPT ![k] = OutcomeAt(p, i)]
              /\ Become(p, [shell[p] EXCEPT !.recorded = @ \cup {k}])
           \/ /\ contracts[k] = Absent      \* IntegrityError
              /\ Die(p)
              /\ UNCHANGED outcomes
    /\ UNCHANGED <<events, contracts, decisions>>

Finish(p) ==
    /\ shell[p].phase = "outcomes" /\ Labelled(p) \subseteq shell[p].recorded
    /\ Become(p, [shell[p] EXCEPT !.phase = "done"])
    /\ UNCHANGED <<events, contracts, decisions, outcomes>>

Runs(p) ==
    \/ Receive(p) \/ ReceiveRejected(p) \/ Wake(p) \/ StartDispatch(p) \/ FinishDispatch(p)
    \/ RunEnds(p)
    \/ RecordDecision(p) \/ DecisionsRecorded(p) \/ RecordOutcome(p) \/ Finish(p)

(* A process that is killed takes no further step, and one whose executive *)
(* or verb raises neither: Next does not have to take one.                 *)
Next == \E p \in Shells : Start(p) \/ Runs(p)

Spec == Init /\ [][Next]_vars

-----------------------------------------------------------------------------
LogRows ==
    [type : EventType, cid : Names \cup {None}, lane : Lanes \cup {None}, by : Shells]

Submissions ==
    [phase : {"new", "open", "running", "decisions", "outcomes", "done", "dead"},
     task : Nat, nextSeq : Nat, waiting : SUBSET Nat, processed : Seq(Nat), halted : BOOLEAN,
     jobs : Seq([cid : Names, lane : Lanes, put : BOOLEAN]),
     taken : Seq(Nat), wrote : Nat, recorded : SUBSET RowIds]

TypeOK ==
    /\ events \in [TaskIds -> Seq(LogRows)]
    /\ contracts \in [RowIds -> {Absent} \cup [lane : VALID_LANES, by : Shells]]
    /\ decisions \in Seq([task : TaskIds, seq : Nat, by : Shells, no : Nat])
    /\ outcomes \in [RowIds -> {Absent} \cup [type : TERMINAL_EVENTS, by : Shells]]
    /\ shell \in [Shells -> Submissions]

(* The contract of row k under the name an event of its task has for it:   *)
(* the one of its key, or the key itself.                                  *)
Named(k, name) ==
    \/ name = k /\ k[2] \in ContractIds
    \/ name = k[2] /\ name \notin {k[1]} \X ContractIds

(* A submission that reports success has lost nothing of what its run      *)
(* handled, whoever else used the database meanwhile: each of the          *)
(* executive's decisions has a row, and each contract of which the run     *)
(* took a terminal event has the last one it took as its outcome -- unless *)
(* a later submission on the same task has replaced it.  Nothing is said   *)
(* of what the run logged and never took: a result that was queued when    *)
(* the bus was halted, or came after that from a race, has no outcome.     *)
DecisionKept(p, no) == \E i \in DOMAIN decisions : decisions[i].by = p /\ decisions[i].no = no

Ended(p, k) ==
    {i \in DOMAIN shell[p].processed :
        LET e == shell[p].processed[i]
        IN  Named(k, LogOf(p)[e + 1].cid) /\ TypeOf(p, e) \in TERMINAL_EVENTS}

LastWordKept(p, k) ==
    Ended(p, k) # {} =>
        /\ outcomes[k] # Absent
        /\ outcomes[k].by = p =>
            \E i \in Ended(p, k) :
                /\ outcomes[k].type = TypeOf(p, shell[p].processed[i])
                /\ \A j \in Ended(p, k) : j <= i

HandledMeansRecorded ==
    \A p \in Shells : shell[p].phase = "done" =>
        /\ \A no \in 0 .. Len(shell[p].taken) - 1 : DecisionKept(p, no)
        /\ \A name \in Names : LastWordKept(p, <<shell[p].task, name>>)

(* No label without its evidence, wherever a submission dies: an outcome   *)
(* stands for a terminal event in the log of its own task, on a contract   *)
(* that is stored.                                                         *)
LabelsHaveEvidence ==
    \A k \in RowIds :
        outcomes[k] # Absent =>
            /\ contracts[k] # Absent
            /\ \E i \in DOMAIN events[k[1]] :
                /\ Named(k, events[k[1]][i].cid)
                /\ events[k[1]][i].type = outcomes[k].type
                /\ events[k[1]][i].by = outcomes[k].by

=============================================================================
