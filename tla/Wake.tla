-------------------------------- MODULE Wake --------------------------------
(***************************************************************************)
(* One wake after another: the ledger is brought under its cap and shown,  *)
(* the executive of record is asked (executive/client, client_local), a    *)
(* candidate is asked in parallel (executive/shadow), and the verb leaves  *)
(* its marks in the ledger (executive/ledger, kernel/runtime).             *)
(*                                                                         *)
(* What the models answer is free, and so is what comes of a verb.  Of the *)
(* ledger only the number of entries in each section is kept; an entry     *)
(* counts for one token.  Which event wakes, and reflexes, are in Runtime. *)
(***************************************************************************)
EXTENDS Integers, Sequences, FiniteSets

CONSTANTS
    NoVerb,
    Verbs,              \* what the executive of record answers
    CandidateVerbs,     \* what the candidate answers
    MAX_INVALID_ATTEMPTS,
    TOKEN_CAP, Goal,    \* the cap, and what of it the goal takes
    RECENT_OUTCOMES_KEPT,
    CompactOutcomes, CompactPlan, CompactQuestions,     \* what compress() leaves
    PlanLengths,        \* bound on the plans submitted and revised
    MinEvents, Bar,     \* of promotable(); the bar in percent
    MaxWakes            \* bound on the number of wakes

AllVerbs ==
    {"dispatch", "route", "retry", "race", "verify", "escalate", "compress_ledger",
     "revise_plan", "edit_policy", "request_human", "checkpoint", "halt"}
ROUTINE_VERBS == {"dispatch", "retry", "verify", "route", "checkpoint"}
GATE_VERBS == {"edit_policy", "escalate", "request_human", "halt"}

ASSUME WakeAssumption ==
    /\ Verbs \subseteq AllVerbs /\ CandidateVerbs \subseteq AllVerbs
    /\ MAX_INVALID_ATTEMPTS \in Nat \ {0}
    /\ {TOKEN_CAP, Goal, RECENT_OUTCOMES_KEPT, CompactOutcomes, CompactPlan,
        CompactQuestions, MinEvents, Bar, MaxWakes} \subseteq Nat
    /\ PlanLengths \subseteq Nat

VARIABLES
    ledger,     \* entries per section, and the keys of its state
    phase,      \* "idle", "record" or "candidate" (is asked), "acting", "over"
    attempt,    \* which attempt of the one who is asked
    decision,   \* what the executive of record decided: a verb, or NoVerb
    agreement,  \* counts of the shadow
    wakes,      \* number of wakes begun
    heard,      \* recorded: what the executive of record answered in this wake
    compared    \* recorded: the pairs of verbs decided side by side

wakeVars == <<ledger, phase, attempt, decision, agreement, wakes, heard, compared>>

Transient == {"_last_compression", "_forced_compression", "_contract_rejected"}
Keys == {"last_route", "plan_revised", "escalation", "lane_drained"} \cup Transient

WInit ==
    /\ \E n \in PlanLengths :
        ledger = [plan |-> n, outcomes |-> 0, questions |-> 0, state |-> {}]
    /\ phase = "idle" /\ attempt = 0 /\ decision = NoVerb /\ wakes = 0
    /\ agreement = [total |-> 0, agreed |-> 0, routine_total |-> 0, routine_agreed |-> 0,
                    gate_divergences |-> 0, disagreements |-> 0]
    /\ heard = << >> /\ compared = << >>
-----------------------------------------------------------------------------
Tokens(l) == Goal + l.plan + l.outcomes + l.questions + Cardinality(l.state)
OverCap(l) == Tokens(l) > TOKEN_CAP

AtMost(n, limit) == IF n > limit THEN limit ELSE n

(* Mutant of compress: what is transient stays.                            *)
compress_keeping(l) ==
    [l EXCEPT !.outcomes = AtMost(@, CompactOutcomes), !.plan = AtMost(@, CompactPlan),
              !.state = @ \cup {"_last_compression"}]

(* Ledger.compress: questions are dropped only if the rest is not enough,  *)
(* and the note on what was dropped is an entry itself.                    *)
compress(l) ==
    LET first == [l EXCEPT !.outcomes = AtMost(@, CompactOutcomes),
                           !.plan = AtMost(@, CompactPlan), !.state = @ \ Transient]
    IN  [first EXCEPT !.questions = IF OverCap(first) THEN AtMost(@, CompactQuestions) ELSE @,
                      !.state = @ \cup {"_last_compression"}]

(* The wake begins: over the cap, the ledger is compressed before anyone   *)
(* is asked.                                                               *)
Begin ==
    /\ phase = "idle" /\ wakes < MaxWakes
    /\ ledger' = IF OverCap(ledger)
                 THEN [compress(ledger) EXCEPT !.state = @ \cup {"_forced_compression"}]
                 ELSE ledger
    /\ phase' = "record" /\ attempt' = 1 /\ decision' = NoVerb
    /\ wakes' = wakes + 1 /\ heard' = << >>
    /\ UNCHANGED <<agreement, compared>>
-----------------------------------------------------------------------------
(* One answer: a valid decision, sure enough or not; an invalid one; or an *)
(* exception that is neither of the two decide() handles: the request      *)
(* failed, or the answer is JSON but not an object.                        *)
Valid(verbs) == [verb : verbs, confident : BOOLEAN]
Invalid == [verb |-> "invalid", confident |-> FALSE]
Raises == [verb |-> "raises", confident |-> FALSE]

apply_confidence_gate(a) == IF a.confident THEN a.verb ELSE "escalate"

(* Mutant of Again: until the answer is valid.                             *)
AgainUntilValid(a) == a = Invalid

(* decide() asks again after an invalid answer, up to a limit, ...         *)
Again(a) == a = Invalid /\ attempt < MAX_INVALID_ATTEMPTS

(* ... and at the limit it decides to escalate.                            *)
Decided(a) == IF a = Invalid THEN "escalate" ELSE apply_confidence_gate(a)

(* The executive of record answers.  What decide() raises ends the run.    *)
RecordAnswers ==
    /\ phase = "record"
    /\ \E a \in Valid(Verbs) \cup {Invalid, Raises} :
        /\ heard' = Append(heard, a)
        /\ \/ a = Raises /\ phase' = "over" /\ UNCHANGED <<attempt, decision>>
           \/ Again(a) /\ attempt' = attempt + 1 /\ UNCHANGED <<phase, decision>>
           \/ /\ a # Raises /\ ~Again(a)
              /\ phase' = "candidate" /\ attempt' = 1 /\ decision' = Decided(a)
    /\ UNCHANGED <<ledger, agreement, wakes, compared>>

Count(b) == IF b THEN 1 ELSE 0

(* Mutant of Observed: events are routine if the candidate thinks so.      *)
ObservedByShadow(real, shadow) ==
    [agreement EXCEPT
        !.total = @ + 1, !.agreed = @ + Count(shadow = real),
        !.routine_total = @ + Count(shadow \in ROUTINE_VERBS),
        !.routine_agreed = @ + Count(shadow \in ROUTINE_VERBS /\ shadow = real),
        !.disagreements = @ + Count(shadow # real),
        !.gate_divergences = @ + Count(shadow # real /\ shadow \in GATE_VERBS)]

(* The shadow's books after two decisions on one event.                    *)
Observed(real, shadow) ==
    [agreement EXCEPT
        !.total = @ + 1, !.agreed = @ + Count(shadow = real),
        !.routine_total = @ + Count(real \in ROUTINE_VERBS),
        !.routine_agreed = @ + Count(real \in ROUTINE_VERBS /\ shadow = real),
        !.disagreements = @ + Count(shadow # real),
        !.gate_divergences = @ + Count(shadow # real /\ {real, shadow} \cap GATE_VERBS # {})]

(* The candidate answers the same; what it raises is only noted.           *)
CandidateAnswers ==
    /\ phase = "candidate"
    /\ \E a \in Valid(CandidateVerbs) \cup {Invalid, Raises} :
        \/ /\ a = Raises
           /\ agreement' = [agreement EXCEPT !.disagreements = @ + 1]
           /\ phase' = "acting" /\ UNCHANGED <<attempt, compared>>
        \/ Again(a) /\ attempt' = attempt + 1 /\ UNCHANGED <<phase, agreement, compared>>
        \/ /\ a # Raises /\ ~Again(a)
           /\ agreement' = Observed(decision, Decided(a))
           /\ compared' = Append(compared, [real |-> decision, shadow |-> Decided(a)])
           /\ phase' = "acting" /\ UNCHANGED attempt
    /\ UNCHANGED <<ledger, decision, wakes, heard>>
-----------------------------------------------------------------------------
record_outcome(l, n) == [l EXCEPT !.outcomes = AtMost(@ + n, RECENT_OUTCOMES_KEPT)]
Marked(l, keys) == [l EXCEPT !.state = @ \cup keys]

(* What a verb may leave in the ledger.                                    *)
Dispatched(l, lanes) ==
    {Marked(record_outcome(l, n), keys) :
        n \in 0 .. lanes, keys \in SUBSET {"lane_drained", "_contract_rejected"}}

Effects(verb, l) ==
    CASE verb \in {"dispatch", "retry"} -> Dispatched(l, 1)
      [] verb = "route" -> Dispatched(Marked(l, {"last_route"}), 1)
      [] verb = "race" -> Dispatched(l, 2)
      [] verb \in {"verify", "edit_policy"} -> {l, record_outcome(l, 1)}
      [] verb = "escalate" -> {Marked(l, {"escalation"})}
      [] verb = "compress_ledger" -> {record_outcome(compress(l), 1)}
      [] verb = "revise_plan" ->
            {Marked([l EXCEPT !.plan = n], {"plan_revised"}) : n \in PlanLengths \cup {l.plan}}
      [] verb = "request_human" -> {[l EXCEPT !.questions = @ + 1]}
      [] OTHER -> {l}

(* Verbs that always halt the bus, and those that may: an escalation to    *)
(* the operator, a dispatch the budget ends.                               *)
Halting == {"halt", "request_human"}
MayHalt == Halting \cup {"escalate", "dispatch", "retry", "route", "race"}

Act ==
    /\ phase = "acting"
    /\ ledger' \in Effects(decision, ledger)
    /\ \/ decision \notin Halting /\ phase' = "idle"
       \/ decision \in MayHalt /\ phase' = "over"
    /\ UNCHANGED <<attempt, decision, agreement, wakes, heard, compared>>

WNext == Begin \/ RecordAnswers \/ CandidateAnswers \/ Act

WSpec == WInit /\ [][WNext]_wakeVars
-----------------------------------------------------------------------------
WTypeOK ==
    /\ ledger \in [plan : Nat, outcomes : Nat, questions : Nat, state : SUBSET Keys]
    /\ phase \in {"idle", "record", "candidate", "acting", "over"}
    /\ attempt \in 0 .. MAX_INVALID_ATTEMPTS
    /\ decision \in AllVerbs \cup {NoVerb}
    /\ agreement \in [total : Nat, agreed : Nat, routine_total : Nat, routine_agreed : Nat,
                      gate_divergences : Nat, disagreements : Nat]
    /\ wakes \in 0 .. MaxWakes
    /\ heard \in Seq(Valid(Verbs) \cup {Invalid, Raises})
    /\ compared \in Seq([real : AllVerbs, shadow : AllVerbs])

(* Agreement.promotable.                                                   *)
promotable ==
    /\ agreement.routine_total >= MinEvents
    /\ agreement.gate_divergences = 0
    /\ 100 * agreement.routine_agreed >= Bar * agreement.routine_total

(* "Crossing it forces compression before any other verb": what the        *)
(* executive is shown is under the cap, or there is nothing left that      *)
(* compression drops, whatever verbs filled the ledger.                    *)
ShownCompressed ==
    phase = "record" =>
        \/ ~OverCap(ledger)
        \/ /\ ledger.outcomes <= CompactOutcomes /\ ledger.plan <= CompactPlan
           /\ "_contract_rejected" \notin ledger.state

(* What is acted on is the last answer of the executive of record, if it   *)
(* was sure; otherwise, and after as many invalid answers as are allowed,  *)
(* an escalation.  It is not asked again after that, nor after an answer   *)
(* that was valid, and the candidate never acts.                           *)
ActsOnTheRecord ==
    phase \in {"candidate", "acting"} =>
        LET last == heard[Len(heard)]
            invalid == {i \in DOMAIN heard : heard[i] = Invalid}
        IN  /\ decision = IF last.confident THEN last.verb ELSE "escalate"
            /\ Raises # last /\ Len(heard) <= MAX_INVALID_ATTEMPTS
            /\ invalid = IF last = Invalid THEN 1 .. MAX_INVALID_ATTEMPTS
                         ELSE 1 .. Len(heard) - 1

(* Which of the recorded pairs are such.                                   *)
Routine == {i \in DOMAIN compared : compared[i].real \in ROUTINE_VERBS}
Differing == {i \in DOMAIN compared : compared[i].shadow # compared[i].real}
AtAGate == {i \in DOMAIN compared : {compared[i].real, compared[i].shadow} \cap GATE_VERBS # {}}

(* A candidate that can be promoted has decided as the executive of record *)
(* in the required share of enough routine events, and has never differed  *)
(* where either of the two would pass a gate.                              *)
PromotionEarned ==
    promotable =>
        /\ Cardinality(Routine) >= MinEvents
        /\ 100 * Cardinality(Routine \cap Differing) <= (100 - Bar) * Cardinality(Routine)
        /\ Differing \cap AtAGate = {}
=============================================================================
