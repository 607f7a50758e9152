--------------------------- MODULE Runtime_proofs ---------------------------
(***************************************************************************)
(* The runtime for every executive, adapter, budget and policy, and for    *)
(* any number of events, processes and retries: proofs.                    *)
(*                                                                         *)
(* IInv, below, is inductive together with the invariant of the bus: each  *)
(* step of the runtime is one of the bus (BusStep), so what Parts_proofs   *)
(* shows of the steps of the bus holds here, for events of every type; and *)
(* so for the meters (MetersStep).                                         *)
(***************************************************************************)
EXTENDS Runtime, SequenceTheorems, FiniteSetTheorems, TLAPS

PP == INSTANCE Parts_proofs WITH Emitted <- EventType, inFlight <- (flight # NoFlight)

(* A dispatch whose adapter runs; the verb waits for it.                   *)
Flights == [lane : Lanes, cid : ContractIds, verb : Verbs \cup {"dispatch"}]

FlightOK ==
    flight # NoFlight => flight \in Flights /\ flight.lane \notin drained /\ outbox = << >>

(* Between wakes nothing is left to do of a verb.                          *)
DoneBetweenWakes ==
    mode \notin {"handling", "raised"} => todo = << >> /\ outbox = << >> /\ flight = NoFlight

(* A verb has one thing to do, a race one per lane.  Once it has begun, or *)
(* the bus is halted, what is left is the rest of a race.                  *)
RaceLeft == \A i \in DOMAIN todo : todo[i].verb = "race"

WorkOK ==
    /\ \A i \in DOMAIN todo : todo[i].verb \notin {"verify", "decide"} => todo[i].lane \in Lanes
    /\ Len(todo) <= 1 \/ RaceLeft
    /\ halted \/ outbox # << >> \/ flight # NoFlight => RaceLeft
    /\ halted /\ flight # NoFlight => flight.verb = "race"

(* A meter is used up: the bus is halted, or about to be.                  *)
HaltsTheBus(o) == o.halts \/ o.type = "halt"

HaltComes ==
    (\E i \in DOMAIN told : M!HardHalt(told[i])) =>
        halted \/ \E i \in DOMAIN outbox : HaltsTheBus(outbox[i])

(* Events that this process logged carry the marker if a reflex was being  *)
(* executed.                                                               *)
MarkedIn(s) ==
    LET c == payload[s + 1].cause
    IN  c <= Len(handledBy) /\ (c > 0 /\ handledBy[c] = "reflex" => payload[s + 1].reflex)

ReflexesMarked ==
    /\ mode = "handling" /\ handledBy[Len(handledBy)] = "reflex" => inReflex
    /\ mode # "down" => \A s \in base .. Len(log) - 1 : MarkedIn(s)

(* A lane's counter is what its results say, and a drained lane is at rest.*)
StreaksCounted ==
    \A l \in Lanes :
        LET rs == results[l]
        IN  /\ failures[l] = FailuresSinceSuccess(rs)
            /\ l \in drained <=> failures[l] >= LANE_FAILURES_BEFORE_DRAIN
            /\ l \in drained => rs # << >> /\ rs[Len(rs)] = "failed"

(* The thresholds reported are those logged and then those in the outbox,  *)
(* which may begin with the halt that follows the last one logged.         *)
Waiting(h) ==
    LET k == Cardinality(Logged)
    IN  /\ h + Len(told) - k <= Len(outbox)
        /\ \A i \in DOMAIN outbox :
            /\ i <= h => outbox[i].type = "halt"
            /\ outbox[i].th = IF i - h \in 1 .. Len(told) - k THEN told[k + i - h] ELSE None

ThresholdsKept ==
    B!Alive =>
        /\ Cardinality(Logged) <= Len(told)
        /\ \A i \in Logged : payload[i].th = told[Rank(i)]
        /\ \E h \in {0, 1} : Waiting(h)

HaltsAreBare == \A i \in DOMAIN outbox : outbox[i].type = "halt" => outbox[i].th = None

IInv ==
    /\ TypeOK /\ FlightOK /\ DoneBetweenWakes /\ WorkOK
    /\ HaltComes /\ ReflexesMarked /\ ReflexesStayBetweenWakes
    /\ StreaksCounted /\ ThresholdsKept /\ HaltsAreBare
    /\ PP!IInv

-----------------------------------------------------------------------------
(* Parts_proofs speaks of the same bus ...                                 *)
LEMMA SameBus ==
  /\ PP!EventType = EventType /\ B!EventType = EventType
  /\ PP!TypeOK <=> B!TypeOK
  /\ PP!Alive <=> B!Alive
  /\ PP!Init <=> B!Init
  /\ PP!vars = B!vars
  /\ PP!Next <=> B!Next
<1>1. PP!EventType = EventType /\ B!EventType = EventType
  BY DEF PP!EventType, B!EventType, EventType
<1>2. PP!TypeOK <=> B!TypeOK
  BY <1>1 DEF PP!TypeOK, B!TypeOK, PP!Modes, B!Modes, PP!Queued, B!Queued
<1>3. /\ PP!Alive <=> B!Alive
      /\ PP!Init <=> B!Init
      /\ PP!vars = B!vars
  BY DEF PP!Alive, B!Alive, PP!Init, B!Init, PP!vars, B!vars
<1>4. PP!Next <=> B!Next
  <2>1. PP!Open <=> B!Open
    BY DEF PP!Open, B!Open, PP!durable, B!durable
  <2>2. ASSUME NEW t PROVE PP!Emit(t) <=> B!Emit(t)
    <3>1. PP!PRIORITY = B!PRIORITY
      BY DEF PP!PRIORITY, B!PRIORITY, PP!EventType, B!EventType
    <3> QED  BY <3>1 DEF PP!Emit, B!Emit
  <2>3. PP!Pop <=> B!Pop
    BY DEF PP!Pop, B!Pop, PP!Before, B!Before
  <2>4. /\ PP!RunStarts <=> B!RunStarts
        /\ PP!HandlersReturn <=> B!HandlersReturn
        /\ PP!RunReturns <=> B!RunReturns
        /\ PP!RunRaises <=> B!RunRaises
    BY DEF PP!RunStarts, B!RunStarts, PP!HandlersReturn, B!HandlersReturn,
           PP!RunReturns, B!RunReturns, PP!RunRaises, B!RunRaises
  <2>5. /\ PP!Halt <=> B!Halt
        /\ PP!EmitRaises <=> B!EmitRaises
        /\ PP!HandlerRaises <=> B!HandlerRaises
        /\ PP!Crash <=> B!Crash
    BY DEF PP!Halt, B!Halt, PP!EmitRaises, B!EmitRaises,
           PP!HandlerRaises, B!HandlerRaises, PP!Crash, B!Crash
  <2> QED  BY <2>1, <2>2, <2>3, <2>4, <2>5 DEF PP!Next, B!Next
<1> QED  BY <1>1, <1>2, <1>3, <1>4

(* ... and of the same meters.                                             *)
LEMMA SameMeters ==
  /\ PP!Meter = M!Meter /\ PP!metersVars = M!metersVars
  /\ PP!MInit <=> M!MInit
  /\ PP!MNext <=> M!MNext
  /\ PP!FiredIffReached <=> M!FiredIffReached
  /\ PP!ToldOnceAscending <=> M!ToldOnceAscending
  /\ PP!OverrunBounded <=> M!OverrunBounded
<1>1. PP!Meter = M!Meter /\ PP!Guarded = M!Guarded /\ PP!THRESHOLDS = M!THRESHOLDS
      /\ PP!metersVars = M!metersVars
  BY DEF PP!Meter, M!Meter, PP!Guarded, M!Guarded, PP!THRESHOLDS, M!THRESHOLDS,
         PP!metersVars, M!metersVars
<1>2. PP!MInit <=> M!MInit
  BY <1>1 DEF PP!MInit, M!MInit
<1>3. PP!MNext <=> M!MNext
  <2>1. ASSUME NEW m, NEW amount PROVE PP!Crossings(m, amount) = M!Crossings(m, amount)
    BY <1>1 DEF PP!Crossings, M!Crossings
  <2>2. ASSUME NEW cost PROVE PP!Returned(cost) = M!Returned(cost)
    <3>1. ASSUME NEW m, NEW amount, NEW t PROVE PP!Notice(m, amount, t) = M!Notice(m, amount, t)
      BY <2>1 DEF PP!Notice, M!Notice
    <3>2. ASSUME NEW m, NEW amount PROVE PP!Crossed(m, amount) = M!Crossed(m, amount)
      BY <3>1 DEF PP!Crossed, M!Crossed
    <3> QED  BY <3>2 DEF PP!Returned, M!Returned
  <2>3. ASSUME NEW cost PROVE PP!Charge(cost) <=> M!Charge(cost)
    BY <1>1, <2>1, <2>2 DEF PP!Charge, M!Charge
  <2>4. ASSUME NEW usd, NEW quota PROVE PP!Preflight(usd, quota) <=> M!Preflight(usd, quota)
    BY DEF PP!Preflight, M!Preflight, PP!Affordable, M!Affordable, PP!WouldExceed, M!WouldExceed
  <2>5. PP!Forgo <=> M!Forgo
    BY DEF PP!Forgo, M!Forgo
  <2> QED  BY <1>1, <2>3, <2>4, <2>5 DEF PP!MNext, M!MNext
<1>4. /\ PP!FiredIffReached <=> M!FiredIffReached
      /\ PP!ToldOnceAscending <=> M!ToldOnceAscending
      /\ PP!OverrunBounded <=> M!OverrunBounded
  BY <1>1 DEF PP!FiredIffReached, M!FiredIffReached, PP!ToldOnceAscending, M!ToldOnceAscending,
              PP!OverrunBounded, M!OverrunBounded
<1> QED  BY <1>1, <1>2, <1>3, <1>4

LEMMA PartsHold == PP!BusAssumption /\ PP!MetersAssumption
BY PartsAssumption DEF B!BusAssumption, PP!BusAssumption, PP!EventType, B!EventType,
                       M!MetersAssumption, PP!MetersAssumption, PP!Meter, M!Meter

(* The invariant of the bus is kept by its steps.                          *)
LEMMA BusKept ==
  ASSUME PP!IInv, [B!Next]_(B!vars)
  PROVE  PP!IInv' /\ B!TypeOK'
<1>1. [PP!Next]_(PP!vars) /\ PP!TypeOK
  BY SameBus DEF PP!IInv, PP!vars, B!vars
<1>2. PP!TypeOK'
  BY <1>1, PartsHold, PP!TypeNext
<1>3. PP!IInv'
  BY <1>1, <1>2, PartsHold, PP!IInvNext
<1>4. PP!TypeOK' <=> B!TypeOK'
  BY DEF PP!TypeOK, B!TypeOK, PP!Modes, B!Modes, PP!Queued, B!Queued, PP!EventType, B!EventType
<1> QED  BY <1>2, <1>3, <1>4

LEMMA HeadIsOut ==
  ASSUME TypeOK, outbox # << >>
  PROVE  /\ Head(outbox) \in OutItem /\ Head(outbox) = outbox[1]
         /\ Tail(outbox) \in Seq(OutItem) /\ Len(Tail(outbox)) = Len(outbox) - 1
         /\ \A i \in 1 .. Len(outbox) - 1 : Tail(outbox)[i] = outbox[i + 1]
BY HeadTailProperties DEF TypeOK

(* Whatever the runtime does is a step of the bus, or none of its steps.   *)
LEMMA BusStep ==
  ASSUME TypeOK, [Next]_vars
  PROVE  [B!Next]_(B!vars)
<1>0. busVars = B!vars
  BY DEF busVars, B!vars
<1>1. CASE UNCHANGED busVars
  BY <1>1 DEF busVars, B!vars
<1>2. ASSUME NEW t \in EventType, B!Emit(t) PROVE B!Next
  BY <1>2 DEF B!Next
<1>3. CASE Submit \/ OperatorSpeaks
  BY <1>2, <1>3 DEF Submit, OperatorSpeaks, EventType
<1>4. CASE WakeReflex \/ WakeExecutive \/ WakeUnanswered
  BY <1>4 DEF WakeReflex, WakeExecutive, WakeUnanswered, B!Next
<1>5. CASE FlushEmit
  <2>1. Head(outbox).type \in EventType
    BY <1>5, HeadIsOut DEF FlushEmit, OutItem
  <2> QED  BY <1>2, <1>5, <2>1 DEF FlushEmit
<1>6. CASE FlushHalt
  BY <1>1, <1>6 DEF FlushHalt, B!Next
<1>7. CASE StartDispatch \/ AdapterReturns \/ Verify
  BY <1>1, <1>7 DEF StartDispatch, AdapterReturns, Finish, AdapterRaises, Verify
<1>8. CASE Open \/ Crash \/ RunStarts
  BY <1>8 DEF Open, Crash, RunStarts, B!Next
<1>9. CASE HandlerRaises \/ DispatchRaises \/ HandlersReturn \/ RunEnds \/ EmitRaises
  BY <1>9 DEF HandlerRaises, DispatchRaises, HandlersReturn, RunEnds, EmitRaises, B!Next
<1>10. CASE UNCHANGED vars
  BY <1>1, <1>10 DEF vars
<1> QED
  BY <1>3, <1>4, <1>5, <1>6, <1>7, <1>8, <1>9, <1>10 DEF Next, Kernel, Flush

-----------------------------------------------------------------------------
(* What the lemmas below use of the bus and of what a decision can be.     *)
LEMMA BusFacts ==
  ASSUME IInv
  PROVE  /\ log \in Seq(EventType) /\ processed \in Seq(B!Queued) /\ base \in Nat
         /\ Len(log) \in Nat /\ Len(processed) \in Nat /\ base <= Len(log)
         /\ \A e \in queue : e.seq \in base .. Len(log) - 1
         /\ \A i \in DOMAIN processed : processed[i].seq \in base .. Len(log) - 1
<1>1. B!TypeOK /\ PP!Numbering /\ PP!Held
  BY SameBus DEF IInv, PP!IInv
<1>2. log \in Seq(EventType) /\ processed \in Seq(B!Queued) /\ base \in Nat
  BY <1>1, SameBus DEF B!TypeOK
<1>3. Len(log) \in Nat /\ Len(processed) \in Nat
  BY <1>2, LenProperties
<1> QED  BY <1>1, <1>2, <1>3 DEF PP!Numbering, PP!Held, PP!Carries

(* The event just taken, and its payload.                                  *)
LEMMA PopFacts ==
  ASSUME IInv, B!Pop
  PROVE  /\ mode = "running" /\ mode' = "handling" /\ ~halted
         /\ UNCHANGED <<log, base, halted>>
         /\ todo = << >> /\ outbox = << >> /\ flight = NoFlight
         /\ Len(processed') = Len(processed) + 1
         /\ \A i \in DOMAIN processed : processed'[i] = processed[i]
         /\ DOMAIN processed' = 1 .. Len(processed) + 1
         /\ Taken \in queue /\ Taken = processed'[Len(processed) + 1]
         /\ TakenPayload \in EventPayload /\ TakenPayload = payload[Taken.seq + 1]
<1>1. PICK e \in queue : processed' = Append(processed, e)
  BY DEF B!Pop
<1>2. processed \in Seq(B!Queued) /\ e \in B!Queued /\ e.seq \in base .. Len(log) - 1
  BY BusFacts DEF IInv, TypeOK, B!TypeOK
<1>3. /\ Len(processed') = Len(processed) + 1
      /\ \A i \in DOMAIN processed : processed'[i] = processed[i]
      /\ DOMAIN processed' = 1 .. Len(processed) + 1
      /\ processed'[Len(processed) + 1] = e
  BY <1>1, <1>2, AppendProperties
<1>4. Taken = e
  BY <1>3 DEF Taken
<1>5. payload \in Seq(EventPayload) /\ Len(payload) = Len(log)
  BY DEF IInv, TypeOK
<1>6. e.seq + 1 \in 1 .. Len(payload)
  BY <1>2, <1>5, BusFacts
<1>7. payload[e.seq + 1] \in EventPayload
  BY <1>5, <1>6, ElementOfSeq
<1>8. mode = "running" /\ mode' = "handling" /\ ~halted /\ UNCHANGED <<log, base, halted>>
  BY DEF B!Pop
<1> QED  BY <1>3, <1>4, <1>7, <1>8 DEF TakenPayload, IInv, DoneBetweenWakes

LEMMA EmitFacts ==
  ASSUME NEW t \in EventType, IInv, B!Emit(t)
  PROVE  /\ Len(log') = Len(log) + 1 /\ Len(log) \in Nat
         /\ mode \in {"open", "handling"}
         /\ UNCHANGED <<mode, processed, halted, base>>
<1>1. log \in Seq(EventType)
  BY BusFacts
<1>2. log' = Append(log, t)
  BY DEF B!Emit
<1> QED  BY <1>1, <1>2, AppendProperties, LenProperties DEF B!Emit

(* The fields of a decision, and of what is left of it after the gate.     *)
LEMMA DecisionFacts ==
  ASSUME NEW d0 \in Decisions, NEW d, d = ApplyConfidenceGate(d0)
  PROVE  /\ d.verb \in Verbs \cup {"escalate"}
         /\ d.cid \in Ids /\ d.budget \in Budgets \cup {None}
         /\ d.verb \in {"dispatch", "route", "retry"} => \E l \in Lanes : d.lanes = <<l>>
         /\ d.verb = "race" => d.lanes \in Seq(Lanes)
         /\ d.verb = "edit_policy" => d.patch \in Patches \cup {None}
<1>1. /\ d0.verb \in Verbs
      /\ d0.cid \in Ids /\ d0.budget \in Budgets \cup {None}
      /\ d0.verb \in {"dispatch", "route", "retry"} => \E l \in Lanes : d0.lanes = <<l>>
      /\ d0.verb = "race" => d0.lanes \in Seq(Lanes)
      /\ d0.verb = "edit_policy" => d0.patch \in Patches \cup {None}
  <2>1. CASE d0 \in Decision({"dispatch", "route", "retry"}, {<<l>> : l \in Lanes},
                             Named \cup {None}, Budgets \cup {None}, {None}, {None})
    BY <2>1, RuntimeAssumption DEF Decision, Ids
  <2>2. CASE d0 \in Decision({"race"}, Races, Named \cup {None}, Budgets \cup {None},
                             {None}, {None})
    BY <2>2, RuntimeAssumption DEF Decision, Ids
  <2>3. CASE d0 \in Decision({"escalate"}, {<< >>}, {None}, {None}, {None, "sol", "operator"},
                             {None})
    BY <2>3 DEF Decision, Ids
  <2>4. CASE d0 \in Decision({"edit_policy"}, {<< >>}, {None}, {None}, {None},
                             Patches \cup {None})
    BY <2>4 DEF Decision, Ids
  <2>5. CASE d0 \in Decision({"verify", "compress_ledger", "revise_plan", "request_human",
                              "checkpoint", "halt"}, {<< >>}, {None}, {None}, {None}, {None})
    BY <2>5 DEF Decision, Ids
  <2> QED  BY <2>1, <2>2, <2>3, <2>4, <2>5 DEF Decisions
<1>2. CASE ~Gated(d0)
  BY <1>1, <1>2 DEF ApplyConfidenceGate
<1>3. CASE Gated(d0)
  <2>1. d = [d0 EXCEPT !.verb = "escalate"]
    BY <1>3 DEF ApplyConfidenceGate
  <2>2. d.verb = "escalate" /\ d.cid = d0.cid /\ d.budget = d0.budget
    <3>1. \E V, L, C, Bu, T, Pa : d0 \in [verb : V, confident : BOOLEAN, lanes : L, cid : C,
                                           budget : Bu, target : T, patch : Pa]
      BY DEF Decisions, Decision
    <3> QED  BY <2>1, <3>1
  <2> QED  BY <1>1, <2>2
<1> QED  BY <1>2, <1>3

-----------------------------------------------------------------------------
(* Types, by the part of the state they are about.                         *)
LEMMA NothingIsTyped ==
  /\ << >> \in Seq(M!Threshold) /\ << >> \in Seq(EventPayload)
  /\ << >> \in Seq(WorkItem) /\ << >> \in Seq(OutItem)
  /\ << >> \in Seq({"reflex", "executive"}) /\ << >> \in Seq(Status \cup {"raised"})
  /\ Len(<< >>) = 0 /\ DOMAIN << >> = {}
BY EmptySeq

LEMMA ShortSeqs ==
  /\ \A o \in OutItem : <<o>> \in Seq(OutItem)
  /\ \A w \in WorkItem : <<w>> \in Seq(WorkItem)
<1> HIDE DEF OutItem, WorkItem
<1> QED  OBVIOUS

(* charge() returns threshold events, in a sequence.                       *)
LEMMA ReturnedType ==
  ASSUME NEW cost
  PROVE  M!Returned(cost) \in Seq(M!Threshold)
<1>1. ASSUME NEW m \in M!Meter, NEW amount, NEW t \in M!THRESHOLDS
      PROVE  M!Notice(m, amount, t) \in Seq(M!Threshold)
  <2>1. [meter |-> m, threshold |-> t] \in M!Threshold
    BY DEF M!Threshold
  <2>2. <<[meter |-> m, threshold |-> t]>> \in Seq(M!Threshold)
    BY <2>1
  <2> QED  BY <2>2, NothingIsTyped DEF M!Notice
<1>2. ASSUME NEW m \in M!Meter, NEW amount
      PROVE  M!Crossed(m, amount) \in Seq(M!Threshold)
  <2>1. /\ M!Notice(m, amount, 60) \in Seq(M!Threshold)
        /\ M!Notice(m, amount, 85) \in Seq(M!Threshold)
        /\ M!Notice(m, amount, 100) \in Seq(M!Threshold)
    BY <1>1 DEF M!THRESHOLDS
  <2> QED  BY <2>1 DEF M!Crossed
<1>3. /\ M!Crossed("tokens_usd", cost["tokens_usd"]) \in Seq(M!Threshold)
      /\ M!Crossed("quota_units", cost["quota_units"]) \in Seq(M!Threshold)
      /\ M!Crossed("wall_s", cost["wall_s"]) \in Seq(M!Threshold)
  BY <1>2 DEF M!Meter
<1> QED  BY <1>3 DEF M!Returned

LEMMA MetersTyped ==
  ASSUME IInv, [Next]_vars
  PROVE  M!MTypeOK'
<1>1. CASE UNCHANGED meterVars
  BY <1>1 DEF IInv, TypeOK, M!MTypeOK, meterVars
<1>2. CASE StartsOver
  BY <1>2, NothingIsTyped DEF StartsOver, Unspent, Unfired, M!MTypeOK
<1>3. ASSUME NEW status, NEW cost \in Costs, Finish(status, cost) PROVE M!MTypeOK'
  <2>1. cost \in [M!Meter -> Nat]
    BY PartsAssumption DEF M!MetersAssumption
  <2>2. M!Charge(cost)
    BY <1>3 DEF Finish
  <2>3. spent' \in [M!Meter -> Nat] /\ fired' \in [M!Meter -> SUBSET M!THRESHOLDS]
    BY <2>1, <2>2 DEF M!Charge, M!Crossings, IInv, TypeOK, M!MTypeOK
  <2>4. told' \in Seq(M!Threshold)
    BY <2>2, ReturnedType DEF M!Charge, IInv, TypeOK, M!MTypeOK
  <2> QED  BY <2>3, <2>4 DEF M!MTypeOK
<1>4. CASE Open \/ Crash
  BY <1>2, <1>4 DEF Open, Crash
<1>5. CASE AdapterRaises
  BY <1>1, <1>5 DEF AdapterRaises, M!Forgo, meterVars
<1>6. CASE Submit \/ OperatorSpeaks \/ RunStarts \/ EmitRaises
  BY <1>1, <1>6 DEF Submit, OperatorSpeaks, RunStarts, EmitRaises
<1>7. CASE Kernel
  BY <1>1, <1>7 DEF Kernel, WakeReflex, WakeExecutive, WakeUnanswered, StartDispatch, Verify,
                    HandlerRaises, DispatchRaises, Flush, FlushEmit, FlushHalt, HandlersReturn, RunEnds
<1>8. CASE UNCHANGED vars
  BY <1>1, <1>8 DEF vars
<1> QED  BY <1>3, <1>4, <1>5, <1>6, <1>7, <1>8 DEF Next, AdapterReturns

(* The database: the log's payloads and the contracts; and the policy.     *)
DiskTyped ==
    /\ payload \in Seq(EventPayload) /\ Len(payload) = Len(log)
    /\ store \in [ContractIds -> VALID_LANES \cup {None}]
    /\ policy \subseteq Patches

LEMMA DiskIsTyped ==
  ASSUME IInv, [Next]_vars
  PROVE  DiskTyped'
<1> USE DEF DiskTyped
<1>1. DiskTyped
  BY DEF IInv, TypeOK
<1>2. CASE UNCHANGED <<diskVars, log>>
  BY <1>1, <1>2 DEF diskVars
<1>3. ASSUME NEW t \in EventType, B!Emit(t), NEW cid \in Ids,
             NEW th \in M!Threshold \cup {None}, Record(cid, th),
             UNCHANGED <<store, policy>>
      PROVE  DiskTyped'
  <2> DEFINE e == [cid |-> cid, th |-> th, reflex |-> inReflex,
                   cause |-> IF mode = "handling" THEN Len(processed) ELSE 0]
  <2>1. e \in EventPayload
    BY BusFacts DEF EventPayload, IInv, TypeOK
  <2>2. payload' = Append(payload, e)
    BY <1>3 DEF Record
  <2> HIDE DEF e
  <2>3. payload' \in Seq(EventPayload) /\ Len(payload') = Len(payload) + 1
    BY <1>1, <2>1, <2>2, AppendProperties
  <2> QED  BY <1>1, <1>3, <2>3, EmitFacts
<1>4. CASE Submit \/ OperatorSpeaks
  BY <1>3, <1>4 DEF Submit, OperatorSpeaks, EventType, Ids
<1>5. CASE FlushEmit
  <2>1. Head(outbox) \in OutItem /\ Head(outbox).type # "halt"
    BY <1>5, HeadIsOut DEF FlushEmit, IInv
  <2>2. /\ Head(outbox).type \in EventType /\ Head(outbox).cid \in Ids
        /\ Head(outbox).th \in M!Threshold \cup {None}
    BY <2>1 DEF OutItem
  <2> QED  BY <1>3, <1>5, <2>2 DEF FlushEmit
<1>6. CASE WakeExecutive
  <2>1. PICK d0 \in Decisions : Execute(ApplyConfidenceGate(d0))
    BY <1>6 DEF WakeExecutive
  <2> DEFINE d == ApplyConfidenceGate(d0)
  <2>2. d.verb = "edit_policy" => d.patch \in Patches \cup {None}
    BY DecisionFacts
  <2> HIDE DEF d
  <2>3. policy' \subseteq Patches
    BY <1>1, <2>1, <2>2 DEF d, Execute, Retry, Escalate, EditPolicy, Stop, Plain
  <2>4. UNCHANGED <<payload, store, log>>
    BY <1>6 DEF WakeExecutive, B!Pop
  <2> QED  BY <1>1, <2>3, <2>4
<1>7. CASE StartDispatch
  <2>1. UNCHANGED <<payload, log, policy>>
    BY <1>7 DEF StartDispatch, busVars
  <2>2. store' \in [ContractIds -> VALID_LANES \cup {None}]
    BY <1>1, <1>7 DEF StartDispatch, Valid
  <2> QED  BY <1>1, <2>1, <2>2
<1>12. CASE DispatchRaises
  <2>1. UNCHANGED <<payload, log, policy>>
    BY <1>12 DEF DispatchRaises, B!HandlerRaises
  <2>2. store' \in [ContractIds -> VALID_LANES \cup {None}]
    <3> DEFINE w == Head(todo)
    <3>1. \/ store' = store
          \/ \E id \in ContractIds, l \in VALID_LANES : store' = [store EXCEPT ![id] = l]
      BY <1>12 DEF DispatchRaises
    <3> QED  BY <1>1, <3>1
  <2> QED  BY <1>1, <2>1, <2>2
<1>8. CASE AdapterReturns \/ Verify \/ FlushHalt
  BY <1>2, <1>8 DEF AdapterReturns, Finish, AdapterRaises, Verify, FlushHalt, B!Halt, busVars
<1>9. CASE WakeReflex \/ WakeUnanswered \/ RunStarts \/ Open \/ Crash
  BY <1>2, <1>9 DEF WakeReflex, WakeUnanswered, RunStarts, Open, Crash, B!Pop, B!RunStarts,
                    B!Open, B!durable, B!Crash
<1>10. CASE HandlerRaises \/ HandlersReturn \/ RunEnds \/ EmitRaises
  BY <1>2, <1>10 DEF HandlerRaises, HandlersReturn, RunEnds, EmitRaises, diskVars,
                    B!HandlerRaises, B!HandlersReturn, B!RunReturns, B!RunRaises, B!EmitRaises
<1>11. CASE UNCHANGED vars
  BY <1>2, <1>11 DEF vars, busVars
<1> QED
  BY <1>4, <1>5, <1>6, <1>7, <1>8, <1>9, <1>10, <1>11, <1>12 DEF Next, Kernel, Flush

(* What the runtime keeps on contracts, lanes and retries.                 *)
StateTyped ==
    /\ DOMAIN contracts \subseteq ContractIds
    /\ \A c \in DOMAIN contracts : contracts[c] \in [lane : Lanes, budget : Budgets]
    /\ retries \in [Ids -> Nat]
    /\ failures \in [Lanes -> Nat] /\ drained \subseteq Lanes
    /\ awaiting \in BOOLEAN /\ inReflex \in BOOLEAN
    /\ results \in [Lanes -> Seq(Status \cup {"raised"})]

LEMMA WorkHead ==
  ASSUME TypeOK, todo # << >>
  PROVE  /\ Head(todo) \in WorkItem /\ Head(todo) = todo[1] /\ 1 \in DOMAIN todo
         /\ Tail(todo) \in Seq(WorkItem) /\ Len(Tail(todo)) = Len(todo) - 1
         /\ Len(todo) \in Nat \ {0}
         /\ \A i \in 1 .. Len(todo) - 1 : Tail(todo)[i] = todo[i + 1] /\ i + 1 \in DOMAIN todo
BY HeadTailProperties, LenProperties DEF TypeOK

LEMMA StartedContract ==
  ASSUME IInv, StartDispatch
  PROVE  /\ Head(todo).lane \in Lanes /\ Head(todo).verb \in Verbs \cup {"dispatch"}
         /\ ContractFor(Head(todo)) \in [lane : Lanes, budget : Budgets]
         /\ IdFor(Head(todo)) \in ContractIds
<1> DEFINE w == Head(todo)
<1>1. todo # << >> /\ w.verb \notin {"verify", "decide"} /\ IdFor(w) \in ContractIds
  BY DEF StartDispatch, Ready
<1>2. w \in WorkItem /\ w.lane \in Lanes
  BY <1>1, WorkHead DEF IInv, WorkOK
<1>3. w.verb \in Verbs \cup {"dispatch"} /\ w.budget \in Budgets \cup {None}
  BY <1>1, <1>2 DEF WorkItem
<1> HIDE DEF w
<1>4. ASSUME w.budget # None
      PROVE  ContractFor(w).budget \in Budgets
  BY <1>3, <1>4 DEF ContractFor
<1>5. ASSUME w.budget = None, IdFor(w) \in DOMAIN contracts
      PROVE  ContractFor(w).budget \in Budgets
  <2>1. contracts[IdFor(w)] \in [lane : Lanes, budget : Budgets]
    BY <1>5 DEF IInv, TypeOK
  <2> QED  BY <1>5, <2>1 DEF ContractFor
<1>6. ASSUME w.budget = None, IdFor(w) \notin DOMAIN contracts
      PROVE  ContractFor(w).budget \in Budgets
  BY <1>6, RuntimeAssumption DEF ContractFor
<1>7. ContractFor(w) \in [lane : Lanes, budget : Budgets]
  <2>1. ContractFor(w) = [lane |-> w.lane, budget |-> ContractFor(w).budget]
    BY DEF ContractFor
  <2> QED  BY <1>2, <1>4, <1>5, <1>6, <2>1
<1> QED  BY <1>1, <1>2, <1>3, <1>7 DEF w

LEMMA StateIsTyped ==
  ASSUME IInv, [Next]_vars
  PROVE  StateTyped'
<1>1. StateTyped
  BY DEF IInv, TypeOK, StateTyped
<1>2. CASE UNCHANGED <<stateVars, results>>
  BY <1>1, <1>2 DEF stateVars, StateTyped
<1>3. CASE StartsOver
  BY <1>3, NothingIsTyped DEF StartsOver, NoRetries, NoneYet, NoResults, StateTyped
<1>4. ASSUME NEW status \in Status, NEW cost \in Costs, Finish(status, cost)
      PROVE  StateTyped'
  <2>1. flight.lane \in Lanes
    BY <1>4 DEF IInv, FlightOK, Flights, Finish
  <2>2. failures' \in [Lanes -> Nat] /\ drained' \subseteq Lanes
    BY <1>1, <1>4, <2>1 DEF Finish, FailuresAfter, StateTyped
  <2>3. results[flight.lane] \in Seq(Status \cup {"raised"})
    BY <1>1, <2>1 DEF StateTyped
  <2>4. Append(results[flight.lane], status) \in Seq(Status \cup {"raised"})
    BY <2>3, AppendProperties
  <2>5. results' \in [Lanes -> Seq(Status \cup {"raised"})]
    BY <1>1, <1>4, <2>1, <2>4 DEF Finish, StateTyped
  <2> QED  BY <1>1, <1>4, <2>2, <2>5 DEF Finish, StateTyped
<1>5. CASE AdapterRaises
  <2>1. flight.lane \in Lanes
    BY <1>5 DEF IInv, FlightOK, Flights, AdapterRaises
  <2>2. Append(results[flight.lane], "raised") \in Seq(Status \cup {"raised"})
    BY <1>1, <2>1, AppendProperties DEF StateTyped
  <2>3. results' \in [Lanes -> Seq(Status \cup {"raised"})]
    BY <1>1, <1>5, <2>1, <2>2 DEF AdapterRaises, StateTyped
  <2> QED  BY <1>1, <1>5, <2>3 DEF AdapterRaises, StateTyped, stateVars
<1>6. CASE StartDispatch
  <2> DEFINE w == Head(todo)  id == IdFor(w)  c == ContractFor(w)
  <2>1. id \in ContractIds /\ c \in [lane : Lanes, budget : Budgets]
    BY <1>6, StartedContract
  <2>2. contracts' = [i \in DOMAIN contracts \cup {id} |-> IF i = id THEN c ELSE contracts[i]]
    BY <1>6 DEF StartDispatch
  <2>3. UNCHANGED <<retries, failures, drained, awaiting, inReflex, results>>
    BY <1>6 DEF StartDispatch
  <2> HIDE DEF w, id, c
  <2> QED  BY <1>1, <2>1, <2>2, <2>3 DEF StateTyped
<1>7. CASE WakeExecutive
  <2>1. PICK d0 \in Decisions : Execute(ApplyConfidenceGate(d0))
    BY <1>7 DEF WakeExecutive
  <2> DEFINE d == ApplyConfidenceGate(d0)
  <2>2. d.cid \in Ids /\ TakenPayload \in EventPayload
    BY <1>7, DecisionFacts, PopFacts DEF WakeExecutive
  <2>3. RetryKey(d) \in Ids
    BY <2>2 DEF RetryKey, EventPayload
  <2> HIDE DEF d
  <2>4. retries' \in [Ids -> Nat] /\ awaiting' \in BOOLEAN
    <3>1. CASE d.verb = "retry"
      <4>1. Retry(d)
        BY <2>1, <3>1 DEF d, Execute
      <4>2. awaiting' = awaiting
            /\ retries' = [retries EXCEPT ![RetryKey(d)] = retries[RetryKey(d)] + 1]
        BY <4>1 DEF Retry
      <4> QED  BY <1>1, <2>3, <4>2 DEF StateTyped
    <3>2. CASE d.verb = "escalate"
      <4>1. awaiting' = (awaiting \/ d.target = "operator") /\ retries' = retries
        BY <2>1, <3>2 DEF d, Execute, Escalate
      <4> QED  BY <1>1, <4>1 DEF StateTyped
    <3>3. CASE d.verb \in {"request_human", "halt"}
      <4>1. awaiting' = (awaiting \/ d.verb = "request_human") /\ retries' = retries
        BY <2>1, <3>3 DEF d, Execute, Stop
      <4> QED  BY <1>1, <4>1 DEF StateTyped
    <3>4. CASE d.verb \notin {"retry", "escalate", "request_human", "halt"}
      <4>1. EditPolicy(d) \/ Plain(d)
        BY <2>1, <3>4 DEF d, Execute
      <4>2. retries' = retries /\ awaiting' = awaiting
        BY <4>1 DEF EditPolicy, Plain
      <4> QED  BY <1>1, <4>2 DEF StateTyped
    <3> QED  BY <3>1, <3>2, <3>3, <3>4
  <2> QED  BY <1>1, <1>7, <2>4 DEF WakeExecutive, StateTyped
<1>8. CASE WakeReflex \/ HandlersReturn
  BY <1>1, <1>8 DEF WakeReflex, HandlersReturn, StateTyped, ghostVars
<1>9. CASE Submit
  BY <1>1, <1>9 DEF Submit, StateTyped, ghostVars
<1>10. CASE Open \/ Crash
  BY <1>3, <1>10 DEF Open, Crash
<1>11. CASE OperatorSpeaks \/ RunStarts \/ EmitRaises \/ HandlerRaises \/ DispatchRaises \/ RunEnds
  BY <1>2, <1>11 DEF OperatorSpeaks, RunStarts, EmitRaises, HandlerRaises, DispatchRaises, RunEnds,
                     ghostVars
<1>12. CASE WakeUnanswered \/ Verify \/ Flush
  BY <1>2, <1>12 DEF WakeUnanswered, Verify, Flush, FlushEmit, FlushHalt, ghostVars
<1>13. CASE UNCHANGED vars
  BY <1>2, <1>13 DEF vars, ghostVars
<1> QED
  BY <1>4, <1>5, <1>6, <1>7, <1>8, <1>9, <1>10, <1>11, <1>12, <1>13 DEF Next, Kernel, AdapterReturns

-----------------------------------------------------------------------------
(* What a wake leaves to do: one thing, or what a race has, or nothing; or *)
(* one emission, and then no more.                                         *)
Fresh(ws) ==
    /\ ws \in Seq(WorkItem)
    /\ \A i \in DOMAIN ws : ws[i].verb \notin {"verify", "decide"} => ws[i].lane \in Lanes
    /\ Len(ws) <= 1 \/ \A i \in DOMAIN ws : ws[i].verb = "race"

LEMMA FreshOne ==
  ASSUME NEW w \in WorkItem, w.verb \notin {"verify", "decide"} => w.lane \in Lanes
  PROVE  Fresh(<<w>>)
<1>1. <<w>> \in Seq(WorkItem) /\ Len(<<w>>) = 1 /\ DOMAIN <<w>> = {1} /\ <<w>>[1] = w
  BY ShortSeqs
<1> QED  BY <1>1 DEF Fresh

OneOut(os) == \E o \in OutItem : os = <<o>> /\ o.th = None

LEMMA OutIsTyped ==
  ASSUME NEW t \in EventType \cup {"halt"}, NEW c \in Ids
  PROVE  /\ Out(t, c) \in OutItem /\ Out(t, c).th = None
         /\ [Out(t, c) EXCEPT !.halts = TRUE] \in OutItem
         /\ [Out(t, c) EXCEPT !.halts = TRUE].th = None
BY DEF Out, OutItem

LEMMA NothingIsDone == Fresh(<< >>)
BY NothingIsTyped DEF Fresh

LEMMA ExecuteFacts ==
  ASSUME IInv, WakeExecutive
  PROVE  /\ Fresh(todo')
         /\ outbox' = << >> \/ (OneOut(outbox') /\ todo' = << >>)
<1>1. PICK d0 \in Decisions : Execute(ApplyConfidenceGate(d0))
  BY DEF WakeExecutive
<1> DEFINE d == ApplyConfidenceGate(d0)
<1>2. /\ d.verb \in Verbs \cup {"escalate"}
      /\ d.cid \in Ids /\ d.budget \in Budgets \cup {None}
      /\ d.verb \in {"dispatch", "route", "retry"} => \E l \in Lanes : d.lanes = <<l>>
      /\ d.verb = "race" => d.lanes \in Seq(Lanes)
  BY DecisionFacts
<1>3. RetryKey(d) \in Ids
  BY <1>2, PopFacts DEF RetryKey, EventPayload, WakeExecutive
<1>4. Execute(d)
  BY <1>1
<1> HIDE DEF d
<1>5. ASSUME NEW lane \in Lanes \cup {None}, d.verb # "escalate"
      PROVE  /\ Work(d, lane) \in WorkItem /\ Work(d, lane).lane = lane
             /\ Work(d, lane).verb = d.verb
  BY <1>2, <1>5 DEF Work, WorkItem
<1>6. None \in Ids
  BY DEF Ids
<1>7. CASE d.verb = "retry"
  <2> DEFINE c == RetryKey(d)
  <2>1. PICK l \in Lanes : d.lanes = <<l>>
    BY <1>2, <1>7
  <2>2. d.lanes[1] = l
    BY <2>1
  <2>4. CASE retries[c] + 1 > MAX_RETRIES_PER_CONTRACT
    <3>1. outbox' = <<Out("policy_exception", c)>> /\ todo' = << >>
      BY <1>4, <1>7, <2>4 DEF Execute, Retry
    <3>2. OneOut(outbox')
      BY <1>3, <3>1, OutIsTyped DEF OneOut, EventType
    <3> QED  BY <3>1, <3>2, NothingIsDone
  <2>5. CASE ~(retries[c] + 1 > MAX_RETRIES_PER_CONTRACT)
    <3>1. outbox' = << >> /\ todo' = <<Work(d, l)>>
      BY <1>4, <1>7, <2>2, <2>5 DEF Execute, Retry
    <3> DEFINE w == Work(d, l)
    <3>2. w \in WorkItem /\ w.lane \in Lanes
      BY <1>3, <1>5, <1>7
    <3> HIDE DEF w
    <3>3. todo' = <<w>>
      BY <3>1 DEF w
    <3> QED  BY <3>1, <3>2, <3>3, FreshOne
  <2> QED  BY <2>4, <2>5
<1>8. CASE d.verb \in {"escalate", "request_human", "halt"}
  <2>1. todo' = << >> /\ outbox' \in {<< >>, <<Halting>>}
    BY <1>4, <1>8 DEF Execute, Escalate, Stop
  <2>2. OneOut(<<Halting>>)
    BY OutIsTyped, <1>6 DEF OneOut, Halting
  <2> QED  BY <2>1, <2>2, NothingIsDone
<1>9. CASE d.verb = "edit_policy"
  <2>1. /\ todo' = << >>
        /\ outbox' \in {<< >>, <<Out("policy_exception", None)>>, <<Out("decision_invalid", None)>>}
    BY <1>4, <1>9 DEF Execute, EditPolicy
  <2>2. OneOut(<<Out("policy_exception", None)>>) /\ OneOut(<<Out("decision_invalid", None)>>)
    BY OutIsTyped, <1>6 DEF OneOut, EventType
  <2> QED  BY <2>1, <2>2, NothingIsDone
<1>10. CASE d.verb \in {"dispatch", "route"}
  <2>1. PICK l \in Lanes : d.lanes = <<l>>
    BY <1>2, <1>10
  <2>2. outbox' = << >>
    BY <1>4, <1>10 DEF Execute, Plain
  <2>3. todo' = <<Work(d, l)>>
    <3>1. todo' = [i \in DOMAIN d.lanes |-> Work(d, d.lanes[i])]
      BY <1>4, <1>10 DEF Execute, Plain
    <3> QED  BY <2>1, <3>1
  <2> DEFINE w == Work(d, l)
  <2>4. w \in WorkItem /\ w.lane \in Lanes
    BY <1>5, <1>6, <1>10
  <2> HIDE DEF w
  <2>5. todo' = <<w>>
    BY <2>3 DEF w
  <2> QED  BY <2>2, <2>4, <2>5, FreshOne
<1>11. CASE d.verb = "race"
  <2>1. d.lanes \in Seq(Lanes)
    BY <1>2, <1>11
  <2>2. outbox' = << >> /\ todo' = [i \in DOMAIN d.lanes |-> Work(d, d.lanes[i])]
    BY <1>4, <1>11 DEF Execute, Plain
  <2>3. /\ Len(d.lanes) \in Nat /\ DOMAIN d.lanes = 1 .. Len(d.lanes)
        /\ \A i \in DOMAIN d.lanes : d.lanes[i] \in Lanes
    BY <2>1, LenProperties, ElementOfSeq
  <2>4. ASSUME NEW i \in DOMAIN d.lanes
        PROVE  todo'[i] \in WorkItem /\ todo'[i].lane \in Lanes /\ todo'[i].verb = "race"
    <3>1. d.lanes[i] \in Lanes /\ todo'[i] = Work(d, d.lanes[i])
      BY <2>2, <2>3
    <3> QED  BY <1>5, <1>6, <1>11, <3>1
  <2>5. todo' \in Seq(WorkItem) /\ DOMAIN todo' = DOMAIN d.lanes
    <3>1. DOMAIN todo' = 1 .. Len(d.lanes)
      BY <2>2, <2>3
    <3>2. todo' = [i \in 1 .. Len(d.lanes) |-> todo'[i]]
      BY <2>2, <2>3
    <3> HIDE DEF WorkItem
    <3>3. todo' \in [1 .. Len(d.lanes) -> WorkItem]
      BY <2>3, <2>4, <3>1, <3>2
    <3> QED  BY <2>3, <3>1, <3>3, SeqDef
  <2> QED  BY <2>2, <2>4, <2>5 DEF Fresh
<1>12. CASE d.verb = "verify"
  <2>1. outbox' = << >> /\ todo' = <<Work(d, None)>>
    BY <1>4, <1>12 DEF Execute, Plain
  <2> DEFINE w == Work(d, None)
  <2>2. w \in WorkItem /\ w.verb = "verify"
    BY <1>5, <1>6, <1>12
  <2> HIDE DEF w
  <2>3. todo' = <<w>>
    BY <2>1 DEF w
  <2> QED  BY <2>1, <2>2, <2>3, FreshOne
<1>13. CASE d.verb \notin {"retry", "escalate", "request_human", "halt", "edit_policy",
                           "dispatch", "route", "race", "verify"}
  <2>1. outbox' = << >> /\ todo' = << >>
    BY <1>4, <1>13 DEF Execute, Plain
  <2> QED  BY <2>1, NothingIsDone
<1> QED  BY <1>7, <1>8, <1>9, <1>10, <1>11, <1>12, <1>13

(* The same for the wakes that take no decision.                           *)
LEMMA WakeFacts ==
  ASSUME IInv, WakeReflex \/ WakeUnanswered
  PROVE  Fresh(todo') /\ outbox' = << >>
<1>1. outbox' = << >>
  BY PopFacts DEF WakeReflex, WakeUnanswered
<1>2. CASE WakeReflex
  <2>1. PICK r \in policy :
          todo' = <<[verb |-> "dispatch", lane |-> r.lane, cid |-> r.cid, budget |-> None]>>
    BY <1>2 DEF WakeReflex
  <2>2. r.lane \in Lanes /\ r.cid \in Ids
    BY RuntimeAssumption DEF IInv, TypeOK, Ids
  <2> DEFINE w == [verb |-> "dispatch", lane |-> r.lane, cid |-> r.cid, budget |-> None]
  <2>3. w \in WorkItem /\ w.lane \in Lanes
    BY <2>2 DEF WorkItem, Ids
  <2> HIDE DEF w
  <2>4. todo' = <<w>>
    BY <2>1 DEF w
  <2> QED  BY <1>1, <2>3, <2>4, FreshOne
<1>3. CASE WakeUnanswered
  <2>1. NoDecision \in WorkItem /\ NoDecision.verb = "decide"
    BY DEF NoDecision, WorkItem, Ids
  <2>2. todo' = <<NoDecision>>
    BY <1>3 DEF WakeUnanswered
  <2> QED  BY <1>1, <2>1, <2>2, FreshOne
<1> QED  BY <1>2, <1>3

(* What the return of an adapter leaves to emit: the thresholds reported,  *)
(* then one or two emissions that carry none.                              *)
LEMMA FinishFacts ==
  ASSUME IInv, NEW status \in Status, NEW cost, Finish(status, cost),
         NEW ths, ths = M!Returned(cost)
  PROVE  /\ ths \in Seq(M!Threshold) /\ told' = told \o ths
         /\ outbox' \in Seq(OutItem) /\ Len(outbox') \in Nat /\ Len(ths) \in Nat
         /\ Len(outbox') >= Len(ths) + 1
         /\ \A i \in 1 .. Len(ths) : outbox'[i] = ThresholdOut(ths[i])
         /\ \A i \in Len(ths) + 1 .. Len(outbox') : outbox'[i].th = None
         /\ \A i \in DOMAIN outbox' : outbox'[i].type # "halt"
<1> DEFINE A == [i \in DOMAIN ths |-> ThresholdOut(ths[i])]
           D == IF Drains(flight.lane, status)
                THEN <<Out("policy_exception", None)>> ELSE << >>
           o == Out(StatusType(status), flight.cid)
<1>1. ths \in Seq(M!Threshold) /\ told' = told \o ths
  BY ReturnedType DEF Finish, M!Charge
<1>2. Len(ths) \in Nat /\ DOMAIN ths = 1 .. Len(ths) /\ \A i \in DOMAIN ths : ths[i] \in M!Threshold
  BY <1>1, LenProperties, ElementOfSeq
<1>3. ASSUME NEW th \in M!Threshold
      PROVE  ThresholdOut(th) \in OutItem /\ ThresholdOut(th).type # "halt"
  BY <1>3 DEF ThresholdOut, OutItem, EventType, Ids, M!HardHalt, M!Threshold
<1>4. A \in Seq(OutItem) /\ Len(A) = Len(ths) /\ \A i \in 1 .. Len(ths) : A[i] = ThresholdOut(ths[i])
  BY <1>2, <1>3, LenProperties
<1>5. /\ D \in Seq(OutItem) /\ Len(D) \in {0, 1}
      /\ \A i \in 1 .. Len(D) : D[i].th = None /\ D[i].type # "halt"
  <2>1. Out("policy_exception", None) \in OutItem
    BY OutIsTyped DEF EventType, Ids
  <2>2. Out("policy_exception", None).th = None /\ Out("policy_exception", None).type # "halt"
    BY DEF Out
  <2> QED  BY <2>1, <2>2, NothingIsTyped
<1>6. o \in OutItem /\ o.th = None /\ o.type # "halt"
  <2>1. flight.cid \in Ids /\ StatusType(status) \in EventType
    BY DEF Finish, IInv, FlightOK, Flights, Ids, StatusType, Status, EventType
  <2> QED  BY <2>1, OutIsTyped DEF Out, EventType
<1>7. outbox' = A \o D \o <<o>>
  BY DEF Finish
<1> HIDE DEF A, D, o
<1>8. /\ A \o D \in Seq(OutItem) /\ Len(A \o D) = Len(ths) + Len(D)
      /\ \A i \in 1 .. Len(ths) : (A \o D)[i] = A[i]
      /\ \A i \in Len(ths) + 1 .. Len(ths) + Len(D) : (A \o D)[i] = D[i - Len(ths)]
  BY <1>2, <1>4, <1>5, ConcatProperties
<1> DEFINE AD == A \o D
<1> HIDE DEF AD
<1>9. /\ outbox' \in Seq(OutItem) /\ Len(outbox') = Len(AD) + 1
      /\ \A i \in 1 .. Len(AD) : outbox'[i] = AD[i]
      /\ outbox'[Len(AD) + 1] = o
  <2>1. AD \in Seq(OutItem) /\ outbox' = AD \o <<o>>
    BY <1>7, <1>8 DEF AD
  <2>2. outbox' = Append(AD, o)
    BY <2>1, <1>6
  <2> QED  BY <2>1, <2>2, <1>6, AppendProperties
<1>10. /\ Len(AD) = Len(ths) + Len(D) /\ Len(D) \in {0, 1}
       /\ \A i \in 1 .. Len(ths) : AD[i] = ThresholdOut(ths[i])
       /\ \A i \in Len(ths) + 1 .. Len(AD) : AD[i].th = None /\ AD[i].type # "halt"
  BY <1>2, <1>4, <1>5, <1>8 DEF AD
<1>11. \A i \in DOMAIN outbox' : outbox'[i].type # "halt"
  <2>1. DOMAIN outbox' = 1 .. Len(AD) + 1
    BY <1>2, <1>9, LenProperties
  <2>2. \A i \in 1 .. Len(ths) : AD[i].type # "halt"
    BY <1>2, <1>3, <1>10
  <2> QED  BY <1>2, <1>6, <1>9, <1>10, <2>1, <2>2
<1> QED  BY <1>1, <1>2, <1>6, <1>9, <1>10, <1>11

(* What a verb still has to do, and who handled what.                      *)
WorkTyped ==
    /\ todo \in Seq(WorkItem) /\ outbox \in Seq(OutItem)
    /\ handledBy \in Seq({"reflex", "executive"}) /\ Len(handledBy) = Len(processed)

LEMMA WorkIsTyped ==
  ASSUME IInv, [Next]_vars
  PROVE  WorkTyped'
<1>1. WorkTyped
  BY DEF IInv, TypeOK, WorkTyped
<1>2. CASE UNCHANGED <<workVars, handledBy, processed>>
  BY <1>1, <1>2 DEF workVars, WorkTyped
<1>3. CASE StartsOver /\ processed' = << >>
  BY <1>3, NothingIsTyped DEF StartsOver, WorkTyped
<1>4. CASE WakeReflex \/ WakeExecutive \/ WakeUnanswered
  <2>1. Fresh(todo') /\ (outbox' = << >> \/ OneOut(outbox'))
    BY <1>4, WakeFacts, ExecuteFacts
  <2>2. todo' \in Seq(WorkItem) /\ outbox' \in Seq(OutItem)
    BY <2>1, NothingIsTyped, ShortSeqs DEF Fresh, OneOut
  <2>3. PICK h \in {"reflex", "executive"} : handledBy' = Append(handledBy, h)
    BY <1>4 DEF WakeReflex, WakeExecutive, WakeUnanswered
  <2>4. handledBy' \in Seq({"reflex", "executive"}) /\ Len(handledBy') = Len(handledBy) + 1
    BY <1>1, <2>3, AppendProperties DEF WorkTyped
  <2>5. Len(processed') = Len(processed) + 1
    BY <1>4, PopFacts DEF WakeReflex, WakeExecutive, WakeUnanswered
  <2> QED  BY <1>1, <2>2, <2>4, <2>5 DEF WorkTyped
<1>5. CASE StartDispatch
  <2>1. UNCHANGED <<handledBy, processed>>
    BY <1>5 DEF StartDispatch, busVars
  <2>2. todo' \in Seq(WorkItem)
    BY <1>5, WorkHead DEF StartDispatch, Ready, IInv
  <2>3. \/ outbox' = outbox
        \/ \E c \in Ids : outbox' = <<Out("policy_exception", c)>>
        \/ outbox' = <<[Out("budget_threshold", None) EXCEPT !.halts = TRUE]>>
    BY <1>5 DEF StartDispatch, Ids
  <2>4. outbox' \in Seq(OutItem)
    <3>1. None \in Ids
      BY DEF Ids
    <3>2. [Out("budget_threshold", None) EXCEPT !.halts = TRUE] \in OutItem
      BY <3>1, OutIsTyped DEF EventType
    <3>3. \A c \in Ids : Out("policy_exception", c) \in OutItem
      BY OutIsTyped DEF EventType
    <3> QED  BY <1>1, <2>3, <3>2, <3>3, ShortSeqs DEF WorkTyped
  <2> QED  BY <1>1, <2>1, <2>2, <2>4 DEF WorkTyped
<1>6. ASSUME NEW status \in Status, NEW cost \in Costs, Finish(status, cost)
      PROVE  WorkTyped'
  <2>1. outbox' \in Seq(OutItem)
    BY <1>6, FinishFacts
  <2> QED  BY <1>1, <1>6, <2>1 DEF Finish, busVars, WorkTyped
<1>7. CASE AdapterRaises
  <2>1. Out("worker_failed", flight.cid) \in OutItem
    BY <1>7, OutIsTyped DEF AdapterRaises, IInv, FlightOK, Flights, EventType, Ids
  <2> QED  BY <1>1, <1>7, <2>1 DEF AdapterRaises, busVars, WorkTyped
<1>8. CASE Verify
  <2>1. Out("policy_exception", None) \in OutItem /\ Out("verify_failed", None) \in OutItem
    BY OutIsTyped DEF EventType, Ids
  <2>2. todo' \in Seq(WorkItem) /\ outbox' \in Seq(OutItem)
    <3>1. todo' \in Seq(WorkItem)
      BY <1>8, WorkHead DEF Verify, Ready, IInv
    <3>2. \/ outbox' = << >>
          \/ outbox' = <<Out("policy_exception", None)>> \/ outbox' = <<Out("verify_failed", None)>>
      BY <1>8 DEF Verify
    <3> QED  BY <2>1, <3>1, <3>2, NothingIsTyped, ShortSeqs
  <2> QED  BY <1>1, <1>8, <2>2 DEF Verify, WorkTyped, busVars, ghostVars
<1>9. CASE Flush
  <2>1. outbox # << >> /\ UNCHANGED <<todo, handledBy, processed>>
    BY <1>9 DEF Flush, FlushEmit, FlushHalt, ghostVars, B!Emit, B!Halt, busVars
  <2>2. Tail(outbox) \in Seq(OutItem) /\ <<Halting>> \o Tail(outbox) \in Seq(OutItem)
    <3>1. Halting \in OutItem
      BY OutIsTyped DEF Halting, Ids
    <3> QED  BY <2>1, <3>1, HeadIsOut DEF IInv
  <2>3. outbox' \in Seq(OutItem)
    BY <1>9, <2>2 DEF Flush, FlushEmit, FlushHalt
  <2> QED  BY <1>1, <2>1, <2>3 DEF WorkTyped
<1>10. CASE Open \/ Crash
  BY <1>3, <1>10 DEF Open, Crash, B!Open, B!Crash
<1>11. CASE Submit \/ OperatorSpeaks \/ RunStarts \/ EmitRaises
  BY <1>2, <1>11 DEF Submit, OperatorSpeaks, RunStarts, EmitRaises, ghostVars,
                     B!Emit, B!RunStarts, B!EmitRaises
<1>12. CASE HandlerRaises \/ DispatchRaises \/ HandlersReturn \/ RunEnds
  BY <1>2, <1>12 DEF HandlerRaises, DispatchRaises, HandlersReturn, RunEnds, ghostVars,
                     B!HandlerRaises, B!HandlersReturn, B!RunReturns, B!RunRaises
<1>13. CASE UNCHANGED vars
  BY <1>2, <1>13 DEF vars, ghostVars, busVars
<1> QED
  BY <1>4, <1>5, <1>6, <1>7, <1>8, <1>9, <1>10, <1>11, <1>12, <1>13 DEF Next, Kernel, AdapterReturns

LEMMA TypeNext ==
  ASSUME IInv, [Next]_vars
  PROVE  TypeOK' /\ PP!IInv'
<1>1. PP!IInv' /\ B!TypeOK'
  BY BusStep, BusKept DEF IInv
<1>2. M!MTypeOK' /\ DiskTyped' /\ StateTyped' /\ WorkTyped'
  BY MetersTyped, DiskIsTyped, StateIsTyped, WorkIsTyped
<1> QED  BY <1>1, <1>2 DEF TypeOK, DiskTyped, StateTyped, WorkTyped

-----------------------------------------------------------------------------
(* The course of a verb.  A wake finds nothing left of the last one.       *)
Wake == WakeReflex \/ WakeExecutive \/ WakeUnanswered

LEMMA WakeStarts ==
  ASSUME IInv, Wake
  PROVE  /\ mode = "running" /\ todo = << >> /\ outbox = << >> /\ ~halted
         /\ mode' = "handling" /\ ~halted' /\ flight' = NoFlight
         /\ UNCHANGED <<log, base, halted, meterVars, failures, drained, results, payload>>
         /\ Fresh(todo')
         /\ outbox' = << >> \/ (OneOut(outbox') /\ todo' = << >>)
<1>1. B!Pop
  BY DEF Wake, WakeReflex, WakeExecutive, WakeUnanswered
<1>2. /\ mode = "running" /\ todo = << >> /\ outbox = << >> /\ ~halted /\ flight = NoFlight
      /\ mode' = "handling" /\ ~halted' /\ UNCHANGED <<log, base, halted>>
  BY <1>1, PopFacts
<1>3. UNCHANGED <<flight, meterVars, failures, drained, results, payload>>
  BY DEF Wake, WakeReflex, WakeExecutive, WakeUnanswered, stateVars, diskVars
<1>4. /\ Fresh(todo')
      /\ outbox' = << >> \/ (OneOut(outbox') /\ todo' = << >>)
  BY WakeFacts, ExecuteFacts DEF Wake
<1> QED  BY <1>2, <1>3, <1>4

(* A new process, or none: nothing is under way, and nothing remembered.   *)
Restart == Open \/ Crash

LEMMA RestartFacts ==
  ASSUME Restart
  PROVE  /\ StartsOver /\ UNCHANGED diskVars /\ log' = log /\ halted' = FALSE
         /\ processed' = << >>
         /\ mode' = "down" \/ (mode' = "open" /\ base' = Len(log))
BY DEF Restart, Open, Crash, B!Open, B!durable, B!Crash

(* The caller's steps, and the end of a run: no verb is concerned.         *)
Outside == Submit \/ OperatorSpeaks \/ RunStarts \/ RunEnds

LEMMA OutsideFacts ==
  ASSUME Outside
  PROVE  /\ UNCHANGED <<meterVars, contracts, retries, failures, drained, inReflex, workVars,
                        ghostVars, processed, halted, base>>
         /\ mode \in {"open", "running"} /\ mode' \in {"open", "running", "returned", "raised"}
BY DEF Outside, Submit, OperatorSpeaks, RunStarts, RunEnds, stateVars, diskVars, ghostVars,
       B!Emit, B!RunStarts, B!RunReturns, B!RunRaises

(* An exception ends the run; what was under way stays as it is.           *)
Ends == HandlerRaises \/ DispatchRaises \/ EmitRaises

LEMMA EndsFacts ==
  ASSUME Ends
  PROVE  /\ UNCHANGED <<meterVars, stateVars, workVars, ghostVars, payload, policy>>
         /\ UNCHANGED <<log, processed, halted, base>>
         /\ mode' = "raised" /\ mode \in {"open", "handling"}
BY DEF Ends, HandlerRaises, DispatchRaises, EmitRaises, B!HandlerRaises, B!EmitRaises, diskVars

(* One emission, or one halt, of those the verb made.                      *)
LEMMA FlushFacts ==
  ASSUME IInv, Flush
  PROVE  /\ mode = "handling" /\ mode' = "handling" /\ outbox # << >> /\ flight = NoFlight
         /\ RaceLeft
         /\ UNCHANGED <<meterVars, stateVars, todo, flight, ghostVars, store, policy>>
         /\ UNCHANGED <<processed, base>>
<1>1. outbox # << >> /\ mode = "handling" /\ mode' = "handling" /\ UNCHANGED <<processed, base>>
  BY DEF Flush, FlushEmit, FlushHalt, B!Emit, B!Halt, busVars
<1>2. UNCHANGED <<meterVars, stateVars, todo, flight, ghostVars, store, policy>>
  BY DEF Flush, FlushEmit, FlushHalt, diskVars
<1> QED  BY <1>1, <1>2 DEF IInv, FlightOK, WorkOK

(* The steps, in the groups that the lemmas below go through.              *)
LEMMA Cases ==
  ASSUME [Next]_vars
  PROVE  \/ Wake \/ Restart \/ Outside \/ Ends \/ Flush
         \/ StartDispatch \/ Verify \/ HandlersReturn
         \/ \E status \in Status, cost \in Costs : Finish(status, cost)
         \/ AdapterRaises
         \/ UNCHANGED vars
BY DEF Next, Kernel, AdapterReturns, Wake, Restart, Outside, Ends

LEMMA FlightNext ==
  ASSUME IInv, [Next]_vars
  PROVE  FlightOK' /\ DoneBetweenWakes'
<1>0. FlightOK /\ DoneBetweenWakes
  BY DEF IInv
<1>1. CASE Wake
  BY <1>1, WakeStarts DEF FlightOK, DoneBetweenWakes
<1>2. CASE Restart
  BY <1>2, RestartFacts DEF StartsOver, FlightOK, DoneBetweenWakes
<1>3. CASE Outside \/ Ends
  BY <1>0, <1>3, OutsideFacts, EndsFacts
     DEF FlightOK, DoneBetweenWakes, workVars, stateVars
<1>4. CASE Flush
  BY <1>4, FlushFacts DEF FlightOK, DoneBetweenWakes
<1>5. CASE StartDispatch
  <2> DEFINE w == Head(todo)
  <2>1. mode' = "handling" /\ outbox = << >> /\ drained' = drained
    BY <1>5 DEF StartDispatch, Ready, busVars
  <2>2. \/ flight' = NoFlight
        \/ /\ flight' = [lane |-> w.lane, cid |-> IdFor(w), verb |-> w.verb]
           /\ w.lane \notin drained /\ outbox' = outbox
    BY <1>5 DEF StartDispatch, Ready
  <2>3. w.lane \in Lanes /\ IdFor(w) \in ContractIds /\ w.verb \in Verbs \cup {"dispatch"}
    BY <1>5, StartedContract
  <2> HIDE DEF w
  <2> QED  BY <2>1, <2>2, <2>3 DEF FlightOK, Flights, DoneBetweenWakes
<1>6. CASE Verify
  BY <1>6 DEF Verify, Ready, busVars, FlightOK, DoneBetweenWakes
<1>7. CASE HandlersReturn
  BY <1>7 DEF HandlersReturn, workVars, FlightOK, DoneBetweenWakes
<1>8. CASE AdapterRaises \/ \E status \in Status, cost \in Costs : Finish(status, cost)
  BY <1>8 DEF AdapterRaises, Finish, busVars, FlightOK, DoneBetweenWakes
<1>9. CASE UNCHANGED vars
  BY <1>0, <1>9 DEF vars, busVars, workVars, stateVars, FlightOK, DoneBetweenWakes
<1> QED  BY <1>1, <1>2, <1>3, <1>4, <1>5, <1>6, <1>7, <1>8, <1>9, Cases

(* What is left after one thing is taken from the list.                    *)
LEMMA TailOfWork ==
  ASSUME IInv, todo # << >>, todo' = Tail(todo)
  PROVE  /\ RaceLeft'
         /\ \A i \in DOMAIN todo' : todo'[i].verb \notin {"verify", "decide"} => todo'[i].lane \in Lanes
         /\ halted => Head(todo).verb = "race"
<1>1. WorkOK
  BY DEF IInv
<1>2. /\ Head(todo) = todo[1] /\ 1 \in DOMAIN todo
      /\ Tail(todo) \in Seq(WorkItem) /\ Len(Tail(todo)) = Len(todo) - 1 /\ Len(todo) \in Nat \ {0}
      /\ \A i \in 1 .. Len(todo) - 1 : Tail(todo)[i] = todo[i + 1] /\ i + 1 \in DOMAIN todo
  BY WorkHead DEF IInv
<1>3. DOMAIN todo' = 1 .. Len(todo) - 1
  BY <1>2, LenProperties
<1>4. RaceLeft'
  <2>1. CASE Len(todo) <= 1
    BY <1>2, <1>3, <2>1 DEF RaceLeft
  <2>2. CASE RaceLeft
    BY <1>2, <1>3, <2>2 DEF RaceLeft
  <2> QED  BY <1>1, <2>1, <2>2 DEF WorkOK
<1> QED  BY <1>1, <1>2, <1>3, <1>4 DEF WorkOK, RaceLeft

LEMMA WorkNext ==
  ASSUME IInv, [Next]_vars
  PROVE  WorkOK'
<1>0. WorkOK
  BY DEF IInv
<1>1. CASE Wake
  <2>1. /\ ~halted' /\ flight' = NoFlight /\ Fresh(todo')
        /\ outbox' = << >> \/ todo' = << >>
    BY <1>1, WakeStarts
  <2> QED  BY <2>1, NothingIsTyped DEF Fresh, WorkOK, RaceLeft
<1>2. CASE Restart
  BY <1>2, RestartFacts, NothingIsTyped DEF StartsOver, WorkOK, RaceLeft
<1>3. CASE Outside \/ Ends
  BY <1>0, <1>3, OutsideFacts, EndsFacts DEF WorkOK, RaceLeft, workVars
<1>4. CASE Flush
  BY <1>0, <1>4, FlushFacts DEF WorkOK, RaceLeft
<1>5. CASE StartDispatch
  <2>1. todo # << >> /\ todo' = Tail(todo) /\ halted' = halted
    BY <1>5 DEF StartDispatch, Ready, busVars
  <2>2. flight' # NoFlight => flight'.verb = Head(todo).verb
    BY <1>5 DEF StartDispatch, Ready
  <2> QED  BY <2>1, <2>2, TailOfWork DEF WorkOK
<1>6. CASE Verify
  <2>1. todo # << >> /\ todo' = Tail(todo) /\ flight' = NoFlight
    BY <1>6 DEF Verify, Ready
  <2> QED  BY <2>1, TailOfWork DEF WorkOK
<1>7. CASE HandlersReturn
  BY <1>7, NothingIsTyped DEF HandlersReturn, workVars, WorkOK, RaceLeft
<1>8. CASE AdapterRaises \/ \E status \in Status, cost \in Costs : Finish(status, cost)
  BY <1>0, <1>8 DEF AdapterRaises, Finish, busVars, WorkOK, RaceLeft
<1>9. CASE UNCHANGED vars
  BY <1>0, <1>9 DEF vars, busVars, workVars, WorkOK, RaceLeft
<1> QED  BY <1>1, <1>2, <1>3, <1>4, <1>5, <1>6, <1>7, <1>8, <1>9, Cases

-----------------------------------------------------------------------------
(* Hard halts.                                                             *)
LEMMA FlushedOutbox ==
  ASSUME IInv, Flush
  PROVE  /\ outbox \in Seq(OutItem) /\ outbox' \in Seq(OutItem)
         /\ Len(outbox) \in Nat \ {0} /\ DOMAIN outbox = 1 .. Len(outbox)
         /\ DOMAIN outbox' = 1 .. Len(outbox')
         /\ FlushEmit => outbox[1].type # "halt"
         /\ FlushHalt => outbox[1].type = "halt"
         /\ \/ /\ FlushEmit /\ outbox[1].halts
               /\ Len(outbox') = Len(outbox) /\ outbox'[1] = Halting
               /\ \A i \in 2 .. Len(outbox) : outbox'[i] = outbox[i]
            \/ /\ FlushHalt \/ (FlushEmit /\ ~outbox[1].halts)
               /\ Len(outbox') = Len(outbox) - 1
               /\ \A i \in 1 .. Len(outbox) - 1 : outbox'[i] = outbox[i + 1]
<1>1. outbox # << >> /\ outbox \in Seq(OutItem)
  BY DEF Flush, FlushEmit, FlushHalt, IInv, TypeOK
<1> DEFINE rest == Tail(outbox)
<1>2. /\ Head(outbox) = outbox[1] /\ rest \in Seq(OutItem) /\ Len(rest) = Len(outbox) - 1
      /\ \A i \in 1 .. Len(outbox) - 1 : rest[i] = outbox[i + 1]
  BY <1>1, HeadIsOut DEF IInv
<1>3. Len(outbox) \in Nat \ {0} /\ DOMAIN outbox = 1 .. Len(outbox)
  BY <1>1, LenProperties
<1>4. Halting \in OutItem
  BY OutIsTyped DEF Halting, Ids
<1> HIDE DEF rest
<1>5. /\ <<Halting>> \in Seq(OutItem) /\ Len(<<Halting>>) = 1 /\ <<Halting>>[1] = Halting
  BY <1>4, ShortSeqs
<1>6. /\ <<Halting>> \o rest \in Seq(OutItem) /\ Len(<<Halting>> \o rest) = Len(outbox)
      /\ (<<Halting>> \o rest)[1] = Halting
      /\ \A i \in 2 .. Len(outbox) : (<<Halting>> \o rest)[i] = outbox[i]
  <2>1. /\ <<Halting>> \o rest \in Seq(OutItem) /\ Len(<<Halting>> \o rest) = 1 + Len(rest)
        /\ \A i \in 1 .. 1 + Len(rest) :
             (<<Halting>> \o rest)[i] = IF i <= 1 THEN <<Halting>>[i] ELSE rest[i - 1]
    BY <1>2, <1>5, ConcatProperties
  <2>2. ASSUME NEW i \in 2 .. Len(outbox) PROVE (<<Halting>> \o rest)[i] = outbox[i]
    <3>1. (<<Halting>> \o rest)[i] = rest[i - 1]
      BY <1>2, <1>3, <2>1
    <3>2. i - 1 \in 1 .. Len(outbox) - 1 /\ (i - 1) + 1 = i
      BY <1>3
    <3> QED  BY <1>2, <3>1, <3>2
  <2> QED  BY <1>2, <1>3, <1>5, <2>1, <2>2
<1>7. /\ FlushEmit => outbox[1].type # "halt"
      /\ FlushHalt => outbox[1].type = "halt"
  BY <1>2 DEF FlushEmit, FlushHalt
<1>8. CASE FlushEmit /\ outbox[1].halts
  <2>1. outbox' = <<Halting>> \o rest
    BY <1>2, <1>8 DEF FlushEmit, rest
  <2> QED  BY <1>1, <1>3, <1>6, <1>7, <1>8, <2>1, LenProperties
<1>9. CASE FlushHalt \/ (FlushEmit /\ ~outbox[1].halts)
  <2>1. outbox' = rest
    BY <1>2, <1>9 DEF FlushEmit, FlushHalt, rest
  <2> QED  BY <1>1, <1>2, <1>3, <1>7, <1>9, <2>1, LenProperties
<1> QED  BY <1>8, <1>9 DEF Flush

(* What StartDispatch, verify and a raising adapter emit is no threshold.  *)
LEMMA BareOutbox ==
  ASSUME IInv, StartDispatch \/ Verify \/ AdapterRaises
  PROVE  /\ mode = "handling" /\ mode' = "handling" /\ outbox = << >>
         /\ UNCHANGED <<log, base, halted, processed, payload, told, inReflex, handledBy>>
         /\ \A i \in DOMAIN outbox' : outbox'[i].th = None
<1>1. /\ mode = "handling" /\ mode' = "handling" /\ outbox = << >>
      /\ UNCHANGED <<log, base, halted, processed, payload, told, inReflex, handledBy>>
  BY DEF StartDispatch, Verify, AdapterRaises, Ready, IInv, FlightOK, M!Forgo,
         busVars, meterVars, stateVars, ghostVars, diskVars
<1>2. \/ outbox' = << >>
      \/ \E t \in {"policy_exception", "verify_failed", "worker_failed"}, c \in Ids : outbox' = <<Out(t, c)>>
      \/ outbox' = <<[Out("budget_threshold", None) EXCEPT !.halts = TRUE]>>
  <2>1. CASE StartDispatch
    BY <1>1, <2>1 DEF StartDispatch, Ids
  <2>2. CASE Verify
    BY <2>2 DEF Verify, Ids
  <2>3. CASE AdapterRaises
    BY <2>3 DEF AdapterRaises, IInv, FlightOK, Flights, Ids
  <2> QED  BY <2>1, <2>2, <2>3
<1>3. \A i \in DOMAIN outbox' : outbox'[i].th = None
  <2>1. CASE outbox' = << >>
    BY <2>1
  <2>2. CASE \E t \in {"policy_exception", "verify_failed", "worker_failed"}, c \in Ids :
               outbox' = <<Out(t, c)>>
    BY <2>2 DEF Out
  <2>3. CASE outbox' = <<[Out("budget_threshold", None) EXCEPT !.halts = TRUE]>>
    BY <2>3 DEF Out
  <2> QED  BY <1>2, <2>1, <2>2, <2>3
<1> QED  BY <1>1, <1>3

LEMMA BareNext ==
  ASSUME IInv, [Next]_vars
  PROVE  HaltsAreBare'
<1>0. HaltsAreBare
  BY DEF IInv
<1>1. CASE Wake
  <2>1. CASE outbox' = << >>
    BY <2>1 DEF HaltsAreBare
  <2>2. CASE OneOut(outbox')
    BY <2>2 DEF OneOut, HaltsAreBare
  <2> QED  BY <1>1, <2>1, <2>2, WakeStarts
<1>2. CASE Restart \/ HandlersReturn
  BY <1>2, RestartFacts, NothingIsTyped DEF StartsOver, HandlersReturn, workVars, HaltsAreBare
<1>3. CASE Outside \/ Ends
  BY <1>0, <1>3, OutsideFacts, EndsFacts DEF workVars, HaltsAreBare
<1>4. CASE Flush
  <2>1. Halting.th = None
    BY DEF Halting, Out
  <2>2. ASSUME NEW i \in DOMAIN outbox', outbox'[i].type = "halt" PROVE outbox'[i].th = None
    <3>1. i \in 1 .. Len(outbox') /\ Len(outbox) \in Nat \ {0} /\ DOMAIN outbox = 1 .. Len(outbox)
      BY <1>4, FlushedOutbox
    <3>2. CASE Len(outbox') = Len(outbox) /\ outbox'[1] = Halting
               /\ \A j \in 2 .. Len(outbox) : outbox'[j] = outbox[j]
      BY <1>0, <2>1, <2>2, <3>1, <3>2 DEF HaltsAreBare
    <3>3. CASE Len(outbox') = Len(outbox) - 1
               /\ \A j \in 1 .. Len(outbox) - 1 : outbox'[j] = outbox[j + 1]
      <4>1. i + 1 \in DOMAIN outbox /\ outbox'[i] = outbox[i + 1]
        BY <3>1, <3>3
      <4> QED  BY <1>0, <2>2, <4>1 DEF HaltsAreBare
    <3> QED  BY <1>4, <3>2, <3>3, FlushedOutbox
  <2> QED  BY <2>2 DEF HaltsAreBare
<1>5. CASE StartDispatch \/ Verify \/ AdapterRaises
  BY <1>5, BareOutbox DEF HaltsAreBare
<1>6. ASSUME NEW status \in Status, NEW cost \in Costs, Finish(status, cost)
      PROVE  HaltsAreBare'
  <2>1. \A i \in DOMAIN outbox' : outbox'[i].type # "halt"
    BY <1>6, FinishFacts
  <2> QED  BY <2>1 DEF HaltsAreBare
<1>7. CASE UNCHANGED vars
  BY <1>0, <1>7 DEF vars, workVars, HaltsAreBare
<1> QED  BY <1>1, <1>2, <1>3, <1>4, <1>5, <1>6, <1>7, Cases

LEMMA HaltNext ==
  ASSUME IInv, [Next]_vars
  PROVE  HaltComes'
<1>0. HaltComes
  BY DEF IInv
<1>1. CASE Wake
  BY <1>0, <1>1, WakeStarts, NothingIsTyped DEF HaltComes, meterVars
<1>2. CASE Restart
  BY <1>2, RestartFacts, NothingIsTyped DEF StartsOver, HaltComes
<1>3. CASE Outside \/ Ends
  BY <1>0, <1>3, OutsideFacts, EndsFacts DEF workVars, meterVars, HaltComes
<1>4. CASE FlushHalt
  <2>1. halted'
    BY <1>4 DEF FlushHalt, B!Halt, busVars
  <2> QED  BY <2>1 DEF HaltComes
<1>5. CASE FlushEmit
  <2>1. told' = told /\ halted' = halted
    BY <1>5, FlushFacts DEF Flush, FlushEmit, B!Emit, meterVars
  <2>2. SUFFICES ASSUME \E i \in DOMAIN outbox : HaltsTheBus(outbox[i])
                 PROVE  \E i \in DOMAIN outbox' : HaltsTheBus(outbox'[i])
    BY <1>0, <2>1 DEF HaltComes
  <2>3. PICK i \in DOMAIN outbox : HaltsTheBus(outbox[i])
    BY <2>2
  <2>4. CASE outbox[1].halts
    <3>1. outbox'[1] = Halting /\ 1 \in DOMAIN outbox'
      <4>1. Flush /\ ~FlushHalt
        BY <1>5 DEF Flush, FlushEmit, FlushHalt
      <4>2. outbox'[1] = Halting /\ Len(outbox') = Len(outbox) /\ DOMAIN outbox' = 1 .. Len(outbox')
        BY <2>4, <4>1, FlushedOutbox
      <4>3. Len(outbox) \in Nat \ {0}
        BY <4>1, FlushedOutbox
      <4> QED  BY <4>2, <4>3
    <3> QED  BY <3>1 DEF HaltsTheBus, Halting, Out
  <2>5. CASE ~outbox[1].halts
    <3>1. i # 1 /\ i \in 1 .. Len(outbox) /\ Len(outbox) \in Nat
      BY <1>5, <2>3, <2>5, FlushedOutbox DEF HaltsTheBus, Flush
    <3>2. i - 1 \in 1 .. Len(outbox) - 1 /\ (i - 1) + 1 = i
      BY <3>1
    <3>3. i - 1 \in DOMAIN outbox' /\ outbox'[i - 1] = outbox[(i - 1) + 1]
      BY <1>5, <2>5, <3>2, FlushedOutbox DEF Flush
    <3> QED  BY <2>3, <3>2, <3>3
  <2> QED  BY <2>4, <2>5
<1>6. CASE StartDispatch \/ Verify \/ AdapterRaises
  BY <1>0, <1>6, BareOutbox, NothingIsTyped DEF HaltComes
<1>7. ASSUME NEW status \in Status, NEW cost \in Costs, Finish(status, cost)
      PROVE  HaltComes'
  <2> DEFINE ths == M!Returned(cost)
  <2>1. /\ ths \in Seq(M!Threshold) /\ told' = told \o ths
        /\ Len(outbox') \in Nat /\ Len(outbox') >= Len(ths) + 1 /\ outbox' \in Seq(OutItem)
        /\ \A i \in 1 .. Len(ths) : outbox'[i] = ThresholdOut(ths[i])
    BY <1>7, FinishFacts
  <2> HIDE DEF ths
  <2>2. outbox = << >> /\ halted' = halted /\ told \in Seq(M!Threshold)
    BY <1>7 DEF Finish, busVars, IInv, FlightOK, TypeOK, M!MTypeOK
  <2>3. ASSUME NEW i \in DOMAIN told', M!HardHalt(told'[i]), ~halted
        PROVE  \E j \in DOMAIN outbox' : HaltsTheBus(outbox'[j])
    <3>1. /\ DOMAIN told' = 1 .. Len(told) + Len(ths) /\ Len(told) \in Nat /\ Len(ths) \in Nat
          /\ told'[i] = IF i <= Len(told) THEN told[i] ELSE ths[i - Len(told)]
      BY <2>1, <2>2, ConcatProperties, LenProperties
    <3>2. i > Len(told)
      <4>1. \A j \in 1 .. Len(told) : ~M!HardHalt(told[j])
        BY <1>0, <2>2, <2>3, LenProperties DEF HaltComes
      <4> QED  BY <2>3, <3>1, <4>1
    <3> DEFINE j == i - Len(told)
    <3>3. j \in 1 .. Len(ths) /\ told'[i] = ths[j]
      BY <3>1, <3>2
    <3>4. outbox'[j].halts
      <4>1. outbox'[j] = ThresholdOut(ths[j]) /\ M!HardHalt(ths[j])
        BY <2>1, <2>3, <3>3
      <4>2. ASSUME NEW th, M!HardHalt(th) PROVE ThresholdOut(th).halts = TRUE
        BY <4>2 DEF ThresholdOut
      <4> QED  BY <4>1, <4>2
    <3>5. j \in DOMAIN outbox'
      BY <2>1, <3>1, <3>3, LenProperties
    <3> HIDE DEF j
    <3> QED  BY <3>4, <3>5 DEF HaltsTheBus
  <2> QED  BY <2>2, <2>3 DEF HaltComes
<1>8. CASE HandlersReturn \/ UNCHANGED vars
  BY <1>0, <1>8 DEF HandlersReturn, B!HandlersReturn, vars, busVars, workVars, meterVars, HaltComes
<1> QED  BY <1>1, <1>2, <1>3, <1>4, <1>5, <1>6, <1>7, <1>8, Cases DEF Flush

-----------------------------------------------------------------------------
(* Reflexes.                                                               *)
MarksOK == ReflexesMarked /\ ReflexesStayBetweenWakes

LEMMA HandlersTyped ==
  ASSUME IInv
  PROVE  /\ handledBy \in Seq({"reflex", "executive"}) /\ Len(handledBy) = Len(processed)
         /\ Len(handledBy) \in Nat /\ DOMAIN handledBy = 1 .. Len(handledBy)
         /\ DOMAIN processed = DOMAIN handledBy
         /\ \A s \in base .. Len(log) - 1 : payload[s + 1] \in EventPayload
<1>1. handledBy \in Seq({"reflex", "executive"}) /\ Len(handledBy) = Len(processed)
  BY DEF IInv, TypeOK
<1>2. processed \in Seq(B!Queued) /\ base \in Nat /\ Len(log) \in Nat
  BY BusFacts
<1>3. payload \in Seq(EventPayload) /\ Len(payload) = Len(log)
  BY DEF IInv, TypeOK
<1>4. ASSUME NEW s \in base .. Len(log) - 1 PROVE payload[s + 1] \in EventPayload
  <2>1. s + 1 \in 1 .. Len(payload)
    BY <1>2, <1>3
  <2> QED  BY <1>3, <2>1, ElementOfSeq
<1> QED  BY <1>1, <1>2, <1>4, LenProperties

LEMMA MarksKept ==
  ASSUME IInv, UNCHANGED <<handledBy, processed, log, base, payload>>,
         mode' # "down" => mode # "down",
         mode' = "handling" => mode = "handling" /\ inReflex' = inReflex
  PROVE  MarksOK'
BY DEF IInv, MarksOK, ReflexesMarked, ReflexesStayBetweenWakes, MarkedIn, CausedByReflex

(* An event is logged.                                                     *)
LEMMA MarksEmit ==
  ASSUME IInv, NEW t \in EventType, B!Emit(t), NEW cid, NEW th, Record(cid, th),
         UNCHANGED <<handledBy, inReflex>>
  PROVE  MarksOK'
<1> DEFINE e == [cid |-> cid, th |-> th, reflex |-> inReflex,
                 cause |-> IF mode = "handling" THEN Len(processed) ELSE 0]
<1>1. /\ Len(log') = Len(log) + 1 /\ Len(log) \in Nat /\ mode \in {"open", "handling"}
      /\ UNCHANGED <<mode, processed, base>>
  BY EmitFacts
<1>2. /\ Len(handledBy) = Len(processed) /\ Len(handledBy) \in Nat
      /\ DOMAIN handledBy = 1 .. Len(handledBy) /\ DOMAIN processed = DOMAIN handledBy
  BY HandlersTyped
<1>3. payload' = Append(payload, e) /\ payload \in Seq(EventPayload) /\ Len(payload) = Len(log)
  BY DEF Record, IInv, TypeOK
<1>4. e.reflex = inReflex /\ e.cause = IF mode = "handling" THEN Len(processed) ELSE 0
  OBVIOUS
<1> HIDE DEF e
<1>5. /\ \A i \in 1 .. Len(log) : payload'[i] = payload[i]
      /\ payload'[Len(log) + 1] = e
  BY <1>3
<1>6. ReflexesMarked'
  <2>1. ASSUME NEW s \in base .. Len(log') - 1 PROVE MarkedIn(s)'
    <3>1. CASE s = Len(log)
      <4>1. payload'[s + 1] = e
        BY <1>5, <3>1
      <4> QED  BY <1>1, <1>2, <1>4, <4>1 DEF MarkedIn, IInv, ReflexesMarked
    <3>2. CASE s # Len(log)
      <4>1. s \in base .. Len(log) - 1 /\ s + 1 \in 1 .. Len(log)
        BY <1>1, <3>2, BusFacts
      <4>2. MarkedIn(s) /\ payload'[s + 1] = payload[s + 1]
        BY <1>1, <1>5, <4>1 DEF IInv, ReflexesMarked
      <4> QED  BY <4>2 DEF MarkedIn
    <3> QED  BY <3>1, <3>2
  <2>2. mode' = "handling" /\ handledBy'[Len(handledBy')] = "reflex" => inReflex'
    BY <1>1 DEF IInv, ReflexesMarked
  <2> QED  BY <1>1, <2>1, <2>2 DEF ReflexesMarked
<1>7. ReflexesStayBetweenWakes'
  <2>1. ASSUME NEW i \in DOMAIN handledBy
        PROVE  payload'[processed[i].seq + 1] = payload[processed[i].seq + 1]
    <3>1. processed[i].seq \in base .. Len(log) - 1 /\ base \in Nat
      BY <1>2, BusFacts
    <3> QED  BY <1>1, <1>5, <3>1
  <2> QED  BY <1>1, <2>1 DEF IInv, ReflexesStayBetweenWakes, CausedByReflex
<1> QED  BY <1>6, <1>7 DEF MarksOK

(* An event is answered.                                                   *)
LEMMA MarksWake ==
  ASSUME IInv, Wake
  PROVE  MarksOK'
<1>1. B!Pop
  BY DEF Wake, WakeReflex, WakeExecutive, WakeUnanswered
<1>2. /\ mode = "running" /\ mode' = "handling" /\ UNCHANGED <<log, base, payload>>
      /\ Taken = processed'[Len(processed) + 1] /\ Taken \in queue
      /\ TakenPayload = payload[Taken.seq + 1]
      /\ \A i \in DOMAIN processed : processed'[i] = processed[i]
  BY <1>1, PopFacts, WakeStarts
<1>3. /\ handledBy \in Seq({"reflex", "executive"})
      /\ Len(handledBy) = Len(processed) /\ Len(handledBy) \in Nat
      /\ DOMAIN handledBy = 1 .. Len(handledBy) /\ DOMAIN processed = DOMAIN handledBy
      /\ \A s \in base .. Len(log) - 1 : payload[s + 1] \in EventPayload
  BY HandlersTyped
<1>4. PICK h \in {"reflex", "executive"} : handledBy' = Append(handledBy, h)
  BY DEF Wake, WakeReflex, WakeExecutive, WakeUnanswered
<1>5. h = "reflex" => inReflex' /\ Reflexable(Taken.type) /\ ~TakenPayload.reflex
  <2>1. CASE WakeReflex
    BY <2>1 DEF WakeReflex
  <2>2. CASE WakeExecutive \/ WakeUnanswered
    <3>1. handledBy' = Append(handledBy, "executive")
      BY <2>2 DEF WakeExecutive, WakeUnanswered
    <3>2. h = "executive"
      <4>1. Append(handledBy, h)[Len(handledBy) + 1] = h
        BY <1>3, AppendProperties
      <4>2. Append(handledBy, "executive")[Len(handledBy) + 1] = "executive"
        BY <1>3, AppendProperties
      <4> QED  BY <1>4, <3>1, <4>1, <4>2
    <3> QED  BY <3>2
  <2> QED  BY <2>1, <2>2 DEF Wake
<1>6. /\ Len(handledBy') = Len(handledBy) + 1 /\ DOMAIN handledBy' = 1 .. Len(handledBy) + 1
      /\ handledBy'[Len(handledBy) + 1] = h
      /\ \A i \in 1 .. Len(handledBy) : handledBy'[i] = handledBy[i]
  BY <1>3, <1>4, AppendProperties, LenProperties
<1>7. ASSUME NEW s \in base .. Len(log) - 1
      PROVE  /\ MarkedIn(s) /\ MarkedIn(s)' /\ CausedByReflex(s)' = CausedByReflex(s)
             /\ CausedByReflex(s) => payload[s + 1].reflex
  <2>1. MarkedIn(s)
    BY <1>2 DEF IInv, ReflexesMarked
  <2>2. payload[s + 1].cause \in Nat
    BY <1>3 DEF EventPayload
  <2>3. payload[s + 1].cause > 0 => handledBy'[payload[s + 1].cause] = handledBy[payload[s + 1].cause]
    BY <1>3, <1>6, <2>1, <2>2 DEF MarkedIn
  <2> QED  BY <1>2, <1>3, <1>6, <2>1, <2>2, <2>3 DEF MarkedIn, CausedByReflex
<1>8. ReflexesMarked'
  BY <1>2, <1>5, <1>6, <1>7 DEF ReflexesMarked
<1>9. ASSUME NEW i \in DOMAIN handledBy', handledBy'[i] = "reflex"
      PROVE  /\ Reflexable(processed'[i].type)
             /\ LET c == payload'[processed'[i].seq + 1].cause
                IN  ~(c > 0 /\ handledBy'[c] = "reflex")
  <2>1. CASE i \in DOMAIN processed
    <3>1. processed'[i] = processed[i] /\ handledBy[i] = "reflex" /\ i \in DOMAIN handledBy
      BY <1>2, <1>3, <1>6, <1>9, <2>1
    <3>2. processed[i].seq \in base .. Len(log) - 1
      BY <2>1, BusFacts
    <3>3. Reflexable(processed[i].type) /\ ~CausedByReflex(processed[i].seq)
      BY <3>1 DEF IInv, ReflexesStayBetweenWakes
    <3>4. ~(payload'[processed[i].seq + 1].cause > 0
              /\ handledBy'[payload'[processed[i].seq + 1].cause] = "reflex")
      <4> DEFINE s == processed[i].seq
      <4>1. s \in base .. Len(log) - 1 /\ ~CausedByReflex(s)
        BY <3>2, <3>3
      <4>2. payload[s + 1].cause \in Nat /\ MarkedIn(s)
        BY <1>3, <1>7, <4>1 DEF EventPayload
      <4> HIDE DEF s
      <4>3. payload[s + 1].cause > 0 =>
              handledBy'[payload[s + 1].cause] = handledBy[payload[s + 1].cause]
        BY <1>3, <1>6, <4>2 DEF MarkedIn
      <4> QED  BY <1>2, <4>1, <4>3 DEF CausedByReflex, s
    <3> QED  BY <3>1, <3>3, <3>4
  <2>2. CASE i = Len(handledBy) + 1
    <3>1. processed'[i] = Taken /\ h = "reflex"
      BY <1>2, <1>3, <1>6, <1>9, <2>2
    <3> DEFINE s == Taken.seq
    <3>2. s \in base .. Len(log) - 1
      BY <1>2, BusFacts
    <3>3. Reflexable(Taken.type) /\ ~payload[s + 1].reflex
      BY <1>2, <1>5, <3>1
    <3>4. payload[s + 1].cause \in Nat /\ MarkedIn(s)
      BY <1>3, <1>7, <3>2 DEF EventPayload
    <3> HIDE DEF s
    <3>5. ~(payload[s + 1].cause > 0 /\ handledBy'[payload[s + 1].cause] = "reflex")
      BY <1>3, <1>6, <3>3, <3>4 DEF MarkedIn
    <3> QED  BY <1>2, <3>1, <3>3, <3>5 DEF s
  <2> QED  BY <1>3, <1>6, <2>1, <2>2
<1>10. ReflexesStayBetweenWakes'
  BY <1>9 DEF ReflexesStayBetweenWakes, CausedByReflex
<1> QED  BY <1>8, <1>10 DEF MarksOK

LEMMA MarksNext ==
  ASSUME IInv, [Next]_vars
  PROVE  MarksOK'
<1>1. CASE Wake
  BY <1>1, MarksWake
<1>2. CASE Restart
  <2>1. handledBy' = << >> /\ mode' \in {"open", "down"} /\ (mode' = "open" => base' = Len(log'))
    BY <1>2, RestartFacts DEF StartsOver
  <2>2. log' \in Seq(EventType)
    BY <1>2, RestartFacts, BusFacts
  <2>3. Len(log') \in Nat
    BY <2>2, LenProperties
  <2> QED  BY <2>1, <2>3, NothingIsTyped DEF MarksOK, ReflexesMarked, ReflexesStayBetweenWakes
<1>3. CASE Submit \/ OperatorSpeaks
  <2>1. PICK t \in {"task_received", "human_input"} : B!Emit(t) /\ Record(None, None)
    BY <1>3 DEF Submit, OperatorSpeaks
  <2>2. t \in EventType /\ UNCHANGED <<handledBy, inReflex>>
    BY <1>3 DEF Submit, OperatorSpeaks, EventType, ghostVars, stateVars
  <2> QED  BY <2>1, <2>2, MarksEmit
<1>4. CASE FlushEmit
  <2>1. Head(outbox).type \in EventType
    BY <1>4, HeadIsOut DEF FlushEmit, OutItem, IInv
  <2> QED  BY <1>4, <2>1, MarksEmit DEF FlushEmit, ghostVars, stateVars
<1>5. CASE RunStarts \/ RunEnds \/ HandlersReturn
  BY <1>5, MarksKept DEF RunStarts, RunEnds, HandlersReturn, B!RunStarts, B!RunReturns,
                         B!RunRaises, B!HandlersReturn, ghostVars, diskVars
<1>6. CASE Ends
  BY <1>6, EndsFacts, MarksKept DEF ghostVars, diskVars
<1>7. CASE StartDispatch \/ Verify \/ AdapterRaises
  BY <1>7, BareOutbox, MarksKept
<1>8. CASE FlushHalt \/ \E status \in Status, cost \in Costs : Finish(status, cost)
  BY <1>8, MarksKept DEF FlushHalt, Finish, B!Halt, busVars, stateVars, ghostVars, diskVars
<1>9. CASE UNCHANGED vars
  BY <1>9, MarksKept DEF vars, busVars, stateVars, ghostVars, diskVars
<1> QED  BY <1>1, <1>2, <1>3, <1>4, <1>5, <1>6, <1>7, <1>8, <1>9, Cases DEF Outside, Flush

-----------------------------------------------------------------------------
(* Streaks.                                                                *)
Result == Status \cup {"raised"}

Streak(rs) ==
    {i \in DOMAIN rs :
        rs[i] = "failed" /\ \A j \in i .. Len(rs) : rs[j] \notin {"done", "verify_failed"}}

LEMMA StreakFacts ==
  ASSUME NEW rs \in Seq(Result), NEW x \in Result
  PROVE  /\ FailuresSinceSuccess(rs) \in Nat
         /\ Append(rs, x) # << >> /\ Append(rs, x)[Len(Append(rs, x))] = x
         /\ FailuresSinceSuccess(Append(rs, x)) =
              CASE x \in {"done", "verify_failed"} -> 0
                [] x = "failed" -> FailuresSinceSuccess(rs) + 1
                [] OTHER -> FailuresSinceSuccess(rs)
<1> DEFINE ys == Append(rs, x)  k == Len(rs) + 1
<1>1. /\ Len(rs) \in Nat /\ DOMAIN rs = 1 .. Len(rs)
      /\ ys \in Seq(Result) /\ ys # << >> /\ Len(ys) = k /\ DOMAIN ys = 1 .. k
      /\ ys[k] = x /\ \A i \in 1 .. Len(rs) : ys[i] = rs[i]
  BY AppendProperties, LenProperties
<1>2. /\ FailuresSinceSuccess(rs) = Cardinality(Streak(rs))
      /\ FailuresSinceSuccess(ys) = Cardinality(Streak(ys))
  BY DEF FailuresSinceSuccess, Streak
<1> HIDE DEF ys
<1>3. IsFiniteSet(Streak(rs)) /\ Cardinality(Streak(rs)) \in Nat
  <2>1. IsFiniteSet(1 .. Len(rs)) /\ Streak(rs) \in SUBSET (1 .. Len(rs))
    BY <1>1, FS_Interval DEF Streak
  <2> QED  BY <2>1, FS_Subset, FS_CardinalityType
<1>4. ASSUME x \in {"done", "verify_failed"}
      PROVE  Cardinality(Streak(ys)) = 0
  <2>1. ASSUME NEW i \in Streak(ys) PROVE FALSE
    <3>1. i \in 1 .. k /\ \A j \in i .. k : ys[j] \notin {"done", "verify_failed"}
      BY <1>1 DEF Streak
    <3>2. k \in i .. k
      BY <1>1, <3>1
    <3> QED  BY <1>1, <1>4, <3>1, <3>2
  <2>2. Streak(ys) = {}
    BY <2>1
  <2> QED  BY <2>2, FS_EmptySet
<1>5. ASSUME x \notin {"done", "verify_failed"}, NEW i \in 1 .. Len(rs)
      PROVE  i \in Streak(ys) <=> i \in Streak(rs)
  <2>1. /\ i .. k = (i .. Len(rs)) \cup {k} /\ i \in DOMAIN ys /\ i \in DOMAIN rs
        /\ ys[i] = rs[i]
    BY <1>1
  <2>2. (\A j \in i .. k : ys[j] \notin {"done", "verify_failed"})
          <=> (\A j \in i .. Len(rs) : rs[j] \notin {"done", "verify_failed"})
    BY <1>1, <1>5, <2>1
  <2> QED  BY <1>1, <2>1, <2>2 DEF Streak
<1>6. k \notin Streak(rs) /\ (x = "failed" <=> k \in Streak(ys) /\ x \notin {"done", "verify_failed"})
  BY <1>1 DEF Streak
<1>7. Streak(rs) \subseteq 1 .. Len(rs) /\ Streak(ys) \subseteq (1 .. Len(rs)) \cup {k}
  BY <1>1 DEF Streak
<1>8. ASSUME x = "failed"
      PROVE  Cardinality(Streak(ys)) = Cardinality(Streak(rs)) + 1
  <2>1. Streak(ys) = Streak(rs) \cup {k}
    BY <1>5, <1>6, <1>7, <1>8
  <2> QED  BY <1>3, <1>6, <2>1, FS_AddElement
<1>9. ASSUME x \notin {"done", "verify_failed", "failed"}
      PROVE  Streak(ys) = Streak(rs)
  BY <1>5, <1>6, <1>7, <1>9
<1> QED  BY <1>1, <1>2, <1>3, <1>4, <1>8, <1>9 DEF ys

LEMMA StreaksNext ==
  ASSUME IInv, [Next]_vars
  PROVE  StreaksCounted'
<1>0. /\ StreaksCounted
      /\ failures \in [Lanes -> Nat] /\ drained \subseteq Lanes
      /\ results \in [Lanes -> Seq(Result)]
  BY DEF IInv, TypeOK, Result
<1>1. CASE UNCHANGED <<failures, drained, results>>
  BY <1>0, <1>1 DEF StreaksCounted
<1>2. CASE Restart
  <2>1. failures' = NoneYet /\ drained' = {} /\ results' = NoResults
    BY <1>2, RestartFacts DEF StartsOver
  <2>2. FailuresSinceSuccess(<< >>) = 0
    <3>1. Streak(<< >>) = {}
      BY DEF Streak
    <3>2. FailuresSinceSuccess(<< >>) = Cardinality(Streak(<< >>))
      BY DEF FailuresSinceSuccess, Streak
    <3> QED  BY <3>1, <3>2, FS_EmptySet
  <2> QED  BY <2>1, <2>2, RuntimeAssumption DEF StreaksCounted, NoneYet, NoResults
<1>3. ASSUME NEW lane \in Lanes \ drained, NEW x \in Result,
             results' = [results EXCEPT ![lane] = Append(@, x)],
             failures' \in [Lanes -> Nat],
             failures'[lane] = CASE x \in {"done", "verify_failed"} -> 0
                                 [] x = "failed" -> failures[lane] + 1
                                 [] OTHER -> failures[lane],
             lane \in drained' <=> x = "failed" /\ failures[lane] + 1 >= LANE_FAILURES_BEFORE_DRAIN,
             \A l \in Lanes \ {lane} :
                failures'[l] = failures[l] /\ (l \in drained' <=> l \in drained)
      PROVE  StreaksCounted'
  <2> DEFINE rs == results[lane]
  <2>1. /\ FailuresSinceSuccess(rs) \in Nat
        /\ results'[lane] # << >> /\ results'[lane][Len(results'[lane])] = x
        /\ FailuresSinceSuccess(results'[lane]) =
              CASE x \in {"done", "verify_failed"} -> 0
                [] x = "failed" -> FailuresSinceSuccess(rs) + 1
                [] OTHER -> FailuresSinceSuccess(rs)
    <3>1. results'[lane] = Append(rs, x) /\ rs \in Seq(Result)
      BY <1>0, <1>3
    <3> HIDE DEF rs
    <3> QED  BY <3>1, StreakFacts
  <2>2. /\ failures[lane] = FailuresSinceSuccess(rs) /\ failures[lane] < LANE_FAILURES_BEFORE_DRAIN
        /\ failures[lane] \in Nat
    BY <1>0, RuntimeAssumption DEF StreaksCounted
  <2>3. /\ failures'[lane] = FailuresSinceSuccess(results'[lane])
        /\ lane \in drained' <=> failures'[lane] >= LANE_FAILURES_BEFORE_DRAIN
        /\ lane \in drained' => results'[lane][Len(results'[lane])] = "failed"
    <3> HIDE DEF rs
    <3> QED  BY <1>3, <2>1, <2>2, RuntimeAssumption
  <2>4. ASSUME NEW l \in Lanes \ {lane}
        PROVE  /\ results'[l] = results[l] /\ failures'[l] = failures[l]
               /\ l \in drained' <=> l \in drained
    BY <1>0, <1>3
  <2> QED  BY <1>0, <2>1, <2>3, <2>4 DEF StreaksCounted
<1>4. ASSUME NEW status \in Status, NEW cost \in Costs, Finish(status, cost)
      PROVE  StreaksCounted'
  <2> DEFINE lane == flight.lane
  <2>1. lane \in Lanes \ drained /\ status \in Result
    BY <1>4 DEF Finish, IInv, FlightOK, Flights, Result
  <2>2. /\ results' = [results EXCEPT ![lane] = Append(@, status)]
        /\ failures' = FailuresAfter(lane, status)
        /\ drained' = IF Drains(lane, status) THEN drained \cup {lane} ELSE drained
    BY <1>4 DEF Finish
  <2> HIDE DEF lane
  <2>3. /\ failures' \in [Lanes -> Nat]
        /\ failures'[lane] = CASE status \in {"done", "verify_failed"} -> 0
                               [] status = "failed" -> failures[lane] + 1
                               [] OTHER -> failures[lane]
        /\ \A l \in Lanes \ {lane} : failures'[l] = failures[l]
    BY <1>0, <2>1, <2>2 DEF FailuresAfter
  <2>4. /\ lane \in drained' <=>
             status = "failed" /\ failures[lane] + 1 >= LANE_FAILURES_BEFORE_DRAIN
        /\ \A l \in Lanes \ {lane} : l \in drained' <=> l \in drained
    BY <2>1, <2>2 DEF Drains
  <2> QED  BY <1>3, <2>1, <2>2, <2>3, <2>4
<1>5. CASE AdapterRaises
  <2> DEFINE lane == flight.lane
  <2>1. lane \in Lanes \ drained /\ "raised" \in Result
    BY <1>5 DEF AdapterRaises, IInv, FlightOK, Flights, Result
  <2>2. /\ results' = [results EXCEPT ![lane] = Append(@, "raised")]
        /\ failures' = failures /\ drained' = drained
    BY <1>5 DEF AdapterRaises, stateVars
  <2> HIDE DEF lane
  <2>3. failures'[lane] = CASE "raised" \in {"done", "verify_failed"} -> 0
                            [] "raised" = "failed" -> failures[lane] + 1
                            [] OTHER -> failures[lane]
    BY <2>2
  <2> QED  BY <1>0, <1>3, <2>1, <2>2, <2>3
<1>6. CASE Wake \/ Outside \/ Ends \/ Flush
  BY <1>1, <1>6, WakeStarts, OutsideFacts, EndsFacts, FlushFacts DEF stateVars, ghostVars
<1>7. CASE StartDispatch \/ Verify \/ HandlersReturn \/ UNCHANGED vars
  BY <1>1, <1>7 DEF StartDispatch, Verify, HandlersReturn, vars, stateVars, ghostVars
<1> QED  BY <1>2, <1>4, <1>5, <1>6, <1>7, Cases

-----------------------------------------------------------------------------
(* Thresholds.                                                             *)
LEMMA LoggedFacts ==
  ASSUME IInv
  PROVE  /\ IsFiniteSet(Logged) /\ Cardinality(Logged) \in Nat
         /\ Logged \subseteq 1 .. Len(log)
         /\ \A i \in Logged : Rank(i) \in 1 .. Cardinality(Logged)
         /\ told \in Seq(M!Threshold) /\ Len(told) \in Nat
         /\ payload \in Seq(EventPayload) /\ Len(payload) = Len(log) /\ Len(log) \in Nat
         /\ outbox \in Seq(OutItem) /\ Len(outbox) \in Nat /\ DOMAIN outbox = 1 .. Len(outbox)
         /\ base \in Nat /\ base <= Len(log)
<1>1. base \in Nat /\ Len(log) \in Nat /\ base <= Len(log)
  BY BusFacts
<1>2. /\ told \in Seq(M!Threshold) /\ Len(told) \in Nat
      /\ payload \in Seq(EventPayload) /\ Len(payload) = Len(log)
      /\ outbox \in Seq(OutItem) /\ Len(outbox) \in Nat /\ DOMAIN outbox = 1 .. Len(outbox)
  BY LenProperties DEF IInv, TypeOK, M!MTypeOK
<1>3. IsFiniteSet(1 .. Len(log)) /\ Logged \in SUBSET (1 .. Len(log))
  BY <1>1, FS_Interval DEF Logged
<1>4. IsFiniteSet(Logged) /\ Cardinality(Logged) \in Nat
  BY <1>3, FS_Subset, FS_CardinalityType
<1>5. ASSUME NEW i \in Logged PROVE Rank(i) \in 1 .. Cardinality(Logged)
  <2> DEFINE R == {j \in Logged : j <= i}
  <2>1. R \in SUBSET Logged /\ i \in R
    BY <1>3
  <2>2. IsFiniteSet(R) /\ Cardinality(R) <= Cardinality(Logged)
    BY <1>4, <2>1, FS_Subset
  <2>3. Cardinality(R) \in Nat /\ Cardinality(R) # 0
    BY <2>1, <2>2, FS_CardinalityType, FS_EmptySet
  <2>4. Rank(i) = Cardinality(R)
    BY DEF Rank
  <2> HIDE DEF R
  <2> QED  BY <1>4, <2>2, <2>3, <2>4
<1> QED  BY <1>1, <1>2, <1>3, <1>4, <1>5

(* Nothing is logged: the ranks are what they were.                        *)
LEMMA SameRanks ==
  ASSUME UNCHANGED <<log, base, payload>>
  PROVE  Logged' = Logged /\ \A i : Rank(i)' = Rank(i)
<1>1. Logged' = Logged
  BY DEF Logged
<1> QED  BY <1>1 DEF Rank

(* With an empty outbox, all that was reported is logged.                  *)
LEMMA AllLogged ==
  ASSUME IInv, B!Alive, outbox = << >>
  PROVE  Cardinality(Logged) = Len(told)
<1>1. PICK h \in {0, 1} : Waiting(h)
  BY DEF IInv, ThresholdsKept
<1>2. Cardinality(Logged) <= Len(told) /\ h + Len(told) - Cardinality(Logged) <= 0
  BY <1>1 DEF IInv, ThresholdsKept, Waiting
<1> QED  BY <1>2, LoggedFacts

(* What a verb that reported nothing emits carries no threshold.           *)
LEMMA KeptBare ==
  ASSUME IInv, B!Alive, outbox = << >>, UNCHANGED <<log, base, payload, told>>,
         outbox' \in Seq(OutItem), \A i \in DOMAIN outbox' : outbox'[i].th = None
  PROVE  ThresholdsKept'
<1>1. Logged' = Logged /\ \A i : Rank(i)' = Rank(i)
  BY SameRanks
<1>2. Cardinality(Logged) = Len(told) /\ Len(told) \in Nat
  BY AllLogged, LoggedFacts
<1>3. Len(outbox') \in Nat /\ DOMAIN outbox' = 1 .. Len(outbox')
  BY LenProperties
<1>4. Waiting(0)'
  BY <1>1, <1>2, <1>3 DEF Waiting
<1>5. \A i \in Logged' : payload'[i].th = told'[Rank(i)']
  BY <1>1 DEF IInv, ThresholdsKept
<1>6. Cardinality(Logged') <= Len(told')
  BY <1>1, <1>2
<1> QED  BY <1>4, <1>5, <1>6 DEF ThresholdsKept

LEMMA KeptFrame ==
  ASSUME IInv, B!Alive' => B!Alive, UNCHANGED <<log, base, payload, told, outbox>>
  PROVE  ThresholdsKept'
<1>1. Logged' = Logged /\ \A i : Rank(i)' = Rank(i)
  BY SameRanks
<1>2. \A h : Waiting(h)' <=> Waiting(h)
  BY <1>1 DEF Waiting
<1>3. ASSUME B!Alive'
      PROVE  /\ Cardinality(Logged') <= Len(told')
             /\ \A i \in Logged' : payload'[i].th = told'[Rank(i)']
             /\ \E h \in {0, 1} : Waiting(h)'
  BY <1>1, <1>2, <1>3 DEF IInv, ThresholdsKept
<1> QED  BY <1>3 DEF ThresholdsKept

(* The log grows by an event: without a threshold, the ranks are what they *)
(* were; with one, it ranks after those that were logged.                  *)
LEMMA LogGrows ==
  ASSUME IInv, NEW t \in EventType, B!Emit(t), NEW cid, NEW th, Record(cid, th),
         NEW k, k = Len(log) + 1
  PROVE  /\ k \notin Logged
         /\ Logged' = IF th = None THEN Logged ELSE Logged \cup {k}
         /\ \A i \in Logged : Rank(i)' = Rank(i) /\ payload'[i] = payload[i]
         /\ payload'[k].th = th
         /\ th # None => /\ Cardinality(Logged') = Cardinality(Logged) + 1
                         /\ Rank(k)' = Cardinality(Logged) + 1
<1> DEFINE e == [cid |-> cid, th |-> th, reflex |-> inReflex,
                 cause |-> IF mode = "handling" THEN Len(processed) ELSE 0]
<1>1. /\ IsFiniteSet(Logged) /\ Cardinality(Logged) \in Nat /\ Logged \subseteq 1 .. Len(log)
      /\ payload \in Seq(EventPayload) /\ Len(payload) = Len(log) /\ Len(log) \in Nat
      /\ base \in Nat /\ base <= Len(log)
  BY LoggedFacts
<1>2. Len(log') = k /\ base' = base
  BY EmitFacts
<1>3. payload' = Append(payload, e) /\ e.th = th
  BY DEF Record
<1> HIDE DEF e
<1>4. (\A i \in 1 .. Len(log) : payload'[i] = payload[i]) /\ payload'[k] = e
  BY <1>1, <1>3
<1>5. base + 1 .. k = (base + 1 .. Len(log)) \cup {k}
  BY <1>1
<1>6. Logged' = IF th = None THEN Logged ELSE Logged \cup {k}
  <2>1. Logged' = {i \in (base + 1 .. Len(log)) \cup {k} : payload'[i].th # None}
    BY <1>2, <1>5 DEF Logged
  <2>2. \A i \in base + 1 .. Len(log) : payload'[i] = payload[i]
    BY <1>1, <1>4
  <2>3. payload'[k].th = th
    BY <1>3, <1>4
  <2> QED  BY <2>1, <2>2, <2>3 DEF Logged
<1>7. ASSUME NEW i \in Logged PROVE Rank(i)' = Rank(i) /\ payload'[i] = payload[i]
  <2>1. i \in 1 .. Len(log) /\ ~(k <= i)
    BY <1>1
  <2>2. {j \in Logged' : j <= i} = {j \in Logged : j <= i}
    BY <1>6, <2>1
  <2> QED  BY <1>4, <2>1, <2>2 DEF Rank
<1>8. k \notin Logged
  BY <1>1
<1>9. ASSUME th # None
      PROVE  Cardinality(Logged') = Cardinality(Logged) + 1 /\ Rank(k)' = Cardinality(Logged) + 1
  <2>1. Logged' = Logged \cup {k}
    BY <1>6, <1>9
  <2>2. Cardinality(Logged') = Cardinality(Logged) + 1
    BY <1>1, <1>8, <2>1, FS_AddElement
  <2>3. {j \in Logged' : j <= k} = Logged'
    <3>1. \A j \in Logged' : j <= k
      BY <1>1, <2>1
    <3> DEFINE S == Logged'
    <3> HIDE DEF S
    <3>2. {j \in S : j <= k} = S
      BY <3>1 DEF S
    <3> QED  BY <3>2 DEF S
  <2> QED  BY <2>2, <2>3 DEF Rank
<1> QED  BY <1>3, <1>4, <1>6, <1>7, <1>8, <1>9

LEMMA KeptEmit ==
  ASSUME IInv, FlushEmit
  PROVE  ThresholdsKept'
<1> DEFINE th == outbox[1].th  K == Cardinality(Logged)
<1>1. /\ outbox \in Seq(OutItem) /\ outbox' \in Seq(OutItem)
      /\ Len(outbox) \in Nat \ {0} /\ DOMAIN outbox = 1 .. Len(outbox)
      /\ DOMAIN outbox' = 1 .. Len(outbox') /\ outbox[1].type # "halt"
  BY FlushedOutbox DEF Flush
<1>2. /\ outbox[1] \in OutItem /\ Head(outbox) = outbox[1]
      /\ outbox[1].type \in EventType
  <2>1. outbox[1] \in OutItem /\ Head(outbox) = outbox[1]
    BY HeadIsOut DEF FlushEmit, IInv
  <2> QED  BY <1>1, <2>1 DEF OutItem
<1>3. /\ B!Emit(outbox[1].type) /\ Record(outbox[1].cid, th) /\ told' = told
      /\ mode \in {"open", "handling"} /\ Len(log') = Len(log) + 1
  BY <1>2, EmitFacts DEF FlushEmit, meterVars
<1>4. /\ K \in Nat /\ Len(told) \in Nat /\ told \in Seq(M!Threshold)
      /\ \A i \in Logged : Rank(i) \in 1 .. K
  BY LoggedFacts
<1>5. /\ K <= Len(told) /\ (\A i \in Logged : payload[i].th = told[Rank(i)])
      /\ \E h \in {0, 1} : Waiting(h)
  BY <1>3 DEF IInv, ThresholdsKept, B!Alive
<1>6. Waiting(0)
  <2>1. ~Waiting(1)
    <3>1. 1 \in DOMAIN outbox
      BY <1>1
    <3> QED  BY <1>1, <3>1 DEF Waiting
  <2> QED  BY <1>5, <2>1
<1>7. /\ Len(told) - K <= Len(outbox)
      /\ \A i \in 1 .. Len(outbox) :
           outbox[i].th = IF i \in 1 .. Len(told) - K THEN told[K + i] ELSE None
  <2>1. /\ 0 + Len(told) - K <= Len(outbox)
        /\ \A i \in DOMAIN outbox :
             outbox[i].th = IF i - 0 \in 1 .. Len(told) - K THEN told[K + i - 0] ELSE None
    BY <1>6 DEF Waiting
  <2> HIDE DEF K, th
  <2>2. ASSUME NEW i \in 1 .. Len(outbox) PROVE i - 0 = i /\ K + i - 0 = K + i
    BY <1>1, <1>4
  <2> QED  BY <1>1, <1>4, <2>1, <2>2
<1>8. PICK k : k = Len(log) + 1
  OBVIOUS
<1>9. /\ Logged' = IF th = None THEN Logged ELSE Logged \cup {k}
      /\ k \notin Logged
      /\ \A i \in Logged : Rank(i)' = Rank(i) /\ payload'[i] = payload[i]
      /\ payload'[k].th = th
      /\ th # None => Cardinality(Logged') = K + 1 /\ Rank(k)' = K + 1
  BY <1>2, <1>3, <1>8, LogGrows
<1>10. Halting.type = "halt" /\ Halting.th = None
  BY DEF Halting, Out
<1>11. \/ /\ Len(outbox') = Len(outbox) /\ outbox'[1] = Halting
          /\ \A i \in 2 .. Len(outbox) : outbox'[i] = outbox[i]
       \/ /\ Len(outbox') = Len(outbox) - 1
          /\ \A i \in 1 .. Len(outbox) - 1 : outbox'[i] = outbox[i + 1]
  BY FlushedOutbox DEF Flush
<1> HIDE DEF th, K
<1>12. CASE th = None
  <2>1. Len(told) = K
    <3>1. CASE 1 \in 1 .. Len(told) - K
      <4>1. outbox[1].th = told[K + 1] /\ told[K + 1] \in M!Threshold
        <5>1. K + 1 \in 1 .. Len(told) /\ 1 \in 1 .. Len(outbox)
          BY <1>1, <1>4, <3>1
        <5> QED  BY <1>4, <1>7, <3>1, <5>1, ElementOfSeq
      <4> QED  BY <1>12, <4>1, PartsAssumption DEF th
    <3> QED  BY <1>4, <1>5, <3>1
  <2>2. \A i \in 1 .. Len(outbox) : outbox[i].th = None
    BY <1>4, <1>7, <2>1
  <2>3. ASSUME NEW i \in DOMAIN outbox' PROVE outbox'[i].th = None
    <3>1. i \in 1 .. Len(outbox')
      BY <1>1
    <3>2. CASE /\ Len(outbox') = Len(outbox) /\ outbox'[1] = Halting
               /\ \A j \in 2 .. Len(outbox) : outbox'[j] = outbox[j]
      <4>1. i = 1 \/ i \in 2 .. Len(outbox)
        BY <1>1, <3>1, <3>2
      <4> QED  BY <1>1, <1>10, <2>2, <3>2, <4>1
    <3>3. CASE /\ Len(outbox') = Len(outbox) - 1
               /\ \A j \in 1 .. Len(outbox) - 1 : outbox'[j] = outbox[j + 1]
      <4>1. i \in 1 .. Len(outbox) - 1 /\ i + 1 \in 1 .. Len(outbox)
        BY <1>1, <3>1, <3>3
      <4> QED  BY <2>2, <3>3, <4>1
    <3> QED  BY <1>11, <3>2, <3>3
  <2>4. Logged' = Logged
    BY <1>9, <1>12
  <2>5. Waiting(0)'
    <3>1. Len(outbox') \in Nat
      BY <1>1, LenProperties
    <3> QED  BY <1>3, <1>4, <2>1, <2>3, <2>4, <3>1 DEF Waiting, K
  <2>6. \A i \in Logged' : payload'[i].th = told'[Rank(i)']
    BY <1>3, <1>5, <1>9, <2>4
  <2> QED  BY <1>3, <1>4, <2>1, <2>4, <2>5, <2>6 DEF ThresholdsKept, K
<1>13. CASE th # None
  <2>1. /\ Logged' = Logged \cup {k} /\ Cardinality(Logged') = K + 1
        /\ Rank(k)' = K + 1 /\ payload'[k].th = th
    BY <1>9, <1>13
  <2>2. th = told[K + 1] /\ K + 1 <= Len(told)
    <3>1. 1 \in 1 .. Len(outbox)
      BY <1>1
    <3>2. 1 \in 1 .. Len(told) - K
      BY <1>7, <1>13, <3>1 DEF th
    <3> QED  BY <1>4, <1>7, <3>1, <3>2 DEF th
  <2>3. \A i \in Logged' : payload'[i].th = told'[Rank(i)']
    BY <1>3, <1>5, <1>9, <2>1, <2>2
  <2>4. \E h \in {0, 1} : Waiting(h)'
    <3>1. CASE /\ Len(outbox') = Len(outbox) /\ outbox'[1] = Halting
               /\ \A i \in 2 .. Len(outbox) : outbox'[i] = outbox[i]
      <4>1. ASSUME NEW i \in DOMAIN outbox'
            PROVE  /\ i <= 1 => outbox'[i].type = "halt"
                   /\ outbox'[i].th = IF i - 1 \in 1 .. Len(told) - (K + 1)
                                      THEN told[(K + 1) + i - 1] ELSE None
        <5>1. CASE i = 1
          BY <1>10, <3>1, <5>1
        <5>2. CASE i # 1
          <6>1. i \in 2 .. Len(outbox) /\ (K + 1) + i - 1 = K + i
            BY <1>1, <1>4, <3>1, <5>2
          <6>2. outbox'[i] = outbox[i] /\ ~(i <= 1)
            BY <1>1, <3>1, <6>1
          <6>3. outbox[i].th = IF i \in 1 .. Len(told) - K THEN told[K + i] ELSE None
            BY <1>1, <1>7, <6>1
          <6>4. i - 1 \in 1 .. Len(told) - (K + 1) <=> i \in 1 .. Len(told) - K
            BY <1>1, <1>4, <6>1
          <6> QED  BY <6>1, <6>2, <6>3, <6>4
        <5> QED  BY <5>1, <5>2
      <4>2. 1 + Len(told) - (K + 1) <= Len(outbox')
        BY <1>1, <1>4, <1>7, <3>1
      <4>3. Waiting(1)'
        BY <1>3, <2>1, <4>1, <4>2 DEF Waiting
      <4> QED  BY <4>3
    <3>2. CASE /\ Len(outbox') = Len(outbox) - 1
               /\ \A i \in 1 .. Len(outbox) - 1 : outbox'[i] = outbox[i + 1]
      <4>1. ASSUME NEW i \in DOMAIN outbox'
            PROVE  /\ ~(i <= 0)
                   /\ outbox'[i].th = IF i - 0 \in 1 .. Len(told) - (K + 1)
                                      THEN told[(K + 1) + i - 0] ELSE None
        <5>1. i \in 1 .. Len(outbox) - 1 /\ i + 1 \in 1 .. Len(outbox)
          BY <1>1, <3>2
        <5>2. outbox'[i] = outbox[i + 1]
          BY <3>2, <5>1
        <5>3. outbox[i + 1].th = IF i + 1 \in 1 .. Len(told) - K THEN told[K + (i + 1)] ELSE None
          BY <1>7, <5>1
        <5>4. i \in Nat \ {0} /\ K \in Nat /\ Len(told) \in Nat
          BY <1>1, <1>4, <5>1
        <5>5. i + 1 \in 1 .. Len(told) - K <=> i - 0 \in 1 .. Len(told) - (K + 1)
          BY <5>4
        <5>6. K + (i + 1) = (K + 1) + i - 0 /\ ~(i <= 0)
          BY <5>4
        <5> QED  BY <5>2, <5>3, <5>5, <5>6
      <4>2. 0 + Len(told) - (K + 1) <= Len(outbox')
        BY <1>1, <1>4, <1>7, <3>2
      <4>3. Waiting(0)'
        BY <1>3, <2>1, <4>1, <4>2 DEF Waiting
      <4> QED  BY <4>3
    <3> QED  BY <1>11, <3>1, <3>2
  <2>5. Cardinality(Logged') <= Len(told')
    BY <1>3, <2>1, <2>2
  <2> QED  BY <2>3, <2>4, <2>5 DEF ThresholdsKept
<1> QED  BY <1>12, <1>13

LEMMA KeptHalt ==
  ASSUME IInv, FlushHalt
  PROVE  ThresholdsKept'
<1> DEFINE K == Cardinality(Logged)
<1>1. /\ Len(outbox) \in Nat \ {0} /\ DOMAIN outbox = 1 .. Len(outbox)
      /\ DOMAIN outbox' = 1 .. Len(outbox') /\ outbox[1].type = "halt"
      /\ Len(outbox') = Len(outbox) - 1
      /\ \A i \in 1 .. Len(outbox) - 1 : outbox'[i] = outbox[i + 1]
  <2>1. Flush /\ ~FlushEmit
    BY DEF Flush, FlushEmit, FlushHalt
  <2> QED  BY <2>1, FlushedOutbox
<1>2. UNCHANGED <<log, base, payload, told>> /\ mode = "handling"
  BY DEF FlushHalt, B!Halt, busVars, diskVars, meterVars
<1>3. K \in Nat /\ Len(told) \in Nat /\ told \in Seq(M!Threshold)
  BY LoggedFacts
<1>4. /\ K <= Len(told) /\ (\A i \in Logged : payload[i].th = told[Rank(i)])
      /\ \E h \in {0, 1} : Waiting(h)
  BY <1>2 DEF IInv, ThresholdsKept, B!Alive
<1>5. Logged' = Logged /\ \A i : Rank(i)' = Rank(i)
  BY <1>2, SameRanks
<1>6. outbox[1].th = None /\ 1 \in DOMAIN outbox
  BY <1>1 DEF IInv, HaltsAreBare
<1> HIDE DEF K
<1>7. ASSUME NEW i \in DOMAIN outbox', NEW h \in {0, 1}, Waiting(h)
      PROVE  /\ i \in 1 .. Len(outbox) - 1 /\ outbox'[i] = outbox[i + 1]
             /\ outbox[i + 1].th = IF (i + 1) - h \in 1 .. Len(told) - K
                                   THEN told[K + (i + 1) - h] ELSE None
  <2>1. i \in 1 .. Len(outbox) - 1 /\ i + 1 \in DOMAIN outbox
    BY <1>1
  <2> QED  BY <1>1, <1>7, <2>1 DEF Waiting, K
<1>8. Waiting(0)'
  <2>1. CASE Waiting(1)
    <3>1. 1 + Len(told) - K <= Len(outbox)
      BY <2>1 DEF Waiting, K
    <3>2. ASSUME NEW i \in DOMAIN outbox'
          PROVE  /\ ~(i <= 0)
                 /\ outbox'[i].th = IF i - 0 \in 1 .. Len(told) - K
                                    THEN told[K + i - 0] ELSE None
      <4>1. (i + 1) - 1 = i - 0 /\ K + (i + 1) - 1 = K + i - 0 /\ ~(i <= 0)
        BY <1>1, <1>3
      <4> QED  BY <1>7, <2>1, <4>1
    <3>3. 0 + Len(told) - K <= Len(outbox')
      BY <1>1, <1>3, <3>1
    <3> QED  BY <1>2, <1>5, <3>2, <3>3 DEF Waiting, K
  <2>2. CASE Waiting(0)
    <3>1. Len(told) = K
      <4>1. CASE 1 \in 1 .. Len(told) - K
        <5>1. 1 - 0 = 1 /\ K + 1 - 0 = K + 1 /\ K + 1 \in 1 .. Len(told)
          BY <1>3, <4>1
        <5>2. outbox[1].th = told[K + 1]
          BY <1>6, <2>2, <4>1, <5>1 DEF Waiting, K
        <5>3. told[K + 1] \in M!Threshold
          BY <1>3, <5>1, ElementOfSeq
        <5> QED  BY <1>6, <5>2, <5>3, PartsAssumption
      <4> QED  BY <1>3, <1>4, <4>1
    <3>2. ASSUME NEW i \in DOMAIN outbox' PROVE outbox'[i].th = None /\ ~(i <= 0)
      BY <1>1, <1>3, <1>7, <2>2, <3>1
    <3>3. 0 + Len(told) - K <= Len(outbox')
      BY <1>1, <1>3, <3>1
    <3> QED  BY <1>2, <1>3, <1>5, <3>1, <3>2, <3>3 DEF Waiting, K
  <2> QED  BY <1>4, <2>1, <2>2
<1>9. \A i \in Logged' : payload'[i].th = told'[Rank(i)']
  BY <1>2, <1>4, <1>5
<1>10. Cardinality(Logged') <= Len(told')
  BY <1>2, <1>4, <1>5 DEF K
<1> QED  BY <1>8, <1>9, <1>10 DEF ThresholdsKept

LEMMA KeptFinish ==
  ASSUME IInv, NEW status \in Status, NEW cost \in Costs, Finish(status, cost)
  PROVE  ThresholdsKept'
<1> DEFINE ths == M!Returned(cost)  K == Cardinality(Logged)
<1>1. /\ ths \in Seq(M!Threshold) /\ told' = told \o ths
      /\ Len(outbox') \in Nat /\ Len(ths) \in Nat /\ Len(outbox') >= Len(ths) + 1
      /\ outbox' \in Seq(OutItem)
      /\ \A i \in 1 .. Len(ths) : outbox'[i] = ThresholdOut(ths[i])
      /\ \A i \in Len(ths) + 1 .. Len(outbox') : outbox'[i].th = None
  BY FinishFacts
<1>2. /\ outbox = << >> /\ B!Alive /\ UNCHANGED <<log, base, payload>>
  BY DEF Finish, busVars, diskVars, IInv, FlightOK, B!Alive
<1>3. Logged' = Logged /\ \A i : Rank(i)' = Rank(i)
  BY <1>2, SameRanks
<1>4. /\ K = Len(told) /\ K \in Nat /\ told \in Seq(M!Threshold)
      /\ \A i \in Logged : Rank(i) \in 1 .. K
  BY <1>2, AllLogged, LoggedFacts
<1> HIDE DEF ths, K
<1>5. /\ Len(told') = K + Len(ths)
      /\ \A i \in 1 .. K : told'[i] = told[i]
      /\ \A i \in 1 .. Len(ths) : told'[K + i] = ths[i]
  <2>1. /\ Len(told \o ths) = Len(told) + Len(ths)
        /\ \A i \in 1 .. Len(told) + Len(ths) :
             (told \o ths)[i] = IF i <= Len(told) THEN told[i] ELSE ths[i - Len(told)]
    BY <1>1, <1>4, ConcatProperties
  <2>2. ASSUME NEW i \in 1 .. Len(ths) PROVE told'[K + i] = ths[i]
    <3>1. K + i \in 1 .. Len(told) + Len(ths) /\ ~(K + i <= Len(told)) /\ (K + i) - Len(told) = i
      BY <1>1, <1>4
    <3> QED  BY <1>1, <2>1, <3>1
  <2>3. ASSUME NEW i \in 1 .. K PROVE told'[i] = told[i]
    BY <1>1, <1>4, <2>1
  <2> QED  BY <1>1, <1>4, <2>1, <2>2, <2>3
<1>6. ASSUME NEW i \in DOMAIN outbox'
      PROVE  /\ ~(i <= 0)
             /\ outbox'[i].th = IF i - 0 \in 1 .. Len(told') - K THEN told'[K + i - 0] ELSE None
  <2>1. i \in 1 .. Len(outbox')
    BY <1>1, LenProperties
  <2>2. i - 0 = i /\ K + i - 0 = K + i /\ Len(told') - K = Len(ths) /\ ~(i <= 0)
    BY <1>1, <1>4, <1>5, <2>1
  <2>3. CASE i \in 1 .. Len(ths)
    <3>1. outbox'[i].th = ths[i]
      <4>1. \A th : ThresholdOut(th).th = th
        BY DEF ThresholdOut
      <4> QED  BY <1>1, <2>3, <4>1
    <3> QED  BY <1>5, <2>2, <2>3, <3>1
  <2>4. CASE i \notin 1 .. Len(ths)
    <3>1. i \in Len(ths) + 1 .. Len(outbox')
      BY <1>1, <2>1, <2>4
    <3> QED  BY <1>1, <2>2, <2>4, <3>1
  <2> QED  BY <2>3, <2>4
<1>7. 0 + Len(told') - K <= Len(outbox')
  BY <1>1, <1>4, <1>5
<1>8. Waiting(0)'
  BY <1>3, <1>6, <1>7 DEF Waiting, K
<1>9. \A i \in Logged' : payload'[i].th = told'[Rank(i)']
  BY <1>2, <1>3, <1>4, <1>5 DEF IInv, ThresholdsKept
<1>10. Cardinality(Logged') <= Len(told')
  BY <1>1, <1>3, <1>4, <1>5 DEF K
<1> QED  BY <1>8, <1>9, <1>10 DEF ThresholdsKept

(* The caller's events carry no threshold.                                 *)
LEMMA KeptCaller ==
  ASSUME IInv, Submit \/ OperatorSpeaks
  PROVE  ThresholdsKept'
<1>1. PICK t \in {"task_received", "human_input"} : B!Emit(t) /\ Record(None, None)
  BY DEF Submit, OperatorSpeaks
<1>2. t \in EventType /\ B!Alive /\ UNCHANGED <<told, outbox>>
  BY DEF Submit, OperatorSpeaks, B!Alive, EventType, workVars, meterVars
<1>3. PICK k : k = Len(log) + 1
  OBVIOUS
<1>4. Logged' = Logged /\ \A i \in Logged : Rank(i)' = Rank(i) /\ payload'[i] = payload[i]
  BY <1>1, <1>2, <1>3, LogGrows
<1>5. \A h : Waiting(h)' <=> Waiting(h)
  BY <1>2, <1>4 DEF Waiting
<1>6. /\ Cardinality(Logged') <= Len(told')
      /\ \A i \in Logged' : payload'[i].th = told'[Rank(i)']
      /\ \E h \in {0, 1} : Waiting(h)'
  BY <1>2, <1>4, <1>5 DEF IInv, ThresholdsKept
<1> QED  BY <1>6 DEF ThresholdsKept

(* A new process has reported nothing.                                     *)
LEMMA KeptRestart ==
  ASSUME IInv, Restart
  PROVE  ThresholdsKept'
<1>1. told' = << >> /\ outbox' = << >> /\ log' = log
  BY RestartFacts DEF StartsOver
<1>2. CASE mode' = "down"
  BY <1>2 DEF ThresholdsKept, B!Alive
<1>3. CASE base' = Len(log')
  <2>1. Logged' = {}
    BY <1>1, <1>3, BusFacts DEF Logged
  <2>2. Cardinality({}) = 0
    BY FS_EmptySet
  <2>3. Waiting(0)'
    BY <1>1, <2>1, <2>2, NothingIsTyped DEF Waiting
  <2> QED  BY <1>1, <2>1, <2>2, <2>3, NothingIsTyped DEF ThresholdsKept
<1> QED  BY <1>2, <1>3, RestartFacts

LEMMA ThresholdsNext ==
  ASSUME IInv, [Next]_vars
  PROVE  ThresholdsKept'
<1>0. outbox' \in Seq(OutItem)
  BY WorkIsTyped DEF WorkTyped
<1>1. CASE Wake
  <2>1. /\ B!Alive /\ outbox = << >> /\ UNCHANGED <<log, base, payload, told>>
        /\ outbox' = << >> \/ OneOut(outbox')
    BY <1>1, WakeStarts DEF B!Alive, meterVars
  <2>2. \A i \in DOMAIN outbox' : outbox'[i].th = None
    <3>1. CASE outbox' = << >>
      BY <3>1
    <3>2. CASE OneOut(outbox')
      BY <3>2 DEF OneOut
    <3> QED  BY <2>1, <3>1, <3>2
  <2> QED  BY <1>0, <2>1, <2>2, KeptBare
<1>2. CASE StartDispatch \/ Verify \/ AdapterRaises
  BY <1>0, <1>2, BareOutbox, KeptBare DEF B!Alive
<1>3. CASE Flush
  BY <1>3, KeptEmit, KeptHalt DEF Flush
<1>4. CASE \E status \in Status, cost \in Costs : Finish(status, cost)
  BY <1>4, KeptFinish
<1>5. CASE Submit \/ OperatorSpeaks \/ Restart
  BY <1>5, KeptCaller, KeptRestart
<1>6. CASE RunStarts \/ RunEnds \/ HandlersReturn
  BY <1>6, KeptFrame DEF RunStarts, RunEnds, HandlersReturn, B!RunStarts, B!RunReturns, B!RunRaises,
                         B!HandlersReturn, B!Alive, meterVars, workVars, diskVars
<1>7. CASE Ends
  BY <1>7, EndsFacts DEF ThresholdsKept, B!Alive
<1>8. CASE UNCHANGED vars
  BY <1>8, KeptFrame DEF vars, busVars, meterVars, workVars, diskVars, B!Alive
<1> QED  BY <1>1, <1>2, <1>3, <1>4, <1>5, <1>6, <1>7, <1>8, Cases DEF Outside

-----------------------------------------------------------------------------
LEMMA Starts == ASSUME Init PROVE IInv
<1>1. PP!IInv /\ B!TypeOK
  <2>1. PP!Init /\ PP!TypeOK
    BY SameBus, PartsHold, PP!TypeInit DEF Init
  <2> QED  BY <2>1, SameBus, PartsHold, PP!IInvInit
<1>2. /\ mode = "down" /\ log = << >> /\ processed = << >> /\ ~halted
      /\ todo = << >> /\ outbox = << >> /\ flight = NoFlight /\ told = << >>
      /\ handledBy = << >> /\ payload = << >>
      /\ retries = NoRetries /\ failures = NoneYet
      /\ drained = {} /\ results = NoResults
  BY DEF Init, B!Init
<1>3. M!MTypeOK
  BY NothingIsTyped DEF Init, Unspent, Unfired, M!MTypeOK
<1>4. TypeOK
  <2>1. /\ DOMAIN contracts = {} /\ awaiting \in BOOLEAN /\ inReflex \in BOOLEAN
        /\ store \in [ContractIds -> VALID_LANES \cup {None}] /\ policy \subseteq Patches
    <3>1. DOMAIN contracts = {}
      BY NothingIsTyped DEF Init
    <3> QED  BY <3>1 DEF Init
  <2>2. /\ retries \in [Ids -> Nat] /\ failures \in [Lanes -> Nat]
        /\ results \in [Lanes -> Seq(Status \cup {"raised"})]
    BY <1>2, NothingIsTyped DEF NoRetries, NoneYet, NoResults
  <2> QED  BY <1>1, <1>2, <1>3, <2>1, <2>2, NothingIsTyped DEF TypeOK
<1>5. FlightOK /\ DoneBetweenWakes /\ WorkOK /\ HaltComes /\ HaltsAreBare
  BY <1>2, NothingIsTyped, RuntimeAssumption
     DEF FlightOK, DoneBetweenWakes, WorkOK, RaceLeft, HaltComes, HaltsAreBare
<1>6. ReflexesMarked /\ ReflexesStayBetweenWakes /\ ThresholdsKept
  BY <1>2, NothingIsTyped DEF ReflexesMarked, ReflexesStayBetweenWakes, ThresholdsKept, B!Alive
<1>7. StreaksCounted
  <2>1. FailuresSinceSuccess(<< >>) = 0
    <3>1. Streak(<< >>) = {} /\ FailuresSinceSuccess(<< >>) = Cardinality(Streak(<< >>))
      BY DEF FailuresSinceSuccess, Streak
    <3> QED  BY <3>1, FS_EmptySet
  <2> QED  BY <1>2, <2>1, RuntimeAssumption DEF StreaksCounted, NoneYet, NoResults
<1> QED  BY <1>1, <1>4, <1>5, <1>6, <1>7 DEF IInv

LEMMA Continues == ASSUME IInv, [Next]_vars PROVE IInv'
BY TypeNext, FlightNext, WorkNext, HaltNext, MarksNext, StreaksNext,
   ThresholdsNext, BareNext DEF IInv, MarksOK

(* The inductive invariant holds of every run of every process.            *)
THEOREM Invariant == Spec => []IInv
BY Starts, Continues, PTL DEF Spec

(* Whatever the executive answers and the adapters return, the state has   *)
(* the types the code declares (TaskState, Meter, PolicyStore, audit rows).*)
THEOREM TypeCorrect == Spec => []TypeOK
<1>1. IInv => TypeOK
  BY DEF IInv
<1> QED  BY <1>1, Invariant, PTL

(* The ordering contract of kernel/bus.py in the runtime: no handler sees  *)
(* an event that is not in the audit log, none is lost or handled twice,   *)
(* and they are handled in the order of priority and number.               *)
THEOREM OrderingContract == Spec => [](B!LogFirst /\ B!NoneLostNoneTwice /\ B!PriorityOrder)
<1>1. IInv => PP!IInv
  BY DEF IInv
<1>2. PP!IInv => PP!LogFirst /\ PP!NoneLostNoneTwice /\ PP!PriorityOrder
  BY DEF PP!IInv, PP!Held, PP!Carries, PP!LogFirst, PP!Alive, PP!NoneLost, PP!NoneTwice,
         PP!NoneLostNoneTwice
<1>3. PP!LogFirst => B!LogFirst
  BY DEF PP!LogFirst, B!LogFirst
<1>4. PP!NoneLostNoneTwice => B!NoneLostNoneTwice
  BY DEF PP!NoneLostNoneTwice, B!NoneLostNoneTwice, PP!Alive, B!Alive
<1>5. PP!PriorityOrder => B!PriorityOrder
  <2>1. PP!PRIORITY = B!PRIORITY
    BY DEF PP!PRIORITY, B!PRIORITY, PP!EventType, B!EventType
  <2> QED  BY <2>1 DEF PP!PriorityOrder, B!PriorityOrder, PP!Outranks, B!Outranks
<1> QED  BY <1>1, <1>2, <1>3, <1>4, <1>5, Invariant, PTL

(* A lane is drained exactly when it has failed LANE_FAILURES_BEFORE_DRAIN *)
(* times since its last success, whatever came in between; nothing runs on *)
(* it afterwards.                                                          *)
THEOREM OutagesDrain == Spec => []DrainedIffOutage
<1>1. IInv => DrainedIffOutage
  BY DEF IInv, StreaksCounted, DrainedIffOutage
<1> QED  BY <1>1, Invariant, PTL

(* "An unsupervised control loop" cannot arise: no reflex answers an event *)
(* that a reflex brought about, nor one that the executive must see.       *)
THEOREM ReflexesSupervised == Spec => []ReflexesStayBetweenWakes
<1>1. IInv => ReflexesStayBetweenWakes
  BY DEF IInv
<1> QED  BY <1>1, Invariant, PTL

(* Every threshold the meters report is in the audit log when the verb has *)
(* made its emissions, once and in the order reported.                     *)
THEOREM ThresholdsLogged == Spec => []ThresholdsReachTheLog
<1>1. ASSUME IInv, B!Alive, outbox = << >>
      PROVE  /\ Cardinality(Logged) = Len(told)
             /\ \A i \in Logged : payload[i].th = told[Rank(i)]
  BY <1>1, AllLogged DEF IInv, ThresholdsKept
<1>2. IInv => ThresholdsReachTheLog
  BY <1>1 DEF ThresholdsReachTheLog
<1> QED  BY <1>2, Invariant, PTL

(* At 100 percent of a meter the bus is halted before any other event is   *)
(* taken, and all that runs after a halt is the rest of a race.            *)
THEOREM HardHaltHolds == Spec => []HardHaltStopsTheRun
<1>1. IInv => HardHaltStopsTheRun
  <2> SUFFICES ASSUME IInv PROVE HardHaltStopsTheRun
    OBVIOUS
  <2>1. mode = "running" => outbox = << >>
    BY DEF IInv, DoneBetweenWakes
  <2>2. mode = "running" /\ (\E i \in DOMAIN told : M!HardHalt(told[i])) => halted
    BY <2>1, NothingIsTyped DEF IInv, HaltComes
  <2>3. /\ halted /\ flight # NoFlight => flight.verb = "race"
        /\ halted => \A i \in DOMAIN todo : todo[i].verb = "race"
    BY DEF IInv, WorkOK, RaceLeft
  <2> QED  BY <2>2, <2>3 DEF HardHaltStopsTheRun
<1> QED  BY <1>1, Invariant, PTL

-----------------------------------------------------------------------------
(* The meters in the runtime.                                              *)
LEMMA DispatchStep ==
  ASSUME IInv, StartDispatch
  PROVE  [M!MNext]_(M!metersVars)
<1>1. CASE flight' = flight
  BY <1>1 DEF StartDispatch, meterVars, M!metersVars
<1>2. ASSUME flight' # flight PROVE M!MNext
  <2> DEFINE b == ContractFor(Head(todo)).budget
  <2>1. M!Preflight(b.usd, b.quota)
    BY <1>2 DEF StartDispatch
  <2>2. b \in Budgets
    BY StartedContract DEF IInv, StartDispatch, Ready
  <2>3. b.usd \in Amounts /\ b.quota \in Amounts
    BY <2>2, PartsAssumption
  <2> QED  BY <2>1, <2>3 DEF M!MNext
<1> QED  BY <1>1, <1>2

LEMMA MetersStep ==
  ASSUME IInv, [Next]_vars
  PROVE  [M!MNext \/ M!MInit']_(M!metersVars)
<1>1. CASE UNCHANGED <<meterVars, flight>>
  BY <1>1 DEF meterVars, M!metersVars
<1>2. CASE Restart
  BY <1>2, RestartFacts DEF Restart, Open, Crash, StartsOver, Unspent, Unfired, M!MInit
<1>3. ASSUME NEW status, NEW cost \in Costs, Finish(status, cost) PROVE M!MNext
  <2>1. cost \in [M!Meter -> Amounts] /\ M!Charge(cost)
    BY <1>3, PartsAssumption DEF Finish
  <2> QED  BY <2>1 DEF M!MNext
<1>4. CASE AdapterRaises
  BY <1>4 DEF AdapterRaises, M!MNext
<1>5. CASE StartDispatch
  BY <1>5, DispatchStep
<1>6. CASE Wake \/ Outside \/ Ends \/ Flush \/ HandlersReturn \/ Verify \/ UNCHANGED vars
  BY <1>1, <1>6 DEF Wake, WakeReflex, WakeExecutive, WakeUnanswered, Outside, Submit,
       OperatorSpeaks, RunStarts, RunEnds, Ends, HandlerRaises, DispatchRaises, EmitRaises, Flush, FlushEmit,
       FlushHalt, HandlersReturn, Verify, vars, workVars
<1> QED  BY <1>2, <1>3, <1>4, <1>5, <1>6, Cases

(* A dispatch passes its preflight before its adapter runs, and is charged *)
(* once or not at all: from one start of the process to the next, every    *)
(* step of the runtime is one of the meters or leaves them alone.          *)
THEOREM RuntimeDrivesMeters ==
  Spec => M!MInit /\ [][M!MNext \/ M!MInit']_(M!metersVars)
<1>1. Init => M!MInit
  BY DEF Init, Unspent, Unfired, M!MInit
<1>2. IInv /\ [Next]_vars => [M!MNext \/ M!MInit']_(M!metersVars)
  BY MetersStep
<1> QED  BY <1>1, <1>2, Invariant, PTL DEF Spec

(* So what is proved of the meters holds in the runtime, for any executive *)
(* and any adapters: thresholds fire when reached, each is reported once   *)
(* and in order, and a guarded meter is overrun by one dispatch at most,   *)
(* the lanes of a race included.                                           *)
THEOREM MetersHold ==
  Spec => [](M!FiredIffReached /\ M!ToldOnceAscending /\ M!OverrunBounded)
<1>1. M!MInit => PP!MInv
  BY SameMeters, PartsHold, PP!MInvInit
<1>2. PP!MInv /\ [M!MNext \/ M!MInit']_(M!metersVars) => PP!MInv'
  <2> SUFFICES ASSUME PP!MInv, [M!MNext \/ M!MInit']_(M!metersVars) PROVE PP!MInv'
    OBVIOUS
  <2>1. CASE [M!MNext]_(M!metersVars)
    <3>1. [PP!MNext]_(PP!metersVars)
      BY <2>1, SameMeters DEF PP!metersVars, M!metersVars
    <3> QED  BY <3>1, PartsHold, PP!MInvNext
  <2>2. CASE M!MInit'
    BY <2>2, <1>1, PTL
  <2> QED  BY <2>1, <2>2
<1>3. PP!MInv => M!FiredIffReached /\ M!ToldOnceAscending /\ M!OverrunBounded
  BY SameMeters DEF PP!MInv
<1> QED  BY <1>1, <1>2, <1>3, RuntimeDrivesMeters, PTL

=============================================================================
