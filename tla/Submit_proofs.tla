---------------------------- MODULE Submit_proofs ----------------------------
(***************************************************************************)
(* Any number of submissions on one database, each stopping anywhere:      *)
(* proofs about what they record.                                          *)
(*                                                                         *)
(* A submission only ever reads rows of the log it has written itself, so  *)
(* that what others append to the same task does not change what its own   *)
(* events say; and it never takes more events than it has emitted, so that *)
(* the number a decision is linked by is that of a row.                    *)
(***************************************************************************)
EXTENDS Submit, SequenceTheorems, FiniteSetTheorems, TLAPS

(* What a submission holds agrees with the log L of its task: what it has  *)
(* waiting or has taken are rows it wrote itself.                          *)
Own(s, p, L) ==
    /\ s.nextSeq <= Len(L)
    /\ \A e \in s.waiting : e < s.nextSeq /\ L[e + 1].by = p
    /\ \A i \in DOMAIN s.processed :
        s.processed[i] < s.nextSeq /\ L[s.processed[i] + 1].by = p

(* No more was taken than emitted, and no more decided than taken.         *)
Counts(s) ==
    /\ IsFiniteSet(s.waiting)
    /\ Len(s.processed) + Cardinality(s.waiting) <= s.nextSeq
    /\ Len(s.taken) <= Len(s.processed)

(* The decisions it has written, it has written.                           *)
Rows(p) ==
    /\ shell[p].wrote <= Len(shell[p].taken)
    /\ \A no \in 0 .. shell[p].wrote - 1 : DecisionKept(p, no)
    /\ shell[p].phase \in {"open", "running"} => shell[p].wrote = 0
    /\ shell[p].phase \in {"outcomes", "done"} => shell[p].wrote = Len(shell[p].taken)

(* So are the outcomes, each the last word unless another has replaced it. *)
LastWord(p, k) ==
    LET o == outcomes[k]
    IN  /\ o # Absent
        /\ o.by = p => \E i \in DOMAIN shell[p].processed :
                        IsOutcome(p, k, i) /\ o.type = TypeOf(p, shell[p].processed[i])

Labels(p) ==
    /\ shell[p].phase \notin {"outcomes", "done"} => shell[p].recorded = {}
    /\ \A k \in shell[p].recorded : LastWord(p, k)
    /\ shell[p].phase = "done" => Labelled(p) \subseteq shell[p].recorded

Held(p) ==
    shell[p].phase \notin {"new", "dead"} =>
        /\ shell[p].task \in TaskIds
        /\ Own(shell[p], p, LogOf(p)) /\ Counts(shell[p])
        /\ Rows(p) /\ Labels(p)

IInv == TypeOK /\ LabelsHaveEvidence /\ \A p \in Shells : Held(p)

-----------------------------------------------------------------------------
Jobs == [cid : Names, lane : Lanes, put : BOOLEAN]

LEMMA Moved ==
  ASSUME TypeOK, NEW p \in Shells, NEW s, Become(p, s)
  PROVE  shell'[p] = s /\ \A q \in Shells \ {p} : shell'[q] = shell[q]
BY DEF TypeOK, Become

LEMMA Fields ==
  ASSUME TypeOK, NEW p \in Shells
  PROVE  /\ shell[p] \in Submissions
         /\ shell[p].task \in Nat /\ shell[p].nextSeq \in Nat /\ shell[p].waiting \subseteq Nat
         /\ shell[p].processed \in Seq(Nat) /\ shell[p].taken \in Seq(Nat)
         /\ shell[p].jobs \in Seq(Jobs) /\ shell[p].halted \in BOOLEAN
         /\ shell[p].wrote \in Nat /\ shell[p].recorded \subseteq RowIds
<1>1. shell[p] \in Submissions
  BY DEF TypeOK
<1> QED  BY <1>1 DEF Submissions, Jobs

(* What a submission keeps of its memory over a step of its run ...        *)
Stays(d, s) ==
    /\ s.task = d.task /\ s.nextSeq = d.nextSeq /\ s.waiting = d.waiting
    /\ s.processed = d.processed /\ s.taken = d.taken

(* ... when it emits an event, and when it takes one.                      *)
Emits(d, s) ==
    /\ s.task = d.task /\ s.nextSeq = d.nextSeq + 1 /\ s.waiting = d.waiting \cup {d.nextSeq}
    /\ s.processed = d.processed /\ s.taken = d.taken
    /\ s.wrote = d.wrote /\ s.recorded = d.recorded

Takes(d, s, e) ==
    /\ s.task = d.task /\ s.nextSeq = d.nextSeq /\ s.waiting = d.waiting \ {e}
    /\ s.processed = Append(d.processed, e) /\ s.taken \in {d.taken, Append(d.taken, e)}
    /\ s.wrote = d.wrote /\ s.recorded = d.recorded

LEMMA FreshIs ==
  /\ Fresh \in Submissions
  /\ Fresh.waiting = {} /\ Fresh.processed = << >> /\ Fresh.taken = << >>
  /\ Fresh.wrote = 0 /\ Fresh.recorded = {} /\ Fresh.phase = "new"
<1>1. << >> \in Seq(Nat) /\ << >> \in Seq(Jobs)
  BY EmptySeq
<1> QED  BY <1>1 DEF Fresh, Submissions, Jobs

LEMMA StartFacts ==
  ASSUME TypeOK, NEW p \in Shells, Start(p)
  PROVE  \E s \in Submissions :
            /\ Become(p, s) /\ s.phase = "open" /\ s.task \in TaskIds
            /\ s.nextSeq = Len(events[s.task]) /\ s.waiting = {}
            /\ s.processed = << >> /\ s.taken = << >> /\ s.wrote = 0 /\ s.recorded = {}
<1>1. PICK t \in Given \cup ({Len(decisions)} \cap TaskIds) :
        Become(p, [Fresh EXCEPT !.phase = "open", !.task = t, !.nextSeq = Len(events[t])])
  BY DEF Start
<1>2. t \in TaskIds /\ t \in Nat
  BY <1>1, SubmitAssumption
<1>3. Len(events[t]) \in Nat
  <2>1. events[t] \in Seq(LogRows)
    BY <1>2 DEF TypeOK
  <2> QED  BY <2>1, LenProperties
<1> DEFINE l == Len(events[t])
           s == [Fresh EXCEPT !.phase = "open", !.task = t, !.nextSeq = l]
<1> HIDE DEF l
<1>4. /\ s \in Submissions /\ s.phase = "open" /\ s.task = t /\ s.nextSeq = l
      /\ s.waiting = {} /\ s.processed = << >> /\ s.taken = << >>
      /\ s.wrote = 0 /\ s.recorded = {}
  BY <1>2, <1>3, FreshIs DEF Submissions, l
<1> QED  BY <1>1, <1>2, <1>4 DEF l

LEMMA DieFacts ==
  ASSUME NEW p \in Shells, Die(p)
  PROVE  \E s \in Submissions : Become(p, s) /\ s.phase = "dead"
<1> DEFINE s == [Fresh EXCEPT !.phase = "dead"]
<1>1. s \in Submissions /\ s.phase = "dead"
  BY FreshIs DEF Submissions
<1> QED  BY <1>1 DEF Die

LEMMA EmittingFacts ==
  ASSUME NEW d \in Submissions
  PROVE  Emitting(d) \in Submissions /\ Emits(d, Emitting(d))
         /\ Emitting(d).phase = d.phase /\ Emitting(d).jobs = d.jobs
         /\ Emitting(d).halted = d.halted
<1>1. d.nextSeq \in Nat /\ d.nextSeq + 1 \in Nat /\ d.waiting \cup {d.nextSeq} \subseteq Nat
  BY DEF Submissions
<1> DEFINE n == d.nextSeq + 1
           w == d.waiting \cup {d.nextSeq}
           s == [d EXCEPT !.nextSeq = n, !.waiting = w]
<1> HIDE DEF n, w
<1>2. /\ s \in Submissions /\ s.task = d.task /\ s.nextSeq = n /\ s.waiting = w
      /\ s.processed = d.processed /\ s.taken = d.taken /\ s.wrote = d.wrote
      /\ s.recorded = d.recorded /\ s.phase = d.phase /\ s.jobs = d.jobs /\ s.halted = d.halted
  BY <1>1 DEF Submissions, n, w
<1>3. Emitting(d) = s
  BY DEF Emitting, n, w
<1> QED  BY <1>2, <1>3 DEF Emits, n, w

LEMMA ReceiveFacts ==
  ASSUME TypeOK, NEW p \in Shells, Receive(p)
  PROVE  \E s \in Submissions : Become(p, s) /\ s.phase = "running" /\ Emits(shell[p], s)
<1> DEFINE d == shell[p]
           e == Emitting(d)
           s == [e EXCEPT !.phase = "running"]
<1>1. Become(p, s)
  BY DEF Receive
<1>2. e \in Submissions /\ Emits(d, e)
  BY Fields, EmittingFacts
<1> HIDE DEF d, e
<1>3. s \in Submissions /\ s.phase = "running" /\ Emits(d, s)
  BY <1>2 DEF Submissions, Emits
<1> QED  BY <1>1, <1>3 DEF d

LEMMA WakeFacts ==
  ASSUME TypeOK, NEW p \in Shells, Wake(p)
  PROVE  \E s \in Submissions : \E e \in shell[p].waiting :
            Become(p, s) /\ s.phase = "running" /\ Takes(shell[p], s, e)
<1> DEFINE d == shell[p]
           u(e) == Taking(d, e)
           t(e) == [u(e) EXCEPT !.taken = Append(@, e)]
           room == MaxLog[d.task] - Len(LogOf(p))
<1>1. d \in Submissions /\ d.phase = "running"
  BY Fields DEF Wake, Running
<1>2. PICK e \in d.waiting :
        \/ \E n \in 0 .. room : \E js \in [1 .. n -> Job] : Become(p, [t(e) EXCEPT !.jobs = js])
        \/ Become(p, [t(e) EXCEPT !.halted = TRUE])
        \/ \E j \in Job : Become(p, [u(e) EXCEPT !.jobs = <<j>>])
  <2>1. \A e : Taking(d, e).task = d.task
    BY DEF Taking
  <2> QED  BY <2>1 DEF Wake
<1>3. e \in Nat /\ Append(d.taken, e) \in Seq(Nat) /\ Append(d.processed, e) \in Seq(Nat)
  BY Fields, AppendProperties
<1> HIDE DEF d
<1>4. /\ u(e) \in Submissions /\ u(e).phase = "running" /\ Takes(d, u(e), e)
      /\ u(e).taken = d.taken
  BY <1>1, <1>3 DEF Submissions, Taking, Takes
<1>5. t(e) \in Submissions /\ t(e).phase = "running" /\ Takes(d, t(e), e)
  <2> HIDE DEF u
  <2>1. Append(u(e).taken, e) = Append(d.taken, e)
    BY <1>4
  <2> QED  BY <1>3, <1>4, <2>1 DEF Submissions, Takes
<1> HIDE DEF u, t
<1>6. ASSUME NEW v, v \in Submissions, v.phase = "running", Takes(d, v, e), NEW js \in Seq(Jobs)
      PROVE  LET w == [v EXCEPT !.jobs = js]
             IN  w \in Submissions /\ w.phase = "running" /\ Takes(d, w, e)
  BY <1>6 DEF Submissions, Takes, Jobs
<1>7. CASE \E n \in 0 .. room : \E js \in [1 .. n -> Job] : Become(p, [t(e) EXCEPT !.jobs = js])
  <2>1. PICK n \in 0 .. room : \E js \in [1 .. n -> Job] : Become(p, [t(e) EXCEPT !.jobs = js])
    BY <1>7
  <2>2. PICK js \in [1 .. n -> Job] : Become(p, [t(e) EXCEPT !.jobs = js])
    BY <2>1
  <2>3. js \in Seq(Jobs)
    <3>1. Job \subseteq Jobs
      BY DEF Job, Jobs
    <3>2. js \in [1 .. n -> Jobs] /\ n \in Nat
      BY <3>1
    <3> QED  BY <3>2, SeqDef
  <2> DEFINE w == [t(e) EXCEPT !.jobs = js]
  <2>4. w \in Submissions /\ w.phase = "running" /\ Takes(d, w, e)
    BY <1>5, <1>6, <2>3
  <2>5. Become(p, w)
    BY <2>2
  <2> HIDE DEF w
  <2> QED  BY <2>4, <2>5 DEF d
<1>8. CASE Become(p, [t(e) EXCEPT !.halted = TRUE])
  <2> DEFINE w == [t(e) EXCEPT !.halted = TRUE]
  <2>1. w \in Submissions /\ w.phase = "running" /\ Takes(d, w, e)
    BY <1>5 DEF Submissions, Takes
  <2>2. Become(p, w)
    BY <1>8
  <2> HIDE DEF w
  <2> QED  BY <2>1, <2>2 DEF d
<1>9. CASE \E j \in Job : Become(p, [u(e) EXCEPT !.jobs = <<j>>])
  <2>1. PICK j \in Job : Become(p, [u(e) EXCEPT !.jobs = <<j>>])
    BY <1>9
  <2>2. <<j>> \in Seq(Jobs)
    <3>1. j \in Jobs
      BY DEF Job, Jobs
    <3> QED  BY <3>1
  <2> DEFINE w == [u(e) EXCEPT !.jobs = <<j>>]
  <2>3. w \in Submissions /\ w.phase = "running" /\ Takes(d, w, e)
    BY <1>4, <1>6, <2>2
  <2>4. Become(p, w)
    BY <2>1
  <2> HIDE DEF w
  <2> QED  BY <2>3, <2>4 DEF d
<1> QED  BY <1>2, <1>7, <1>8, <1>9

LEMMA StartDispatchFacts ==
  ASSUME TypeOK, NEW p \in Shells, StartDispatch(p)
  PROVE  /\ shell[p].phase = "running" /\ Head(shell[p].jobs) \in Jobs
         /\ \E s \in Submissions :
                /\ Become(p, s) /\ s.phase = "running" /\ Stays(shell[p], s)
                /\ s.wrote = shell[p].wrote /\ s.recorded = shell[p].recorded
<1> DEFINE d == shell[p]
           js == [d.jobs EXCEPT ![1] = [@ EXCEPT !.put = TRUE]]
           s == [d EXCEPT !.jobs = js]
<1>1. d.phase = "running" /\ d.jobs # << >> /\ Become(p, [d EXCEPT !.jobs[1].put = TRUE])
  BY DEF StartDispatch
<1>2. d \in Submissions /\ d.jobs \in Seq(Jobs)
  BY Fields
<1>3. Head(d.jobs) \in Jobs /\ 1 \in 1 .. Len(d.jobs) /\ d.jobs[1] \in Jobs
  <2>1. Len(d.jobs) \in Nat \ {0}
    BY <1>1, <1>2, EmptySeq
  <2>2. 1 \in 1 .. Len(d.jobs)
    BY <2>1
  <2> QED  BY <1>1, <1>2, <2>2, HeadTailProperties, ElementOfSeq
<1>4. [d.jobs[1] EXCEPT !.put = TRUE] \in Jobs
  BY <1>3 DEF Jobs
<1>5. js \in Seq(Jobs)
  BY <1>2, <1>3, <1>4, ExceptSeq
<1>6. Become(p, s)
  BY <1>1
<1> HIDE DEF d, js
<1>7. s \in Submissions /\ s.phase = d.phase /\ Stays(d, s) /\ s.wrote = d.wrote
      /\ s.recorded = d.recorded
  BY <1>2, <1>5 DEF Submissions, Stays, Jobs
<1> QED  BY <1>1, <1>3, <1>6, <1>7 DEF d

LEMMA FinishDispatchFacts ==
  ASSUME TypeOK, NEW p \in Shells, FinishDispatch(p)
  PROVE  /\ shell[p].phase = "running"
         /\ \/ /\ Continues(p)
               /\ \E row \in LogRows :
                    /\ row.by = p
                    /\ events' = [events EXCEPT ![shell[p].task] = Append(@, row)]
               /\ \E s \in Submissions :
                    Become(p, s) /\ s.phase = "running" /\ Emits(shell[p], s)
            \/ /\ UNCHANGED events
               /\ \E s \in Submissions : Become(p, s) /\ s.phase = "dead"
<1> DEFINE d == shell[p]
           j == Head(d.jobs)
           s == Emitting(d)
<1>1. d.phase = "running" /\ d.jobs # << >>
  BY DEF FinishDispatch
<1>2. d \in Submissions /\ d.jobs \in Seq(Jobs)
  BY Fields
<1>3. j \in Jobs /\ Tail(d.jobs) \in Seq(Jobs)
  BY <1>1, <1>2, HeadTailProperties
<1>4. s \in Submissions /\ Emits(d, s) /\ s.phase = d.phase /\ s.jobs = d.jobs
      /\ s.halted = d.halted
  BY <1>2, EmittingFacts
<1>5. \/ /\ Continues(p)
         /\ \/ /\ \E type \in Results \cap WORKER_RESULTS : Logging(p, type, j.cid, j.lane)
               /\ Become(p, [s EXCEPT !.jobs = Tail(@)])
            \/ /\ \E type \in Notes : Logging(p, type, None, None)
               /\ \E over, halts \in BOOLEAN :
                    Become(p, [s EXCEPT !.jobs = IF over THEN Tail(@) ELSE @,
                                        !.halted = @ \/ halts])
      \/ ~Continues(p) /\ Die(p) /\ UNCHANGED events
  BY DEF FinishDispatch
<1>6. CASE ~Continues(p) /\ Die(p) /\ UNCHANGED events
  BY <1>1, <1>6, DieFacts
<1>7. ASSUME NEW type \in EventType, NEW cid \in Names \cup {None},
             NEW lane \in Lanes \cup {None}, Logging(p, type, cid, lane)
      PROVE  \E row \in LogRows :
                /\ row.by = p
                /\ events' = [events EXCEPT ![d.task] = Append(@, row)]
  <2> DEFINE row == [type |-> type, cid |-> cid, lane |-> lane, by |-> p]
  <2>1. row \in LogRows /\ row.by = p
    BY DEF LogRows
  <2>2. events' = [events EXCEPT ![d.task] = Append(@, row)]
    BY <1>7 DEF Logging
  <2> QED  BY <2>1, <2>2
<1>8. CASE /\ Continues(p)
           /\ \E type \in Results \cap WORKER_RESULTS : Logging(p, type, j.cid, j.lane)
           /\ Become(p, [s EXCEPT !.jobs = Tail(@)])
  <2>1. PICK type \in Results \cap WORKER_RESULTS : Logging(p, type, j.cid, j.lane)
    BY <1>8
  <2>2. type \in EventType /\ j.cid \in Names /\ j.lane \in Lanes
    BY <1>3 DEF WORKER_RESULTS, EventType, Jobs
  <2> DEFINE t == Tail(d.jobs)
             w == [s EXCEPT !.jobs = t]
  <2>3. Become(p, w)
    BY <1>4, <1>8
  <2>4. w \in Submissions /\ w.phase = "running" /\ Emits(d, w)
    <3> HIDE DEF s, t, d
    <3>1. t \in Seq(Jobs) /\ d.phase = "running"
      BY <1>1, <1>3 DEF t
    <3> QED  BY <1>4, <3>1 DEF Submissions, Emits, Jobs
  <2> HIDE DEF w
  <2> QED  BY <1>1, <1>7, <1>8, <2>1, <2>2, <2>3, <2>4
<1>9. CASE /\ Continues(p)
           /\ \E type \in Notes : Logging(p, type, None, None)
           /\ \E over, halts \in BOOLEAN :
                    Become(p, [s EXCEPT !.jobs = IF over THEN Tail(@) ELSE @,
                                        !.halted = @ \/ halts])
  <2>1. PICK type \in Notes : Logging(p, type, None, None)
    BY <1>9
  <2>2. type \in EventType
    BY SubmitAssumption
  <2>3. PICK over \in BOOLEAN, halts \in BOOLEAN :
            Become(p, [s EXCEPT !.jobs = IF over THEN Tail(@) ELSE @, !.halted = @ \/ halts])
    BY <1>9
  <2> DEFINE t == IF over THEN Tail(d.jobs) ELSE d.jobs
             h == d.halted \/ halts
             w == [s EXCEPT !.jobs = t, !.halted = h]
  <2>4. Become(p, w)
    BY <1>4, <2>3
  <2>5. w \in Submissions /\ w.phase = "running" /\ Emits(d, w)
    <3>1. t \in Seq(Jobs) /\ h \in BOOLEAN /\ d.phase = "running"
      BY <1>1, <1>2, <1>3
    <3> HIDE DEF s, t, h, d
    <3> QED  BY <1>4, <3>1 DEF Submissions, Emits, Jobs
  <2> HIDE DEF w
  <2> QED  BY <1>1, <1>7, <1>9, <2>1, <2>2, <2>4, <2>5
<1> QED  BY <1>5, <1>6, <1>8, <1>9

Goes(d, s, phase, wrote, recorded) ==
    Stays(d, s) /\ s.phase = phase /\ s.wrote = wrote /\ s.recorded = recorded

LEMMA RunEndsFacts ==
  ASSUME TypeOK, NEW p \in Shells, RunEnds(p)
  PROVE  /\ shell[p].phase = "running"
         /\ \E s \in Submissions :
                /\ Become(p, s)
                /\ \/ s.phase = "dead"
                   \/ Goes(shell[p], s, "decisions", shell[p].wrote, shell[p].recorded)
<1> DEFINE d == shell[p]
           s == [d EXCEPT !.phase = "decisions"]
<1>1. d.phase = "running" /\ (Die(p) \/ Become(p, s))
  BY DEF RunEnds, Running
<1>2. d \in Submissions
  BY Fields
<1>3. s \in Submissions /\ Goes(d, s, "decisions", d.wrote, d.recorded)
  <2> HIDE DEF d
  <2> QED  BY <1>2 DEF Submissions, Goes, Stays
<1> HIDE DEF d, s
<1> QED  BY <1>1, <1>3, DieFacts DEF d

LEMMA RecordDecisionFacts ==
  ASSUME TypeOK, NEW p \in Shells, RecordDecision(p)
  PROVE  /\ shell[p].phase = "decisions" /\ shell[p].wrote < Len(shell[p].taken)
         /\ \E s \in Submissions :
                Become(p, s)
                /\ Goes(shell[p], s, "decisions", shell[p].wrote + 1, shell[p].recorded)
<1> DEFINE d == shell[p]
           n == d.wrote + 1
           s == [d EXCEPT !.wrote = n]
<1>1. d.phase = "decisions" /\ d.wrote < Len(d.taken) /\ Become(p, s)
  BY DEF RecordDecision
<1>2. d \in Submissions /\ n \in Nat
  BY Fields
<1>3. s \in Submissions /\ Goes(d, s, "decisions", n, d.recorded)
  <2> HIDE DEF d, n
  <2> QED  BY <1>1, <1>2 DEF Submissions, Goes, Stays
<1> HIDE DEF s
<1> QED  BY <1>1, <1>3

LEMMA DecisionsRecordedFacts ==
  ASSUME TypeOK, NEW p \in Shells, DecisionsRecorded(p)
  PROVE  /\ shell[p].phase = "decisions" /\ shell[p].wrote = Len(shell[p].taken)
         /\ \E s \in Submissions :
                Become(p, s)
                /\ Goes(shell[p], s, "outcomes", shell[p].wrote, shell[p].recorded)
<1> DEFINE d == shell[p]
           s == [d EXCEPT !.phase = "outcomes"]
<1>1. d.phase = "decisions" /\ d.wrote = Len(d.taken) /\ Become(p, s)
  BY DEF DecisionsRecorded
<1>2. d \in Submissions
  BY Fields
<1>3. s \in Submissions /\ Goes(d, s, "outcomes", d.wrote, d.recorded)
  <2> HIDE DEF d
  <2> QED  BY <1>2 DEF Submissions, Goes, Stays
<1> HIDE DEF s
<1> QED  BY <1>1, <1>3

LEMMA FinishFacts ==
  ASSUME TypeOK, NEW p \in Shells, Finish(p)
  PROVE  /\ shell[p].phase = "outcomes" /\ Labelled(p) \subseteq shell[p].recorded
         /\ \E s \in Submissions :
                Become(p, s)
                /\ Goes(shell[p], s, "done", shell[p].wrote, shell[p].recorded)
<1> DEFINE d == shell[p]
           s == [d EXCEPT !.phase = "done"]
<1>1. d.phase = "outcomes" /\ Labelled(p) \subseteq d.recorded /\ Become(p, s)
  BY DEF Finish
<1>2. d \in Submissions
  BY Fields
<1>3. s \in Submissions /\ Goes(d, s, "done", d.wrote, d.recorded)
  <2> HIDE DEF d
  <2> QED  BY <1>2 DEF Submissions, Goes, Stays
<1> HIDE DEF s
<1> QED  BY <1>1, <1>3

(* One outcome: of the contract's last terminal event, under its row.      *)
LEMMA RecordOutcomeFacts ==
  ASSUME TypeOK, NEW p \in Shells, RecordOutcome(p)
  PROVE  /\ shell[p].phase = "outcomes"
         /\ \/ /\ UNCHANGED outcomes
               /\ \E s \in Submissions : Become(p, s) /\ s.phase = "dead"
            \/ \E k \in RowIds, i \in DOMAIN shell[p].processed :
                /\ IsOutcome(p, k, i)
                /\ contracts[k] # Absent
                /\ outcomes' = [outcomes EXCEPT ![k] = OutcomeAt(p, i)]
                /\ \E s \in Submissions :
                    Become(p, s)
                    /\ Goes(shell[p], s, "outcomes", shell[p].wrote, shell[p].recorded \cup {k})
<1> DEFINE d == shell[p]
<1>1. d.phase = "outcomes"
  BY DEF RecordOutcome
<1>2. PICK k \in RowIds, i \in DOMAIN d.processed :
        /\ IsOutcome(p, k, i)
        /\ \/ /\ contracts[k] # Absent
              /\ outcomes' = [outcomes EXCEPT ![k] = OutcomeAt(p, i)]
              /\ Become(p, [d EXCEPT !.recorded = @ \cup {k}])
           \/ Die(p) /\ UNCHANGED outcomes
  BY DEF RecordOutcome
<1> DEFINE r == d.recorded \cup {k}
           s == [d EXCEPT !.recorded = r]
<1>3. d \in Submissions /\ r \subseteq RowIds
  BY Fields
<1>4. s \in Submissions /\ Goes(d, s, "outcomes", d.wrote, r)
  <2> HIDE DEF d, r
  <2> QED  BY <1>1, <1>3 DEF Submissions, Goes, Stays
<1>5. CASE Die(p) /\ UNCHANGED outcomes
  BY <1>1, <1>5, DieFacts
<1>6. CASE /\ contracts[k] # Absent
           /\ outcomes' = [outcomes EXCEPT ![k] = OutcomeAt(p, i)]
           /\ Become(p, s)
  <2> HIDE DEF s
  <2> QED  BY <1>1, <1>2, <1>4, <1>6
<1> QED  BY <1>2, <1>5, <1>6

-----------------------------------------------------------------------------
LEMMA TypeStep ==
  ASSUME TypeOK, NEW p \in Shells, NEW s \in Submissions, Become(p, s),
         events' \in [TaskIds -> Seq(LogRows)],
         contracts' \in [RowIds -> {Absent} \cup [lane : VALID_LANES, by : Shells]],
         decisions' \in Seq([task : TaskIds, seq : Nat, by : Shells, no : Nat]),
         outcomes' \in [RowIds -> {Absent} \cup [type : TERMINAL_EVENTS, by : Shells]]
  PROVE  TypeOK'
BY DEF TypeOK, Become

LEMMA LogTypes ==
  ASSUME TypeOK, NEW t, NEW row \in LogRows, events' = [events EXCEPT ![t] = Append(@, row)]
  PROVE  events' \in [TaskIds -> Seq(LogRows)]
<1>1. events \in [TaskIds -> Seq(LogRows)]
  BY DEF TypeOK
<1>2. \A u \in TaskIds : Append(events[u], row) \in Seq(LogRows)
  BY <1>1, AppendProperties
<1> QED  BY <1>1, <1>2

(* The number a decision is linked by is that of a row: event_id_for finds *)
(* it, and the decision is written.                                        *)
LEMMA DecisionIsWritten ==
  ASSUME TypeOK, NEW p \in Shells, Held(p), RecordDecision(p)
  PROVE  \E row \in [task : TaskIds, seq : Nat, by : Shells, no : Nat] :
            decisions' = Append(decisions, row) /\ row.by = p /\ row.no = shell[p].wrote
<1> DEFINE d == shell[p]
           seq == EventIndex(d)
           row == [task |-> d.task, seq |-> seq, by |-> p, no |-> d.wrote]
<1>1. d.phase = "decisions" /\ d.wrote < Len(d.taken)
  BY RecordDecisionFacts
<1>2. /\ d.task \in TaskIds /\ d.nextSeq <= Len(LogOf(p)) /\ IsFiniteSet(d.waiting)
      /\ Len(d.processed) + Cardinality(d.waiting) <= d.nextSeq
      /\ Len(d.taken) <= Len(d.processed)
  BY <1>1 DEF Held, Own, Counts
<1>3. /\ d.wrote \in Nat /\ d.nextSeq \in Nat /\ Len(d.taken) \in Nat
      /\ Len(d.processed) \in Nat /\ Cardinality(d.waiting) \in Nat /\ Len(LogOf(p)) \in Nat
  <2>1. LogOf(p) \in Seq(LogRows)
    BY <1>2 DEF TypeOK, LogOf
  <2> QED  BY <1>2, <2>1, Fields, LenProperties, FS_CardinalityType
<1>4. seq \in Nat /\ seq \in 0 .. Len(LogOf(p)) - 1
  <2> DEFINE n == Len(d.processed)
             c == Cardinality(d.waiting)
             l == Len(LogOf(p))
             m == Len(d.taken)
  <2>1. seq = IF d.wrote < n - 1 THEN d.wrote ELSE n - 1
    BY DEF EventIndex, Smaller
  <2>2. /\ d.wrote \in Nat /\ n \in Nat /\ c \in Nat /\ l \in Nat /\ m \in Nat /\ d.nextSeq \in Nat
        /\ d.wrote < m /\ m <= n /\ n + c <= d.nextSeq /\ d.nextSeq <= l
    BY <1>1, <1>2, <1>3
  <2>3. seq \in Nat /\ seq \in 0 .. l - 1
    <3> HIDE DEF n, c, l, m, seq, d
    <3> QED  BY <2>1, <2>2
  <2> QED  BY <2>3
<1>5. decisions' = IF seq \in 0 .. Len(LogOf(p)) - 1 THEN Append(decisions, row) ELSE decisions
  BY DEF RecordDecision
<1> HIDE DEF seq
<1>6. row \in [task : TaskIds, seq : Nat, by : Shells, no : Nat] /\ row.by = p /\ row.no = d.wrote
  BY <1>2, <1>3, <1>4
<1> QED  BY <1>4, <1>5, <1>6

LEMMA TypeNext ==
  ASSUME TypeOK, \A p \in Shells : Held(p), [Next]_vars
  PROVE  TypeOK'
<1>1. CASE UNCHANGED vars
  BY <1>1 DEF vars, TypeOK
<1>2. SUFFICES ASSUME NEW p \in Shells, Start(p) \/ Runs(p)
               PROVE  TypeOK'
  BY <1>1 DEF Next
<1> DEFINE d == shell[p]
<1>3. /\ events \in [TaskIds -> Seq(LogRows)]
      /\ contracts \in [RowIds -> {Absent} \cup [lane : VALID_LANES, by : Shells]]
      /\ decisions \in Seq([task : TaskIds, seq : Nat, by : Shells, no : Nat])
      /\ outcomes \in [RowIds -> {Absent} \cup [type : TERMINAL_EVENTS, by : Shells]]
  BY DEF TypeOK
<1>4. ASSUME UNCHANGED <<events, contracts, decisions, outcomes>>,
             \E s \in Submissions : Become(p, s)
      PROVE  TypeOK'
  BY <1>3, <1>4, TypeStep
<1>5. CASE Start(p)
  BY <1>4, <1>5, StartFacts DEF Start
<1>6. CASE Receive(p)
  <2>1. PICK s \in Submissions : Become(p, s)
    BY <1>6, ReceiveFacts
  <2>2. events' \in [TaskIds -> Seq(LogRows)]
    <3> DEFINE row == [type |-> "task_received", cid |-> None, lane |-> None, by |-> p]
    <3>1. row \in LogRows
      BY DEF LogRows, EventType
    <3>2. events' = [events EXCEPT ![shell[p].task] = Append(@, row)]
      BY <1>6 DEF Receive, Logging
    <3> HIDE DEF row
    <3> QED  BY <3>1, <3>2, LogTypes
  <2>3. UNCHANGED <<contracts, decisions, outcomes>>
    BY <1>6 DEF Receive
  <2> QED  BY <1>3, <2>1, <2>2, <2>3, TypeStep
<1>7. CASE ReceiveRejected(p)
  BY <1>4, <1>7, DieFacts DEF ReceiveRejected
<1>8. CASE Wake(p)
  BY <1>4, <1>8, WakeFacts DEF Wake
<1>9. CASE StartDispatch(p)
  <2>1. PICK s \in Submissions : Become(p, s)
    BY <1>9, StartDispatchFacts
  <2>2. contracts' \in [RowIds -> {Absent} \cup [lane : VALID_LANES, by : Shells]]
    <3> DEFINE k == row_id(d.task, Head(d.jobs).cid)
               r == [lane |-> Head(d.jobs).lane, by |-> p]
    <3>1. \/ contracts' = contracts
          \/ Head(d.jobs).lane \in VALID_LANES /\ contracts' = [contracts EXCEPT ![k] = r]
      BY <1>9 DEF StartDispatch, Put
    <3>2. Head(d.jobs).lane \in VALID_LANES => r \in [lane : VALID_LANES, by : Shells]
      OBVIOUS
    <3> HIDE DEF k, r
    <3> QED  BY <1>3, <3>1, <3>2
  <2>3. UNCHANGED <<events, decisions, outcomes>>
    BY <1>9 DEF StartDispatch
  <2> QED  BY <1>3, <2>1, <2>2, <2>3, TypeStep
<1>10. CASE FinishDispatch(p)
  <2>1. PICK s \in Submissions : Become(p, s)
    BY <1>10, FinishDispatchFacts
  <2>2. events' \in [TaskIds -> Seq(LogRows)]
    <3>1. UNCHANGED events \/ \E row \in LogRows :
                    events' = [events EXCEPT ![shell[p].task] = Append(@, row)]
      BY <1>10, FinishDispatchFacts
    <3> QED  BY <1>3, <3>1, LogTypes
  <2>3. UNCHANGED <<contracts, decisions, outcomes>>
    BY <1>10 DEF FinishDispatch
  <2> QED  BY <1>3, <2>1, <2>2, <2>3, TypeStep
<1>11. CASE RunEnds(p)
  BY <1>4, <1>11, RunEndsFacts DEF RunEnds
<1>12. CASE RecordDecision(p)
  <2>1. PICK s \in Submissions : Become(p, s)
    BY <1>12, RecordDecisionFacts
  <2>2. decisions' \in Seq([task : TaskIds, seq : Nat, by : Shells, no : Nat])
    <3> DEFINE Row == [task : TaskIds, seq : Nat, by : Shells, no : Nat]
    <3>1. decisions \in Seq(Row) /\ \E row \in Row : decisions' = Append(decisions, row)
      BY <1>3, <1>12, DecisionIsWritten
    <3> HIDE DEF Row
    <3>2. decisions' \in Seq(Row)
      BY <3>1, AppendProperties
    <3> QED  BY <3>2 DEF Row
  <2>3. UNCHANGED <<events, contracts, outcomes>>
    BY <1>12 DEF RecordDecision
  <2> QED  BY <1>3, <2>1, <2>2, <2>3, TypeStep
<1>13. CASE DecisionsRecorded(p)
  BY <1>4, <1>13, DecisionsRecordedFacts DEF DecisionsRecorded
<1>14. CASE RecordOutcome(p)
  <2>1. PICK s \in Submissions : Become(p, s)
    BY <1>14, RecordOutcomeFacts
  <2>2. outcomes' \in [RowIds -> {Absent} \cup [type : TERMINAL_EVENTS, by : Shells]]
    <3>1. ASSUME NEW k \in RowIds, NEW i \in DOMAIN shell[p].processed, IsOutcome(p, k, i)
          PROVE  OutcomeAt(p, i) \in [type : TERMINAL_EVENTS, by : Shells]
      BY <3>1 DEF IsOutcome, Terminal, OutcomeAt
    <3>2. UNCHANGED outcomes \/ \E k \in RowIds, i \in DOMAIN shell[p].processed :
                /\ IsOutcome(p, k, i)
                /\ outcomes' = [outcomes EXCEPT ![k] = OutcomeAt(p, i)]
      BY <1>14, RecordOutcomeFacts
    <3> QED  BY <1>3, <3>1, <3>2
  <2>3. UNCHANGED <<events, contracts, decisions>>
    BY <1>14 DEF RecordOutcome
  <2> QED  BY <1>3, <2>1, <2>2, <2>3, TypeStep
<1>15. CASE Finish(p)
  BY <1>4, <1>15, FinishFacts DEF Finish
<1> QED
  BY <1>2, <1>5, <1>6, <1>7, <1>8, <1>9, <1>10, <1>11, <1>12, <1>13, <1>14, <1>15 DEF Runs

-----------------------------------------------------------------------------
LEMMA Present ==
  /\ \A r \in [type : TERMINAL_EVENTS, by : Shells] : r # Absent
  /\ \A r \in [lane : VALID_LANES, by : Shells] : r # Absent
BY DEF Absent

(* What others may count on: no row of a log, no decision and no contract  *)
(* goes away, and an outcome is replaced by one that says whose it is.     *)
LogsGrow ==
    \A t \in TaskIds :
        /\ Len(events[t]) <= Len(events'[t])
        /\ \A i \in 1 .. Len(events[t]) : events'[t][i] = events[t][i]

DecisionsGrow ==
    \A i \in DOMAIN decisions : i \in DOMAIN decisions' /\ decisions'[i] = decisions[i]

ContractsStay == \A k \in RowIds : contracts[k] # Absent => contracts'[k] # Absent

OutcomesBy(p) ==
    \A k \in RowIds :
        \/ outcomes'[k] = outcomes[k]
        \/ outcomes'[k] # Absent /\ outcomes'[k].by = p

LEMMA AppendGrows ==
  ASSUME TypeOK, NEW t \in TaskIds, NEW row \in LogRows,
         events' = [events EXCEPT ![t] = Append(@, row)]
  PROVE  /\ LogsGrow
         /\ Len(events'[t]) = Len(events[t]) + 1 /\ events'[t][Len(events[t]) + 1] = row
<1>1. events \in [TaskIds -> Seq(LogRows)]
  BY DEF TypeOK
<1>2. \A u \in TaskIds : events'[u] = IF u = t THEN Append(events[t], row) ELSE events[u]
  BY <1>1
<1>3. /\ Len(Append(events[t], row)) = Len(events[t]) + 1
      /\ Append(events[t], row)[Len(events[t]) + 1] = row
      /\ \A i \in 1 .. Len(events[t]) : Append(events[t], row)[i] = events[t][i]
  BY <1>1, AppendProperties
<1>4. \A u \in TaskIds : Len(events[u]) \in Nat
  BY <1>1, LenProperties
<1> DEFINE L == events[t]
           M == Append(L, row)
<1>5. ASSUME NEW u \in TaskIds
      PROVE  /\ Len(events[u]) <= Len(events'[u])
             /\ \A i \in 1 .. Len(events[u]) : events'[u][i] = events[u][i]
  <2>1. CASE u = t
    <3>1. events'[u] = M /\ events[u] = L
      BY <1>2, <2>1
    <3>2. Len(M) = Len(L) + 1 /\ Len(L) \in Nat /\ \A i \in 1 .. Len(L) : M[i] = L[i]
      BY <1>3, <1>4
    <3> HIDE DEF L, M
    <3> QED  BY <3>1, <3>2
  <2>2. CASE u # t
    <3>1. events'[u] = events[u] /\ Len(events[u]) \in Nat
      BY <1>2, <1>4, <2>2
    <3> QED  BY <3>1
  <2> QED  BY <2>1, <2>2
<1>6. LogsGrow
  BY <1>5 DEF LogsGrow
<1> QED  BY <1>2, <1>3, <1>6

LEMMA NoneGrows ==
  ASSUME TypeOK
  PROVE  /\ UNCHANGED events => LogsGrow
         /\ UNCHANGED decisions => DecisionsGrow
         /\ UNCHANGED contracts => ContractsStay
         /\ \A p \in Shells : UNCHANGED outcomes => OutcomesBy(p)
<1>1. \A t \in TaskIds : Len(events[t]) \in Nat
  BY LenProperties DEF TypeOK
<1> QED  BY <1>1 DEF LogsGrow, DecisionsGrow, ContractsStay, OutcomesBy

LEMMA Database ==
  ASSUME TypeOK, NEW p \in Shells, Held(p), Start(p) \/ Runs(p)
  PROVE  LogsGrow /\ DecisionsGrow /\ ContractsStay /\ OutcomesBy(p)
<1> DEFINE d == shell[p]
<1>1. CASE UNCHANGED <<events, contracts, decisions, outcomes>>
  BY <1>1, NoneGrows
<1>2. CASE Receive(p)
  <2>1. d.task \in TaskIds
    BY <1>2 DEF Receive, Held
  <2> DEFINE row == [type |-> "task_received", cid |-> None, lane |-> None, by |-> p]
  <2>2. row \in LogRows
    BY DEF LogRows, EventType
  <2>3. events' = [events EXCEPT ![d.task] = Append(@, row)]
    BY <1>2 DEF Receive, Logging
  <2>4. UNCHANGED <<contracts, decisions, outcomes>>
    BY <1>2 DEF Receive
  <2> HIDE DEF row
  <2> QED  BY <2>1, <2>2, <2>3, <2>4, AppendGrows, NoneGrows
<1>3. CASE FinishDispatch(p)
  <2>1. d.task \in TaskIds
    BY <1>3 DEF FinishDispatch, Held
  <2>2. UNCHANGED events \/ \E row \in LogRows : events' = [events EXCEPT ![d.task] = Append(@, row)]
    BY <1>3, FinishDispatchFacts
  <2>3. UNCHANGED <<contracts, decisions, outcomes>>
    BY <1>3 DEF FinishDispatch
  <2> QED  BY <2>1, <2>2, <2>3, AppendGrows, NoneGrows
<1>4. CASE StartDispatch(p)
  <2> DEFINE k == row_id(d.task, Head(d.jobs).cid)
             r == [lane |-> Head(d.jobs).lane, by |-> p]
  <2>1. contracts' = contracts \/ contracts' = [contracts EXCEPT ![k] = r]
    BY <1>4 DEF StartDispatch, Put
  <2>2. r # Absent
    BY DEF Absent
  <2> HIDE DEF k, r
  <2>3. ContractsStay
    BY <2>1, <2>2 DEF TypeOK, ContractsStay
  <2> QED  BY <1>4, <2>3, NoneGrows DEF StartDispatch
<1>5. CASE RecordDecision(p)
  <2> DEFINE Row == [task : TaskIds, seq : Nat, by : Shells, no : Nat]
  <2>1. PICK row \in Row : decisions' = Append(decisions, row)
    BY <1>5, DecisionIsWritten
  <2> HIDE DEF Row
  <2>2. DecisionsGrow
    <3>1. decisions \in Seq(Row)
      BY DEF TypeOK, Row
    <3> QED  BY <2>1, <3>1, AppendProperties DEF DecisionsGrow
  <2> QED  BY <1>5, <2>2, NoneGrows DEF RecordDecision
<1>6. CASE RecordOutcome(p)
  <2>1. UNCHANGED outcomes \/ \E k \in RowIds, i \in DOMAIN d.processed :
            outcomes' = [outcomes EXCEPT ![k] = OutcomeAt(p, i)]
    BY <1>6, RecordOutcomeFacts
  <2>2. \A i \in DOMAIN d.processed : OutcomeAt(p, i) # Absent /\ OutcomeAt(p, i).by = p
    BY DEF OutcomeAt, Absent
  <2>3. OutcomesBy(p)
    <3>1. CASE UNCHANGED outcomes
      BY <3>1 DEF OutcomesBy
    <3>2. ASSUME NEW k \in RowIds, NEW i \in DOMAIN d.processed,
                 outcomes' = [outcomes EXCEPT ![k] = OutcomeAt(p, i)]
          PROVE  OutcomesBy(p)
      <4> DEFINE o == OutcomeAt(p, i)
      <4>1. o # Absent /\ o.by = p
        BY <2>2
      <4> HIDE DEF o
      <4>2. outcomes' = [outcomes EXCEPT ![k] = o]
        BY <3>2 DEF o
      <4> QED  BY <4>1, <4>2 DEF TypeOK, OutcomesBy
    <3> QED  BY <2>1, <3>1, <3>2
  <2> QED  BY <1>6, <2>3, NoneGrows DEF RecordOutcome
<1> QED
  BY <1>1, <1>2, <1>3, <1>4, <1>5, <1>6
     DEF Runs, Start, ReceiveRejected, Wake, RunEnds, DecisionsRecorded, Finish

(* What a submission has taken says later what it says now.                *)
LEMMA Stands ==
  ASSUME TypeOK, TypeOK', NEW q \in Shells, LogsGrow, Stays(shell[q], shell'[q]),
         shell[q].task \in TaskIds, Own(shell[q], q, LogOf(q)), Counts(shell[q])
  PROVE  /\ shell'[q].task \in TaskIds /\ Own(shell[q], q, LogOf(q))' /\ Counts(shell[q])'
         /\ \A i \in DOMAIN shell[q].processed :
                TypeOf(q, shell[q].processed[i])' = TypeOf(q, shell[q].processed[i])
         /\ \A k \in RowIds : Terminal(q, k)' = Terminal(q, k)
<1> DEFINE s == shell[q]
           L == events[s.task]
           M == events'[s.task]
<1>1. /\ s.nextSeq \in Nat /\ s.waiting \subseteq Nat /\ s.processed \in Seq(Nat)
      /\ \A i \in DOMAIN s.processed : s.processed[i] \in Nat
  BY Fields, ElementOfSeq
<1>2. /\ shell'[q].task = s.task /\ shell'[q].nextSeq = s.nextSeq
      /\ shell'[q].waiting = s.waiting /\ shell'[q].processed = s.processed
      /\ shell'[q].taken = s.taken /\ LogOf(q)' = M /\ LogOf(q) = L
  BY DEF Stays, LogOf
<1>3. /\ Len(L) \in Nat /\ Len(M) \in Nat /\ Len(L) <= Len(M)
      /\ \A i \in 1 .. Len(L) : M[i] = L[i]
  BY LenProperties DEF TypeOK, LogsGrow
<1>4. /\ s.nextSeq <= Len(L)
      /\ \A e \in s.waiting : e < s.nextSeq /\ L[e + 1].by = q
      /\ \A i \in DOMAIN s.processed : s.processed[i] < s.nextSeq /\ L[s.processed[i] + 1].by = q
  BY <1>2 DEF Own
<1> HIDE DEF s, L, M
<1>5. /\ \A e \in s.waiting : M[e + 1] = L[e + 1]
      /\ \A i \in DOMAIN s.processed : M[s.processed[i] + 1] = L[s.processed[i] + 1]
  <2>1. \A e \in Nat : e < s.nextSeq => M[e + 1] = L[e + 1]
    <3> TAKE e \in Nat
    <3> HAVE e < s.nextSeq
    <3>1. e + 1 \in 1 .. Len(L)
      BY <1>1, <1>3, <1>4
    <3> QED  BY <1>3, <3>1
  <2>2. \A i \in DOMAIN s.processed : s.processed[i] \in Nat /\ s.processed[i] < s.nextSeq
    BY <1>1, <1>4
  <2>3. \A e \in s.waiting : e \in Nat /\ e < s.nextSeq
    BY <1>1, <1>4
  <2> QED  BY <2>1, <2>2, <2>3
<1>6. Own(shell[q], q, LogOf(q))'
  BY <1>1, <1>2, <1>3, <1>4, <1>5 DEF Own
<1>7. Counts(shell[q])'
  BY <1>2 DEF Counts, s
<1>8. \A i \in DOMAIN s.processed : TypeOf(q, s.processed[i])' = TypeOf(q, s.processed[i])
  BY <1>2, <1>5 DEF TypeOf, s
<1>9. ASSUME NEW k \in RowIds
      PROVE  Terminal(q, k)' = Terminal(q, k)
  <2>1. Terminal(q, k) = {i \in DOMAIN s.processed :
            /\ L[s.processed[i] + 1].type \in TERMINAL_EVENTS
            /\ row_id(s.task, L[s.processed[i] + 1].cid) = k}
    BY <1>2 DEF Terminal, TypeOf, s
  <2>2. Terminal(q, k)' = {i \in DOMAIN s.processed :
            /\ M[s.processed[i] + 1].type \in TERMINAL_EVENTS
            /\ row_id(s.task, M[s.processed[i] + 1].cid) = k}
    BY <1>2 DEF Terminal, TypeOf, s
  <2> QED  BY <1>5, <2>1, <2>2
<1> QED  BY <1>2, <1>6, <1>7, <1>8, <1>9 DEF s

(* Its rows in decisions and outcomes stand, unless another submission has *)
(* replaced an outcome.                                                    *)
LEMMA RowsStand ==
  ASSUME TypeOK, TypeOK', NEW q \in Shells, Rows(q), DecisionsGrow,
         Stays(shell[q], shell'[q]), shell'[q].wrote = shell[q].wrote,
         shell'[q].phase \in {"open", "running"} => shell[q].phase \in {"open", "running"},
         \/ shell'[q].phase \notin {"outcomes", "done"}
         \/ shell[q].phase \in {"outcomes", "done"}
         \/ shell[q].wrote = Len(shell[q].taken)
  PROVE  Rows(q)'
<1>1. \A no : DecisionKept(q, no) => DecisionKept(q, no)'
  BY DEF DecisionKept, DecisionsGrow
<1> QED  BY <1>1 DEF Rows, Stays

LEMMA LastWordStands ==
  ASSUME TypeOK, TypeOK', NEW q \in Shells, LogsGrow,
         Stays(shell[q], shell'[q]),
         shell[q].task \in TaskIds, Own(shell[q], q, LogOf(q)), Counts(shell[q]),
         NEW k \in RowIds, LastWord(q, k),
         \/ outcomes'[k] = outcomes[k]
         \/ outcomes'[k] # Absent /\ outcomes'[k].by # q
  PROVE  LastWord(q, k)'
<1> DEFINE s == shell[q]
           o == outcomes[k]
           n == outcomes'[k]
<1>1. shell'[q].task = s.task /\ shell'[q].processed = s.processed
  BY DEF Stays
<1>2. n # Absent
  BY DEF LastWord
<1>3. ASSUME n.by = q
      PROVE  \E i \in DOMAIN s.processed : IsOutcome(q, k, i)' /\ n.type = TypeOf(q, s.processed[i])'
  <2>1. n = o
    BY <1>3
  <2>2. PICK i \in DOMAIN s.processed : IsOutcome(q, k, i) /\ o.type = TypeOf(q, s.processed[i])
    BY <1>3, <2>1 DEF LastWord
  <2>3. TypeOf(q, s.processed[i])' = TypeOf(q, s.processed[i])
    BY Stands
  <2>4. IsOutcome(q, k, i)'
    BY <2>2, Stands DEF IsOutcome
  <2> QED  BY <2>1, <2>2, <2>3, <2>4
<1> QED  BY <1>1, <1>2, <1>3 DEF LastWord

(* What one submission does leaves what another holds true.                *)
LEMMA Elsewhere ==
  ASSUME TypeOK, TypeOK', NEW p \in Shells, NEW q \in Shells, Held(q), shell'[q] = shell[q],
         q # p, LogsGrow, DecisionsGrow, OutcomesBy(p)
  PROVE  Held(q)'
<1> SUFFICES ASSUME shell[q].phase \notin {"new", "dead"}
             PROVE  /\ shell'[q].task \in TaskIds
                    /\ Own(shell[q], q, LogOf(q))' /\ Counts(shell[q])' /\ Rows(q)' /\ Labels(q)'
  BY DEF Held
<1>1. /\ shell[q].task \in TaskIds /\ Own(shell[q], q, LogOf(q)) /\ Counts(shell[q])
      /\ Rows(q) /\ Labels(q)
  BY DEF Held
<1>2. Stays(shell[q], shell'[q])
  BY DEF Stays
<1>3. shell'[q].task \in TaskIds /\ Own(shell[q], q, LogOf(q))' /\ Counts(shell[q])'
  BY <1>1, <1>2, Stands
<1>4. Rows(q)'
  BY <1>1, <1>2, RowsStand
<1>5. ASSUME NEW k \in shell[q].recorded
      PROVE  LastWord(q, k)'
  <2>1. k \in RowIds /\ LastWord(q, k)
    BY <1>1, Fields DEF Labels
  <2>3. \/ outcomes'[k] = outcomes[k]
        \/ outcomes'[k] # Absent /\ outcomes'[k].by # q
    BY <2>1 DEF OutcomesBy
  <2> QED  BY <1>1, <1>2, <2>1, <2>3, LastWordStands
<1>6. shell'[q].phase = "done" => Labelled(q)' \subseteq shell'[q].recorded
  BY <1>1, <1>2, Stands DEF Labels, Labelled
<1>7. Labels(q)'
  BY <1>1, <1>5, <1>6 DEF Labels
<1> QED  BY <1>3, <1>4, <1>7

-----------------------------------------------------------------------------
(* The submission that takes the step.  As long as it runs it has recorded *)
(* nothing.                                                                *)
LEMMA RunningHeld ==
  ASSUME TypeOK, NEW p \in Shells, shell'[p].phase \in {"open", "running"},
         shell'[p].task \in TaskIds, Own(shell[p], p, LogOf(p))', Counts(shell[p])',
         shell'[p].wrote = 0, shell'[p].recorded = {}, shell'[p].taken \in Seq(Nat)
  PROVE  Held(p)'
<1>1. Len(shell'[p].taken) \in Nat
  BY LenProperties
<1>2. Rows(p)'
  BY <1>1 DEF Rows
<1>3. Labels(p)'
  BY DEF Labels
<1> QED  BY <1>2, <1>3 DEF Held

LEMMA HeldStart ==
  ASSUME TypeOK, TypeOK', NEW p \in Shells, Start(p)
  PROVE  Held(p)'
<1>1. PICK s \in Submissions :
        /\ Become(p, s) /\ s.phase = "open" /\ s.task \in TaskIds
        /\ s.nextSeq = Len(events[s.task]) /\ s.waiting = {}
        /\ s.processed = << >> /\ s.taken = << >> /\ s.wrote = 0 /\ s.recorded = {}
  BY StartFacts
<1>2. shell'[p] = s /\ UNCHANGED events
  BY <1>1, Moved DEF Start
<1>3. Len(events[s.task]) \in Nat
  BY <1>1, LenProperties DEF TypeOK
<1>4. Own(s, p, events[s.task])
  BY <1>1, <1>3 DEF Own
<1>5. Counts(s)
  BY <1>1, <1>3, FS_EmptySet DEF Counts
<1>6. Own(shell[p], p, LogOf(p))' /\ Counts(shell[p])'
  BY <1>2, <1>4, <1>5 DEF LogOf
<1>7. s.taken \in Seq(Nat)
  BY DEF Submissions
<1> QED  BY <1>1, <1>2, <1>6, <1>7, RunningHeld

(* It emits: the row is its own, and the number that of the row.           *)
LEMMA HeldEmits ==
  ASSUME TypeOK, TypeOK', NEW p \in Shells, Held(p), shell[p].phase \in {"open", "running"},
         Continues(p), NEW row \in LogRows, row.by = p,
         events' = [events EXCEPT ![shell[p].task] = Append(@, row)],
         NEW s \in Submissions, Become(p, s), s.phase = "running", Emits(shell[p], s)
  PROVE  Held(p)'
<1> DEFINE d == shell[p]
           L == events[d.task]
           M == events'[d.task]
<1>1. /\ d.task \in TaskIds /\ Own(d, p, L) /\ Counts(d) /\ d.recorded = {} /\ d.wrote = 0
  BY DEF Held, Rows, Labels, LogOf
<1>2. /\ s.task = d.task /\ s.nextSeq = d.nextSeq + 1 /\ s.waiting = d.waiting \cup {d.nextSeq}
      /\ s.processed = d.processed /\ s.taken = d.taken /\ s.wrote = d.wrote
      /\ s.recorded = d.recorded
  BY DEF Emits
<1>3. /\ d.nextSeq \in Nat /\ d.waiting \subseteq Nat /\ d.processed \in Seq(Nat)
      /\ \A i \in DOMAIN d.processed : d.processed[i] \in Nat
      /\ d.taken \in Seq(Nat) /\ Len(d.processed) \in Nat /\ Len(d.taken) \in Nat
  BY Fields, ElementOfSeq, LenProperties
<1>4. /\ Len(L) \in Nat /\ Len(M) = Len(L) + 1 /\ M[Len(L) + 1] = row
      /\ \A i \in 1 .. Len(L) : M[i] = L[i]
  BY <1>1, AppendGrows, LenProperties DEF LogsGrow, TypeOK
<1>5. d.nextSeq = Len(L)
  BY DEF Continues, LogOf
<1>6. shell'[p] = s
  BY Moved
<1>7. Own(s, p, M)
  <2>1. /\ \A e \in d.waiting : e < d.nextSeq /\ L[e + 1].by = p
        /\ \A i \in DOMAIN d.processed : d.processed[i] < d.nextSeq /\ L[d.processed[i] + 1].by = p
    BY <1>1 DEF Own
  <2> HIDE DEF d, L, M
  <2>2. \A e \in Nat : e < d.nextSeq => M[e + 1] = L[e + 1]
    <3> TAKE e \in Nat
    <3> HAVE e < d.nextSeq
    <3>1. e + 1 \in 1 .. Len(L)
      BY <1>3, <1>4, <1>5
    <3> QED  BY <1>4, <3>1
  <2>3. s.nextSeq <= Len(M)
    BY <1>2, <1>4, <1>5
  <2>4. ASSUME NEW e \in s.waiting
        PROVE  e < s.nextSeq /\ M[e + 1].by = p
    <3>1. CASE e \in d.waiting
      <4>1. e \in Nat /\ e < d.nextSeq /\ L[e + 1].by = p
        BY <1>3, <2>1, <3>1
      <4>2. e < s.nextSeq
        BY <1>2, <1>3, <4>1
      <4> QED  BY <2>2, <4>1, <4>2
    <3>2. CASE e = d.nextSeq
      BY <1>2, <1>3, <1>4, <1>5, <3>2
    <3> QED  BY <1>2, <3>1, <3>2
  <2>5. ASSUME NEW i \in DOMAIN s.processed
        PROVE  s.processed[i] < s.nextSeq /\ M[s.processed[i] + 1].by = p
    <3> DEFINE e == d.processed[i]
    <3>1. e \in Nat /\ e < d.nextSeq /\ L[e + 1].by = p /\ s.processed[i] = e
      BY <1>2, <1>3, <2>1
    <3> HIDE DEF e
    <3>2. e < s.nextSeq
      BY <1>2, <1>3, <3>1
    <3> QED  BY <2>2, <3>1, <3>2
  <2> QED  BY <2>3, <2>4, <2>5 DEF Own
<1>8. Counts(s)
  <2>1. /\ IsFiniteSet(d.waiting) /\ Len(d.processed) + Cardinality(d.waiting) <= d.nextSeq
        /\ Len(d.taken) <= Len(d.processed)
    BY <1>1 DEF Counts
  <2>2. d.nextSeq \notin d.waiting
    BY <1>1, <1>3 DEF Own
  <2> DEFINE n == d.nextSeq
             w == d.waiting
             v == w \cup {n}
             c == Cardinality(w)
             l == Len(d.processed)
  <2>3. IsFiniteSet(v) /\ Cardinality(v) = c + 1 /\ c \in Nat
    BY <2>1, <2>2, FS_AddElement, FS_CardinalityType
  <2>4. l + Cardinality(v) <= n + 1
    <3>1. l + c <= n /\ l \in Nat /\ n \in Nat
      BY <1>3, <2>1
    <3> HIDE DEF l, c, n, v
    <3> QED  BY <2>3, <3>1
  <2>5. s.waiting = v /\ s.nextSeq = n + 1 /\ s.processed = d.processed /\ s.taken = d.taken
    BY <1>2
  <2> HIDE DEF n, v, d
  <2> QED  BY <2>1, <2>3, <2>4, <2>5 DEF Counts
<1>9. Own(shell[p], p, LogOf(p))' /\ Counts(shell[p])'
  BY <1>2, <1>6, <1>7, <1>8 DEF LogOf
<1> QED  BY <1>1, <1>2, <1>3, <1>6, <1>9, RunningHeld

(* It takes an event from what waits.                                      *)
LEMMA HeldTakes ==
  ASSUME TypeOK, TypeOK', NEW p \in Shells, Held(p), shell[p].phase = "running",
         UNCHANGED events, NEW s \in Submissions, NEW e \in shell[p].waiting,
         Become(p, s), s.phase = "running", Takes(shell[p], s, e)
  PROVE  Held(p)'
<1> DEFINE d == shell[p]
           L == events[d.task]
<1>1. /\ d.task \in TaskIds /\ Own(d, p, L) /\ Counts(d) /\ d.recorded = {} /\ d.wrote = 0
  BY DEF Held, Rows, Labels, LogOf
<1>2. /\ s.task = d.task /\ s.nextSeq = d.nextSeq /\ s.waiting = d.waiting \ {e}
      /\ s.processed = Append(d.processed, e) /\ s.taken \in {d.taken, Append(d.taken, e)}
      /\ s.wrote = d.wrote /\ s.recorded = d.recorded
  BY DEF Takes
<1>3. /\ d.nextSeq \in Nat /\ d.waiting \subseteq Nat /\ d.processed \in Seq(Nat) /\ e \in Nat
      /\ d.taken \in Seq(Nat) /\ Len(d.processed) \in Nat /\ Len(d.taken) \in Nat
      /\ s.taken \in Seq(Nat)
  BY Fields, LenProperties DEF Submissions
<1>4. /\ Len(s.processed) = Len(d.processed) + 1
      /\ \A i \in 1 .. Len(d.processed) : s.processed[i] = d.processed[i]
      /\ s.processed[Len(d.processed) + 1] = e
      /\ DOMAIN s.processed = 1 .. Len(d.processed) + 1
      /\ DOMAIN d.processed = 1 .. Len(d.processed)
  BY <1>2, <1>3, AppendProperties, LenProperties
<1>5. Len(s.taken) <= Len(d.taken) + 1
  BY <1>2, <1>3, AppendProperties
<1>6. shell'[p] = s /\ e \in d.waiting
  BY Moved
<1>7. Own(s, p, L)
  <2>1. /\ d.nextSeq <= Len(L)
        /\ \A f \in d.waiting : f < d.nextSeq /\ L[f + 1].by = p
        /\ \A i \in DOMAIN d.processed : d.processed[i] < d.nextSeq /\ L[d.processed[i] + 1].by = p
    BY <1>1 DEF Own
  <2> DEFINE n == Len(d.processed)
  <2>2. ASSUME NEW i \in DOMAIN s.processed
        PROVE  s.processed[i] < s.nextSeq /\ L[s.processed[i] + 1].by = p
    <3>1. i \in 1 .. n + 1 /\ n \in Nat
      BY <1>3, <1>4
    <3> HIDE DEF n
    <3>2. i \in 1 .. n \/ i = n + 1
      BY <3>1
    <3>3. CASE i \in 1 .. n
      BY <1>2, <1>4, <2>1, <3>3 DEF n
    <3>4. CASE i = n + 1
      BY <1>2, <1>4, <1>6, <2>1, <3>4 DEF n
    <3> QED  BY <3>2, <3>3, <3>4
  <2> HIDE DEF d, L
  <2> QED  BY <1>2, <2>1, <2>2 DEF Own
<1>8. Counts(s)
  <2> DEFINE w == d.waiting
             c == Cardinality(w)
             l == Len(d.processed)
             t == Len(d.taken)
             v == w \ {e}
  <2>1. IsFiniteSet(w) /\ l + c <= d.nextSeq /\ t <= l
    BY <1>1 DEF Counts
  <2>2. IsFiniteSet(v) /\ Cardinality(v) = c - 1 /\ c \in Nat
    BY <1>6, <2>1, FS_RemoveElement, FS_CardinalityType
  <2>3. Len(s.taken) \in Nat /\ l \in Nat /\ t \in Nat /\ d.nextSeq \in Nat
    BY <1>3, LenProperties
  <2>4. Len(s.processed) = l + 1 /\ Len(s.taken) <= t + 1 /\ s.waiting = v /\ s.nextSeq = d.nextSeq
    BY <1>2, <1>4, <1>5
  <2> HIDE DEF c, l, t, v, w, d
  <2> QED  BY <2>1, <2>2, <2>3, <2>4 DEF Counts
<1>9. Own(shell[p], p, LogOf(p))' /\ Counts(shell[p])'
  BY <1>2, <1>6, <1>7, <1>8 DEF LogOf
<1> QED  BY <1>1, <1>2, <1>3, <1>6, <1>9, RunningHeld

(* It keeps what it has taken, and goes on.                                *)
LEMMA HeldStays ==
  ASSUME TypeOK, TypeOK', NEW p \in Shells, Held(p), shell[p].phase \notin {"new", "dead"},
         UNCHANGED events, Stays(shell[p], shell'[p]), Rows(p)', Labels(p)'
  PROVE  Held(p)'
<1>1. LogsGrow
  BY NoneGrows
<1>2. shell'[p].task \in TaskIds /\ Own(shell[p], p, LogOf(p))' /\ Counts(shell[p])'
  BY <1>1, Stands DEF Held
<1> QED  BY <1>2 DEF Held

LEMMA HeldRuns ==
  ASSUME TypeOK, TypeOK', NEW p \in Shells, Held(p), shell[p].phase = "running",
         UNCHANGED <<events, decisions>>, Stays(shell[p], shell'[p]),
         shell'[p].phase \in {"running", "decisions"},
         shell'[p].wrote = shell[p].wrote, shell'[p].recorded = shell[p].recorded
  PROVE  Held(p)'
<1>1. Rows(p) /\ Labels(p)
  BY DEF Held
<1>2. Rows(p)'
  BY <1>1, NoneGrows, RowsStand
<1>3. Labels(p)'
  BY <1>1 DEF Labels
<1> QED  BY <1>2, <1>3, HeldStays

LEMMA HeldRecordDecision ==
  ASSUME TypeOK, TypeOK', NEW p \in Shells, Held(p), RecordDecision(p)
  PROVE  Held(p)'
<1> DEFINE d == shell[p]
           Row == [task : TaskIds, seq : Nat, by : Shells, no : Nat]
<1>1. PICK s \in Submissions : Become(p, s) /\ Goes(d, s, "decisions", d.wrote + 1, d.recorded)
  BY RecordDecisionFacts
<1>2. /\ d.phase = "decisions" /\ d.wrote < Len(d.taken) /\ Rows(p) /\ Labels(p)
  BY RecordDecisionFacts DEF Held
<1>3. d.wrote \in Nat /\ Len(d.taken) \in Nat
  BY Fields, LenProperties
<1>4. PICK row \in Row : decisions' = Append(decisions, row) /\ row.by = p /\ row.no = d.wrote
  BY DecisionIsWritten
<1>5. /\ DecisionsGrow
      /\ Len(decisions) + 1 \in DOMAIN decisions' /\ decisions'[Len(decisions) + 1] = row
  <2>1. decisions \in Seq(Row)
    BY DEF TypeOK
  <2> HIDE DEF Row
  <2> QED  BY <1>4, <2>1, AppendProperties, LenProperties DEF DecisionsGrow
<1>6. /\ shell'[p].phase = "decisions" /\ shell'[p].wrote = d.wrote + 1
      /\ shell'[p].taken = d.taken /\ shell'[p].recorded = d.recorded
      /\ Stays(d, shell'[p]) /\ UNCHANGED <<events, outcomes>>
  BY <1>1, Moved DEF Goes, Stays, RecordDecision
<1>7. ASSUME NEW no \in 0 .. d.wrote
      PROVE  DecisionKept(p, no)'
  <2>1. CASE no = d.wrote
    BY <1>4, <1>5, <2>1 DEF DecisionKept
  <2>2. CASE no # d.wrote
    <3>1. no \in 0 .. d.wrote - 1
      BY <1>3, <2>2
    <3>2. DecisionKept(p, no)
      BY <1>2, <3>1 DEF Rows
    <3> QED  BY <1>5, <3>2 DEF DecisionKept, DecisionsGrow
  <2> QED  BY <2>1, <2>2
<1>8. Rows(p)'
  <2>1. shell'[p].wrote <= Len(shell'[p].taken) /\ 0 .. shell'[p].wrote - 1 = 0 .. d.wrote
    BY <1>2, <1>3, <1>6
  <2> QED  BY <1>6, <1>7, <2>1 DEF Rows
<1>9. Labels(p)'
  BY <1>2, <1>6 DEF Labels
<1> QED  BY <1>2, <1>6, <1>8, <1>9, HeldStays

LEMMA HeldDecisionsRecorded ==
  ASSUME TypeOK, TypeOK', NEW p \in Shells, Held(p), DecisionsRecorded(p)
  PROVE  Held(p)'
<1> DEFINE d == shell[p]
<1>1. PICK s \in Submissions : Become(p, s) /\ Goes(d, s, "outcomes", d.wrote, d.recorded)
  BY DecisionsRecordedFacts
<1>2. /\ d.phase = "decisions" /\ d.wrote = Len(d.taken) /\ Rows(p) /\ Labels(p)
  BY DecisionsRecordedFacts DEF Held
<1>3. /\ shell'[p].phase = "outcomes" /\ shell'[p].wrote = d.wrote
      /\ shell'[p].recorded = d.recorded /\ Stays(d, shell'[p])
      /\ UNCHANGED <<events, decisions, outcomes>>
  BY <1>1, Moved DEF Goes, DecisionsRecorded
<1>4. Rows(p)'
  BY <1>2, <1>3, NoneGrows, RowsStand
<1>5. Labels(p)'
  BY <1>2, <1>3 DEF Labels
<1> QED  BY <1>2, <1>3, <1>4, <1>5, HeldStays

LEMMA HeldFinish ==
  ASSUME TypeOK, TypeOK', NEW p \in Shells, Held(p), Finish(p)
  PROVE  Held(p)'
<1> DEFINE d == shell[p]
<1>1. PICK s \in Submissions : Become(p, s) /\ Goes(d, s, "done", d.wrote, d.recorded)
  BY FinishFacts
<1>2. /\ d.phase = "outcomes" /\ Labelled(p) \subseteq d.recorded /\ Rows(p) /\ Labels(p)
      /\ d.task \in TaskIds /\ Own(d, p, LogOf(p)) /\ Counts(d)
  BY FinishFacts DEF Held
<1>3. /\ shell'[p].phase = "done" /\ shell'[p].wrote = d.wrote
      /\ shell'[p].recorded = d.recorded /\ Stays(d, shell'[p])
      /\ UNCHANGED <<events, decisions, outcomes>>
  BY <1>1, Moved DEF Goes, Finish
<1>4. Rows(p)'
  BY <1>2, <1>3, NoneGrows, RowsStand
<1>5. ASSUME NEW k \in d.recorded
      PROVE  LastWord(p, k)'
  <2>1. k \in RowIds /\ LastWord(p, k)
    BY <1>2, Fields DEF Labels
  <2>2. outcomes'[k] = outcomes[k]
    BY <1>3
  <2> QED  BY <1>2, <1>3, <2>1, <2>2, NoneGrows, LastWordStands
<1>6. Labelled(p)' \subseteq shell'[p].recorded
  BY <1>2, <1>3, NoneGrows, Stands DEF Labelled
<1>7. Labels(p)'
  BY <1>3, <1>5, <1>6 DEF Labels
<1> QED  BY <1>2, <1>3, <1>4, <1>7, HeldStays

LEMMA HeldRecordOutcome ==
  ASSUME TypeOK, TypeOK', NEW p \in Shells, Held(p), RecordOutcome(p)
  PROVE  Held(p)'
<1> DEFINE d == shell[p]
<1>1. d.phase = "outcomes" /\ Rows(p) /\ Labels(p) /\ d.task \in TaskIds
      /\ Own(d, p, LogOf(p)) /\ Counts(d)
  BY RecordOutcomeFacts DEF Held
<1>2. CASE \E s \in Submissions : Become(p, s) /\ s.phase = "dead"
  BY <1>2, Moved DEF Held
<1>3. ASSUME NEW k \in RowIds, NEW i \in DOMAIN d.processed, IsOutcome(p, k, i),
             outcomes' = [outcomes EXCEPT ![k] = OutcomeAt(p, i)],
             NEW s \in Submissions, Become(p, s),
             Goes(d, s, "outcomes", d.wrote, d.recorded \cup {k})
      PROVE  Held(p)'
  <2>1. /\ shell'[p].phase = "outcomes" /\ shell'[p].wrote = d.wrote
        /\ shell'[p].recorded = d.recorded \cup {k} /\ Stays(d, shell'[p])
        /\ shell'[p].task = d.task /\ shell'[p].processed = d.processed
        /\ UNCHANGED <<events, decisions>>
    BY <1>3, Moved DEF Goes, Stays, RecordOutcome
  <2>2. Rows(p)'
    BY <1>1, <2>1, NoneGrows, RowsStand
  <2>4. ASSUME NEW c \in d.recorded, c # k
        PROVE  LastWord(p, c)'
    <3>1. c \in RowIds /\ LastWord(p, c)
      BY <1>1, Fields DEF Labels
    <3>2. outcomes'[c] = outcomes[c]
      BY <1>3, <2>4, <3>1 DEF TypeOK
    <3> QED  BY <1>1, <2>1, <3>1, <3>2, NoneGrows, LastWordStands
  <2>5. LastWord(p, k)'
    <3>1. outcomes'[k] = OutcomeAt(p, i)
      BY <1>3 DEF TypeOK
    <3>2. OutcomeAt(p, i) # Absent /\ OutcomeAt(p, i).type = TypeOf(p, d.processed[i])
      BY DEF OutcomeAt, Absent
    <3>3. TypeOf(p, d.processed[i])' = TypeOf(p, d.processed[i]) /\ IsOutcome(p, k, i)'
      BY <1>1, <1>3, <2>1, NoneGrows, Stands DEF IsOutcome
    <3> QED  BY <2>1, <3>1, <3>2, <3>3 DEF LastWord
  <2>6. Labels(p)'
    BY <2>1, <2>4, <2>5 DEF Labels
  <2> QED  BY <1>1, <2>1, <2>2, <2>6, HeldStays
<1> QED  BY <1>2, <1>3, RecordOutcomeFacts

LEMMA HeldNext ==
  ASSUME TypeOK, TypeOK', NEW p \in Shells, Held(p), Start(p) \/ Runs(p)
  PROVE  Held(p)'
<1> DEFINE d == shell[p]
<1>1. ASSUME \E s \in Submissions : Become(p, s) /\ s.phase = "dead"
      PROVE  Held(p)'
  BY <1>1, Moved DEF Held
<1>2. CASE Receive(p)
  <2> DEFINE row == [type |-> "task_received", cid |-> None, lane |-> None, by |-> p]
  <2>1. row \in LogRows /\ row.by = p
    BY DEF LogRows, EventType
  <2>2. events' = [events EXCEPT ![d.task] = Append(@, row)] /\ Continues(p) /\ d.phase = "open"
    BY <1>2 DEF Receive, Logging
  <2> HIDE DEF row
  <2> QED  BY <1>2, <2>1, <2>2, ReceiveFacts, HeldEmits
<1>3. CASE ReceiveRejected(p)
  BY <1>1, <1>3, DieFacts DEF ReceiveRejected
<1>4. CASE Wake(p)
  <2>1. d.phase = "running" /\ UNCHANGED events
    BY <1>4 DEF Wake, Running
  <2> QED  BY <1>4, <2>1, WakeFacts, HeldTakes
<1>5. CASE StartDispatch(p)
  <2>1. PICK s \in Submissions :
            /\ Become(p, s) /\ s.phase = "running" /\ Stays(d, s)
            /\ s.wrote = d.wrote /\ s.recorded = d.recorded
    BY <1>5, StartDispatchFacts
  <2>2. shell'[p] = s /\ d.phase = "running" /\ UNCHANGED <<events, decisions>>
    BY <1>5, <2>1, Moved, StartDispatchFacts DEF StartDispatch
  <2> QED  BY <2>1, <2>2, HeldRuns
<1>6. CASE FinishDispatch(p)
  BY <1>1, <1>6, FinishDispatchFacts, HeldEmits
<1>7. CASE RunEnds(p)
  <2>1. d.phase = "running" /\ UNCHANGED <<events, decisions>>
    BY <1>7, RunEndsFacts DEF RunEnds
  <2>2. ASSUME NEW s \in Submissions, Become(p, s), Goes(d, s, "decisions", d.wrote, d.recorded)
        PROVE  Held(p)'
    <3>1. shell'[p] = s
      BY <2>2, Moved
    <3> QED  BY <2>1, <2>2, <3>1, HeldRuns DEF Goes
  <2> QED  BY <1>1, <1>7, <2>2, RunEndsFacts
<1> QED
  BY <1>2, <1>3, <1>4, <1>5, <1>6, <1>7, HeldStart, HeldRecordDecision, HeldDecisionsRecorded,
     HeldRecordOutcome, HeldFinish DEF Runs

-----------------------------------------------------------------------------
(* A name is that of the row it is recorded under.                         *)
LEMMA RowNamed ==
  ASSUME NEW t, NEW name, NEW k, row_id(t, name) = k
  PROVE  k[1] = t /\ Named(k, name)
BY DEF row_id, Named

LEMMA NamedRow ==
  ASSUME NEW t, NEW m, NEW name, Named(<<t, m>>, name)
  PROVE  row_id(t, name) = <<t, m>>
BY DEF row_id, Named

LEMMA EvidenceNext ==
  ASSUME TypeOK, TypeOK', LabelsHaveEvidence, NEW p \in Shells, Held(p), Start(p) \/ Runs(p)
  PROVE  LabelsHaveEvidence'
<1> DEFINE d == shell[p]
<1>1. LogsGrow /\ ContractsStay
  BY Database
<1>2. \A t \in TaskIds : /\ Len(events[t]) \in Nat /\ Len(events'[t]) \in Nat
                         /\ DOMAIN events[t] = 1 .. Len(events[t])
                         /\ DOMAIN events'[t] = 1 .. Len(events'[t])
  BY LenProperties DEF TypeOK
<1>3. ASSUME NEW k \in RowIds, outcomes'[k] # Absent, outcomes'[k] = outcomes[k]
      PROVE  /\ contracts'[k] # Absent
             /\ \E i \in DOMAIN events'[k[1]] :
                    /\ Named(k, events'[k[1]][i].cid)
                    /\ events'[k[1]][i].type = outcomes'[k].type
                    /\ events'[k[1]][i].by = outcomes'[k].by
  <2>1. contracts'[k] # Absent
    BY <1>1, <1>3 DEF LabelsHaveEvidence, ContractsStay
  <2>2. PICK i \in DOMAIN events[k[1]] :
            /\ Named(k, events[k[1]][i].cid)
            /\ events[k[1]][i].type = outcomes[k].type
            /\ events[k[1]][i].by = outcomes[k].by
    BY <1>3 DEF LabelsHaveEvidence
  <2>3. k[1] \in TaskIds
    BY DEF RowIds
  <2>4. i \in DOMAIN events'[k[1]] /\ events'[k[1]][i] = events[k[1]][i]
    BY <1>1, <1>2, <2>3 DEF LogsGrow
  <2> QED  BY <1>3, <2>1, <2>2, <2>4
<1>4. CASE UNCHANGED outcomes
  BY <1>3, <1>4 DEF LabelsHaveEvidence
<1>5. ASSUME RecordOutcome(p), NEW c \in RowIds, NEW i \in DOMAIN d.processed,
             IsOutcome(p, c, i), contracts[c] # Absent,
             outcomes' = [outcomes EXCEPT ![c] = OutcomeAt(p, i)]
      PROVE  LabelsHaveEvidence'
  <2> DEFINE n == d.processed[i] + 1
             row == events[d.task][n]
  <2>1. /\ d.task \in TaskIds /\ Own(d, p, events[d.task]) /\ UNCHANGED <<events, contracts>>
    BY <1>5, RecordOutcomeFacts DEF Held, LogOf, RecordOutcome
  <2>2. n \in DOMAIN events[d.task] /\ row.by = p
    <3>1. /\ d.processed[i] \in Nat /\ d.nextSeq \in Nat
          /\ d.nextSeq <= Len(events[d.task]) /\ d.processed[i] < d.nextSeq
      BY <2>1, Fields, ElementOfSeq DEF Own
    <3>2. Len(events[d.task]) \in Nat /\ DOMAIN events[d.task] = 1 .. Len(events[d.task])
      BY <1>2, <2>1
    <3>3. n \in 1 .. Len(events[d.task])
      <4> DEFINE l == Len(events[d.task])
                 e == d.processed[i]
                 m == d.nextSeq
      <4>1. e \in Nat /\ m \in Nat /\ l \in Nat /\ m <= l /\ e < m
        BY <3>1, <3>2
      <4> HIDE DEF l, e, m
      <4>2. e + 1 \in 1 .. l
        BY <4>1
      <4> QED  BY <4>2 DEF e, l
    <3>4. row.by = p
      BY <2>1 DEF Own
    <3> QED  BY <3>2, <3>3, <3>4
  <2>3. c[1] = d.task /\ Named(c, row.cid)
        /\ row.type = OutcomeAt(p, i).type /\ OutcomeAt(p, i).by = p
    <3>1. row_id(d.task, row.cid) = c /\ row.type = OutcomeAt(p, i).type
      BY <1>5 DEF IsOutcome, Terminal, OutcomeAt, TypeOf, LogOf
    <3>2. c[1] = d.task /\ Named(c, row.cid)
      BY <3>1, RowNamed
    <3> QED  BY <3>1, <3>2 DEF OutcomeAt
  <2> DEFINE o == OutcomeAt(p, i)
  <2> HIDE DEF n, o, d
  <2>4. \A k \in RowIds : outcomes'[k] = IF k = c THEN o ELSE outcomes[k]
    <3>1. outcomes' = [outcomes EXCEPT ![c] = o]
      BY <1>5 DEF o, d
    <3> QED  BY <3>1 DEF TypeOK
  <2> SUFFICES ASSUME NEW k \in RowIds, outcomes'[k] # Absent
               PROVE  /\ contracts'[k] # Absent
                      /\ \E j \in DOMAIN events'[k[1]] :
                            /\ Named(k, events'[k[1]][j].cid)
                            /\ events'[k[1]][j].type = outcomes'[k].type
                            /\ events'[k[1]][j].by = outcomes'[k].by
    BY DEF LabelsHaveEvidence
  <2>5. CASE k = c
    BY <1>5, <2>1, <2>2, <2>3, <2>4, <2>5 DEF o, d
  <2>6. CASE k # c
    BY <1>3, <2>4, <2>6
  <2> QED  BY <2>5, <2>6
<1>6. CASE RecordOutcome(p)
  BY <1>4, <1>5, <1>6, RecordOutcomeFacts
<1> QED
  BY <1>4, <1>6
     DEF Runs, Start, Receive, ReceiveRejected, Wake, StartDispatch, FinishDispatch, RunEnds,
         RecordDecision, DecisionsRecorded, Finish

-----------------------------------------------------------------------------
LEMMA InitHolds ==
  ASSUME Init
  PROVE  IInv
<1>1. /\ \A t \in TaskIds : events[t] = << >>
      /\ \A k \in RowIds : contracts[k] = Absent /\ outcomes[k] = Absent
      /\ \A p \in Shells : shell[p] = Fresh
      /\ decisions = << >>
  BY DEF Init
<1>2. TypeOK
  <2>1. << >> \in Seq(LogRows) /\ << >> \in Seq([task : TaskIds, seq : Nat, by : Shells, no : Nat])
    BY EmptySeq
  <2> QED  BY <2>1, FreshIs DEF Init, TypeOK
<1>3. LabelsHaveEvidence
  BY <1>1 DEF LabelsHaveEvidence
<1>4. \A p \in Shells : Held(p)
  BY <1>1, FreshIs DEF Held
<1> QED  BY <1>2, <1>3, <1>4 DEF IInv

LEMMA NextInv ==
  ASSUME IInv, [Next]_vars
  PROVE  IInv'
<1>1. TypeOK /\ LabelsHaveEvidence /\ \A q \in Shells : Held(q)
  BY DEF IInv
<1>2. TypeOK'
  BY <1>1, TypeNext
<1>3. CASE UNCHANGED vars
  <2>1. LabelsHaveEvidence'
    BY <1>1, <1>3 DEF vars, LabelsHaveEvidence
  <2>2. ASSUME NEW q \in Shells
        PROVE  Held(q)'
    <3>1. shell' = shell /\ LogOf(q)' = LogOf(q) /\ decisions' = decisions /\ outcomes' = outcomes
      BY <1>3 DEF vars, LogOf
    <3>2. Own(shell[q], q, LogOf(q))' <=> Own(shell[q], q, LogOf(q))
      BY <3>1 DEF Own
    <3>3. (Counts(shell[q])' <=> Counts(shell[q])) /\ (Rows(q)' <=> Rows(q))
      BY <3>1 DEF Counts, Rows, DecisionKept
    <3>4. \A cid : Terminal(q, cid)' = Terminal(q, cid)
      BY <3>1 DEF Terminal, TypeOf
    <3>5. \A cid : LastWord(q, cid)' <=> LastWord(q, cid)
      BY <3>1, <3>4 DEF LastWord, IsOutcome, TypeOf
    <3>6. Labels(q)' <=> Labels(q)
      BY <3>1, <3>4, <3>5 DEF Labels, Labelled
    <3> QED  BY <1>1, <3>1, <3>2, <3>3, <3>6 DEF Held
  <2> QED  BY <1>2, <2>1, <2>2 DEF IInv
<1>4. CASE Next
  <2>1. PICK p \in Shells : Start(p) \/ Runs(p)
    BY <1>4 DEF Next
  <2>2. LabelsHaveEvidence' /\ Held(p)'
    BY <1>1, <1>2, <2>1, EvidenceNext, HeldNext
  <2>3. ASSUME NEW q \in Shells, q # p
        PROVE  Held(q)'
    <3>1. \E s : Become(p, s)
      BY <2>1
         DEF Runs, Start, Receive, ReceiveRejected, Die, Wake, StartDispatch, FinishDispatch,
             RunEnds, RecordDecision, DecisionsRecorded, RecordOutcome, Finish
    <3>2. shell'[q] = shell[q]
      BY <1>1, <2>3, <3>1, Moved
    <3> QED  BY <1>1, <1>2, <2>1, <2>3, <3>2, Database, Elsewhere
  <2> QED  BY <1>2, <2>2, <2>3 DEF IInv
<1> QED  BY <1>3, <1>4

(* Whatever each submission holds agrees with the database, however many   *)
(* share it and wherever each of them is.                                  *)
THEOREM Invariant == Spec => []IInv
BY InitHolds, NextInv, PTL DEF Spec

(* The tables and what the submissions hold keep their types.              *)
THEOREM TypeCorrect == Spec => []TypeOK
<1>1. IInv => TypeOK
  BY DEF IInv
<1> QED  BY <1>1, Invariant, PTL

(* A submission that reports success has lost nothing its run handled:     *)
(* each decision it took has a row, and each contract of which it took a   *)
(* terminal event has the last one it took as its outcome, unless a later  *)
(* submission replaced it.                                                 *)
THEOREM SuccessMeansRecorded == Spec => []HandledMeansRecorded
<1>1. IInv => HandledMeansRecorded
  <2> SUFFICES ASSUME IInv, NEW p \in Shells, shell[p].phase = "done"
               PROVE  /\ \A no \in 0 .. Len(shell[p].taken) - 1 : DecisionKept(p, no)
                      /\ \A name \in Names : LastWordKept(p, <<shell[p].task, name>>)
    BY DEF HandledMeansRecorded
  <2>1. Rows(p) /\ Labels(p) /\ shell[p].task \in TaskIds
    BY DEF IInv, Held
  <2>2. \A no \in 0 .. Len(shell[p].taken) - 1 : DecisionKept(p, no)
    BY <2>1 DEF Rows
  <2>3. ASSUME NEW name \in Names
        PROVE  LastWordKept(p, <<shell[p].task, name>>)
    <3> DEFINE k == <<shell[p].task, name>>
    <3>1. Ended(p, k) = Terminal(p, k)
      <4>1. \A n : Named(k, n) <=> row_id(shell[p].task, n) = k
        BY RowNamed, NamedRow
      <4> HIDE DEF k
      <4> QED  BY <4>1 DEF Ended, Terminal
    <3>2. k \in RowIds
      BY <2>1 DEF RowIds
    <3> HIDE DEF k
    <3>3. Terminal(p, k) # {} => LastWord(p, k)
      BY <2>1, <3>2 DEF Labels, Labelled
    <3>4. LastWordKept(p, k)
      BY <3>1, <3>3 DEF LastWordKept, LastWord, IsOutcome
    <3> QED  BY <3>4 DEF k
  <2> QED  BY <2>2, <2>3
<1> QED  BY <1>1, Invariant, PTL

(* Wherever a submission dies, an outcome stands for a terminal event in   *)
(* the log of its task, on a contract that is stored.                      *)
THEOREM NoLabelWithoutEvidence == Spec => []LabelsHaveEvidence
<1>1. IInv => LabelsHaveEvidence
  BY DEF IInv
<1> QED  BY <1>1, Invariant, PTL

=============================================================================
