---------------------------- MODULE Lane_proofs ----------------------------
(***************************************************************************)
(* One path, any number of processes and runs, and workers that call       *)
(* anything: proofs about the lane.                                        *)
(*                                                                         *)
(* What holds of the path holds only while no two dispatches were on it at *)
(* once; who may write, and the ceilings, hold in any case.                *)
(***************************************************************************)
EXTENDS Lane, SequenceTheorems, TLAPS

(* A dispatch has a run, a run one process; an artifact comes last.        *)
RunsDiffer ==
    \A p \in Processes :
        /\ proc[p].phase # "idle" => proc[p].run # 0
        /\ proc[p].artifact # None => proc[p].phase \in {"exiting", "over"}
        /\ \A q \in Processes \ {p} : proc[p].run # 0 => proc[p].run # proc[q].run

(* The process on the path is alone there, and its run is the last.        *)
Alone ==
    \A p \in Processes :
        Dispatching(p) =>
            /\ proc[p].run = Len(contractOf)
            /\ \A q \in Processes \ {p} : ~Dispatching(q)

(* What is at the path, by where the dispatch s is; last is the last run.  *)
Changes(s) == IF s.wrote THEN {s.run} ELSE {}

Follows(s, d, sh, l, r, last) ==
    /\ s.phase = "pruning" => d = None /\ ~l
    /\ s.phase = "adding" => d = None /\ ~l /\ ~r
    /\ s.phase \in {"minting", "turn", "calling", "diffing", "exiting"} => sh = Changes(s) /\ l /\ r
    /\ s.phase \in {"pruning", "adding", "minting"} => ~s.wrote
    /\ s.phase = "over" /\ s.run = last => d = None /\ ~r
    /\ s.artifact # None => s.artifact = Changes(s)

PathFollows(p) == Follows(proc[p], dir, shown, linked, registered, Len(contractOf))

IInv ==
    /\ TypeOK /\ RunsDiffer /\ ChangesAreGranted /\ CeilingsHold
    /\ ~overlapped => Alone /\ \A p \in Processes : PathFollows(p)

-----------------------------------------------------------------------------
LEMMA Moved ==
  ASSUME TypeOK, NEW p \in Processes, NEW s, Become(p, s)
  PROVE  proc'[p] = s /\ \A q \in Processes \ {p} : proc'[q] = proc[q]
BY DEF TypeOK, Become

LEMMA Stayed ==
  ASSUME TypeOK, NEW p \in Processes
  PROVE  proc[p] \in Dispatches
BY DEF TypeOK

LEMMA RunsAre ==
  ASSUME TypeOK
  PROVE  /\ Len(contractOf) \in Nat
         /\ \A i \in RunIds : contractOf[i] \in Contracts
         /\ \A p \in Processes : proc[p].run # 0 => proc[p].run \in RunIds /\ Contract(p) \in Contracts
<1>1. contractOf \in Seq(Contracts) /\ \A p \in Processes : proc[p] \in Dispatches
  BY DEF TypeOK
<1>2. Len(contractOf) \in Nat /\ \A i \in RunIds : contractOf[i] \in Contracts
  BY <1>1, LenProperties, ElementOfSeq DEF RunIds
<1>3. \A p \in Processes : proc[p].run \in RunIds \cup {0}
  BY <1>1 DEF Dispatches
<1> QED  BY <1>2, <1>3 DEF Contract

(* A run begins: the earlier ones and their contracts are as before.       *)
LEMMA BeginFacts ==
  ASSUME TypeOK, NEW p \in Processes, Begin(p)
  PROVE  /\ Len(contractOf) \in Nat /\ Len(contractOf') = Len(contractOf) + 1
         /\ contractOf' \in Seq(Contracts)
         /\ contractOf'[Len(contractOf) + 1] \in Contracts
         /\ RunIds' = RunIds \cup {Len(contractOf) + 1} /\ Len(contractOf) + 1 \notin RunIds
         /\ \A i \in RunIds : contractOf'[i] = contractOf[i]
         /\ proc'[p] = [Idle EXCEPT !.phase = "pruning", !.run = Len(contractOf) + 1]
         /\ \A q \in Processes \ {p} : proc'[q] = proc[q]
<1>1. PICK c \in Contracts : contractOf' = Append(contractOf, c)
  BY DEF Begin
<1>2. contractOf \in Seq(Contracts) /\ Len(contractOf) \in Nat
  BY RunsAre DEF TypeOK
<1>3. /\ contractOf' \in Seq(Contracts) /\ Len(contractOf') = Len(contractOf) + 1
      /\ contractOf'[Len(contractOf) + 1] = c
      /\ \A i \in 1 .. Len(contractOf) : contractOf'[i] = contractOf[i]
  BY <1>1, <1>2, AppendProperties
<1>4. RunIds' = RunIds \cup {Len(contractOf) + 1} /\ Len(contractOf) + 1 \notin RunIds
  BY <1>2, <1>3 DEF RunIds
<1>5. Become(p, [Idle EXCEPT !.phase = "pruning", !.run = Len(contractOf) + 1])
  BY DEF Begin
<1> QED  BY <1>1, <1>2, <1>3, <1>4, <1>5, Moved DEF RunIds

LEMMA TypeStep ==
  ASSUME TypeOK, NEW p \in Processes, UNCHANGED contractOf,
         NEW s \in Dispatches, Become(p, s),
         s.pending > 0 <=> s.phase = "calling",
         dir' \in {None} \cup SUBSET RunIds, shown' \in SUBSET RunIds,
         linked' \in BOOLEAN, registered' \in BOOLEAN, overlapped' \in BOOLEAN
  PROVE  TypeOK'
<1>1. RunIds' = RunIds /\ Dispatches' = Dispatches
  BY DEF RunIds, Dispatches
<1>2. proc' \in [Processes -> Dispatches]
  BY DEF TypeOK, Become
<1>3. proc'[p] = s /\ \A q \in Processes \ {p} : proc'[q] = proc[q]
  BY Moved
<1> QED  BY <1>1, <1>2, <1>3 DEF TypeOK

LEMMA TypeBegin ==
  ASSUME TypeOK, NEW p \in Processes, Begin(p)
  PROVE  TypeOK'
<1>1. /\ Len(contractOf) \in Nat /\ contractOf' \in Seq(Contracts)
      /\ RunIds' = RunIds \cup {Len(contractOf) + 1}
      /\ proc'[p] = [Idle EXCEPT !.phase = "pruning", !.run = Len(contractOf) + 1]
      /\ \A q \in Processes \ {p} : proc'[q] = proc[q]
  BY BeginFacts
<1>2. ASSUME NEW d \in Dispatches PROVE d \in Dispatches'
  <2>1. d.run \in RunIds' \cup {0} /\ d.artifact \in {None} \cup SUBSET RunIds'
    BY <1>1 DEF Dispatches
  <2> QED  BY <2>1 DEF Dispatches
<1>3. [Idle EXCEPT !.phase = "pruning", !.run = Len(contractOf) + 1] \in Dispatches'
  <2>1. Len(contractOf) + 1 \in RunIds' \cup {0} /\ 0 \in 0 .. MaxPerTurn
    BY <1>1, LaneAssumption
  <2> QED  BY <2>1 DEF Idle, Dispatches, Phases
<1>4. \A q \in Processes : proc'[q] \in Dispatches'
  BY <1>1, <1>2, <1>3, Stayed
<1>5. proc' \in [Processes -> Dispatches']
  <2>1. proc' = [q \in Processes |-> proc'[q]]
    BY DEF Begin, Become, TypeOK
  <2> QED  BY <1>4, <2>1
<1>6. \A q \in Processes : proc'[q].pending > 0 <=> proc'[q].phase = "calling"
  <2>1. proc'[p].pending = 0 /\ proc'[p].phase = "pruning"
    BY <1>1 DEF Idle
  <2>2. ~(0 > 0)
    OBVIOUS
  <2> QED  BY <1>1, <2>1, <2>2 DEF TypeOK
<1>7. /\ dir' = None /\ shown' = {} /\ linked' \in BOOLEAN /\ registered' \in BOOLEAN
      /\ overlapped' \in BOOLEAN
  BY DEF Begin, TypeOK
<1> QED  BY <1>1, <1>5, <1>6, <1>7 DEF TypeOK

(* One call: s is d after it, and whether it wrote is what git now shows.  *)
Counts(d, s) ==
    /\ s \in Dispatches /\ s.run = d.run /\ s.artifact = d.artifact
    /\ s.calls = d.calls + 1 /\ s.usd = d.usd
    /\ \/ s.phase = AfterCall(d.pending) /\ s.pending = d.pending - 1
       \/ s.phase = "exiting" /\ s.pending = 0 /\ s.status = "raised"

Effect(p, d, s) ==
    \/ UNCHANGED <<dir, shown>> /\ s.wrote = d.wrote
    \/ /\ \E tool \in Called \ {"read_file"}, place \in Places : Granted(Contract(p), tool, place)
       /\ Writes(d.run) /\ s.wrote = (d.run \in shown')

LEMMA Wrote ==
  ASSUME NEW d, NEW t \in Dispatches, Counts(d, t), NEW b \in BOOLEAN
  PROVE  Counts(d, [t EXCEPT !.wrote = b]) /\ [t EXCEPT !.wrote = b].wrote = b
BY DEF Counts, Dispatches

LEMMA CallFacts ==
  ASSUME TypeOK, NEW p \in Processes, Call(p)
  PROVE  /\ UNCHANGED <<linked, registered, contractOf, overlapped>>
         /\ proc[p].phase = "calling"
         /\ \E s : Become(p, s) /\ Counts(proc[p], s) /\ Effect(p, proc[p], s)
<1> DEFINE d == proc[p]
           s1 == [d EXCEPT !.calls = d.calls + 1, !.pending = @ - 1, !.phase = AfterCall(d.pending)]
           s2 == [s1 EXCEPT !.phase = "exiting", !.pending = 0, !.status = "raised"]
           With(t) == [t EXCEPT !.wrote = d.run \in shown']
<1>1. /\ UNCHANGED <<linked, registered, contractOf, overlapped>> /\ d.phase = "calling"
      /\ d \in Dispatches /\ d.pending > 0
  BY Stayed DEF Call, TypeOK
<1>2. d.pending \in 1 .. MaxPerTurn /\ d.pending - 1 \in 0 .. MaxPerTurn /\ 0 \in 0 .. MaxPerTurn
  <2>1. d.pending \in 0 .. MaxPerTurn /\ MaxPerTurn \in Nat
    BY <1>1, LaneAssumption DEF Dispatches
  <2> QED  BY <1>1, <2>1
<1>3. d.calls + 1 \in Nat /\ AfterCall(d.pending) \in Phases /\ "exiting" \in Phases
  <2>1. d.calls \in Nat
    BY <1>1 DEF Dispatches
  <2>2. AfterCall(d.pending) \in {"turn", "calling"}
    BY DEF AfterCall
  <2> HIDE DEF d
  <2> QED  BY <2>1, <2>2 DEF Phases
<1>4. /\ s1 \in Dispatches /\ Counts(d, s1) /\ s1.wrote = d.wrote /\ s1.run = d.run
  BY <1>1, <1>2, <1>3 DEF Dispatches, Counts
<1>5. s2 \in Dispatches /\ Counts(d, s2) /\ s2.wrote = d.wrote
  BY <1>1, <1>2, <1>3 DEF Dispatches, Counts
<1>6. \A t \in {s1, s2} : Counts(d, With(t)) /\ With(t).wrote = (d.run \in shown')
  <2> DEFINE b == d.run \in shown'
  <2>1. b \in BOOLEAN
    OBVIOUS
  <2>2. \A t : With(t) = [t EXCEPT !.wrote = b]
    OBVIOUS
  <2> HIDE DEF s1, s2, d, b, With
  <2>3. ASSUME NEW t \in {s1, s2} PROVE Counts(d, With(t)) /\ With(t).wrote = b
    <3>1. t \in Dispatches /\ Counts(d, t)
      BY <1>4, <1>5
    <3>2. Counts(d, [t EXCEPT !.wrote = b]) /\ [t EXCEPT !.wrote = b].wrote = b
      BY <2>1, <3>1, Wrote
    <3> QED  BY <2>2, <3>2
  <2> QED  BY <2>3 DEF b
<1>7. PICK tool \in Called, place \in Places :
        \/ (Become(p, s1) \/ Become(p, s2)) /\ UNCHANGED <<dir, shown>>
        \/ /\ Granted(Contract(p), tool, place) /\ tool # "read_file" /\ Writes(s1.run)
           /\ \E t \in {s1, s2} : Become(p, [t EXCEPT !.wrote = s1.run \in shown'])
  BY DEF Call, Counted
<1> HIDE DEF s1, s2, d
<1>8. CASE (Become(p, s1) \/ Become(p, s2)) /\ UNCHANGED <<dir, shown>>
  <2>1. Effect(p, d, s1) /\ Effect(p, d, s2)
    BY <1>4, <1>5, <1>8 DEF Effect
  <2> QED  BY <1>1, <1>4, <1>5, <1>8, <2>1 DEF d
<1>9. CASE /\ Granted(Contract(p), tool, place) /\ tool # "read_file" /\ Writes(s1.run)
           /\ \E t \in {s1, s2} : Become(p, [t EXCEPT !.wrote = s1.run \in shown'])
  <2>1. PICK t \in {s1, s2} : Become(p, With(t))
    BY <1>4, <1>9
  <2>2. Counts(d, With(t)) /\ Effect(p, d, With(t))
    <3> HIDE DEF With
    <3> QED  BY <1>4, <1>6, <1>9 DEF Effect
  <2> QED  BY <1>1, <2>1, <2>2 DEF d
<1> QED  BY <1>7, <1>8, <1>9

(* Only the last call of a turn, or one that raises, ends the calling.     *)
LEMMA Pending ==
  ASSUME TypeOK, NEW p \in Processes, proc[p].phase = "calling", NEW s, Counts(proc[p], s)
  PROVE  /\ s.pending > 0 <=> s.phase = "calling"
         /\ s.phase # "calling" => s.phase \in {"turn", "exiting"}
         /\ s.phase = "exiting" => s.status = "raised"
<1>1. proc[p].pending > 0 /\ proc[p].pending \in Nat
  <2>1. proc[p].pending \in 0 .. MaxPerTurn
    BY Stayed DEF Dispatches
  <2> QED  BY <2>1, LaneAssumption DEF TypeOK
<1>2. proc[p].pending - 1 > 0 <=> proc[p].pending # 1
  BY <1>1
<1> QED  BY <1>1, <1>2 DEF Counts, AfterCall

(* The diff ends in an artifact, or raises and there is none.              *)
LEMMA DiffFacts ==
  ASSUME TypeOK, NEW p \in Processes, Diff(p)
  PROVE  /\ UNCHANGED <<dir, shown, linked, registered, contractOf, overlapped>>
         /\ proc[p].phase = "diffing"
         /\ \E s : /\ Become(p, s) /\ s \in Dispatches /\ s.phase = "exiting"
                   /\ s.run = proc[p].run /\ s.calls = proc[p].calls /\ s.usd = proc[p].usd
                   /\ s.pending = proc[p].pending /\ s.wrote = proc[p].wrote
                   /\ s.status \in {"refused", "raised", proc[p].status}
                   /\ s.artifact \in {Staged, proc[p].artifact}
                   /\ ~(s.pending > 0)
<1> DEFINE d == proc[p]
<1>1. /\ UNCHANGED <<dir, shown, linked, registered, contractOf, overlapped>> /\ d.phase = "diffing"
      /\ d \in Dispatches /\ ~(d.pending > 0)
  BY Stayed DEF Diff, TypeOK
<1>2. Staged \in SUBSET RunIds
  BY DEF Staged, TypeOK
<1>3. CASE Become(p, [d EXCEPT !.phase = "exiting", !.text = "", !.status = "raised"])
  <2> DEFINE s == [d EXCEPT !.phase = "exiting", !.text = "", !.status = "raised"]
  <2>1. /\ s \in Dispatches /\ s.phase = "exiting" /\ s.run = d.run /\ s.calls = d.calls
        /\ s.usd = d.usd /\ s.pending = d.pending /\ s.wrote = d.wrote
        /\ s.status = "raised" /\ s.artifact = d.artifact
    BY <1>1 DEF Dispatches, Phases
  <2> QED  BY <1>1, <1>3, <2>1
<1>4. ASSUME NEW st \in {"refused", d.status},
             Become(p, [d EXCEPT !.phase = "exiting", !.artifact = Staged, !.text = "", !.status = st])
      PROVE  \E s : /\ Become(p, s) /\ s \in Dispatches /\ s.phase = "exiting"
                    /\ s.run = d.run /\ s.calls = d.calls /\ s.usd = d.usd
                    /\ s.pending = d.pending /\ s.wrote = d.wrote
                    /\ s.status \in {"refused", "raised", d.status}
                    /\ s.artifact \in {Staged, d.artifact}
                    /\ ~(s.pending > 0)
  <2> DEFINE s == [d EXCEPT !.phase = "exiting", !.artifact = Staged, !.text = "", !.status = st]
  <2>1. /\ s \in Dispatches /\ s.phase = "exiting" /\ s.run = d.run /\ s.calls = d.calls
        /\ s.usd = d.usd /\ s.pending = d.pending /\ s.wrote = d.wrote
        /\ s.status = st /\ s.artifact = Staged
    BY <1>1, <1>2, <1>4 DEF Dispatches, Phases
  <2> QED  BY <1>1, <1>4, <2>1
<1> QED  BY <1>1, <1>3, <1>4 DEF Diff

LEMMA TypeNext ==
  ASSUME TypeOK, RunsDiffer, [Next]_vars
  PROVE  TypeOK'
<1>1. CASE UNCHANGED vars
  BY <1>1 DEF vars, TypeOK, RunIds, Dispatches
<1>2. SUFFICES ASSUME NEW p \in Processes, Begin(p) \/ Steps(p) \/ Killed(p)
               PROVE  TypeOK'
  BY <1>1 DEF Next
<1> DEFINE d == proc[p]
<1>3. /\ d \in Dispatches
      /\ dir \in {None} \cup SUBSET RunIds /\ shown \in SUBSET RunIds
      /\ linked \in BOOLEAN /\ registered \in BOOLEAN
      /\ overlapped \in BOOLEAN
      /\ d.pending > 0 <=> d.phase = "calling"
      /\ d.pending \in 0 .. MaxPerTurn /\ d.calls \in Nat /\ d.usd \in Nat
      /\ d.run \in RunIds \cup {0}
  BY DEF TypeOK, Dispatches
<1>4. MaxPerTurn \in Nat \ {0}
  BY LaneAssumption
<1>5. CASE Begin(p)
  BY <1>5, TypeBegin
<1>6. CASE Prune(p)
  <2> DEFINE s == [d EXCEPT !.phase = "adding"]
  <2>1. s \in Dispatches /\ (s.pending > 0 <=> s.phase = "calling")
    BY <1>3, <1>6 DEF Prune, Dispatches, Phases
  <2>2. Become(p, s) /\ UNCHANGED <<dir, shown, linked, contractOf, overlapped>> /\ registered' \in BOOLEAN
    BY <1>3, <1>6 DEF Prune, Goto, Pruned
  <2> HIDE DEF s, d
  <2> QED  BY <1>3, <2>1, <2>2, TypeStep
<1>7. CASE Add(p)
  <2>1. PICK s \in {[d EXCEPT !.phase = "minting"], [d EXCEPT !.phase = "over", !.status = "raised"]} :
          Become(p, s)
    BY <1>7 DEF Add, Goto
  <2>2. s \in Dispatches /\ (s.pending > 0 <=> s.phase = "calling")
    BY <1>3, <1>7, <2>1 DEF Add, Dispatches, Phases
  <2>3. /\ UNCHANGED <<contractOf, overlapped>>
        /\ dir' \in {None} \cup SUBSET RunIds /\ shown' \in SUBSET RunIds
        /\ registered' \in BOOLEAN /\ linked' \in BOOLEAN
    BY <1>3, <1>7 DEF Add
  <2> HIDE DEF d
  <2> QED  BY <1>3, <2>1, <2>2, <2>3, TypeStep
<1>8. CASE Mint(p)
  <2>1. PICK s \in {[d EXCEPT !.phase = "turn", !.status = "done"],
                    [d EXCEPT !.phase = "exiting", !.status = "raised"]} :
          Become(p, s)
    BY <1>8 DEF Mint
  <2>2. s \in Dispatches /\ (s.pending > 0 <=> s.phase = "calling")
    BY <1>3, <1>8, <2>1 DEF Mint, Dispatches, Phases
  <2>3. UNCHANGED <<dir, shown, linked, registered, contractOf, overlapped>>
    BY <1>8 DEF Mint
  <2> HIDE DEF d
  <2> QED  BY <1>3, <2>1, <2>2, <2>3, TypeStep
<1>9. CASE Exhausted(p)
  <2> DEFINE s == [d EXCEPT !.phase = "diffing", !.status = "failed"]
  <2>1. s \in Dispatches /\ (s.pending > 0 <=> s.phase = "calling")
    BY <1>3, <1>9 DEF Exhausted, Dispatches, Phases
  <2>2. Become(p, s) /\ UNCHANGED <<dir, shown, linked, registered, contractOf, overlapped>>
    BY <1>9 DEF Exhausted
  <2> HIDE DEF s, d
  <2> QED  BY <1>3, <2>1, <2>2, TypeStep
<1>10. CASE Turn(p)
  <2>1. UNCHANGED <<dir, shown, linked, registered, contractOf, overlapped>> /\ d.phase = "turn"
    BY <1>10 DEF Turn
  <2>2. PICK s : /\ Become(p, s) /\ s \in Dispatches
                 /\ s.pending > 0 <=> s.phase = "calling"
    <3>1. CASE \E usd \in TurnCosts : \E n \in 1 .. MaxPerTurn :
            Become(p, [[d EXCEPT !.usd = @ + usd] EXCEPT !.phase = "calling", !.pending = n])
      <4>1. PICK usd \in TurnCosts, n \in 1 .. MaxPerTurn :
            Become(p, [[d EXCEPT !.usd = @ + usd] EXCEPT !.phase = "calling", !.pending = n])
        BY <3>1
      <4> DEFINE s == [[d EXCEPT !.usd = @ + usd] EXCEPT !.phase = "calling", !.pending = n]
      <4>2. s \in Dispatches /\ s.pending > 0 /\ s.phase = "calling"
        <5>1. d.usd + usd \in Nat /\ n \in 0 .. MaxPerTurn /\ n > 0
          BY <1>3, <1>4, LaneAssumption
        <5> QED  BY <1>3, <5>1 DEF Dispatches, Phases
      <4> QED  BY <4>1, <4>2
    <3>2. CASE \E usd \in TurnCosts : \E text \in {"plain", "long", "refusal"} :
            Become(p, [[d EXCEPT !.usd = @ + usd] EXCEPT !.phase = "diffing", !.text = text])
      <4>1. PICK usd \in TurnCosts, text \in {"plain", "long", "refusal"} :
            Become(p, [[d EXCEPT !.usd = @ + usd] EXCEPT !.phase = "diffing", !.text = text])
        BY <3>2
      <4> DEFINE s == [[d EXCEPT !.usd = @ + usd] EXCEPT !.phase = "diffing", !.text = text]
      <4>2. s \in Dispatches /\ s.pending = d.pending /\ s.phase = "diffing"
        <5>1. d.usd + usd \in Nat
          BY <1>3, LaneAssumption
        <5> QED  BY <1>3, <5>1 DEF Dispatches, Phases
      <4> QED  BY <1>3, <2>1, <4>1, <4>2
    <3>3. CASE Become(p, [d EXCEPT !.phase = "exiting", !.status = "failed"])
      <4> DEFINE s == [d EXCEPT !.phase = "exiting", !.status = "failed"]
      <4>1. s \in Dispatches /\ s.pending = d.pending /\ s.phase = "exiting"
        BY <1>3 DEF Dispatches, Phases
      <4> QED  BY <1>3, <2>1, <3>3, <4>1
    <3> QED  BY <1>10, <3>1, <3>2, <3>3 DEF Turn
  <2> HIDE DEF d
  <2> QED  BY <1>3, <2>1, <2>2, TypeStep
<1>11. CASE Call(p)
  <2>1. PICK s : Become(p, s) /\ s \in Dispatches /\ (s.pending > 0 <=> s.phase = "calling")
    BY <1>11, CallFacts, Pending DEF Counts
  <2>2. UNCHANGED <<linked, registered, contractOf, overlapped>>
    BY <1>11, CallFacts
  <2>3. UNCHANGED <<dir, shown>> \/ Writes(d.run)
    <3>1. PICK o : Effect(p, d, o)
      BY <1>11, CallFacts
    <3> QED  BY <3>1 DEF Effect
  <2>4. d.run \in RunIds
    BY <1>3, <1>11, CallFacts DEF RunsDiffer
  <2> HIDE DEF d
  <2>5. dir' \in {None} \cup SUBSET RunIds /\ shown' \in SUBSET RunIds
    BY <1>3, <2>3, <2>4 DEF Writes
  <2> QED  BY <1>3, <2>1, <2>2, <2>5, TypeStep
<1>12. CASE Diff(p)
  <2>1. PICK s : Become(p, s) /\ s \in Dispatches /\ (s.pending > 0 <=> s.phase = "calling")
    BY <1>3, <1>12, DiffFacts
  <2>2. UNCHANGED <<dir, shown, linked, registered, contractOf, overlapped>>
    BY <1>12, DiffFacts
  <2> HIDE DEF d
  <2> QED  BY <1>3, <2>1, <2>2, TypeStep
<1>13. CASE Exit(p)
  <2> DEFINE s == [d EXCEPT !.phase = "over"]
  <2>1. s \in Dispatches /\ (s.pending > 0 <=> s.phase = "calling")
    BY <1>3, <1>13 DEF Exit, Dispatches, Phases
  <2>2. /\ Become(p, s) /\ UNCHANGED <<contractOf, overlapped>>
        /\ dir' = None /\ shown' = {} /\ linked' \in BOOLEAN /\ registered' \in BOOLEAN
    BY <1>3, <1>13 DEF Exit, Goto, Removed
  <2> HIDE DEF s, d
  <2> QED  BY <1>3, <2>1, <2>2, TypeStep
<1>14. CASE Killed(p)
  <2>1. Idle \in Dispatches /\ Idle.pending = 0 /\ Idle.phase = "idle"
    BY <1>4 DEF Idle, Dispatches, Phases
  <2>2. Become(p, Idle) /\ UNCHANGED <<dir, shown, linked, registered, contractOf, overlapped>> /\ ~(0 > 0)
    BY <1>14 DEF Killed
  <2> QED  BY <1>3, <2>1, <2>2, TypeStep
<1> QED
  BY <1>2, <1>5, <1>6, <1>7, <1>8, <1>9, <1>10, <1>11, <1>12, <1>13, <1>14 DEF Steps

-----------------------------------------------------------------------------
(* What every step of a dispatch leaves alone.                             *)
LEMMA StepFacts ==
  ASSUME TypeOK, NEW p \in Processes, Steps(p)
  PROVE  /\ UNCHANGED <<contractOf, overlapped>> /\ Dispatching(p)
         /\ \A q \in Processes \ {p} : proc'[q] = proc[q]
         /\ proc'[p].run = proc[p].run /\ proc'[p].phase # "idle"
         /\ proc'[p].artifact = proc[p].artifact \/ proc'[p].phase = "exiting"
         /\ proc[p].phase = "exiting" => proc'[p].phase = "over"
<1> DEFINE d == proc[p]
<1>1. d \in Dispatches /\ AfterCall(d.pending) # "idle"
  BY Stayed DEF AfterCall
<1>2. UNCHANGED <<contractOf, overlapped>> /\ Dispatching(p)
  BY DEF Steps, Prune, Add, Mint, Exhausted, Turn, Call, Diff, Exit, Dispatching
<1>3. PICK s : /\ Become(p, s) /\ s.run = d.run /\ s.phase # "idle"
               /\ s.artifact = d.artifact \/ s.phase = "exiting"
               /\ d.phase = "exiting" => s.phase = "over"
  <2>1. CASE Prune(p)
    BY <1>1, <2>1 DEF Prune, Goto, Dispatches
  <2>2. CASE Add(p)
    BY <1>1, <2>2 DEF Add, Goto, Dispatches
  <2>3. CASE Mint(p)
    BY <1>1, <2>3 DEF Mint, Dispatches
  <2>4. CASE Exhausted(p)
    BY <1>1, <2>4 DEF Exhausted, Dispatches
  <2>5. CASE Turn(p)
    BY <1>1, <2>5 DEF Turn, Dispatches
  <2>6. CASE Call(p)
    <3>1. PICK s : Become(p, s) /\ Counts(d, s)
      BY <2>6, CallFacts
    <3>2. d.phase = "calling"
      BY <2>6, CallFacts
    <3> QED  BY <1>1, <3>1, <3>2 DEF Counts
  <2>7. CASE Diff(p)
    BY <2>7, DiffFacts
  <2>8. CASE Exit(p)
    <3> DEFINE e == [d EXCEPT !.phase = "over"]
    <3>1. Become(p, e)
      BY <2>8 DEF Exit, Goto
    <3>2. e.run = d.run /\ e.phase = "over" /\ e.artifact = d.artifact
      BY <1>1 DEF Dispatches
    <3> HIDE DEF d, e
    <3>3. e.phase # "idle"
      BY <3>2
    <3> QED  BY <3>1, <3>2, <3>3
  <2> QED  BY <2>1, <2>2, <2>3, <2>4, <2>5, <2>6, <2>7, <2>8 DEF Steps
<1>4. proc'[p] = s /\ \A q \in Processes \ {p} : proc'[q] = proc[q]
  BY <1>3, Moved
<1> QED  BY <1>2, <1>3, <1>4

LEMMA KilledFacts ==
  ASSUME TypeOK, NEW p \in Processes, Killed(p)
  PROVE  /\ proc'[p] = Idle /\ \A q \in Processes \ {p} : proc'[q] = proc[q]
         /\ UNCHANGED <<dir, shown, linked, registered, contractOf, overlapped>>
BY Moved DEF Killed

LEMMA RunsNext ==
  ASSUME TypeOK, RunsDiffer, [Next]_vars
  PROVE  RunsDiffer'
<1>1. CASE UNCHANGED vars
  BY <1>1 DEF vars, RunsDiffer
<1>2. SUFFICES ASSUME NEW p \in Processes, Begin(p) \/ Steps(p) \/ Killed(p)
               PROVE  RunsDiffer'
  BY <1>1 DEF Next
<1>3. CASE Begin(p)
  <2> DEFINE r == Len(contractOf) + 1
  <2>1. /\ r \notin RunIds /\ r # 0 /\ \A q \in Processes \ {p} : proc'[q] = proc[q]
        /\ proc'[p] = [Idle EXCEPT !.phase = "pruning", !.run = r]
    BY <1>3, BeginFacts
  <2>2. \A q \in Processes : proc[q].run \in RunIds \cup {0}
    BY Stayed DEF Dispatches
  <2> HIDE DEF r
  <2>3. proc'[p].run = r /\ proc'[p].artifact = None
    BY <2>1 DEF Idle
  <2>4. ASSUME NEW q \in Processes
        PROVE  /\ proc'[q].phase # "idle" => proc'[q].run # 0
               /\ proc'[q].artifact # None => proc'[q].phase \in {"exiting", "over"}
    <3>1. CASE q = p
      BY <2>1, <2>3, <3>1
    <3>2. CASE q # p
      BY <2>1, <3>2 DEF RunsDiffer
    <3> QED  BY <3>1, <3>2
  <2>5. ASSUME NEW q \in Processes, NEW o \in Processes \ {q}, proc'[q].run # 0
        PROVE  proc'[q].run # proc'[o].run
    <3>1. CASE q # p /\ o # p
      BY <2>1, <2>5, <3>1 DEF RunsDiffer
    <3>2. CASE q = p \/ o = p
      BY <2>1, <2>2, <2>3, <2>5, <3>2
    <3> QED  BY <3>1, <3>2
  <2> QED  BY <2>4, <2>5 DEF RunsDiffer
<1>4. CASE Steps(p)
  <2>1. /\ \A q \in Processes \ {p} : proc'[q] = proc[q]
        /\ proc'[p].run = proc[p].run /\ proc[p].phase \notin {"idle", "over"}
        /\ proc'[p].artifact = proc[p].artifact \/ proc'[p].phase = "exiting"
        /\ proc[p].phase = "exiting" => proc'[p].phase = "over"
    BY <1>4, StepFacts DEF Dispatching
  <2>2. \A q \in Processes : proc'[q].run = proc[q].run
    BY <2>1
  <2>3. \A q \in Processes :
          /\ proc'[q].phase # "idle" => proc[q].phase # "idle"
          /\ proc'[q].artifact # None => proc'[q].phase \in {"exiting", "over"}
    BY <2>1 DEF RunsDiffer
  <2>4. ASSUME NEW q \in Processes, proc'[q].phase # "idle" PROVE proc'[q].run # 0
    BY <2>2, <2>3, <2>4 DEF RunsDiffer
  <2>5. ASSUME NEW q \in Processes, NEW r \in Processes \ {q}, proc'[q].run # 0
        PROVE  proc'[q].run # proc'[r].run
    BY <2>2, <2>5 DEF RunsDiffer
  <2> QED  BY <2>3, <2>4, <2>5 DEF RunsDiffer
<1>5. CASE Killed(p)
  <2>0. proc'[p] = Idle
    BY <1>5, KilledFacts
  <2>1. proc'[p].run = 0 /\ proc'[p].phase = "idle" /\ proc'[p].artifact = None
    <3>1. Idle.run = 0 /\ Idle.phase = "idle" /\ Idle.artifact = None
      BY DEF Idle
    <3> QED  BY <2>0, <3>1
  <2>2. \A q \in Processes \ {p} : proc'[q] = proc[q]
    BY <1>5, KilledFacts
  <2> QED  BY <2>1, <2>2 DEF RunsDiffer
<1> QED  BY <1>2, <1>3, <1>4, <1>5

(* Who may write.                                                          *)
LEMMA GrantedNext ==
  ASSUME TypeOK, RunsDiffer, ChangesAreGranted, [Next]_vars
  PROVE  ChangesAreGranted'
<1> DEFINE MayWrite(c) == Has(c, "fs:worktree") \/ Has(c, "proc:bash")
<1>1. CASE UNCHANGED <<dir, contractOf>>
  BY <1>1 DEF ChangesAreGranted
<1>2. CASE dir' \in {None, {}}
  BY <1>2 DEF ChangesAreGranted
<1>3. CASE UNCHANGED vars
  BY <1>1, <1>3 DEF vars
<1>4. SUFFICES ASSUME NEW p \in Processes, Begin(p) \/ Steps(p) \/ Killed(p)
               PROVE  ChangesAreGranted'
  BY <1>3 DEF Next
<1>5. CASE Begin(p) \/ Exit(p) \/ Add(p)
  BY <1>1, <1>2, <1>5 DEF Begin, Exit, Add
<1>6. CASE Prune(p) \/ Mint(p) \/ Exhausted(p) \/ Turn(p) \/ Diff(p) \/ Killed(p)
  BY <1>1, <1>6 DEF Prune, Mint, Exhausted, Turn, Diff, Killed
<1>7. CASE Call(p)
  <2>1. PICK tool \in Called, place \in Places :
          \/ UNCHANGED dir
          \/ /\ Granted(Contract(p), tool, place) /\ tool # "read_file"
             /\ dir' = (IF dir = None THEN {} ELSE dir) \cup {proc[p].run}
    <3>1. PICK s : Effect(p, proc[p], s)
      BY <1>7, CallFacts
    <3>2. "read_file" \in Called /\ "sub" \in Places
      BY DEF Called, Tools, Places
    <3> QED  BY <3>1, <3>2 DEF Effect, Writes
  <2>2. contractOf' = contractOf
    BY <1>7 DEF Call
  <2>3. CASE Granted(Contract(p), tool, place) /\ tool # "read_file"
    <3>1. tool \in ToolsOf(Contract(p))
      BY <2>3 DEF Granted
    <3>2. tool = "apply_patch" => Has(Contract(p), "fs:worktree")
      BY <3>1 DEF ToolsOf
    <3>3. tool = "bash" => Has(Contract(p), "proc:bash")
      BY <3>1 DEF ToolsOf
    <3>4. tool \in {"apply_patch", "bash"}
      BY <2>3, <3>1 DEF ToolsOf
    <3>5. MayWrite(contractOf[proc[p].run])
      BY <3>2, <3>3, <3>4 DEF Contract
    <3>6. \A i \in dir' : (dir # None /\ i \in dir) \/ i = proc[p].run \/ dir' = dir
      BY <2>1
    <3> HIDE DEF MayWrite
    <3>7. ASSUME dir' # None, dir' # dir, NEW i \in dir' PROVE MayWrite(contractOf'[i])
      BY <2>2, <3>5, <3>6, <3>7 DEF ChangesAreGranted, MayWrite
    <3> QED  BY <1>1, <2>2, <3>7 DEF ChangesAreGranted, MayWrite
  <2> QED  BY <1>1, <2>1, <2>2, <2>3
<1> QED  BY <1>4, <1>5, <1>6, <1>7 DEF Steps

(* The ceilings, for one dispatch and its contract.                        *)
Within(s, c) ==
    /\ s.calls + s.pending < c.calls + MaxPerTurn
    /\ \E cost \in TurnCosts \cup {0} : s.usd = 0 \/ s.usd < c.usd + cost
    /\ s.status = "done" /\ s.phase \in {"diffing", "exiting", "over"} => s.calls < c.calls

LEMMA CeilingsAre ==
  CeilingsHold <=> \A p \in Processes : proc[p].run # 0 => Within(proc[p], Contract(p))
BY DEF CeilingsHold, Within

LEMMA CeilingsStep ==
  ASSUME TypeOK, CeilingsHold, NEW p \in Processes, UNCHANGED contractOf,
         NEW s, Become(p, s), s.run = proc[p].run, Within(s, Contract(p))
  PROVE  CeilingsHold'
<1>1. proc'[p] = s /\ \A q \in Processes \ {p} : proc'[q] = proc[q]
  BY Moved
<1>2. ASSUME NEW q \in Processes, proc'[q].run # 0 PROVE Within(proc'[q], contractOf[proc'[q].run])
  <2>1. CASE q = p
    BY <1>1, <2>1 DEF Contract
  <2>2. CASE q # p
    BY <1>1, <1>2, <2>2, CeilingsAre DEF Contract
  <2> QED  BY <2>1, <2>2
<1> QED  BY <1>2 DEF CeilingsHold, Within, Contract

LEMMA CeilingsBegin ==
  ASSUME TypeOK, CeilingsHold, NEW p \in Processes, Begin(p)
  PROVE  CeilingsHold'
<1> DEFINE r == Len(contractOf) + 1
           c == contractOf'[r]
<1>1. /\ c \in Contracts /\ \A i \in RunIds : contractOf'[i] = contractOf[i]
      /\ proc'[p] = [Idle EXCEPT !.phase = "pruning", !.run = r]
      /\ \A q \in Processes \ {p} : proc'[q] = proc[q]
  BY BeginFacts
<1> HIDE DEF r, c
<1>2. /\ proc'[p].run = r /\ proc'[p].calls = 0 /\ proc'[p].pending = 0 /\ proc'[p].usd = 0
      /\ proc'[p].phase = "pruning"
  BY <1>1 DEF Idle
<1>3. c.calls \in Nat /\ MaxPerTurn \in Nat \ {0}
  BY <1>1, LaneAssumption
<1>4. Within(proc'[p], c)
  BY <1>2, <1>3 DEF Within
<1>5. ASSUME NEW q \in Processes, proc'[q].run # 0 PROVE Within(proc'[q], contractOf'[proc'[q].run])
  <2>1. CASE q = p
    BY <1>2, <1>4, <2>1 DEF c
  <2>2. CASE q # p
    <3>1. proc'[q] = proc[q] /\ proc[q].run \in RunIds
      BY <1>1, <1>5, <2>2, RunsAre
    <3>2. Within(proc[q], contractOf[proc[q].run])
      BY <1>5, <3>1, CeilingsAre DEF Contract
    <3> QED  BY <1>1, <3>1, <3>2
  <2> QED  BY <2>1, <2>2
<1> QED  BY <1>5 DEF CeilingsHold, Within, Contract

LEMMA CeilingsNext ==
  ASSUME TypeOK, RunsDiffer, CeilingsHold, [Next]_vars
  PROVE  CeilingsHold'
<1>1. CASE UNCHANGED vars
  BY <1>1 DEF vars, CeilingsHold, Contract
<1>2. SUFFICES ASSUME NEW p \in Processes, Begin(p) \/ Steps(p) \/ Killed(p)
               PROVE  CeilingsHold'
  BY <1>1 DEF Next
<1>3. CASE Begin(p)
  BY <1>3, CeilingsBegin
<1>4. CASE Killed(p)
  <2>1. proc'[p] = Idle /\ \A q \in Processes \ {p} : proc'[q] = proc[q]
    BY <1>4, KilledFacts
  <2>2. contractOf' = contractOf /\ Idle.run = 0
    BY <1>4, KilledFacts DEF Idle
  <2>3. ASSUME NEW q \in Processes, proc'[q].run # 0
        PROVE  Within(proc'[q], contractOf[proc'[q].run])
    BY <2>1, <2>2, <2>3, CeilingsAre DEF Contract
  <2> QED  BY <2>2, <2>3 DEF CeilingsHold, Within, Contract
<1>5. CASE Steps(p)
  <2> DEFINE d == proc[p]
             c == Contract(p)
  <2>1. d \in Dispatches /\ contractOf' = contractOf /\ d.run # 0
    BY <1>5, Stayed, StepFacts DEF RunsDiffer, Dispatching
  <2>2. /\ d.pending \in Nat /\ d.calls \in Nat /\ d.usd \in Nat
        /\ c.calls \in Nat /\ c.usd \in Nat /\ MaxPerTurn \in Nat \ {0}
    <3>1. d.pending \in 0 .. MaxPerTurn /\ d.calls \in Nat /\ d.usd \in Nat
      BY <2>1 DEF Dispatches
    <3>2. c \in Contracts
      BY <2>1, RunsAre
    <3> QED  BY <3>1, <3>2, LaneAssumption
  <2>3. Within(d, c)
    BY <2>1, CeilingsAre
  <2>4. d.pending > 0 <=> d.phase = "calling"
    BY DEF TypeOK
  <2>5. PICK s : Become(p, s) /\ s.run = d.run /\ Within(s, c)
    <3>1. CASE Prune(p)
      <4> DEFINE s == [d EXCEPT !.phase = "adding"]
      <4>1. Become(p, s)
        BY <3>1 DEF Prune, Goto
      <4>2. /\ s.run = d.run /\ s.calls = d.calls /\ s.pending = d.pending /\ s.usd = d.usd
            /\ s.phase = "adding"
        BY <2>1 DEF Dispatches
      <4> HIDE DEF s, d, c
      <4> QED  BY <2>3, <4>1, <4>2 DEF Within
    <3>2. CASE Add(p)
      <4>1. PICK s \in {[d EXCEPT !.phase = "minting"], [d EXCEPT !.phase = "over", !.status = "raised"]} :
              Become(p, s)
        BY <3>2 DEF Add, Goto
      <4>2. /\ s.run = d.run /\ s.calls = d.calls /\ s.pending = d.pending /\ s.usd = d.usd
            /\ s.phase = "minting" \/ s.status = "raised"
        BY <2>1, <4>1 DEF Dispatches
      <4> HIDE DEF d, c
      <4> QED  BY <2>3, <4>1, <4>2 DEF Within
    <3>3. CASE Mint(p)
      <4>1. PICK s \in {[d EXCEPT !.phase = "turn", !.status = "done"],
                        [d EXCEPT !.phase = "exiting", !.status = "raised"]} :
              Become(p, s)
        BY <3>3 DEF Mint
      <4>2. /\ s.run = d.run /\ s.calls = d.calls /\ s.pending = d.pending /\ s.usd = d.usd
            /\ s.phase = "turn" \/ s.status = "raised"
        BY <2>1, <4>1 DEF Dispatches
      <4> HIDE DEF d, c
      <4> QED  BY <2>3, <4>1, <4>2 DEF Within
    <3>4. CASE Exhausted(p)
      <4> DEFINE s == [d EXCEPT !.phase = "diffing", !.status = "failed"]
      <4>1. Become(p, s)
        BY <3>4 DEF Exhausted
      <4>2. /\ s.run = d.run /\ s.calls = d.calls /\ s.pending = d.pending /\ s.usd = d.usd
            /\ s.status = "failed"
        BY <2>1 DEF Dispatches
      <4> HIDE DEF s, d, c
      <4> QED  BY <2>3, <4>1, <4>2 DEF Within
    <3>5. CASE Turn(p)
      <4>0. d.phase = "turn" /\ ~(d.calls >= c.calls) /\ ~(d.usd >= c.usd)
        BY <3>5 DEF Turn, Spent
      <4>1. /\ \/ \E usd \in TurnCosts, n \in 1 .. MaxPerTurn :
                    Become(p, [[d EXCEPT !.usd = @ + usd] EXCEPT !.phase = "calling", !.pending = n])
               \/ \E usd \in TurnCosts, text \in {"plain", "long", "refusal"} :
                    Become(p, [[d EXCEPT !.usd = @ + usd] EXCEPT !.phase = "diffing", !.text = text])
               \/ Become(p, [d EXCEPT !.phase = "exiting", !.status = "failed"])
        BY <3>5 DEF Turn
      <4>2. d.calls < c.calls /\ d.usd < c.usd /\ d.pending = 0
        BY <2>2, <2>4, <4>0
      <4>3. ASSUME NEW usd \in TurnCosts
            PROVE  d.usd + usd < c.usd + usd /\ d.calls + 0 < c.calls + MaxPerTurn
        BY <2>2, <4>2, LaneAssumption
      <4>4. CASE \E usd \in TurnCosts, n \in 1 .. MaxPerTurn :
                    Become(p, [[d EXCEPT !.usd = @ + usd] EXCEPT !.phase = "calling", !.pending = n])
        <5>1. PICK usd \in TurnCosts, n \in 1 .. MaxPerTurn :
                    Become(p, [[d EXCEPT !.usd = @ + usd] EXCEPT !.phase = "calling", !.pending = n])
          BY <4>4
        <5> DEFINE s == [[d EXCEPT !.usd = @ + usd] EXCEPT !.phase = "calling", !.pending = n]
        <5>2. /\ s.run = d.run /\ s.calls = d.calls /\ s.pending = n /\ s.usd = d.usd + usd
              /\ s.phase = "calling"
          BY <2>1 DEF Dispatches
        <5>3. d.calls + n < c.calls + MaxPerTurn
          BY <2>2, <4>2
        <5>4. Become(p, s)
          BY <5>1
        <5> HIDE DEF s, d, c
        <5> QED  BY <4>3, <5>2, <5>3, <5>4 DEF Within
      <4>5. CASE \E usd \in TurnCosts, text \in {"plain", "long", "refusal"} :
                    Become(p, [[d EXCEPT !.usd = @ + usd] EXCEPT !.phase = "diffing", !.text = text])
        <5>1. PICK usd \in TurnCosts, text \in {"plain", "long", "refusal"} :
                    Become(p, [[d EXCEPT !.usd = @ + usd] EXCEPT !.phase = "diffing", !.text = text])
          BY <4>5
        <5> DEFINE s == [[d EXCEPT !.usd = @ + usd] EXCEPT !.phase = "diffing", !.text = text]
        <5>2. /\ s.run = d.run /\ s.calls = d.calls /\ s.pending = d.pending /\ s.usd = d.usd + usd
          BY <2>1 DEF Dispatches
        <5>3. Become(p, s)
          BY <5>1
        <5> HIDE DEF s, d, c
        <5> QED  BY <4>2, <4>3, <5>2, <5>3 DEF Within
      <4>6. CASE Become(p, [d EXCEPT !.phase = "exiting", !.status = "failed"])
        <5> DEFINE s == [d EXCEPT !.phase = "exiting", !.status = "failed"]
        <5>1. /\ s.run = d.run /\ s.calls = d.calls /\ s.pending = d.pending /\ s.usd = d.usd
              /\ s.status = "failed"
          BY <2>1 DEF Dispatches
        <5>2. Become(p, s)
          BY <4>6
        <5> HIDE DEF s, d, c
        <5> QED  BY <2>3, <5>1, <5>2 DEF Within
      <4> QED  BY <4>1, <4>4, <4>5, <4>6
    <3>6. CASE Call(p)
      <4>1. PICK s : Become(p, s) /\ Counts(d, s)
        BY <3>6, CallFacts
      <4>2. d.phase = "calling"
        BY <3>6, CallFacts
      <4>3. /\ s.run = d.run /\ s.calls = d.calls + 1 /\ s.usd = d.usd
            /\ s.pending \in {0, d.pending - 1}
            /\ s.phase = AfterCall(d.pending) \/ s.status = "raised"
        BY <4>1 DEF Counts
      <4> HIDE DEF d, c
      <4>4. s.calls + s.pending =< d.calls + d.pending
        BY <2>2, <2>4, <4>2, <4>3
      <4>5. s.calls + s.pending < c.calls + MaxPerTurn
        <5>1. d.calls + d.pending < c.calls + MaxPerTurn
          BY <2>3 DEF Within
        <5>2. s.calls \in Nat /\ s.pending \in Int
          BY <2>2, <4>3
        <5> QED  BY <2>2, <4>4, <5>1, <5>2
      <4>6. ~(s.status = "done" /\ s.phase \in {"diffing", "exiting", "over"})
        BY <4>3 DEF AfterCall
      <4>7. \E cost \in TurnCosts \cup {0} : s.usd = 0 \/ s.usd < c.usd + cost
        BY <2>3, <4>3 DEF Within
      <4> QED  BY <4>1, <4>3, <4>5, <4>6, <4>7 DEF Within
    <3>7. CASE Diff(p)
      <4>1. PICK s : /\ Become(p, s) /\ s.phase = "exiting"
                     /\ s.run = d.run /\ s.calls = d.calls /\ s.usd = d.usd
                     /\ s.pending = d.pending /\ s.status \in {"refused", "raised", d.status}
        BY <3>7, DiffFacts
      <4>2. d.phase = "diffing"
        BY <3>7, DiffFacts
      <4> HIDE DEF d, c
      <4> QED  BY <2>3, <4>1, <4>2 DEF Within
    <3>8. CASE Exit(p)
      <4> DEFINE s == [d EXCEPT !.phase = "over"]
      <4>1. Become(p, s) /\ d.phase = "exiting"
        BY <3>8 DEF Exit, Goto
      <4>2. /\ s.run = d.run /\ s.calls = d.calls /\ s.pending = d.pending /\ s.usd = d.usd
            /\ s.status = d.status
        BY <2>1 DEF Dispatches
      <4> HIDE DEF s, d, c
      <4> QED  BY <2>3, <4>1, <4>2 DEF Within
    <3> QED  BY <1>5, <3>1, <3>2, <3>3, <3>4, <3>5, <3>6, <3>7, <3>8 DEF Steps
  <2> HIDE DEF d
  <2> QED  BY <2>1, <2>5, CeilingsStep DEF d
<1> QED  BY <1>2, <1>3, <1>4, <1>5

-----------------------------------------------------------------------------
(* While a dispatch is alone on the path, the others are out of the way.   *)
LEMMA Others ==
  ASSUME IInv, ~overlapped, NEW p \in Processes, Steps(p) \/ Killed(p)
  PROVE  /\ contractOf' = contractOf /\ proc'[p].run \in {0, Len(contractOf)}
         /\ proc[p].run = Len(contractOf)
         /\ proc'[p].phase # "idle" => proc'[p].run = Len(contractOf)
         /\ \A q \in Processes \ {p} :
                proc'[q] = proc[q] /\ ~Dispatching(q) /\ proc[q].run # Len(contractOf)
<1>1. TypeOK /\ RunsDiffer /\ Alone
  BY DEF IInv
<1>2. Dispatching(p)
  BY <1>1, StepFacts DEF Killed
<1>3. proc[p].run = Len(contractOf) /\ proc[p].run # 0
  BY <1>1, <1>2 DEF Alone, RunsDiffer, Dispatching
<1>4. \A q \in Processes \ {p} : ~Dispatching(q) /\ proc[q].run # Len(contractOf)
  BY <1>1, <1>2, <1>3 DEF Alone, RunsDiffer
<1>5. CASE Steps(p)
  BY <1>1, <1>3, <1>4, <1>5, StepFacts
<1>6. CASE Killed(p)
  <2>1. proc'[p] = Idle /\ Idle.run = 0 /\ Idle.phase = "idle"
    BY <1>1, <1>6, KilledFacts DEF Idle
  <2> QED  BY <1>1, <1>3, <1>4, <1>6, <2>1, KilledFacts
<1> QED  BY <1>5, <1>6

LEMMA FollowsStep ==
  ASSUME IInv, ~overlapped, NEW p \in Processes, Steps(p) \/ Killed(p),
         Follows(proc'[p], dir', shown', linked', registered', Len(contractOf))
  PROVE  Alone' /\ \A q \in Processes : PathFollows(q)'
<1>1. /\ contractOf' = contractOf
      /\ proc'[p].phase # "idle" => proc'[p].run = Len(contractOf)
      /\ \A q \in Processes \ {p} :
                proc'[q] = proc[q] /\ ~Dispatching(q) /\ proc[q].run # Len(contractOf)
  BY Others
<1>2. Alone'
  BY <1>1 DEF Alone, Dispatching
<1>3. ASSUME NEW q \in Processes PROVE Follows(proc'[q], dir', shown', linked', registered', Len(contractOf))
  <2>1. CASE q = p
    BY <2>1
  <2>2. CASE q # p
    <3>1. PathFollows(q)
      BY DEF IInv
    <3>2. proc[q].artifact # None => proc[q].artifact = Changes(proc[q])
      BY <3>1 DEF PathFollows, Follows
    <3>3. /\ proc'[q] = proc[q] /\ proc[q].phase \in {"idle", "over"}
          /\ proc[q].run # Len(contractOf)
      BY <1>1, <2>2 DEF Dispatching
    <3> QED  BY <3>2, <3>3 DEF Follows
  <2> QED  BY <2>1, <2>2
<1> QED  BY <1>1, <1>2, <1>3 DEF PathFollows

LEMMA FollowsBegin ==
  ASSUME IInv, ~overlapped', NEW p \in Processes, Begin(p)
  PROVE  Alone' /\ \A q \in Processes : PathFollows(q)'
<1> DEFINE r == Len(contractOf) + 1
<1>1. /\ ~overlapped /\ \A q \in Processes : ~Dispatching(q)
      /\ dir' = None /\ linked' = FALSE
  BY DEF Begin
<1>2. /\ Len(contractOf') = r /\ r \notin RunIds \cup {0}
      /\ proc'[p] = [Idle EXCEPT !.phase = "pruning", !.run = r]
      /\ \A q \in Processes \ {p} : proc'[q] = proc[q]
  BY BeginFacts DEF IInv
<1>3. /\ proc'[p].run = r /\ proc'[p].phase = "pruning" /\ proc'[p].wrote = FALSE
      /\ proc'[p].artifact = None
  <2> HIDE DEF r
  <2> QED  BY <1>2 DEF Idle
<1>4. \A q \in Processes : proc[q].run # r
  <2>1. \A q \in Processes : proc[q].run \in RunIds \cup {0}
    BY Stayed DEF Dispatches, IInv
  <2> QED  BY <1>2, <2>1
<1> HIDE DEF r
<1>5. Alone'
  <2>1. ASSUME NEW q \in Processes, proc'[q].phase \notin {"idle", "over"} PROVE q = p
    BY <1>1, <1>2, <2>1 DEF Dispatching
  <2> QED  BY <1>2, <1>3, <2>1 DEF Alone, Dispatching
<1>6. ASSUME NEW q \in Processes PROVE Follows(proc'[q], dir', shown', linked', registered', r)
  <2>1. CASE q = p
    BY <1>1, <1>3, <2>1 DEF Follows
  <2>2. CASE q # p
    <3>1. PathFollows(q)
      BY <1>1 DEF IInv
    <3>2. proc[q].artifact # None => proc[q].artifact = Changes(proc[q])
      BY <3>1 DEF PathFollows, Follows
    <3>3. proc'[q] = proc[q] /\ proc[q].phase \in {"idle", "over"} /\ proc[q].run # r
      BY <1>1, <1>2, <1>4, <2>2 DEF Dispatching
    <3> QED  BY <3>2, <3>3 DEF Follows
  <2> QED  BY <2>1, <2>2
<1> QED  BY <1>2, <1>5, <1>6 DEF PathFollows

LEMMA PathNext ==
  ASSUME IInv, [Next]_vars, ~overlapped'
  PROVE  Alone' /\ \A q \in Processes : PathFollows(q)'
<1>1. CASE UNCHANGED vars
  BY <1>1 DEF vars, IInv, Alone, PathFollows, Dispatching
<1>2. SUFFICES ASSUME NEW p \in Processes, Begin(p) \/ Steps(p) \/ Killed(p)
               PROVE  Alone' /\ \A q \in Processes : PathFollows(q)'
  BY <1>1 DEF Next
<1>3. CASE Begin(p)
  BY <1>3, FollowsBegin
<1> DEFINE d == proc[p]
           last == Len(contractOf)
<1>4. TypeOK /\ RunsDiffer /\ d \in Dispatches /\ d.wrote \in BOOLEAN
  BY Stayed DEF IInv, Dispatches
<1>5. CASE Killed(p)
  <2>1. ~overlapped /\ proc'[p] = Idle
    BY <1>4, <1>5, KilledFacts
  <2>2. Idle.phase = "idle" /\ Idle.artifact = None
    BY DEF Idle
  <2>3. Follows(Idle, dir', shown', linked', registered', last)
    BY <2>2 DEF Follows
  <2> QED  BY <1>5, <2>1, <2>3, FollowsStep
<1>6. CASE Steps(p)
  <2>1. ~overlapped /\ Dispatching(p)
    BY <1>4, <1>6, StepFacts
  <2>2. Follows(d, dir, shown, linked, registered, last)
    BY <2>1 DEF IInv, PathFollows
  <2>3. d.phase # "exiting" => d.artifact = None
    BY <1>4, <2>1 DEF RunsDiffer, Dispatching
  <2>4. SUFFICES \E s : Become(p, s) /\ Follows(s, dir', shown', linked', registered', last)
    <3>1. PICK s : Become(p, s) /\ Follows(s, dir', shown', linked', registered', last)
      BY <2>4
    <3>2. proc'[p] = s
      BY <1>4, <3>1, Moved
    <3> QED  BY <1>6, <2>1, <3>1, <3>2, FollowsStep
  <2>5. CASE Prune(p)
    <3> DEFINE s == [d EXCEPT !.phase = "adding"]
    <3>1. /\ Become(p, s) /\ d.phase = "pruning" /\ UNCHANGED <<dir, shown, linked>>
          /\ registered' = (registered /\ linked)
      BY <2>5 DEF Prune, Goto, Pruned
    <3>2. s.phase = "adding" /\ s.wrote = d.wrote /\ s.artifact = d.artifact
      BY <1>4 DEF Dispatches
    <3> HIDE DEF s, d, last
    <3> QED  BY <2>2, <2>3, <3>1, <3>2 DEF Follows
  <2>6. CASE Add(p)
    <3>1. CASE /\ dir' = {} /\ shown' = {} /\ linked' = TRUE /\ registered' = TRUE /\ d.phase = "adding"
               /\ Become(p, [d EXCEPT !.phase = "minting"])
      <4> DEFINE s == [d EXCEPT !.phase = "minting"]
      <4>1. s.phase = "minting" /\ s.wrote = d.wrote /\ s.artifact = d.artifact
        BY <1>4 DEF Dispatches
      <4>2. Become(p, s)
        BY <3>1
      <4> HIDE DEF s, d, last
      <4> QED  BY <2>2, <2>3, <3>1, <4>1, <4>2 DEF Follows, Changes
    <3>2. CASE /\ UNCHANGED <<dir, shown, linked, registered>> /\ d.phase = "adding"
               /\ Become(p, [d EXCEPT !.phase = "over", !.status = "raised"])
      <4> DEFINE s == [d EXCEPT !.phase = "over", !.status = "raised"]
      <4>1. s.phase = "over" /\ s.wrote = d.wrote /\ s.artifact = d.artifact
        BY <1>4 DEF Dispatches
      <4>2. Become(p, s)
        BY <3>2
      <4> HIDE DEF s, d, last
      <4> QED  BY <2>2, <2>3, <3>2, <4>1, <4>2 DEF Follows
    <3> QED  BY <2>6, <3>1, <3>2 DEF Add, Goto
  <2>7. ASSUME NEW s, Become(p, s), UNCHANGED <<dir, shown, linked, registered>>,
               s.wrote = d.wrote, s.run = d.run, s.artifact = d.artifact,
               d.phase \in {"minting", "turn", "calling"},
               s.phase \in {"turn", "calling", "diffing", "exiting"}
        PROVE  Follows(s, dir', shown', linked', registered', last)
    <3>1. shown = Changes(d) /\ linked /\ registered /\ Changes(s) = Changes(d)
      BY <2>2, <2>7 DEF Follows, Changes
    <3>2. s.artifact = None
      BY <2>3, <2>7
    <3> HIDE DEF d, last
    <3> QED  BY <2>7, <3>1, <3>2 DEF Follows
  <2>8. CASE Mint(p)
    <3>1. PICK s \in {[d EXCEPT !.phase = "turn", !.status = "done"],
                      [d EXCEPT !.phase = "exiting", !.status = "raised"]} :
            Become(p, s)
      BY <2>8 DEF Mint
    <3>2. /\ s.wrote = d.wrote /\ s.run = d.run /\ s.artifact = d.artifact
          /\ s.phase \in {"turn", "exiting"}
      BY <1>4, <3>1 DEF Dispatches
    <3>3. d.phase = "minting" /\ UNCHANGED <<dir, shown, linked, registered>>
      BY <2>8 DEF Mint
    <3> HIDE DEF d, last
    <3> QED  BY <2>7, <3>1, <3>2, <3>3
  <2>9. CASE Exhausted(p)
    <3> DEFINE s == [d EXCEPT !.phase = "diffing", !.status = "failed"]
    <3>1. Become(p, s) /\ d.phase = "turn" /\ UNCHANGED <<dir, shown, linked, registered>>
      BY <2>9 DEF Exhausted
    <3>2. /\ s.wrote = d.wrote /\ s.run = d.run /\ s.artifact = d.artifact /\ s.phase = "diffing"
      BY <1>4 DEF Dispatches
    <3> HIDE DEF s, d, last
    <3> QED  BY <2>7, <3>1, <3>2
  <2>10. CASE Turn(p)
    <3>1. d.phase = "turn" /\ UNCHANGED <<dir, shown, linked, registered>>
      BY <2>10 DEF Turn
    <3>2. PICK s : /\ Become(p, s) /\ s.wrote = d.wrote /\ s.run = d.run /\ s.artifact = d.artifact
                   /\ s.phase \in {"calling", "diffing", "exiting"}
      <4>1. CASE \E usd \in TurnCosts, n \in 1 .. MaxPerTurn :
              Become(p, [[d EXCEPT !.usd = @ + usd] EXCEPT !.phase = "calling", !.pending = n])
        <5>1. PICK usd \in TurnCosts, n \in 1 .. MaxPerTurn :
                Become(p, [[d EXCEPT !.usd = @ + usd] EXCEPT !.phase = "calling", !.pending = n])
          BY <4>1
        <5> DEFINE s == [[d EXCEPT !.usd = @ + usd] EXCEPT !.phase = "calling", !.pending = n]
        <5>2. /\ s.wrote = d.wrote /\ s.run = d.run /\ s.artifact = d.artifact
              /\ s.phase \in {"calling", "diffing", "exiting"}
          BY <1>4 DEF Dispatches
        <5> QED  BY <5>1, <5>2
      <4>2. CASE \E usd \in TurnCosts, text \in {"plain", "long", "refusal"} :
              Become(p, [[d EXCEPT !.usd = @ + usd] EXCEPT !.phase = "diffing", !.text = text])
        <5>1. PICK usd \in TurnCosts, text \in {"plain", "long", "refusal"} :
                Become(p, [[d EXCEPT !.usd = @ + usd] EXCEPT !.phase = "diffing", !.text = text])
          BY <4>2
        <5> DEFINE s == [[d EXCEPT !.usd = @ + usd] EXCEPT !.phase = "diffing", !.text = text]
        <5>2. /\ s.wrote = d.wrote /\ s.run = d.run /\ s.artifact = d.artifact
              /\ s.phase \in {"calling", "diffing", "exiting"}
          BY <1>4 DEF Dispatches
        <5> QED  BY <5>1, <5>2
      <4>3. CASE Become(p, [d EXCEPT !.phase = "exiting", !.status = "failed"])
        <5>1. Become(p, [d EXCEPT !.phase = "exiting", !.status = "failed"])
          BY <4>3
        <5> DEFINE s == [d EXCEPT !.phase = "exiting", !.status = "failed"]
        <5>2. /\ s.wrote = d.wrote /\ s.run = d.run /\ s.artifact = d.artifact
              /\ s.phase \in {"calling", "diffing", "exiting"}
          BY <1>4 DEF Dispatches
        <5> QED  BY <5>1, <5>2
      <4> QED  BY <2>10, <4>1, <4>2, <4>3 DEF Turn
    <3> HIDE DEF d, last
    <3> QED  BY <2>7, <3>1, <3>2
  <2>11. CASE Call(p)
    <3>1. PICK s : Become(p, s) /\ Counts(d, s) /\ Effect(p, d, s)
      BY <1>4, <2>11, CallFacts
    <3>2. UNCHANGED <<linked, registered>> /\ d.phase = "calling"
      BY <1>4, <2>11, CallFacts
    <3>3. /\ s.run = d.run /\ s.artifact = d.artifact /\ s.phase \in {"turn", "calling", "exiting"}
      BY <3>1 DEF Counts, AfterCall
    <3>4. shown = Changes(d) /\ linked /\ registered /\ d.artifact = None
      BY <2>2, <2>3, <3>2 DEF Follows
    <3> HIDE DEF d, last
    <3>5. CASE UNCHANGED <<dir, shown>> /\ s.wrote = d.wrote
      BY <2>7, <3>1, <3>2, <3>3, <3>5
    <3>6. CASE Writes(d.run) /\ s.wrote = (d.run \in shown')
      <4>1. shown' \in SUBSET {s.run}
        BY <3>3, <3>4, <3>6 DEF Writes, Changes
      <4>2. shown' = Changes(s)
        BY <3>3, <3>6, <4>1 DEF Changes
      <4> QED  BY <3>1, <3>2, <3>3, <3>4, <4>2 DEF Follows
    <3> QED  BY <3>1, <3>5, <3>6 DEF Effect
  <2>12. CASE Diff(p)
    <3>1. PICK s : /\ Become(p, s) /\ s.phase = "exiting" /\ s.run = d.run /\ s.wrote = d.wrote
                   /\ s.artifact \in {Staged, d.artifact}
      BY <1>4, <2>12, DiffFacts
    <3>2. d.phase = "diffing" /\ UNCHANGED <<dir, shown, linked, registered>>
      BY <1>4, <2>12, DiffFacts
    <3>3. shown = Changes(d) /\ linked /\ registered /\ d.artifact = None
      BY <2>2, <2>3, <3>2 DEF Follows
    <3> HIDE DEF d, last
    <3>4. Staged = Changes(s) /\ Changes(s) = Changes(d)
      BY <3>1, <3>3 DEF Staged, Changes
    <3> QED  BY <3>1, <3>2, <3>3, <3>4 DEF Follows
  <2>13. CASE Exit(p)
    <3> DEFINE s == [d EXCEPT !.phase = "over"]
    <3>1. /\ Become(p, s) /\ d.phase = "exiting" /\ dir' = None
          /\ registered' = (registered /\ ~linked)
      BY <2>13 DEF Exit, Goto, Removed
    <3>2. s.phase = "over" /\ s.wrote = d.wrote /\ s.run = d.run /\ s.artifact = d.artifact
      BY <1>4 DEF Dispatches
    <3> HIDE DEF s, d, last
    <3>3. linked /\ (d.artifact # None => d.artifact = Changes(d)) /\ Changes(s) = Changes(d)
      BY <2>2, <3>1, <3>2 DEF Follows, Changes
    <3> QED  BY <3>1, <3>2, <3>3 DEF Follows
  <2> QED
    BY <1>6, <2>5, <2>6, <2>8, <2>9, <2>10, <2>11, <2>12, <2>13 DEF Steps
<1> QED  BY <1>2, <1>3, <1>5, <1>6

-----------------------------------------------------------------------------
LEMMA InitInv ==
  ASSUME Init
  PROVE  IInv
<1>1. \A p \in Processes : proc[p] = Idle
  BY DEF Init
<1>2. /\ Idle.phase = "idle" /\ Idle.run = 0 /\ Idle.artifact = None /\ Idle.pending = 0
  BY DEF Idle
<1>3. TypeOK
  <2>1. Idle \in Dispatches
    <3>1. 0 \in 0 .. MaxPerTurn
      BY LaneAssumption
    <3> QED  BY <3>1 DEF Idle, Dispatches, Phases
  <2>2. proc \in [Processes -> Dispatches] /\ contractOf \in Seq(Contracts)
    BY <2>1, EmptySeq DEF Init
  <2>3. ~(0 > 0)
    OBVIOUS
  <2> QED  BY <1>1, <1>2, <2>2, <2>3 DEF Init, TypeOK
<1>4. RunsDiffer /\ CeilingsHold /\ ChangesAreGranted
  BY <1>1, <1>2 DEF Init, RunsDiffer, CeilingsHold, ChangesAreGranted
<1>5. Alone /\ \A p \in Processes : PathFollows(p)
  BY <1>1, <1>2 DEF Alone, PathFollows, Follows, Dispatching
<1> QED  BY <1>3, <1>4, <1>5 DEF IInv

LEMMA NextInv ==
  ASSUME IInv, [Next]_vars
  PROVE  IInv'
<1>1. TypeOK /\ RunsDiffer /\ ChangesAreGranted /\ CeilingsHold
  BY DEF IInv
<1>2. TypeOK' /\ RunsDiffer' /\ ChangesAreGranted' /\ CeilingsHold'
  BY <1>1, TypeNext, RunsNext, GrantedNext, CeilingsNext
<1>3. ~overlapped' => Alone' /\ \A p \in Processes : PathFollows(p)'
  BY PathNext
<1> QED  BY <1>2, <1>3 DEF IInv

(* However many processes, kills and runs: the path, the artifacts and the *)
(* ceilings are as the invariant says.                                     *)
THEOREM Invariant == Spec => []IInv
<1>1. Init => IInv
  BY InitInv
<1>2. IInv /\ [Next]_vars => IInv'
  BY NextInv
<1> QED  BY <1>1, <1>2, PTL DEF Spec

(* Every variable keeps its type, and calls are pending only within a turn.*)
THEOREM TypeCorrect == Spec => []TypeOK
<1>1. IInv => TypeOK
  BY DEF IInv
<1> QED  BY <1>1, Invariant, PTL

(* Worktree.__enter__ finds the path free, however the runs before ended:  *)
(* what a killed process left is swept by the rmtree and the prune.        *)
THEOREM PathIsReusable == Spec => []PathReusable
<1>1. IInv => PathReusable
  BY DEF IInv, PathFollows, Follows, PathReusable
<1> QED  BY <1>1, Invariant, PTL

(* Worktree.__exit__ leaves neither the directory nor git's registration.  *)
THEOREM WorktreesAreDisposable == Spec => []Disposable
<1>1. IInv => Disposable
  BY DEF IInv, PathFollows, Follows, Disposable
<1> QED  BY <1>1, Invariant, PTL

(* The diff of a dispatch holds its own worker's changes only, and has them*)
(* if, after the last one, git shows anything of them as staged.           *)
THEOREM ArtifactsAreOwn == Spec => []OwnArtifact
<1>1. IInv => OwnArtifact
  BY DEF IInv, PathFollows, Follows, Changes, OwnArtifact
<1> QED  BY <1>1, Invariant, PTL

(* Only who was granted writing or commands changes a worktree: the token  *)
(* bounds every call, even of workers that share the directory.            *)
THEOREM OnlyGrantedChange == Spec => []ChangesAreGranted
<1>1. IInv => ChangesAreGranted
  BY DEF IInv
<1> QED  BY <1>1, Invariant, PTL

(* The ceilings of the contract are overrun by less than a turn, for any   *)
(* ceilings, any number of calls in a turn and any costs.                  *)
THEOREM CeilingsAreKept == Spec => []CeilingsHold
<1>1. IInv => CeilingsHold
  BY DEF IInv
<1> QED  BY <1>1, Invariant, PTL

=============================================================================
