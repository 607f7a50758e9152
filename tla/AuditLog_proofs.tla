--------------------------- MODULE AuditLog_proofs ---------------------------
(***************************************************************************)
(* The audit log of a task verifies, and never mixes two runs, however     *)
(* many processes write it: proofs for any set of writers.                 *)
(***************************************************************************)
EXTENDS AuditLog, TLAPS

(* What a row, written or about to be, is chained to.                      *)
ChainsTo(r, table) ==
    \/ r.seq = 0 /\ r.hash = Link(GENESIS, r.body)
    \/ \E q \in table : q.seq = r.seq - 1 /\ r.hash = Link(q.hash, r.body)

(* A number that can be next, or is: it is 0 or its predecessor is written.*)
Follows(k, table) == k = 0 \/ \E q \in table : q.seq = k - 1

HasLast == rows = {} \/ \E l \in rows : \A q \in rows : q.seq <= l.seq

(* The number a live process writes next.                                  *)
Upcoming(w) == IF state[w] = "inserting" THEN pending[w].seq ELSE nextSeq[w]

PendingOK ==
    \A w \in Writers :
        state[w] = "inserting" =>
            /\ ChainsTo(pending[w], rows)
            /\ pending[w].by = w /\ pending[w].run = runs[w]
            /\ nextSeq[w] = pending[w].seq + 1

UpcomingOK == \A w \in Writers : state[w] # "down" => Follows(Upcoming(w), rows)

RunsCounted == \A r \in rows : r.run <= runs[r.by]

(* Nobody has written between what this run has written and its next row.  *)
NoneBetween ==
    \A w \in Writers : state[w] # "down" =>
        \A r, m \in rows :
            r.by = w /\ r.run = runs[w] /\ r.seq < m.seq /\ m.seq < Upcoming(w) => SameRun(r, m)

AInv ==
    /\ TypeOK /\ HasLast /\ Numbered(rows) /\ Chained(rows)
    /\ PendingOK /\ UpcomingOK /\ RunsCounted /\ NoneBetween /\ RunsNeverInterleave

-----------------------------------------------------------------------------
LEMMA HeadIsLast ==
  ASSUME NEW T, NEW l \in T, \A q \in T : q.seq \in Int /\ q.seq <= l.seq,
         \A q \in T : q.seq = l.seq => q = l
  PROVE  head(T) = [seq |-> l.seq, hash |-> l.hash]
<1> DEFINE last == CHOOSE r \in T : \A q \in T : q.seq <= r.seq
<1>1. last \in T /\ \A q \in T : q.seq <= last.seq
  OBVIOUS
<1>2. last.seq = l.seq
  BY <1>1
<1>3. last = l
  BY <1>1, <1>2
<1>4. T # {}
  OBVIOUS
<1> QED
  BY <1>3, <1>4 DEF head

(* head() of a well formed table: nothing, or its last row.                *)
LEMMA HeadOf ==
  ASSUME TypeOK, HasLast, Numbered(rows)
  PROVE  \/ rows = {} /\ head(rows) = [seq |-> -1, hash |-> GENESIS]
         \/ \E l \in rows : /\ head(rows) = [seq |-> l.seq, hash |-> l.hash]
                            /\ \A q \in rows : q.seq <= l.seq
<1>1. CASE rows = {}
  BY <1>1 DEF head
<1>2. CASE rows # {}
  <2>1. PICK l \in rows : \A q \in rows : q.seq <= l.seq
    BY <1>2 DEF HasLast
  <2>2. \A q \in rows : q.seq \in Int
    BY DEF TypeOK, Row
  <2>3. \A q \in rows : q.seq = l.seq => q = l
    BY <2>1 DEF Numbered
  <2>4. head(rows) = [seq |-> l.seq, hash |-> l.hash]
    BY <2>1, <2>2, <2>3, HeadIsLast
  <2> QED
    BY <2>1, <2>4
<1> QED
  BY <1>1, <1>2

(* The number after the head can be next, and a body linked to the head    *)
(* chains.                                                                 *)
LEMMA NextAfterHead ==
  ASSUME TypeOK, HasLast, Numbered(rows), NEW b \in Bodies
  PROVE  /\ head(rows).seq + 1 \in Nat
         /\ Follows(head(rows).seq + 1, rows)
         /\ Link(head(rows).hash, b) \in Seq(Bodies)
         /\ \/ head(rows).seq + 1 = 0 /\ Link(head(rows).hash, b) = Link(GENESIS, b)
            \/ \E q \in rows : /\ q.seq = (head(rows).seq + 1) - 1
                               /\ Link(head(rows).hash, b) = Link(q.hash, b)
<1>1. CASE rows = {} /\ head(rows) = [seq |-> -1, hash |-> GENESIS]
  <2>1. head(rows).seq = -1 /\ head(rows).hash = << >>
    BY <1>1 DEF GENESIS
  <2>2. << >> \in Seq(Bodies)
    OBVIOUS
  <2>3. Append(<< >>, b) \in Seq(Bodies)
    BY <2>2
  <2> QED
    BY <2>1, <2>3 DEF Follows, Link, GENESIS
<1>2. CASE \E l \in rows : head(rows) = [seq |-> l.seq, hash |-> l.hash]
  <2>1. PICK l \in rows : head(rows) = [seq |-> l.seq, hash |-> l.hash]
    BY <1>2
  <2>2. l.seq \in Nat /\ l.hash \in Seq(Bodies)
    BY DEF TypeOK, Row
  <2>3. head(rows).seq = l.seq /\ head(rows).hash = l.hash /\ l.seq = (l.seq + 1) - 1
    BY <2>1, <2>2
  <2>4. Append(l.hash, b) \in Seq(Bodies)
    BY <2>2
  <2> QED
    BY <2>2, <2>3, <2>4 DEF Follows, Link
<1> QED
  BY <1>1, <1>2, HeadOf

-----------------------------------------------------------------------------

LEMMA TypeStep == TypeOK /\ HasLast /\ Numbered(rows) /\ [Next]_vars => TypeOK'
<1> SUFFICES ASSUME TypeOK, HasLast, Numbered(rows), [Next]_vars PROVE TypeOK'
  OBVIOUS
<1>1. ASSUME NEW w \in Writers, Open(w) PROVE TypeOK'
  <2>1. head(rows).seq + 1 \in Nat
    <3>1. CASE rows = {} /\ head(rows) = [seq |-> -1, hash |-> GENESIS]
      BY <3>1
    <3>2. CASE \E l \in rows : head(rows) = [seq |-> l.seq, hash |-> l.hash]
      BY <3>2 DEF TypeOK, Row
    <3> QED
      BY <3>1, <3>2, HeadOf
  <2> QED
    BY <1>1, <2>1 DEF TypeOK, Open
<1>2. ASSUME NEW w \in Writers, NEW b \in Bodies, BeginAppend(w, b) PROVE TypeOK'
  <2> DEFINE p == [seq |-> nextSeq[w], body |-> b,
                   hash |-> Link(head(rows).hash, b), by |-> w, run |-> runs[w]]
  <2>1. p \in Row
    BY <1>2, NextAfterHead DEF TypeOK, Row
  <2>2. pending' = [pending EXCEPT ![w] = p]
    BY <1>2 DEF BeginAppend
  <2> HIDE DEF p
  <2> QED
    BY <1>2, <2>1, <2>2 DEF TypeOK, BeginAppend
<1>3. ASSUME NEW w \in Writers, RejectAppend(w) PROVE TypeOK'
  BY <1>3 DEF TypeOK, RejectAppend
<1>4. ASSUME NEW w \in Writers, Insert(w) PROVE TypeOK'
  BY <1>4 DEF TypeOK, Insert
<1>5. ASSUME NEW w \in Writers, Stop(w) PROVE TypeOK'
  BY <1>5 DEF TypeOK, Stop
<1>6. CASE UNCHANGED vars
  BY <1>6 DEF TypeOK, vars
<1> QED
  BY <1>1, <1>2, <1>3, <1>4, <1>5, <1>6 DEF Next

(* Steps that write nothing.                                               *)
LEMMA TableFrame ==
  ASSUME AInv, UNCHANGED rows
  PROVE  /\ HasLast' /\ Numbered(rows)' /\ Chained(rows)' /\ RunsNeverInterleave'
         /\ \A k : Follows(k, rows)' <=> Follows(k, rows)
  BY DEF AInv, HasLast, Numbered, Chained, RunsNeverInterleave, SameRun, Follows

LEMMA OpenStep ==
  ASSUME AInv, TypeOK', NEW w \in Writers, Open(w)
  PROVE  AInv'
<1>1. /\ UNCHANGED <<rows, pending>> /\ state[w] = "down" /\ state'[w] = "idle"
      /\ nextSeq'[w] = head(rows).seq + 1 /\ runs'[w] = runs[w] + 1
      /\ \A v \in Writers \ {w} : /\ state'[v] = state[v] /\ nextSeq'[v] = nextSeq[v]
                                  /\ runs'[v] = runs[v]
  BY DEF Open, AInv, TypeOK
<1>2. /\ HasLast' /\ Numbered(rows)' /\ Chained(rows)' /\ RunsNeverInterleave'
  BY <1>1, TableFrame
<1>3. PendingOK'
  BY <1>1 DEF AInv, PendingOK, ChainsTo
<1>4. Follows(head(rows).seq + 1, rows)
  <2>1. CASE rows = {} /\ head(rows) = [seq |-> -1, hash |-> GENESIS]
    BY <2>1 DEF Follows
  <2>2. CASE \E l \in rows : head(rows) = [seq |-> l.seq, hash |-> l.hash]
    <3>1. PICK l \in rows : head(rows) = [seq |-> l.seq, hash |-> l.hash]
      BY <2>2
    <3>2. l.seq \in Nat
      BY DEF AInv, TypeOK, Row
    <3> QED
      BY <3>1, <3>2 DEF Follows
  <2> QED
    BY <2>1, <2>2, HeadOf DEF AInv
<1>5. UpcomingOK'
  BY <1>1, <1>4 DEF AInv, UpcomingOK, Upcoming, Follows
<1>6. \A v \in Writers : runs[v] \in Nat
  BY DEF AInv, TypeOK
<1>7. \A r \in rows : r.by \in Writers /\ r.run \in Nat
  BY DEF AInv, TypeOK, Row
<1>8. RunsCounted'
  BY <1>1, <1>6, <1>7 DEF AInv, RunsCounted
<1>9. NoneBetween'
  <2> SUFFICES ASSUME NEW v \in Writers, state'[v] # "down", NEW r \in rows, NEW m \in rows,
                      r.by = v, r.run = runs'[v], r.seq < m.seq, m.seq < Upcoming(v)'
               PROVE  SameRun(r, m)
    BY <1>1 DEF NoneBetween, SameRun
  <2>1. CASE v = w
    BY <1>1, <1>6, <1>7, <2>1 DEF AInv, RunsCounted
  <2>2. CASE v # w
    BY <1>1, <2>2 DEF AInv, NoneBetween, Upcoming
  <2> QED
    BY <2>1, <2>2
<1> QED
  BY <1>2, <1>3, <1>5, <1>8, <1>9 DEF AInv

LEMMA BeginAppendStep ==
  ASSUME AInv, TypeOK', NEW w \in Writers, NEW b \in Bodies, BeginAppend(w, b)
  PROVE  AInv'
<1>1. /\ UNCHANGED <<rows, runs>> /\ state[w] = "idle" /\ state'[w] = "inserting"
      /\ nextSeq'[w] = nextSeq[w] + 1 /\ nextSeq[w] = head(rows).seq + 1
      /\ pending'[w].seq = nextSeq[w] /\ pending'[w].body = b
      /\ pending'[w].hash = Link(head(rows).hash, b)
      /\ pending'[w].by = w /\ pending'[w].run = runs[w]
      /\ \A v \in Writers \ {w} : /\ state'[v] = state[v] /\ nextSeq'[v] = nextSeq[v]
                                  /\ pending'[v] = pending[v]
  BY DEF BeginAppend, AInv, TypeOK
<1>2. /\ HasLast' /\ Numbered(rows)' /\ Chained(rows)' /\ RunsNeverInterleave'
  BY <1>1, TableFrame
<1>3. ChainsTo(pending'[w], rows)
  BY <1>1, NextAfterHead DEF AInv, ChainsTo
<1>4. PendingOK'
  BY <1>1, <1>3 DEF AInv, PendingOK, ChainsTo
<1>5. Upcoming(w)' = Upcoming(w) /\ \A v \in Writers \ {w} : Upcoming(v)' = Upcoming(v)
  BY <1>1 DEF Upcoming
<1>6. UpcomingOK'
  BY <1>1, <1>5 DEF AInv, UpcomingOK, Follows
<1>7. RunsCounted'
  BY <1>1 DEF AInv, RunsCounted
<1>8. NoneBetween'
  BY <1>1, <1>5 DEF AInv, NoneBetween, SameRun
<1> QED
  BY <1>2, <1>4, <1>6, <1>7, <1>8 DEF AInv

(* A writer that stops, by itself or not.                                  *)
LEMMA StopStep ==
  ASSUME AInv, TypeOK', NEW w \in Writers, RejectAppend(w) \/ Stop(w)
  PROVE  AInv'
<1>1. /\ UNCHANGED <<rows, runs>> /\ state'[w] = "down"
      /\ \A v \in Writers \ {w} : /\ state'[v] = state[v] /\ nextSeq'[v] = nextSeq[v]
                                  /\ pending'[v] = pending[v]
  BY DEF RejectAppend, Stop, AInv, TypeOK
<1>2. /\ HasLast' /\ Numbered(rows)' /\ Chained(rows)' /\ RunsNeverInterleave'
  BY <1>1, TableFrame
<1>3. PendingOK'
  BY <1>1 DEF AInv, PendingOK, ChainsTo
<1>4. \A v \in Writers \ {w} : Upcoming(v)' = Upcoming(v)
  BY <1>1 DEF Upcoming
<1>5. UpcomingOK' /\ NoneBetween' /\ RunsCounted'
  BY <1>1, <1>4 DEF AInv, UpcomingOK, NoneBetween, RunsCounted, SameRun, Follows
<1> QED
  BY <1>2, <1>3, <1>5 DEF AInv

(* The row that is inserted becomes the last one.                          *)
LEMMA InsertedIsLast ==
  ASSUME AInv, NEW w \in Writers, Insert(w)
  PROVE  /\ pending[w] \in Row
         /\ \A q \in rows : q.seq < pending[w].seq
<1>1. pending[w] \in Row /\ rows \subseteq Row
  BY DEF AInv, TypeOK, Insert
<1>2. \A q \in rows : q.seq # pending[w].seq
  BY DEF Insert
<1>3. ASSUME NEW q \in rows, ~(q.seq < pending[w].seq) PROVE FALSE
  <2>1. pending[w].seq \in 0 .. q.seq
    BY <1>1, <1>3 DEF Row
  <2> QED
    BY <1>2, <2>1 DEF AInv, Numbered
<1> QED
  BY <1>1, <1>3

LEMMA InsertStep ==
  ASSUME AInv, TypeOK', NEW w \in Writers, Insert(w)
  PROVE  AInv'
<1>0. PICK p : p = pending[w]
  OBVIOUS
<1>1. /\ p \in Row /\ rows \subseteq Row /\ rows' = rows \cup {p}
      /\ p.by = w /\ p.run = runs[w] /\ nextSeq[w] = p.seq + 1 /\ ChainsTo(p, rows)
      /\ UNCHANGED <<nextSeq, runs>> /\ state[w] = "inserting" /\ state'[w] = "idle"
      /\ \A v \in Writers \ {w} : state'[v] = state[v] /\ pending'[v] = pending[v]
  BY <1>0, InsertedIsLast DEF Insert, AInv, TypeOK, PendingOK
<1>2. \A q \in rows : q.seq < p.seq
  BY <1>0, InsertedIsLast
<1>3. p.seq \in Nat /\ \A q \in rows : q.seq \in Nat
  BY <1>1 DEF Row
<1>4. HasLast'
  BY <1>1, <1>2, <1>3 DEF HasLast
<1>5. Numbered(rows)'
  <2>1. \A r, q \in rows' : r.seq = q.seq => r = q
    BY <1>1, <1>2, <1>3 DEF AInv, Numbered
  <2>2. ASSUME NEW r \in rows', NEW k \in 0 .. r.seq PROVE \E q \in rows' : q.seq = k
    <3>1. CASE r \in rows
      BY <1>1, <2>2, <3>1 DEF AInv, Numbered
    <3>2. CASE r = p /\ k = p.seq
      BY <1>1, <3>2
    <3>3. CASE r = p /\ k # p.seq
      <4>1. k \in 0 .. p.seq - 1 /\ p.seq # 0
        BY <1>3, <2>2, <3>3
      <4>2. PICK q \in rows : q.seq = p.seq - 1
        BY <1>1, <4>1 DEF ChainsTo
      <4> QED
        BY <1>1, <4>1, <4>2 DEF AInv, Numbered
    <3> QED
      BY <1>1, <3>1, <3>2, <3>3
  <2> QED
    BY <2>1, <2>2 DEF Numbered
<1>6. Chained(rows)'
  BY <1>1 DEF AInv, Chained, ChainsTo
<1>7. PendingOK'
  BY <1>1 DEF AInv, PendingOK, ChainsTo
<1>8. \A k : Follows(k, rows) => Follows(k, rows')
  BY <1>1 DEF Follows
<1>9. Upcoming(w)' = p.seq + 1 /\ \A v \in Writers \ {w} : Upcoming(v)' = Upcoming(v)
  BY <1>1 DEF Upcoming
<1>10. Follows(p.seq + 1, rows')
  <2>1. p.seq = (p.seq + 1) - 1 /\ p \in rows'
    BY <1>1, <1>3
  <2> QED
    BY <2>1 DEF Follows
<1>11. UpcomingOK'
  <2> SUFFICES ASSUME NEW v \in Writers, state'[v] # "down" PROVE Follows(Upcoming(v)', rows')
    BY DEF UpcomingOK, Follows
  <2>1. CASE v = w
    BY <1>9, <1>10, <2>1
  <2>2. CASE v # w
    BY <1>1, <1>8, <1>9, <2>2 DEF AInv, UpcomingOK
  <2> QED
    BY <2>1, <2>2
<1>12. RunsCounted'
  <2>1. p.run <= runs[w]
    BY <1>1 DEF AInv, TypeOK
  <2> QED
    BY <1>1, <2>1 DEF AInv, RunsCounted
(* No other live writer is past p: its predecessor would be in the table.  *)
<1>13. ASSUME NEW v \in Writers, state[v] # "down" PROVE ~(p.seq < Upcoming(v))
  <2>1. Upcoming(v) \in Nat
    BY DEF AInv, TypeOK, Upcoming, Row
  <2>2. Follows(Upcoming(v), rows)
    BY <1>13 DEF AInv, UpcomingOK
  <2> QED
    BY <1>2, <1>3, <2>1, <2>2 DEF Follows
<1>14. \A r \in rows : \A m \in rows :
         r.by = w /\ r.run = runs[w] /\ r.seq < m.seq => SameRun(r, m)
  <2> SUFFICES ASSUME NEW r \in rows, NEW m \in rows, r.by = w, r.run = runs[w],
                      r.seq < m.seq
               PROVE  SameRun(r, m)
    OBVIOUS
  <2>1. Upcoming(w) = p.seq /\ m.seq < p.seq /\ state[w] # "down"
    BY <1>0, <1>1, <1>2 DEF Upcoming
  <2> QED
    BY <2>1 DEF AInv, NoneBetween
<1>15. NoneBetween'
  <2> SUFFICES ASSUME NEW v \in Writers, state'[v] # "down", NEW r \in rows', NEW m \in rows',
                      r.by = v, r.run = runs[v], r.seq < m.seq, m.seq < Upcoming(v)'
               PROVE  SameRun(r, m)
    BY <1>1 DEF NoneBetween, SameRun
  <2>1. r \in rows
    BY <1>1, <1>2, <1>3
  <2>2. CASE m = p /\ v = w
    BY <1>1, <2>2 DEF SameRun
  <2>3. CASE m = p /\ v # w
    BY <1>1, <1>9, <1>13, <2>3
  <2>4. CASE m \in rows /\ v = w
    BY <1>14, <2>1, <2>4
  <2>5. CASE m \in rows /\ v # w
    BY <1>1, <1>9, <2>1, <2>5 DEF AInv, NoneBetween
  <2> QED
    BY <1>1, <2>2, <2>3, <2>4, <2>5
<1>16. RunsNeverInterleave'
  <2> SUFFICES ASSUME NEW r \in rows', NEW q \in rows', NEW m \in rows',
                      SameRun(r, q), r.seq < m.seq, m.seq < q.seq
               PROVE  SameRun(r, m)
    BY DEF RunsNeverInterleave, SameRun
  <2>1. r \in rows /\ m \in rows
    BY <1>1, <1>2, <1>3
  <2>2. CASE q = p
    BY <1>1, <1>14, <2>1, <2>2 DEF SameRun
  <2>3. CASE q \in rows
    BY <2>1, <2>3 DEF AInv, RunsNeverInterleave
  <2> QED
    BY <1>1, <2>2, <2>3
<1> QED
  BY <1>4, <1>5, <1>6, <1>7, <1>11, <1>12, <1>15, <1>16 DEF AInv

-----------------------------------------------------------------------------
LEMMA AInvInit == Init => AInv
<1> SUFFICES ASSUME Init PROVE AInv
  OBVIOUS
<1>1. TypeOK
  BY DEF Init, TypeOK
<1> QED
  BY <1>1 DEF Init, AInv, HasLast, Numbered, Chained, PendingOK, UpcomingOK, RunsCounted,
              NoneBetween, RunsNeverInterleave

LEMMA AInvNext == AInv /\ [Next]_vars => AInv'
<1> SUFFICES ASSUME AInv, [Next]_vars PROVE AInv'
  OBVIOUS
<1>1. TypeOK'
  BY TypeStep DEF AInv
<1>2. CASE UNCHANGED vars
  <2>1. UNCHANGED <<rows, state, nextSeq, pending, runs>>
    BY <1>2 DEF vars
  <2> QED
    BY <1>1, <2>1, TableFrame
       DEF AInv, PendingOK, ChainsTo, UpcomingOK, Upcoming, Follows, RunsCounted, NoneBetween,
           SameRun
<1> QED
  BY <1>1, <1>2, OpenStep, BeginAppendStep, StopStep, InsertStep DEF Next

THEOREM Invariant == Spec => []AInv
  BY AInvInit, AInvNext, PTL DEF Spec

(* The log and its writers are well typed.                                 *)
THEOREM TypeCorrect == Spec => []TypeOK
<1>1. AInv => TypeOK
  BY DEF AInv
<1> QED
  BY <1>1, Invariant, PTL

(* verify_chain accepts every log any number of processes can have written,*)
(* wherever they were killed.                                              *)
THEOREM ChainAlwaysVerifies == Spec => []ChainVerifies
<1>1. AInv => ChainVerifies
  BY DEF AInv, ChainVerifies
<1> QED
  BY <1>1, Invariant, PTL

(* A task's log reads as one run after another.                            *)
THEOREM RunsAreSegments == Spec => []RunsNeverInterleave
<1>1. AInv => RunsNeverInterleave
  BY DEF AInv
<1> QED
  BY <1>1, Invariant, PTL

LEMMA RowsOnlyByInsert ==
  ASSUME [Next]_vars
  PROVE  UNCHANGED rows \/ \E w \in Writers : Insert(w)
  BY DEF Next, vars, Open, BeginAppend, RejectAppend, Stop

(* No step of any process changes or removes a row, and rows are added at  *)
(* the end.                                                                *)
THEOREM OnlyAppends == Spec => AppendOnly
<1>1. AInv /\ [Next]_vars =>
        [rows \subseteq rows' /\ \A r \in rows' \ rows : \A q \in rows : q.seq < r.seq]_rows
  <2> SUFFICES ASSUME AInv, NEW w \in Writers, Insert(w)
               PROVE  /\ rows \subseteq rows'
                      /\ \A r \in rows' \ rows : \A q \in rows : q.seq < r.seq
    BY RowsOnlyByInsert
  <2> QED
    BY InsertedIsLast DEF Insert
<1> QED
  BY <1>1, Invariant, PTL DEF Spec, AppendOnly

(* Two processes racing on the table still write one history: each insert  *)
(* records one body after everything the head's hash stands for.           *)
THEOREM Refinement == Spec => ImplementsHistory
<1>1. Init => History!Init
  BY DEF Init, History!Init, head, GENESIS
<1>2. AInv /\ AInv' /\ [Next]_vars => [History!Next]_(head(rows).hash)
  <2> SUFFICES ASSUME AInv, AInv', NEW w \in Writers, Insert(w)
               PROVE  \E b \in Bodies : head(rows').hash = Append(head(rows).hash, b)
    <3>1. UNCHANGED rows => UNCHANGED head(rows).hash
      OBVIOUS
    <3> QED
      BY <3>1, RowsOnlyByInsert DEF History!Next, History!Record
  <2>1. PICK p : p = pending[w]
    OBVIOUS
  <2>2. p \in Row /\ rows' = rows \cup {p} /\ ChainsTo(p, rows) /\ rows \subseteq Row
    BY <2>1, InsertedIsLast DEF Insert, AInv, TypeOK, PendingOK
  <2>3. \A q \in rows : q.seq < p.seq
    BY <2>1, InsertedIsLast
  <2>4. p.seq \in Nat /\ p.body \in Bodies /\ \A q \in rows : q.seq \in Nat
    BY <2>2 DEF Row
  <2>5. head(rows') = [seq |-> p.seq, hash |-> p.hash]
    <3>1. \A q \in rows' : q.seq \in Int /\ q.seq <= p.seq
      BY <2>2, <2>3, <2>4
    <3>2. \A q \in rows' : q.seq = p.seq => q = p
      BY <2>2, <2>3, <2>4
    <3>3. p \in rows'
      BY <2>2
    <3> QED
      BY <3>1, <3>2, <3>3, HeadIsLast
  <2>6. p.hash = Append(head(rows).hash, p.body)
    <3>1. CASE rows = {} /\ head(rows) = [seq |-> -1, hash |-> GENESIS]
      BY <2>2, <3>1 DEF ChainsTo, Link
    <3>2. CASE rows # {}
      <4>1. PICK l \in rows : /\ head(rows) = [seq |-> l.seq, hash |-> l.hash]
                              /\ \A q \in rows : q.seq <= l.seq
        BY <3>2, HeadOf DEF AInv
      <4>2. p.seq # 0
        BY <2>3, <2>4, <4>1
      <4>3. PICK q \in rows : q.seq = p.seq - 1 /\ p.hash = Link(q.hash, p.body)
        BY <2>2, <4>2 DEF ChainsTo
      <4>4. q.seq = l.seq
        BY <2>3, <2>4, <4>1, <4>3
      <4>5. q = l
        BY <4>4 DEF AInv, Numbered
      <4> QED
        BY <4>1, <4>3, <4>5 DEF Link
    <3> QED
      BY <3>1, <3>2, HeadOf DEF AInv
  <2> QED
    BY <2>4, <2>5, <2>6
<1> QED
  BY <1>1, <1>2, Invariant, PTL DEF Spec, ImplementsHistory, History!Spec
=============================================================================
