---------------------------- MODULE Parts_proofs ----------------------------
(***************************************************************************)
(* The parts of the runtime: proofs about the bus, and after them about    *)
(* the meters, for any number of events, processes and runs, any limits    *)
(* and any amounts.                                                        *)
(***************************************************************************)
EXTENDS Bus, Meters, SequenceTheorems, TLAPS

LEMMA PriorityIsNat == \A t \in EventType : PRIORITY[t] \in Nat
  BY DEF PRIORITY, EventType

LEMMA NothingYet == << >> \in Seq(EventType) /\ << >> \in Seq(Queued) /\ << >> \in Seq(Nat)
  BY EmptySeq

LEMMA TypeInit == Init => TypeOK
<1> SUFFICES ASSUME Init PROVE TypeOK
  OBVIOUS
<1>1. log \in Seq(EventType) /\ processed \in Seq(Queued) /\ born \in Seq(Nat)
  BY NothingYet DEF Init
<1>2. queue \subseteq Queued
  BY DEF Init
<1>3. mode \in Modes /\ halted \in BOOLEAN
  BY DEF Init, Modes
<1> QED
  BY <1>1, <1>2, <1>3 DEF Init, TypeOK

LEMMA TypeNext == TypeOK /\ [Next]_vars => TypeOK'
<1> SUFFICES ASSUME TypeOK, [Next]_vars PROVE TypeOK'
  OBVIOUS
<1> USE DEF TypeOK, Modes
<1>1. CASE Open
  <2>1. Len(log) \in Nat /\ UNCHANGED <<log, born>>
    BY <1>1 DEF Open, durable
  <2>2. runs' \in Nat /\ counter' \in Nat /\ n' \in Nat /\ nextSeq' \in Nat /\ base' \in Nat
    BY <1>1, <2>1 DEF Open
  <2>3. processed' \in Seq(Queued) /\ queue' \subseteq Queued
    BY <1>1, NothingYet DEF Open
  <2> QED
    BY <1>1, <2>1, <2>2, <2>3 DEF Open
<1>2. CASE RunStarts
  BY <1>2 DEF RunStarts
<1>3. CASE Pop
  <2>1. PICK e \in queue : queue' = queue \ {e} /\ processed' = Append(processed, e)
    BY <1>3 DEF Pop
  <2>2. processed' \in Seq(Queued) /\ queue' \subseteq Queued
    BY <2>1
  <2> QED
    BY <1>3, <2>2 DEF Pop
<1>4. CASE HandlersReturn
  BY <1>4 DEF HandlersReturn
<1>5. CASE RunReturns
  BY <1>5 DEF RunReturns
<1>6. CASE RunRaises
  BY <1>6 DEF RunRaises
<1>7. ASSUME NEW t \in Emitted, Emit(t) PROVE TypeOK'
  <2>1. t \in EventType /\ PRIORITY[t] \in Nat
    BY BusAssumption, PriorityIsNat
  <2>2. [priority |-> PRIORITY[t], tiebreak |-> counter, seq |-> nextSeq, type |-> t] \in Queued
    BY <2>1 DEF Queued
  <2>3. queue' \subseteq Queued
    BY <1>7, <2>2 DEF Emit
  <2>4. Len(processed) \in Nat
    OBVIOUS
  <2>5. log' \in Seq(EventType) /\ born' \in Seq(Nat)
    BY <1>7, <2>1, <2>4 DEF Emit
  <2> QED
    BY <1>7, <2>3, <2>5 DEF Emit
<1>8. CASE Halt
  BY <1>8 DEF Halt
<1>9. CASE EmitRaises
  BY <1>9 DEF EmitRaises
<1>10. CASE HandlerRaises
  BY <1>10 DEF HandlerRaises
<1>11. CASE Crash
  BY <1>11, NothingYet DEF Crash
<1>12. CASE UNCHANGED vars
  BY <1>12 DEF vars
<1> QED
  BY <1>1, <1>2, <1>3, <1>4, <1>5, <1>6, <1>7, <1>8, <1>9, <1>10, <1>11, <1>12 DEF Next

(* The state of the process is well typed, whatever the handlers emit.     *)
THEOREM TypeCorrect == Spec => []TypeOK
BY TypeInit, TypeNext, PTL DEF Spec

-----------------------------------------------------------------------------
(* The inductive invariant.  Carries: what each queued or handled event    *)
(* says of the log, and where it was numbered.                             *)
Carries(e) ==
    /\ e.seq \in Nat /\ base <= e.seq /\ e.seq < Len(log)
    /\ log[e.seq + 1] = e.type
    /\ e.priority = PRIORITY[e.type]
    /\ e.tiebreak = e.seq - base

Numbering ==
    /\ Len(born) = Len(log)
    /\ base <= Len(log)
    /\ Alive => nextSeq = Len(log) /\ counter = Len(log) - base

Held ==
    /\ \A e \in queue : Carries(e)
    /\ \A i \in DOMAIN processed : Carries(processed[i])

(* An event that is logged is in the queue or was handled.                 *)
NoneLost ==
    mode # "down" =>
        \A s \in base .. Len(log) - 1 :
            \/ \E e \in queue : e.seq = s
            \/ \E i \in DOMAIN processed : processed[i].seq = s

NoneTwice ==
    /\ \A e, f \in queue : e.seq = f.seq => e = f
    /\ \A i, j \in DOMAIN processed : processed[i].seq = processed[j].seq => i = j
    /\ \A e \in queue : \A i \in DOMAIN processed : processed[i].seq # e.seq

(* Why the order is kept: an event still queued that outranks a handled    *)
(* one was not there yet when that one was taken.                          *)
QueuedLate ==
    \A e \in queue : \A i \in DOMAIN processed :
        Outranks(e, processed[i]) => born[e.seq + 1] >= i

IInv == TypeOK /\ Numbering /\ Held /\ NoneLost /\ NoneTwice /\ QueuedLate /\ PriorityOrder

LEMMA IInvInit == Init => IInv
<1> SUFFICES ASSUME Init PROVE IInv
  OBVIOUS
<1>1. TypeOK
  BY TypeInit
<1>2. DOMAIN processed = {} /\ queue = {} /\ Len(log) = 0 /\ Len(born) = 0
  BY DEF Init
<1> QED
  BY <1>1, <1>2 DEF Init, IInv, Numbering, Alive, Held, NoneLost, NoneTwice, QueuedLate,
                    PriorityOrder

(* Steps that touch neither the log nor what is queued or handled.         *)
LEMMA IInvFrame ==
  ASSUME IInv, TypeOK', UNCHANGED <<log, queue, processed, base, born>>,
         mode' # "down" => mode # "down",
         Alive' => Alive /\ UNCHANGED <<nextSeq, counter>>
  PROVE  IInv'
<1>1. Numbering'
  BY DEF IInv, Numbering
<1>2. Held'
  BY DEF IInv, Held, Carries
<1>3. NoneLost'
  BY DEF IInv, NoneLost
<1>4. NoneTwice'
  BY DEF IInv, NoneTwice
<1>5. QueuedLate' /\ PriorityOrder'
  BY DEF IInv, QueuedLate, PriorityOrder, Outranks
<1> QED
  BY <1>1, <1>2, <1>3, <1>4, <1>5 DEF IInv

(* A new or an ended process holds nothing.                                *)
LEMMA IInvEmpty ==
  ASSUME IInv, TypeOK', UNCHANGED <<log, born>>, queue' = {}, processed' = << >>,
         base' \in Nat, base' <= Len(log'),
         mode' = "down" \/ base' = Len(log'),
         Alive' => nextSeq' = Len(log) /\ counter' = 0 /\ base' = Len(log)
  PROVE  IInv'
<1>1. DOMAIN processed' = {}
  OBVIOUS
<1>2. Numbering'
  BY DEF IInv, Numbering, TypeOK
<1>3. Held' /\ NoneTwice' /\ QueuedLate' /\ PriorityOrder'
  BY <1>1 DEF Held, NoneTwice, QueuedLate, PriorityOrder
<1>4. NoneLost'
  BY DEF IInv, NoneLost, TypeOK
<1> QED
  BY <1>2, <1>3, <1>4 DEF IInv

LEMMA IInvEmit ==
  ASSUME NEW t \in Emitted, IInv, TypeOK', Emit(t)
  PROVE  IInv'
<1>0. PICK x : x = [priority |-> PRIORITY[t], tiebreak |-> counter, seq |-> nextSeq, type |-> t]
  OBVIOUS
<1>1. /\ log \in Seq(EventType) /\ born \in Seq(Nat) /\ processed \in Seq(Queued)
      /\ queue \subseteq Queued /\ base \in Nat
      /\ nextSeq = Len(log) /\ counter = Len(log) - base /\ base <= Len(log)
      /\ Len(born) = Len(log)
  BY DEF IInv, TypeOK, Numbering, Emit, Alive
<1>2. /\ log' = Append(log, t) /\ born' = Append(born, Len(processed))
      /\ queue' = queue \cup {x} /\ UNCHANGED <<mode, processed, base>>
      /\ nextSeq' = nextSeq + 1 /\ counter' = counter + 1 /\ mode # "down"
  BY <1>0 DEF Emit
<1>3. Len(log') = Len(log) + 1 /\ Len(born') = Len(born) + 1
  BY <1>1, <1>2
<1>4. \A k \in 1 .. Len(log) : log'[k] = log[k] /\ born'[k] = born[k]
  BY <1>1, <1>2
<1>5. log'[Len(log) + 1] = t /\ born'[Len(log) + 1] = Len(processed)
  BY <1>1, <1>2
<1>6. Numbering'
  BY <1>1, <1>2, <1>3 DEF Numbering
<1>7. ASSUME NEW e, Carries(e) PROVE Carries(e)' /\ e.seq < Len(log) /\ born'[e.seq + 1] = born[e.seq + 1]
  <2>1. e.seq \in Nat /\ e.seq < Len(log) /\ e.seq + 1 \in 1 .. Len(log)
    BY <1>1, <1>7 DEF Carries
  <2>2. log'[e.seq + 1] = log[e.seq + 1] /\ born'[e.seq + 1] = born[e.seq + 1]
    BY <1>4, <2>1
  <2> QED
    BY <1>1, <1>2, <1>3, <1>7, <2>1, <2>2 DEF Carries
<1>8. Carries(x)'
  <2>1. Len(log) \in Nat /\ x.seq = Len(log) /\ x.type = t /\ x.priority = PRIORITY[t]
        /\ x.tiebreak = Len(log) - base
    BY <1>0, <1>1
  <2>2. log'[x.seq + 1] = t
    BY <1>5, <2>1
  <2>3. base' = base /\ Len(log') = Len(log) + 1 /\ base <= Len(log) /\ base \in Nat
    BY <1>1, <1>2, <1>3
  <2> QED
    BY <2>1, <2>2, <2>3 DEF Carries
<1>9. Held'
  <2>1. \A e \in queue : Carries(e)'
    BY <1>7 DEF IInv, Held
  <2>2. \A i \in DOMAIN processed : Carries(processed[i])'
    BY <1>2, <1>7 DEF IInv, Held
  <2>3. processed' = processed /\ queue' = queue \cup {x}
    BY <1>2
  <2> QED
    BY <1>8, <2>1, <2>2, <2>3 DEF Held, Carries
<1>10. NoneLost'
  <2> SUFFICES ASSUME NEW s \in base .. Len(log)
               PROVE \/ \E e \in queue' : e.seq = s
                     \/ \E i \in DOMAIN processed : processed[i].seq = s
    BY <1>1, <1>2, <1>3 DEF NoneLost
  <2>1. CASE s = Len(log)
    <3>1. x \in queue' /\ x.seq = s
      BY <1>0, <1>1, <1>2, <2>1
    <3> QED
      BY <3>1
  <2>2. CASE s # Len(log)
    <3>1. s \in base .. Len(log) - 1
      BY <1>1, <2>2
    <3> QED
      BY <1>2, <3>1 DEF IInv, NoneLost
  <2> QED
    BY <2>1, <2>2
<1>11. x.seq = Len(log) /\ \A e \in queue : e.seq # x.seq
  BY <1>0, <1>1 DEF IInv, Held, Carries
<1>12. \A i \in DOMAIN processed : processed[i].seq # x.seq
  BY <1>0, <1>1 DEF IInv, Held, Carries
<1>13. NoneTwice'
  BY <1>2, <1>11, <1>12 DEF IInv, NoneTwice
<1>14. QueuedLate'
  <2> SUFFICES ASSUME NEW e \in queue', NEW i \in DOMAIN processed, Outranks(e, processed[i])
               PROVE born'[e.seq + 1] >= i
    BY <1>2 DEF QueuedLate, Outranks
  <2>1. CASE e \in queue
    BY <1>7, <2>1 DEF IInv, Held, QueuedLate
  <2>2. CASE e = x
    <3>1. i <= Len(processed)
      BY <1>1
    <3>2. born'[x.seq + 1] = Len(processed)
      BY <1>0, <1>1, <1>5
    <3> QED
      BY <1>1, <2>2, <3>1, <3>2
  <2> QED
    BY <1>2, <2>1, <2>2
<1>15. PriorityOrder'
  BY <1>2, <1>7 DEF IInv, Held, PriorityOrder, Outranks
<1> QED
  BY <1>6, <1>9, <1>10, <1>13, <1>14, <1>15 DEF IInv

LEMMA IInvPop ==
  ASSUME IInv, TypeOK', Pop
  PROVE  IInv'
<1>1. PICK e \in queue :
        /\ \A f \in queue \ {e} : Before(e, f)
        /\ queue' = queue \ {e}
        /\ processed' = Append(processed, e)
  BY DEF Pop
<1>2. UNCHANGED <<log, born, base, nextSeq, counter>> /\ mode' = "handling" /\ mode = "running"
  BY DEF Pop
<1>3. log \in Seq(EventType) /\ processed \in Seq(Queued) /\ queue \subseteq Queued
      /\ base \in Nat /\ born \in Seq(Nat)
  BY DEF IInv, TypeOK
<1> DEFINE k == Len(processed) + 1
<1>4. k \in Nat /\ DOMAIN processed = 1 .. k - 1 /\ DOMAIN processed' = 1 .. k
      /\ k \notin DOMAIN processed /\ DOMAIN processed' = DOMAIN processed \cup {k}
  BY <1>1, <1>3
<1>5. processed'[k] = e /\ \A i \in DOMAIN processed : processed'[i] = processed[i]
  BY <1>1, <1>3
<1>6. Numbering'
  BY <1>2 DEF IInv, Numbering, Alive
<1>7. Held'
  BY <1>1, <1>2, <1>4, <1>5 DEF IInv, Held, Carries
<1>8. NoneLost'
  <2> SUFFICES ASSUME NEW s \in base .. Len(log) - 1
               PROVE \/ \E f \in queue' : f.seq = s
                     \/ \E i \in DOMAIN processed' : processed'[i].seq = s
    BY <1>2 DEF NoneLost
  <2>1. CASE \E f \in queue : f.seq = s
    BY <1>1, <1>4, <1>5, <2>1
  <2>2. CASE \E i \in DOMAIN processed : processed[i].seq = s
    BY <1>4, <1>5, <2>2
  <2> QED
    BY <1>2, <2>1, <2>2 DEF IInv, NoneLost
<1>9. NoneTwice'
  <2>1. \A f, g \in queue' : f.seq = g.seq => f = g
    BY <1>1 DEF IInv, NoneTwice
  <2>2. \A i, j \in DOMAIN processed' : processed'[i].seq = processed'[j].seq => i = j
    BY <1>4, <1>5 DEF IInv, NoneTwice
  <2>3. \A f \in queue' : \A i \in DOMAIN processed' : processed'[i].seq # f.seq
    <3> SUFFICES ASSUME NEW f \in queue', NEW i \in DOMAIN processed'
                 PROVE  processed'[i].seq # f.seq
      OBVIOUS
    <3>1. CASE i = k
      BY <1>1, <1>5, <3>1 DEF IInv, NoneTwice
    <3>2. CASE i \in DOMAIN processed
      BY <1>1, <1>5, <3>2 DEF IInv, NoneTwice
    <3> QED
      BY <1>4, <3>1, <3>2
  <2> QED
    BY <2>1, <2>2, <2>3 DEF NoneTwice
<1>10. \A f \in queue' : ~Outranks(f, e)
  <2> SUFFICES ASSUME NEW f \in queue' PROVE ~Outranks(f, e)
    OBVIOUS
  <2>1. Carries(e) /\ Carries(f) /\ Before(e, f) /\ e \in Queued /\ f \in Queued
    BY <1>1, <1>3 DEF IInv, Held
  <2> QED
    BY <1>3, <2>1 DEF Outranks, Before, Carries, Queued
<1>11. QueuedLate'
  <2> SUFFICES ASSUME NEW f \in queue', NEW i \in DOMAIN processed', Outranks(f, processed'[i])
               PROVE  born[f.seq + 1] >= i
    BY <1>2 DEF QueuedLate, Outranks
  <2>1. i \in DOMAIN processed
    BY <1>4, <1>5, <1>10
  <2> QED
    BY <1>1, <1>5, <2>1 DEF IInv, QueuedLate
<1>12. PriorityOrder'
  <2> SUFFICES ASSUME NEW i \in DOMAIN processed', NEW j \in DOMAIN processed', i < j,
                      Outranks(processed'[j], processed'[i])
               PROVE  born[processed'[j].seq + 1] >= i
    BY <1>2 DEF PriorityOrder, Outranks
  <2>1. i \in DOMAIN processed
    BY <1>4
  <2>2. CASE j = k
    BY <1>1, <1>5, <2>1, <2>2 DEF IInv, QueuedLate
  <2>3. CASE j \in DOMAIN processed
    BY <1>5, <2>1, <2>3 DEF IInv, PriorityOrder
  <2> QED
    BY <1>4, <2>2, <2>3
<1> QED
  BY <1>6, <1>7, <1>8, <1>9, <1>11, <1>12 DEF IInv

LEMMA IInvNext == IInv /\ TypeOK' /\ [Next]_vars => IInv'
<1> SUFFICES ASSUME IInv, TypeOK', [Next]_vars PROVE IInv'
  OBVIOUS
<1>1. CASE Open
  <2>1. base' \in Nat
    BY DEF TypeOK
  <2> QED
    BY <1>1, <2>1, IInvEmpty DEF Open, durable, IInv, TypeOK
<1>2. CASE RunStarts
  BY <1>2, IInvFrame DEF RunStarts, Alive
<1>3. CASE Pop
  BY <1>3, IInvPop
<1>4. CASE HandlersReturn
  BY <1>4, IInvFrame DEF HandlersReturn, Alive
<1>5. CASE RunReturns
  BY <1>5, IInvFrame DEF RunReturns, Alive
<1>6. CASE RunRaises
  BY <1>6, IInvFrame DEF RunRaises, Alive
<1>7. ASSUME NEW t \in Emitted, Emit(t) PROVE IInv'
  BY <1>7, IInvEmit
<1>8. CASE Halt
  BY <1>8, IInvFrame DEF Halt, Alive
<1>9. CASE EmitRaises
  BY <1>9, IInvFrame DEF EmitRaises, Alive
<1>10. CASE HandlerRaises
  BY <1>10, IInvFrame DEF HandlerRaises, Alive
<1>11. CASE Crash
  <2>1. base' \in Nat /\ base' <= Len(log')
    BY <1>11 DEF Crash, IInv, TypeOK, Numbering
  <2> QED
    BY <1>11, <2>1, IInvEmpty DEF Crash, Alive
<1>12. CASE UNCHANGED vars
  BY <1>12, IInvFrame DEF vars, Alive
<1> QED
  BY <1>1, <1>2, <1>3, <1>4, <1>5, <1>6, <1>7, <1>8, <1>9, <1>10, <1>11, <1>12 DEF Next

THEOREM Invariant == Spec => []IInv
  BY IInvInit, IInvNext, TypeCorrect, PTL DEF Spec

(* Ordering contract 1: no handler sees an event that is not in the audit  *)
(* log under its number.                                                   *)
THEOREM LogComesFirst == Spec => []LogFirst
<1>1. IInv => LogFirst
  BY DEF IInv, Held, Carries, LogFirst
<1> QED
  BY <1>1, Invariant, PTL

(* The heap loses no event and delivers none twice.                        *)
THEOREM ExactlyOnce == Spec => []NoneLostNoneTwice
<1>1. IInv => NoneLostNoneTwice
  BY DEF IInv, Alive, Held, Carries, NoneLost, NoneTwice, NoneLostNoneTwice
<1> QED
  BY <1>1, Invariant, PTL

(* Ordering contract 2: handling follows (priority, seq) order among the   *)
(* events that were there to choose from.                                  *)
THEOREM OrderKept == Spec => []PriorityOrder
<1>1. IInv => PriorityOrder
  BY DEF IInv
<1> QED
  BY <1>1, Invariant, PTL

-----------------------------------------------------------------------------
(* Each step of the bus is a step of the abstract queue, or no step of it. *)
Waiting == {e.seq + 1 : e \in queue}
Delivered == [i \in DOMAIN processed |-> processed[i].seq + 1]

LEMMA SameVocabulary == Queue!EventType = EventType /\ Queue!PRIORITY = PRIORITY
  BY DEF Queue!EventType, EventType, Queue!PRIORITY, PRIORITY

LEMMA EmitPublishes ==
  ASSUME NEW t \in Emitted, IInv, Emit(t)
  PROVE  Queue!Publish(t)
<1>1. log' = Append(log, t) /\ processed' = processed
  BY DEF Emit
<1>2. PICK x : x.seq = nextSeq /\ queue' = queue \cup {x}
  <2>1. [priority |-> PRIORITY[t], tiebreak |-> counter, seq |-> nextSeq, type |-> t].seq = nextSeq
    OBVIOUS
  <2> QED
    BY <2>1 DEF Emit
<1>3. nextSeq = Len(log)
  BY DEF IInv, Numbering, Emit, Alive
<1>4. Waiting' = Waiting \cup {Len(log) + 1}
  BY <1>2, <1>3 DEF Waiting
<1>5. Delivered' = Delivered
  BY <1>1 DEF Delivered
<1> QED
  BY <1>1, <1>4, <1>5 DEF Queue!Publish, Waiting, Delivered

LEMMA PopDelivers ==
  ASSUME IInv, Pop
  PROVE  \E i \in Waiting : Queue!Deliver(i)
<1>1. PICK e \in queue :
        /\ \A f \in queue \ {e} : Before(e, f)
        /\ queue' = queue \ {e}
        /\ processed' = Append(processed, e)
  BY DEF Pop
<1>2. log' = log
  BY DEF Pop
<1>3. processed \in Seq(Queued) /\ queue \subseteq Queued /\ base \in Nat /\ e \in Queued
  BY <1>1 DEF IInv, TypeOK
<1>4. \A f \in queue : Carries(f) /\ f.seq \in Nat
  BY DEF IInv, Held, Carries
<1>5. \A f \in queue \ {e} : Queue!MoreUrgent(e.seq + 1, f.seq + 1)
  <2> SUFFICES ASSUME NEW f \in queue \ {e} PROVE Queue!MoreUrgent(e.seq + 1, f.seq + 1)
    OBVIOUS
  <2>1. Carries(e) /\ Carries(f) /\ Before(e, f) /\ f \in Queued
    BY <1>1, <1>3, <1>4
  <2> QED
    BY <1>3, <2>1, SameVocabulary DEF Queue!MoreUrgent, Carries, Before, Queued
<1>6. Waiting' = Waiting \ {e.seq + 1}
  <2>1. \A f \in queue : f.seq + 1 = e.seq + 1 => f = e
    BY <1>1, <1>4 DEF IInv, NoneTwice
  <2> QED
    BY <1>1, <2>1 DEF Waiting
<1>7. e.seq + 1 \in Waiting
  BY <1>1 DEF Waiting
<1>8. \A j \in Waiting \ {e.seq + 1} : Queue!MoreUrgent(e.seq + 1, j)
  BY <1>1, <1>5 DEF Waiting
<1>9. Delivered' = Append(Delivered, e.seq + 1)
  <2> DEFINE k == Len(processed)
  <2>1. k \in Nat /\ DOMAIN processed = 1 .. k /\ DOMAIN processed' = 1 .. k + 1
        /\ processed'[k + 1] = e /\ \A i \in 1 .. k : processed'[i] = processed[i]
    BY <1>1, <1>3
  <2>2. Delivered = [i \in 1 .. k |-> processed[i].seq + 1]
    BY <2>1 DEF Delivered
  <2>3. \A i \in 1 .. k : processed[i].seq + 1 \in Nat
    <3>1. \A i \in 1 .. k : processed[i] \in Queued
      BY <1>3, <2>1
    <3> QED
      BY <3>1 DEF Queued
  <2>4. Delivered \in Seq(Nat) /\ Len(Delivered) = k
    BY <2>1, <2>2, <2>3
  <2>5. Append(Delivered, e.seq + 1) =
          [i \in 1 .. k + 1 |-> IF i <= k THEN Delivered[i] ELSE e.seq + 1]
    BY <2>1, <2>4
  <2>6. Delivered' = [i \in 1 .. k + 1 |-> processed'[i].seq + 1]
    BY <2>1 DEF Delivered
  <2>7. \A i \in 1 .. k + 1 : processed'[i].seq + 1 = IF i <= k THEN Delivered[i] ELSE e.seq + 1
    BY <2>1, <2>2
  <2> QED
    BY <2>5, <2>6, <2>7
<1> QED
  BY <1>2, <1>6, <1>7, <1>8, <1>9 DEF Queue!Deliver, Waiting, Delivered

(* The bus implements TaskQueue: whoever relies on the abstract queue may  *)
(* rely on the heap, the counter and the loop of bus.py.                   *)
THEOREM Refinement == Spec => ImplementsQueue
<1>1. Init => Queue!Init
  <2> SUFFICES ASSUME Init PROVE Queue!Init
    OBVIOUS
  <2>1. [i \in DOMAIN processed |-> processed[i].seq + 1] = << >>
    BY DEF Init
  <2>2. {e.seq + 1 : e \in queue} = {}
    BY DEF Init
  <2> QED
    BY <2>1, <2>2 DEF Init, Queue!Init
<1>2. IInv /\ IInv' /\ [Next]_vars
        => [Queue!Next]_<<log, Waiting, Delivered>>
  <2> SUFFICES ASSUME IInv, IInv', [Next]_vars
               PROVE  Queue!Next \/ UNCHANGED <<log, Waiting, Delivered>>
    OBVIOUS
  <2>1. CASE UNCHANGED <<log, queue, processed>>
    BY <2>1 DEF Waiting, Delivered
  <2>2. CASE UNCHANGED log /\ queue' = {} /\ processed' = << >>
    <3>1. Waiting' = {}
      BY <2>2 DEF Waiting
    <3>2. Delivered' = << >>
      BY <2>2 DEF Delivered
    <3> QED
      BY <2>2, <3>1, <3>2 DEF Queue!Next, Queue!Abandon, Waiting, Delivered
  <2>3. ASSUME NEW t \in Emitted, Emit(t) PROVE Queue!Next
    BY <2>3, EmitPublishes, BusAssumption, SameVocabulary DEF Queue!Next
  <2>4. CASE Pop
    BY <2>4, PopDelivers DEF Queue!Next, Waiting
  <2> QED
    BY <2>1, <2>2, <2>3, <2>4
       DEF Next, vars, Open, RunStarts, HandlersReturn, RunReturns, RunRaises, Halt,
           EmitRaises, HandlerRaises, Crash, durable
<1> QED
  BY <1>1, <1>2, Invariant, PTL DEF Spec, ImplementsQueue, Queue!Spec, Waiting, Delivered
-----------------------------------------------------------------------------
(* The meters.                                                             *)

(* A dispatch in flight has not yet overrun anything.                      *)
InFlightWithin == inFlight => \A m \in Guarded : spent[m] <= Limit[m]

MInv == MTypeOK /\ FiredIffReached /\ ToldOnceAscending /\ InFlightWithin /\ OverrunBounded

LEMMA NoticeType ==
  ASSUME NEW m \in Meter, NEW amount, NEW t \in THRESHOLDS
  PROVE  Notice(m, amount, t) \in Seq(Threshold)
<1>1. [meter |-> m, threshold |-> t] \in Threshold
  BY DEF Threshold
<1>2. << >> \in Seq(Threshold)
  BY EmptySeq
<1>3. <<[meter |-> m, threshold |-> t]>> \in Seq(Threshold)
  BY <1>1
<1> QED
  BY <1>2, <1>3 DEF Notice

LEMMA ReturnedType ==
  ASSUME NEW cost
  PROVE  Returned(cost) \in Seq(Threshold)
<1>1. ASSUME NEW m \in Meter, NEW amount PROVE Crossed(m, amount) \in Seq(Threshold)
  <2>1. Notice(m, amount, 60) \in Seq(Threshold) /\ Notice(m, amount, 85) \in Seq(Threshold)
        /\ Notice(m, amount, 100) \in Seq(Threshold)
    BY NoticeType DEF THRESHOLDS
  <2> QED
    BY <2>1 DEF Crossed
<1>2. /\ Crossed("tokens_usd", cost["tokens_usd"]) \in Seq(Threshold)
      /\ Crossed("quota_units", cost["quota_units"]) \in Seq(Threshold)
      /\ Crossed("wall_s", cost["wall_s"]) \in Seq(Threshold)
  BY <1>1 DEF Meter
<1> QED
  BY <1>2 DEF Returned

LEMMA ChargeType ==
  ASSUME MTypeOK, NEW cost \in [Meter -> Amounts], Charge(cost)
  PROVE  MTypeOK'
<1>1. cost \in [Meter -> Nat]
  BY MetersAssumption
<1>2. spent' \in [Meter -> Nat]
  BY <1>1 DEF MTypeOK, Charge
<1>3. fired' \in [Meter -> SUBSET THRESHOLDS]
  BY DEF MTypeOK, Charge, Crossings
<1>4. told' \in Seq(Threshold)
  BY ReturnedType DEF MTypeOK, Charge
<1> QED
  BY <1>2, <1>3, <1>4 DEF MTypeOK, Charge

LEMMA MetersTypeInit ==
  ASSUME MInit
  PROVE  MTypeOK
<1>1. told \in Seq(Threshold)
  BY EmptySeq DEF MInit
<1>2. spent \in [Meter -> Nat] /\ fired \in [Meter -> SUBSET THRESHOLDS]
  BY DEF MInit
<1>3. inFlight \in BOOLEAN
  BY DEF MInit
<1> QED
  BY <1>1, <1>2, <1>3 DEF MTypeOK

LEMMA MetersTypeNext ==
  ASSUME MTypeOK, [MNext]_metersVars
  PROVE  MTypeOK'
<1>1. ASSUME NEW usd \in Amounts, NEW quota \in Amounts, Preflight(usd, quota) PROVE MTypeOK'
  BY <1>1 DEF MTypeOK, Preflight
<1>2. ASSUME NEW cost \in [Meter -> Amounts], Charge(cost) PROVE MTypeOK'
  BY <1>2, ChargeType
<1>3. CASE Forgo
  BY <1>3 DEF MTypeOK, Forgo
<1>4. CASE UNCHANGED metersVars
  BY <1>4 DEF MTypeOK, metersVars
<1> QED
  BY <1>1, <1>2, <1>3, <1>4 DEF MNext

LEMMA FiredInit ==
  ASSUME MInit
  PROVE  FiredIffReached
<1> SUFFICES ASSUME NEW m \in Meter, NEW t \in THRESHOLDS
             PROVE  ~(Limit[m] > 0 /\ 100 * spent[m] >= t * Limit[m])
  BY DEF MInit, FiredIffReached
<1>1. spent[m] = 0 /\ Limit[m] \in Nat
  BY MetersAssumption DEF MInit
<1>2. t = 60 \/ t = 85 \/ t = 100
  BY DEF THRESHOLDS
<1> QED
  BY <1>1, <1>2

(* Charges are never negative, so a threshold once reached stays reached,  *)
(* and one that is skipped over by a large charge fires with those above.  *)
LEMMA FiredNext ==
  ASSUME MTypeOK, FiredIffReached, [MNext]_metersVars
  PROVE  FiredIffReached'
<1>1. CASE UNCHANGED <<spent, fired>>
  BY <1>1 DEF FiredIffReached
<1>2. ASSUME NEW cost \in [Meter -> Amounts], Charge(cost) PROVE FiredIffReached'
  <2> SUFFICES ASSUME NEW m \in Meter, NEW t \in THRESHOLDS
               PROVE  t \in fired'[m] <=> Limit[m] > 0 /\ 100 * spent'[m] >= t * Limit[m]
    BY DEF FiredIffReached
  <2>1. /\ fired'[m] = fired[m] \cup Crossings(m, cost[m])
        /\ spent'[m] = spent[m] + cost[m]
    BY <1>2 DEF Charge
  <2>2. /\ spent[m] \in Nat /\ cost[m] \in Nat
        /\ Limit[m] \in Nat /\ t * Limit[m] \in Int
    <3>1. spent[m] \in Nat /\ cost[m] \in Nat /\ Limit[m] \in Nat
      BY MetersAssumption DEF MTypeOK
    <3>2. t \in Int
      BY DEF THRESHOLDS
    <3> QED
      BY <3>1, <3>2
  <2>3. t \in fired[m] <=> Limit[m] > 0 /\ 100 * spent[m] >= t * Limit[m]
    BY DEF FiredIffReached
  <2>4. 100 * spent[m] >= t * Limit[m] => 100 * (spent[m] + cost[m]) >= t * Limit[m]
    BY <2>2
  <2> QED
    BY <2>1, <2>3, <2>4 DEF Crossings
<1> QED
  BY <1>1, <1>2 DEF MNext, metersVars, Preflight, Forgo

LEMMA WithinInit ==
  ASSUME MInit
  PROVE  InFlightWithin /\ OverrunBounded
<1> SUFFICES ASSUME NEW m \in Guarded PROVE spent[m] <= Limit[m]
  BY DEF MInit, InFlightWithin, OverrunBounded
<1> QED
  BY MetersAssumption DEF MInit, Guarded, Meter

(* Preflight is what bounds the loss: what is charged for the dispatch in  *)
(* flight is all that can overrun.                                         *)
LEMMA WithinNext ==
  ASSUME MTypeOK, InFlightWithin, OverrunBounded, [MNext]_metersVars
  PROVE  InFlightWithin' /\ OverrunBounded'
<1>0. \A m \in Guarded : m \in Meter /\ spent[m] \in Nat /\ Limit[m] \in Nat
  BY MetersAssumption DEF MTypeOK, Guarded, Meter
<1>1. ASSUME NEW usd \in Amounts, NEW quota \in Amounts, Preflight(usd, quota)
      PROVE  InFlightWithin' /\ OverrunBounded'
  <2>1. usd \in Nat /\ quota \in Nat
    BY MetersAssumption
  <2>2. \A m \in Guarded : spent'[m] <= Limit[m]
    BY <1>0, <1>1, <2>1 DEF Preflight, Affordable, WouldExceed, Guarded
  <2> QED
    BY <2>2 DEF InFlightWithin, OverrunBounded
<1>2. ASSUME NEW cost \in [Meter -> Amounts], Charge(cost)
      PROVE  InFlightWithin' /\ OverrunBounded'
  <2>1. ~inFlight' /\ inFlight
    BY <1>2 DEF Charge
  <2>2. ASSUME NEW m \in Guarded PROVE \E a \in Amounts : spent'[m] <= Limit[m] + a
    <3>1. cost[m] \in Amounts /\ cost[m] \in Nat /\ spent'[m] = spent[m] + cost[m]
      BY <1>0, <1>2, MetersAssumption DEF Charge
    <3>2. spent[m] <= Limit[m]
      BY <2>1 DEF InFlightWithin
    <3>3. spent'[m] <= Limit[m] + cost[m]
      BY <1>0, <3>1, <3>2
    <3> QED
      BY <3>1, <3>3
  <2> QED
    BY <2>1, <2>2 DEF InFlightWithin, OverrunBounded
<1>3. CASE Forgo
  BY <1>3 DEF Forgo, InFlightWithin, OverrunBounded
<1>4. CASE UNCHANGED metersVars
  BY <1>4 DEF metersVars, InFlightWithin, OverrunBounded
<1> QED
  BY <1>1, <1>2, <1>3, <1>4 DEF MNext

-----------------------------------------------------------------------------
(* What is in a sequence of threshold events, and the order they must have. *)
Elements(s) == {s[i] : i \in DOMAIN s}

Ascends(s) ==
    \A i, j \in DOMAIN s : i < j /\ s[i].meter = s[j].meter => s[i].threshold < s[j].threshold

(* Every event of s is below every event of u for the same meter.          *)
Below(s, u) ==
    \A e \in Elements(s), f \in Elements(u) : e.meter = f.meter => e.threshold < f.threshold

LEMMA JoinElements ==
  ASSUME NEW s \in Seq(Threshold), NEW u \in Seq(Threshold)
  PROVE  s \o u \in Seq(Threshold) /\ Elements(s \o u) = Elements(s) \cup Elements(u)
<1>1. /\ s \o u \in Seq(Threshold) /\ Len(s \o u) = Len(s) + Len(u)
      /\ \A i \in 1 .. Len(s) : (s \o u)[i] = s[i]
      /\ \A i \in 1 .. Len(u) : (s \o u)[Len(s) + i] = u[i]
  BY ConcatProperties
<1>2. /\ Len(s) \in Nat /\ Len(u) \in Nat /\ DOMAIN s = 1 .. Len(s) /\ DOMAIN u = 1 .. Len(u)
      /\ DOMAIN (s \o u) = 1 .. Len(s) + Len(u)
  BY <1>1, LenProperties
<1> DEFINE w == s \o u
<1> HIDE DEF w
<1>3. ASSUME NEW k \in DOMAIN w PROVE w[k] \in Elements(s) \cup Elements(u)
  <2>1. CASE k <= Len(s)
    BY <1>1, <1>2, <1>3, <2>1 DEF Elements, w
  <2>2. CASE k > Len(s)
    <3>1. k - Len(s) \in 1 .. Len(u) /\ k = Len(s) + (k - Len(s))
      BY <1>2, <1>3, <2>2 DEF w
    <3> QED  BY <1>1, <1>2, <3>1 DEF Elements, w
  <2> QED  BY <1>2, <1>3, <2>1, <2>2 DEF w
<1>4. ASSUME NEW i \in DOMAIN s PROVE s[i] \in Elements(w)
  BY <1>1, <1>2, <1>4 DEF Elements, w
<1>5. ASSUME NEW i \in DOMAIN u PROVE u[i] \in Elements(w)
  <2>1. Len(s) + i \in DOMAIN w /\ w[Len(s) + i] = u[i]
    BY <1>1, <1>2, <1>5 DEF w
  <2> QED  BY <2>1 DEF Elements
<1> QED  BY <1>1, <1>3, <1>4, <1>5 DEF Elements, w

LEMMA JoinAscends ==
  ASSUME NEW s \in Seq(Threshold), NEW u \in Seq(Threshold), Ascends(s), Ascends(u), Below(s, u)
  PROVE  Ascends(s \o u)
<1>1. /\ s \o u \in Seq(Threshold) /\ Len(s \o u) = Len(s) + Len(u)
      /\ \A i \in 1 .. Len(s) : (s \o u)[i] = s[i]
      /\ \A i \in 1 .. Len(u) : (s \o u)[Len(s) + i] = u[i]
  BY ConcatProperties
<1>2. /\ Len(s) \in Nat /\ Len(u) \in Nat /\ DOMAIN s = 1 .. Len(s) /\ DOMAIN u = 1 .. Len(u)
      /\ DOMAIN (s \o u) = 1 .. Len(s) + Len(u)
  BY <1>1, LenProperties
<1> DEFINE w == s \o u
<1> HIDE DEF w
<1>3. ASSUME NEW k \in DOMAIN w, k > Len(s)
      PROVE  k - Len(s) \in DOMAIN u /\ w[k] = u[k - Len(s)]
  <2>1. k - Len(s) \in 1 .. Len(u) /\ k = Len(s) + (k - Len(s))
    BY <1>2, <1>3 DEF w
  <2> QED  BY <1>1, <1>2, <2>1 DEF w
<1>4. SUFFICES ASSUME NEW i \in DOMAIN w, NEW j \in DOMAIN w, i < j, w[i].meter = w[j].meter
               PROVE  w[i].threshold < w[j].threshold
  BY DEF Ascends, w
<1>5. i \in Nat /\ j \in Nat
  BY <1>2 DEF w
<1>6. CASE j <= Len(s)
  <2>1. i \in DOMAIN s /\ j \in DOMAIN s /\ w[i] = s[i] /\ w[j] = s[j]
    BY <1>1, <1>2, <1>4, <1>5, <1>6 DEF w
  <2> QED  BY <1>4, <2>1 DEF Ascends
<1>7. CASE i <= Len(s) /\ j > Len(s)
  <2>1. i \in DOMAIN s /\ w[i] = s[i]
    BY <1>1, <1>2, <1>5, <1>7 DEF w
  <2>2. w[i] \in Elements(s) /\ w[j] \in Elements(u)
    BY <1>3, <1>7, <2>1 DEF Elements
  <2> QED  BY <1>4, <2>2 DEF Below
<1>8. CASE i > Len(s)
  <2>1. j > Len(s) /\ i - Len(s) < j - Len(s)
    BY <1>2, <1>4, <1>5, <1>8
  <2>2. /\ i - Len(s) \in DOMAIN u /\ w[i] = u[i - Len(s)]
        /\ j - Len(s) \in DOMAIN u /\ w[j] = u[j - Len(s)]
    BY <1>3, <1>8, <2>1
  <2> QED  BY <1>4, <2>1, <2>2 DEF Ascends
<1> QED  BY <1>2, <1>5, <1>6, <1>7, <1>8

LEMMA NoticeFacts ==
  ASSUME NEW m \in Meter, NEW amount, NEW t \in THRESHOLDS
  PROVE  /\ Notice(m, amount, t) \in Seq(Threshold) /\ Ascends(Notice(m, amount, t))
         /\ Elements(Notice(m, amount, t)) =
                IF t \in Crossings(m, amount) THEN {[meter |-> m, threshold |-> t]} ELSE {}
<1>1. Notice(m, amount, t) \in Seq(Threshold)
  BY NoticeType
<1> DEFINE e == [meter |-> m, threshold |-> t]
<1>2. /\ DOMAIN <<e>> = {1} /\ <<e>>[1] = e
      /\ DOMAIN << >> = {}
  OBVIOUS
<1> HIDE DEF e
<1>3. /\ Elements(<<e>>) = {e} /\ Elements(<< >>) = {}
      /\ Ascends(<<e>>) /\ Ascends(<< >>)
  BY <1>2 DEF Elements, Ascends
<1> QED  BY <1>1, <1>3 DEF Notice, e

(* The part of one meter: what it crosses, from 60 up.                     *)
LEMMA CrossedFacts ==
  ASSUME NEW m \in Meter, NEW amount
  PROVE  /\ Crossed(m, amount) \in Seq(Threshold) /\ Ascends(Crossed(m, amount))
         /\ Elements(Crossed(m, amount)) =
                {[meter |-> m, threshold |-> t] : t \in Crossings(m, amount)}
<1> DEFINE a == Notice(m, amount, 60)
           b == Notice(m, amount, 85)
           c == Notice(m, amount, 100)
           E(t) == IF t \in Crossings(m, amount) THEN {[meter |-> m, threshold |-> t]} ELSE {}
<1>1. /\ a \in Seq(Threshold) /\ Ascends(a) /\ Elements(a) = E(60)
      /\ b \in Seq(Threshold) /\ Ascends(b) /\ Elements(b) = E(85)
      /\ c \in Seq(Threshold) /\ Ascends(c) /\ Elements(c) = E(100)
  BY NoticeFacts DEF THRESHOLDS
<1>2. \A t : \A e \in E(t) : e.meter = m /\ e.threshold = t
  OBVIOUS
<1> HIDE DEF a, b, c
<1>3. Below(a, b) /\ Below(a, c) /\ Below(b, c)
  <2> HIDE DEF E
  <2>1. /\ \A e \in Elements(a) : e.threshold = 60
        /\ \A e \in Elements(b) : e.threshold = 85
        /\ \A e \in Elements(c) : e.threshold = 100
    BY <1>1, <1>2
  <2> QED  BY <2>1 DEF Below
<1>4. a \o b \in Seq(Threshold) /\ Ascends(a \o b) /\ Elements(a \o b) = E(60) \cup E(85)
  BY <1>1, <1>3, JoinElements, JoinAscends
<1>5. Below(a \o b, c)
  BY <1>1, <1>3, <1>4 DEF Below
<1>6. /\ Crossed(m, amount) \in Seq(Threshold) /\ Ascends(Crossed(m, amount))
      /\ Elements(Crossed(m, amount)) = E(60) \cup E(85) \cup E(100)
  <2>1. Crossed(m, amount) = (a \o b) \o c
    BY DEF Crossed, a, b, c
  <2> DEFINE ab == a \o b
  <2>2. ab \in Seq(Threshold) /\ Ascends(ab) /\ Elements(ab) = E(60) \cup E(85) /\ Below(ab, c)
    BY <1>4, <1>5
  <2> HIDE DEF E, ab
  <2>3. /\ ab \o c \in Seq(Threshold) /\ Ascends(ab \o c)
        /\ Elements(ab \o c) = Elements(ab) \cup Elements(c)
    BY <1>1, <2>2, JoinElements, JoinAscends
  <2> QED  BY <1>1, <2>1, <2>2, <2>3 DEF ab
<1>7. Crossings(m, amount) \subseteq {60, 85, 100}
  BY DEF Crossings, THRESHOLDS
<1> QED  BY <1>6, <1>7

(* What charge() returns: each meter's crossings, each meter's in order.   *)
LEMMA ReturnedFacts ==
  ASSUME NEW cost
  PROVE  /\ Returned(cost) \in Seq(Threshold) /\ Ascends(Returned(cost))
         /\ \A e : e \in Elements(Returned(cost)) <=>
                \E m \in Meter : \E t \in Crossings(m, cost[m]) : e = [meter |-> m, threshold |-> t]
<1> DEFINE a == Crossed("tokens_usd", cost["tokens_usd"])
           b == Crossed("quota_units", cost["quota_units"])
           c == Crossed("wall_s", cost["wall_s"])
           E(m) == {[meter |-> m, threshold |-> t] : t \in Crossings(m, cost[m])}
<1>1. /\ a \in Seq(Threshold) /\ Ascends(a) /\ Elements(a) = E("tokens_usd")
      /\ b \in Seq(Threshold) /\ Ascends(b) /\ Elements(b) = E("quota_units")
      /\ c \in Seq(Threshold) /\ Ascends(c) /\ Elements(c) = E("wall_s")
  BY CrossedFacts DEF Meter
<1>2. \A m : \A e \in E(m) : e.meter = m
  OBVIOUS
<1> HIDE DEF a, b, c
<1>3. Below(a, b) /\ Below(a, c) /\ Below(b, c)
  <2> HIDE DEF E
  <2> QED  BY <1>1, <1>2 DEF Below
<1>4. /\ a \o b \in Seq(Threshold) /\ Ascends(a \o b)
      /\ Elements(a \o b) = E("tokens_usd") \cup E("quota_units")
  <2> HIDE DEF E
  <2> QED  BY <1>1, <1>3, JoinElements, JoinAscends
<1>5. Below(a \o b, c)
  <2>1. Elements(a \o b) = Elements(a) \cup Elements(b)
    BY <1>1, JoinElements
  <2> QED  BY <1>3, <2>1 DEF Below
<1>6. /\ Returned(cost) \in Seq(Threshold) /\ Ascends(Returned(cost))
      /\ Elements(Returned(cost)) = E("tokens_usd") \cup E("quota_units") \cup E("wall_s")
  <2>1. Returned(cost) = (a \o b) \o c
    BY DEF Returned, a, b, c
  <2> DEFINE ab == a \o b
  <2>2. ab \in Seq(Threshold) /\ Ascends(ab) /\ Elements(ab) = E("tokens_usd") \cup E("quota_units") /\ Below(ab, c)
    BY <1>4, <1>5
  <2> HIDE DEF E, ab
  <2>3. /\ ab \o c \in Seq(Threshold) /\ Ascends(ab \o c)
        /\ Elements(ab \o c) = Elements(ab) \cup Elements(c)
    BY <1>1, <2>2, JoinElements, JoinAscends
  <2> QED  BY <1>1, <2>1, <2>2, <2>3 DEF ab
<1> QED  BY <1>6 DEF Meter

(* The three conjuncts of the property, by names.                          *)
LEMMA ToldIs ==
  ToldOnceAscending <=>
    /\ Ascends(told)
    /\ \A m \in Meter : \A t \in fired[m] : [meter |-> m, threshold |-> t] \in Elements(told)
    /\ \A e \in Elements(told) : e.threshold \in fired[e.meter]
BY DEF ToldOnceAscending, Ascends, Elements

LEMMA ChargeTold ==
  ASSUME MTypeOK, FiredIffReached, ToldOnceAscending,
         NEW cost \in [Meter -> Amounts], Charge(cost)
  PROVE  ToldOnceAscending'
<1> DEFINE new == Returned(cost)
<1>1. /\ told' = told \o new /\ \A m \in Meter : fired'[m] = fired[m] \cup Crossings(m, cost[m])
  BY DEF Charge
<1>2. /\ told \in Seq(Threshold) /\ new \in Seq(Threshold) /\ Ascends(new)
      /\ \A e : e \in Elements(new) <=>
            \E m \in Meter : \E t \in Crossings(m, cost[m]) : e = [meter |-> m, threshold |-> t]
  BY ReturnedFacts DEF MTypeOK
<1>3. /\ Ascends(told)
      /\ \A m \in Meter : \A t \in fired[m] : [meter |-> m, threshold |-> t] \in Elements(told)
      /\ \A e \in Elements(told) : e.threshold \in fired[e.meter]
  BY ToldIs
<1> HIDE DEF new
<1>4. Elements(told') = Elements(told) \cup Elements(new)
  BY <1>1, <1>2, JoinElements
<1>5. Elements(told) \subseteq Threshold
  BY <1>2, ElementOfSeq, LenProperties DEF Elements
<1>6. Below(told, new)
  <2> SUFFICES ASSUME NEW e \in Elements(told), NEW f \in Elements(new), e.meter = f.meter
               PROVE  e.threshold < f.threshold
    BY DEF Below
  <2>0. PICK m \in Meter : \E t \in Crossings(m, cost[m]) : f = [meter |-> m, threshold |-> t]
    BY <1>2
  <2>1. PICK t \in Crossings(m, cost[m]) : f = [meter |-> m, threshold |-> t]
    BY <2>0
  <2>2. e.meter = m /\ f.threshold = t /\ e.threshold \in fired[m] /\ e.threshold \in THRESHOLDS
    BY <1>3, <1>5, <2>1 DEF Threshold
  <2>3. t \in THRESHOLDS /\ t \notin fired[m] /\ Limit[m] > 0
    BY DEF Crossings
  <2>4. /\ 100 * spent[m] >= e.threshold * Limit[m]
        /\ ~(100 * spent[m] >= t * Limit[m])
    BY <2>2, <2>3 DEF FiredIffReached
  <2>5. spent[m] \in Nat /\ Limit[m] \in Nat
    BY MetersAssumption DEF MTypeOK
  <2>6. e.threshold \in {60, 85, 100} /\ t \in {60, 85, 100}
    BY <2>2, <2>3 DEF THRESHOLDS
  <2>7. e.threshold < t
    BY <2>4, <2>5, <2>6
  <2> QED  BY <2>2, <2>7
<1>7. Ascends(told')
  BY <1>1, <1>2, <1>3, <1>6, JoinAscends
<1>8. ASSUME NEW m \in Meter, NEW t \in fired'[m]
      PROVE  [meter |-> m, threshold |-> t] \in Elements(told')
  <2>1. CASE t \in fired[m]
    BY <1>3, <1>4, <2>1
  <2>2. CASE t \in Crossings(m, cost[m])
    BY <1>2, <1>4, <2>2
  <2> QED  BY <1>1, <2>1, <2>2
<1>9. ASSUME NEW e \in Elements(told') PROVE e.threshold \in fired'[e.meter]
  <2>1. CASE e \in Elements(told)
    BY <1>1, <1>3, <1>5, <2>1 DEF Threshold
  <2>2. CASE e \in Elements(new)
    BY <1>1, <1>2, <2>2
  <2> QED  BY <1>4, <2>1, <2>2
<1>10. /\ \A i, j \in DOMAIN told' :
            i < j /\ told'[i].meter = told'[j].meter => told'[i].threshold < told'[j].threshold
       /\ \A m \in Meter : \A t \in fired'[m] :
            \E i \in DOMAIN told' : told'[i] = [meter |-> m, threshold |-> t]
       /\ \A i \in DOMAIN told' : told'[i].threshold \in fired'[told'[i].meter]
  BY <1>7, <1>8, <1>9 DEF Ascends, Elements
<1> QED  BY <1>10 DEF ToldOnceAscending

LEMMA ToldNext ==
  ASSUME MTypeOK, FiredIffReached, ToldOnceAscending, [MNext]_metersVars
  PROVE  ToldOnceAscending'
<1>1. CASE UNCHANGED <<told, fired>>
  BY <1>1 DEF ToldOnceAscending
<1>2. ASSUME NEW cost \in [Meter -> Amounts], Charge(cost) PROVE ToldOnceAscending'
  BY <1>2, ChargeTold
<1> QED  BY <1>1, <1>2 DEF MNext, metersVars, Preflight, Forgo

-----------------------------------------------------------------------------
LEMMA MInvInit ==
  ASSUME MInit
  PROVE  MInv
<1>1. ToldOnceAscending
  BY DEF MInit, ToldOnceAscending
<1> QED  BY <1>1, MetersTypeInit, FiredInit, WithinInit DEF MInv

LEMMA MInvNext ==
  ASSUME MInv, [MNext]_metersVars
  PROVE  MInv'
BY MetersTypeNext, FiredNext, ToldNext, WithinNext DEF MInv

(* The inductive invariant of the meters.                                  *)
THEOREM MetersInvariant == MSpec => []MInv
BY MInvInit, MInvNext, PTL DEF MSpec

(* Whatever is estimated and charged, the meters stay well typed.          *)
THEOREM MetersTypeCorrect == MSpec => []MTypeOK
<1>1. MInv => MTypeOK
  BY DEF MInv
<1> QED  BY <1>1, MetersInvariant, PTL

(* A threshold has fired exactly when it has been reached, for any limits  *)
(* and any sequence of charges.                                            *)
THEOREM FiredExactly == MSpec => []FiredIffReached
<1>1. MInv => FiredIffReached
  BY DEF MInv
<1> QED  BY <1>1, MetersInvariant, PTL

(* What charge() returns, over the life of the meters: each threshold that *)
(* fired once, those of a meter in ascending order, for any costs -- also  *)
(* where one charge crosses several at a time.                             *)
THEOREM ToldAscending == MSpec => []ToldOnceAscending
<1>1. MInv => ToldOnceAscending
  BY DEF MInv
<1> QED  BY <1>1, MetersInvariant, PTL

(* However many dispatches follow one another, a meter preflight looks at  *)
(* exceeds its limit by at most what one dispatch can cost.                *)
THEOREM OverrunIsBounded == MSpec => []OverrunBounded
<1>1. MInv => OverrunBounded
  BY DEF MInv
<1> QED  BY <1>1, MetersInvariant, PTL

=============================================================================
