-------------------------------- MODULE Bus --------------------------------
(***************************************************************************)
(* kernel/bus.py: the event loop of one task, and the life of the process  *)
(* around it.  What the handlers do is left open -- while an event is      *)
(* being handled they may emit any events and halt the bus -- so what is   *)
(* shown here holds for every executive and every verb.                    *)
(*                                                                         *)
(* The audit log is the only durable part.  A process that is killed, or   *)
(* whose run is ended by an exception, loses its queue; a new one on the   *)
(* same task id continues the numbering and nothing else.                  *)
(***************************************************************************)
EXTENDS Naturals, Sequences, Events

CONSTANTS
    MaxEvents,  \* Bus.run(max_events)
    Emitted,    \* the event types that are emitted (a subset of EventType)
    MaxLog,     \* bound on the length of the task's log
    MaxRuns     \* bound on how many processes serve the task

ASSUME BusAssumption ==
    /\ MaxEvents \in Nat
    /\ Emitted \subseteq EventType
    /\ MaxLog \in Nat
    /\ MaxRuns \in Nat

VARIABLES
    log,        \* the audit log of the task: the type of the event of each seq
    mode,       \* where the process is, see Modes
    nextSeq,    \* Bus._next_seq
    queue,      \* Bus._queue: a heap ordered by (priority, tiebreak)
    counter,    \* Bus._counter
    processed,  \* Bus.processed
    halted,     \* Bus.halted
    n,          \* events taken by this call of run()
    runs,       \* how many processes were started on the task
    base,       \* the length of the log when this process read its head
    born        \* how many events had been processed when each seq was emitted

durable == <<log, born>>
vars == <<log, mode, nextSeq, queue, counter, processed, halted, n, runs, base, born>>

(* log and queue number events from 0 as the code does; log[seq + 1] is    *)
(* the row of seq.  born and base are not in the code: they record, for    *)
(* the properties, when an event was emitted and by which process.         *)

Modes ==
    {"down",        \* no process
     "open",        \* Bus constructed, run() not called yet
     "running",     \* at the head of the loop in run()
     "handling",    \* in the handlers of the last processed event
     "returned",    \* run() returned
     "raised"}      \* an exception left run() or the caller's emit()

Queued == [priority : Nat, tiebreak : Nat, seq : Nat, type : EventType]

TypeOK ==
    /\ log \in Seq(EventType)
    /\ mode \in Modes
    /\ nextSeq \in Nat /\ counter \in Nat /\ n \in Nat /\ runs \in Nat /\ base \in Nat
    /\ queue \subseteq Queued
    /\ processed \in Seq(Queued)
    /\ halted \in BOOLEAN
    /\ born \in Seq(Nat)

(* Mutants of Before: first in first out, and last in first out among      *)
(* equals.                                                                 *)
BeforeFIFO(e, f) == e.tiebreak < f.tiebreak

BeforeLIFO(e, f) ==
    \/ e.priority < f.priority
    \/ e.priority = f.priority /\ e.tiebreak > f.tiebreak

(* The order of _Queued: the dataclass compares priority, then tiebreak.   *)
Before(e, f) ==
    \/ e.priority < f.priority
    \/ e.priority = f.priority /\ e.tiebreak < f.tiebreak

-----------------------------------------------------------------------------
Init ==
    /\ log = << >> /\ born = << >>
    /\ mode = "down"
    /\ nextSeq = 0 /\ queue = {} /\ counter = 0 /\ processed = << >>
    /\ halted = FALSE /\ n = 0 /\ runs = 0 /\ base = 0

(* Bus.__init__ in a new process.                                          *)
Open ==
    /\ mode \in {"down", "returned", "raised"}
    /\ runs < MaxRuns
    /\ mode' = "open"
    /\ nextSeq' = Len(log)
    /\ queue' = {} /\ counter' = 0 /\ processed' = << >>
    /\ halted' = FALSE /\ n' = 0
    /\ runs' = runs + 1
    /\ base' = Len(log)
    /\ UNCHANGED durable

(* Bus.emit, from the caller before run() or from a handler.               *)
Emit(t) ==
    /\ mode \in {"open", "handling"}
    /\ Len(log) < MaxLog
    /\ log' = Append(log, t)
    /\ born' = Append(born, Len(processed))
    /\ queue' = queue \cup {[priority |-> PRIORITY[t], tiebreak |-> counter,
                              seq |-> nextSeq, type |-> t]}
    /\ nextSeq' = nextSeq + 1
    /\ counter' = counter + 1
    /\ UNCHANGED <<mode, processed, halted, n, runs, base>>

(* Mutant of EmitRaises: emit() queues before it appends.                  *)
EmitQueuesFirst ==
    /\ mode \in {"open", "handling"}
    /\ \E t \in Emitted :
        queue' = queue \cup {[priority |-> PRIORITY[t], tiebreak |-> counter,
                              seq |-> nextSeq, type |-> t]}
    /\ nextSeq' = nextSeq + 1 /\ counter' = counter + 1
    /\ mode' = "raised"
    /\ UNCHANGED <<log, processed, halted, n, runs, base, born>>

(* Bus.emit when audit.append raises: the number is spent, the event is    *)
(* neither logged nor queued, and the exception ends the run.              *)
EmitRaises ==
    /\ mode \in {"open", "handling"}
    /\ nextSeq' = nextSeq + 1
    /\ mode' = "raised"
    /\ UNCHANGED <<log, queue, counter, processed, halted, n, runs, base, born>>

(* Bus.halt, called by a handler.                                          *)
Halt ==
    /\ mode = "handling"
    /\ ~halted
    /\ halted' = TRUE
    /\ UNCHANGED <<log, mode, nextSeq, queue, counter, processed, n, runs, base, born>>

RunStarts ==
    /\ mode = "open"
    /\ mode' = "running"
    /\ n' = 0
    /\ UNCHANGED <<log, nextSeq, queue, counter, processed, halted, runs, base, born>>

(* Mutant of Pop: the event is read from the heap and left there.          *)
PopPeek ==
    /\ mode = "running" /\ queue # {} /\ ~halted /\ n < MaxEvents
    /\ \E e \in queue :
        /\ \A f \in queue \ {e} : Before(e, f)
        /\ processed' = Append(processed, e)
    /\ n' = n + 1
    /\ mode' = "handling"
    /\ UNCHANGED <<log, nextSeq, queue, counter, halted, runs, base, born>>

(* One turn of the loop in run(): take the least queued event.             *)
Pop ==
    /\ mode = "running"
    /\ queue # {} /\ ~halted
    /\ n < MaxEvents
    /\ \E e \in queue :
        /\ \A f \in queue \ {e} : Before(e, f)
        /\ queue' = queue \ {e}
        /\ processed' = Append(processed, e)
    /\ n' = n + 1
    /\ mode' = "handling"
    /\ UNCHANGED <<log, nextSeq, counter, halted, runs, base, born>>

HandlersReturn ==
    /\ mode = "handling"
    /\ mode' = "running"
    /\ UNCHANGED <<log, nextSeq, queue, counter, processed, halted, n, runs, base, born>>

(* Mutant of RunReturns: an empty queue is waited on.                      *)
RunReturnsWhenHalted ==
    /\ mode = "running" /\ halted
    /\ mode' = "returned"
    /\ UNCHANGED <<log, nextSeq, queue, counter, processed, halted, n, runs, base, born>>

RunReturns ==
    /\ mode = "running"
    /\ queue = {} \/ halted
    /\ mode' = "returned"
    /\ UNCHANGED <<log, nextSeq, queue, counter, processed, halted, n, runs, base, born>>

(* "a handler is almost certainly emitting in a cycle"                     *)
RunRaises ==
    /\ mode = "running"
    /\ queue # {} /\ ~halted
    /\ n >= MaxEvents
    /\ mode' = "raised"
    /\ UNCHANGED <<log, nextSeq, queue, counter, processed, halted, n, runs, base, born>>

(* An exception in a handler.                                              *)
HandlerRaises ==
    /\ mode = "handling"
    /\ mode' = "raised"
    /\ UNCHANGED <<log, nextSeq, queue, counter, processed, halted, n, runs, base, born>>

(* The process is killed.                                                  *)
Crash ==
    /\ mode \in {"open", "running", "handling"}
    /\ mode' = "down"
    /\ nextSeq' = 0 /\ queue' = {} /\ counter' = 0 /\ processed' = << >>
    /\ halted' = FALSE /\ n' = 0
    /\ UNCHANGED <<log, runs, base, born>>

Next ==
    \/ Open \/ RunStarts \/ Pop \/ HandlersReturn \/ RunReturns \/ RunRaises
    \/ \E t \in Emitted : Emit(t)
    \/ Halt \/ EmitRaises \/ HandlerRaises \/ Crash

Spec == Init /\ [][Next]_vars

-----------------------------------------------------------------------------
Alive == mode \in {"open", "running", "handling", "returned"}

(* Ordering contract 1: an event is in the log, under its number and with  *)
(* its type, before it is queued -- so before any handler sees it.         *)
LogFirst ==
    /\ \A e \in queue : e.seq < Len(log) /\ log[e.seq + 1] = e.type
    /\ \A i \in DOMAIN processed :
        processed[i].seq < Len(log) /\ log[processed[i].seq + 1] = processed[i].type

(* Every event this process logged is still queued or was handled, exactly *)
(* one of the two and exactly once: no event is lost by the heap, and      *)
(* none is delivered twice.  Events logged by an earlier process are       *)
(* in neither.                                                             *)
NoneLostNoneTwice ==
    Alive =>
        /\ \A s \in base .. Len(log) - 1 :
            \/ \E e \in queue : e.seq = s
            \/ \E i \in DOMAIN processed : processed[i].seq = s
        /\ \A e \in queue : base <= e.seq
        /\ \A i \in DOMAIN processed : base <= processed[i].seq
        /\ \A e, f \in queue : e.seq = f.seq => e = f
        /\ \A i, j \in DOMAIN processed : processed[i].seq = processed[j].seq => i = j
        /\ \A e \in queue : \A i \in DOMAIN processed : processed[i].seq # e.seq

(* Ordering contract 2, over whole runs: an event handled after one it     *)
(* outranks -- more urgent, or equally urgent and earlier -- was emitted   *)
(* only after that one had been taken from the queue.                      *)
Outranks(e, f) ==
    \/ PRIORITY[e.type] < PRIORITY[f.type]
    \/ PRIORITY[e.type] = PRIORITY[f.type] /\ e.seq < f.seq

PriorityOrder ==
    \A i, j \in DOMAIN processed :
        i < j /\ Outranks(processed[j], processed[i]) => born[processed[j].seq + 1] >= i

(* The bus implements the abstract task queue; a crash, or the next process,*)
(* abandons what the last one left in its heap.                            *)
Queue == INSTANCE TaskQueue WITH
    waiting <- {e.seq + 1 : e \in queue},
    delivered <- [i \in DOMAIN processed |-> processed[i].seq + 1]

ImplementsQueue == Queue!Spec
=============================================================================
