------------------------------ MODULE AuditLog ------------------------------
(***************************************************************************)
(* The audit log of ONE task (kernel/audit.py) as several processes use it.*)
(*                                                                         *)
(* A process is a Bus on the task id (kernel/bus.py): it reads the head of *)
(* the log when it is constructed and numbers its own events from there.   *)
(* Two processes can hold the same task id: cli.py derives a default id    *)
(* from a row count, and --task-id lets an operator re-use one.            *)
(*                                                                         *)
(* append() is a SELECT followed by an INSERT on an autocommit connection, *)
(* so another process may write between the two: the read and the write    *)
(* are two steps here.  The table's UNIQUE (task_id, seq) is what makes    *)
(* the second of two racing INSERTs raise.  An exception leaves emit() and *)
(* the run that called it, so the process ends.                            *)
(***************************************************************************)
EXTENDS Integers, Sequences

CONSTANTS
    Writers,    \* the processes that open a Bus on the task
    Bodies,     \* what an event can say (type, payload and time stamp)
    MaxRows,    \* bound on the log's length
    MaxRuns     \* bound on how often one writer is started

ASSUME BoundsAreNat == MaxRows \in Nat /\ MaxRuns \in Nat

VARIABLES
    rows,       \* the table `events`: a set of rows, seq being UNIQUE
    state,      \* per writer: is it running, and is it between SELECT and INSERT
    nextSeq,    \* per writer: Bus._next_seq
    pending,    \* per writer: the row append() is about to insert
    runs        \* per writer: how many times it was started (names the run)

vars == <<rows, state, nextSeq, pending, runs>>

(* GENESIS is the empty chain.  A hash stands for everything it was        *)
(* computed from: _link is injective.                                      *)
GENESIS == << >>

(* Mutant of Link: the previous row's hash is left out of the digest.      *)
LinkBodyOnly(prev, body) == <<body>>

Link(prev, body) == Append(prev, body)

Row == [seq : Nat, body : Bodies, hash : Seq(Bodies), by : Writers, run : Nat]

(* by and run are not columns: they record who inserted the row, for       *)
(* RunsNeverInterleave.                                                    *)

head(table) ==
    IF table = {} THEN [seq |-> -1, hash |-> GENESIS]
    ELSE LET last == CHOOSE r \in table : \A q \in table : q.seq <= r.seq
         IN  [seq |-> last.seq, hash |-> last.hash]

NoRow == [none |-> TRUE]

TypeOK ==
    /\ rows \subseteq Row
    /\ state \in [Writers -> {"down", "idle", "inserting"}]
    /\ nextSeq \in [Writers -> Nat]
    /\ runs \in [Writers -> Nat]
    /\ pending \in [Writers -> Row \cup {NoRow}]
    /\ \A w \in Writers : state[w] = "inserting" => pending[w] \in Row

-----------------------------------------------------------------------------
Init ==
    /\ rows = {}
    /\ state = [w \in Writers |-> "down"]
    /\ nextSeq = [w \in Writers |-> 0]
    /\ pending = [w \in Writers |-> NoRow]
    /\ runs = [w \in Writers |-> 0]

(* Bus.__init__: the numbering starts after the head read now.             *)
Open(w) ==
    /\ state[w] = "down"
    /\ runs[w] < MaxRuns
    /\ state' = [state EXCEPT ![w] = "idle"]
    /\ nextSeq' = [nextSeq EXCEPT ![w] = head(rows).seq + 1]
    /\ runs' = [runs EXCEPT ![w] = @ + 1]
    /\ UNCHANGED <<rows, pending>>

(* Mutant of BeginAppend: append() numbers the event itself, after whatever *)
(* head it finds, instead of refusing a number that does not continue it.  *)
BeginAppendRenumbering(w, b) ==
    /\ state[w] = "idle" /\ head(rows).seq + 1 < MaxRows
    /\ pending' = [pending EXCEPT ![w] =
                    [seq |-> head(rows).seq + 1, body |-> b,
                     hash |-> Link(head(rows).hash, b), by |-> w, run |-> runs[w]]]
    /\ nextSeq' = [nextSeq EXCEPT ![w] = head(rows).seq + 2]
    /\ state' = [state EXCEPT ![w] = "inserting"]
    /\ UNCHANGED <<rows, runs>>

(* Bus.emit up to the INSERT: the number is taken, then append() reads the *)
(* head and accepts a number that continues it.                            *)
BeginAppend(w, b) ==
    /\ state[w] = "idle"
    /\ nextSeq[w] < MaxRows
    /\ nextSeq[w] = head(rows).seq + 1
    /\ pending' = [pending EXCEPT ![w] =
                    [seq |-> nextSeq[w], body |-> b,
                     hash |-> Link(head(rows).hash, b), by |-> w, run |-> runs[w]]]
    /\ nextSeq' = [nextSeq EXCEPT ![w] = @ + 1]
    /\ state' = [state EXCEPT ![w] = "inserting"]
    /\ UNCHANGED <<rows, runs>>

(* ... or finds that somebody else moved it: ValueError, the run is over.  *)
RejectAppend(w) ==
    /\ state[w] = "idle"
    /\ nextSeq[w] # head(rows).seq + 1
    /\ nextSeq' = [nextSeq EXCEPT ![w] = @ + 1]
    /\ state' = [state EXCEPT ![w] = "down"]
    /\ UNCHANGED <<rows, pending, runs>>

(* Mutants of Insert: no UNIQUE (task_id, seq), and INSERT OR REPLACE.     *)
InsertUnchecked(w) ==
    /\ state[w] = "inserting"
    /\ rows' = rows \cup {pending[w]}
    /\ state' = [state EXCEPT ![w] = "idle"]
    /\ pending' = [pending EXCEPT ![w] = NoRow]
    /\ UNCHANGED <<nextSeq, runs>>

InsertOrReplace(w) ==
    /\ state[w] = "inserting"
    /\ rows' = {r \in rows : r.seq # pending[w].seq} \cup {pending[w]}
    /\ state' = [state EXCEPT ![w] = "idle"]
    /\ pending' = [pending EXCEPT ![w] = NoRow]
    /\ UNCHANGED <<nextSeq, runs>>

Insert(w) ==
    /\ state[w] = "inserting"
    /\ \A r \in rows : r.seq # pending[w].seq        \* UNIQUE (task_id, seq)
    /\ rows' = rows \cup {pending[w]}
    /\ state' = [state EXCEPT ![w] = "idle"]
    /\ pending' = [pending EXCEPT ![w] = NoRow]
    /\ UNCHANGED <<nextSeq, runs>>

(* The INSERT raises -- the number is taken, or the database is locked or  *)
(* full -- or the process is killed: nothing was written.                  *)
Stop(w) ==
    /\ state[w] # "down"
    /\ state' = [state EXCEPT ![w] = "down"]
    /\ pending' = [pending EXCEPT ![w] = NoRow]
    /\ UNCHANGED <<rows, nextSeq, runs>>

Next ==
    \E w \in Writers :
        \/ Open(w)
        \/ \E b \in Bodies : BeginAppend(w, b)
        \/ RejectAppend(w)
        \/ Insert(w)
        \/ Stop(w)

Spec == Init /\ [][Next]_vars

-----------------------------------------------------------------------------
(* verify_chain of kernel/audit.py: ordered by seq, the i-th row is        *)
(* numbered i and its hash is recomputed from the hash of the row before.  *)
Numbered(table) ==
    /\ \A r, q \in table : r.seq = q.seq => r = q
    /\ \A r \in table : \A k \in 0 .. r.seq : \E q \in table : q.seq = k

Chained(table) ==
    \A r \in table :
        \/ r.seq = 0 /\ r.hash = Link(GENESIS, r.body)
        \/ \E q \in table : q.seq = r.seq - 1 /\ r.hash = Link(q.hash, r.body)

(* Whatever two writers of the same task do between each other's SELECT    *)
(* and INSERT, and wherever they are killed, verify_chain accepts the log. *)
ChainVerifies == Numbered(rows) /\ Chained(rows)

(* Events of two runs on the same task id never alternate: the first event *)
(* another run records after yours is the end of your run.  This is what   *)
(* lets replay and the outcome recorder read a task's log as one run after *)
(* another.                                                                *)
SameRun(r, q) == r.by = q.by /\ r.run = q.run

RunsNeverInterleave ==
    \A r, q, m \in rows :
        SameRun(r, q) /\ r.seq < m.seq /\ m.seq < q.seq => SameRun(r, m)

(* "Append-only. Written before effects apply": a committed row is neither *)
(* changed nor removed by any later step.                                  *)
AppendOnly == [][rows \subseteq rows' /\ \A r \in rows' \ rows :
                    \A q \in rows : q.seq < r.seq]_rows

(* The table implements a single history: the chain the head row's hash    *)
(* stands for.                                                             *)
History == INSTANCE EventHistory WITH history <- head(rows).hash

ImplementsHistory == History!Spec
=============================================================================
