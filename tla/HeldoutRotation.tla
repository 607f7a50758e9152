-------------------------- MODULE HeldoutRotation --------------------------
(***************************************************************************)
(* ops/rotate_heldout.py: every month the operator moves a share of the    *)
(* benchmark contracts out of reach of the learning loop and logs their    *)
(* hashes in a manifest.                                                   *)
(*                                                                         *)
(* The files are moved one by one and the manifest is written when all of  *)
(* them are moved; the program may be killed between any two of these.     *)
(* Around it the operator edits, adds and (with git) restores files.  One  *)
(* rotation runs at a time: it is one operator's monthly command.          *)
(***************************************************************************)
EXTENDS Integers, FiniteSets

CONSTANTS
    Contracts,  \* names of contract files, c_0001.json, ...
    Texts,      \* what a contract file can contain
    Absent,     \* no such file
    Stamps,     \* the months, 2026-09, ...
    FRACTION    \* share of the pool a rotation takes, in percent

ASSUME RotationAssumption ==
    /\ Absent \notin Texts
    /\ FRACTION \in 0 .. 100

VARIABLES
    bench,      \* benchmarks/b0/contracts: name -> text, or Absent
    held,       \* evals/heldout/contracts, likewise
    manifest,   \* per stamp the lines of its manifest, none if it has none
    rotation,   \* the rotation that runs, and what it holds in memory
    touched     \* recorded: withheld files somebody has changed since

files == <<bench, held, manifest, rotation, touched>>

-----------------------------------------------------------------------------
(* SHA-256 is taken to be injective.  Other hashes (of training examples,  *)
(* loop/consolidate.py) are of texts no contract file has.                 *)
file_hash(name, text) == [of |-> "contract file", name |-> name, text |-> text]

Line == [name : Contracts, hash : {file_hash(c, t) : c \in Contracts, t \in Texts}]

Lines == UNION {manifest[s] : s \in Stamps}

already_held == {l.name : l \in Lines}

(* Mutant of Pool: what is on the bench, held out before or not.           *)
Pool_any == {c \in Contracts : bench[c] # Absent}

Pool == {c \in Contracts : bench[c] # Absent} \ already_held

(* max(1, round(len(pool) * FRACTION)); a half is rounded to even.         *)
Rounded(n) ==
    LET whole == (n * FRACTION) \div 100
        rest == (n * FRACTION) % 100
    IN  IF rest > 50 \/ (rest = 50 /\ whole % 2 = 1) THEN whole + 1 ELSE whole

Quota(n) == IF Rounded(n) < 1 THEN 1 ELSE Rounded(n)

Idle == [phase |-> "idle", stamp |-> Absent, lines |-> {}, left |-> {}]

Init ==
    /\ bench \in [Contracts -> Texts \cup {Absent}]
    /\ held = [c \in Contracts |-> Absent]
    /\ manifest = [s \in Stamps |-> {}]
    /\ rotation = Idle
    /\ touched = {}

-----------------------------------------------------------------------------
(* rotate --commit up to the first move: choose and hash.  Which contracts *)
(* the seeded generator samples is left open.  An empty pool, --plan and   *)
(* --verify change nothing.                                                *)
Begin(s) ==
    /\ rotation.phase = "idle"
    /\ Pool # {}
    /\ \E picked \in SUBSET Pool :
        /\ Cardinality(picked) = Quota(Cardinality(Pool))
        /\ rotation' = [phase |-> "moving", stamp |-> s, left |-> picked,
                        lines |-> {[name |-> c, hash |-> file_hash(c, bench[c])] : c \in picked}]
    /\ UNCHANGED <<bench, held, manifest, touched>>

(* shutil.move of the next file: one rename.                               *)
Move(c) ==
    /\ rotation.phase = "moving" /\ c \in rotation.left
    /\ held' = [held EXCEPT ![c] = bench[c]]
    /\ bench' = [bench EXCEPT ![c] = Absent]
    /\ rotation' = [rotation EXCEPT !.left = @ \ {c}]
    /\ touched' = touched \ {c}
    /\ UNCHANGED manifest

(* Mutant of OpenManifest: the log is written first, as a log ahead.       *)
OpenManifest_first ==
    /\ rotation.phase = "moving"
    /\ manifest' = [manifest EXCEPT ![rotation.stamp] = {}]
    /\ rotation' = [rotation EXCEPT !.phase = "writing"]
    /\ UNCHANGED <<bench, held, touched>>

(* write_text, which empties a manifest of the same month that is there.   *)
OpenManifest ==
    /\ rotation.phase = "moving" /\ rotation.left = {}
    /\ manifest' = [manifest EXCEPT ![rotation.stamp] = {}]
    /\ rotation' = [rotation EXCEPT !.phase = "writing"]
    /\ UNCHANGED <<bench, held, touched>>

WriteManifest ==
    /\ rotation.phase = "writing"
    /\ manifest' = [manifest EXCEPT ![rotation.stamp] = rotation.lines]
    /\ rotation' = Idle
    /\ UNCHANGED <<bench, held, touched>>

(* The program is killed.                                                  *)
Kill ==
    /\ rotation.phase # "idle"
    /\ rotation' = Idle
    /\ UNCHANGED <<bench, held, manifest, touched>>

-----------------------------------------------------------------------------
(* Around it: contracts are written and edited on the bench, a file that   *)
(* was moved is restored by git, and somebody changes what is withheld.    *)
EditBench(c) ==
    /\ rotation.phase = "idle"
    /\ \E t \in Texts : bench' = [bench EXCEPT ![c] = t]
    /\ UNCHANGED <<held, manifest, rotation, touched>>

Tamper(c) ==
    /\ held[c] # Absent
    /\ \E t \in (Texts \cup {Absent}) \ {held[c]} : held' = [held EXCEPT ![c] = t]
    /\ touched' = touched \cup {c}
    /\ UNCHANGED <<bench, manifest, rotation>>

Rotate == (\E s \in Stamps : Begin(s)) \/ (\E c \in Contracts : Move(c))
            \/ OpenManifest \/ WriteManifest \/ Kill

Around == \E c \in Contracts : EditBench(c) \/ Tamper(c)

Next == Rotate \/ Around

Spec == Init /\ [][Next]_files

-----------------------------------------------------------------------------
(* rotate --verify: the lines it complains of.                             *)
Intact(l) == held[l.name] # Absent /\ file_hash(l.name, held[l.name]) = l.hash

problems == {l \in Lines : ~Intact(l)}

(* The types of the variables; a rotation that runs has its month.         *)
TypeOK ==
    /\ bench \in [Contracts -> Texts \cup {Absent}]
    /\ held \in [Contracts -> Texts \cup {Absent}]
    /\ manifest \in [Stamps -> SUBSET Line]
    /\ rotation \in [phase : {"idle", "moving", "writing"}, stamp : Stamps \cup {Absent},
                     lines : SUBSET Line, left : SUBSET Contracts]
    /\ rotation.phase # "idle" => rotation.stamp \in Stamps
    /\ touched \in SUBSET Contracts

(* verify complains only of files somebody has changed since they were     *)
(* withheld: however a rotation was interrupted, restored from and run     *)
(* again, no manifest names a file that is not there or has another hash   *)
(* (rotate, verify).                                                       *)
VerifyAccusesRightly == \A l \in problems : l.name \in touched

(* A contract is logged in at most one manifest, and once: it is withheld  *)
(* at one date (choose, already_held).                                     *)
LoggedOnce ==
    \A s, t \in Stamps : \A l \in manifest[s], m \in manifest[t] :
        l.name = m.name => s = t /\ l = m
=============================================================================
