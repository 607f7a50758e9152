---------------------------- MODULE Consolidate ----------------------------
(***************************************************************************)
(* loop/consolidate.py and loop/score.py, beside the held-out rotation:    *)
(* logged decisions with their outcomes become a training set.             *)
(*                                                                         *)
(* Values of a score are in 200ths, costs in percent of the budget.        *)
(***************************************************************************)
EXTENDS HeldoutRotation, Sequences

CONSTANTS
    Outcomes,   \* what may have become of the work a decision led to
    None,       \* no outcome; a value the outcome does not have
    Missed,     \* outcomes the query does not find, or None: alike to the score
    Sources,    \* the contracts whose runs left decisions in the database
    MaxRows     \* bound on the rows of one training set

ASSUME ConsolidateAssumption ==
    /\ Sources \subseteq Contracts /\ MaxRows \in Nat
    /\ Missed \subseteq Outcomes \cup {None}
    /\ \A o \in Outcomes :
        /\ o.v1 \in BOOLEAN /\ o.test_weakening \in BOOLEAN /\ o.out_of_scope \in BOOLEAN
        /\ o.cost \in Nat \cup {None}

VARIABLE
    built       \* the rows scored, and those kept, if the last step was build_dataset

vars == <<bench, held, manifest, rotation, touched, built>>

-----------------------------------------------------------------------------
W_V1 == 100
W_V2 == 50
W_V3 == 30
W_COST == 20

(* A verdict that is neither of the two counts one half.                   *)
Share(verdict, w) ==
    CASE verdict = "approve" -> w [] verdict = "reject" -> 0 [] OTHER -> w \div 2

efficiency(cost) ==
    IF cost = None THEN W_COST \div 2
    ELSE IF cost > 100 THEN 0 ELSE (W_COST * (100 - cost)) \div 100

disqualified(o) == o.test_weakening \/ o.out_of_scope

(* A LEFT JOIN that finds nothing leaves every column NULL.                *)
Label(r) ==
    IF r.found THEN r.outcome
    ELSE [v1 |-> FALSE, v2 |-> None, v3 |-> None, cost |-> None,
          test_weakening |-> FALSE, out_of_scope |-> FALSE]

Sum(o) ==
    (IF o.v1 THEN W_V1 ELSE 0) + Share(o.v2, W_V2) + Share(o.v3, W_V3) + efficiency(o.cost)

score_outcome(o) == IF ~o.v1 /\ Sum(o) > 50 THEN 50 ELSE Sum(o)

Value(r) == score_outcome(Label(r))

(* advantage_filter: the value at the quantile of the sorted values is the *)
(* least one kept.                                                         *)
Live(rows) == {i \in DOMAIN rows : ~disqualified(Label(rows[i]))}

CutIndex(n) == IF (n * 60) \div 100 < n - 1 THEN (n * 60) \div 100 ELSE n - 1

IsCut(rows, i) ==
    LET v == Value(rows[i])
        k == CutIndex(Cardinality(Live(rows)))
    IN  /\ Cardinality({j \in Live(rows) : Value(rows[j]) < v}) <= k
        /\ Cardinality({j \in Live(rows) : Value(rows[j]) <= v}) > k

(* Mutant of advantage_filter: strictly above the quantile.                *)
advantage_filter_above(rows) ==
    {i \in Live(rows) : \E c \in Live(rows) : IsCut(rows, c) /\ Value(rows[i]) > Value(rows[c])}

advantage_filter(rows) ==
    {i \in Live(rows) : \E c \in Live(rows) : IsCut(rows, c) /\ Value(rows[i]) >= Value(rows[c])}

-----------------------------------------------------------------------------
(* A row of the query: a decision with its event, taken in a run on some   *)
(* contract file, and what became of the work it led to.  The query finds  *)
(* that outcome only if it is stored under the very name the executive     *)
(* gave its contract.  record_outcomes stores it under row_id(task, name), *)
(* which is that name only if it was qualified already; rows older than    *)
(* row_id are found too.                                                   *)
Row == [about : Sources, outcome : Outcomes, found : {TRUE}]
       \cup [about : Sources, outcome : Missed, found : {FALSE}]

heldout_hashes == {l.hash : l \in Lines}

(* The hash of a ledger's hash and an event type.                          *)
example_hash(r) == [of |-> "example", name |-> r.about, text |-> "ledger:event"]

Excluded(r) == example_hash(r) \in heldout_hashes

NotBuilt == [rows |-> << >>, kept |-> {}]

(* build_dataset over what the database holds at the time: the rows that   *)
(* are excluded leave no trace, the others are scored.                     *)
Scored == {r \in Row : ~Excluded(r)}

Build ==
    /\ built = NotBuilt
    /\ \E n \in 0 .. MaxRows : \E rows \in [1 .. n -> Scored] :
        built' = [rows |-> rows, kept |-> advantage_filter(rows)]
    /\ UNCHANGED files

CInit == Init /\ built = NotBuilt

CNext == Build \/ (Next /\ built' = NotBuilt)

CSpec == CInit /\ [][CNext]_vars

-----------------------------------------------------------------------------
(* What was scored are rows of the query; what was kept, some of them.     *)
BuiltTypeOK ==
    /\ built.rows \in Seq(Row) /\ Len(built.rows) <= MaxRows
    /\ built.kept \subseteq DOMAIN built.rows

(* What the filter keeps is the top: at least the two fifths asked for,    *)
(* and nothing it drops scores as high as what it keeps (advantage_filter).*)
KeepsTheTop ==
    LET live == Live(built.rows)
    IN  /\ Cardinality(built.kept) >= Cardinality(live) - (Cardinality(live) * 60) \div 100
        /\ \A i \in built.kept, j \in live \ built.kept :
            Value(built.rows[i]) > Value(built.rows[j])

(* score.py: "a trajectory that won by deleting a failing test must never  *)
(* look like a good example".  No example of a training set comes from     *)
(* work that weakened its tests.                                           *)
WeakenedNeverTaught ==
    \A i \in built.kept :
        built.rows[i].outcome # None => ~built.rows[i].outcome.test_weakening

(* evals/README.md: the loop never trains on anything whose hash appears   *)
(* in a manifest.                                                          *)
NeverTrainsOnWithheld ==
    \A i \in built.kept : built.rows[i].about \notin already_held
=============================================================================
