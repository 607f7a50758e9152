--------------------------- MODULE MC_Consolidate ---------------------------
(* Two contracts, of which a rotation takes both, or one if the other was  *)
(* taken before; two months, which are alike; outcomes on both sides of    *)
(* every rule of the score.                                                *)
EXTENDS Consolidate, TLC

Months == Permutations(Stamps)

Passed(v2, v3, cost) ==
    [v1 |-> TRUE, v2 |-> v2, v3 |-> v3, cost |-> cost,
     test_weakening |-> FALSE, out_of_scope |-> FALSE]

(* Barely passing, well passing, failing with every approval at no cost,   *)
(* and passing by a deleted test.                                          *)
Weakened == [Passed("approve", "approve", 0) EXCEPT !.test_weakening = TRUE]

MCOutcomes == {
    Passed("reject", "reject", 200),
    Passed("approve", "none", None),
    [Passed("approve", "approve", 0) EXCEPT !.v1 = FALSE],
    Weakened}

(* Of what the query misses: nothing at all, and the last of these.        *)
MCMissed == {None, Weakened}
=============================================================================
