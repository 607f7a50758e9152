------------------------------- MODULE Meters -------------------------------
(***************************************************************************)
(* kernel/meters.py: the budget and quota meters of one task, driven the   *)
(* way a dispatch drives them: preflight on the contract's estimate, the   *)
(* adapter runs, charge what it really cost.  The estimate and the cost    *)
(* come from two different places (the executive's budget and the          *)
(* adapter's report), so nothing relates them.                             *)
(*                                                                         *)
(* Amounts are natural numbers of some unit; the percentage is compared    *)
(* by cross-multiplication, so there is no rounding.  A wall meter exists  *)
(* only when its limit is positive.                                        *)
(***************************************************************************)
EXTENDS Naturals, Sequences

CONSTANTS
    Limit,      \* the limit of each meter
    Amounts     \* what can be estimated or charged

Meter == {"tokens_usd", "quota_units", "wall_s"}

(* The meters preflight looks at; wall_s is charged but never checked.     *)
Guarded == {"tokens_usd", "quota_units"}

ASSUME MetersAssumption ==
    /\ Limit \in [Meter -> Nat]
    /\ Amounts \subseteq Nat

THRESHOLDS == {60, 85, 100}

VARIABLES
    spent,      \* Meter.spent
    fired,      \* Meter._fired
    inFlight,   \* a dispatch passed its preflight and was not charged yet
    told        \* the threshold events charge() has returned, in order

metersVars == <<spent, fired, inFlight, told>>

Threshold == [meter : Meter, threshold : THRESHOLDS]

MTypeOK ==
    /\ spent \in [Meter -> Nat]
    /\ fired \in [Meter -> SUBSET THRESHOLDS]
    /\ inFlight \in BOOLEAN
    /\ told \in Seq(Threshold)

MInit ==
    /\ spent = [m \in Meter |-> 0]
    /\ fired = [m \in Meter |-> {}]
    /\ inFlight = FALSE
    /\ told = << >>

WouldExceed(m, amount) == spent[m] + amount > Limit[m]

(* Mutant of Affordable: only the dollars are checked.                     *)
AffordableInDollars(usd, quota) == ~WouldExceed("tokens_usd", usd)

(* Meters.preflight raises BudgetExceeded unless this holds.               *)
Affordable(usd, quota) ==
    /\ ~WouldExceed("tokens_usd", usd)
    /\ ~WouldExceed("quota_units", quota)

(* Mutants of Crossings: a threshold is crossed only when exceeded, and one *)
(* that has fired fires again.                                             *)
CrossingsStrict(m, amount) ==
    {t \in THRESHOLDS \ fired[m] :
        Limit[m] > 0 /\ 100 * (spent[m] + amount) > t * Limit[m]}

CrossingsAgain(m, amount) ==
    {t \in THRESHOLDS : Limit[m] > 0 /\ 100 * (spent[m] + amount) >= t * Limit[m]}

(* Meter.crossings: a meter without a limit is at 0 percent for ever.      *)
Crossings(m, amount) ==
    {t \in THRESHOLDS \ fired[m] :
        Limit[m] > 0 /\ 100 * (spent[m] + amount) >= t * Limit[m]}

(* One meter's part of the list charge() returns, thresholds ascending.    *)
Notice(m, amount, t) ==
    IF t \in Crossings(m, amount) THEN <<[meter |-> m, threshold |-> t]>> ELSE << >>

Crossed(m, amount) == Notice(m, amount, 60) \o Notice(m, amount, 85) \o Notice(m, amount, 100)

Returned(cost) ==
    Crossed("tokens_usd", cost["tokens_usd"])
        \o Crossed("quota_units", cost["quota_units"])
        \o Crossed("wall_s", cost["wall_s"])

HardHalt(th) == th.threshold = 100

-----------------------------------------------------------------------------
Preflight(usd, quota) ==
    /\ ~inFlight
    /\ Affordable(usd, quota)
    /\ inFlight' = TRUE
    /\ UNCHANGED <<spent, fired, told>>

(* Meters.charge; the wall meter is None when it has no limit.             *)
Charge(cost) ==
    /\ inFlight
    /\ cost["wall_s"] = 0 \/ Limit["wall_s"] > 0
    /\ spent' = [m \in Meter |-> spent[m] + cost[m]]
    /\ fired' = [m \in Meter |-> fired[m] \cup Crossings(m, cost[m])]
    /\ told' = told \o Returned(cost)
    /\ inFlight' = FALSE

(* The adapter raised: the attempt is never charged.                       *)
Forgo ==
    /\ inFlight
    /\ inFlight' = FALSE
    /\ UNCHANGED <<spent, fired, told>>

MNext ==
    \/ \E usd, quota \in Amounts : Preflight(usd, quota)
    \/ \E cost \in [Meter -> Amounts] : Charge(cost)
    \/ Forgo

MSpec == MInit /\ [][MNext]_metersVars

-----------------------------------------------------------------------------
(* A threshold has fired exactly when spending has reached it -- however   *)
(* large the step that reached it, and for every meter that has a limit.   *)
FiredIffReached ==
    \A m \in Meter : \A t \in THRESHOLDS :
        t \in fired[m] <=> Limit[m] > 0 /\ 100 * spent[m] >= t * Limit[m]

(* The runtime hears of each fired threshold once, and of the thresholds   *)
(* of one meter in ascending order: 60 and 85 give the executive its       *)
(* chance to descope before 100 takes it away.                             *)
ToldOnceAscending ==
    /\ \A i, j \in DOMAIN told :
        i < j /\ told[i].meter = told[j].meter => told[i].threshold < told[j].threshold
    /\ \A m \in Meter : \A t \in fired[m] :
        \E i \in DOMAIN told : told[i] = [meter |-> m, threshold |-> t]
    /\ \A i \in DOMAIN told : told[i].threshold \in fired[told[i].meter]

(* Preflight bounds the damage of a wrong estimate: a guarded meter is     *)
(* overrun by one dispatch at most, so by less than what one dispatch can  *)
(* cost, however many follow.                                              *)
OverrunBounded ==
    \A m \in Guarded :
        \/ spent[m] <= Limit[m]
        \/ \E a \in Amounts : spent[m] <= Limit[m] + a /\ ~inFlight
=============================================================================
