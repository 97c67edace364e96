---------------------------- MODULE Attribution ----------------------------
(***************************************************************************)
(* The change of a line between two periods, taken apart: by volume and    *)
(* price of its own quantity driver, by volume, mix and price of the lines *)
(* it is made of, and by what the last reconciliation moved; else by       *)
(* exchange rate or by the overrides.  Rows change meanwhile: a full       *)
(* reconciliation keeps the points it found, an override and an ensemble   *)
(* leave those as they are.                                                *)
(*                                                                         *)
(* Numbers are integers; prices are fractions, so each decomposition is    *)
(* stated times its common denominator.  Rounding, waterfalls and the      *)
(* percentage explained are left out.                                      *)
(***************************************************************************)
EXTENDS Integers, FiniteSets, FiniteSetsExt, Folds

CONSTANTS
    Parts,          \* lines with a quantity driver
    Whole,          \* the line they add up to
    Absent,         \* no snapshot, no override, no stored price
    Tolerance,      \* qp_coherence_tolerance, in percent
    Books,          \* bound: points of all lines at both periods
    Quantities,     \* bound: quantities of the parts
    Prices,         \* bound: stored prices
    MaxRestatements \* bound: changes of the rows

AttrLines == Parts \cup {Whole}
Ends      == {1, 2}

ASSUME AttributionAssumption ==
    /\ IsFiniteSet(Parts) /\ Whole \notin Parts /\ Absent \notin Int /\ Tolerance \in Nat /\ MaxRestatements \in Nat
    /\ Books \subseteq [AttrLines -> [Ends -> Int]]
    /\ Quantities \subseteq [Parts -> [Ends -> Int]]
    /\ Prices \subseteq [Ends -> Int] \cup {Absent}

VARIABLES
    points,    \* points[l][i]: p50, pre_reconcile_p50, override_value
    units,     \* quantities of the parts, of the scenario or of the actuals
    asp,       \* asp[l]: the stored unit price linked to a part
    restated

attributionVars == <<points, units, asp, restated>>

-----------------------------------------------------------------------------
(* Rows *)

AttributionTypeOK ==
    /\ points \in [AttrLines -> [Ends -> [p50 : Int, pre : Int \cup {Absent}, over : Int \cup {Absent}]]]
    /\ units \in Quantities /\ asp \in [Parts -> Prices] /\ restated \in 0 .. MaxRestatements

AttributionInit ==
    /\ points \in {[l \in AttrLines |-> [i \in Ends |-> [p50 |-> b[l][i], pre |-> Absent, over |-> Absent]]] : b \in Books}
    /\ units \in Quantities /\ asp \in [Parts -> Prices] /\ restated = 0

Restate(p) == restated < MaxRestatements /\ restated' = restated + 1 /\ points' = p

\* Mutant: the snapshot is taken of the first period only.
SnapshottedFirst(b) ==
    [l \in AttrLines |-> [i \in Ends |->
        [points[l][i] EXCEPT !.pre = IF i = 1 THEN points[l][i].p50 ELSE @, !.p50 = b[l][i]]]]

\* _reconcile_mint_full, on every period of the version.
Snapshotted(b) ==
    [l \in AttrLines |-> [i \in Ends |-> [points[l][i] EXCEPT !.pre = points[l][i].p50, !.p50 = b[l][i]]]]

ReconcilePoints(b) == Restate(Snapshotted(b)) /\ UNCHANGED <<units, asp>>

\* An override or its reversion; the reconciliation that follows is a step of its own.
OverridePoint(l, i, x) == Restate([points EXCEPT ![l][i].over = x]) /\ UNCHANGED <<units, asp>>

\* run_ensemble
EnsemblePoints(l, b) ==
    /\ Restate([points EXCEPT ![l] = [i \in Ends |-> [points[l][i] EXCEPT !.p50 = b[l][i]]]])
    /\ UNCHANGED <<units, asp>>

\* A scenario or an upload changes quantities.
ChangeUnits(q) == units' = q /\ UNCHANGED <<points, asp, restated>>

-----------------------------------------------------------------------------
(* Series *)

Published(l, i) == IF points[l][i].over # Absent THEN points[l][i].over ELSE points[l][i].p50

\* _line_series, with pre-reconciled points preferred.
Modelled(l, i) == IF points[l][i].pre # Absent THEN points[l][i].pre ELSE Published(l, i)

Size(x) == IF x < 0 THEN -x ELSE x

\* qp_coherence
Coherent(l) ==
    \A i \in Ends : 100 * Size(units[l][i] * asp[l][i] - Modelled(l, i)) <= Tolerance * Size(Modelled(l, i))

\* _line_qp_points finds what it needs: a stored price that fits, or none.
HasPoints(l) == asp[l] = Absent \/ Coherent(l)

\* A price derived over no quantity is NaN, and so is every bucket it enters.
Numeric(l, ends) == asp[l] = Absent => \A i \in ends : units[l][i] # 0

-----------------------------------------------------------------------------
(* Decompositions *)

\* _reconciliation_delta
OfReconciliation(l) ==
    IF \A i \in Ends : points[l][i].pre # Absent
    THEN (Published(l, 2) - Published(l, 1)) - (points[l][2].pre - points[l][1].pre)
    ELSE 0

\* Volume and price of one line, by convention.
Split(q, p, convention) ==
    IF convention = "price_first"
    THEN [volume |-> (q[2] - q[1]) * p[2], price |-> (p[2] - p[1]) * q[1]]
    ELSE [volume |-> (q[2] - q[1]) * p[1], price |-> (p[2] - p[1]) * q[2]]

\* _identity_qp_attribution of a part, times scale: a derived price is the
\* line over its quantity.
OwnBuckets(l, convention) ==
    LET q     == units[l]
        scale == IF asp[l] = Absent THEN q[1] * q[2] ELSE 1
        p     == [i \in Ends |-> IF asp[l] = Absent THEN Modelled(l, i) * q[3 - i] ELSE asp[l][i]]
        split == Split(q, p, convention)
    IN  [scale |-> scale, volume |-> split.volume, mix |-> 0, price |-> split.price,
         reconciliation |-> scale * OfReconciliation(l)]

AllUnits(i) == MapThenSumSet(LAMBDA l : units[l][i], Parts)

\* The common denominator of the derived prices of some parts.
Denominator(S) ==
    MapThenFoldSet(LAMBDA x, y : x * y, 1, LAMBDA l : IF asp[l] = Absent THEN units[l][1] ELSE 1,
                   LAMBDA s : CHOOSE l \in s : TRUE, S)

\* _identity_qp_mix_for_parent, times scale.
MixBuckets ==
    LET before == Denominator(Parts)
        scale  == AllUnits(1) * AllUnits(2) * before
        old(l) == IF asp[l] = Absent THEN Modelled(l, 1) * Denominator(Parts \ {l}) ELSE asp[l][1] * before
        atOld  == MapThenSumSet(LAMBDA l : units[l][2] * old(l), Parts)    \* new quantities at old prices
        w      == [i \in Ends |-> Modelled(Whole, i)]
    IN  [scale |-> scale,
         volume |-> (AllUnits(2) - AllUnits(1)) * w[1] * AllUnits(2) * before,
         mix    |-> atOld * AllUnits(1) * AllUnits(2) - AllUnits(2) * AllUnits(2) * w[1] * before,
         price  |-> w[2] * scale - atOld * AllUnits(1) * AllUnits(2),
         reconciliation |-> scale * OfReconciliation(Whole)]

MixAdmissible == (\A l \in Parts : HasPoints(l)) /\ AllUnits(1) # 0 /\ AllUnits(2) # 0

Explained(b) == b.volume + b.mix + b.price + b.reconciliation

AttributionNext ==
    \/ \E b \in Books : ReconcilePoints(b)
    \/ \E l \in AttrLines, i \in Ends, x \in {7, Absent} : OverridePoint(l, i, x)
    \/ \E l \in Parts, b \in Books : EnsemblePoints(l, b)
    \/ \E q \in Quantities : ChangeUnits(q)

AttributionSpec == AttributionInit /\ [][AttributionNext]_attributionVars

-----------------------------------------------------------------------------
(* Properties *)

\* Whatever happened to its rows, the volume, price, mix and reconciliation of
\* a line add up to the change of its published points, wholly when the price
\* is derived or the line is the sum of its parts, and within the coherence
\* tolerance of both ends when prices are stored.  A part whose derived price has
\* a period without a quantity is answered with buckets that are no numbers, and
\* so is the whole if that is the first period (derive_price_from_volume).
PartsAttributed ==
    \A l \in Parts, convention \in {"volume_first", "price_first"} :
        LET b     == OwnBuckets(l, convention)
            short == b.scale * (Published(l, 2) - Published(l, 1)) - Explained(b)
        IN  HasPoints(l) /\ Numeric(l, Ends) =>
                IF asp[l] = Absent THEN short = 0
                ELSE 100 * Size(short) <= Tolerance * (Size(Modelled(l, 1)) + Size(Modelled(l, 2)))

WholeAttributed ==
    MixAdmissible /\ (\A l \in Parts : Numeric(l, {1})) =>
        MixBuckets.scale * (Published(Whole, 2) - Published(Whole, 1)) = Explained(MixBuckets)

\* Both decompositions of a change explain it.
Attributed == PartsAttributed /\ WholeAttributed
=============================================================================
