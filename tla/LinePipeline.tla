---------------------------- MODULE LinePipeline ----------------------------
(***************************************************************************)
(* How one line's history becomes the rows of a version: the edge cases    *)
(* that force a model, the contest and who wins it, what a learned rule    *)
(* may change, the admission of drivers, the blend with the runner-up, the *)
(* calibration of the band on the errors of the contest, the driver        *)
(* uncertainty on top, and the clamp of lines that may not be negative.    *)
(*                                                                         *)
(* One period.  The contest itself is ModelSelection's; here its outcome   *)
(* is an input, as are the point forecast and the offsets read off the     *)
(* errors.  The realised-coverage rescaling keeps the offsets' signs and   *)
(* order and is left out.  An engine's own band contains its point.        *)
(***************************************************************************)
EXTENDS Integers, Sequences, FiniteSets, FiniteSetsExt, SequencesExt

CONSTANTS
    Engines,       \* models that may win a contest; Linear and Panel among them
    Linear,        \* the default of a short history
    Panel,         \* the cross-series model
    Driven,        \* engines that take drivers
    Broken,        \* score of a fold that failed
    NoModel,
    Points,        \* bound: point forecasts
    Offsets,       \* bound: offsets a calibration may read, lower and upper
    DriverFolds    \* bound: fold scores of the plain and the driven fit

ASSUME LineAssumption ==
    /\ {Linear, Panel} \cup Driven \subseteq Engines /\ NoModel \notin Engines
    /\ Points \subseteq Int /\ \A o \in Offsets : o[1] \in Int /\ o[2] \in Int

VARIABLES
    line,    \* the line and what the contest and the fits bring
    row      \* what is stored for it

lineVars == <<line, row>>

-----------------------------------------------------------------------------
(* Inputs *)

Histories == {"none", "zeros", "few", "short", "enough"}

LineSet ==
    {l \in [history : Histories,
            type    : {"auto", Linear},               \* model_type of the run
            listed  : {{}, {Linear}, {Panel}},        \* models_to_test
            panel   : BOOLEAN,                        \* the panel knows the line
            within  : {<<>>} \cup {<<m>> : m \in Engines} \cup {s \in Engines \X Engines : s[1] # s[2]},
            named   : Engines \cup {NoModel},         \* a tied model an active rule names
            target  : BOOLEAN,                        \* is_target_bearing is not False
            folds   : DriverFolds,
            offset  : Offsets \cup {<<>>},             \* <<>>: too few errors to calibrate on
            point   : Points,
            signed  : BOOLEAN] :                      \* allow_negative
        l.within # <<>> => l.named # Head(l.within)}

-----------------------------------------------------------------------------
(* Which model *)

\* _sparse_history_pool
SparsePool(l) ==
    LET pool == {Linear} \cup (IF l.panel THEN {Panel} ELSE {})
    IN  IF l.listed = {} THEN pool ELSE pool \cap l.listed

\* The model a history or the run dictates, if it does.
Dictated(l) ==
    CASE l.history = "zeros" -> "zero"
      [] l.history = "few"   -> "average"
      [] l.history = "short" /\ l.type = "auto" /\ Panel \notin SparsePool(l) -> Linear
      [] OTHER -> IF l.type = "auto" THEN NoModel ELSE l.type

Sparse(l) == l.history = "short" /\ l.type = "auto"

\* The models of the contest, and those left within the band, simplest first.
Pooled(l) == IF Sparse(l) THEN SparsePool(l) ELSE IF l.listed = {} THEN Engines ELSE l.listed
Tied(l)   == IF Dictated(l) = NoModel THEN SelectSeq(l.within, LAMBDA m : m \in Pooled(l)) ELSE <<>>

\* The winner of the contest or the dictated model; a contest without a finite
\* score leaves a short history its default and any other line nothing.
Winner(l) ==
    IF Dictated(l) # NoModel THEN Dictated(l)
    ELSE IF Tied(l) # <<>> THEN Head(Tied(l))
    ELSE IF Sparse(l) THEN Linear ELSE NoModel

\* _heuristic_nudge: a rule moves the choice of a line that carries no target.
Nudged(l) == Tied(l) # <<>> /\ l.named \in Pooled(l) /\ ~l.target

Selected(l) == IF Nudged(l) THEN l.named ELSE Winner(l)

-----------------------------------------------------------------------------
(* Drivers and the blend *)

\* _admit_exog_from_mode_scores: on the folds where neither fit failed, drivers
\* must beat the plain fit by a standard error of the differences and by 5 %.
Admits(folds) ==
    LET plain == folds[1]
        exog  == folds[2]
        K     == {i \in DOMAIN plain \cap DOMAIN exog : plain[i] # Broken /\ exog[i] # Broken}
        Sum(op(_)) == MapThenSumSet(op, K)
        gap   == Sum(LAMBDA i : plain[i] - exog[i])
        n     == Cardinality(K)
        spread == n * Sum(LAMBDA i : (plain[i] - exog[i]) * (plain[i] - exog[i])) - gap * gap
    IN  /\ n > 0 /\ gap > 0
        /\ 20 * gap > Sum(LAMBDA i : plain[i])
        /\ n >= 2 => gap * gap * (n - 1) > spread

UsesDrivers(l) == Selected(l) \in Driven /\ Admits(l.folds)

\* blend_partner, for a winner that stands as it is.
Blended(l) == Len(Tied(l)) = 2 /\ ~Nudged(l) /\ ~UsesDrivers(l)

Used(l) == IF Blended(l) THEN ToSet(Tied(l)) ELSE {Selected(l)}

-----------------------------------------------------------------------------
(* The band *)

\* Mutant: the errors are fetched before the rule has spoken.
ErrorsOfWinner(l) ==
    IF Blended(l) THEN ToSet(Tied(l)) ELSE {Winner(l)} \ {"zero", "average"}

\* Whose errors calibrate: residuals_for the selected model, pooled for a blend;
\* the zero and average models have had no contest.
Errors(l) ==
    IF Blended(l) THEN ToSet(Tied(l)) ELSE {Selected(l)} \ {"zero", "average"}

Point(l) == IF Selected(l) = "zero" THEN 0 ELSE l.point

AtLeastZero(l, x) == IF l.signed THEN x ELSE Max({x, 0})

\* conformal_bands and apply_bands; without errors the engine's own band.
Calibrated(l) ==
    IF l.offset # <<>> /\ Errors(l) # {}
    THEN [lower |-> AtLeastZero(l, Min({Point(l) + Min(ToSet(l.offset)), Point(l)})),
          upper |-> Max({Point(l) + Max(ToSet(l.offset)), Point(l)}), of |-> Errors(l)]
    ELSE LET half == IF Selected(l) = "zero" THEN 0 ELSE 1
         IN  [lower |-> Point(l) - half, upper |-> Point(l) + half, of |-> {}]

Distance(a, b) == IF a > b THEN a - b ELSE b - a

\* _inflate_exog_intervals: a band symmetric about the point, and wider.
Inflated(l) ==
    LET b    == Calibrated(l)
        half == 1 + Max({Distance(Point(l), b.lower), Distance(b.upper, Point(l))})
    IN  IF UsesDrivers(l) THEN [b EXCEPT !.lower = Point(l) - half, !.upper = Point(l) + half] ELSE b

\* What forecast_line_item stores: the point and the lower end are clamped.
RowOf(l) ==
    [models |-> Used(l), errors |-> Inflated(l).of,
     p10 |-> AtLeastZero(l, Inflated(l).lower), p50 |-> AtLeastZero(l, Point(l)), p90 |-> Inflated(l).upper]

NoRow == [models |-> {}, errors |-> {}, p10 |-> 0, p50 |-> 0, p90 |-> 0]

-----------------------------------------------------------------------------
(* One line *)

LineInit == line = [history |-> "none"] /\ row = NoRow

\* No actuals, no model with a finite score, or a fit that raises.
SkipForecast(l) == line' = l /\ row' = NoRow

ForecastLineItem(l) ==
    /\ l.history # "none" /\ Winner(l) # NoModel
    /\ line' = l /\ row' = RowOf(l)

LineNext ==
    /\ LineInit
    /\ \E l \in LineSet : SkipForecast(l) \/ ForecastLineItem(l)

LineSpec == LineInit /\ [][LineNext]_lineVars

-----------------------------------------------------------------------------
(* Properties *)

\* A band is calibrated on the out-of-sample errors of just the models the
\* forecast is made of, whatever a rule, a blend or a fallback has changed
\* since the contest (forecast_pipeline: "calibrating published bands with
\* another model's errors would be worse than not calibrating").
BandsOwnErrors == row.errors \in {{}, row.models}

\* interval_calibration: "Downstream code treats p10 <= p50 <= p90 as an
\* invariant".
QuantilesOrdered == row.p10 <= row.p50 /\ row.p50 <= row.p90
=============================================================================
