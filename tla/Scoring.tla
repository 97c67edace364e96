------------------------------ MODULE Scoring ------------------------------
(***************************************************************************)
(* How a stored row is judged: the confidence computed from its            *)
(* measurements, the remediation a generation or a rescoring writes, and   *)
(* the analysis the review dashboard writes over it, per line from its     *)
(* least confident period.                                                 *)
(*                                                                         *)
(* Percentages are whole numbers; confidence and risk are in tenths.  The  *)
(* counts per level and the texts are left out.  An analysis flag raised   *)
(* while the line was forecast reaches the remediation of its generation   *)
(* only.                                                                   *)
(***************************************************************************)
EXTENDS Integers, FiniteSets, FiniteSetsExt

CONSTANTS
    Rows,           \* rows of the version
    LinesJudged,    \* their lines
    Kinds,          \* model kinds with their base confidence: kind |-> base
    Measures,       \* bound: measurements a row may have
    MaxEdits        \* bound: ensembles and moves of points

NoFit == -1    \* no R-squared

ASSUME ScoringAssumption ==
    /\ MaxEdits \in Nat
    /\ {"zero", "average", "ensemble"} \subseteq DOMAIN Kinds /\ Kinds \in [DOMAIN Kinds -> 0 .. 100]
    /\ Measures \subseteq [mape : Nat, width : Nat, fit : 0 .. 100 \cup {NoFit}, off : Nat,
                           also : SUBSET {"override", "outlier"}]

VARIABLES
    judged,   \* judged[r]: its line, what is known of it, its verdict, and what that was given on
    edits

scoringVars == <<judged, edits>>

-----------------------------------------------------------------------------
(* Confidence *)

\* compute_confidence_score; what is not measured takes no part, and an error
\* of zero counts as not measured.
Confidence(kind, x) ==
    LET If(measured, weight) == IF measured THEN weight ELSE 0
        parts == { <<"mape",  If(x.mape > 0, 8),      Max({0, 100 - 5 * x.mape})>>,
                   <<"width", If(x.width > 0, 5),     Max({0, 100 - x.width})>>,
                   <<"fit",   If(x.fit # NoFit, 4),   x.fit>>,
                   <<"base",  3,                      Kinds[kind]>> }
        weight == MapThenSumSet(LAMBDA p : p[2], parts)
    IN  (20 * MapThenSumSet(LAMBDA p : p[2] * p[3], parts) + weight) \div (2 * weight)

-----------------------------------------------------------------------------
(* Verdicts *)

Recommendations == <<"approve", "review", "flag", "override", "manual_input">>

\* _generate_remediation
Remediation(kind, x, flagged) ==
    LET critical == x.mape > 20 \/ x.width > 80
        noted    == x.mape > 12 \/ x.width > 50 \/ (x.fit # NoFit /\ x.fit < 30) \/ flagged
    IN  CASE kind = "zero"    -> "manual_input"
          [] kind = "average" -> "review"
          [] OTHER -> IF critical /\ ~flagged THEN "override" ELSE IF noted THEN "review" ELSE "approve"

Step(value, high, more, low, less) == IF value > high THEN more ELSE IF value > low THEN less ELSE 0

OfConfidence(c) == IF c < 300 THEN 30 ELSE IF c < 500 THEN 15 ELSE 0
OfError(x)      == Step(x.mape, 25, 25, 15, 12)
OfBand(x)       == Step(x.width, 80, 20, 50, 10)
OfDeviation(x)  == Step(x.off, 30, 18, 15, 8)

\* Mutant: a wide band sets the risk where it should add to it.
RiskOfBand(c, x, w) ==
    LET before == IF OfBand(x) > 0 THEN OfBand(x) ELSE OfConfidence(c) + OfError(x)
    IN  Min({1000, w * (before + OfDeviation(x)) + 100 * Cardinality(x.also)})

\* The risk _ai_analyze_item adds up: four issues scaled by materiality, and
\* two that are not, a large override and an outlier among its peers.
Risk(c, x, w) ==
    Min({1000, w * (OfConfidence(c) + OfError(x) + OfBand(x) + OfDeviation(x)) + 100 * Cardinality(x.also)})

\* _ai_analyze_item
Analysis(kind, c, x, w) ==
    LET risk == Risk(c, x, w)
    IN  CASE kind = "zero"    -> "manual_input"
          [] kind = "average" -> "review"
          [] OTHER -> IF risk <= 250 THEN "approve"
                      ELSE IF risk <= 500 THEN "review"
                      ELSE IF risk <= 700 THEN "flag" ELSE "override"

-----------------------------------------------------------------------------
Verdicts == {Recommendations[i] : i \in 1 .. 5}

Known == [kind : DOMAIN Kinds, weight : {10, 12, 15}, x : Measures, confidence : 0 .. 1000, flagged : BOOLEAN]

ScoringTypeOK ==
    /\ edits \in 0 .. MaxEdits
    /\ judged \in [Rows -> [line : LinesJudged, now : Known, verdict : Verdicts,
                         on : Known, by : {"remediation", "analysis"}]]

\* A row as it is scored and judged by its remediation.
Fresh(row, flagged) ==
    LET now == [row EXCEPT !.confidence = Confidence(row.kind, row.x), !.flagged = flagged]
    IN  [now |-> now, verdict |-> Remediation(row.kind, row.x, flagged), on |-> now, by |-> "remediation"]

Judged(line, score) ==
    [line |-> line, now |-> score.now, verdict |-> score.verdict, on |-> score.on, by |-> score.by]

\* Rows as a generation writes them.
Forecast ==
    [kind : DOMAIN Kinds \ {"ensemble"}, weight : {10, 15}, x : Measures, confidence : {0}, flagged : BOOLEAN]

ScoringInit ==
    /\ edits = 0
    /\ judged \in [Rows -> {Judged(l, Fresh(row, row.flagged)) : l \in LinesJudged, row \in Forecast}]

\* rescore_forecasts, rescore_all: confidence and remediation anew, the flags gone.
Rescore ==
    /\ judged' = [r \in Rows |-> Judged(judged[r].line, Fresh(judged[r].now, FALSE))]
    /\ UNCHANGED edits

\* The score_confidence skill: the confidence alone.
ScoreConfidence ==
    /\ UNCHANGED edits
    /\ judged' = [r \in Rows |->
                  [judged[r] EXCEPT !.now.confidence = Confidence(judged[r].now.kind, judged[r].now.x)]]

Edit == edits < MaxEdits /\ edits' = edits + 1

\* run_ensemble on one line: other measurements, the confidence anew, the
\* verdict of before.
Ensemble(l, x) ==
    /\ Edit
    /\ judged' = [r \in Rows |->
                  IF judged[r].line # l THEN judged[r]
                  ELSE [judged[r] EXCEPT !.now.kind = "ensemble", !.now.x = x,
                                         !.now.confidence = Confidence("ensemble", x)]]

\* An override or a reconciliation moves the points; nothing is scored.
MovePoints(r, x) ==
    /\ x.mape = judged[r].now.x.mape /\ x.fit = judged[r].now.x.fit
    /\ Edit
    /\ judged' = [judged EXCEPT ![r].now.x = x]

\* r is a row the dashboard may judge its line by.
Worst(r) ==
    \A s \in Rows : judged[s].line = judged[r].line => judged[r].now.confidence <= judged[s].now.confidence

\* get_review_dashboard: one analysis for all rows of a line.
ReviewDashboard ==
    /\ UNCHANGED edits
    /\ \E worst \in [Rows -> Rows] :
        /\ \A r, s \in Rows :
            /\ judged[worst[r]].line = judged[r].line /\ Worst(worst[r])
            /\ judged[r].line = judged[s].line => worst[r] = worst[s]
        /\ judged' = [r \in Rows |->
                        LET v == judged[worst[r]].now
                        IN  [judged[r] EXCEPT !.verdict = Analysis(v.kind, v.confidence, v.x, v.weight),
                                              !.on = v, !.by = "analysis"]]

ScoringNext ==
    \/ Rescore \/ ScoreConfidence \/ ReviewDashboard
    \/ \E l \in LinesJudged, x \in Measures : Ensemble(l, x)
    \/ \E r \in Rows, x \in Measures : MovePoints(r, x)

ScoringSpec == ScoringInit /\ [][ScoringNext]_scoringVars

-----------------------------------------------------------------------------
(* Properties *)

\* x measures the same things as y, and each of them no better.
NoBetter(x, y) ==
    /\ (x.mape = 0) = (y.mape = 0) /\ (x.fit = NoFit) = (y.fit = NoFit) /\ (x.width = 0) = (y.width = 0)
    /\ x.mape >= y.mape /\ x.width >= y.width /\ x.fit <= y.fit /\ x.off >= y.off /\ y.also \subseteq x.also

Milder(a, b) ==
    \E i, j \in 1 .. 5 : i < j /\ Recommendations[i] = a /\ Recommendations[j] = b

\* The verdict a judge gives.
VerdictOf(by, kind, x, w, flagged) ==
    IF by = "analysis" THEN Analysis(kind, Confidence(kind, x), x, w) ELSE Remediation(kind, x, flagged)

\* A row is never judged more severely than a row of the same kind of model
\* that is no better in anything and as material would be by the same judge,
\* although the confidence the analysis reads weighs only what is measured.
\* It speaks of what a verdict was given on, where the confidence belonged to
\* the measurements; a remediation with an analysis flag is left out, for
\* there the flag turns "override" into "review".
WorseNeverMilder ==
    \A r \in Rows :
        LET a == judged[r].on
        IN  (judged[r].by = "remediation" => ~a.flagged) /\ a.confidence = Confidence(a.kind, a.x) =>
                \A x \in Measures : NoBetter(x, a.x) =>
                    ~Milder(VerdictOf(judged[r].by, a.kind, x, a.weight, FALSE), judged[r].verdict)
=============================================================================
