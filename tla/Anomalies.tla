------------------------------ MODULE Anomalies ------------------------------
(***************************************************************************)
(* What is reported as anomalous of one line, by two readers with their    *)
(* own thresholds: the anomaly dashboard (app/api/dashboard.py) and the    *)
(* scan of the chat (domain/skills/detect_anomalies.py); and whom the      *)
(* nightly sweep tells (workers/arq_worker.py).                            *)
(*                                                                         *)
(* Values are whole numbers and comparisons are multiplied out.  Scores    *)
(* only rank, and the flags of the STL decomposition, floating-point and   *)
(* always the mildest, are left out.                                       *)
(***************************************************************************)
EXTENDS Integers, Sequences, FiniteSets, FiniteSetsExt, Functions

CONSTANTS
    Pasts,            \* histories of the line in the version's dataset
    Later,            \* what another dataset may hold of the line, for later periods
    Base,             \* the point forecast before anyone touches it
    Points2,          \* values a period may be moved to
    Spread,           \* p90 - p10
    Watchers,         \* people who look at the dashboard and review
    Admin,            \* the one the sweep looks as
    MaxMoves          \* bound on what is written

ASSUME AnomaliesAssumption ==
    /\ Pasts \subseteq Seq(Int) /\ Later \subseteq Seq(Int) /\ Base \in Seq(Int) /\ Points2 \subseteq Int
    /\ Admin \in Watchers /\ MaxMoves \in Nat

VARIABLES
    past,         \* actuals_records of the line in the version's dataset
    strayed,      \* those of another dataset
    ahead,        \* p50 per period
    material,     \* whether the line's share of the forecast is above a hundredth
    dismissed,    \* who dismissed the line's anomaly
    told,         \* whom a sweep told of it
    moves

anomalyVars == <<past, strayed, ahead, material, dismissed, told, moves>>

-----------------------------------------------------------------------------
(* Arithmetic *)

Abs(x) == IF x < 0 THEN -x ELSE x

Total2(s) == LET upTo[i \in 0..Len(s)] == IF i = 0 THEN 0 ELSE upTo[i - 1] + s[i] IN upTo[Len(s)]

\* The z-score of s[i] is above t hundredths, by the population's deviation.
ZAbove(s, i, t) ==
    LET n == Len(s)  total == Total2(s)
        d == [j \in DOMAIN s |-> n * s[j] - total]
        squares == Total2([j \in DOMAIN s |-> d[j] * d[j]])
    IN  squares > 0 /\ 10000 * n * d[i] * d[i] > t * t * squares

\* The k-th of the values of s in ascending order.
Sorted(s, k) == Min({x \in Range(s) : Cardinality({i \in DOMAIN s : s[i] <= x}) >= k})

\* Four times the q-th quartile, linearly interpolated (np.percentile).
Quartile4(s, q) ==
    LET at == q * (Len(s) - 1)
        k == at \div 4 + 1
    IN  Sorted(s, k) * (4 - (at % 4)) + (IF at % 4 = 0 THEN 0 ELSE Sorted(s, k + 1) * (at % 4))

\* s[i] is outside the quartiles by more than m tenths of their distance.
OutsideIqr(s, i, m) ==
    LET q1 == Quartile4(s, 1)  q3 == Quartile4(s, 3)  iqr == q3 - q1
    IN  iqr > 0 /\ (40 * s[i] < 10 * q1 - m * iqr \/ 40 * s[i] > 10 * q3 + m * iqr)

\* How far it is from the further bound, above d tenths of the distance.
BeyondIqr(s, i, m, d) ==
    LET q1 == Quartile4(s, 1)  q3 == Quartile4(s, 3)  iqr == q3 - q1
    IN  Max({Abs(40 * s[i] - 10 * q1 + m * iqr), Abs(40 * s[i] - 10 * q3 - m * iqr)}) > d * iqr

\* The least-squares line through s at x, counted from 0, times TrendScale.
TrendScale(s) == Len(s) * (Len(s) * Len(s) - 1)
TrendAt(s, x) ==
    LET n == Len(s)
        slope == 12 * Total2([j \in DOMAIN s |-> (j - 1) * s[j]]) - 6 * (n - 1) * Total2(s)
    IN  slope * x + (n * n - 1) * Total2(s) - (slope \div 2) * (n - 1)

\* a is off b by more than pct per cent of b.
OffBy(a, b, pct) == b # 0 /\ Abs(a - b) * 100 > pct * Abs(b)

-----------------------------------------------------------------------------
(* The dashboard *)

Level(critical, warning) == IF critical THEN "critical" ELSE IF warning THEN "warning" ELSE "info"
Finding(type, at, level) == [type |-> type, at |-> at, level |-> level]

ForecastJump ==
    LET last == past[Len(past)]  first == ahead[1] IN
    IF Len(past) >= 2 /\ OffBy(first, last, 20)
    THEN {Finding("forecast_jump", 1, Level(OffBy(first, last, 50), OffBy(first, last, 30)))} ELSE {}

ForecastOutliers ==
    IF Len(ahead) < 4 THEN {}
    ELSE {Finding("forecast_outlier", i, Level(ZAbove(ahead, i, 300), ZAbove(ahead, i, 250)))
            : i \in {j \in DOMAIN ahead : ZAbove(ahead, j, 200)}}

ActualsOutliers ==
    IF Len(past) < 6 THEN {}
    ELSE {Finding("actuals_outlier", i, Level(BeyondIqr(past, i, 15, 20), BeyondIqr(past, i, 15, 15)))
            : i \in {j \in DOMAIN past : OutsideIqr(past, j, 15)}}

TrendBreak ==
    LET expected == TrendAt(past, Len(past))  next == ahead[1] * TrendScale(past) IN
    IF Len(past) >= 8 /\ OffBy(next, expected, 25)
    THEN {Finding("trend_break", 1, Level(FALSE, OffBy(next, expected, 40)))} ELSE {}

\* The first period whose band is wider than 80 per cent of its point.
HighUncertainty ==
    LET wide(i, pct) == ahead[i] # 0 /\ Spread * 100 > pct * Abs(ahead[i])
        at == {i \in DOMAIN ahead : wide(i, 80)}
    IN  IF ~material \/ at = {} THEN {}
        ELSE {Finding("high_uncertainty", Min(at), Level(FALSE, wide(Min(at), 100)))}

\* What is kept of a type is its top finding, whose level no other of the type exceeds.
DashboardFindings == ForecastJump \cup ForecastOutliers \cup ActualsOutliers \cup TrendBreak \cup HighUncertainty

WorstLevel ==
    LET levels == {f.level : f \in DashboardFindings} IN
    IF levels = {} THEN "none" ELSE Level("critical" \in levels, "warning" \in levels)

-----------------------------------------------------------------------------
(* The scan *)

ThresholdsSwapped(sensitivity) ==
    CASE sensitivity = "low"    -> [z |-> 300, iqr |-> 10, pct |-> 50]
      [] sensitivity = "medium" -> [z |-> 250, iqr |-> 15, pct |-> 30]
      [] sensitivity = "high"   -> [z |-> 200, iqr |-> 20, pct |-> 20]

\* _get_thresholds: hundredths, tenths and per cent.
Thresholds(sensitivity) ==
    CASE sensitivity = "low"    -> [z |-> 300, iqr |-> 20, pct |-> 50]
      [] sensitivity = "medium" -> [z |-> 250, iqr |-> 15, pct |-> 30]
      [] sensitivity = "high"   -> [z |-> 200, iqr |-> 10, pct |-> 20]

\* _zscore_detection and _iqr_detection; _classify_severity grades by how often the score
\* exceeds the threshold, for the quartiles always 1.
ByZscore(s, source, t) ==
    IF Len(s) < 3 THEN {}
    ELSE {[source |-> source, method |-> "zscore", at |-> i, level |-> Level(ZAbove(s, i, 2 * t.z), ZAbove(s, i, (3 * t.z) \div 2))]
            : i \in {j \in DOMAIN s : ZAbove(s, j, t.z)}}

ByIqr(s, source, t) ==
    IF Len(s) < 4 THEN {}
    ELSE {[source |-> source, method |-> "iqr", at |-> i, level |-> Level(BeyondIqr(s, i, t.iqr, 20), BeyondIqr(s, i, t.iqr, 15))]
            : i \in {j \in DOMAIN s : OutsideIqr(s, j, t.iqr)}}

ByTrend(s, source, t) ==
    LET off(i, pct) == OffBy(s[i] * TrendScale(s), TrendAt(s, i - 1), pct) IN
    IF Len(s) < 4 THEN {}
    ELSE {[source |-> source, method |-> "trend_deviation", at |-> i, level |-> Level(off(i, 2 * t.pct), off(i, (3 * t.pct) \div 2))]
            : i \in {j \in DOMAIN s : off(j, t.pct)}}

\* actuals_jump, against the last value of any dataset.
ByJump(s, last, t) ==
    IF ~OffBy(s[1], last, t.pct) THEN {}
    ELSE {[source |-> "forecast", method |-> "actuals_jump", at |-> 1,
           level |-> Level(OffBy(s[1], last, 2 * t.pct), OffBy(s[1], last, (3 * t.pct) \div 2))]}

ScanActuals(t) ==
    LET s == past \o strayed IN
    IF Len(s) < 4 THEN {} ELSE ByZscore(s, "actuals", t) \cup ByIqr(s, "actuals", t) \cup ByTrend(s, "actuals", t)

ScanForecast(t) ==
    LET s == past \o strayed IN
    IF Len(ahead) < 3 THEN {}
    ELSE (IF s = <<>> THEN {} ELSE ByJump(ahead, s[Len(s)], t)) \cup ByZscore(ahead, "forecast", t) \cup ByIqr(ahead, "forecast", t)

Scan(sensitivity) == ScanActuals(Thresholds(sensitivity)) \cup ScanForecast(Thresholds(sensitivity))

-----------------------------------------------------------------------------
AnomaliesInit ==
    /\ past \in Pasts /\ strayed = <<>> /\ ahead = Base
    /\ material \in BOOLEAN
    /\ dismissed = {} /\ told = {} /\ moves = 0

\* Whatever writes a row's p50.
MovePoint ==
    /\ moves < MaxMoves /\ moves' = moves + 1
    /\ \E i \in DOMAIN ahead, v \in Points2 : ahead' = [ahead EXCEPT ![i] = v]
    /\ UNCHANGED <<past, strayed, material, dismissed, told>>

\* An upload of another dataset.
LandOther ==
    /\ moves < MaxMoves /\ moves' = moves + 1
    /\ strayed = <<>> /\ strayed' \in Later
    /\ UNCHANGED <<past, ahead, material, dismissed, told>>

\* dismiss_anomaly and undismiss_anomaly: of the line, by the row of its first period,
\* whatever is found on it.
DismissAnomaly(u) ==
    /\ u \notin dismissed
    /\ dismissed' = dismissed \cup {u}
    /\ UNCHANGED <<past, strayed, ahead, material, told, moves>>

UndismissAnomaly(u) ==
    /\ u \in dismissed
    /\ dismissed' = dismissed \ {u}
    /\ UNCHANGED <<past, strayed, ahead, material, told, moves>>

\* scheduled_anomaly_sweep: once per reviewer and line.
AnomalySweep ==
    /\ WorstLevel = "critical" /\ Admin \notin dismissed
    /\ told' = Watchers
    /\ UNCHANGED <<past, strayed, ahead, material, dismissed, moves>>

AnomaliesNext ==
    \/ MovePoint \/ LandOther \/ AnomalySweep
    \/ \E u \in Watchers : DismissAnomaly(u) \/ UndismissAnomaly(u)

AnomaliesSpec == AnomaliesInit /\ [][AnomaliesNext]_anomalyVars

-----------------------------------------------------------------------------
AnomaliesTypeOK ==
    /\ past \in Pasts /\ strayed \in Later \cup {<<>>}
    /\ ahead \in [DOMAIN Base -> Points2 \cup {Base[i] : i \in DOMAIN Base}]
    /\ material \in BOOLEAN
    /\ dismissed \subseteq Watchers /\ told \subseteq Watchers
    /\ moves \in 0..MaxMoves

Places(sensitivity) == {<<a.source, a.method, a.at>> : a \in Scan(sensitivity)}

\* Turning the sensitivity up never loses an anomaly; and what the dashboard shows of a jump
\* or an outlier, the scan finds at high sensitivity when no other dataset has a say.
AnomaliesAgree ==
    /\ Places("low") \subseteq Places("medium") /\ Places("medium") \subseteq Places("high")
    /\ strayed = <<>> /\ Len(ahead) >= 3 =>
        \A f \in DashboardFindings :
            /\ f.type = "forecast_jump"    => <<"forecast", "actuals_jump", 1>> \in Places("high")
            /\ f.type = "forecast_outlier" => <<"forecast", "zscore", f.at>> \in Places("high")
            /\ f.type = "actuals_outlier"  => <<"actuals", "iqr", f.at>> \in Places("high")
=============================================================================
