------------------------------ MODULE Accuracy -------------------------------
(***************************************************************************)
(* How a forecast is held against what happened: the record written per    *)
(* version, line and period when actuals arrive (services/                 *)
(* accuracy_snapshot.py), and the readers of those records: the chat's     *)
(* report (domain/skills/auto_accuracy_report.py), the dashboard           *)
(* (app/api/dashboard.py), which joins rows and actuals itself while there *)
(* are none, the coverage that widens later bands, and the value metrics.  *)
(*                                                                         *)
(* Errors are whole per cent: the actuals divide a hundred.  The seasonal  *)
(* benchmark, the naive one at a longer lag, is left out.                  *)
(***************************************************************************)
EXTENDS Integers, Sequences, FiniteSets, FiniteSetsExt

CONSTANTS
    Vintages,         \* forecast versions
    BaseOf,           \* [Vintages -> Nat]: the period each was made in
    Horizon,          \* periods forecast
    ScoredLines,
    Outlook,          \* the p50 a line is first given
    Margin,           \* how far p10 and p90 are from it
    Reports,          \* what a dataset may hold: value per line and period, or Unreported
    Unreported,
    MinCycles, MinObserved,   \* below these, realized coverage has no opinion
    MaxLandings, MaxShifts    \* bounds: datasets landed, points moved

VARIABLES
    outlook,      \* forecast_line_results.p50 per cell
    landed,       \* actuals datasets, in the order they landed
    records,      \* forecast_accuracy_records per cell, or Unreported
    moved         \* versions whose points or actuals changed unscored; points moved so far

accuracyVars == <<outlook, landed, records, moved>>

-----------------------------------------------------------------------------
MonthsAhead == 1..Max({BaseOf[v] : v \in Vintages} \cup {0}) + Horizon

\* What a dataset holds, and what is recorded of a cell.
ReportTypes == [ScoredLines -> [MonthsAhead -> Int \cup {Unreported}]]
RecordTypes == [p50 : Int, actual : Int, pct : Int \cup {Unreported}, within : BOOLEAN, naive : Int \cup {Unreported}]

ASSUME AccuracyAssumption ==
    /\ IsFiniteSet(Vintages) /\ IsFiniteSet(ScoredLines)
    /\ BaseOf \in [Vintages -> Nat] /\ Horizon \in Nat /\ MinCycles \in Nat /\ MinObserved \in Nat
    /\ Outlook \in [ScoredLines -> Int] /\ Margin \in Nat
    /\ Reports \subseteq ReportTypes /\ Unreported \notin Int \cup RecordTypes
    /\ MaxLandings \in Nat /\ MaxShifts \in Nat

\* The rows: a version forecasts the periods after its base.
ScoredCells == {c \in [v : Vintages, l : ScoredLines, m : MonthsAhead] : c.m - BaseOf[c.v] \in 1..Horizon}

AccuracyInit ==
    /\ outlook = [c \in ScoredCells |-> Outlook[c.l]]
    /\ landed = <<>>
    /\ records = [c \in ScoredCells |-> Unreported]
    /\ moved = [who |-> {}, times |-> 0]

Off(a, b) == IF a < b THEN b - a ELSE a - b

\* pct_error, which an actual of zero has none of.
PctError(p50, actual) == IF actual = 0 THEN Unreported ELSE (100 * Off(p50, actual)) \div Off(actual, 0)

InBand(c, actual) == Off(Outlook[c.l], actual) <= Margin

\* The record of a cell, new or overwritten, from p50 as it now is.
RecordedFor(c, actual, naive) ==
    [p50 |-> outlook[c], actual |-> actual, pct |-> PctError(outlook[c], actual),
     within |-> InBand(c, actual), naive |-> naive]

\* The benchmark: the period before, of whichever dataset the query returns last.
Naive(data, pick, c) ==
    LET known == {i \in DOMAIN data : c.m > 1 /\ data[i][c.l][c.m - 1] # Unreported} IN
    IF known = {} THEN Unreported
    ELSE data[IF pick \in known THEN pick ELSE Min(known)][c.l][c.m - 1]

\* on_actuals_ingested for dataset i.
ScoredBy(data, i, pick) ==
    [c \in ScoredCells |->
        IF data[i][c.l][c.m] = Unreported THEN records[c] ELSE RecordedFor(c, data[i][c.l][c.m], Naive(data, pick, c))]

\* An upload or a first pull, and a pull that refreshes what it pulled before.
Arrived ==
    {Append(landed, book) : book \in IF Len(landed) < MaxLandings THEN Reports ELSE {}}

Refreshed(i, book) ==
    [landed EXCEPT ![i] = [l \in ScoredLines |->
        [m \in MonthsAhead |-> IF book[l][m] = Unreported THEN @[l][m] ELSE book[l][m]]]]

LandActuals ==
    /\ \E data \in Arrived, pick \in 1..Len(landed) + 1 :
        /\ landed' = data
        /\ records' = ScoredBy(data, Len(data), pick)
    /\ moved' = [moved EXCEPT !.who = {}]
    /\ UNCHANGED outlook

RefreshActuals ==
    /\ \E i \in DOMAIN landed, book \in Reports, pick \in DOMAIN landed :
        /\ landed' = Refreshed(i, book)
        /\ records' = ScoredBy(landed', i, pick)
    /\ moved' = [moved EXCEPT !.who = {}]
    /\ UNCHANGED outlook

\* The snapshot raises, or writes over old records only and is rolled back with the
\* notification that follows: the actuals stay, the records are as before.
LandUnscored ==
    /\ \/ landed' \in Arrived
       \/ \E i \in DOMAIN landed, book \in Reports : landed' = Refreshed(i, book)
    /\ moved' = [moved EXCEPT !.who = Vintages]
    /\ UNCHANGED <<outlook, records>>

\* A reconciliation, an ensemble or a reversion moves a point; an override does not, it is
\* kept beside the point.
ShiftPoint ==
    /\ moved.times < MaxShifts
    /\ \E c \in ScoredCells :
        /\ outlook' = [outlook EXCEPT ![c] = @ + 5]
        /\ moved' = [who |-> moved.who \cup {c.v}, times |-> moved.times + 1]
    /\ UNCHANGED <<landed, records>>

AccuracyNext == LandActuals \/ RefreshActuals \/ LandUnscored \/ ShiftPoint

AccuracySpec == AccuracyInit /\ [][AccuracyNext]_accuracyVars

-----------------------------------------------------------------------------
(* The readers *)

CellsOf(v)   == {c \in ScoredCells : c.v = v}
RecordsOf(v) == {c \in CellsOf(v) : records[c] # Unreported}

HorizonBuckets == {"1m", "2-3m", "4-6m", "7m+"}
Bucket(c) ==
    LET h == c.m - BaseOf[c.v] IN
    CASE h <= 1 -> "1m" [] h > 1 /\ h <= 3 -> "2-3m" [] h > 3 /\ h <= 6 -> "4-6m" [] h > 6 -> "7m+"

\* A mean as what is summed and over how many.
Summed(S, f) == MapThenSumSet(LAMBDA c : f[c], S)
Mean(S, f)   == [sum |-> Summed(S, f), n |-> Cardinality(S)]

HasPct(S) == {c \in S : records[c].pct # Unreported}
Mape(S)   == Mean(HasPct(S), [c \in HasPct(S) |-> records[c].pct])

\* _accuracy_summary of the chat.
ReportByHorizon(v) == [b \in HorizonBuckets |-> Mape({c \in RecordsOf(v) : Bucket(c) = b})]
ReportCoverage(v)  == Mean(RecordsOf(v), [c \in RecordsOf(v) |-> IF records[c].within THEN 1 ELSE 0])

\* _bias_analysis: the mean signed error of a line's records.
BiasOf(v, l) ==
    LET S == {c \in RecordsOf(v) : c.l = l /\ records[c].actual # 0}
        signed == [c \in S |-> (100 * (records[c].p50 - records[c].actual)) \div Off(records[c].actual, 0)]
        mean == Mean(S, signed)
    IN  IF mean.sum > 5 * mean.n THEN "over" ELSE IF mean.sum < -5 * mean.n THEN "under" ELSE "neutral"

\* get_accuracy_tracking: one item per record, or one per row and actual while there is none.
VintageItems(v) == {[cell |-> c, from |-> 0, pct |-> records[c].pct] : c \in RecordsOf(v)}
LiveItems(v) ==
    LET actual(c, i) == landed[i][c.l][c.m]
        joined == {p \in CellsOf(v) \X DOMAIN landed : actual(p[1], p[2]) \notin {Unreported, 0}}
    IN  {[cell |-> p[1], from |-> p[2], pct |-> PctError(outlook[p[1]], actual(p[1], p[2]))] : p \in joined}
DashboardItems(v) == IF RecordsOf(v) # {} THEN VintageItems(v) ELSE LiveItems(v)

PanelByHorizon(v) ==
    LET items(b) == {i \in VintageItems(v) : i.pct # Unreported /\ Bucket(i.cell) = b} IN
    [b \in HorizonBuckets |-> Mean(items(b), [i \in items(b) |-> i.pct])]

\* realized_coverage_by_line: <<hits, observations>>, or no opinion.
RealizedCoverage(l) ==
    LET S == {c \in ScoredCells : c.l = l /\ records[c] # Unreported} IN
    IF Cardinality(S) < MinObserved \/ Cardinality({c.v : c \in S}) < MinCycles THEN <<>>
    ELSE <<Cardinality({c \in S : records[c].within}), Cardinality(S)>>

\* What the forecast and the benchmark err, and what happened.
Errs(S)      == [c \in S |-> Off(records[c].p50, records[c].actual)]
NaiveErrs(S) == [c \in S |-> Off(records[c].naive, records[c].actual)]
Sizes(S)     == [c \in S |-> Off(records[c].actual, 0)]

\* compute_fva over pairs that have a benchmark: what the naive errs more, of what happened.
ValueAdded(S) ==
    <<Summed(S, NaiveErrs(S)) - Summed(S, Errs(S)), Summed(S, Sizes(S))>>

WithNaive(v)    == {c \in RecordsOf(v) : records[c].naive # Unreported}
MetricsFva(v)   == ValueAdded(WithNaive(v))

\* The dashboard subtracts two errors taken over different records unless all have one.
PanelFva(v) ==
    LET some == WithNaive(v)  all == RecordsOf(v)
    IN  <<Summed(some, NaiveErrs(some)) * Summed(all, Sizes(all)) - Summed(all, Errs(all)) * Summed(some, Sizes(some)),
          Summed(some, Sizes(some)) * Summed(all, Sizes(all))>>

-----------------------------------------------------------------------------
AccuracyTypeOK ==
    /\ outlook \in [ScoredCells -> Int]
    /\ landed \in Seq(ReportTypes)
    /\ records \in [ScoredCells -> RecordTypes \cup {Unreported}]
    /\ moved \in [who : SUBSET Vintages, times : 0..MaxShifts]

\* Every reader of a version's records tells the same error: the chat and the dashboard per
\* horizon, the coverage per line and per version; and value added, where every record has a
\* benchmark.
ReportsAgree ==
    /\ \A v \in Vintages :
        /\ RecordsOf(v) # {} => ReportByHorizon(v) = PanelByHorizon(v)
        /\ RecordsOf(v) # {} /\ WithNaive(v) = RecordsOf(v) =>
            MetricsFva(v)[1] * PanelFva(v)[2] = PanelFva(v)[1] * MetricsFva(v)[2]
        /\ \A l \in ScoredLines : BiasOf(v, l) = "over" => \E c \in RecordsOf(v) : records[c].p50 > records[c].actual
    /\ (\A l \in ScoredLines : RealizedCoverage(l) # <<>>) =>
        Summed(ScoredLines, [l \in ScoredLines |-> RealizedCoverage(l)[1]])
            = Summed(Vintages, [v \in Vintages |-> ReportCoverage(v).sum])

\* The record is what the dashboard would compute itself from rows and actuals, as long as
\* there is one dataset and nothing of the version changed without being scored.
RecordsAreLive ==
    \A v \in Vintages \ moved.who :
        Len(landed) = 1 /\ RecordsOf(v) # {}
            => {<<i.cell, i.pct>> : i \in LiveItems(v)}
                   = {<<i.cell, i.pct>> : i \in {j \in DashboardItems(v) : j.pct # Unreported}}

\* Both promises about the records.
AccuracyAgrees == ReportsAgree /\ RecordsAreLive
=============================================================================
