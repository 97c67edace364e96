------------------------------ MODULE Readings ------------------------------
(***************************************************************************)
(* The versions of one company and everyone who reads their values: the    *)
(* board pack and the executive landing, the budget bridge, the export,    *)
(* the forecast table, three comparisons, the chat summary.  Each          *)
(* aggregates the rows with a query of its own; the landing and the bridge *)
(* also choose which version to read.                                      *)
(*                                                                         *)
(* WriteRow stands for any handler that writes the row of a leaf line: it  *)
(* leaves the calculated lines at some point, without saying which         *)
(* (Overrides and LinePipeline compute them).                              *)
(***************************************************************************)
EXTENDS Integers, FiniteSets, FiniteSetsExt

CONSTANTS
    LeafLines,       \* lines a person may write
    SumLines,        \* calculated lines; they have rows too
    CategoryOf,      \* CategoryOf[l]: the category of each line
    LastMonth,       \* the months are 1 .. LastMonth
    ModelPoints,     \* ModelPoints[l]: the point a generation gives the line in each month
    Entered,         \* values and points a write may leave
    Budgeted,        \* Budgeted[l]: the active budget's total
    Materiality,     \* percent
    Unrelated,       \* no version
    MaxMade,         \* bound: versions made
    MaxWrites,       \* bound: row writes
    MaxStatusMoves   \* bound: status changes

ReadLines  == LeafLines \cup SumLines
Months     == 1 .. LastMonth
Categories == {CategoryOf[l] : l \in ReadLines}
ShelfPlaces == 1 .. MaxMade

ASSUME ReadingsAssumption ==
    /\ LastMonth \in Nat \ {0} /\ MaxMade \in Nat \ {0} /\ MaxWrites \in Nat /\ MaxStatusMoves \in Nat
    /\ IsFiniteSet(ReadLines) /\ ModelPoints \in [ReadLines -> Int] /\ Budgeted \in [ReadLines -> Int] /\ Entered \subseteq Int
    /\ Unrelated \notin ShelfPlaces

VARIABLES
    shelf,     \* shelf[v]: status, parent and published_at (0 is NULL); created in the order of v
    stock,     \* stock[v][l][m]: p50, marked (is_overridden), over (override_value, {} is NULL)
    effort,    \* writes and status changes so far
    announced  \* the version the last approval published

readingsVars == <<shelf, stock, effort, announced>>

Statuses  == {"absent", "draft", "in_review", "approved", "published", "deleted"}
StockRows == [p50 : Int, marked : BOOLEAN, over : SUBSET Int]

ReadingsTypeOK ==
    /\ shelf \in [ShelfPlaces -> [status : Statuses, parent : ShelfPlaces \cup {Unrelated}, publishedAt : 0 .. MaxStatusMoves]]
    /\ stock \in [ShelfPlaces -> [ReadLines -> [Months -> StockRows]]]
    /\ effort \in [writes : 0 .. MaxWrites, moves : 0 .. MaxStatusMoves]
    /\ announced \in ShelfPlaces \cup {Unrelated}

Plain(x) == [p50 |-> x, marked |-> FALSE, over |-> {}]
ModelRows == [l \in ReadLines |-> [mm \in Months |-> Plain(ModelPoints[l])]]

ReadingsInit ==
    /\ shelf = [v \in ShelfPlaces |-> [status |-> "absent", parent |-> Unrelated, publishedAt |-> 0]]
    /\ stock = [v \in ShelfPlaces |-> ModelRows]
    /\ effort = [writes |-> 0, moves |-> 0]
    /\ announced = Unrelated

OnShelf == {v \in ShelfPlaces : shelf[v].status \notin {"absent", "deleted"}}

NextPlace == {v \in ShelfPlaces : shelf[v].status = "absent" /\ \A u \in ShelfPlaces : u < v => shelf[u].status # "absent"}

-----------------------------------------------------------------------------
(* Writers *)

MakeVersion(c, parent, rows) ==
    /\ c \in NextPlace
    /\ shelf' = [shelf EXCEPT ![c] = [status |-> "draft", parent |-> parent, publishedAt |-> 0]]
    /\ stock' = [stock EXCEPT ![c] = rows]
    /\ UNCHANGED <<effort, announced>>

GenerateVersion(c) == MakeVersion(c, Unrelated, ModelRows)

\* clone_version_for_edit and a branch without adjustments copy every row.
CopyVersion(c, v) == v \in OnShelf /\ MakeVersion(c, v, stock[v])

\* A branch with an adjustment marks the leaves of the category and stores no
\* override value with the new point.
AdjustedBranch(c, v, k, x) ==
    /\ v \in OnShelf
    /\ MakeVersion(c, v,
          [l \in ReadLines |-> [mm \in Months |->
              IF l \in LeafLines /\ CategoryOf[l] = k
              THEN [stock[v][l][mm] EXCEPT !.p50 = x, !.marked = TRUE]
              ELSE stock[v][l][mm]]])

\* What a write leaves in the row of a leaf: an override, or a point of a row
\* that no longer has one (a reversion, a regeneration, a driver's value).
WrittenRows == {Plain(x) : x \in Entered} \cup {[p50 |-> x, marked |-> TRUE, over |-> {x}] : x \in Entered}

WriteRow(v, l, mm, r, x) ==
    /\ v \in OnShelf /\ effort.writes < MaxWrites
    /\ stock' = [stock EXCEPT ![v] = [k \in ReadLines |->
                    IF k = l THEN [@[l] EXCEPT ![mm] = r]
                    ELSE IF k \in SumLines THEN [@[k] EXCEPT ![mm].p50 = x]
                    ELSE @[k]]]
    /\ effort' = [effort EXCEPT !.writes = @ + 1]
    /\ UNCHANGED <<shelf, announced>>

Moves(v, row) ==
    /\ effort.moves < MaxStatusMoves
    /\ shelf' = [shelf EXCEPT ![v] = row]
    /\ effort' = [effort EXCEPT !.moves = @ + 1]
    /\ UNCHANGED stock

OfferVersion(v) ==
    /\ shelf[v].status = "draft" /\ Moves(v, [shelf[v] EXCEPT !.status = "in_review"])
    /\ UNCHANGED announced

ApproveVersion(v) ==
    /\ shelf[v].status = "in_review" /\ Moves(v, [shelf[v] EXCEPT !.status = "approved"])
    /\ UNCHANGED announced

\* The review skill's approval with publish; the clock is the count of moves.
PublishVersion(v) ==
    /\ shelf[v].status = "in_review"
    /\ Moves(v, [shelf[v] EXCEPT !.status = "published", !.publishedAt = effort.moves + 1])
    /\ announced' = v

ReturnVersion(v) ==
    /\ shelf[v].status = "in_review" /\ Moves(v, [shelf[v] EXCEPT !.status = "draft"])
    /\ UNCHANGED announced

\* manage_versions' update_status: any status, no date.
SetStatus(v, s) ==
    /\ v \in OnShelf /\ shelf[v].status # s /\ Moves(v, [shelf[v] EXCEPT !.status = s])
    /\ UNCHANGED announced

RemoveVersion(v) ==
    /\ shelf[v].status = "draft" /\ \A u \in OnShelf : shelf[u].parent # v
    /\ shelf' = [shelf EXCEPT ![v].status = "deleted"]
    /\ UNCHANGED <<stock, effort, announced>>

ReadingsNext ==
    \/ \E c \in ShelfPlaces : GenerateVersion(c)
    \/ \E c, v \in ShelfPlaces : CopyVersion(c, v)
    \/ \E c, v \in ShelfPlaces, k \in Categories, x \in Entered : AdjustedBranch(c, v, k, x)
    \/ \E v \in ShelfPlaces, l \in LeafLines, mm \in Months, r \in WrittenRows, x \in Entered : WriteRow(v, l, mm, r, x)
    \/ \E v \in ShelfPlaces : OfferVersion(v) \/ ApproveVersion(v) \/ PublishVersion(v) \/ ReturnVersion(v)
    \/ \E v \in ShelfPlaces, s \in {"draft", "published"} : SetStatus(v, s)
    \/ \E v \in ShelfPlaces : RemoveVersion(v)

ReadingsSpec == ReadingsInit /\ [][ReadingsNext]_readingsVars

-----------------------------------------------------------------------------
(* Readers *)

SumOver(S, of(_)) == MapThenSumSet(of, S)
TheOne(S)         == CHOOSE x \in S : TRUE

\* override_value or 0 of a marked row, as Python's `or` and SQL's SUM agree.
Held(r) == IF ~r.marked THEN r.p50 ELSE IF r.over = {} THEN 0 ELSE TheOne(r.over)

PackOver(v, k, M) ==
    SumOver({l \in ReadLines : CategoryOf[l] = k}, LAMBDA l : SumOver(M, LAMBDA mm : Held(stock[v][l][mm])))
PackTotal(v, k) == PackOver(v, k, Months)

\* SUM of the CASE: a NULL is skipped.
SumOfCase(v, l) ==
    SumOver({mm \in Months : ~stock[v][l][mm].marked \/ stock[v][l][mm].over # {}},
         LAMBDA mm : IF stock[v][l][mm].marked THEN TheOne(stock[v][l][mm].over) ELSE stock[v][l][mm].p50)

PriorOf(v) ==
    IF shelf[v].parent \in OnShelf THEN shelf[v].parent
    ELSE LET published == {u \in ShelfPlaces \ {v} : shelf[u].status \in {"published", "approved"}}
         IN  IF published = {} THEN Unrelated ELSE Max(published)

Magnitude(x) == IF x < 0 THEN -x ELSE x

BridgeRow(v, l) ==
    LET now    == SumOfCase(v, l)
        before == IF PriorOf(v) = Unrelated THEN 0 ELSE SumOfCase(PriorOf(v), l)
    IN  [forecast |-> now, prior |-> before, vsPrior |-> now - before, vsBudget |-> now - Budgeted[l],
         material |-> Budgeted[l] # 0 /\ 100 * Magnitude(now - Budgeted[l]) >= Materiality * Magnitude(Budgeted[l])]

ExportRows(v) ==
    {[line |-> l, month |-> mm,
      published |-> IF stock[v][l][mm].marked /\ stock[v][l][mm].over # {} THEN TheOne(stock[v][l][mm].over)
                    ELSE stock[v][l][mm].p50] : l \in ReadLines, mm \in Months}

ExportTotal(v, k) == SumOver({e \in ExportRows(v) : CategoryOf[e.line] = k}, LAMBDA e : e.published)

TableTotal(v, l) == SumOver(Months, LAMBDA mm : stock[v][l][mm].p50)

\* The chat summary and the commentary: the points of the first month.
SummaryTotal(v, k) == SumOver({l \in ReadLines : CategoryOf[l] = k}, LAMBDA l : stock[v][l][1].p50)

\* Percentages are kept as fractions of the base: change per base, or 0 / 100 % of it.
Pct(a, b) == IF b # 0 THEN <<a - b, Magnitude(b)>> ELSE <<0, 1>>

PanelComparison(v, u) ==
    {LET a == TableTotal(v, l) b == TableTotal(u, l)
     IN  [line |-> l, a |-> a, b |-> b, variance |-> a - b, pct |-> Pct(a, b)] : l \in ReadLines}

ChatComparison(v, u) ==
    {LET a == TableTotal(v, l) b == TableTotal(u, l)
     IN  [line |-> l, a |-> a, b |-> b, variance |-> a - b,
          pct |-> IF b = 0 /\ a # 0 THEN <<1, 1>> ELSE Pct(a, b)] : l \in ReadLines}

\* With no second version the chat takes the one created just before.
ChatPrevious(v) == IF \E u \in OnShelf : u < v THEN Max({u \in OnShelf : u < v}) ELSE Unrelated

\* Only the lines whose change is above a tenth of a percent of the base.
BranchComparison(v) ==
    LET all == {LET a == TableTotal(v, l) b == TableTotal(shelf[v].parent, l)
                IN  [line |-> l, a |-> a, b |-> b, variance |-> a - b, pct |-> Pct(a, b)] : l \in ReadLines}
    IN  {c \in all : 1000 * Magnitude(c.pct[1]) > c.pct[2]}

\* Mutant: NULL dates first, as PostgreSQL sorts a descending order by default.
LandingNullsFirst ==
    LET out      == {v \in ShelfPlaces : shelf[v].status = "published"}
        undated  == {v \in out : shelf[v].publishedAt = 0}
    IN  IF undated # {} THEN Max(undated)
        ELSE IF out = {} THEN Unrelated
        ELSE CHOOSE v \in out : \A u \in out : shelf[u].publishedAt <= shelf[v].publishedAt

\* The version the executive landing shows.
ExecutiveLanding ==
    LET out   == {v \in ShelfPlaces : shelf[v].status = "published"}
        dated == {v \in out : shelf[v].publishedAt # 0}
        open  == {v \in ShelfPlaces : shelf[v].status \in {"approved", "published", "in_review"}}
    IN  IF dated # {} THEN CHOOSE v \in dated : \A u \in dated : shelf[u].publishedAt <= shelf[v].publishedAt
        ELSE IF out # {} THEN Max(out)
        ELSE IF open # {} THEN Max(open)
        ELSE Unrelated

-----------------------------------------------------------------------------
(* Properties *)

RowsOf(v)       == {stock[v][l][mm] : l \in ReadLines, mm \in Months}
NoneHalfMade(v) == \A r \in RowsOf(v) : r.marked => r.over # {}
Untouched(v)    == \A r \in RowsOf(v) : ~r.marked

\* The board pack and the bridge always agree; the export agrees with them
\* while every override has its value; and where nothing is overridden the
\* table shows what was published, and the chat's summary its first month.
ValuesAgree ==
    \A v \in OnShelf :
        /\ \A k \in Categories :
              /\ PackTotal(v, k) = SumOver({l \in ReadLines : CategoryOf[l] = k}, LAMBDA l : BridgeRow(v, l).forecast)
              /\ NoneHalfMade(v) => ExportTotal(v, k) = PackTotal(v, k)
              /\ Untouched(v) => SummaryTotal(v, k) = PackOver(v, k, {1})
        /\ Untouched(v) => \A l \in ReadLines : TableTotal(v, l) = BridgeRow(v, l).forecast

\* A copy's bridge measures against the version it was copied from, which
\* cannot have been deleted; where nothing is overridden it shows the variance
\* the comparisons show, and the three comparisons differ only in a line whose
\* base is zero.
ComparisonsAgree ==
    \A v \in OnShelf :
        /\ shelf[v].parent # Unrelated => PriorOf(v) = shelf[v].parent
        /\ \A u \in OnShelf : \A c \in PanelComparison(v, u), d \in ChatComparison(v, u) :
              c.line = d.line => c.variance = d.variance /\ (c.b # 0 => c = d)
        /\ shelf[v].parent # Unrelated =>
              LET panel == PanelComparison(v, shelf[v].parent)  branch == BranchComparison(v)
              IN  /\ branch \subseteq panel
                  /\ \A c \in panel :
                        /\ Untouched(v) /\ Untouched(shelf[v].parent) => BridgeRow(v, c.line).vsPrior = c.variance
                        /\ c.b # 0 /\ 1000 * Magnitude(c.variance) > Magnitude(c.b) => c \in branch

\* While it stays published, the version published last is the one the
\* executive landing shows, whatever is generated, cloned or moved to
\* published by hand after it.
LandingIsLast ==
    announced \in ShelfPlaces /\ shelf[announced].status = "published" => ExecutiveLanding = announced

\* Everyone who reads a version reads the same numbers.
ReadersAgree == ValuesAgree /\ ComparisonsAgree /\ LandingIsLast
=============================================================================
