--------------------------- MODULE OverridesProofs ---------------------------
(***************************************************************************)
(* The values of forecast versions and the writes over them, for any       *)
(* lines, signs, baselines, values and number of versions.                 *)
(*                                                                         *)
(* The argument is about the tables as one value: Story says that versions *)
(* descend from versions, that no entry is later than the count, and that  *)
(* every cell of a version that never went through a branch shows what its *)
(* entries say.  A recalculation or a reconciliation moves points and      *)
(* keeps every mark (SameMarks); an entry, a superseding and a reversion   *)
(* touch one cell (OtherwiseSame); a clone or a branch adds a version      *)
(* (GrownStory).  Each handler is a composition of these.                  *)
(***************************************************************************)
EXTENDS Overrides, Sums

-----------------------------------------------------------------------------
(* What the model adds up *)

OverInputs(f) == SumOf(f, Inputs)

\* Adding the same number to every input adds it as often as there are inputs.
LEMMA OverInputsShift ==
  ASSUME NEW f \in [Inputs -> Int], NEW d \in Int, NEW f1, \A x \in Inputs : f1[x] = f[x] + d
  PROVE  OverInputs(f) \in Int /\ OverInputs(f1) = OverInputs(f) + Cardinality(Inputs) * d
  <1>1. IsFiniteSet(Inputs) /\ \A x \in Inputs : f[x] \in Int /\ f1[x] = f[x] + d BY OverridesAssumption
  <1> QED BY ONLY <1>1, d \in Int, SumShift DEF OverInputs

\* The sum over the inputs is a number.
LEMMA OverInputsInt ==
  ASSUME NEW f \in [Inputs -> Int]
  PROVE  OverInputs(f) \in Int
  <1>1. \A x \in Inputs : f[x] = f[x] + 0 OBVIOUS
  <1> QED BY <1>1, OverInputsShift

\* The total computed from the points, as a sum over the inputs.
LEMMA FromP50IsSum ==
  ASSUME NEW rows
  PROVE  FromP50(rows) = OverInputs([l \in Inputs |-> Sign[l] * rows[l].p50])
  BY ZenonT(60) DEF FromP50, MapThenSumSet, MapThenFoldSet, OverInputs, SumOf

\* The total computed from what the rows hold, as a sum over the inputs.
LEMMA FromHeldIsSum ==
  ASSUME NEW rows
  PROVE  FromHeld(rows) = OverInputs([l \in Inputs |-> Sign[l] * The(Held(rows[l]))])
  BY DEF FromHeld, MapThenSumSet, MapThenFoldSet, OverInputs, SumOf

\* The total generated, as a sum over the inputs.
LEMMA BaselineIsSum ==
  MapThenSumSet(LAMBDA k : Sign[k] * Baseline[k], Inputs) = OverInputs([l \in Inputs |-> Sign[l] * Baseline[l]])
  BY DEF MapThenSumSet, MapThenFoldSet, OverInputs, SumOf

-----------------------------------------------------------------------------
(* What the handlers keep, as a property of the tables. *)

DbRows == [version : [Slots -> VersionRows], row : [Slots -> [Lines -> Cells]], log : SUBSET Entries]

ThereIn(db) == {v \in Slots : db.version[v].status # "absent"}
PlainIn(db) == {v \in ThereIn(db) : \A u \in db.version[v].lineage : db.version[u].origin \notin {"branch", "merge"}}

TracedIn(db, v, l) ==
    db.row[v][l].marked =>
        \E e \in db.log : /\ e.line = l /\ db.row[v][l].value = {e.value}
                          /\ \/ e.v = v /\ e.status = "active"
                             \/ e.v \in db.version[v].lineage /\ e.status = "submitted" /\ Applied(e)

NewestIn(db, v, l) == {e \in db.log : /\ e.v = v /\ e.line = l /\ Applied(e)
                                      /\ \A f \in db.log : f.v = v /\ f.line = l /\ Applied(f) => f.at <= e.at}

LatestIn(db, v, l) ==
    db.row[v][l].marked =>
        \A e \in NewestIn(db, v, l) : db.row[v][l].value = {e.value} /\ e.status \in {"active", "submitted"}

SingleIn(db, v, l) ==
    (\A e \in db.log : e.v = v /\ e.line = l => e.by \notin {"chat", "copy"})
        => \A e, f \in ActiveIn(db.log, v, l) : e = f

\* A version descends from versions that exist, from itself among them, and one
\* that never went through a branch has its calculated line.
Descends(db) ==
    /\ \A v \in ThereIn(db) : v \in db.version[v].lineage /\ db.version[v].lineage \subseteq ThereIn(db)
    /\ \A v \in PlainIn(db) : db.version[v].calculated

\* Every entry is of an existing version, and none is later than n.
Timely(db, n) == \A e \in db.log : e.v \in ThereIn(db) /\ e.at <= n

Story(db, n) ==
    /\ db \in DbRows /\ n \in Nat
    /\ Descends(db) /\ Timely(db, n)
    /\ \A v \in Slots, l \in Lines : SingleIn(db, v, l)
    /\ \A v \in PlainIn(db), l \in Lines : TracedIn(db, v, l) /\ LatestIn(db, v, l)

\* The inductive invariant.
OverridesInv == entered \in 0 .. MaxEntries /\ Story(Db, entered)

\* Versions are what they were, but for approval and the calculated line.
SameVersions(db, d) ==
    \A u \in Slots : /\ d.version[u].status = "absent" <=> db.version[u].status = "absent"
                     /\ d.version[u].origin = db.version[u].origin
                     /\ d.version[u].lineage = db.version[u].lineage
                     /\ db.version[u].calculated => d.version[u].calculated

SameMark(db, d, u, k) == d.row[u][k].marked = db.row[u][k].marked /\ d.row[u][k].value = db.row[u][k].value

SameMarks(db, d) ==
    /\ d \in DbRows /\ d.log = db.log /\ SameVersions(db, d)
    /\ \A u \in Slots, k \in Lines : SameMark(db, d, u, k)

\* The same versions are there, and descend alike, when no version changed.
LEMMA SameVersionsThere ==
  ASSUME NEW db, NEW d, SameVersions(db, d), NEW n, Story(db, n)
  PROVE  ThereIn(d) = ThereIn(db) /\ PlainIn(d) = PlainIn(db) /\ Descends(d)
  <1>1. ThereIn(d) = ThereIn(db) BY DEF ThereIn, SameVersions
  <1>2. Descends(db) BY DEF Story
  <1>3. ASSUME NEW v \in ThereIn(db)
        PROVE  /\ v \in Slots /\ d.version[v].lineage = db.version[v].lineage
               /\ \A u \in db.version[v].lineage : u \in Slots /\ d.version[u].origin = db.version[u].origin
    BY <1>2 DEF Descends, ThereIn, SameVersions
  <1>4. PlainIn(d) = PlainIn(db) BY <1>1, <1>3 DEF PlainIn
  <1>5. ASSUME NEW v \in PlainIn(d) PROVE d.version[v].calculated
    <2>1. v \in PlainIn(db) /\ v \in Slots BY <1>4, <1>5 DEF PlainIn, ThereIn
    <2>2. db.version[v].calculated BY <1>2, <2>1 DEF Descends
    <2> QED BY <2>1, <2>2 DEF SameVersions
  <1> QED BY <1>1, <1>2, <1>3, <1>4, <1>5 DEF Descends

\* The story holds on while no mark and no entry changes.
LEMMA SameMarksStory ==
  ASSUME NEW db, NEW d, NEW n, Story(db, n), SameMarks(db, d)
  PROVE  Story(d, n)
  <1>1. SameVersions(db, d) /\ d \in DbRows /\ d.log = db.log BY DEF SameMarks
  <1>2. ThereIn(d) = ThereIn(db) /\ PlainIn(d) = PlainIn(db) /\ Descends(d) BY <1>1, SameVersionsThere
  <1>3. Timely(d, n) BY <1>1, <1>2 DEF Story, Timely
  <1>4. ASSUME NEW v \in Slots, NEW l \in Lines PROVE SingleIn(d, v, l)
    BY <1>1 DEF Story, SingleIn
  <1>5. ASSUME NEW v \in PlainIn(d), NEW l \in Lines PROVE TracedIn(d, v, l) /\ LatestIn(d, v, l)
    <2>1. v \in Slots /\ v \in PlainIn(db) BY <1>2, <1>5 DEF PlainIn, ThereIn
    <2>2. TracedIn(db, v, l) /\ LatestIn(db, v, l) BY <2>1 DEF Story
    <2>3. SameMark(db, d, v, l) BY <2>1 DEF SameMarks
    <2>4. d.version[v].lineage = db.version[v].lineage BY <1>1, <2>1 DEF SameVersions
    <2>5. TracedIn(d, v, l) BY <1>1, <2>2, <2>3, <2>4 DEF TracedIn, SameMark
    <2>6. LatestIn(d, v, l) BY <1>1, <2>2, <2>3 DEF LatestIn, NewestIn, SameMark
    <2> QED BY <2>5, <2>6
  <1> QED BY <1>1, <1>2, <1>3, <1>4, <1>5 DEF Story

\* One cell changes, and the entries about it.
OtherwiseSame(db, d, v, l) ==
    /\ d \in DbRows /\ SameVersions(db, d)
    /\ \A u \in Slots, k \in Lines : (u # v \/ k # l) => SameMark(db, d, u, k)
    /\ \A e : (e.v # v \/ e.line # l) => (e \in d.log <=> e \in db.log)
    /\ \A e \in db.log : e.status = "submitted" => e \in d.log

\* The story holds on when one row changes and is again told by its entries.
LEMMA OtherwiseSameStory ==
  ASSUME NEW db, NEW d, NEW n, NEW m \in Nat, n <= m, Story(db, n), NEW v \in ThereIn(db), NEW l \in Lines,
         OtherwiseSame(db, d, v, l), \A e \in d.log : e.at <= m,
         SingleIn(d, v, l), v \in PlainIn(db) => TracedIn(d, v, l) /\ LatestIn(d, v, l)
  PROVE  Story(d, m)
  <1>1. SameVersions(db, d) /\ d \in DbRows BY DEF OtherwiseSame
  <1>2. ThereIn(d) = ThereIn(db) /\ PlainIn(d) = PlainIn(db) /\ Descends(d) BY <1>1, SameVersionsThere
  <1>3. Timely(d, m)
    <2>1. ASSUME NEW e \in d.log PROVE e.v \in ThereIn(d)
      <3>1. CASE e.v = v BY <1>2, <3>1
      <3>2. CASE e.v # v
        <4>1. e \in db.log BY <3>2 DEF OtherwiseSame
        <4> QED BY <1>2, <4>1 DEF Story, Timely
      <3> QED BY <3>1, <3>2
    <2> QED BY <2>1 DEF Timely
  <1>4. ASSUME NEW u \in Slots, NEW k \in Lines, u # v \/ k # l
        PROVE  \A e : e.v = u /\ e.line = k => (e \in d.log <=> e \in db.log)
    BY <1>4 DEF OtherwiseSame
  <1>5. ASSUME NEW u \in Slots, NEW k \in Lines PROVE SingleIn(d, u, k)
    <2>1. CASE u = v /\ k = l BY <2>1
    <2>2. CASE u # v \/ k # l
      <3>1. SingleIn(db, u, k) BY DEF Story
      <3>2. \A e : e.v = u /\ e.line = k => (e \in d.log <=> e \in db.log) BY <1>4, <2>2
      <3> QED BY <3>1, <3>2 DEF SingleIn, ActiveIn
    <2> QED BY <2>1, <2>2
  <1>6. ASSUME NEW u \in PlainIn(d), NEW k \in Lines PROVE TracedIn(d, u, k) /\ LatestIn(d, u, k)
    <2>0. u \in Slots /\ u \in PlainIn(db) BY <1>2, <1>6 DEF PlainIn, ThereIn
    <2>1. CASE u = v /\ k = l BY <2>0, <2>1
    <2>2. CASE u # v \/ k # l
      <3>1. TracedIn(db, u, k) /\ LatestIn(db, u, k) BY <2>0 DEF Story
      <3>2. \A e : e.v = u /\ e.line = k => (e \in d.log <=> e \in db.log) BY <1>4, <2>0, <2>2
      <3>3. SameMark(db, d, u, k) BY <2>0, <2>2 DEF OtherwiseSame
      <3>4. d.version[u].lineage = db.version[u].lineage BY <1>1, <2>0 DEF SameVersions
      <3>5. \A e \in db.log : e.status = "submitted" => e \in d.log BY DEF OtherwiseSame
      <3>6. TracedIn(d, u, k) BY <3>1, <3>2, <3>3, <3>4, <3>5 DEF TracedIn, SameMark
      <3>7. LatestIn(d, u, k) BY <3>1, <3>2, <3>3 DEF LatestIn, NewestIn, SameMark
      <3> QED BY <3>6, <3>7
    <2> QED BY <2>1, <2>2
  <1> QED BY <1>1, <1>2, <1>3, <1>5, <1>6 DEF Story

-----------------------------------------------------------------------------
(* Recalculation and reconciliation change points, never a mark. *)

RowSet == [Lines -> Cells]
SameMarksRow(rows, news) ==
    news \in RowSet /\ \A k \in Lines : news[k].marked = rows[k].marked /\ news[k].value = rows[k].value

\* The lines, and that a sign applied twice is none.
LEMMA LinesFacts ==
  /\ Inputs \subseteq Lines /\ Total \in Lines /\ Total \notin Inputs /\ Leaves \subseteq Lines
  /\ \A l \in Inputs, x \in Int : Sign[l] * x \in Int /\ Sign[l] * (Sign[l] * x) = x
  <1>1. Inputs \subseteq Lines /\ Total \in Lines /\ Total \notin Inputs /\ Leaves \subseteq Lines
    BY OverridesAssumption DEF Lines, Leaves
  <1>2. ASSUME NEW l \in Inputs, NEW x \in Int PROVE Sign[l] * x \in Int /\ Sign[l] * (Sign[l] * x) = x
    <2>1. Sign[l] = 1 \/ Sign[l] = -1 BY OverridesAssumption
    <2>2. CASE Sign[l] = 1 BY <2>2
    <2>3. CASE Sign[l] = -1 BY <2>3
    <2> QED BY <2>1, <2>2, <2>3
  <1> QED BY <1>1, <1>2

\* Writing a point leaves the mark and the value it covers alone.
LEMMA NewPoint ==
  ASSUME NEW c \in Cells, NEW x \in Int
  PROVE  [c EXCEPT !.p50 = x] \in Cells /\ [c EXCEPT !.p50 = x].marked = c.marked
         /\ [c EXCEPT !.p50 = x].value = c.value /\ [c EXCEPT !.p50 = x].p50 = x
  BY DEF Cells

\* The total and the gap are numbers; so is the total of what is held, when it
\* is held.
LEMMA SumsAreNumbers ==
  ASSUME NEW rows \in RowSet
  PROVE  FromP50(rows) \in Int /\ Gap(rows) \in Int /\ (Computable(rows) => FromHeld(rows) \in Int)
  <1>1. FromP50(rows) \in Int
    <2>1. [l \in Inputs |-> Sign[l] * rows[l].p50] \in [Inputs -> Int] BY LinesFacts DEF RowSet, Cells
    <2> QED BY <2>1, FromP50IsSum, OverInputsInt
  <1>2. ASSUME Computable(rows) PROVE FromHeld(rows) \in Int
    <2>1. ASSUME NEW l \in Inputs PROVE The(Held(rows[l])) \in Int
      <3>1. Held(rows[l]) # {} BY <1>2 DEF Computable
      <3>2. rows[l] \in Cells BY LinesFacts DEF RowSet
      <3>3. Held(rows[l]) \subseteq Int
        <4>1. CASE rows[l].marked BY <3>2, <4>1 DEF Held, Cells
        <4>2. CASE ~rows[l].marked BY <3>2, <4>2 DEF Held, Cells
        <4> QED BY <4>1, <4>2
      <3> QED BY <3>1, <3>3 DEF The
    <2>2. [l \in Inputs |-> Sign[l] * The(Held(rows[l]))] \in [Inputs -> Int] BY <2>1, LinesFacts
    <2> QED BY <2>2, FromHeldIsSum, OverInputsInt
  <1>3. rows[Total].p50 \in Int BY LinesFacts DEF RowSet, Cells
  <1> QED BY <1>1, <1>2, <1>3 DEF Gap

\* Recalculating a total leaves every mark alone.
LEMMA RecalculatedRows ==
  ASSUME NEW rows \in RowSet, NEW l \in Lines, Computable(rows)
  PROVE  SameMarksRow(rows, Recalculated(rows, l))
  <1>1. CASE l \in Inputs
    <2>1. PICK x \in Int : x = FromHeld(rows) BY SumsAreNumbers
    <2>2. Recalculated(rows, l) = [rows EXCEPT ![Total] = [rows[Total] EXCEPT !.p50 = x]]
      BY <1>1, <2>1 DEF Recalculated
    <2>3. rows[Total] \in Cells BY LinesFacts DEF RowSet
    <2>4. PICK c \in Cells : /\ c = [rows[Total] EXCEPT !.p50 = x]
                             /\ c.marked = rows[Total].marked /\ c.value = rows[Total].value
      BY <2>1, <2>3, NewPoint
    <2> QED BY <2>2, <2>4 DEF SameMarksRow, RowSet
  <1>2. CASE l \notin Inputs BY <1>2 DEF Recalculated, SameMarksRow
  <1> QED BY <1>1, <1>2

\* Quotient and remainder.
LEMMA Division ==
  ASSUME NEW a \in Int, NEW k \in Nat, k > 0, NEW q \in Int, q = a \div k, NEW r \in Int, r = a % k
  PROVE  a = k * q + r /\ r \in 0 .. k - 1
  <1>1. a = k * q + r BY Z3
  <1>2. r \in 0 .. k - 1 OBVIOUS
  <1> QED BY <1>1, <1>2

\* The projection leaves the points adding up, but for what integer division
\* drops of the gap.
LEMMA ReconciledRows ==
  ASSUME NEW rows \in RowSet
  PROVE  /\ SameMarksRow(rows, Reconciled(rows))
         /\ Gap(Reconciled(rows)) \in 0 .. Cardinality(Inputs)
         /\ Gap(rows) % (Cardinality(Inputs) + 1) = 0 => Gap(Reconciled(rows)) = 0
  <1>1. Cardinality(Inputs) \in Nat BY OverridesAssumption, FS_CardinalityType
  <1>2. PICK n \in Nat : n = Cardinality(Inputs) BY <1>1
  <1>3. PICK gap \in Int : gap = Gap(rows) BY SumsAreNumbers
  <1>4. PICK share \in Int : share = gap \div (n + 1) BY <1>2, <1>3
  <1>5. PICK news : news = Reconciled(rows) OBVIOUS
  <1>6. news = [l \in Lines |->
                   IF l \in Inputs THEN [rows[l] EXCEPT !.p50 = @ + Sign[l] * share]
                   ELSE IF l = Total THEN [rows[l] EXCEPT !.p50 = @ - share]
                   ELSE rows[l]]
    BY <1>2, <1>3, <1>4, <1>5 DEF Reconciled
  <1>7. ASSUME NEW k \in Lines
        PROVE  /\ news[k] \in Cells /\ news[k].marked = rows[k].marked /\ news[k].value = rows[k].value
               /\ k \in Inputs => news[k].p50 = rows[k].p50 + Sign[k] * share
               /\ k = Total => news[k].p50 = rows[k].p50 - share
    <2>1. rows[k] \in Cells /\ rows[k].p50 \in Int BY DEF RowSet, Cells
    <2>2. CASE k \in Inputs
      <3>1. rows[k].p50 + Sign[k] * share \in Int BY <2>1, <2>2, LinesFacts
      <3>2. news[k] = [rows[k] EXCEPT !.p50 = rows[k].p50 + Sign[k] * share] BY <1>6, <2>2
      <3>3. k # Total BY <2>2, LinesFacts
      <3> QED BY <2>1, <3>1, <3>2, <3>3, NewPoint
    <2>3. CASE k = Total
      <3>1. rows[k].p50 - share \in Int BY <2>1
      <3>2. k \notin Inputs BY <2>3, LinesFacts
      <3>3. news[k] = [rows[k] EXCEPT !.p50 = rows[k].p50 - share] BY <1>6, <2>3, <3>2
      <3> QED BY <2>1, <3>1, <3>2, <3>3, NewPoint
    <2>4. CASE k \notin Inputs /\ k # Total BY <1>6, <2>1, <2>4
    <2> QED BY <2>2, <2>3, <2>4
  <1>8. SameMarksRow(rows, news)
    <2>1. news \in RowSet BY <1>6, <1>7 DEF RowSet
    <2> QED BY <1>7, <2>1 DEF SameMarksRow
  <1>9. FromP50(news) = FromP50(rows) + n * share
    <2> DEFINE f  == [l \in Inputs |-> Sign[l] * rows[l].p50]
               f1 == [l \in Inputs |-> Sign[l] * news[l].p50]
    <2>1. f \in [Inputs -> Int] BY LinesFacts DEF RowSet, Cells
    <2>2. ASSUME NEW l \in Inputs PROVE f1[l] = f[l] + share
      <3>1. l \in Lines BY LinesFacts
      <3>2. PICK p \in Int : p = rows[l].p50 BY <3>1 DEF RowSet, Cells
      <3>3. f1[l] = Sign[l] * (p + Sign[l] * share) BY <1>7, <3>1, <3>2
      <3>4. Sign[l] = 1 \/ Sign[l] = -1 BY OverridesAssumption
      <3>5. f[l] = Sign[l] * p BY <3>2
      <3>6. CASE Sign[l] = 1 BY <3>3, <3>5, <3>6
      <3>7. CASE Sign[l] = -1 BY <3>3, <3>5, <3>7
      <3> QED BY <3>4, <3>6, <3>7
    <2>3. OverInputs(f1) = OverInputs(f) + Cardinality(Inputs) * share
      <3> HIDE DEF f, f1
      <3> QED BY <2>1, <2>2, OverInputsShift
    <2> QED BY <1>2, <2>3, FromP50IsSum
  <1>10. Gap(news) = gap - (n + 1) * share
    <2>1. PICK t, p \in Int : t = rows[Total].p50 /\ p = FromP50(rows) /\ gap = t - p
      <3>1. rows[Total].p50 \in Int BY LinesFacts DEF RowSet, Cells
      <3>2. FromP50(rows) \in Int BY SumsAreNumbers
      <3> QED BY <1>3, <3>1, <3>2 DEF Gap
    <2>2. news[Total].p50 = t - share BY <1>7, <2>1, LinesFacts
    <2>3. Gap(news) = (t - share) - (p + n * share) BY <1>9, <2>1, <2>2 DEF Gap
    <2> QED BY <1>2, <2>1, <2>3
  <1>11. gap - (n + 1) * share = gap % (n + 1) /\ gap % (n + 1) \in 0 .. n
    <2>1. PICK k \in Nat : k = n + 1 /\ k > 0 BY <1>2
    <2>2. PICK r \in Int : r = gap % k BY <2>1
    <2>3. share = gap \div k BY <1>4, <2>1
    <2>4. gap = k * share + r /\ r \in 0 .. k - 1 BY <2>1, <2>2, <2>3, Division
    <2>5. PICK p \in Int : p = k * share OBVIOUS
    <2>6. gap - k * share = r BY <2>4, <2>5
    <2>7. r \in 0 .. n BY <2>1, <2>4
    <2> QED BY <2>1, <2>2, <2>6, <2>7
  <1> QED BY <1>2, <1>3, <1>5, <1>8, <1>10, <1>11

\* The rows and the version of a place.
LEMMA DbRow ==
  ASSUME NEW db \in DbRows, NEW v \in Slots
  PROVE  db.row[v] \in RowSet /\ db.version[v] \in VersionRows
  BY DEF DbRows, RowSet

\* Nothing changed is no mark changed.
LEMMA SameMarksReflexive ==
  ASSUME NEW db \in DbRows
  PROVE  SameMarks(db, db)
  BY DEF SameMarks, SameVersions, SameMark

\* Two changes of no mark are one.
LEMMA SameMarksTransitive ==
  ASSUME NEW a, NEW b, NEW c, SameMarks(a, b), SameMarks(b, c)
  PROVE  SameMarks(a, c)
  BY DEF SameMarks, SameVersions, SameMark

\* Writing rows with the marks they had, and the calculated line.
LEMMA RowsWritten ==
  ASSUME NEW db \in DbRows, NEW v \in Slots, NEW rows, SameMarksRow(db.row[v], rows)
  PROVE  SameMarks(db, [db EXCEPT !.row[v] = rows])
  <1>1. PICK d : d = [db EXCEPT !.row[v] = rows] OBVIOUS
  <1>2. rows \in RowSet BY DEF SameMarksRow
  <1>3. /\ d.version = db.version /\ d.log = db.log /\ d.row = [db.row EXCEPT ![v] = rows]
        /\ d \in DbRows
    BY <1>1, <1>2 DEF DbRows, RowSet
  <1>4. ASSUME NEW u \in Slots, NEW k \in Lines PROVE SameMark(db, d, u, k)
    <2>1. CASE u = v
      <3>1. d.row[u] = rows BY <1>3, <2>1 DEF DbRows
      <3> QED BY <2>1, <3>1 DEF SameMarksRow, SameMark
    <2>2. CASE u # v
      <3>1. d.row[u] = db.row[u] BY <1>3, <2>2 DEF DbRows
      <3> QED BY <3>1 DEF SameMark
    <2> QED BY <2>1, <2>2
  <1> QED BY <1>1, <1>3, <1>4 DEF SameMarks, SameVersions

\* Writing that a version is calculated changes no mark.
LEMMA CalculatedWritten ==
  ASSUME NEW db \in DbRows, NEW v \in Slots, NEW yes \in BOOLEAN, db.version[v].calculated => yes
  PROVE  SameMarks(db, [db EXCEPT !.version[v].calculated = yes])
  <1>1. PICK d : d = [db EXCEPT !.version[v].calculated = yes] OBVIOUS
  <1>2. db.version[v] \in VersionRows BY DbRow
  <1>3. PICK r : r = [db.version[v] EXCEPT !.calculated = yes] OBVIOUS
  <1>4. /\ r \in VersionRows /\ r.status = db.version[v].status /\ r.origin = db.version[v].origin
        /\ r.lineage = db.version[v].lineage
    BY <1>2, <1>3 DEF VersionRows
  <1>5. r.calculated = yes BY <1>2, <1>3 DEF VersionRows
  <1>6. /\ d.version = [db.version EXCEPT ![v] = r] /\ d.log = db.log /\ d.row = db.row
        /\ d \in DbRows
    BY <1>1, <1>3, <1>4 DEF DbRows
  <1>7. ASSUME NEW u \in Slots
        PROVE  /\ d.version[u].status = "absent" <=> db.version[u].status = "absent"
               /\ d.version[u].origin = db.version[u].origin
               /\ d.version[u].lineage = db.version[u].lineage
               /\ db.version[u].calculated => d.version[u].calculated
    <2>1. CASE u = v
      <3>1. d.version[u] = r BY <1>6, <2>1 DEF DbRows
      <3>2. db.version[u].calculated => d.version[u].calculated BY <1>5, <2>1, <3>1
      <3> QED BY <1>4, <2>1, <3>1, <3>2
    <2>2. CASE u # v
      <3>1. d.version[u] = db.version[u] BY <1>6, <2>2 DEF DbRows
      <3> QED BY <3>1
    <2> QED BY <2>1, <2>2
  <1> QED BY <1>1, <1>6, <1>7 DEF SameMarks, SameVersions, SameMark

\* Reconciling changes no mark; what can be computed is computed.
LEMMA ReconcileFacts ==
  ASSUME NEW db \in DbRows, NEW v \in Slots
  PROVE  /\ SameMarks(db, ReconcileVersion(db, v))
         /\ Computable(db.row[v]) =>
               /\ ReconcileVersion(db, v).row[v] = Reconciled(db.row[v])
               /\ ReconcileVersion(db, v).version[v].calculated
  <1>1. CASE ~Computable(db.row[v]) BY <1>1, SameMarksReflexive DEF ReconcileVersion
  <1>2. CASE Computable(db.row[v])
    <2>1. PICK rows : rows = Reconciled(db.row[v]) OBVIOUS
    <2>2. SameMarksRow(db.row[v], rows) BY <2>1, DbRow, ReconciledRows
    <2>3. PICK a : a = [db EXCEPT !.row[v] = rows] OBVIOUS
    <2>4. SameMarks(db, a) BY <2>2, <2>3, RowsWritten
    <2>5. a \in DbRows BY <2>4 DEF SameMarks
    <2>6. PICK yes \in BOOLEAN : yes = TRUE OBVIOUS
    <2>7. PICK d : d = [a EXCEPT !.version[v].calculated = yes] OBVIOUS
    <2>8. SameMarks(a, d) BY <2>5, <2>6, <2>7, CalculatedWritten
    <2>9. ReconcileVersion(db, v) = d
      <3>1. ReconcileVersion(db, v) = [db EXCEPT !.row[v] = rows, !.version[v].calculated = yes]
        BY <1>2, <2>1, <2>6 DEF ReconcileVersion
      <3> QED BY <2>3, <2>7, <3>1
    <2>10. d.row[v] = rows BY <2>3, <2>7 DEF DbRows
    <2>11. d.version[v].calculated = yes BY <2>3, <2>7 DEF DbRows, VersionRows
    <2>12. d.version[v].calculated BY <2>6, <2>11
    <2> QED BY <2>1, <2>4, <2>8, <2>9, <2>10, <2>12, SameMarksTransitive
  <1> QED BY <1>1, <1>2

\* What can be computed depends on the marks alone.
LEMMA ComputableByMarks ==
  ASSUME NEW rows
  PROVE  Computable(rows) <=> \A l \in Inputs : rows[l].marked => rows[l].value # {}
  BY DEF Computable, Held

\* recalculate_and_reconcile keeps every mark.  Where it can compute and has
\* anything to do, it leaves the points of the version adding up.
LEMMA SettledFacts ==
  ASSUME NEW db \in DbRows, NEW v \in Slots, NEW l \in Lines
  PROVE  /\ SameMarks(db, Settled(db, v, l))
         /\ (Computable(db.row[v]) /\ (l \in Inputs \/ db.version[v].calculated)) =>
               Gap(Settled(db, v, l).row[v]) \in 0 .. Cardinality(Inputs)
  <1>1. CASE ~(l \in Inputs \/ db.version[v].calculated) BY <1>1, SameMarksReflexive DEF Settled
  <1>2. CASE (l \in Inputs \/ db.version[v].calculated) /\ ~Computable(db.row[v])
    <2>1. Settled(db, v, l) = ReconcileVersion(db, v) BY <1>2 DEF Settled
    <2> QED BY <1>2, <2>1, ReconcileFacts
  <1>3. CASE (l \in Inputs \/ db.version[v].calculated) /\ Computable(db.row[v])
    <2>1. PICK rows : rows = Recalculated(db.row[v], l) OBVIOUS
    <2>2. SameMarksRow(db.row[v], rows) BY <1>3, <2>1, DbRow, RecalculatedRows
    <2>3. PICK a : a = [db EXCEPT !.row[v] = rows] OBVIOUS
    <2>4. SameMarks(db, a) BY <2>2, <2>3, RowsWritten
    <2>5. a \in DbRows /\ a.row[v] = rows
      <3>1. a \in DbRows BY <2>4 DEF SameMarks
      <3>2. a.row[v] = rows BY <2>3 DEF DbRows
      <3> QED BY <3>1, <3>2
    <2>6. Settled(db, v, l) = ReconcileVersion(a, v)
      <3>1. a = [db EXCEPT !.row[v] = Recalculated(@, l)] BY <2>1, <2>3
      <3> QED BY <1>3, <3>1 DEF Settled
    <2>7. SameMarks(a, ReconcileVersion(a, v)) BY <2>5, ReconcileFacts
    <2>8. Computable(rows)
      <3>1. \A k \in Inputs : rows[k].marked = db.row[v][k].marked /\ rows[k].value = db.row[v][k].value
        BY <2>2, LinesFacts DEF SameMarksRow
      <3> QED BY <1>3, <3>1, ComputableByMarks
    <2>9. ReconcileVersion(a, v).row[v] = Reconciled(rows) BY <2>5, <2>8, ReconcileFacts
    <2>10. Gap(Reconciled(rows)) \in 0 .. Cardinality(Inputs)
      <3>1. rows \in RowSet BY <2>2 DEF SameMarksRow
      <3> QED BY <3>1, ReconciledRows
    <2> QED BY <2>4, <2>6, <2>7, <2>9, <2>10, SameMarksTransitive
  <1> QED BY <1>1, <1>2, <1>3

-----------------------------------------------------------------------------
(* New versions *)

\* A new version c tells a story of its own: its rows are any, if it went
\* through a branch; they and its records are those of v, if it is a clone.
LEMMA NewVersionFacts ==
  ASSUME NEW db, NEW n, Story(db, n), NEW v \in ThereIn(db), NEW c \in Slots \ ThereIn(db),
         NEW origin \in {"clone", "scenario", "branch", "merge"}, NEW yes \in BOOLEAN,
         NEW rows \in RowSet, NEW d, d \in DbRows,
         d.version = [db.version EXCEPT ![c] = [status |-> "draft", origin |-> origin, calculated |-> yes,
                                                lineage |-> db.version[v].lineage \cup {c}]],
         d.row = [db.row EXCEPT ![c] = rows]
  PROVE  /\ c \in ThereIn(d) /\ v \in Slots /\ v # c
         /\ \A u \in Slots : u # c =>
               /\ d.version[u] = db.version[u] /\ d.row[u] = db.row[u]
               /\ u \in ThereIn(d) <=> u \in ThereIn(db)
               /\ u \in PlainIn(d) <=> u \in PlainIn(db)
         /\ c \in PlainIn(d) => v \in PlainIn(db) /\ origin \in {"clone", "scenario"}
         /\ d.row[c] = rows
         /\ d.version[c].lineage = db.version[v].lineage \cup {c} /\ d.version[c].calculated = yes
         /\ (origin \in {"clone", "scenario"} => yes = db.version[v].calculated) => Descends(d)
  <1>1. db \in DbRows /\ Descends(db) BY DEF Story
  <1>2. v \in Slots /\ v # c /\ c \in Slots BY DEF ThereIn
  <1>3. PICK r : r = [status |-> "draft", origin |-> origin, calculated |-> yes,
                      lineage |-> db.version[v].lineage \cup {c}] OBVIOUS
  <1>4. r.status = "draft" /\ r.origin = origin /\ r.lineage = db.version[v].lineage \cup {c} BY <1>3
  <1>5. r.calculated = yes BY <1>3
  <1>6. d.version[c] = r /\ d.row[c] = rows /\ \A u \in Slots : u # c => d.version[u] = db.version[u] /\ d.row[u] = db.row[u]
    BY <1>1, <1>2, <1>3 DEF DbRows
  <1>7. c \in ThereIn(d) /\ \A u \in Slots : u # c => (u \in ThereIn(d) <=> u \in ThereIn(db))
    BY <1>2, <1>4, <1>6 DEF ThereIn
  <1>8. ASSUME NEW u \in ThereIn(db)
        PROVE  /\ u \in Slots /\ u # c /\ u \in db.version[u].lineage
               /\ \A w \in db.version[u].lineage : w \in Slots /\ w # c /\ w \in ThereIn(db)
                                                   /\ d.version[w].origin = db.version[w].origin
    <2>1. u \in Slots /\ u # c /\ u \in db.version[u].lineage /\ db.version[u].lineage \subseteq ThereIn(db)
      BY <1>1 DEF Descends, ThereIn
    <2>2. ASSUME NEW w \in ThereIn(db) PROVE w \in Slots /\ w # c /\ d.version[w].origin = db.version[w].origin
      <3>1. w \in Slots /\ w # c BY DEF ThereIn
      <3> QED BY <1>6, <3>1
    <2> QED BY <2>1, <2>2
  <1>9. ASSUME NEW u \in Slots, u # c PROVE u \in PlainIn(d) <=> u \in PlainIn(db)
    <2>1. d.version[u].lineage = db.version[u].lineage BY <1>6, <1>9
    <2>2. CASE u \in ThereIn(db) BY <1>7, <1>8, <1>9, <2>1, <2>2 DEF PlainIn
    <2>3. CASE u \notin ThereIn(db) BY <1>7, <1>9, <2>3 DEF PlainIn
    <2> QED BY <2>2, <2>3
  <1>10. ASSUME c \in PlainIn(d) PROVE v \in PlainIn(db) /\ origin \in {"clone", "scenario"}
    <2>1. \A u \in r.lineage : d.version[u].origin \notin {"branch", "merge"} BY <1>6, <1>10 DEF PlainIn
    <2>2. d.version[c].origin = origin BY <1>4, <1>6
    <2>3. origin \notin {"branch", "merge"} BY <1>4, <2>1, <2>2
    <2>4. \A u \in db.version[v].lineage : db.version[u].origin \notin {"branch", "merge"} BY <1>4, <1>8, <2>1
    <2> QED BY <2>3, <2>4 DEF PlainIn
  <1>11. ASSUME origin \in {"clone", "scenario"} => yes = db.version[v].calculated PROVE Descends(d)
    <2>1. ASSUME NEW u \in ThereIn(d) PROVE u \in d.version[u].lineage /\ d.version[u].lineage \subseteq ThereIn(d)
      <3>0. u \in Slots BY DEF ThereIn
      <3>1. CASE u = c
        <4>1. db.version[v].lineage \subseteq ThereIn(d)
          <5>1. ASSUME NEW w \in db.version[v].lineage PROVE w \in ThereIn(d) BY <1>7, <1>8
          <5> QED BY <5>1
        <4> QED BY <1>4, <1>6, <1>7, <3>1, <4>1
      <3>2. CASE u # c
        <4>1. u \in ThereIn(db) BY <1>7, <3>0, <3>2
        <4>2. d.version[u].lineage = db.version[u].lineage BY <1>6, <3>0, <3>2
        <4>3. ASSUME NEW w \in db.version[u].lineage PROVE w \in ThereIn(d) BY <1>7, <1>8, <4>1
        <4> QED BY <1>8, <4>1, <4>2, <4>3
      <3> QED BY <3>1, <3>2
    <2>2. ASSUME NEW u \in PlainIn(d) PROVE d.version[u].calculated
      <3>0. u \in Slots BY DEF PlainIn, ThereIn
      <3>1. CASE u = c
        <4>1. v \in PlainIn(db) /\ origin \in {"clone", "scenario"} BY <1>10, <2>2, <3>1
        <4>2. db.version[v].calculated BY <1>1, <4>1 DEF Descends
        <4>3. yes BY <1>11, <4>1, <4>2
        <4>4. d.version[u].calculated = yes BY <1>5, <1>6, <3>1
        <4> QED BY <4>3, <4>4
      <3>2. CASE u # c
        <4>1. u \in PlainIn(db) BY <1>9, <3>0, <3>2
        <4>2. db.version[u].calculated BY <1>1, <4>1 DEF Descends
        <4>3. d.version[u] = db.version[u] BY <1>6, <3>0, <3>2
        <4> QED BY <4>2, <4>3
      <3> QED BY <3>1, <3>2
    <2> QED BY <2>1, <2>2 DEF Descends
  <1>12. d.version[c].lineage = db.version[v].lineage \cup {c} BY <1>4, <1>6
  <1>13. d.version[c].calculated = yes BY <1>5, <1>6
  <1>14. ASSUME NEW u \in Slots, u # c PROVE d.version[u] = db.version[u] /\ d.row[u] = db.row[u] BY <1>6, <1>14
  <1>15. ASSUME NEW u \in Slots, u # c PROVE u \in ThereIn(d) <=> u \in ThereIn(db) BY <1>7, <1>15
  <1>16. d.row[c] = rows BY <1>6
  <1> HIDE DEF ThereIn, PlainIn
  <1> QED BY <1>2, <1>7, <1>9, <1>10, <1>11, <1>12, <1>13, <1>14, <1>15, <1>16

\* d is db with a version c made of v, with rows of its own and copies of records.
Grew(db, n, d, v, c, origin, yes, rows) ==
    /\ origin \in {"clone", "scenario"} => yes = db.version[v].calculated
    /\ d.version = [db.version EXCEPT ![c] = [status |-> "draft", origin |-> origin, calculated |-> yes,
                                              lineage |-> db.version[v].lineage \cup {c}]]
    /\ d.row = [db.row EXCEPT ![c] = rows]
    /\ \A e : e.v # c => (e \in d.log <=> e \in db.log)
    /\ \A e \in d.log : e.v = c => e.at <= n /\ e.by = "copy"
    /\ c \in PlainIn(d) => \A l \in Lines : TracedIn(d, c, l)

\* The story holds on when a version is made from another with rows its entries
\* tell.
LEMMA GrownStory ==
  ASSUME NEW db, NEW n, Story(db, n), NEW v \in ThereIn(db), NEW c \in Slots \ ThereIn(db),
         NEW origin \in {"clone", "scenario", "branch", "merge"}, NEW yes \in BOOLEAN,
         NEW rows \in RowSet, NEW d \in DbRows, Grew(db, n, d, v, c, origin, yes, rows)
  PROVE  Story(d, n)
  <1> USE DEF Grew
  <1>1. /\ c \in ThereIn(d) /\ v \in Slots /\ v # c /\ Descends(d)
        /\ \A u \in Slots : u # c =>
               /\ d.version[u] = db.version[u] /\ d.row[u] = db.row[u]
               /\ u \in ThereIn(d) <=> u \in ThereIn(db)
               /\ u \in PlainIn(d) <=> u \in PlainIn(db)
    BY NewVersionFacts, SMTT(60)
  <1>2. Timely(d, n)
    <2>1. ASSUME NEW e \in d.log PROVE e.v \in ThereIn(d) /\ e.at <= n
      <3>1. CASE e.v = c BY <1>1, <3>1
      <3>2. CASE e.v # c
        <4>1. e \in db.log BY <3>2
        <4>2. e.v \in ThereIn(db) /\ e.at <= n BY <4>1 DEF Story, Timely
        <4>3. e.v \in Slots BY <4>2 DEF ThereIn
        <4> QED BY <1>1, <3>2, <4>2, <4>3
      <3> QED BY <3>1, <3>2
    <2> QED BY <2>1 DEF Timely
  <1>3. ASSUME NEW u \in Slots, NEW l \in Lines PROVE SingleIn(d, u, l)
    <2>1. CASE u = c BY <2>1 DEF SingleIn, ActiveIn
    <2>2. CASE u # c
      <3>1. SingleIn(db, u, l) BY DEF Story
      <3>2. \A e : e.v = u /\ e.line = l => (e \in d.log <=> e \in db.log) BY <2>2
      <3> QED BY <3>1, <3>2 DEF SingleIn, ActiveIn
    <2> QED BY <2>1, <2>2
  <1>4. ASSUME NEW u \in PlainIn(d), NEW l \in Lines PROVE TracedIn(d, u, l) /\ LatestIn(d, u, l)
    <2>0. u \in Slots BY <1>4 DEF PlainIn, ThereIn
    <2>1. CASE u = c
      <3>1. NewestIn(d, u, l) = {} BY <2>1 DEF NewestIn, Applied
      <3> QED BY <1>4, <2>1, <3>1 DEF LatestIn
    <2>2. CASE u # c
      <3>1. u \in PlainIn(db) /\ d.row[u] = db.row[u] /\ d.version[u] = db.version[u] BY <1>1, <1>4, <2>0, <2>2
      <3>2. TracedIn(db, u, l) /\ LatestIn(db, u, l) BY <3>1 DEF Story
      <3>3. \A e : e.v = u /\ e.line = l => (e \in d.log <=> e \in db.log) BY <2>2
      <3>4. ASSUME NEW e \in db.log PROVE e \in d.log
        <4>1. e.v \in ThereIn(db) BY DEF Story, Timely
        <4>2. e.v # c BY <4>1
        <4> QED BY <4>2
      <3>5. TracedIn(d, u, l) BY <3>1, <3>2, <3>4 DEF TracedIn
      <3>6. LatestIn(d, u, l) BY <3>1, <3>2, <3>3 DEF LatestIn, NewestIn
      <3> QED BY <3>5, <3>6
    <2> QED BY <2>1, <2>2
  <1>5. d \in DbRows /\ n \in Nat BY DEF Story
  <1> QED BY <1>1, <1>2, <1>3, <1>4, <1>5 DEF Story

\* create_branch and merge_to_base: the rows are any, and no record goes along.
LEMMA BranchedStory ==
  ASSUME NEW db, NEW n, Story(db, n), NEW v \in ThereIn(db), NEW c \in Slots \ ThereIn(db),
         NEW origin \in {"branch", "merge"}, NEW rows \in RowSet
  PROVE  Story([NewVersion(db, v, c, origin) EXCEPT !.row[c] = rows], n)
  <1>1. PICK d : d = [NewVersion(db, v, c, origin) EXCEPT !.row[c] = rows] OBVIOUS
  <1>2. PICK no \in BOOLEAN : no = FALSE OBVIOUS
  <1>3. PICK r : r = [status |-> "draft", origin |-> origin, calculated |-> no,
                      lineage |-> db.version[v].lineage \cup {c}] OBVIOUS
  <1>4. db \in DbRows /\ v \in Slots /\ c \in Slots BY DEF Story, ThereIn
  <1>5. r \in VersionRows
    <2>1. db.version[v].lineage \cup {c} \in SUBSET Slots BY <1>4, DbRow DEF VersionRows
    <2> QED BY <1>3, <2>1 DEF VersionRows
  <1>6. NewVersion(db, v, c, origin) = [db EXCEPT !.version[c] = r, !.row[c] = db.row[v]]
    BY <1>2, <1>3 DEF NewVersion
  <1>7. /\ d.version = [db.version EXCEPT ![c] = r] /\ d.row = [db.row EXCEPT ![c] = rows] /\ d.log = db.log
        /\ d \in DbRows
    <2>1. PICK a : a = NewVersion(db, v, c, origin) OBVIOUS
    <2>2. /\ a.version = [db.version EXCEPT ![c] = r] /\ a.row = [db.row EXCEPT ![c] = db.row[v]]
          /\ a.log = db.log /\ a = [version |-> a.version, row |-> a.row, log |-> a.log]
      BY <1>4, <1>6, <2>1 DEF DbRows
    <2>3. /\ d.version = a.version /\ d.row = [a.row EXCEPT ![c] = rows] /\ d.log = a.log
          /\ d = [version |-> d.version, row |-> d.row, log |-> d.log]
      BY <1>1, <2>1, <2>2
    <2>4. d.row = [db.row EXCEPT ![c] = rows] BY <1>4, <2>2, <2>3 DEF DbRows
    <2>5. d.version \in [Slots -> VersionRows] BY <1>4, <1>5, <2>2, <2>3 DEF DbRows
    <2>6. d.row \in [Slots -> [Lines -> Cells]] BY <1>4, <2>4 DEF DbRows, RowSet
    <2>7. d.log \in SUBSET Entries BY <1>4, <2>2, <2>3 DEF DbRows
    <2> QED BY <2>2, <2>3, <2>4, <2>5, <2>6, <2>7 DEF DbRows
  <1>8. \A e \in d.log : e.v # c BY <1>7 DEF Story, Timely
  <1>9. c \notin PlainIn(d)
    <2>1. d.version[c] = r /\ c \in r.lineage /\ r.origin = origin BY <1>3, <1>4, <1>7 DEF DbRows
    <2> QED BY <2>1 DEF PlainIn
  <1>10. Grew(db, n, d, v, c, origin, no, rows) BY <1>3, <1>7, <1>8, <1>9 DEF Grew
  <1>11. Story(d, n) BY <1>2, <1>7, <1>10, GrownStory
  <1> QED BY <1>1, <1>11

Copy(e, c) == [e EXCEPT !.v = c, !.by = "copy"]
Copies(db, v, c) == {Copy(e, c) : e \in {e \in db.log : e.v = v /\ e.status = "active"}}

\* A copied entry says what the entry said, of another version.
LEMMA CopyFacts ==
  ASSUME NEW e \in Entries, NEW c \in Slots
  PROVE  /\ Copy(e, c) \in Entries /\ Copy(e, c).v = c /\ Copy(e, c).by = "copy" /\ Copy(e, c).at = e.at
         /\ Copy(e, c).line = e.line /\ Copy(e, c).value = e.value /\ Copy(e, c).status = e.status
  BY DEF Entries, Copy

\* clone_version_for_edit: the rows, and their active records.
LEMMA ClonedStory ==
  ASSUME NEW db, NEW n, Story(db, n), NEW v \in ThereIn(db), NEW c \in Slots \ ThereIn(db),
         NEW origin \in {"clone", "scenario"}
  PROVE  /\ Story(Cloned(db, v, c, origin), n)
         /\ c \in ThereIn(Cloned(db, v, c, origin))
         /\ Cloned(db, v, c, origin).row[c] = db.row[v]
  <1>1. PICK d : d = Cloned(db, v, c, origin) OBVIOUS
  <1>2. db \in DbRows /\ v \in Slots /\ c \in Slots BY DEF Story, ThereIn
  <1>3. PICK yes \in BOOLEAN : yes = db.version[v].calculated BY <1>2, DbRow DEF VersionRows
  <1>4. PICK r : r = [status |-> "draft", origin |-> origin, calculated |-> yes,
                      lineage |-> db.version[v].lineage \cup {c}] OBVIOUS
  <1>5. r \in VersionRows
    <2>1. db.version[v].lineage \cup {c} \in SUBSET Slots BY <1>2, DbRow DEF VersionRows
    <2> QED BY <1>4, <2>1 DEF VersionRows
  <1>6. PICK rows \in RowSet : rows = db.row[v] BY <1>2, DbRow
  <1>7. PICK copies : copies = Copies(db, v, c) OBVIOUS
  <1>8. copies \subseteq Entries /\ \A e \in copies : e.v = c /\ e.by = "copy" /\ e.at <= n
    <2>1. ASSUME NEW e \in db.log
          PROVE  Copy(e, c) \in Entries /\ Copy(e, c).v = c /\ Copy(e, c).by = "copy" /\ Copy(e, c).at <= n
      <3>1. e \in Entries BY <1>2 DEF DbRows
      <3>2. e.at <= n BY DEF Story, Timely
      <3> QED BY <1>2, <3>1, <3>2, CopyFacts
    <2> QED BY <1>7, <2>1 DEF Copies
  <1>9. PICK a : a = NewVersion(db, v, c, origin) OBVIOUS
  <1>10. /\ a.version = [db.version EXCEPT ![c] = [status |-> "draft", origin |-> origin, calculated |-> FALSE,
                                                   lineage |-> db.version[v].lineage \cup {c}]]
         /\ a.row = [db.row EXCEPT ![c] = rows] /\ a.log = db.log
         /\ a = [version |-> a.version, row |-> a.row, log |-> a.log]
    BY <1>2, <1>6, <1>9 DEF NewVersion, DbRows
  <1>11. d = [a EXCEPT !.version[c].calculated = yes, !.log = @ \cup copies]
    BY <1>1, <1>3, <1>7, <1>9 DEF Cloned, Copies, Copy
  <1>12. [a.version EXCEPT ![c].calculated = yes] = [db.version EXCEPT ![c] = r]
    <2>1. PICK no : no = FALSE OBVIOUS
    <2>2. PICK q : q = [status |-> "draft", origin |-> origin, calculated |-> no,
                        lineage |-> db.version[v].lineage \cup {c}] OBVIOUS
    <2>3. a.version = [db.version EXCEPT ![c] = q] BY <1>10, <2>1, <2>2
    <2>4. [q EXCEPT !.calculated = yes] = r
      <3>1. PICK kin : kin = db.version[v].lineage \cup {c} OBVIOUS
      <3>2. q = [status |-> "draft", origin |-> origin, calculated |-> no, lineage |-> kin] BY <2>2, <3>1
      <3>3. r = [status |-> "draft", origin |-> origin, calculated |-> yes, lineage |-> kin] BY <1>4, <3>1
      <3> QED BY ONLY <3>2, <3>3
    <2>5. [a.version EXCEPT ![c].calculated = yes] = [a.version EXCEPT ![c] = r] BY <1>2, <2>3, <2>4 DEF DbRows
    <2> QED BY <1>2, <2>3, <2>5 DEF DbRows
  <1>13. /\ d.version = [db.version EXCEPT ![c] = r] /\ d.row = [db.row EXCEPT ![c] = rows]
         /\ d.log = db.log \cup copies
    BY <1>10, <1>11, <1>12
  <1>14. d \in DbRows
    <2>1. d = [version |-> d.version, row |-> d.row, log |-> d.log] BY <1>10, <1>11
    <2>2. d.version \in [Slots -> VersionRows] BY <1>2, <1>5, <1>13 DEF DbRows
    <2>3. d.row \in [Slots -> [Lines -> Cells]] BY <1>2, <1>13 DEF DbRows, RowSet
    <2>4. d.log \in SUBSET Entries BY <1>2, <1>8, <1>13 DEF DbRows
    <2> QED BY <2>1, <2>2, <2>3, <2>4 DEF DbRows
  <1>15. /\ c \in ThereIn(d) /\ d.row[c] = rows /\ d.version[c].lineage = db.version[v].lineage \cup {c}
         /\ c \in PlainIn(d) => v \in PlainIn(db)
    <2>1. d.version = [db.version EXCEPT ![c] = [status |-> "draft", origin |-> origin, calculated |-> yes,
                                                 lineage |-> db.version[v].lineage \cup {c}]]
      BY <1>4, <1>13
    <2>2. d.row = [db.row EXCEPT ![c] = rows] BY <1>13
    <2>3. origin \in {"clone", "scenario", "branch", "merge"} OBVIOUS
    <2>4. PICK p, o : p = yes /\ o = origin OBVIOUS
    <2>5. p \in BOOLEAN /\ o \in {"clone", "scenario", "branch", "merge"} BY <2>4
    <2>6. d.version = [db.version EXCEPT ![c] = [status |-> "draft", origin |-> o, calculated |-> p,
                                                 lineage |-> db.version[v].lineage \cup {c}]]
      BY <2>1, <2>4
    <2>7. c \in ThereIn(d) BY <1>14, <2>2, <2>5, <2>6, NewVersionFacts, SMTT(60)
    <2>8. d.row[c] = rows BY <1>2, <2>2 DEF DbRows
    <2>9. c \in PlainIn(d) => v \in PlainIn(db) BY <1>14, <2>2, <2>5, <2>6, NewVersionFacts, SMTT(60)
    <2>10. d.version[c].lineage = db.version[v].lineage \cup {c}
      <3>1. d.version[c] = r BY <1>2, <1>13 DEF DbRows
      <3> QED BY <1>4, <3>1
    <2> QED BY <2>7, <2>8, <2>9, <2>10
  <1>16. \A e \in db.log : e.v # c BY DEF Story, Timely
  <1>17. \A e : e.v # c => (e \in d.log <=> e \in db.log) BY <1>8, <1>13
  <1>18. \A e \in d.log : e.v = c => e.at <= n /\ e.by = "copy" BY <1>8, <1>13, <1>16
  <1>19. ASSUME c \in PlainIn(d), NEW l \in Lines PROVE TracedIn(d, c, l)
    <2>1. SUFFICES ASSUME rows[l].marked PROVE TracedIn(d, c, l) BY <1>15 DEF TracedIn
    <2>2. TracedIn(db, v, l) BY <1>15, <1>19 DEF Story
    <2>3. PICK e \in db.log : /\ e.line = l /\ rows[l].value = {e.value}
                              /\ \/ e.v = v /\ e.status = "active"
                                 \/ e.v \in db.version[v].lineage /\ e.status = "submitted" /\ Applied(e)
      BY <1>6, <2>1, <2>2 DEF TracedIn
    <2>4. CASE e.v = v /\ e.status = "active"
      <3>1. e \in Entries BY <1>2 DEF DbRows
      <3>2. PICK f : f = Copy(e, c) OBVIOUS
      <3>3. f \in d.log BY <1>7, <1>13, <2>4, <3>2 DEF Copies
      <3>4. f.v = c /\ f.line = l /\ f.value = e.value /\ f.status = "active" BY <1>2, <2>3, <2>4, <3>1, <3>2, CopyFacts
      <3> QED BY <1>15, <2>3, <3>3, <3>4 DEF TracedIn
    <2>5. CASE e.v \in db.version[v].lineage /\ e.status = "submitted"
      <3>1. e \in d.log /\ e.v \in d.version[c].lineage BY <1>13, <1>15, <2>5
      <3> QED BY <1>15, <2>3, <2>5, <3>1 DEF TracedIn
    <2> QED BY <2>3, <2>4, <2>5
  <1>20. Story(d, n)
    <2>1. d.version = [db.version EXCEPT ![c] = [status |-> "draft", origin |-> origin, calculated |-> yes,
                                                 lineage |-> db.version[v].lineage \cup {c}]]
      BY <1>4, <1>13
    <2>2. d.row = [db.row EXCEPT ![c] = rows] BY <1>13
    <2>3. c \in PlainIn(d) => \A l \in Lines : TracedIn(d, c, l) BY <1>19
    <2>4. Grew(db, n, d, v, c, origin, yes, rows) BY <1>3, <1>14, <1>17, <1>18, <2>1, <2>2, <2>3 DEF Grew
    <2>5. origin \in {"clone", "scenario", "branch", "merge"} /\ d \in DbRows /\ yes \in BOOLEAN /\ rows \in RowSet
      BY <1>3, <1>14, <1>17, <1>18
    <2> QED BY <2>4, <2>5, GrownStory
  <1> QED BY <1>1, <1>6, <1>15, <1>20

-----------------------------------------------------------------------------
(* The handlers *)

\* The database is the variables together.
LEMMA DbFacts ==
  /\ Existing = ThereIn(Db) /\ Unbranched = PlainIn(Db)
  /\ Db.version = version /\ Db.row = row /\ Db.log = log
  BY DEF Existing, Unbranched, ThereIn, PlainIn, Db

\* The invariant holds of what is stored when its story holds.
LEMMA StoredInv ==
  ASSUME NEW d, Store(d), NEW m, entered' = m, m \in 0 .. MaxEntries, Story(d, m)
  PROVE  OverridesInv' /\ Db' = d
  <1>1. Db' = d BY DEF Db, Store, Story, DbRows
  <1> QED BY <1>1 DEF OverridesInv

\* The bound on entries, and their number going up.
LEMMA EnterFacts ==
  ASSUME OverridesInv, Enter
  PROVE  entered \in Nat /\ entered + 1 \in Nat /\ entered <= entered + 1
         /\ entered' = entered + 1 /\ entered' \in 0 .. MaxEntries
  BY OverridesAssumption DEF OverridesInv, Enter

\* A free place has no version.
LEMMA FreeFacts ==
  ASSUME NEW c, Free(c)
  PROVE  c \in Slots \ ThereIn(Db)
  BY DbFacts DEF Free

\* One cell is written.
LEMMA CellWritten ==
  ASSUME NEW db \in DbRows, NEW v \in Slots, NEW l \in Lines, NEW cell \in Cells
  PROVE  /\ [db EXCEPT !.row[v][l] = cell] \in DbRows
         /\ [db EXCEPT !.row[v][l] = cell].version = db.version
         /\ [db EXCEPT !.row[v][l] = cell].log = db.log
         /\ [db EXCEPT !.row[v][l] = cell].row[v][l] = cell
         /\ \A u \in Slots, k \in Lines : (u # v \/ k # l) => [db EXCEPT !.row[v][l] = cell].row[u][k] = db.row[u][k]
  <1>1. PICK rows : rows = [db.row[v] EXCEPT ![l] = cell] OBVIOUS
  <1>2. db.row[v] \in [Lines -> Cells] BY DbRow DEF RowSet
  <1>3. rows \in [Lines -> Cells] /\ rows[l] = cell /\ \A k \in Lines : k # l => rows[k] = db.row[v][k]
    BY <1>1, <1>2
  <1>4. PICK d : d = [db EXCEPT !.row[v][l] = cell] OBVIOUS
  <1>5. d = [db EXCEPT !.row = [db.row EXCEPT ![v] = rows]] BY <1>1, <1>4
  <1>6. d.version = db.version /\ d.log = db.log /\ d.row = [db.row EXCEPT ![v] = rows] /\ d \in DbRows
    BY <1>3, <1>5 DEF DbRows
  <1>7. d.row[v] = rows /\ \A u \in Slots : u # v => d.row[u] = db.row[u] BY <1>6 DEF DbRows
  <1> QED BY <1>3, <1>4, <1>6, <1>7

\* A marked row is a row that covers one value.
LEMMA MarkFacts ==
  ASSUME NEW c \in Cells, NEW x \in Int
  PROVE  Mark(c, x) \in Cells /\ Mark(c, x).marked /\ Mark(c, x).value = {x}
  <1>1. PICK yes \in BOOLEAN : yes = TRUE OBVIOUS
  <1>2. PICK r : r = [c EXCEPT !.marked = yes, !.value = {x}] OBVIOUS
  <1>3. r \in Cells /\ r.value = {x} BY <1>2 DEF Cells
  <1>4. r.marked = yes BY <1>2 DEF Cells
  <1> QED BY <1>1, <1>2, <1>3, <1>4 DEF Mark

\* A restored row is a row without a mark.
LEMMA RestoredFacts ==
  ASSUME NEW c, NEW e \in Entries
  PROVE  Restored(c, e) \in Cells /\ ~Restored(c, e).marked
  <1>1. PICK no \in BOOLEAN : no = FALSE OBVIOUS
  <1>2. PICK r : r = [p50 |-> e.original, marked |-> no, value |-> {}] OBVIOUS
  <1>3. r \in Cells BY <1>2 DEF Cells, Entries
  <1>4. r.marked = no BY <1>2
  <1> QED BY <1>1, <1>2, <1>3, <1>4 DEF Restored

Shows(d, v, l, x)     == d.row[v][l].marked /\ d.row[v][l].value = {x}
Elsewhere(db, d, v, l) == \A u \in Slots, k \in Lines : (u # v \/ k # l) => SameMark(db, d, u, k)

\* The entry of x at time n in a cell, as a writer makes it.
MadeOf(e, v, l, x, n) ==
    /\ e \in Entries /\ e.v = v /\ e.line = l /\ e.value = x /\ e.at = n
    /\ Applied(e) /\ e.status \in {"active", "submitted"}

\* The entries of db, but that some about the cell may have been superseded.
Older(db, entries, v, l, n) ==
    /\ entries \subseteq Entries
    /\ \A e : (e.v # v \/ e.line # l) => (e \in entries <=> e \in db.log)
    /\ \A e \in db.log : e.status = "submitted" => e \in entries
    /\ \A e \in entries : e.at <= n

\* The story holds on when the row shows the new entry and those before it are
\* older.
LEMMA EnteredStory ==
  ASSUME NEW db, NEW n \in Nat, Story(db, n), NEW v \in ThereIn(db), NEW l \in Lines, NEW x,
         NEW entry, MadeOf(entry, v, l, x, n + 1), NEW entries, Older(db, entries, v, l, n),
         NEW d \in DbRows, SameVersions(db, d), d.log = entries \cup {entry},
         Shows(d, v, l, x), Elsewhere(db, d, v, l), SingleIn(d, v, l)
  PROVE  Story(d, n + 1)
  <1>1. v \in Slots /\ db.version[v].lineage = d.version[v].lineage BY DEF ThereIn, SameVersions
  <1>2. OtherwiseSame(db, d, v, l) BY DEF OtherwiseSame, Older, MadeOf, Elsewhere
  <1>3. n + 1 \in Nat /\ n <= n + 1 OBVIOUS
  <1>4. \A e \in d.log : e.at <= n + 1
    <2>1. ASSUME NEW e \in entries PROVE e.at <= n + 1
      <3>1. e.at \in Nat /\ e.at <= n BY DEF Entries, Older
      <3> QED BY <3>1
    <2>2. entry.at = n + 1 BY DEF MadeOf
    <2> QED BY <1>3, <2>1, <2>2
  <1>5. TracedIn(d, v, l)
    <2>1. v \in d.version[v].lineage BY <1>1 DEF Story, Descends
    <2>2. entry \in d.log OBVIOUS
    <2> QED BY <2>1, <2>2 DEF TracedIn, MadeOf, Shows
  <1>6. LatestIn(d, v, l)
    <2>0. entry.v = v /\ entry.line = l /\ Applied(entry) /\ entry \in d.log BY DEF MadeOf
    <2>1. ASSUME NEW e \in NewestIn(d, v, l) PROVE e = entry
      <3>1. e \in d.log /\ entry.at <= e.at BY <2>0 DEF NewestIn
      <3>2. CASE e \in entries
        <4>1. e.at \in Nat /\ e.at <= n BY <3>2 DEF Entries, Older
        <4>2. entry.at = n + 1 BY DEF MadeOf
        <4> QED BY <3>1, <4>1, <4>2
      <3> QED BY <3>1, <3>2
    <2> QED BY <2>1 DEF LatestIn, Shows, MadeOf
  <1> QED BY <1>2, <1>3, <1>4, <1>5, <1>6, OtherwiseSameStory

\* A new entry is an entry that says what it was made of.
LEMMA EntryFacts ==
  ASSUME NEW v \in Slots, NEW l \in Lines, NEW by \in {"chat", "inline", "driver", "copy"},
         NEW original \in Int, NEW x \in Int, NEW status \in {"active", "superseded", "reverted", "submitted"},
         entered + 1 \in Nat
  PROVE  /\ Entry(v, l, by, original, x, status) \in Entries
         /\ Entry(v, l, by, original, x, status).v = v /\ Entry(v, l, by, original, x, status).line = l
         /\ Entry(v, l, by, original, x, status).value = x /\ Entry(v, l, by, original, x, status).at = entered + 1
         /\ Entry(v, l, by, original, x, status).by = by /\ Entry(v, l, by, original, x, status).status = status
         /\ Entry(v, l, by, original, x, status).original = original
  BY DEF Entry, Entries

\* d is db with an entry of x in a cell.
WithEntry(db, d, v, l, x, e) ==
    /\ d \in DbRows /\ d.version = db.version /\ d.log = db.log \cup {e}
    /\ Shows(d, v, l, x) /\ Elsewhere(db, d, v, l)

\* An override leaves its row and its entry, and all others alone.
LEMMA OverriddenFacts ==
  ASSUME NEW db \in DbRows, NEW v \in Slots, NEW l \in Lines, NEW x \in Int, NEW by \in {"chat", "inline"},
         NEW original \in Int, entered + 1 \in Nat, NEW d, d = Overridden(db, v, l, x, by, original)
  PROVE  WithEntry(db, d, v, l, x, Entry(v, l, by, original, x, "active"))
  <1>1. PICK cell \in Cells : cell = Mark(db.row[v][l], x) /\ cell.marked /\ cell.value = {x}
    <2>1. db.row[v][l] \in Cells BY DbRow DEF RowSet
    <2> QED BY <2>1, MarkFacts
  <1>2. PICK a : a = [db EXCEPT !.row[v][l] = cell] OBVIOUS
  <1>3. /\ a \in DbRows /\ a.version = db.version /\ a.log = db.log /\ a.row[v][l] = cell
        /\ \A u \in Slots, k \in Lines : (u # v \/ k # l) => a.row[u][k] = db.row[u][k]
    BY <1>2, CellWritten
  <1>4. PICK e \in Entries : e = Entry(v, l, by, original, x, "active") BY EntryFacts
  <1>5. d = [a EXCEPT !.log = db.log \cup {e}] BY <1>1, <1>2, <1>4 DEF Overridden
  <1>6. d.version = a.version /\ d.row = a.row /\ d.log = db.log \cup {e} /\ d \in DbRows
    <2>1. PICK written : written = db.log \cup {e} OBVIOUS
    <2>2. written \in SUBSET Entries BY <2>1 DEF DbRows
    <2>3. d = [a EXCEPT !.log = written] BY <1>5, <2>1
    <2>4. d.version = a.version /\ d.row = a.row /\ d.log = written /\ d \in DbRows
      BY ONLY <1>3, <2>2, <2>3 DEF DbRows
    <2> QED BY <2>1, <2>4
  <1>7. Shows(d, v, l, x) BY <1>1, <1>3, <1>6 DEF Shows
  <1>8. Elsewhere(db, d, v, l) BY <1>3, <1>6 DEF Elsewhere, SameMark
  <1> QED BY <1>3, <1>4, <1>6, <1>7, <1>8 DEF WithEntry

NoneActive(entries, v, l) ==
    (\A e \in entries : e.v = v /\ e.line = l => e.by \notin {"chat", "copy"}) => ActiveIn(entries, v, l) = {}

\* An override whose record does not leave two active where there should be one.
LEMMA OverriddenStory ==
  ASSUME OverridesInv, NEW db, Story(db, entered), NEW v \in ThereIn(db), NEW l \in Lines, NEW x \in Int,
         NEW by \in {"chat", "inline"}, NEW original \in Int,
         NEW entries, Older(db, entries, v, l, entered), by = "inline" => NoneActive(entries, v, l),
         NEW d, d = Overridden([db EXCEPT !.log = entries], v, l, x, by, original)
  PROVE  /\ Story(d, entered + 1) /\ d.version = db.version
         /\ d.log = entries \cup {Entry(v, l, by, original, x, "active")}
  <1>1. db \in DbRows /\ v \in Slots BY DEF Story, ThereIn
  <1>2. PICK n \in Nat : n = entered /\ n + 1 \in Nat BY OverridesAssumption DEF OverridesInv
  <1>3. PICK a : a = [db EXCEPT !.log = entries] OBVIOUS
  <1>4. a \in DbRows /\ a.version = db.version /\ a.row = db.row /\ a.log = entries
    BY <1>1, <1>3 DEF DbRows, Older
  <1>5. PICK e : e = Entry(v, l, by, original, x, "active") OBVIOUS
  <1>6. MadeOf(e, v, l, x, n + 1) /\ e.v = v /\ e.line = l /\ e.by = by
    BY <1>1, <1>2, <1>5, EntryFacts DEF MadeOf, Applied
  <1>7. /\ d \in DbRows /\ d.version = db.version /\ d.log = entries \cup {e}
        /\ Shows(d, v, l, x) /\ Elsewhere(a, d, v, l)
    <2>1. d = Overridden(a, v, l, x, by, original) BY <1>3
    <2>2. WithEntry(a, d, v, l, x, e) BY <1>1, <1>2, <1>4, <1>5, <2>1, OverriddenFacts
    <2> QED BY <1>4, <2>2 DEF WithEntry
  <1>8. SingleIn(d, v, l)
    <2>1. SUFFICES ASSUME \A f \in d.log : f.v = v /\ f.line = l => f.by \notin {"chat", "copy"}
                   PROVE  \A f, h \in ActiveIn(d.log, v, l) : f = h
      BY DEF SingleIn
    <2>2. by = "inline" BY <1>6, <1>7, <2>1
    <2>3. ActiveIn(entries, v, l) = {} BY <1>7, <2>1, <2>2 DEF NoneActive
    <2> QED BY <1>7, <2>3 DEF ActiveIn
  <1>9. SameVersions(db, d) BY <1>7 DEF SameVersions
  <1>10. Elsewhere(db, d, v, l) BY <1>4, <1>7 DEF Elsewhere, SameMark
  <1>11. Story(d, n + 1)
    <2>1. Story(db, n) /\ Older(db, entries, v, l, n) BY <1>2
    <2> QED BY <1>6, <1>7, <1>8, <1>9, <1>10, <2>1, EnteredStory
  <1> QED BY <1>2, <1>5, <1>7, <1>11

\* In a version that never went through a branch every mark has its value, and
\* the calculated line can be computed.
LEMMA PlainComputable ==
  ASSUME NEW db, NEW n, Story(db, n), NEW v \in PlainIn(db)
  PROVE  v \in Slots /\ Computable(db.row[v]) /\ db.version[v].calculated
  <1>1. v \in Slots /\ v \in ThereIn(db) BY DEF PlainIn, ThereIn
  <1>2. ASSUME NEW l \in Inputs, db.row[v][l].marked PROVE db.row[v][l].value # {}
    <2>1. TracedIn(db, v, l) BY LinesFacts DEF Story
    <2> QED BY <1>2, <2>1 DEF TracedIn
  <1>3. db.version[v].calculated BY DEF Story, Descends
  <1> QED BY <1>1, <1>2, <1>3, ComputableByMarks

\* What an override leaves of the version it wrote.
AddedUp(d, v) == v \in PlainIn(d) => Gap(d.row[v]) \in 0 .. Cardinality(Inputs)

\* The story holds on when a line was entered and the total is recalculated and
\* the version reconciled.
LEMMA SettledStory ==
  ASSUME NEW db, NEW n, Story(db, n), NEW v \in ThereIn(db), NEW l \in Lines
  PROVE  Story(Settled(db, v, l), n) /\ AddedUp(Settled(db, v, l), v) /\ Settled(db, v, l).log = db.log
  <1>1. db \in DbRows /\ v \in Slots BY DEF Story, ThereIn
  <1>2. PICK d : d = Settled(db, v, l) OBVIOUS
  <1>3. SameMarks(db, d) BY <1>1, <1>2, SettledFacts
  <1>4. Story(d, n) BY <1>3, SameMarksStory
  <1>5. d.log = db.log BY <1>3 DEF SameMarks
  <1>6. ASSUME v \in PlainIn(d) PROVE Gap(d.row[v]) \in 0 .. Cardinality(Inputs)
    <2>1. SameVersions(db, d) BY <1>3 DEF SameMarks
    <2>2. v \in PlainIn(db) BY <1>6, <2>1, SameVersionsThere
    <2>3. Computable(db.row[v]) /\ db.version[v].calculated BY <2>2, PlainComputable
    <2> QED BY <1>1, <1>2, <2>3, SettledFacts
  <1> QED BY <1>2, <1>4, <1>5, <1>6 DEF AddedUp

-----------------------------------------------------------------------------
(* Each handler keeps the invariant; an override leaves the points of the *)
(* version it wrote adding up.                                            *)

\* The invariant when a version is approved.
LEMMA ApproveKeeps ==
  ASSUME OverridesInv, NEW v \in Slots, Approve(v)
  PROVE  OverridesInv'
  <1>1. Story(Db, entered) /\ Db \in DbRows BY DEF OverridesInv, Story
  <1>2. PICK r : r = [version[v] EXCEPT !.status = "approved"] OBVIOUS
  <1>3. version[v] \in VersionRows /\ version[v].status = "draft" BY <1>1, DbRow, DbFacts DEF Approve
  <1>4. /\ r \in VersionRows /\ r.status = "approved" /\ r.origin = version[v].origin
        /\ r.lineage = version[v].lineage
    BY <1>2, <1>3 DEF VersionRows
  <1>5. r.calculated = version[v].calculated BY <1>2, <1>3 DEF VersionRows
  <1>6. PICK d : d = [Db EXCEPT !.version = [version EXCEPT ![v] = r]] OBVIOUS
  <1>7. d.version = [version EXCEPT ![v] = r] /\ d.row = row /\ d.log = log /\ d \in DbRows
    BY <1>1, <1>4, <1>6 DEF Db, DbRows
  <1>8. Store(d) BY <1>2, <1>7 DEF Approve, Store
  <1>9. SameVersions(Db, d)
    <2>1. version \in [Slots -> VersionRows] BY <1>1 DEF Db, DbRows
    <2>2. d.version[v] = r /\ \A u \in Slots : u # v => d.version[u] = version[u] BY <1>7, <2>1
    <2> QED BY <1>3, <1>4, <1>5, <2>2, DbFacts DEF SameVersions
  <1>10. SameMarks(Db, d) BY <1>7, <1>9, DbFacts DEF SameMarks, SameMark
  <1>11. Story(d, entered) BY <1>1, <1>10, SameMarksStory
  <1> QED BY <1>8, <1>11, StoredInv DEF Approve, OverridesInv

\* What a row held before it was overridden is a number.
LEMMA OriginalIsNumber ==
  ASSUME NEW c \in Cells, Held(c) # {}
  PROVE  Original(c) \in Int
  <1>1. CASE c.marked BY <1>1 DEF Original, Held, Cells, The
  <1>2. CASE ~c.marked BY <1>2 DEF Original, Held, Cells
  <1> QED BY <1>1, <1>2

\* What was entered is older than what is entered next.
LEMMA OlderSelf ==
  ASSUME NEW db, NEW n, Story(db, n), NEW v, NEW l
  PROVE  Older(db, db.log, v, l, n)
  BY DEF Older, Story, Timely, DbRows

\* The invariant when a line is overridden in the chat, and what the override
\* leaves.
LEMMA ChatOverrideKeeps ==
  ASSUME OverridesInv, NEW v \in Slots, NEW c \in Slots, NEW l \in Edited, NEW x \in Values, ChatOverride(v, c, l, x)
  PROVE  OverridesInv' /\ AddedUp(Db', c) /\ \A e \in log' \ log : e.by # "copy" => e.v = c
  <1>1. Story(Db, entered) /\ v \in ThereIn(Db) BY DbFacts DEF OverridesInv, ChatOverride
  <1>2. l \in Lines /\ x \in Int BY OverridesAssumption
  <1>3. PICK db : db = IF Locked(v) THEN Cloned(Db, v, c, "clone") ELSE Db OBVIOUS
  <1>4. /\ Story(db, entered) /\ c \in ThereIn(db)
        /\ \A e \in db.log \ log : e.by = "copy"
    <2>1. CASE Locked(v)
      <3>1. c \in Slots \ ThereIn(Db) BY <2>1, FreeFacts DEF ChatOverride
      <3>2. db = Cloned(Db, v, c, "clone") BY <1>3, <2>1
      <3>3. Story(db, entered) /\ c \in ThereIn(db) BY <1>1, <3>1, <3>2, ClonedStory
      <3>4. \A e \in db.log \ log : e.by = "copy"
        <4>1. PICK a : a = NewVersion(Db, v, c, "clone") OBVIOUS
        <4>2. a.log = log BY <4>1, DbFacts DEF NewVersion, Db
        <4>3. a = [version |-> a.version, row |-> a.row, log |-> a.log] BY <4>1 DEF NewVersion, Db
        <4>4. PICK yes : yes = Db.version[v].calculated OBVIOUS
        <4>5. db = [a EXCEPT !.version[c].calculated = yes, !.log = @ \cup Copies(Db, v, c)]
          BY <3>2, <4>1, <4>4 DEF Cloned, Copies, Copy
        <4>6. db.log = log \cup Copies(Db, v, c) BY <4>2, <4>3, <4>5
        <4>7. ASSUME NEW e \in Copies(Db, v, c) PROVE e.by = "copy"
          <5>1. PICK f \in Db.log : e = Copy(f, c) BY DEF Copies
          <5>2. f \in Entries BY <1>1 DEF Story, DbRows
          <5>3. c \in Slots OBVIOUS
          <5> QED BY <5>1, <5>2, <5>3, CopyFacts
        <4> QED BY <4>6, <4>7
      <3> QED BY <3>3, <3>4
    <2>2. CASE ~Locked(v)
      <3>1. c = v /\ db = Db BY <1>3, <2>2 DEF ChatOverride
      <3> QED BY <1>1, <3>1, DbFacts
    <2> QED BY <2>1, <2>2
  <1>5. /\ Held(db.row[c][l]) # {}
        /\ Store(Settled(Overridden(db, c, l, x, "chat", Original(db.row[c][l])), c, l))
        /\ Enter
    BY <1>3 DEF ChatOverride
  <1>6. PICK original \in Int : original = Original(db.row[c][l])
    <2>1. db.row[c][l] \in Cells BY <1>2, <1>4, DbRow DEF Story, RowSet
    <2> QED BY <1>5, <2>1, OriginalIsNumber
  <1>7. PICK a : a = Overridden(db, c, l, x, "chat", original) OBVIOUS
  <1>8. PICK e : e = Entry(c, l, "chat", original, x, "active") OBVIOUS
  <1>9. Story(a, entered + 1) /\ a.version = db.version /\ a.log = db.log \cup {e}
    <2>1. db = [db EXCEPT !.log = db.log] BY <1>4 DEF Story, DbRows
    <2>2. Older(db, db.log, c, l, entered) BY <1>4, OlderSelf
    <2>3. a = Overridden([db EXCEPT !.log = db.log], c, l, x, "chat", original) BY <1>7, <2>1
    <2>4. PICK by \in {"chat", "inline"} : by = "chat" OBVIOUS
    <2> QED BY <1>2, <1>4, <1>8, <2>2, <2>3, <2>4, OverriddenStory
  <1>10. c \in ThereIn(a) BY <1>4, <1>9 DEF ThereIn
  <1>11. PICK d : d = Settled(a, c, l) OBVIOUS
  <1>12. Story(d, entered + 1) /\ AddedUp(d, c) /\ d.log = a.log BY <1>2, <1>9, <1>10, <1>11, SettledStory
  <1>13. Store(d) BY <1>5, <1>6, <1>7, <1>11
  <1>14. entered' = entered + 1 /\ entered' \in 0 .. MaxEntries BY <1>5, EnterFacts
  <1>15. OverridesInv' /\ Db' = d BY <1>12, <1>13, <1>14, StoredInv
  <1>16. ASSUME NEW f \in log' \ log, f.by # "copy" PROVE f.v = c
    <2>1. f \in db.log \/ f = e BY <1>9, <1>12, <1>13, <1>16 DEF Store
    <2>2. e.v = c BY <1>8 DEF Entry
    <2> QED BY <1>4, <1>16, <2>1, <2>2
  <1> QED BY <1>12, <1>15, <1>16

\* The invariant when the chat refuses after it cloned.
LEMMA ChatOverrideRefusedKeeps ==
  ASSUME OverridesInv, NEW v \in Slots, NEW c \in Slots, ChatOverrideRefused(v, c)
  PROVE  OverridesInv'
  <1>1. Story(Db, entered) /\ v \in ThereIn(Db) BY DbFacts DEF OverridesInv, ChatOverrideRefused
  <1>2. c \in Slots \ ThereIn(Db) BY FreeFacts DEF ChatOverrideRefused
  <1>3. Story(Cloned(Db, v, c, "clone"), entered) BY <1>1, <1>2, ClonedStory
  <1> QED BY <1>3, StoredInv DEF ChatOverrideRefused, OverridesInv

\* An entry set aside is the same entry with another status.
LEMMA RestatusFacts ==
  ASSUME NEW entries \in SUBSET Entries, NEW e \in entries, NEW s \in {"superseded", "reverted"}
  PROVE  \E f \in Entries : /\ Restatus(entries, e, s) = (entries \ {e}) \cup {f}
                            /\ f.v = e.v /\ f.line = e.line /\ f.by = e.by /\ f.at = e.at /\ f.status = s
  <1>1. e \in Entries OBVIOUS
  <1>2. PICK f : f = [e EXCEPT !.status = s] OBVIOUS
  <1>3. f \in Entries /\ f.v = e.v /\ f.line = e.line /\ f.by = e.by /\ f.at = e.at /\ f.status = s
    BY <1>1, <1>2 DEF Entries
  <1> QED BY <1>2, <1>3 DEF Restatus

\* Superseding or reverting an active entry of a cell leaves an older log, and
\* no active entry where there was to be one at most.
LEMMA OlderRestatus ==
  ASSUME NEW db, NEW n, Story(db, n), NEW v \in Slots, NEW l \in Lines, NEW e \in ActiveIn(db.log, v, l),
         NEW s \in {"superseded", "reverted"}, NEW entries, entries = Restatus(db.log, e, s)
  PROVE  Older(db, entries, v, l, n) /\ NoneActive(entries, v, l)
  <1>1. db.log \in SUBSET Entries /\ e \in db.log /\ e.v = v /\ e.line = l /\ e.status = "active"
    BY DEF Story, DbRows, ActiveIn
  <1>2. PICK f \in Entries : /\ entries = (db.log \ {e}) \cup {f}
                             /\ f.v = v /\ f.line = l /\ f.by = e.by /\ f.at = e.at /\ f.status = s
    BY <1>1, RestatusFacts
  <1>3. \A g \in db.log : g.at <= n BY DEF Story, Timely
  <1>4. Older(db, entries, v, l, n) BY <1>1, <1>2, <1>3 DEF Older
  <1>5. NoneActive(entries, v, l)
    <2>1. SUFFICES ASSUME \A g \in entries : g.v = v /\ g.line = l => g.by \notin {"chat", "copy"}
                   PROVE  ActiveIn(entries, v, l) = {}
      BY DEF NoneActive
    <2>2. \A g \in db.log : g.v = v /\ g.line = l => g.by \notin {"chat", "copy"} BY <1>1, <1>2, <2>1
    <2>3. SingleIn(db, v, l) BY DEF Story
    <2>4. \A g \in ActiveIn(db.log, v, l) : g = e BY <2>2, <2>3 DEF SingleIn
    <2>5. ASSUME NEW g \in ActiveIn(entries, v, l) PROVE FALSE
      <3>1. g \in entries /\ g.v = v /\ g.line = l /\ g.status = "active" BY DEF ActiveIn
      <3>2. g # f BY <1>2, <3>1
      <3>3. g \in db.log /\ g # e BY <1>2, <3>1, <3>2
      <3>4. g \in ActiveIn(db.log, v, l) BY <3>1, <3>3 DEF ActiveIn
      <3> QED BY <2>4, <3>3, <3>4
    <2> QED BY <2>5
  <1> QED BY <1>4, <1>5

\* The invariant when a line is overridden in place, and what the override
\* leaves.
LEMMA InlineOverrideKeeps ==
  ASSUME OverridesInv, NEW v \in Slots, NEW l \in Edited, NEW x \in Values, InlineOverride(v, l, x)
  PROVE  OverridesInv' /\ AddedUp(Db', v) /\ \A e \in log' \ log : e.at = entered' => e.v = v
  <1>1. Story(Db, entered) /\ v \in ThereIn(Db) /\ Db \in DbRows BY DbFacts DEF OverridesInv, InlineOverride, Story
  <1>2. l \in Lines /\ x \in Int BY OverridesAssumption
  <1>3. PICK entries \in Superseded(v, l) :
           Store(Settled(Overridden([Db EXCEPT !.log = entries], v, l, x, "inline", row[v][l].p50), v, l))
    BY DEF InlineOverride
  <1>4. Older(Db, entries, v, l, entered) /\ NoneActive(entries, v, l)
    <2>1. CASE ActiveIn(log, v, l) = {}
      <3>1. entries = Db.log BY <1>3, <2>1, DbFacts DEF Superseded
      <3>2. Older(Db, Db.log, v, l, entered) BY <1>1, OlderSelf
      <3> QED BY <2>1, <3>1, <3>2, DbFacts DEF NoneActive
    <2>2. CASE ActiveIn(log, v, l) # {}
      <3>1. PICK e \in ActiveIn(log, v, l) : entries = Restatus(log, e, "superseded") BY <1>3, <2>2 DEF Superseded
      <3>2. e \in ActiveIn(Db.log, v, l) /\ entries = Restatus(Db.log, e, "superseded") BY <3>1, DbFacts
      <3>3. PICK s \in {"superseded", "reverted"} : s = "superseded" OBVIOUS
      <3> QED BY <1>1, <1>2, <3>2, <3>3, OlderRestatus
    <2> QED BY <2>1, <2>2
  <1>5. PICK original \in Int : original = row[v][l].p50
    <2>1. row[v][l] \in Cells BY <1>1, <1>2, DbRow, DbFacts DEF RowSet
    <2> QED BY <2>1 DEF Cells
  <1>6. PICK a : a = Overridden([Db EXCEPT !.log = entries], v, l, x, "inline", original) OBVIOUS
  <1>7. PICK e : e = Entry(v, l, "inline", original, x, "active") OBVIOUS
  <1>8. Story(a, entered + 1) /\ a.version = Db.version /\ a.log = entries \cup {e}
    <2>1. PICK by \in {"chat", "inline"} : by = "inline" OBVIOUS
    <2> QED BY <1>1, <1>2, <1>4, <1>6, <1>7, <2>1, OverriddenStory
  <1>9. v \in ThereIn(a) BY <1>1, <1>8 DEF ThereIn
  <1>10. PICK d : d = Settled(a, v, l) OBVIOUS
  <1>11. Story(d, entered + 1) /\ AddedUp(d, v) /\ d.log = a.log BY <1>2, <1>8, <1>9, <1>10, SettledStory
  <1>12. Store(d) BY <1>3, <1>5, <1>6, <1>10
  <1>13. entered \in Nat /\ entered' = entered + 1 /\ entered' \in 0 .. MaxEntries
    BY EnterFacts DEF InlineOverride
  <1>14. OverridesInv' /\ Db' = d BY <1>11, <1>12, <1>13, StoredInv
  <1>15. ASSUME NEW f \in log' \ log, f.at = entered' PROVE f.v = v
    <2>1. f \in entries \/ f = e BY <1>8, <1>11, <1>12 DEF Store
    <2>2. e.v = v BY <1>7 DEF Entry
    <2>3. ASSUME f \in entries PROVE FALSE
      <3>1. f.at \in Nat /\ f.at <= entered BY <1>4, <2>3 DEF Older, Entries
      <3> QED BY <1>13, <1>15, <3>1
    <2> QED BY <2>1, <2>2, <2>3
  <1> QED BY <1>11, <1>14, <1>15

\* A cell that loses its mark needs no entry.
LEMMA UnmarkedStory ==
  ASSUME NEW db, NEW n, Story(db, n), NEW v \in ThereIn(db), NEW l \in Lines,
         NEW entries, Older(db, entries, v, l, n), entries = db.log \/ NoneActive(entries, v, l),
         NEW d \in DbRows, SameVersions(db, d), d.log = entries, Elsewhere(db, d, v, l), ~d.row[v][l].marked
  PROVE  Story(d, n)
  <1>1. OtherwiseSame(db, d, v, l) BY DEF OtherwiseSame, Older, Elsewhere
  <1>2. n \in Nat /\ n <= n BY DEF Story
  <1>3. \A e \in d.log : e.at <= n BY DEF Older
  <1>4. TracedIn(d, v, l) /\ LatestIn(d, v, l) BY DEF TracedIn, LatestIn
  <1>5. v \in Slots BY DEF ThereIn
  <1>6. SingleIn(d, v, l)
    <2>1. CASE entries = db.log
      <3>1. SingleIn(db, v, l) BY <1>5 DEF Story
      <3> QED BY <2>1, <3>1 DEF SingleIn
    <2>2. CASE NoneActive(entries, v, l) BY <2>2 DEF NoneActive, SingleIn
    <2> QED BY <2>1, <2>2
  <1> QED BY <1>1, <1>2, <1>3, <1>4, <1>6, OtherwiseSameStory

\* The facts the two outcomes of a reversion share.
LEMMA RevertedEntry ==
  ASSUME OverridesInv, NEW e \in log, e.status = "active"
  PROVE  /\ Story(Db, entered) /\ Db \in DbRows /\ e \in Entries
         /\ e.v \in ThereIn(Db) /\ e.v \in Slots /\ e.line \in Lines
         /\ e \in ActiveIn(Db.log, e.v, e.line)
  <1>1. Story(Db, entered) /\ Db \in DbRows BY DEF OverridesInv, Story
  <1>2. e \in Db.log BY DbFacts
  <1>3. e \in Entries BY <1>1, <1>2 DEF DbRows
  <1>4. e.v \in ThereIn(Db) BY <1>1, <1>2 DEF Story, Timely
  <1>5. e.v \in Slots /\ e.line \in Lines BY <1>3 DEF Entries
  <1>6. e \in ActiveIn(Db.log, e.v, e.line) BY <1>2 DEF ActiveIn
  <1> QED BY <1>1, <1>3, <1>4, <1>5, <1>6

\* The invariant when an override is reverted.
LEMMA RevertOverrideKeeps ==
  ASSUME OverridesInv, NEW e \in log, RevertOverride(e)
  PROVE  OverridesInv'
  <1>1. /\ Story(Db, entered) /\ Db \in DbRows /\ e \in Entries
        /\ e.v \in ThereIn(Db) /\ e.v \in Slots /\ e.line \in Lines
        /\ e \in ActiveIn(Db.log, e.v, e.line)
    BY RevertedEntry DEF RevertOverride
  <1>2. PICK v \in Slots, l \in Lines : v = e.v /\ l = e.line BY <1>1
  <1>3. PICK cell \in Cells : cell = Restored(row[v][l], e) /\ ~cell.marked BY <1>1, RestoredFacts
  <1>4. PICK a : a = [Db EXCEPT !.row[v][l] = cell] OBVIOUS
  <1>5. /\ a \in DbRows /\ a.version = version /\ a.log = log
        /\ \A u \in Slots, k \in Lines : (u # v \/ k # l) => a.row[u][k] = row[u][k]
    BY <1>1, <1>4, CellWritten, DbFacts
  <1>6. PICK b : b = Settled(a, v, l) OBVIOUS
  <1>7. SameMarks(a, b) BY <1>5, <1>6, SettledFacts
  <1>8. b \in DbRows BY <1>7 DEF SameMarks
  <1>9. PICK again \in Cells : again = Restored(b.row[v][l], e) /\ ~again.marked BY <1>1, RestoredFacts
  <1>10. PICK b1 : b1 = [b EXCEPT !.row[v][l] = again] OBVIOUS
  <1>11. /\ b1 \in DbRows /\ b1.version = b.version /\ b1.row[v][l] = again
         /\ \A u \in Slots, k \in Lines : (u # v \/ k # l) => b1.row[u][k] = b.row[u][k]
    BY <1>8, <1>10, CellWritten
  <1>12. PICK entries : entries = Restatus(log, e, "reverted") OBVIOUS
  <1>13. Older(Db, entries, v, l, entered) /\ NoneActive(entries, v, l)
    <2>1. PICK s \in {"superseded", "reverted"} : s = "reverted" OBVIOUS
    <2>2. entries = Restatus(Db.log, e, s) BY <1>12, <2>1, DbFacts
    <2> QED BY <1>1, <1>2, <2>2, OlderRestatus
  <1>14. PICK d : d = [b1 EXCEPT !.log = entries] OBVIOUS
  <1>15. d.version = b.version /\ d.row = b1.row /\ d.log = entries /\ d \in DbRows
    BY <1>11, <1>13, <1>14 DEF DbRows, Older
  <1>16. Store(d) /\ UNCHANGED entered
    <2>1. a = [Db EXCEPT !.row[e.v][e.line] = Restored(@, e)] BY <1>2, <1>3, <1>4, DbFacts
    <2>2. d = [b EXCEPT !.row[e.v][e.line] = Restored(@, e), !.log = Restatus(log, e, "reverted")]
      BY <1>2, <1>9, <1>10, <1>12, <1>14
    <2> QED BY <1>2, <1>6, <2>1, <2>2 DEF RevertOverride
  <1>17. SameVersions(Db, d) BY <1>5, <1>7, <1>15, DbFacts DEF SameMarks, SameVersions
  <1>18. Elsewhere(Db, d, v, l)
    <2>1. ASSUME NEW u \in Slots, NEW k \in Lines, u # v \/ k # l PROVE SameMark(Db, d, u, k)
      <3>1. d.row[u][k] = b.row[u][k] BY <1>11, <1>15, <2>1
      <3>2. SameMark(a, b, u, k) BY <1>7 DEF SameMarks
      <3>3. a.row[u][k] = Db.row[u][k] BY <1>5, <2>1, DbFacts
      <3> QED BY <3>1, <3>2, <3>3 DEF SameMark
    <2> QED BY <2>1 DEF Elsewhere
  <1>19. ~d.row[v][l].marked BY <1>9, <1>11, <1>15
  <1>20. Story(d, entered) BY <1>1, <1>2, <1>13, <1>15, <1>17, <1>18, <1>19, UnmarkedStory
  <1> QED BY <1>16, <1>20, StoredInv DEF OverridesInv

\* The invariant when a reversal does not go through.
LEMMA RevertOverrideFailedKeeps ==
  ASSUME OverridesInv, NEW e \in log, RevertOverrideFailed(e)
  PROVE  OverridesInv'
  <1>1. /\ Story(Db, entered) /\ Db \in DbRows /\ e \in Entries
        /\ e.v \in ThereIn(Db) /\ e.v \in Slots /\ e.line \in Lines
    BY RevertedEntry DEF RevertOverrideFailed
  <1>2. PICK v \in Slots, l \in Lines : v = e.v /\ l = e.line BY <1>1
  <1>3. PICK cell \in Cells : cell = Restored(row[v][l], e) /\ ~cell.marked BY <1>1, RestoredFacts
  <1>4. PICK d : d = [Db EXCEPT !.row[v][l] = cell] OBVIOUS
  <1>5. /\ d \in DbRows /\ d.version = Db.version /\ d.log = Db.log /\ d.row[v][l] = cell
        /\ \A u \in Slots, k \in Lines : (u # v \/ k # l) => d.row[u][k] = Db.row[u][k]
    BY <1>1, <1>4, CellWritten
  <1>6. Store(d) /\ UNCHANGED entered
    <2>1. d = [Db EXCEPT !.row[e.v][e.line] = Restored(@, e)] BY <1>2, <1>3, <1>4, DbFacts
    <2> QED BY <2>1 DEF RevertOverrideFailed
  <1>7. SameVersions(Db, d) BY <1>5 DEF SameVersions
  <1>8. Elsewhere(Db, d, v, l) BY <1>5 DEF Elsewhere, SameMark
  <1>9. ~d.row[v][l].marked BY <1>3, <1>5
  <1>10. Older(Db, Db.log, v, l, entered) BY <1>1, OlderSelf
  <1>11. Story(d, entered) BY <1>1, <1>2, <1>5, <1>7, <1>8, <1>9, <1>10, UnmarkedStory
  <1> QED BY <1>6, <1>11, StoredInv DEF OverridesInv

\* d is the tables with a mark over a cell, and no record.
WithMark(d, v, l, x) ==
    /\ d \in DbRows /\ d.version = version /\ d.log = log
    /\ Shows(d, v, l, x) /\ Elsewhere(Db, d, v, l)

\* A driver's mark leaves its row, and all others alone.
LEMMA MarkedDb ==
  ASSUME OverridesInv, NEW v \in Existing, NEW l \in Lines, NEW x \in Int
  PROVE  WithMark([Db EXCEPT !.row[v][l] = Mark(@, x)], v, l, x)
  <1>1. Story(Db, entered) /\ Db \in DbRows /\ v \in Slots BY DEF OverridesInv, Story, Existing
  <1>2. PICK cell \in Cells : cell = Mark(Db.row[v][l], x) /\ cell.marked /\ cell.value = {x}
    <2>1. Db.row[v][l] \in Cells BY <1>1, DbRow DEF RowSet
    <2> QED BY <2>1, MarkFacts
  <1>3. PICK a : a = [Db EXCEPT !.row[v][l] = cell] OBVIOUS
  <1>4. /\ a \in DbRows /\ a.version = Db.version /\ a.log = Db.log /\ a.row[v][l] = cell
        /\ \A u \in Slots, k \in Lines : (u # v \/ k # l) => a.row[u][k] = Db.row[u][k]
    BY <1>1, <1>3, CellWritten
  <1>5. Shows(a, v, l, x) BY <1>2, <1>4 DEF Shows
  <1>6. Elsewhere(Db, a, v, l) BY <1>4 DEF Elsewhere, SameMark
  <1>7. WithMark(a, v, l, x) BY <1>4, <1>5, <1>6, DbFacts DEF WithMark
  <1> QED BY <1>2, <1>3, <1>7

\* The invariant when a driver's value that is the p50 already is submitted.
LEMMA DriverAgreementKeeps ==
  ASSUME OverridesInv, NEW v \in Slots, NEW l \in Edited, NEW chat \in BOOLEAN, DriverAgreement(v, l, chat)
  PROVE  OverridesInv' /\ \A e \in log' \ log : e.by = "driver"
  <1>1. Story(Db, entered) /\ Db \in DbRows /\ v \in ThereIn(Db) /\ v \in Existing
    BY DbFacts DEF OverridesInv, DriverAgreement, Story
  <1>2. l \in Lines BY OverridesAssumption
  <1>3. PICK p50 \in Int : p50 = row[v][l].p50
    <2>1. row[v][l] \in Cells BY <1>1, <1>2, DbRow, DbFacts DEF RowSet
    <2> QED BY <2>1 DEF Cells
  <1>4. PICK n \in Nat : n = entered /\ n + 1 \in Nat /\ entered' = n + 1 /\ n + 1 \in 0 .. MaxEntries
    BY EnterFacts DEF DriverAgreement
  <1>5. PICK e : e = Entry(v, l, "driver", p50, p50, "submitted") OBVIOUS
  <1>6. /\ e \in Entries /\ e.v = v /\ e.line = l /\ e.at = n + 1 /\ e.by = "driver"
        /\ e.status = "submitted" /\ ~Applied(e)
    BY <1>2, <1>3, <1>4, <1>5, EntryFacts DEF Applied
  <1>7. PICK d : d = [Db EXCEPT !.log = log \cup {e}] OBVIOUS
  <1>8. d.version = version /\ d.row = row /\ d.log = log \cup {e} /\ d \in DbRows
    BY <1>1, <1>6, <1>7, DbFacts DEF DbRows
  <1>9. Story(d, n + 1)
    <2>1. Story(Db, n) /\ n <= n + 1 /\ n + 1 \in Nat BY <1>1, <1>4
    <2>2. OtherwiseSame(Db, d, v, l)
      BY <1>6, <1>8, DbFacts DEF OtherwiseSame, SameVersions, SameMark
    <2>3. \A f \in d.log : f.at <= n + 1
      <3>1. ASSUME NEW f \in log PROVE f.at <= n + 1
        <4>1. f.at \in Nat /\ f.at <= n BY <2>1, DbFacts DEF Story, Timely, DbRows, Entries
        <4> QED BY <4>1
      <3> QED BY <1>6, <1>8, <2>1, <3>1
    <2>4. SingleIn(d, v, l)
      <3>1. SingleIn(Db, v, l) BY <1>1, <1>2 DEF Story
      <3>2. ActiveIn(d.log, v, l) = ActiveIn(Db.log, v, l) BY <1>6, <1>8, DbFacts DEF ActiveIn
      <3>3. Db.log \subseteq d.log BY <1>8, DbFacts
      <3> QED BY <3>1, <3>2, <3>3 DEF SingleIn
    <2>5. v \in PlainIn(Db) => TracedIn(d, v, l) /\ LatestIn(d, v, l)
      <3>1. v \in PlainIn(Db) => TracedIn(Db, v, l) /\ LatestIn(Db, v, l) BY <1>1, <1>2 DEF Story
      <3>2. NewestIn(d, v, l) = NewestIn(Db, v, l) BY <1>6, <1>8, DbFacts DEF NewestIn
      <3> QED BY <1>8, <3>1, <3>2, DbFacts DEF TracedIn, LatestIn
    <2> QED BY <1>1, <1>2, <2>1, <2>2, <2>3, <2>4, <2>5, OtherwiseSameStory
  <1>10. Store(d) BY <1>3, <1>5, <1>7, DbFacts DEF DriverAgreement
  <1>11. OverridesInv' BY <1>4, <1>9, <1>10, StoredInv
  <1>12. log' = log \cup {e} BY <1>8, <1>10 DEF Store
  <1> QED BY <1>6, <1>11, <1>12

\* The invariant when a driver's value is submitted.
LEMMA DriverSubmissionKeeps ==
  ASSUME OverridesInv, NEW v \in Slots, NEW l \in Edited, NEW x \in Values, NEW chat \in BOOLEAN,
         DriverSubmission(v, l, x, chat)
  PROVE  OverridesInv' /\ \A e \in log' \ log : e.by = "driver"
  <1>1. Story(Db, entered) /\ Db \in DbRows /\ v \in ThereIn(Db) /\ v \in Existing
    BY DbFacts DEF OverridesInv, DriverSubmission, Story
  <1>2. l \in Lines /\ x \in Int BY OverridesAssumption
  <1>3. PICK db : db = [Db EXCEPT !.row[v][l] = Mark(@, x)] OBVIOUS
  <1>4. WithMark(db, v, l, x) BY <1>1, <1>2, <1>3, MarkedDb
  <1>5. db \in DbRows /\ db.version = version /\ db.log = log /\ Shows(db, v, l, x) /\ Elsewhere(Db, db, v, l)
    BY <1>4 DEF WithMark
  <1>6. PICK original \in Int : original = row[v][l].p50
    <2>1. row[v][l] \in Cells BY <1>1, <1>2, DbRow, DbFacts DEF RowSet
    <2> QED BY <2>1 DEF Cells
  <1>7. PICK n \in Nat : n = entered /\ n + 1 \in Nat /\ entered' = n + 1 /\ n + 1 \in 0 .. MaxEntries
    BY EnterFacts DEF DriverSubmission
  <1>8. PICK e : e = Entry(v, l, "driver", original, x, "submitted") OBVIOUS
  <1>9. MadeOf(e, v, l, x, n + 1) /\ e.status = "submitted" /\ e.by = "driver"
    <2>1. x # original BY <1>6 DEF DriverSubmission
    <2> QED BY <1>2, <1>7, <1>8, <2>1, EntryFacts DEF MadeOf, Applied
  <1>10. PICK a : a = [db EXCEPT !.log = log \cup {e}] OBVIOUS
  <1>11. a.version = version /\ a.row = db.row /\ a.log = log \cup {e} /\ a \in DbRows
    BY <1>5, <1>9, <1>10 DEF DbRows, MadeOf
  <1>12. Story(a, n + 1)
    <2>1. Older(Db, log, v, l, n) BY <1>1, <1>7, OlderSelf, DbFacts
    <2>2. SameVersions(Db, a) BY <1>11, DbFacts DEF SameVersions
    <2>3. Shows(a, v, l, x) /\ Elsewhere(Db, a, v, l) BY <1>5, <1>11 DEF Shows, Elsewhere, SameMark
    <2>4. SingleIn(a, v, l)
      <3>1. SingleIn(Db, v, l) BY <1>1, <1>2 DEF Story
      <3>2. ActiveIn(a.log, v, l) = ActiveIn(Db.log, v, l) BY <1>9, <1>11, DbFacts DEF ActiveIn
      <3>3. Db.log \subseteq a.log BY <1>11, DbFacts
      <3> QED BY <3>1, <3>2, <3>3 DEF SingleIn
    <2>5. Story(Db, n) BY <1>1, <1>7
    <2> QED BY <1>1, <1>2, <1>9, <1>11, <2>1, <2>2, <2>3, <2>4, <2>5, EnteredStory
  <1>13. PICK rows : rows = Recalculated(a.row[v], l) OBVIOUS
  <1>14. SameMarksRow(a.row[v], rows)
    <2>1. a.row[v] \in RowSet BY <1>11, DbRow
    <2>2. CASE l \in Inputs
      <3>1. Computable(a.row[v]) BY <1>3, <1>11, <2>2 DEF DriverSubmission
      <3> QED BY <1>2, <1>13, <2>1, <3>1, RecalculatedRows
    <2>3. CASE l \notin Inputs BY <1>13, <2>1, <2>3 DEF Recalculated, SameMarksRow
    <2> QED BY <2>2, <2>3
  <1>15. PICK b : b = [a EXCEPT !.row[v] = rows] OBVIOUS
  <1>16. SameMarks(a, b) BY <1>11, <1>14, <1>15, RowsWritten
  <1>17. PICK yes \in BOOLEAN : yes = (version[v].calculated \/ l \in Inputs) OBVIOUS
  <1>18. PICK d : d = [b EXCEPT !.version[v].calculated = yes] OBVIOUS
  <1>19. b.version = version /\ b.log = log \cup {e} /\ b \in DbRows
    BY <1>11, <1>15, <1>16 DEF DbRows, SameMarks
  <1>20. SameMarks(b, d)
    <2>1. b.version[v].calculated => yes BY <1>17, <1>19
    <2> QED BY <1>18, <1>19, <2>1, CalculatedWritten
  <1>21. Story(d, n + 1) BY <1>12, <1>16, <1>20, SameMarksStory
  <1>22. Store(d)
    <2>1. d = [db EXCEPT !.row[v] = Recalculated(@, l), !.version[v].calculated = @ \/ l \in Inputs,
                         !.log = @ \cup {Entry(v, l, "driver", row[v][l].p50, x, "submitted")}]
      <3>1. db = [version |-> db.version, row |-> db.row, log |-> db.log] BY <1>5 DEF DbRows
      <3>2. d = [version |-> [version EXCEPT ![v].calculated = yes], row |-> [db.row EXCEPT ![v] = rows],
                 log |-> log \cup {e}]
        BY <1>5, <1>10, <1>15, <1>18, <3>1
      <3>3. yes = (db.version[v].calculated \/ l \in Inputs) BY <1>5, <1>17
      <3>4. [db EXCEPT !.row[v] = rows, !.version[v].calculated = yes, !.log = log \cup {e}]
              = [version |-> [version EXCEPT ![v].calculated = yes], row |-> [db.row EXCEPT ![v] = rows],
                 log |-> log \cup {e}]
        <4>1. PICK ver, rws, lg : /\ ver = [version EXCEPT ![v].calculated = yes]
                                  /\ rws = [db.row EXCEPT ![v] = rows] /\ lg = log \cup {e}
          OBVIOUS
        <4>2. [db EXCEPT !.row[v] = rows, !.version[v].calculated = yes, !.log = log \cup {e}]
                = [db EXCEPT !.row = rws, !.version = ver, !.log = lg]
          BY <1>5, <4>1
        <4>3. [db EXCEPT !.row = rws, !.version = ver, !.log = lg] = [version |-> ver, row |-> rws, log |-> lg]
          <5>1. PICK p, q, r : db = [version |-> p, row |-> q, log |-> r] BY <3>1
          <5>2. PICK t : t = [db EXCEPT !.row = rws, !.version = ver, !.log = lg] OBVIOUS
          <5>3. t = [version |-> ver, row |-> rws, log |-> lg] BY <5>1, <5>2
          <5> QED BY <5>2, <5>3
        <4> QED BY <4>1, <4>2, <4>3
      <3>5. /\ rows = Recalculated(db.row[v], l)
            /\ log \cup {e} = db.log \cup {Entry(v, l, "driver", row[v][l].p50, x, "submitted")}
        BY <1>5, <1>6, <1>8, <1>11, <1>13
      <3>6. [db EXCEPT !.row[v] = Recalculated(@, l), !.version[v].calculated = @ \/ l \in Inputs,
                       !.log = @ \cup {Entry(v, l, "driver", row[v][l].p50, x, "submitted")}]
              = [db EXCEPT !.row[v] = rows, !.version[v].calculated = yes, !.log = log \cup {e}]
        BY <3>3, <3>5, Zenon
      <3> QED BY <3>2, <3>4, <3>6
    <2> QED BY <1>3, <2>1 DEF DriverSubmission
  <1>23. \A f \in log' \ log : f.by = "driver"
    <2>1. d.log = log \cup {e} BY <1>19, <1>20 DEF SameMarks
    <2> QED BY <1>9, <1>22, <2>1 DEF Store
  <1> QED BY <1>7, <1>21, <1>22, <1>23, StoredInv

\* A mark that no submission backs is only stored where a branch left a mark
\* without a value.
LEMMA DriverSubmissionFailedKeeps ==
  ASSUME OverridesInv, NEW v \in Slots, NEW l \in Edited, NEW x \in Values, DriverSubmissionFailed(v, l, x)
  PROVE  OverridesInv' /\ log' = log
  <1>1. Story(Db, entered) /\ Db \in DbRows /\ v \in ThereIn(Db) /\ v \in Existing
    BY DbFacts DEF OverridesInv, DriverSubmissionFailed, Story
  <1>2. l \in Lines /\ x \in Int BY OverridesAssumption
  <1>3. PICK d : d = [Db EXCEPT !.row[v][l] = Mark(@, x)] OBVIOUS
  <1>4. WithMark(d, v, l, x) BY <1>1, <1>2, <1>3, MarkedDb
  <1>5. d \in DbRows /\ d.version = version /\ d.log = log /\ Shows(d, v, l, x) /\ Elsewhere(Db, d, v, l)
    BY <1>4 DEF WithMark
  <1>6. PICK n \in Nat : n = entered /\ n + 1 \in Nat /\ entered' = n + 1 /\ n + 1 \in 0 .. MaxEntries /\ n <= n + 1
    BY EnterFacts DEF DriverSubmissionFailed
  <1>7. ~Computable(d.row[v]) /\ Store(d) BY <1>3 DEF DriverSubmissionFailed
  <1>8. v \notin PlainIn(Db)
    <2>1. SUFFICES ASSUME v \in PlainIn(Db) PROVE FALSE OBVIOUS
    <2>2. PICK k \in Inputs : d.row[v][k].marked /\ d.row[v][k].value = {} BY <1>7, ComputableByMarks
    <2>3. k # l BY <1>5, <2>2 DEF Shows
    <2>4. k \in Lines BY LinesFacts
    <2>5. SameMark(Db, d, v, k) BY <1>5, <2>3, <2>4 DEF Elsewhere
    <2>6. Db.row[v][k].marked /\ Db.row[v][k].value = {} BY <2>2, <2>5 DEF SameMark
    <2>7. TracedIn(Db, v, k) BY <1>1, <2>1, <2>4 DEF Story
    <2> QED BY <2>6, <2>7 DEF TracedIn
  <1>9. OtherwiseSame(Db, d, v, l)
    <2>1. SameVersions(Db, d) BY <1>5, DbFacts DEF SameVersions
    <2> QED BY <1>5, <2>1, DbFacts DEF OtherwiseSame, Elsewhere
  <1>10. \A e \in d.log : e.at <= n + 1
    <2>1. ASSUME NEW e \in log PROVE e.at <= n + 1
      <3>1. e \in Entries /\ e.at <= n BY <1>1, <1>6, DbFacts DEF Story, Timely, DbRows
      <3>2. e.at \in Nat BY <3>1 DEF Entries
      <3> QED BY <3>1, <3>2
    <2> QED BY <1>5, <2>1
  <1>11. SingleIn(d, v, l)
    <2>1. SingleIn(Db, v, l) BY <1>1, <1>2 DEF Story
    <2> QED BY <1>5, <2>1, DbFacts DEF SingleIn
  <1>12. Story(d, n + 1)
    <2>1. Story(Db, n) BY <1>1, <1>6
    <2> QED BY <1>1, <1>2, <1>6, <1>8, <1>9, <1>10, <1>11, <2>1, OtherwiseSameStory
  <1>13. log' = log BY <1>5, <1>7 DEF Store
  <1> QED BY <1>6, <1>7, <1>12, <1>13, StoredInv

\* The story holds on when a version is reconciled.
LEMMA ReconciledStory ==
  ASSUME NEW db, NEW n, Story(db, n), NEW v \in Slots
  PROVE  Story(ReconcileVersion(db, v), n)
  <1>1. db \in DbRows BY DEF Story
  <1>2. SameMarks(db, ReconcileVersion(db, v)) BY <1>1, ReconcileFacts
  <1> QED BY <1>2, SameMarksStory

\* The invariant when a branch is made.
LEMMA CreateBranchKeeps ==
  ASSUME OverridesInv, NEW v \in Slots, NEW c \in Slots, NEW adjusted \in Adjustments, CreateBranch(v, c, adjusted)
  PROVE  OverridesInv'
  <1>1. Story(Db, entered) /\ Db \in DbRows /\ v \in ThereIn(Db) BY DbFacts DEF OverridesInv, CreateBranch, Story
  <1>2. c \in Slots \ ThereIn(Db) BY FreeFacts DEF CreateBranch
  <1>3. PICK rows : rows = [l \in Lines |-> IF l \in adjusted THEN Adjusted(row[v][l]) ELSE row[v][l]] OBVIOUS
  <1>4. rows \in RowSet
    <2>1. ASSUME NEW l \in Lines PROVE Adjusted(row[v][l]) \in Cells /\ row[v][l] \in Cells
      <3>1. PICK cell \in Cells : cell = row[v][l] BY <1>1, DbRow, DbFacts DEF RowSet
      <3>2. 2 * cell.p50 \in Int BY DEF Cells
      <3>3. Adjusted(cell) \in Cells BY <3>2 DEF Adjusted, Cells
      <3> QED BY <3>1, <3>3
    <2> QED BY <1>3, <2>1 DEF RowSet
  <1>5. PICK origin \in {"branch", "merge"} : origin = "branch" OBVIOUS
  <1>6. PICK d : d = [NewVersion(Db, v, c, origin) EXCEPT !.row[c] = rows] OBVIOUS
  <1>7. Story(d, entered) BY <1>1, <1>2, <1>4, <1>6, BranchedStory
  <1>8. Story(ReconcileVersion(d, c), entered) BY <1>7, ReconciledStory
  <1>9. Store(ReconcileVersion(d, c)) /\ UNCHANGED entered BY <1>3, <1>5, <1>6 DEF CreateBranch
  <1> QED BY <1>8, <1>9, StoredInv DEF OverridesInv

\* The invariant when a branch is merged.
LEMMA MergeBranchKeeps ==
  ASSUME OverridesInv, NEW v \in Slots, NEW c \in Slots, MergeBranch(v, c)
  PROVE  OverridesInv'
  <1>1. Story(Db, entered) /\ Db \in DbRows /\ v \in ThereIn(Db) BY DbFacts DEF OverridesInv, MergeBranch, Story
  <1>2. c \in Slots \ ThereIn(Db) BY FreeFacts DEF MergeBranch
  <1>3. PICK origin \in {"branch", "merge"} : origin = "merge" OBVIOUS
  <1>4. PICK rows \in RowSet : rows = Db.row[v] BY <1>1, DbRow
  <1>5. PICK a : a = NewVersion(Db, v, c, origin) OBVIOUS
  <1>6. a = [a EXCEPT !.row[c] = rows]
    <2>1. PICK r : r = [status |-> "draft", origin |-> origin, calculated |-> FALSE,
                        lineage |-> Db.version[v].lineage \cup {c}] OBVIOUS
    <2>2. PICK vs, rs : vs = [version EXCEPT ![c] = r] /\ rs = [row EXCEPT ![c] = rows] OBVIOUS
    <2>3. a = [Db EXCEPT !.version = vs, !.row = rs]
      <3>1. a = [Db EXCEPT !.version[c] = r, !.row[c] = rows] BY <1>4, <1>5, <2>1 DEF NewVersion
      <3> QED BY <2>2, <3>1, DbFacts
    <2>4. a = [version |-> vs, row |-> rs, log |-> log] BY <2>3 DEF Db
    <2>5. [rs EXCEPT ![c] = rows] = rs BY <1>1, <1>4, <2>2, DbFacts DEF DbRows, RowSet
    <2>6. PICK t : t = [a EXCEPT !.row = rs] OBVIOUS
    <2>7. t = [version |-> vs, row |-> rs, log |-> log] BY <2>4, <2>6
    <2>8. t = [a EXCEPT !.row[c] = rows] BY <2>4, <2>5, <2>6
    <2> QED BY <2>4, <2>7, <2>8
  <1>7. Story([NewVersion(Db, v, c, origin) EXCEPT !.row[c] = rows], entered) BY <1>1, <1>2, BranchedStory
  <1>8. Story(a, entered) BY <1>5, <1>6, <1>7
  <1>9. Store(a) /\ UNCHANGED entered BY <1>3, <1>5 DEF MergeBranch
  <1> QED BY <1>8, <1>9, StoredInv DEF OverridesInv

\* The invariant when a scenario is made.
LEMMA WhatIfKeeps ==
  ASSUME OverridesInv, NEW v \in Slots, NEW c \in Slots, NEW l \in Edited \cap Leaves, NEW shift \in Shifts,
         WhatIf(v, c, l, shift)
  PROVE  OverridesInv'
  <1>1. Story(Db, entered) /\ v \in ThereIn(Db) BY DbFacts DEF OverridesInv, WhatIf
  <1>2. c \in Slots \ ThereIn(Db) BY FreeFacts DEF WhatIf
  <1>3. l \in Lines /\ shift \in Int BY OverridesAssumption DEF Lines
  <1>4. PICK a : a = Cloned(Db, v, c, "scenario") OBVIOUS
  <1>5. Story(a, entered) BY <1>1, <1>2, <1>4, ClonedStory
  <1>6. a \in DbRows BY <1>5 DEF Story
  <1>7. PICK old \in RowSet : old = a.row[c] BY <1>6, DbRow
  <1>8. PICK rows : rows = [old EXCEPT ![l].p50 = @ + shift] OBVIOUS
  <1>9. SameMarksRow(a.row[c], rows)
    <2>1. PICK cell \in Cells : cell = old[l] BY <1>3, <1>7 DEF RowSet
    <2>2. PICK p \in Int : p = cell.p50 + shift BY <1>3 DEF Cells
    <2>3. PICK new \in Cells : new = [cell EXCEPT !.p50 = p] /\ new.marked = cell.marked /\ new.value = cell.value
      BY NewPoint
    <2>4. rows = [old EXCEPT ![l] = new] BY <1>8, <2>1, <2>2, <2>3
    <2>5. rows \in RowSet /\ rows[l] = new /\ \A k \in Lines : k # l => rows[k] = old[k]
      BY <1>3, <1>7, <2>4 DEF RowSet
    <2> QED BY <1>7, <2>1, <2>3, <2>5 DEF SameMarksRow
  <1>10. PICK b : b = [a EXCEPT !.row[c] = rows] OBVIOUS
  <1>11. SameMarks(a, b) BY <1>6, <1>9, <1>10, RowsWritten
  <1>12. Story(b, entered) BY <1>5, <1>11, SameMarksStory
  <1>13. Story(ReconcileVersion(b, c), entered) BY <1>12, ReconciledStory
  <1>14. Store(ReconcileVersion(b, c)) /\ UNCHANGED entered
    <2>1. b = [a EXCEPT !.row[c][l].p50 = @ + shift] BY <1>7, <1>8, <1>10
    <2> QED BY <1>4, <2>1 DEF WhatIf
  <1> QED BY <1>13, <1>14, StoredInv DEF OverridesInv

\* The rows generated are rows without marks.
LEMMA GeneratedRows ==
  Generated \in RowSet /\ \A l \in Lines : ~Generated[l].marked
  <1>1. PICK total \in Int : total = MapThenSumSet(LAMBDA k : Sign[k] * Baseline[k], Inputs)
    <2>1. [l \in Inputs |-> Sign[l] * Baseline[l]] \in [Inputs -> Int]
      BY LinesFacts, OverridesAssumption DEF Leaves
    <2> QED BY <2>1, BaselineIsSum, OverInputsInt
  <1>2. PICK no \in BOOLEAN : no = FALSE OBVIOUS
  <1>3. Generated = [l \in Lines |-> [p50 |-> IF l = Total THEN total ELSE Baseline[l], marked |-> no, value |-> {}]]
    BY <1>1, <1>2 DEF Generated
  <1>4. ASSUME NEW l \in Lines PROVE Generated[l] \in Cells /\ Generated[l].marked = no
    <2>1. PICK p \in Int : p = IF l = Total THEN total ELSE Baseline[l] BY OverridesAssumption DEF Lines
    <2>2. PICK cell : cell = [p50 |-> p, marked |-> no, value |-> {}] OBVIOUS
    <2>3. Generated[l] = cell BY <1>3, <2>1, <2>2
    <2>4. cell \in Cells BY <2>2 DEF Cells
    <2>5. cell.marked = no BY <2>2
    <2> QED BY <2>3, <2>4, <2>5
  <1>5. Generated \in RowSet BY <1>3, <1>4 DEF RowSet
  <1> QED BY <1>2, <1>4, <1>5

\* The invariant at the start.
LEMMA InitKeeps ==
  ASSUME Init
  PROVE  OverridesInv
  <1>1. 1 \in Slots /\ 0 \in 0 .. MaxEntries /\ entered = 0 /\ log = {} BY OverridesAssumption DEF Slots, Init
  <1>2. ASSUME NEW v \in Slots
        PROVE  /\ version[v] \in VersionRows /\ version[v].lineage = {v}
               /\ version[v].status # "absent" => v = 1
               /\ v = 1 => version[v].calculated
    <2>1. PICK first \in BOOLEAN : first = (v = 1) OBVIOUS
    <2>2. PICK status \in {"absent", "draft"}, origin \in {"none", "generated"} :
             /\ status = IF v = 1 THEN "draft" ELSE "absent"
             /\ origin = IF v = 1 THEN "generated" ELSE "none"
      OBVIOUS
    <2>3. PICK r : r = [status |-> status, origin |-> origin, calculated |-> first, lineage |-> {v}] OBVIOUS
    <2>4. version[v] = r
      <3>1. version[v] = [status |-> IF v = 1 THEN "draft" ELSE "absent",
                          origin |-> IF v = 1 THEN "generated" ELSE "none",
                          calculated |-> v = 1, lineage |-> {v}] BY DEF Init
      <3>2. [status |-> IF v = 1 THEN "draft" ELSE "absent",
             origin |-> IF v = 1 THEN "generated" ELSE "none",
             calculated |-> v = 1, lineage |-> {v}] = r BY <2>1, <2>2, <2>3, Zenon
      <3> QED BY <3>1, <3>2
    <2>5. r \in VersionRows /\ r.lineage = {v} /\ r.status = status BY <2>3 DEF VersionRows
    <2>6. r.calculated = first BY <2>3
    <2>7. v = 1 => version[v].calculated BY <2>1, <2>4, <2>6
    <2>8. version[v].status # "absent" => v = 1 BY <2>2, <2>4, <2>5
    <2> QED BY <2>4, <2>5, <2>7, <2>8
  <1>3. row = [v \in Slots |-> Generated] BY DEF Init
  <1>4. Db \in DbRows
    <2>1. version \in [Slots -> VersionRows]
      <3>1. version = [v \in Slots |-> version[v]] BY DEF Init
      <3> QED BY <1>2, <3>1
    <2>2. row \in [Slots -> [Lines -> Cells]] BY <1>3, GeneratedRows DEF RowSet
    <2> QED BY <1>1, <2>1, <2>2 DEF Db, DbRows
  <1>5. Descends(Db)
    <2>1. ASSUME NEW v \in ThereIn(Db) PROVE v \in Db.version[v].lineage /\ Db.version[v].lineage \subseteq ThereIn(Db)
      <3>1. v \in Slots /\ Db.version[v].lineage = {v} BY <1>2, DbFacts DEF ThereIn
      <3> QED BY <3>1
    <2>2. ASSUME NEW v \in PlainIn(Db) PROVE Db.version[v].calculated
      <3>1. v \in Slots /\ Db.version[v].status # "absent" BY DEF PlainIn, ThereIn
      <3> QED BY <1>2, <3>1, DbFacts
    <2> QED BY <2>1, <2>2 DEF Descends
  <1>6. ASSUME NEW v \in Slots, NEW l \in Lines PROVE SingleIn(Db, v, l) /\ TracedIn(Db, v, l) /\ LatestIn(Db, v, l)
    <2>1. ~Db.row[v][l].marked BY <1>3, GeneratedRows, DbFacts
    <2>2. ActiveIn(Db.log, v, l) = {} BY <1>1, DbFacts DEF ActiveIn
    <2> QED BY <2>1, <2>2 DEF SingleIn, TracedIn, LatestIn
  <1>7. \A v \in PlainIn(Db) : v \in Slots BY DEF PlainIn, ThereIn
  <1>8. Timely(Db, 0) BY <1>1, DbFacts DEF Timely
  <1>9. Story(Db, 0) BY <1>4, <1>5, <1>6, <1>7, <1>8 DEF Story
  <1> QED BY <1>1, <1>9 DEF OverridesInv

\* The step is an override of v only if a handler says so, and that handler
\* leaves v adding up.
OverridesSettled == \A v \in PlainIn(Db') : Overriding(v) => AddedUp(Db', v)

\* The invariant in every step, and what the step leaves settled.
LEMMA NextKeeps ==
  ASSUME OverridesInv, [Next]_vars
  PROVE  OverridesInv' /\ OverridesSettled
  <1>1. ASSUME entered' = entered PROVE OverridesSettled BY <1>1 DEF OverridesSettled, Overriding
  <1>2. ASSUME NEW v \in Slots, Approve(v) PROVE OverridesInv' /\ entered' = entered
    BY <1>2, ApproveKeeps DEF Approve
  <1>3. ASSUME NEW v \in Slots, NEW c \in Slots, NEW l \in Edited, NEW x \in Values, ChatOverride(v, c, l, x)
        PROVE  OverridesInv' /\ OverridesSettled
    <2>1. OverridesInv' /\ AddedUp(Db', c) /\ \A e \in log' \ log : e.by # "copy" => e.v = c
      BY <1>3, ChatOverrideKeeps
    <2>2. ASSUME NEW u \in PlainIn(Db'), Overriding(u) PROVE u = c
      <3>1. PICK e \in log' \ log : e.v = u /\ e.by \in {"chat", "inline"} BY <2>2 DEF Overriding
      <3> QED BY <2>1, <3>1
    <2> QED BY <2>1, <2>2 DEF OverridesSettled
  <1>4. ASSUME NEW v \in Slots, NEW c \in Slots, ChatOverrideRefused(v, c) PROVE OverridesInv' /\ entered' = entered
    BY <1>4, ChatOverrideRefusedKeeps DEF ChatOverrideRefused
  <1>5. ASSUME NEW v \in Slots, NEW l \in Edited, NEW x \in Values, InlineOverride(v, l, x)
        PROVE  OverridesInv' /\ OverridesSettled
    <2>1. OverridesInv' /\ AddedUp(Db', v) /\ \A e \in log' \ log : e.at = entered' => e.v = v
      BY <1>5, InlineOverrideKeeps
    <2>2. ASSUME NEW u \in PlainIn(Db'), Overriding(u) PROVE u = v
      <3>1. PICK e \in log' \ log : e.v = u /\ e.at = entered' BY <2>2 DEF Overriding
      <3> QED BY <2>1, <3>1
    <2> QED BY <2>1, <2>2 DEF OverridesSettled
  <1>6. ASSUME NEW e \in log, RevertOverride(e) PROVE OverridesInv' /\ entered' = entered
    BY <1>6, RevertOverrideKeeps DEF RevertOverride
  <1>7. ASSUME NEW e \in log, RevertOverrideFailed(e) PROVE OverridesInv' /\ entered' = entered
    BY <1>7, RevertOverrideFailedKeeps DEF RevertOverrideFailed
  <1>8. ASSUME NEW v \in Slots, NEW l \in Edited, NEW x \in Values, NEW chat \in BOOLEAN, DriverSubmission(v, l, x, chat)
        PROVE  OverridesInv' /\ OverridesSettled
    <2>1. OverridesInv' /\ \A e \in log' \ log : e.by = "driver" BY <1>8, DriverSubmissionKeeps
    <2>2. ASSUME NEW u \in PlainIn(Db'), Overriding(u) PROVE FALSE
      <3>1. PICK e \in log' \ log : e.by \in {"chat", "inline"} BY <2>2 DEF Overriding
      <3> QED BY <2>1, <3>1
    <2> QED BY <2>1, <2>2 DEF OverridesSettled
  <1>14. ASSUME NEW v \in Slots, NEW l \in Edited, NEW chat \in BOOLEAN, DriverAgreement(v, l, chat)
         PROVE  OverridesInv' /\ OverridesSettled
    <2>1. OverridesInv' /\ \A e \in log' \ log : e.by = "driver" BY <1>14, DriverAgreementKeeps
    <2>2. ASSUME NEW u \in PlainIn(Db'), Overriding(u) PROVE FALSE
      <3>1. PICK e \in log' \ log : e.by \in {"chat", "inline"} BY <2>2 DEF Overriding
      <3> QED BY <2>1, <3>1
    <2> QED BY <2>1, <2>2 DEF OverridesSettled
  <1>9. ASSUME NEW v \in Slots, NEW l \in Edited, NEW x \in Values, DriverSubmissionFailed(v, l, x)
        PROVE  OverridesInv' /\ OverridesSettled
    <2>1. OverridesInv' /\ log' = log BY <1>9, DriverSubmissionFailedKeeps
    <2> QED BY <2>1 DEF OverridesSettled, Overriding
  <1>10. ASSUME NEW v \in Slots, NEW c \in Slots, NEW adjusted \in Adjustments, CreateBranch(v, c, adjusted)
         PROVE  OverridesInv' /\ entered' = entered
    BY <1>10, CreateBranchKeeps DEF CreateBranch
  <1>11. ASSUME NEW v \in Slots, NEW c \in Slots, MergeBranch(v, c) PROVE OverridesInv' /\ entered' = entered
    BY <1>11, MergeBranchKeeps DEF MergeBranch
  <1>12. ASSUME NEW v \in Slots, NEW c \in Slots, NEW l \in Edited \cap Leaves, NEW shift \in Shifts, WhatIf(v, c, l, shift)
         PROVE  OverridesInv' /\ entered' = entered
    BY <1>12, WhatIfKeeps DEF WhatIf
  <1>13. CASE UNCHANGED vars
    <2>1. Db' = Db /\ entered' = entered BY <1>13 DEF vars, Db
    <2>2. OverridesInv' BY <2>1 DEF OverridesInv
    <2> QED BY <1>1, <2>1, <2>2
  <1> QED BY <1>1, <1>2, <1>3, <1>4, <1>5, <1>6, <1>7, <1>8, <1>9, <1>10, <1>11, <1>12, <1>13, <1>14 DEF Next

\* The invariant implies what is claimed of rows, records and the last write.
LEMMA InvImplies ==
  ASSUME OverridesInv
  PROVE  OverridesTypeOK /\ RecordsMatchRows /\ LastWriteWins
  <1>1. Story(Db, entered) /\ entered \in 0 .. MaxEntries BY DEF OverridesInv
  <1>2. OverridesTypeOK BY <1>1 DEF OverridesTypeOK, Story, Db, DbRows
  <1>3. ASSUME NEW v \in Unbranched, NEW l \in Lines PROVE TracedIn(Db, v, l) /\ LatestIn(Db, v, l)
    BY <1>1, DbFacts DEF Story
  <1>4. MarkedTraceable BY <1>3, DbFacts DEF MarkedTraceable, TracedIn
  <1>5. LastWriteWins BY <1>3, DbFacts DEF LastWriteWins, LatestIn, NewestIn, Newest
  <1>6. OneActiveUnlessChat
    <2>1. \A v \in Slots, l \in Lines : SingleIn(Db, v, l) BY <1>1 DEF Story
    <2> QED BY <2>1, DbFacts DEF OneActiveUnlessChat, SingleIn
  <1> QED BY <1>2, <1>4, <1>5, <1>6 DEF RecordsMatchRows

-----------------------------------------------------------------------------
(* The theorems *)

\* Every reachable state of the tables keeps the story they tell: who descends
\* from whom, and which entry each mark is the trace of.
THEOREM OverridesCorrect == Spec => []OverridesInv
<1>1. Init => OverridesInv BY InitKeeps
<1>2. OverridesInv /\ [Next]_vars => OverridesInv' BY NextKeeps
<1> QED BY <1>1, <1>2, PTL DEF Spec

\* Rows, versions and records stay well typed, through every sum the
\* recalculation and the reconciliation make (recalculate_and_reconcile).
THEOREM OverridesTypesKept == Spec => []OverridesTypeOK
<1>1. OverridesInv => OverridesTypeOK BY InvImplies
<1> QED BY <1>1, OverridesCorrect, PTL

\* For any lines, signs, baselines, values and number of versions: a number
\* marked as overridden is traceable to a record, and superseding keeps one
\* active record per cell (apply_override, inline_override, revert_override,
\* clone_version_for_edit, apply_driver_submission).
THEOREM RecordsMatchRowsAlways == Spec => []RecordsMatchRows
<1>1. OverridesInv => RecordsMatchRows BY InvImplies
<1> QED BY <1>1, OverridesCorrect, PTL

\* The newest value a person entered in a cell is the one it shows while it is
\* marked, whichever of the handlers entered it.
THEOREM LastWriteWinsAlways == Spec => []LastWriteWins
<1>1. OverridesInv => LastWriteWins BY InvImplies
<1> QED BY <1>1, OverridesCorrect, PTL

\* After an override of a version that never went through a branch, by chat or
\* from the table, the calculated line is the sum of its inputs' points but for
\* the remainder of an integer division: the recalculation never fails there,
\* and the reconciliation always follows it.  Where the gap divides evenly, as
\* the bounds of the model see to, nothing remains (ReconciledRows).
PointsAddUpToRounding ==
    [][\A v \in Unbranched' : Overriding(v) => Gap(row'[v]) \in 0 .. Cardinality(Inputs)]_vars

\* Every step of the handlers keeps to it (apply_override, inline_override,
\* recalculate_and_reconcile).
THEOREM PointsAddUpToRoundingAlways == Spec => PointsAddUpToRounding
<1> DEFINE A == \A v \in Unbranched' : Overriding(v) => Gap(row'[v]) \in 0 .. Cardinality(Inputs)
<1>1. OverridesInv /\ [Next]_vars => [A]_vars
  <2>1. SUFFICES ASSUME OverridesInv, [Next]_vars PROVE A OBVIOUS
  <2>2. OverridesSettled BY <2>1, NextKeeps
  <2>3. Unbranched' = PlainIn(Db') /\ Db'.row = row' BY DbFacts DEF Unbranched, Existing, PlainIn, ThereIn, Db
  <2> QED BY <2>2, <2>3 DEF OverridesSettled, AddedUp
<1> QED BY <1>1, OverridesCorrect, PTL DEF Spec, PointsAddUpToRounding
==============================================================================
