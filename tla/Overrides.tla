----------------------------- MODULE Overrides -----------------------------
(***************************************************************************)
(* The values of forecast versions and the human writes over them.         *)
(*                                                                         *)
(* A version holds one row per line: the published point p50 and, when a   *)
(* person has overridden it, a mark and the value entered.  The Override   *)
(* table logs those entries.  Rows are written by the apply_override       *)
(* skill, the inline override of the forecast table, the reversion both    *)
(* share, driver submissions, branches, merges and what-if scenarios.      *)
(* Nearly all of them then recompute the calculated line and reconcile     *)
(* the hierarchy (MinT).                                                   *)
(*                                                                         *)
(* A skill that raises is not rolled back: the registry answers an error   *)
(* and the commit that ends the chat turn (record_token_usage) stores what *)
(* the skill had written.  A REST handler that raises stores nothing.      *)
(*                                                                         *)
(* One period; a handler runs without interruption (one server process).   *)
(* Intervals, counters and audit rows are left out.                        *)
(***************************************************************************)
EXTENDS Integers, FiniteSets, FiniteSetsExt

CONSTANTS
    Inputs,        \* leaf lines that feed the calculated line
    Loners,        \* leaf lines that feed nothing
    Total,         \* the calculated line
    Sign,          \* Sign[l]: 1 for a sum edge, -1 for a subtract edge
    Baseline,      \* the p50 the generated version gives each leaf
    Values,        \* override values a person may enter
    Edited,        \* bound: lines that people edit
    Adjustments,   \* bound: sets of lines a branch adjusts
    Shifts,        \* what a what-if adds to a line
    MaxVersions,   \* bound: versions that may exist
    MaxEntries     \* bound: values entered by people

Leaves == Inputs \cup Loners
Lines  == Leaves \cup {Total}
Slots  == 1 .. MaxVersions

ASSUME OverridesAssumption ==
    /\ IsFiniteSet(Inputs) /\ Inputs \cap Loners = {} /\ Total \notin Leaves
    /\ Sign \in [Inputs -> {1, -1}] /\ Baseline \in [Leaves -> Int]
    /\ Values \subseteq Int /\ Edited \subseteq Lines
    /\ Adjustments \subseteq SUBSET Leaves /\ Shifts \subseteq Int
    /\ MaxVersions \in Nat \ {0} /\ MaxEntries \in Nat

VARIABLES
    version,   \* version[v]: status, how it was made, and the versions it descends from
    row,       \* row[v][l]: p50, marked (is_overridden) and value (override_value)
    log,       \* the Override records and the values of DriverInput rows
    entered    \* values entered so far; an entry keeps the count as its time

vars == <<version, row, log, entered>>

(* override_value is a set of at most one number: {} is NULL. *)
Cells == [p50 : Int, marked : BOOLEAN, value : SUBSET Int]

Entries == [v : Slots, line : Lines, by : {"chat", "inline", "driver", "copy"}, at : Nat,
            original : Int, value : Int,
            status : {"active", "superseded", "reverted", "submitted"}]

\* calculated: the version's row of the calculated line has is_calculated set.
VersionRows == [status : {"absent", "draft", "approved"},
                origin : {"none", "generated", "clone", "scenario", "branch", "merge"},
                calculated : BOOLEAN, lineage : SUBSET Slots]

OverridesTypeOK ==
    /\ version \in [Slots -> VersionRows]
    /\ row \in [Slots -> [Lines -> Cells]]
    /\ log \subseteq Entries
    /\ entered \in 0 .. MaxEntries

Existing  == {v \in Slots : version[v].status # "absent"}
Free(c)   == c \in Slots \ Existing /\ \A v \in Slots \ Existing : c <= v
Locked(v) == version[v].status # "draft"

\* Versions whose rows never went through a branch.
Unbranched == {v \in Existing : \A u \in version[v].lineage : version[u].origin \notin {"branch", "merge"}}

ActiveIn(entries, v, l) == {e \in entries : e.v = v /\ e.line = l /\ e.status = "active"}

-----------------------------------------------------------------------------
(* Recalculation and reconciliation *)

Held(c) == IF c.marked THEN c.value ELSE {c.p50}
The(S)  == CHOOSE x \in S : TRUE

\* A NULL among the inputs makes the recalculation raise.
Computable(rows) == \A l \in Inputs : Held(rows[l]) # {}

\* The calculated line from what its inputs hold, and from their p50.
FromHeld(rows) == MapThenSumSet(LAMBDA l : Sign[l] * The(Held(rows[l])), Inputs)
FromP50(rows)  == MapThenSumSet(LAMBDA l : Sign[l] * rows[l].p50, Inputs)

\* recalculate_dependents of one changed line, before any reconciliation.
Recalculated(rows, l) ==
    IF l \in Inputs THEN [rows EXCEPT ![Total].p50 = FromHeld(rows)] ELSE rows

Gap(rows) == rows[Total].p50 - FromP50(rows)

\* Mutant: the projection moves the calculated line and forgets its inputs.
ReconciledParentOnly(rows) ==
    [rows EXCEPT ![Total].p50 = @ - Gap(rows) \div (Cardinality(Inputs) + 1)]

\* Full MinT.  The base vector takes the p50 of the inputs, overridden or not,
\* and the p50 the calculated line had before this recalculation; with the
\* covariance implied by the summing matrix the projection is the least-squares
\* one, which spreads the gap evenly.  Values are multiples of a unit that
\* keeps the division exact.
Reconciled(rows) ==
    LET share == Gap(rows) \div (Cardinality(Inputs) + 1)
    IN  [l \in Lines |->
            IF l \in Inputs THEN [rows[l] EXCEPT !.p50 = @ + Sign[l] * share]
            ELSE IF l = Total THEN [rows[l] EXCEPT !.p50 = @ - share]
            ELSE rows[l]]

-----------------------------------------------------------------------------
(* The tables as one value, so that a handler is a composition of steps. *)

Db == [version |-> version, row |-> row, log |-> log]

Store(db) == version' = db.version /\ row' = db.row /\ log' = db.log

\* reconcile_version; on a NULL input it raises before it writes.
ReconcileVersion(db, v) ==
    IF Computable(db.row[v])
    THEN [db EXCEPT !.row[v] = Reconciled(@), !.version[v].calculated = TRUE]
    ELSE db

\* recalculate_and_reconcile after a change of line l: reconciles if a line was
\* recalculated or the version already has a calculated one.
Settled(db, v, l) ==
    IF l \in Inputs \/ db.version[v].calculated
    THEN ReconcileVersion(IF Computable(db.row[v]) THEN [db EXCEPT !.row[v] = Recalculated(@, l)] ELSE db, v)
    ELSE db

NewVersion(db, v, c, origin) ==
    [db EXCEPT !.version[c] = [status |-> "draft", origin |-> origin,
                               calculated |-> FALSE,
                               lineage |-> db.version[v].lineage \cup {c}],
               !.row[c] = db.row[v]]

\* Mutant: the copy leaves the active records behind.
ClonedWithoutRecords(db, v, c, origin) ==
    [NewVersion(db, v, c, origin) EXCEPT !.version[c].calculated = db.version[v].calculated]

\* clone_version_for_edit: rows and active records, into a draft child.
Cloned(db, v, c, origin) ==
    [NewVersion(db, v, c, origin) EXCEPT
        !.version[c].calculated = db.version[v].calculated,
        !.log = @ \cup {[e EXCEPT !.v = c, !.by = "copy"] : e \in {e \in db.log : e.v = v /\ e.status = "active"}}]

Mark(c, x) == [c EXCEPT !.marked = TRUE, !.value = {x}]

Entry(v, l, by, original, x, status) ==
    [v |-> v, line |-> l, by |-> by, at |-> entered + 1, original |-> original, value |-> x, status |-> status]

\* A new record and the row it is about.
Overridden(db, v, l, x, by, original) ==
    [db EXCEPT !.log = @ \cup {Entry(v, l, by, original, x, "active")}, !.row[v][l] = Mark(@, x)]

Enter == entered < MaxEntries /\ entered' = entered + 1

\* Mutant: a status no reader knows.
RestatusUnknown(entries, e, s) == (entries \ {e}) \cup {[e EXCEPT !.status = "inactive"]}

Restatus(entries, e, s) == (entries \ {e}) \cup {[e EXCEPT !.status = s]}

-----------------------------------------------------------------------------
(* The first version is generated, in coherence. *)

Generated ==
    [l \in Lines |->
        [p50 |-> IF l = Total THEN MapThenSumSet(LAMBDA k : Sign[k] * Baseline[k], Inputs) ELSE Baseline[l],
         marked |-> FALSE, value |-> {}]]

Init ==
    /\ version = [v \in Slots |->
                    [status |-> IF v = 1 THEN "draft" ELSE "absent",
                     origin |-> IF v = 1 THEN "generated" ELSE "none",
                     calculated |-> v = 1, lineage |-> {v}]]
    /\ row = [v \in Slots |-> Generated]
    /\ log = {}
    /\ entered = 0

-----------------------------------------------------------------------------
(* The handlers *)

\* Approval, by its effect on the guards of the writers: "draft" stands for
\* in_review and "approved" for published and archived.  The workflow itself is
\* Approvals.
Approve(v) ==
    /\ version[v].status = "draft"
    /\ version' = [version EXCEPT ![v].status = "approved"]
    /\ UNCHANGED <<row, log, entered>>

Original(cell) == IF cell.marked THEN The(cell.value) ELSE cell.p50

\* apply_override.  A locked version is cloned first.  The record's original is
\* what the row held; a row that held NULL fails the record's insertion and
\* stores nothing.  If the recalculation raises, record and row remain.
ChatOverride(v, c, l, x) ==
    /\ v \in Existing /\ l \in Lines
    /\ IF Locked(v) THEN Free(c) ELSE c = v
    /\ LET db == IF Locked(v) THEN Cloned(Db, v, c, "clone") ELSE Db
       IN  /\ Held(db.row[c][l]) # {}
           /\ Store(Settled(Overridden(db, c, l, x, "chat", Original(db.row[c][l])), c, l))
    /\ Enter

\* set_memory has committed the clone when a later check refuses the override:
\* no such line, no reason, an edit lock held by someone else.
ChatOverrideRefused(v, c) ==
    /\ v \in Existing /\ Locked(v) /\ Free(c)
    /\ Store(Cloned(Db, v, c, "clone"))
    /\ UNCHANGED entered

\* The log with one active record of the cell superseded, if it has any.
Superseded(v, l) ==
    IF ActiveIn(log, v, l) = {} THEN {log}
    ELSE {Restatus(log, e, "superseded") : e \in ActiveIn(log, v, l)}

\* inline_override, whatever the version's status; a failing recalculation is
\* caught and the override committed without it.
InlineOverride(v, l, x) ==
    /\ v \in Existing /\ l \in Lines
    /\ \E entries \in Superseded(v, l) :
          Store(Settled(Overridden([Db EXCEPT !.log = entries], v, l, x, "inline", row[v][l].p50), v, l))
    /\ Enter

\* Mutant: the reversion restores the p50 and leaves the mark.
RestoredMarked(cell, e) == [cell EXCEPT !.p50 = e.original]

Restored(cell, e) == [p50 |-> e.original, marked |-> FALSE, value |-> {}]

\* revert_override: the row takes the original as its p50, and is pinned to it
\* after the reconciliation.
RevertOverride(e) ==
    LET db == [Db EXCEPT !.row[e.v][e.line] = Restored(@, e)]
    IN  /\ e.status = "active"
        /\ Computable(db.row[e.v])
        /\ Store([Settled(db, e.v, e.line) EXCEPT !.row[e.v][e.line] = Restored(@, e),
                                                  !.log = Restatus(log, e, "reverted")])
        /\ UNCHANGED entered

\* The skill's reversion when the recalculation raises: the row is cleared and
\* the record stays active.
RevertOverrideFailed(e) ==
    LET db == [Db EXCEPT !.row[e.v][e.line] = Restored(@, e)]
    IN  /\ e.status = "active" /\ ~Computable(db.row[e.v])
        /\ Store(db)
        /\ UNCHANGED entered

\* apply_driver_submission: a value that differs from the p50 marks the row and
\* recomputes the calculated line, with no record and no reconciliation.  The
\* REST handler refuses a locked version; the skill does not.
DriverSubmission(v, l, x, chat) ==
    LET db == [Db EXCEPT !.row[v][l] = Mark(@, x)]
    IN  /\ v \in Existing /\ l \in Lines /\ (chat \/ ~Locked(v))
        /\ x # row[v][l].p50
        /\ l \in Inputs => Computable(db.row[v])
        /\ Store([db EXCEPT !.row[v] = Recalculated(@, l),
                            !.version[v].calculated = @ \/ l \in Inputs,
                            !.log = @ \cup {Entry(v, l, "driver", row[v][l].p50, x, "submitted")}])
        /\ Enter

\* A value that is the p50 is submitted too, and the row is left as it was: one
\* that a person has overridden goes on showing that override.
DriverAgreement(v, l, chat) ==
    LET p50 == row[v][l].p50
    IN  /\ v \in Existing /\ l \in Lines /\ (chat \/ ~Locked(v))
        /\ p50 \in Values
        /\ Store([Db EXCEPT !.log = @ \cup {Entry(v, l, "driver", p50, p50, "submitted")}])
        /\ Enter

\* The skill's submission when the recalculation raises: the mark is stored,
\* the submission is not.
DriverSubmissionFailed(v, l, x) ==
    LET db == [Db EXCEPT !.row[v][l] = Mark(@, x)]
    IN  /\ v \in Existing /\ l \in Inputs /\ x # row[v][l].p50
        /\ ~Computable(db.row[v])
        /\ Store(db)
        /\ Enter

\* create_branch copies the rows without their records.  An adjusted leaf takes
\* a new p50 and the mark, and no value.
Adjusted(cell) == [cell EXCEPT !.p50 = 2 * @, !.marked = TRUE]

CreateBranch(v, c, adjusted) ==
    /\ v \in Existing /\ Free(c) /\ adjusted \subseteq Leaves
    /\ LET db == NewVersion(Db, v, c, "branch")
           rows == [l \in Lines |-> IF l \in adjusted THEN Adjusted(row[v][l]) ELSE row[v][l]]
       IN  Store(ReconcileVersion([db EXCEPT !.row[c] = rows], c))
    /\ UNCHANGED entered

\* merge_to_base copies the rows of any version, without records or parent.
MergeBranch(v, c) ==
    /\ v \in Existing /\ Free(c)
    /\ Store(NewVersion(Db, v, c, "merge"))
    /\ UNCHANGED entered

\* create_what_if_scenario: a clone whose linked line moves, then reconciled.
WhatIf(v, c, l, shift) ==
    /\ v \in Existing /\ l \in Leaves /\ Free(c)
    /\ Store(ReconcileVersion([Cloned(Db, v, c, "scenario") EXCEPT !.row[c][l].p50 = @ + shift], c))
    /\ UNCHANGED entered

Next ==
    \/ \E v \in Slots : Approve(v)
    \/ \E v, c \in Slots, l \in Edited, x \in Values : ChatOverride(v, c, l, x)
    \/ \E v, c \in Slots : ChatOverrideRefused(v, c)
    \/ \E v \in Slots, l \in Edited, x \in Values : InlineOverride(v, l, x)
    \/ \E e \in log : RevertOverride(e)
    \/ \E e \in log : RevertOverrideFailed(e)
    \/ \E v \in Slots, l \in Edited, x \in Values, chat \in BOOLEAN : DriverSubmission(v, l, x, chat)
    \/ \E v \in Slots, l \in Edited, chat \in BOOLEAN : DriverAgreement(v, l, chat)
    \/ \E v \in Slots, l \in Edited, x \in Values : DriverSubmissionFailed(v, l, x)
    \/ \E v, c \in Slots, adjusted \in Adjustments : CreateBranch(v, c, adjusted)
    \/ \E v, c \in Slots : MergeBranch(v, c)
    \/ \E v, c \in Slots, l \in Edited \cap Leaves, shift \in Shifts : WhatIf(v, c, l, shift)

Spec == Init /\ [][Next]_vars

-----------------------------------------------------------------------------
(* Properties *)

\* An entry that set its row: every one a person made, but a driver's value that
\* was the p50 already.
Applied(e) == e.by # "copy" /\ (e.by = "driver" => e.value # e.original)

\* Every number in a version that never went through a branch is traceable: a
\* marked row shows the value of an active record of that version, or one that
\* a driver submission set there or in a version it was cloned from.
MarkedTraceable ==
    \A v \in Unbranched, l \in Lines : row[v][l].marked =>
        \E e \in log :
            /\ e.line = l /\ row[v][l].value = {e.value}
            /\ \/ e.v = v /\ e.status = "active"
               \/ e.v \in version[v].lineage /\ e.status = "submitted" /\ Applied(e)

\* The last entry that set a cell of a version.
Newest(v, l) == {e \in log : /\ e.v = v /\ e.line = l /\ Applied(e)
                             /\ \A f \in log : f.v = v /\ f.line = l /\ Applied(f) => f.at <= e.at}

\* Last write wins: a marked row shows the newest value that set its cell (the
\* records copied into a clone carry no order, and a driver's value that was
\* the p50 already sets nothing, however old the mark it leaves), and the record
\* of that entry is neither superseded nor reverted.
LastWriteWins ==
    \A v \in Unbranched, l \in Lines : row[v][l].marked =>
        \A e \in Newest(v, l) : row[v][l].value = {e.value} /\ e.status \in {"active", "submitted"}

\* Superseding keeps one active record per cell, where neither the chat skill,
\* which supersedes nothing, nor a clone has added others.
OneActiveUnlessChat ==
    \A v \in Slots, l \in Lines :
        (\A e \in log : e.v = v /\ e.line = l => e.by \notin {"chat", "copy"})
            => \A e, f \in ActiveIn(log, v, l) : e = f

\* Rows and records tell the same story: every mark has its record, and a cell
\* as many active ones as superseding leaves (apply_override, inline_override).
RecordsMatchRows == MarkedTraceable /\ OneActiveUnlessChat

\* The step is an override, by chat or from the table, of version v.
Overriding(v) ==
    \E e \in log' \ log : e.v = v /\ e.by \in {"chat", "inline"} /\ e.at = entered' /\ entered' # entered

\* After an override the points of a version add up: the calculated line has
\* the sum of its inputs' p50.
PointsAddUp ==
    [][\A v \in Unbranched' : Overriding(v) => row'[v][Total].p50 = FromP50(row'[v])]_vars
=============================================================================
