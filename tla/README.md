# TLA+ models of the rolling-forecast backend

These modules specify the parts of the rolling-forecast service whose
correctness depends on the order in which things happen, on what was read before
it was used, or on arithmetic at an edge: who may decide an approval step and
when, who may write a cell and what the cell then shows, which data a forecast
is built from, what a poll of a background job may answer, who is signed in and
what they may read. They are written from the code under `src/backend/app` at
this commit. TLC checks small instances; TLAPS proves, for
every value of the constants, all but two of the safety invariants that the runs
check, every action property but one, and the refinements; of the two that are
left, one is proved in most of its parts.

## The system

The backend is a FastAPI application over SQLAlchemy (`database.py`), with
Redis, when configured, for locks, job records, the token denylist and arq's
queues. Two arq workers run beside it: one for forecasts and the nightly
sweeps (one slot), one for short tasks (four slots). Users act through REST
endpoints (`api/`) and through a chat agent whose tools are skills
(`domain/skills/`); a React client polls for the results of queued work.

Handlers are coroutines that do not await between their queries. One server
process (the Dockerfile starts one uvicorn worker) therefore runs a handler
without interruption; with two (`docker-compose.prod.yml` starts two) the
transactions of the handlers interleave under READ COMMITTED. Sessions are made
with `autoflush=False`, so a query does not see what its own handler assigned
before it, and an attribute is written at commit only if it differs from the
value that was loaded. A skill that raises in a chat turn is not rolled back:
the registry answers an error, and the commit that records the turn's tokens
stores what the skill had written.

### Inventory

| Component | State | Operations | Interacts with | What makes it correct |
|---|---|---|---|---|
| Approval workflow (`api/approvals.py`, `models/approval.py`, `review_forecast`, `manage_versions`, `panel.delete_version`) | version status, step rows, audit events, notification dedup keys | submit, decide, chat submit/approve/reject, update_status, delete | notifications; versions | levels in order; deciders entitled; decisions durable; a full set of approvals approves |
| Edit locks (`services/locks.py`, `api/locks.py`, `apply_override`) | Redis keys with a lease, or a dictionary per process | acquire, refresh, release, purge, expiry | overrides | one writer per cell; while its key lasts, a lock is its holder's |
| Background jobs (`job_queue.py`, `background_tasks.py`, `arq_worker.py`) | arq's entry, the status record in Redis, the database | enqueue, run, update, retry, time out, fall back inline | generation, notifications, client polling | completed means done; work not repeated without cause; polls settle |
| Overrides and versions (`overrides.py`, `versioning.py`, `apply_override`, `dashboard.inline_override`) | row values, override records, draft children | apply, inline apply, revert, clone, submit drivers | locks, dependency graph, reconciliation | every marked number traceable; last write wins; points add up |
| Scenarios and branches (`branch_forecast`, `run_what_if`, `scenario_what_if.py`) | branch versions | branch, adjust, merge, what-if | overrides | a branch leaves its parent alone |
| Line review (`dashboard.py` review-item, batch-review, accept-ai, undo-review) | review fields of rows, undo snapshots | review, batch, accept, undo | scoring | undo is exact and one-shot |
| Driver workflow and discovery (`drivers.py`, `driver_series.py`, `driver_discovery.py`, `driver_forecast_cache.py`) | links, runs, values, cached fits | assert, promote, discover, ingest, forecast | overrides, generation | links follow the last run and people; fits follow values |
| Sessions and tokens (`token_store.py`, `oidc_store.py`, `auth.py`) | refresh families, denylist, pending logins | issue, rotate, revoke, redeem | every request | who received every answer stays signed in; who signed out is refused |
| Tenancy and permissions (`tenant_scope.py`, `permissions.py`, `company_membership.py`) | a scope per request; memberships | push, reset, switch, grant, edit | every query | a request reads one company, the one it began in |
| Actuals (`actuals_ingest.py`, `actuals_resolution.py`, `scheduled_ingestion.py`) | datasets, pins, connections | upload, pull, unpin, delete, nightly sync | jobs, generation | an upload wins until taken back; what was pulled is answered for once |
| Forecast generation (`generate_baseline.py`, `forecast_pipeline.py`, `interval_calibration.py`, `confidence.py`) | versions and rows | generate, time out, fail, rescore, ensemble | actuals, drivers, jobs, currency | a version is what its answer said; a band rests on its own model's errors |
| Statistical engines (`domain/engines`) | none | screen, compare, choose | generation, presets | the choice does not depend on what was not tested |
| Model presets (`model_presets.py`) | candidate lists | resolve | engines | a list restricts the run or stops it |
| Dependency graph and reconciliation (`dependency_graph.py`, `coa_dependencies.py`, `reconciliation.py`) | edges | add, wire, recalculate, reconcile | overrides, generation | no cycle from transactions one after another |
| Period calendar (`period_calendar.py`) | none | label, start, step, offset | everything dated | each day lies in the period its label names |
| KPI formulas (`kpi_formula.py`, `kpis.py`) | definitions | validate, save, evaluate | chart of accounts, rows | parsing is the grammar's; meaning is kept |
| Accuracy and reflection (`accuracy_snapshot.py`, `reflection.py`, `variance_attribution.py`) | records, learned rules | score, report, propose, promote, reject, attribute | actuals, generation | reports agree; a promotion stands; a change is attributed in full |
| Anomalies (`dashboard.py`, `detect_anomalies`) | dismissals | scan, dismiss | notifications | two scans agree; sensitivity is monotone |
| Notifications and sweeps (`notifications.py`, `arq_worker.py`) | dedup keys | notify, chase | driver forms | whoever is owed a notice gets it; who submitted is not chased |
| Reading and reporting (`executive.py`, `panel.py`, `board_pack.py`, `forecast_export.py`, query and compare skills) | none | aggregate, compare, choose a version | rows | everyone reads the same number |
| Currency (`fx.py`, `admin_fx.py`) | rates, reporting currency | create, change, delete, upload, convert | generation | one version, one currency; its hash tells its rates |
| Chat and agent (`chat.py`, `master_agent.py`, `context_manager.py`) | working memory | turn, remember, record | every skill | what a turn remembers the next one finds |
| Memory and documents, lookup and views, plumbing, frontend | text, records, views | see `PROJECT.json` | all | outside a model checker's reach, or record keeping |

The behaviours that are hard: read-then-write handlers in two processes;
queries that run before the handler's own changes are flushed; submissions,
rejections and resubmissions that leave rows behind; leases that lapse in the
middle of a call; a worker that dies between its commit and its record; a save
that arrives after the event it announces; timeouts that no `except` sees;
skills that fail half way and are committed all the same; two readers of one
number with a query each; settings that change while a long run uses them.
`PROJECT.json` lists each at its line, with the properties that watch it.

## Modules

Composed modules: `Overrides` puts versions, rows, records, recalculation and
reconciliation into one state; `Drivers` composes links and cache, `SignIn`
sessions and sign-off. `MCLifecycles` puts the parts that share no variable into
one instance.

| Module | What it is |
|---|---|
| `Approvals`, `MCApprovals`, `ApprovalsProofs` | the approval workflow of one version; instances with one and two processes; proofs |
| `LeaseLock`, `EditLock`, `MCEditLock`, `EditLockProofs` | a lock with a lease, the abstract specification; the locks on Redis and in the dictionaries, and their callers; proofs and refinements |
| `BackgroundJobs`, `MCBackgroundJobs`, `BackgroundJobsProofs` | jobs, their entries in arq, their records and runs; proofs |
| `Overrides`, `MCOverrides`, `OverridesProofs` | rows of versions, the human writes over them, clones, branches, scenarios; proofs |
| `Actuals` | datasets, the nightly sync, the baselines built from them |
| `DriverLinks`, `DriverCache`, `Drivers` | links and discovery; the cached fits; both together |
| `Heuristics`, `Wiring` | learned rules; dependency edges |
| `Generation`, `Currency` | a generation from its first flush to its commit; rates and conversions |
| `LinePipeline`, `MCLinePipeline`, `Scoring` | one line from its history to its row; the two judges of a row, confidence, rescoring |
| `Attribution`, `Readings`, `Calendar` | decompositions of a change; everyone who reads a version; the calendars |
| `GenerationProofs` | proofs about these seven: how versions are made and read |
| `Memberships` | companies, grants, scopes |
| `Sessions`, `SignOff`, `SignIn` | refresh tokens; access tokens and single sign-on over Redis; both together |
| `ChatTurns`, `Sweeps`, `ReviewUndo` | working memory of a conversation; forms, submissions and the overdue sweep; line reviews and their undo |
| `PeopleProofs` | proofs about these: who acts, and what people do beside the versions |
| `ModelSelection` | the contest of models |
| `Accuracy`, `Anomalies` | accuracy records and their reports; the scans and dismissals |
| `KpiReferences`, `Kpis` | what saved formulas refer to while the chart of accounts grows; their parsing and evaluation |
| `InputsProofs` | proofs about what a forecast is made from and by, and how it is judged: `Actuals`, `Drivers`, `Heuristics`, `Wiring`, `ModelSelection`, `Anomalies`, `Accuracy`, `KpiReferences` |
| `Sums` | lemmas about sums and products over finite sets, for the proofs |
| `MCLifecycles` | one instance of the twenty-three parts that share no variable |

### Approvals

`status` is `ForecastVersion.status` (with `deleted` for a row that is gone),
`step[r][l]` and `actor[r][l]` are the `ApprovalStep` row that the r-th
submission created for level l, `submitter[r]` is the actor of its audit event,
and `notified` the levels whose dedup key has fired. `req[w]` is the request
process w is serving, with what it has read so far. A handler is cut where an
answer it has read is used after another process could have changed it:

- `submit_for_approval` is `SubmitLoad` (checks, and the rows its DELETE will
  match), `SubmitCommit` (DELETE, INSERTs, status, commit) and `SubmitNotify`,
  its second transaction.
- `decide_step` is `DecideLoad` (the row, the version, the role gate and
  segregation of duties), `DecideGate` (the query of `_can_decide` over lower
  levels), `DecideCount` (the `remaining` query, and whom to notify, both before
  the decision is flushed) and `DecideApprove` or `DecideReject`. A row that has
  been deleted meanwhile ends the request (`DecideLost`).
- The chat skills load the status and write it without a look at the steps
  (`ChatSubmit`, `ChatApprove`, `ChatReject`, `UpdateStatus`, `ChatCommit`).
- `delete_version` is `DeleteLoad` and `DeleteCommit`; the foreign key makes it
  fail when a step was inserted in between.

Whether a status is written at commit depends on what was loaded (`Written`).
Left out: comments, audit text, the company boundary (every user here may see
the version), and versions branched from this one.

### EditLock

`shared[c]` is the holder recorded in Redis for a cell, `store[p]` what the
memoised `_redis_client()` answers in process p, `local[p]` and `expired[p]` the
dictionary `_LOCKS` and its overdue entries, `call[p]` the call being served. A
call is one Redis command per step: `SetIfAbsent`, `GetHolder`, `Refresh` for
an acquisition, `GetOwner`, `Delete` for a release. `Override` is the skill:
it locks its periods one by one, releases those it has on a conflict
(`Refused`), writes (`Write`) and releases. `Expire` and `LocalExpire` are the
lease, `Crash` a restarted process.

A lease may run out at any moment, in the middle of a call too, and a user may
have several calls under way. Nothing in the code looks at a lease before it
writes, so what the locks give is stated with an exception: `adrift`, a history
variable, has the cells whose key went, by its lease or by a release, while a
call counted on it (`Relies`: it had locked the cell on its way to the write, or
its GET had just called the key its own), until no call counts on the cell any
more. A process that fell back to its dictionary shares nothing with one on
Redis; the properties of exclusion speak of those on Redis.

### BackgroundJobs

`enq[j]` is the enqueuing request, `entry[j]` arq's entry, `tries[j]` its
count of runs, `run[j]` where the worker is. `status[j]` and `owned[j]` are the
record in Redis, `known[j]` whether the record `update_job` has read named its
user. `made[j]` counts commits of the job's work, `lost[j]` runs interrupted
after one. `Push` and `SaveQueued` are the two steps of the request;
`EnqueueFails` is its exception path, which for a baseline writes
`sync_required` and runs inline (`RunInline`) although the entry may be queued.
The worker's GET and SETEX are separate steps. arq itself is external: it takes
an entry, removes it when the run returns or raises, runs it again after a crash
or a shutdown, and drops it at the timeout or after `max_tries`.

A baseline whose skill answers `success=False` is a run that fails before its
commit. Progress updates, the stall watchdog and the record's 24 hours are left
out; without Redis there are no jobs, so the per-process dictionary is too.

### Overrides

`row[v][l]` has the published point (`p50`), the mark (`is_overridden`) and the
override's value, `{}` for NULL; `log` holds the `Override` records and the
values of driver inputs; `version[v]` its status, how it was made and what it
descends from. Chat overrides (`apply_override`), inline overrides, reversions,
driver submissions, clones of locked versions, branches with and without
adjustments, merges and what-ifs are the actions; each recalculates the total
and reconciles as its handler does, with the points MinT reads (those of the
model, not the overrides). A driver's value that equals the point is put on
record and leaves the row as it was, mark and all (`DriverAgreement`). A skill that fails half way leaves what it wrote. The
projection is exact over integers: amounts are multiples of a power of three.

### The parts of MCLifecycles

- `ReviewUndo`: a request loads (`ReviewLoad`, `AcceptLoad`, `UndoLoad`) and
  commits (`ReviewCommit`, `UndoCommit`) the columns it changed. The snapshot is
  taken of the objects as they are then, so a batch that names a line twice
  snapshots what it wrote itself.
- `DriverLinks`, `DriverCache`: discovery with its ranking of survivors, the
  retirement of earlier candidates, assertion and promotion by people; the cache
  with Python's hash, under which -1 and -2 collide.
- `Sessions`, `SignOff`: rotation with its read and its commit, reuse, expiry,
  logout; the denylist on Redis and in the table, Redis going away and coming
  back empty, and the pending state of a single sign-on that may lie in another
  process's memory.
- `Memberships`: switches, grants and edits that overlap in two processes; what
  a request reads through the tenant net and through the endpoints' checks, also
  after it committed midway and saw its user anew.
- `Actuals`: uploads pin, pulls do not; `SweepStart` to `SweepDecide` is the
  nightly sync with its awaits; where `auto_regenerate_on_ingest` is off, or no
  pull held a row, it ends undecided (`SweepPasses`), also when a pull without
  rows has left a dataset that is now current; `RunQueued` resolves the dataset
  again.
- `Generation`: `BeginRun` names the version after the highest number in sight;
  lines are skipped, forecast and flushed; the run ends by `FinishRun`,
  `TimeOut`, `MissingRate` or `RunDies`, and a chat turn commits what a failed
  one flushed.
- `ModelSelection`, `LinePipeline`: the two-stage screening under a time budget,
  the paired band and the Occam choice, on fold scores that are inputs; the edge
  cases of a history, the rule nudge, drivers, blend, conformal band and clamps.
- `Scoring`: `Analysis` (dashboard) and `Remediation` (generation) judge a row;
  rescoring, confidence and ensembles move what they read.
- `ChatTurns`: a turn's dictionary is the one the column holds until a commit
  expires it; assigning the same dictionary writes nothing.
- `Heuristics`: `PassLoad` matches, `PassCommit` writes, promotions and
  rejections fall between.
- `Attribution`: volume, price, mix and reconciliation as fractions, from
  snapshots that may be older than the published point. Where a price is derived
  over no quantity the code's buckets are NaN (`Numeric` tells which).
- `Accuracy`, `Anomalies`: records written when actuals land, four reports and
  the live join that reads instead of them; two scans with thresholds of their
  own, dismissals and the weekly sweep.
- `Sweeps`: deadlines from month to month, forms created on demand, submissions
  in two processes, the daily sweep that reads first and notifies later, its
  dedup key. A submission's form is the one named or the first of the company
  asked for, never looked up by the version's company: other people can name
  only forms of their own company, a platform administrator any. Chat
  submissions do not look at the version at all.
- `Calendar`, `Wiring`: pure algorithms asked over bounded inputs, with their
  persistent surroundings: dates and periods of both calendars; edges added and
  wired by overlapping transactions.
- `KpiReferences`, `Kpis`: key figures saved and deleted while the chart of
  accounts grows, and what their references resolve to. Which formulas are well
  formed is a constant of the first; the second parses them token by token,
  assumes that the constant is what its parser accepts, and evaluates them. The
  parser is recursive, and the split keeps the references within the provers' reach.
- `Readings`: versions made, copied, written and moved through their statuses,
  and every query that adds up or compares their rows.
- `Currency`: a generation pins the currency, converts line by line and hashes
  the rates it used, while rates and settings change.

## Runs

| Run | Instance | Shows |
|---|---|---|
| `approvals_two` | 2 processes, 2 publishers (one of them the creator), 2 levels, 2 submissions | levels in order, deciders entitled, decisions survive every interleaving |
| `approvals_one` | 1 process, 3 users, 2 levels, 3 submissions | the shape of every submission, one open submission, final decisions |
| `approvals_full_approval` | 1 process, creator and publisher | finding: full approval does not approve |
| `approvals_submitter` | the same | finding: the submitter may approve |
| `edit_lock` | 2 users, 2 processes, 2 periods, outages, crashes, leases that end at any moment | exclusion of overrides and writes under locks save on cells adrift, both stores are leases |
| `edit_lock_takeover` | the same without outages | finding: a refresh takes over another user's lock |
| `background_jobs` | 1 task, 1 baseline, 2 tries, 2 crashes, timeouts, late saves | completion is real, work accounted for, verdicts stand, jobs settle |
| `background_jobs_timeout` | 1 task, no crash | finding: a timed-out task's record never settles |
| `overrides` | 2 versions, revenue and cost under a margin, 3 entries | marked rows are on record, the newest entry that set a row shows, points add up after an override |
| `lifecycles` | twenty-three parts, one in focus | nineteen promises, one or more for each part, and their types (below) |
| `chat_tokens` | 2 turns of one conversation | finding: tokens are not counted |
| `band_order` | one line | finding: a band whose upper end lies below the point |

What `lifecycles` checks, one property per promise:

| Property | Part | States |
|---|---|---|
| `UndoIsExact` | ReviewUndo | undone in the reverse order, one at a time, a line shows the latest review that stands, and no token works twice |
| `DriversFollow` | DriverLinks, DriverCache | what discovery left is its last completed run's and people's; a forecast rests on the values stored now |
| `AccessKept` | Sessions, SignOff | a browser that got every answer can refresh until its family is ended; who signed out is refused |
| `CompaniesApart` | Memberships | the active company is a membership; a request reads one company |
| `PullsAnswered`, `LatestUploadUsed` | Actuals | each pull the sync asks about is answered once, by a regeneration or a notice; a baseline on current data uses the last upload that stands |
| `RunsAnswered` | Generation | two versions share a name only if they were made at the same time; a version holds what its answer said |
| `ContestStands` | ModelSelection | leaving out models that did not win changes nothing; a list of candidates restricts or stops the run |
| `BandsOwnErrors` | LinePipeline | a band is calibrated on the errors of the models the forecast is made of, or not at all |
| `WorseNeverMilder` | Scoring | no row is judged more severely than a worse one |
| `RememberedAcrossTurns` | ChatTurns | the next turn begins with the version the last one remembered |
| `PromotionsStand` | Heuristics | the forecast reads the last promoted rule of a slice, until it is rejected |
| `Attributed` | Attribution | the buckets add up to the change, where they are numbers |
| `FiguresAgree` | Anomalies, Accuracy, KpiReferences, Kpis | the two scans, the accuracy reports, and a formula as typed, saved and evaluated say the same |
| `SweepsRight` | Sweeps | everything found is told, and once; a company one of whose own people submitted is not chased |
| `DayHasPeriod` | Calendar | a day lies in its period; a horizon's n-th period is n ahead |
| `NoLoneCycle` | Wiring | a cycle is the work of two transactions at the same time |
| `ReadersAgree` | Readings | pack, bridge, export, table and comparisons show the same values; the landing shows the version published last |
| `CurrencyKept` | Currency | a version is in one currency; equal hashes, equal values |

Why one instance for twenty-three parts. They share no variable and each is an
open system of its own, so a behaviour that steps several of them shows each of
them nothing it does not show alone. `focus`, chosen at the start, says which
one moves; the others keep their initial state. The state space is the sum of
the parts' (830,000 states) and not their product. Each part is bounded
below.

Why the bounds are enough. *Approvals*: a level, the one below it, and
two submissions are the smallest instance in which rows of an old submission
take part in the gates of a new one; two processes are the smallest in which a
decision meets a resubmission; the third submission of `approvals_one` follows
a rejection of the second. With one process the order of handlers is all that is
left, so it affords the larger instance. Two submissions in flight are counted
against the bound (`InFlight`), so that the bound never stops a handler half
way. *Locks*: one cell in common and one apart, two users, and two processes
that may disagree on the store; a lease that ends under one call lets another
take the cell, and with two cells the first is counted on while the second is
locked. *Jobs*: jobs share nothing but the worker and
the bound on crashes, so one of each kind meets every interleaving of request,
worker and queue; two crashes and two tries (arq's default is five) reach a
second run, a lost second run, and a job that is given up. *Overrides*: an
override, one over it, and a reversion of either, on a version and on the child
that a locked version is cloned into; one of the two values is a point of the
model, so that a submission may agree with it. *Lifecycles*: two actors or processes
wherever two can interleave, two items wherever one must not disturb the other,
and one more event than the shortest story that matters (upload, pull, unpin,
build; propose, promote, propose again, reject; sign in, refresh in one process
while another reuses the token; a deadline, a submission, and the next month's
deadline). The sync has a connection that returns rows and one that returns none,
so the gate that counts rows closes when the first one fails. The arithmetic parts ask their functions on
chosen edges: year ends of both calendars with 52 and 53 weeks, fold scores that
tie, cross and fail, errors on one side of the point, histories at each
threshold. Every bound is a constant named `Max...` or a set of inputs
(`MCPasts`, `MCFoldScores`, ...) in the instance; the comments of the constants
say which.

Deadlock is not checked: users need not act, a version may be archived or
deleted with nothing left to do, a settled job stays so, and the bounds end
every behaviour.

Fairness appears in `BackgroundJobs` only. `WF(Enqueue)`: a request that has
begun runs to its end, as an ASGI handler does. `WF(Work)`: the worker polls
its queue and runs what it takes; a crashed worker is restarted by its
container. Nothing is assumed of crashes, timeouts or new requests. `Settles`
promises an answer only where the code gives one: to a job whose record was
saved while it still waited, and that arq did not drop. Elsewhere nothing
retries and nothing is promised to happen: a sweep that dies is gone until the
next day, so the properties say what is right whenever it has happened.

## Theorems

Each holds for every value of the constants that satisfies the named
assumptions; those ask for no more than types, at least one level, try and cell,
finite sets where something is counted, and values distinct from the `NoUser`s
and `Unset`s.

`ApprovalsProofs`. `TypeCorrect` is type correctness. `LevelsInOrder` and
`DecidedByEntitled` are not inductive: an approval commits on the strength of a
gate it passed earlier, and must find nothing undone since. The invariant
(`OrderCorrect`) says of every submission that its rows are opened and closed
from the lowest level up, and of every request past its gate that the levels
below it are decided for good and that its user was entitled; both are facts no
other process can undo, which is why the absence of locks in `decide_step` does
no harm to them. `DecisionsSurvive` follows from it step by step. With one
process (`OneWorker`), `ReadCorrect` says more: what the one request in progress
has read of the rows is still true. From it, `SubmissionsReadAlways` and
`DecisionsFinalHolds`; with two processes both are false.

`EditLockProofs`. `LockCorrect` says that what a call counts on is recorded under
its user or adrift (`Trusted`), and that a call's cells fit the command it is at
(`Shaped`). `WritesHold`, `EditsExclusive` and the refinement `SharedLease` (a
held key stays with its holder or becomes free) follow from it, for leases that
end at any moment. The exception for cells adrift is not a convenience: on them
the statements are false, for a refresh or a release then acts on a key that is
no longer its caller's. It lasts only as long as some call counts on the cell,
and no other key is excepted: neither a crash nor another user's call takes a
lock from one that counts on it. The refinement `LocalLeaseHolds` has no
exception: in a dictionary check and write are one step.

`BackgroundJobsProofs`. `JobsCorrect` charges every commit of a job to one of
four causes: an interrupted run, the run in hand, the run that ended, or the
inline fallback; it says that an entry is held exactly while its run is under
way, and that a verdict before the end of a run comes from an earlier, lost
run. `JobsTypeCorrect`, `CompletedIsReal`, `WorkAccounted` and `VerdictStands`
follow for any number of jobs, tries and crashes. The proofs need no fairness.

`OverridesProofs`. `RecordsMatchRows` and `LastWriteWins` are not inductive: a
handler reads one table to write the other, and a clone takes both from its
parent. The invariant (`OverridesCorrect`) is a story of every version: it
descends from versions that exist, itself among them; its entries are of existing
versions and none is later than the last; superseding leaves one entry active per
cell; and, unless it came through a branch, every marked row is the trace of an
entry and shows the newest that set its cell. An entry that agreed with the point
set nothing (`Applied`). Whatever changes no mark and no entry
(`SameMarks`: recalculation, reconciliation, approval) keeps the story, and an
entry keeps it when its row shows it (`EnteredStory`). `PointsAddUp` itself is
about exact sums, which hold where the gap divides evenly among the rows, as the
bounds of the run see to. For all values there is a remainder:
`PointsAddUpToRoundingAlways` says that it is that of one integer division, never
negative and at most the number of inputs.

`InputsProofs`. For `Actuals`, the rows must tell the acts: each dataset's pin and
life are what its last act left, the sweep's acts are its pulls, and each pull is
still pending, lost with the process, passed over because nothing was asked
(`RowlessPassed`: with regenerating on, such a pull held no row), or answered, and
then once. That a notice
instead of a regeneration has a reason rests on acts that only grow: a reason
stays one (`ExcuseStands`). `LatestUploadUsed` is an action property of the same
invariant. For `Drivers`, a link's run is one that was made, on its own line: so
what a later run of the line retires is exactly what earlier ones left; a cached
fit lies under the hash of the value it was made of, and hashes differ where
values do, save for the two that Python hashes alike. For `Heuristics`, the rules
in force are those whose promotion is the last on its slice and unrejected since,
in the direction it was promoted in; the passes and decisions between reading and
writing can undo neither. `NoLoneCycle` holds because a transaction closes no
cycle over what it saw and added (`NoneAlone`); what it did not see overlapped it,
which the times of its edges tell.

`ContestStands` needs of the states only that every model has folds
(`SelectionCorrect`); the rest is order. Scores are fractions, compared crosswise,
and ties go to the earlier turn, so `Ahead` is a total order and a finite set of
models has a best (`FirstExists`, `BestIs`); the simplest within the band is unique
likewise (`SimplestExists`). The band of a model is paired with the best one alone,
so it is the same in every set that contains both (`BandApart`, `WithinStands`),
and the choice is the simplest of a set that only loses models that did not win.
The sums of squares in a band are never taken apart: it is enough that the same
folds give the same band.

`AnomaliesAgree` is about thresholds over quotients and medians. Each method's
test, passed at one threshold, is passed at every lower one (`ZFalls`, `IqrFalls`,
`OffFalls`); that is arithmetic once the figures compared are known to be numbers,
and for that a sequence needs a k-th smallest value (`SortedIsInt`,
`QuartileIsInt`) and a recursive function over its positions a value at the last
one (`TotalIsInt`, by way of the least position without one). `PlacesKept` puts the methods together, and `DashboardFound` sets
each of the dashboard's tests beside the scan's sharpest.

For `Accuracy`, the invariant (`RecordsFollow`) says that there are no records before
actuals land; and that while there is one dataset a cell without a figure has none,
and a cell of a version of which nothing moved since has the error of its point
against the figure that landed.
`RecordsAreLive` is that invariant read from the dashboard's join. `ReportsAgree` is
about sums: the reports partition the same records by horizon, by line and by
version (`SumByPart`); coverage sums ones and counts them (`SumOfOnes`); a line that
is reported too high has a record above its actual, for else its errors would not
add up to more than zero (`SumNotAbove`); and where every record has a benchmark
the two ways to value added have one numerator and one denominator.

For `KpiReferences`, every saved reference is to a line of that name or code, or to
a category that some line has, and the chart only grows: the line is still among
the candidates, so the reference means it or has become ambiguous, which is an error
(`MeaningFollows`). That no line is named like another's code is a hypothesis of
`MeaningKept`; without it the meaning may change, as the list below says.

`GenerationProofs`. `RunsAnswered` is about committed versions; what keeps it is
the run that is not committed yet. The invariant says that a number a session
holds, in its run or in what a failed run left in it, is no live version's that
was committed before that run began, that versions lie in time (a beginning is
before its commit and neither is in the future), and that every number is at
most the count of runs begun. The last is what makes the highest number in sight
exist (`HighestExists`, from the well-foundedness of the naturals). A commit
appends one row or two, and `OldOrNew` reduces it to rows that were there and
rows of a run the session held. For `Currency`, the points of every generation
are those its recorded rates give, each rate used is in the currency it pinned,
and a rate used is still the one the lookup finds unless something changed
meanwhile; so two undisturbed runs that used the same pairs used the same rates.

The next four are about what is computed in every reachable state. `BandsOwnErrors`
goes through the cases of `RowOf`: blend, rule, fallback, clamp and driver
uncertainty bring no errors but the models' own. `Attributed` needs from the
states only that a reconciliation takes its snapshot at both ends
(`AttributionCorrect`); the rest is algebra, over prices that are numbers: the buckets of a part telescope, and
those of the whole are sums over the parts whose denominators cancel. For
`WorseNeverMilder`, each verdict on record is its judge's on the measures kept
with it (`ScoringCorrect`), and confidence, risk and severity are monotone one by
one; the confidence is a rounded weighted mean, and rounding keeps the order.
`ReadersAgree` is about sums in different orders: the pack adds months and then
lines, the bridge lines and then months, the export entries, and rows without a
value contribute nothing. `Sums` proves that such sums are equal, by induction on
finite sets with a set of good subsets in place of a predicate (`SetInduction`).
The invariant behind it says that what a copy was made from is on the shelf as
long as the copy is, and that the version announced is the one published last.

`DayHasPeriod` is proved for every configuration and the dates of 2001 to 2097,
where a leap year is one divisible by four. Years and months follow one another
without gaps; a fiscal year begins at most 341 days into its calendar year and
at least 359 days before the next one, so its twelfth period begins before it
ends. Numbering all periods in one sequence makes `AddPeriods` an addition and
`PeriodToDate` increasing (`NumberedInOrder`): a label is then the last period
that has begun, and counting steps until the period is met or passed
(`OffsetCounts`) counts right.

`PeopleProofs`. `ActiveIsMember` is inductive together with what a request has
loaded: an edit writes a company for which it made a grant in the same
transaction, and grants are never taken back. `ReadsOneCompany` holds because
the scope is pushed once and the check reads through it; `CompaniesApartAlways`
is both. `SessionsKept` is not inductive: a refresh revokes the token it was
presented, which would be another browser's if two browsers came to hold tokens
of one family. The invariant adds that they never do, counting what a browser
holds, what it held before and what a process is serving for it. For `LogoutHolds`
the table outlives Redis: a token that logged out is in it until it expires.
`AccessKeptAlways` is both.

`RememberedAcrossTurns` supposes turns that do not overlap, and so does its
invariant: as long as they stay apart, an open turn's copy of the memory is what
it found or what it remembered since, and between turns the column holds the
version the last one that remembered left. `SweepsRight` rests on submissions
by a version's own people, which name a form of its company (`OwnForms`), and on
keys that have fired once, for what they stand for, in this month or an earlier one
(`KeysTrue`), so that a skipped notice was given. A platform administrator's
submission is excepted: it may land anywhere. For `UndoIsExact` the audit trail is the history: each line
shows its latest review that stands, each review's snapshot has what the line
showed before it, and a request holds what was stored when it read unless a row
of the trail since then is about the line. A token is taken by one request
(`FirstToTake`), and a later one finds it consumed or overlapped the first.

Model-checked only. `Settles` is a liveness property, out of the prover's reach.
`PointsAddUp` is exact only within the bounds; the theorem for all values is the
one with the remainder. `FiguresAgree`
joins the agreement of the anomaly scans, that of the accuracy reports, the
meaning of references and two promises about formulas: that a formula typed token
by token is accepted just when the grammar derives it (`ParsedByGrammar`), and that
a sum evaluated per period adds up to its total (`TotalsAddUp`). The first three
are the theorems `AnomaliesAgreeAlways`, `AccuracyAgreesAlways` and
`MeaningKeptAlways`. The last two stay with TLC: formulas are trees, parsing and
evaluating them is recursion over data, and a module that reaches a recursive
operator is outside the provers' reach, which is also why no theorem can name
`FiguresAgree` itself.
`TypeOK` of `lifecycles` joins the type invariants of all its parts; where a
proof needs them they are conjuncts of the invariants above, some without the
bounds on lengths and counters.

## Findings

Six runs end in a counterexample to something the repository says of itself.

1. `FullApprovalApproves`. `decide_step` counts the pending rows before its own
   decision is flushed, so the last approval always finds one left, and the
   version stays `in_review`.
2. `SubmitterNotApprover`. `require_sod` is documented as "submitter ≠ approver";
   the check compares the decider with the creator.
3. `NeverTakenOver`. The refresh in `acquire_lock` is an unconditional SET after a
   GET; if the lease ends in between, it overwrites the next holder.
4. `PollSettles`. `execute_task` catches `Exception`; arq's timeout cancels it,
   which is none, so the record stays `running`.
5. `TokensAreCounted`. `set_memory` changes the dictionary the column holds and
   assigns it back; the unit of work sees no change, and the tokens of a turn
   that committed nothing before are not stored. The budget is never reached.
6. `QuantilesOrdered`. Where a line may not be negative, the point and the lower
   end are clamped and the upper end is not: p90 below p50.

### Other disagreements

Found while modelling; they have no run of their own. Those about `Approvals`
and `BackgroundJobs` were refuted by TLC as the formulas given; the rest are
visible in the definitions that translate the lines named.

*Approvals.* `tests/test_notifications.py:153` expects level 2 to be notified
once level 1 is approved; the query runs before the flush, finds level 1 still
pending, and its dedup key has fired already:

    NextLevelNotified == Quiescent => ActionableLevels \subseteq notified

`approvals.py:78` says each decision unblocks the next level. The gate at line
55 counts rejected and skipped rows of earlier submissions, so after a rejection
level 2 is blocked for good:

    ApprovalUnblocksNext ==
        \A s \in Rows("pending") :
            (\A k \in 1 .. (s[2] - 1) : step[s[1]][k] = "approved") => LevelOpen(s[2])

`panel.py:138` says a version that has entered review stays undeletable; the
check is on the current status, and a rejection returns it to draft:

    ReviewedNeverDeleted ==
        [][status' = "deleted" /\ status # "deleted" => round = 0]_vars

`PRD.md:340` asks for a reviewer's approval; `manage_versions` writes any status
for any role that can generate:

    PublicationReviewed ==
        [][status' = "published" /\ status # "published" =>
              \E w \in Workers : req[w].user \in Reviewers]_vars

With two processes a decision on an old row may approve the version although the
new submission's levels are all pending:

    SignOffIsComplete ==
        [][status' = "approved" /\ status # "approved" /\ step' # step =>
              \A l \in Levels : step'[round][l] = "approved"]_vars

*BackgroundJobs.* A record once owned can lose its owner, when `update_job`
reads nothing and writes after the request's save:

    OwnerKept == [][\A j \in Jobs : owned[j] => owned'[j]]_vars

*Overrides.* Reconciliation projects the model's points and not the overridden
values (`reconciliation.py:556`), while `PRD.md:75` has overrides flow through
the hierarchy; hence `PointsAddUp` speaks of `p50`. A second chat override of a
cell records the first one's value as the original, and reverting it restores a
human value, not the model's (`PRD.md:280`). Inline overrides, reverts, driver
submissions and ensembles write rows of locked versions, against `PRD.md:619`. A
branch with adjustments marks rows without a value, and driver submissions mark
rows without a record. A driver's value within 0.01 of the point is recorded and
leaves the row alone (`driver_submission.py:130`): a row that someone has
overridden goes on showing that value although the submission is newer.

*Locks.* When a key runs out or is released under a call that counts on it, the
call still writes, refreshes or deletes (`locks.py:92`, `locks.py:125`), on
whoever's lock the cell has by then. A process that could not reach Redis at its
first call and one that could lock the same cell independently (`locks.py:35`).

*Review.* The endpoints write `approve`, `reject` and `flag`; the review
dashboard (`dashboard.py:1396`) and its panel count `approved` and `rejected`.
Undo in the order of the actions puts back what was undone, and two undo
requests in two processes both succeed.

*Generation.* A line with a short history and no panel is forced to `linear` even
where that model is excluded. The nudge of a learned rule uses an unpaired band
although its docstring promises the same tolerance. A chat generation that fails
on a missing rate leaves its flushed version to be committed with the turn.

*Presets.* A list of which the settings know nothing becomes "no list" on the
panel path. The chat path drops models the company disabled; the panel path
fails. A benchmark never wins within the band, despite the comment in
`model_registry.py:326`.

*Scoring.* The judge of the dashboard and that of the generation have different
thresholds. Rescoring drops flags. A cross-validated error of exactly zero
counts as not measured, and `mape or 999` ranks a perfect line least accurate.

*Drivers and heuristics.* `assert_link` may create an active link although
promotion asks for an override of the coherence check. Two runs' candidates may
both be promoted. Reflection looks only at lines with targets, while the nudge
applies only to lines without. A rejected rule is proposed anew.

*Actuals and accuracy.* Unpinning an upload reveals an older pinned one. A pull
without rows makes a dataset like any other (`actuals_ingest.py:72`), which may
become current while the sync, finding no row in the total, says nothing.
Accuracy
records are written by whichever dataset landed last, and against the
unoverridden point, documented as "published (post-override)" (`models/fx.py:62`).
Forecasts in the reporting currency are compared with actuals in their own.
Notified errors are a hundred times too large, and always positive.

*Anomalies.* The distance beyond the interquartile range is the larger of the
two, so every such anomaly is critical. A z-score above 2 cannot occur with five
points or fewer. A dismissal hides later and worse findings of the line.

*Readings.* The table, the comparisons and the chat show the point where a value
was overridden. Where an override has no value, the pack and the bridge count
zero and the export the point. A version published by `manage_versions` has no
date and is sorted behind every other. With a base of zero one comparison says
0 %, one 100 %, and one omits the line.

*Currency.* The lookup ignores the rate type, so a budget rate may convert
actuals. *Wiring.* Two overlapping transactions can commit a cycle.
*Calendar.* Under a fiscal calendar, the offset of a period before the base is 1.
*KPI formulas.* A line named like another's account code takes over its
references. *Memberships.* A grant of the active company leaves the user's role
stale, and a later profile edit writes the old role back. *Sweeps.* Late
submissions are announced "for the next forecast refresh"
(`error_handlers.py:365`) and applied at once; overlapping submissions create two
default forms, the second of which is chased as overdue. The form of a submission
is found by the company of the caller, or the one asked for, and not by the
version's (`dashboard.py:2297`): a platform administrator's submission may land on
another company's form, and the version's company is chased all the same
(`arq_worker.py:412`). The dedup key of the reminder names no month
(`arq_worker.py:442`), so whoever was told once hears of no later deadline.
*Attribution.* Without a quantity the derived price and its buckets are NaN
(`driver_series.py:335`). *Sessions.* A rotation that has read its token may
commit a successor after the family was revoked (`token_store.py:126`).

### Hazards no property covers

`submit` notifies in a second transaction whose dedup keys do not name the
submission, so a resubmission is not announced. `apply_override` reads its rows
before it locks them. `acquire_lock` answers `expires_at` as a string on Redis
and as a datetime from the dictionary. The stall watchdog shares the event loop
with skills that do not await, and cannot fire while they compute. The first two
would need reads inside the handlers that `Approvals` and `EditLock` take as one
step; the last two are not about state.

A process that locks in its dictionary beside one on Redis, and a save of `queued`
that arrives after the work is done, are in the models, but no property forbids
them: the code does nothing against either. `EditsExclusive` and `WritesHold` leave
out the first, `VerdictStands` and `Settles` the second.

## What is next

1. Split the read of `apply_override` from its locks and compose `EditLock` with
   `Overrides`, so that the recorded original is one another call could change.
2. The watchdog and progress updates in `BackgroundJobs`, with time.
3. `Approvals` beside `Overrides` over one version, so that the statuses that
   lock a version are those the workflow writes.

## What is not modelled

Fitting, calibration of weights, correlation and projection over floats, and
seasonal decomposition: the models take their results as inputs. The language
model's choices and texts, text storage and search, document processing and
vector stores; rendering of files and pages; saved views, exports and lookups
over HTTP; audit rows, logging, health checks and start-up; the React client
other than its polling. Within modelled components: comments and wording,
display names, retention and delivery of notifications, single-record settings
endpoints, and the adapters that fetch data. `PROJECT.json` gives the reason for
each component.
