------------------------------ MODULE Actuals ------------------------------
(***************************************************************************)
(* The actuals datasets of several companies, the nightly sync of their    *)
(* connections, and the baselines built from "the current dataset".        *)
(*                                                                         *)
(* A manual upload is pinned and beats any pull until it is unpinned.      *)
(* The sync pulls the connections one after the other, and then asks       *)
(* company by company whether what it pulled is current: if so it queues   *)
(* a regeneration, which asks again when it runs, and if not it leaves a   *)
(* notice.  It asks nothing where regenerating is switched off, or when no *)
(* pull held a row.  It awaits each pull and each enqueue, and lives in    *)
(* the worker, so uploads, unpins, deletions and other pulls fall between. *)
(*                                                                         *)
(* A baseline counts from where it resolves its dataset.  The records,     *)
(* accuracy rows, line items and the uploaded file are left out.           *)
(***************************************************************************)
EXTENDS Integers, Sequences, FiniteSets, FiniteSetsExt

CONSTANTS
    Companies,
    Connections,    \* enabled, auto-pulled connections
    OwnerOf,        \* OwnerOf[f]: the company a connection is assigned to
    Contents,       \* what an upload or a pull may hold; equal contents, equal hashes
    Rowless,        \* of these, what holds no row: a warehouse may return it, a file may not
    Returned,       \* Returned[f]: what the query of a connection may come back with
    MaxActs,        \* bound: landings, unpins and deletions
    MaxSweeps,      \* bound: nightly syncs
    MaxBuilds       \* bound: baselines

ASSUME ActualsAssumption ==
    /\ OwnerOf \in [Connections -> Companies] /\ Rowless \subseteq Contents
    /\ Returned \in [Connections -> SUBSET Contents]
    /\ MaxActs \in Nat /\ MaxSweeps \in Nat /\ MaxBuilds \in Nat

VARIABLES
    dataset,   \* dataset[d]: company, content, is_pinned, ingested_at; live until deleted
    act,       \* the landings, unpins and deletions so far; their count is the clock
    sweep,     \* the sync: connections to pull, datasets to decide on, those a crash or the switch left
    answer,    \* regenerations queued or refused, and notices, with the datasets they answer for
    built      \* baselines, oldest first

actualsVars == <<dataset, act, sweep, answer, built>>

Datasets == DOMAIN dataset
Live(c)  == {d \in Datasets : dataset[d].live /\ dataset[d].company = c}
Newest(S) == CHOOSE d \in S : \A e \in S : dataset[e].at <= dataset[d].at

ActualsTypeOK ==
    /\ \A d \in Datasets :
          /\ dataset[d].company \in Companies /\ dataset[d].content \in Contents
          /\ dataset[d].pinned \in BOOLEAN /\ dataset[d].live \in BOOLEAN
          /\ dataset[d].at \in 1 .. Len(act)
    /\ Len(act) \in 0 .. MaxActs
    /\ sweep.phase \in {"idle", "pull", "decide"} /\ sweep.todo \subseteq Connections
    /\ sweep.auto \in BOOLEAN /\ sweep.rows \in BOOLEAN
    /\ \A a \in answer : a.kind \in {"queued", "refused", "notice", "built", "failed"}
    /\ \A i \in DOMAIN built : built[i].company \in Companies /\ built[i].dataset \in Datasets

ActualsInit ==
    /\ dataset = <<>> /\ act = <<>> /\ built = <<>> /\ answer = {}
    /\ \E auto \in BOOLEAN :     \* auto_regenerate_on_ingest, as deployed
          sweep = [phase |-> "idle", number |-> 0, todo |-> {}, rows |-> FALSE, pulled |-> {},
                   lost |-> {}, auto |-> auto, unasked |-> {}]

Acted(kind, c, d) ==
    /\ Len(act) < MaxActs
    /\ act' = Append(act, [kind |-> kind, company |-> c, dataset |-> d])

-----------------------------------------------------------------------------
(* Which dataset is current *)

\* Mutant: the resolution is not scoped to the company.
ResolveAcross(c) ==
    LET pool   == UNION {Live(b) : b \in Companies}
        pinned == {d \in pool : dataset[d].pinned}
    IN  IF pinned # {} THEN {Newest(pinned)} ELSE IF pool # {} THEN {Newest(pool)} ELSE {}

\* resolve_current_dataset: the newest pinned one, else the newest; none at all is {}.
Resolve(c) ==
    LET pinned == {d \in Live(c) : dataset[d].pinned}
    IN  IF pinned # {} THEN {Newest(pinned)} ELSE IF Live(c) # {} THEN {Newest(Live(c))} ELSE {}

-----------------------------------------------------------------------------
(* Landings *)

\* Mutant: an upload of known content keeps its first time.
RelandedStale(d) == [d EXCEPT !.pinned = TRUE]

Relanded(d) == [d EXCEPT !.pinned = TRUE, !.at = Len(act) + 1]

Landed(c, x, pinned) ==
    Append(dataset, [company |-> c, content |-> x, pinned |-> pinned, at |-> Len(act) + 1, live |-> TRUE])

\* ingest_actuals: the dataset of this company with the same hash, pulled or
\* uploaded, is taken over; any one if there are several.  A file without rows is refused.
Upload(c, x) ==
    LET known == {d \in Live(c) : dataset[d].content = x}
    IN  /\ x \notin Rowless
        /\ \/ \E d \in known :
                 Acted("upload", c, d) /\ dataset' = [dataset EXCEPT ![d] = Relanded(@)]
           \/ /\ known = {} /\ Acted("upload", c, Len(dataset) + 1)
              /\ dataset' = Landed(c, x, TRUE)
        /\ UNCHANGED <<sweep, answer, built>>

Persist(kind, f, x) ==
    /\ x \in Returned[f]
    /\ Acted(kind, OwnerOf[f], Len(dataset) + 1)
    /\ dataset' = Landed(OwnerOf[f], x, FALSE)

\* /integrations/*/pull.
Pull(f, x) == Persist("pull", f, x) /\ UNCHANGED <<sweep, answer, built>>

-----------------------------------------------------------------------------
(* The nightly sync *)

SweepStart ==
    /\ sweep.phase = "idle" /\ sweep.number < MaxSweeps
    /\ sweep' = [sweep EXCEPT !.phase = "pull", !.number = @ + 1, !.todo = Connections, !.rows = FALSE]
    /\ UNCHANGED <<dataset, act, answer, built>>

Onward(s) ==
    IF s.phase = "pull" /\ s.todo # {} THEN s
    ELSE [s EXCEPT !.phase = IF s.pulled = {} THEN "idle" ELSE "decide"]

SweepPull(f, x) ==
    /\ sweep.phase = "pull" /\ f \in sweep.todo
    /\ Persist("sweep", f, x)
    /\ sweep' = Onward([sweep EXCEPT !.todo = @ \ {f}, !.pulled = @ \cup {Len(dataset) + 1},
                                     !.rows = @ \/ x \notin Rowless])
    /\ UNCHANGED <<answer, built>>

\* Rolled back and noted; what earlier connections landed is committed.
SweepPullFails(f) ==
    /\ sweep.phase = "pull" /\ f \in sweep.todo
    /\ sweep' = Onward([sweep EXCEPT !.todo = @ \ {f}])
    /\ UNCHANGED <<dataset, act, answer, built>>

PulledFor(c) == {d \in sweep.pulled : dataset[d].company = c}

\* With regenerating switched off, or no row in total_rows, the sync ends undecided.
SweepPasses ==
    /\ sweep.phase = "decide" /\ ~ (sweep.auto /\ sweep.rows)
    /\ sweep' = [sweep EXCEPT !.phase = "idle", !.pulled = {}, !.unasked = @ \cup sweep.pulled]
    /\ UNCHANGED <<dataset, act, answer, built>>

\* One company, in the order of their first pulls.  Redis may refuse the job, which the sync does not look at.
SweepDecide ==
    LET c   == dataset[Min(sweep.pulled)].company
        ids == PulledFor(c)
    IN  /\ sweep.phase = "decide" /\ sweep.auto /\ sweep.rows
        /\ \E kind \in IF Resolve(c) \cap ids # {} THEN {"queued", "refused"} ELSE {"notice"} :
              answer' = answer \cup {[kind |-> kind, company |-> c, ids |-> ids, at |-> Len(act)]}
        /\ sweep' = Onward([sweep EXCEPT !.pulled = @ \ ids])
        /\ UNCHANGED <<dataset, act, built>>

\* The worker is restarted; arq does not run a cron job twice.
SweepDies ==
    /\ sweep.phase # "idle"
    /\ sweep' = [sweep EXCEPT !.phase = "idle", !.todo = {}, !.pulled = {}, !.lost = @ \cup sweep.pulled]
    /\ UNCHANGED <<dataset, act, answer, built>>

-----------------------------------------------------------------------------
(* Baselines, unpinning, deletion *)

Built(c, d, asked) ==
    /\ Len(built) < MaxBuilds
    /\ built' = Append(built, [company |-> c, dataset |-> d, asked |-> asked])

\* generate_baseline for a company, or for a dataset by id, whose company it takes.
Generate(c) ==
    /\ \E d \in Resolve(c) : Built(c, d, "current")
    /\ UNCHANGED <<dataset, act, sweep, answer>>

GenerateFrom(d) ==
    /\ d \in Datasets /\ dataset[d].live
    /\ Built(dataset[d].company, d, "by_id")
    /\ UNCHANGED <<dataset, act, sweep, answer>>

\* A queued regeneration, in the one slot the sync uses too; with every dataset
\* of the company gone it fails.
RunQueued(a) ==
    /\ a \in answer /\ a.kind = "queued" /\ sweep.phase = "idle"
    /\ \/ /\ \E d \in Resolve(a.company) : Built(a.company, d, "current")
          /\ answer' = (answer \ {a}) \cup {[a EXCEPT !.kind = "built"]}
       \/ /\ Resolve(a.company) = {} /\ UNCHANGED built
          /\ answer' = (answer \ {a}) \cup {[a EXCEPT !.kind = "failed"]}
    /\ UNCHANGED <<dataset, act, sweep>>

\* By id; without one, the current dataset of the caller's company, or of all of them.
Unpin(d) ==
    /\ d \in Datasets /\ dataset[d].live /\ dataset[d].pinned
    /\ Acted("unpin", dataset[d].company, d)
    /\ dataset' = [dataset EXCEPT ![d].pinned = FALSE]
    /\ UNCHANGED <<sweep, answer, built>>

\* Refused while a version was built from it.
Delete(d) ==
    /\ d \in Datasets /\ dataset[d].live /\ \A i \in DOMAIN built : built[i].dataset # d
    /\ Acted("delete", dataset[d].company, d)
    /\ dataset' = [dataset EXCEPT ![d].live = FALSE]
    /\ UNCHANGED <<sweep, answer, built>>

ActualsNext ==
    \/ \E c \in Companies, x \in Contents : Upload(c, x)
    \/ \E f \in Connections, x \in Contents : Pull(f, x)
    \/ SweepStart
    \/ \E f \in Connections, x \in Contents : SweepPull(f, x)
    \/ \E f \in Connections : SweepPullFails(f)
    \/ SweepPasses
    \/ SweepDecide
    \/ SweepDies
    \/ \E c \in Companies : Generate(c)
    \/ \E d \in 1 .. MaxActs : GenerateFrom(d)
    \/ \E a \in answer : RunQueued(a)
    \/ \E d \in 1 .. MaxActs : Unpin(d)
    \/ \E d \in 1 .. MaxActs : Delete(d)

ActualsSpec == ActualsInit /\ [][ActualsNext]_actualsVars

-----------------------------------------------------------------------------
(* Properties *)

\* The uploads of company c that stand after n acts: neither repeated, unpinned
\* nor deleted since.
Standing(c, n) ==
    {i \in 1 .. n :
        /\ act[i].kind = "upload" /\ act[i].company = c
        /\ \A j \in (i + 1) .. n : act[j].dataset # act[i].dataset}

\* A baseline that asks for the current dataset, a person's or the sync's, is
\* built from the last upload anyone made for that company and nobody took
\* back, whatever was pulled meanwhile (resolve_current_dataset).
LatestUploadUsed ==
    [][\A i \in DOMAIN built' \ DOMAIN built :
          LET v       == built'[i]
              uploads == Standing(v.company, Len(act))
          IN  v.asked = "current" /\ uploads # {} =>
                 v.dataset = act[CHOOSE k \in uploads : \A j \in uploads : j <= k].dataset]_actualsVars

\* What a sync pulled is answered for once, by a regeneration of that company or
\* by a notice, unless the worker died over it, or the sync asked nothing: then
\* regenerating is switched off, or not a row was pulled.  And it is answered by
\* a notice only if an upload of that company stood in the way, or a person
\* landed or deleted data after the sync did (scheduled_integration_sync).
PullsAnswered ==
    /\ \A i \in DOMAIN act : act[i].kind = "sweep" =>
          \/ act[i].dataset \in sweep.lost \cup sweep.unasked \cup sweep.pulled
          \/ Cardinality({a \in answer : act[i].dataset \in a.ids}) = 1
    /\ sweep.auto => \A d \in sweep.unasked : dataset[d].content \in Rowless
    /\ \A a \in answer : a.kind = "notice" =>
          \/ Standing(a.company, a.at) # {}
          \/ \E i \in 1 .. a.at :
                /\ act[i].company = a.company /\ act[i].kind \in {"upload", "pull", "delete"}
                /\ \E j \in 1 .. i - 1 : act[j].kind = "sweep" /\ act[j].dataset \in a.ids
=============================================================================
