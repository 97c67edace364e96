----------------------------- MODULE Approvals -----------------------------
(***************************************************************************)
(* The approval workflow of one forecast version.                          *)
(*                                                                         *)
(* Writers of the version's status and of its approval steps:              *)
(*   - the REST handlers submit and decide (api/approvals.py),             *)
(*   - the chat skills review_forecast and manage_versions, which write    *)
(*     the status alone,                                                   *)
(*   - delete_version (api/panel.py), which removes version and steps.     *)
(*                                                                         *)
(* A handler is a coroutine without awaits between its queries, so one     *)
(* server process runs it without interruption, while the transactions of  *)
(* two server processes interleave.  Workers is the set of processes; a    *)
(* handler is cut at each query whose answer a later statement depends on. *)
(* SessionLocal is built with autoflush=False: a query does not see what   *)
(* its own session has assigned but not flushed, and at commit an          *)
(* attribute is written only if it differs from the value loaded.          *)
(***************************************************************************)
EXTENDS Naturals, FiniteSets

CONSTANTS
    Workers,      \* uvicorn processes that share the database
    Users,
    Creator,      \* ForecastVersion.created_by
    Generators,   \* users whose role has can_generate
    Reviewers,    \* users whose role has can_review
    NLevels,      \* levels of the workflow the version is submitted to
    Eligible,     \* level -> the users its role gate admits
    RequireSoD,   \* ApprovalWorkflow.require_sod
    MaxRounds     \* bound: submissions of the version

Levels == 1 .. NLevels
Rounds == 1 .. MaxRounds
Slots  == Rounds \X Levels
NoUser == "no_user"

ASSUME ApprovalsAssumption ==
    /\ NLevels \in Nat \ {0}
    /\ MaxRounds \in Nat \ {0}
    /\ Creator \in Users /\ NoUser \notin Users
    /\ Generators \subseteq Users /\ Reviewers \subseteq Users
    /\ Eligible \in [Levels -> SUBSET Users]
    /\ RequireSoD \in BOOLEAN

VARIABLES
    status,     \* ForecastVersion.status, or "deleted"
    step,       \* step[r][l]: status of the row submission r created for level l
    actor,      \* actor[r][l]: ApprovalStep.actor_id
    submitter,  \* submitter[r]: actor of submission r's approval.submit audit event
    round,      \* submissions committed so far
    notified,   \* levels whose approval_pending dedup key has fired
    req         \* req[w]: the request process w is serving

vars == <<status, step, actor, submitter, round, notified, req>>

Statuses == {"draft", "in_review", "approved", "published", "archived"}
Decided  == {"approved", "rejected"}

Idle == [op |-> "none", pc |-> "idle", user |-> NoUser, rnd |-> 1, lvl |-> 1,
         seen |-> "draft", aim |-> "draft", rows |-> {}, left |-> FALSE, tell |-> {}]

Requests ==
    [op : {"none", "submit", "approve", "reject", "set", "delete"},
     pc : {"idle", "loaded", "gated", "counted", "submitted"},
     user : Users \cup {NoUser}, rnd : Rounds, lvl : Levels,
     seen : Statuses \cup {"deleted"}, aim : Statuses, rows : SUBSET Slots,
     left : BOOLEAN, tell : SUBSET Levels]

TypeOK ==
    /\ status \in Statuses \cup {"deleted"}
    /\ step \in [Rounds -> [Levels -> {"absent", "pending", "skipped"} \cup Decided]]
    /\ actor \in [Rounds -> [Levels -> Users \cup {NoUser}]]
    /\ submitter \in [Rounds -> Users \cup {NoUser}]
    /\ round \in 0 .. MaxRounds
    /\ notified \in SUBSET Levels
    /\ req \in [Workers -> Requests]

Init ==
    /\ status = "draft"
    /\ step = [r \in Rounds |-> [l \in Levels |-> "absent"]]
    /\ actor = [r \in Rounds |-> [l \in Levels |-> NoUser]]
    /\ submitter = [r \in Rounds |-> NoUser]
    /\ round = 0
    /\ notified = {}
    /\ req = [w \in Workers |-> Idle]

-----------------------------------------------------------------------------
Rows(st)   == {s \in Slots : step[s[1]][s[2]] = st}
PresentRows == Slots \ Rows("absent")

\* Mutant: the comparison with the level is off by one.
LevelOpenLagging(l) == \A r \in Rounds, k \in Levels : k < l - 1 => step[r][k] \in {"absent", "approved"}

\* prior_pending counts the version's rows below a level that are not approved,
\* whichever submission created them.
LevelOpen(l) == \A r \in Rounds, k \in Levels : k < l => step[r][k] \in {"absent", "approved"}

\* Mutant: announces the level after an approved one, whether or not it exists.
LevelsAfterApproved == {s[2] + 1 : s \in Rows("approved")}

\* The level _notify_next_actionable_level announces: the lowest with a pending
\* row, if nothing below it blocks it.
ActionableLevels ==
    {l \in Levels : /\ \E r \in Rounds : step[r][l] = "pending"
                    /\ \A s \in Rows("pending") : l <= s[2]
                    /\ LevelOpen(l)}

\* A flush writes an attribute only when it changed since it was loaded.
Written(seen, value) == IF seen = value THEN status ELSE value

Serve(w, r)  == req' = [req EXCEPT ![w] = r]
Finish(w)    == Serve(w, Idle)
Untouched    == UNCHANGED <<status, step, actor, submitter, round, notified>>

-----------------------------------------------------------------------------
(* POST /approvals/submit *)

\* Submissions begun and not committed hold their round, so that the bound on
\* rounds never stops a handler half way.
InFlight == Cardinality({w \in Workers : req[w].op = "submit" /\ req[w].pc = "loaded"})

SubmitLoad(w, u) ==
    /\ req[w] = Idle
    /\ u \in Generators
    /\ status \in {"draft", "in_review"}
    /\ round + InFlight < MaxRounds
    /\ Serve(w, [Idle EXCEPT !.op = "submit", !.pc = "loaded", !.user = u,
                             !.seen = status, !.rows = Rows("pending")])
    /\ Untouched

\* Mutant: the DELETE forgets the status filter.
SupersededWhole(r, l, rows) == <<r, l>> \in rows

\* The rows of earlier submissions that the DELETE of a new one removes.
Superseded(r, l, rows) == step[r][l] = "pending" /\ <<r, l>> \in rows

\* DELETE of the pending rows the statement saw, INSERT of one row per level,
\* status, audit event, commit.  A row decided meanwhile no longer matches the
\* DELETE; a version deleted meanwhile fails the INSERT's foreign key.
SubmitCommit(w) ==
    /\ req[w].op = "submit" /\ req[w].pc = "loaded"
    /\ IF status = "deleted"
       THEN Finish(w) /\ Untouched
       ELSE /\ round < MaxRounds
            /\ step' = [r \in Rounds |-> [l \in Levels |->
                          IF r = round + 1 THEN "pending"
                          ELSE IF Superseded(r, l, req[w].rows) THEN "absent"
                          ELSE step[r][l]]]
            /\ round' = round + 1
            /\ submitter' = [submitter EXCEPT ![round + 1] = req[w].user]
            /\ status' = Written(req[w].seen, "in_review")
            /\ Serve(w, [Idle EXCEPT !.op = "submit", !.pc = "submitted"])
            /\ UNCHANGED <<actor, notified>>

\* The second transaction of submit: notify the lowest actionable level.
SubmitNotify(w) ==
    /\ req[w].op = "submit" /\ req[w].pc = "submitted"
    /\ notified' = notified \cup ActionableLevels
    /\ Finish(w)
    /\ UNCHANGED <<status, step, actor, submitter, round>>

-----------------------------------------------------------------------------
(* POST /approvals/decide *)

\* Mutants: no segregation of duties; a decided row may be decided again.
MayDecideOwn(u, r, l)   == u \in Reviewers /\ step[r][l] = "pending" /\ u \in Eligible[l]
MayDecideAgain(u, r, l) == /\ u \in Reviewers /\ step[r][l] \in {"pending"} \cup Decided
                           /\ ~(RequireSoD /\ u = Creator) /\ u \in Eligible[l]

\* The checks on what is loaded with the step: it is pending, segregation of
\* duties, the role gate.
MayDecide(u, r, l) ==
    /\ u \in Reviewers
    /\ step[r][l] = "pending"
    /\ ~(RequireSoD /\ u = Creator)
    /\ u \in Eligible[l]

\* Load the step and its version.  A rejection without comments answers 400 and
\* changes nothing, so a rejection here is one that has them.
DecideLoad(w, u, r, l, action) ==
    /\ req[w] = Idle
    /\ MayDecide(u, r, l)
    /\ Serve(w, [Idle EXCEPT !.op = action, !.pc = "loaded", !.user = u,
                             !.rnd = r, !.lvl = l, !.seen = status])
    /\ Untouched

Deciding(w) == req[w].op \in {"approve", "reject"}

\* The prior_pending query of _can_decide.
DecideGate(w) ==
    /\ Deciding(w) /\ req[w].pc = "loaded"
    /\ IF LevelOpen(req[w].lvl)
       THEN Serve(w, [req[w] EXCEPT !.pc = "gated"])
       ELSE Finish(w)
    /\ Untouched

\* The remaining query, and the queries that choose whom to notify.  The row
\* being approved is still pending in the database: its new status is unflushed.
DecideCount(w) ==
    /\ req[w].op = "approve" /\ req[w].pc = "gated"
    /\ Serve(w, [req[w] EXCEPT !.pc = "counted",
                               !.left = (Rows("pending") # {}),
                               !.tell = ActionableLevels])
    /\ Untouched

\* The row may have been deleted by a submission or with its version: the UPDATE
\* then matches nothing, the flush raises and the transaction is rolled back.
DecisionStands(w) ==
    /\ step[req[w].rnd][req[w].lvl] # "absent"
    /\ actor' = [actor EXCEPT ![req[w].rnd][req[w].lvl] = req[w].user]
    /\ Finish(w)
    /\ UNCHANGED <<submitter, round>>

DecideLost(w) ==
    /\ Deciding(w) /\ req[w].pc \in {"gated", "counted"}
    /\ step[req[w].rnd][req[w].lvl] = "absent"
    /\ Finish(w)
    /\ Untouched

DecideApprove(w) ==
    /\ req[w].op = "approve" /\ req[w].pc = "counted"
    /\ DecisionStands(w)
    /\ step' = [step EXCEPT ![req[w].rnd][req[w].lvl] = "approved"]
    /\ status' = IF req[w].left THEN status ELSE Written(req[w].seen, "approved")
    /\ notified' = IF req[w].left THEN notified \cup req[w].tell ELSE notified

\* Mutant: a rejection leaves the later levels pending.
SkippedNever(r, l) == step[r][l]

\* What the bulk UPDATE of a rejection leaves in a row.
Skipped(r, l) == IF step[r][l] = "pending" THEN "skipped" ELSE step[r][l]

\* The bulk UPDATE turns every row pending in the database into skipped, this one
\* included; the flush then writes this one.
DecideReject(w) ==
    /\ req[w].op = "reject" /\ req[w].pc = "gated"
    /\ DecisionStands(w)
    /\ step' = [r \in Rounds |-> [l \in Levels |->
                  IF r = req[w].rnd /\ l = req[w].lvl THEN "rejected" ELSE Skipped(r, l)]]
    /\ status' = Written(req[w].seen, "draft")
    /\ UNCHANGED notified

-----------------------------------------------------------------------------
(* The chat skills: they write the status and never look at the steps. *)

ChatLoad(w, u, aim) ==
    /\ req[w] = Idle
    /\ status # "deleted"
    /\ Serve(w, [Idle EXCEPT !.op = "set", !.pc = "loaded", !.user = u,
                             !.seen = status, !.aim = aim])
    /\ Untouched

ChatSubmit(w, u) ==
    /\ u \in Generators
    /\ status = "draft"
    /\ ChatLoad(w, u, "in_review")

\* With publish=true the same call assigns "approved" and then "published".
ChatApprove(w, u, aim) ==
    /\ u \in Generators \cap Reviewers
    /\ status = "in_review"
    /\ aim \in {"approved", "published"}
    /\ ChatLoad(w, u, aim)

ChatReject(w, u) ==
    /\ u \in Generators \cap Reviewers
    /\ ChatLoad(w, u, "draft")

\* manage_versions(update_status): any status to any status.  The skill names no
\* role; the registry offers such a skill to the roles that can generate.
UpdateStatus(w, u, aim) ==
    /\ u \in Generators
    /\ ChatLoad(w, u, aim)

ChatCommit(w) ==
    /\ req[w].op = "set"
    /\ status' = IF status = "deleted" THEN status ELSE Written(req[w].seen, req[w].aim)
    /\ Finish(w)
    /\ UNCHANGED <<step, actor, submitter, round, notified>>

-----------------------------------------------------------------------------
(* DELETE /panel/versions/{id} *)

Deletable == status = "draft"

DeleteLoad(w, u) ==
    /\ req[w] = Idle
    /\ u \in Generators
    /\ Deletable
    /\ Serve(w, [Idle EXCEPT !.op = "delete", !.pc = "loaded", !.rows = PresentRows])
    /\ Untouched

\* The cascade deletes the step rows it loaded; a row inserted since then makes
\* the DELETE of the version fail on its foreign key.
DeleteCommit(w) ==
    /\ req[w].op = "delete"
    /\ Finish(w)
    /\ IF PresentRows \subseteq req[w].rows
       THEN /\ status' = "deleted"
            /\ step' = [r \in Rounds |-> [l \in Levels |-> "absent"]]
            /\ actor' = [r \in Rounds |-> [l \in Levels |-> NoUser]]
            /\ UNCHANGED <<submitter, round, notified>>
       ELSE Untouched

-----------------------------------------------------------------------------
Receive(w) ==
    \E u \in Users :
        \/ SubmitLoad(w, u)
        \/ \E r \in Rounds, l \in Levels, action \in {"approve", "reject"} :
               DecideLoad(w, u, r, l, action)
        \/ ChatSubmit(w, u)
        \/ \E aim \in Statuses : ChatApprove(w, u, aim)
        \/ ChatReject(w, u)
        \/ \E aim \in Statuses : UpdateStatus(w, u, aim)
        \/ DeleteLoad(w, u)

Proceed(w) ==
    \/ SubmitCommit(w) \/ SubmitNotify(w)
    \/ DecideGate(w) \/ DecideCount(w) \/ DecideLost(w)
    \/ DecideApprove(w) \/ DecideReject(w)
    \/ ChatCommit(w) \/ DeleteCommit(w)

Next == \E w \in Workers : Receive(w) \/ Proceed(w)

Spec == Init /\ [][Next]_vars

-----------------------------------------------------------------------------
(* Properties that hold for any number of processes. *)

IsDecided(r, l) == step[r][l] \in Decided

\* No level is decided before the levels below it in the same submission were,
\* however the processes interleave (_can_decide's prior_pending query).
LevelsInOrder ==
    \A r \in Rounds, l, k \in Levels : k < l /\ IsDecided(r, l) => IsDecided(r, k)

\* Whoever's name stands on a decision passed the role gate and, under
\* segregation of duties, is not the creator, also when two processes decided
\* the same row and the later one overwrote the earlier.
DecidedByEntitled ==
    \A r \in Rounds, l \in Levels : IsDecided(r, l) =>
        /\ actor[r][l] \in Reviewers \cap Eligible[l]
        /\ RequireSoD => actor[r][l] # Creator

\* A decision is never withdrawn: no resubmission, cascade of a rejection or late
\* commit turns a decided row back to pending or skipped or removes it.  Only
\* deleting the version does.
DecisionsSurvive ==
    [][\A r \in Rounds, l \in Levels :
          IsDecided(r, l) => step'[r][l] \in Decided \/ status' = "deleted"]_vars

-----------------------------------------------------------------------------
(* Properties of the deployment with one process (Dockerfile: --workers 1). *)

\* The rows of a submission always read: approved up to some level, then all
\* pending, or one rejected and the rest skipped, or (after a resubmission
\* cleared them) gone.
SubmissionShape ==
    \A r \in Rounds : \E l \in 0 .. NLevels :
        /\ \A k \in 1 .. l : step[r][k] = "approved"
        /\ \/ \A k \in (l + 1) .. NLevels : step[r][k] = "pending"
           \/ \A k \in (l + 1) .. NLevels : step[r][k] = "absent"
           \/ /\ l < NLevels
              /\ step[r][l + 1] = "rejected"
              /\ \A k \in (l + 2) .. NLevels : step[r][k] = "skipped"

\* Only the latest submission can be waiting for a decision.
OneOpenSubmission == \A s \in Rows("pending") : s[1] = round

\* Every submission reads as one, and only the last is open (submit_for_review,
\* decide_step).
SubmissionsRead == SubmissionShape /\ OneOpenSubmission

\* A decision, once committed, keeps its outcome and its actor.
DecisionsFinal ==
    [][\A r \in Rounds, l \in Levels : IsDecided(r, l) /\ status' # "deleted" =>
          step'[r][l] = step[r][l] /\ actor'[r][l] = actor[r][l]]_vars

-----------------------------------------------------------------------------
(* What the documentation says and the code does not do. *)

Quiescent == \A w \in Workers : req[w] = Idle

\* PRD.md P0-08, multi-level approval: a version in review all of whose levels
\* have approved is approved.
FullApprovalApproves ==
    Quiescent /\ round > 0 /\ (\A l \in Levels : step[round][l] = "approved")
        => status # "in_review"

\* models/approval.py require_sod: the submitter is not an approver.
SubmitterNotApprover ==
    RequireSoD => \A r \in Rounds, l \in Levels :
        step[r][l] = "approved" => actor[r][l] # submitter[r]
=============================================================================
