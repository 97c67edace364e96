-------------------------------- MODULE Sweeps --------------------------------
(***************************************************************************)
(* Driver forms, their submissions and the daily sweep that chases what is *)
(* missing (app/api/dashboard.py, domain/skills/collect_driver_input.py,   *)
(* services/driver_submission.py, workers/arq_worker.py), with the         *)
(* notifications they leave (services/notifications.py).  What a           *)
(* submission writes into the forecast is in Overrides.                    *)
(*                                                                         *)
(* A sweep reads everything, then writes all its notifications in one      *)
(* transaction; submissions land in between.  Deadlines count the days of  *)
(* the calendar month.                                                     *)
(***************************************************************************)
EXTENDS Integers, FiniteSets, Sequences

CONSTANTS
    Firms,            \* companies
    Platform,         \* stands for the platform administrators as a caller's company
    Forecasts,        \* forecast versions
    FirmOf,           \* [Forecasts -> Firms]
    Providers,        \* [Firms -> sets of people with can_input]
    Desks,            \* server processes that take submissions
    Soft,             \* DriverFormConfig's soft deadline, in days
    MonthDays,        \* bound: days in a month
    MaxMonths,        \* bound: months that pass
    MaxForms, MaxInputs, MaxRounds   \* bounds: forms created, submissions on record, sweeps run

ASSUME SweepsAssumption ==
    /\ FirmOf \in [Forecasts -> Firms] /\ DOMAIN Providers = Firms
    /\ Platform \notin Firms
    /\ Soft \in Nat /\ MonthDays \in Nat \ {0} /\ MaxMonths \in Nat
    /\ MaxForms \in Nat /\ MaxInputs \in Nat /\ MaxRounds \in Nat

VARIABLES
    forms,        \* driver_form_configs: the company of each, in order of their ids
    inputs,       \* driver_inputs, submitted in time or late: version, form, and whether one
                  \* of the version's own company submitted it
    open,         \* versions that are draft or in review
    month, today, \* the month, and the days since its first
    desk,         \* per process: the submission it is in the middle of
    chase,        \* the last sweep: its state, what it found, and how many ran
    notices       \* notifications: the dedup key, and what it is about

sweepVars == <<forms, inputs, open, month, today, desk, chase, notices>>

-----------------------------------------------------------------------------
NoSubmission == [v |-> "none", form |-> 0, firm |-> Platform, by |-> Platform]

SweepsInit ==
    /\ forms = <<>> /\ inputs = {} /\ month = 0 /\ today = 0
    /\ open = Forecasts
    /\ desk = [d \in Desks |-> NoSubmission]
    /\ notices = {}
    /\ chase = [state |-> "none", owed |-> {}, runs |-> 0]

\* check_driver_deadline, from the first of the month; past the hard deadline an input is
\* taken too and only marked late.
PastSoft == today > Soft

-----------------------------------------------------------------------------
(* Forms and submissions.  A caller is a company, for one of its people, or *)
(* Platform.                                                                *)

\* collect_driver_input's create_form.
CreateForm(f) ==
    /\ Len(forms) < MaxForms
    /\ forms' = Append(forms, f)
    /\ UNCHANGED <<inputs, open, month, today, desk, chase, notices>>

\* A company's first active form, or 0.
FormFor(f) ==
    LET own == {i \in DOMAIN forms : forms[i] = f}
    IN  IF own = {} THEN 0 ELSE CHOOSE i \in own : \A j \in own : i <= j

\* The forms a caller may name: tenant_scope hides those of other companies.
Nameable(by) == {i \in DOMAIN forms : by \in {forms[i], Platform}}

\* submit_driver_inputs up to the form.  The version is open and within the caller's reach; the
\* company asked for is the caller's own, and any for a platform administrator.  The form is the
\* one named, or the first of the company asked for: the version's own company plays no part.
SubmitLoad(d, v, by, f) ==
    /\ desk[d] = NoSubmission /\ v \in open
    /\ by \in {FirmOf[v], Platform} /\ by \in {f, Platform}
    /\ \E i \in {FormFor(f)} \cup Nameable(by) :
        desk' = [desk EXCEPT ![d] = [v |-> v, form |-> i, firm |-> IF i = 0 THEN f ELSE forms[i], by |-> by]]
    /\ UNCHANGED <<forms, inputs, open, month, today, chase, notices>>

Recording(v, i, by) ==
    /\ Cardinality(inputs) < MaxInputs
    /\ inputs' = inputs \cup {[v |-> v, form |-> i, own |-> by = FirmOf[v]]}

\* apply_driver_submission and its commit; the default form of the company asked for is
\* created with it.
SubmitCommit(d) ==
    LET s == desk[d]  i == IF s.form = 0 THEN Len(forms) + 1 ELSE s.form IN
    /\ s # NoSubmission
    /\ s.form = 0 => Len(forms) < MaxForms
    /\ forms' = IF s.form = 0 THEN Append(forms, s.firm) ELSE forms
    /\ Recording(s.v, i, s.by)
    /\ desk' = [desk EXCEPT ![d] = NoSubmission]
    /\ UNCHANGED <<open, month, today, chase, notices>>

\* Nothing to submit, or the transaction fails: no form is left behind.
SubmitFails(d) ==
    /\ desk[d] # NoSubmission
    /\ desk' = [desk EXCEPT ![d] = NoSubmission]
    /\ UNCHANGED <<forms, inputs, open, month, today, chase, notices>>

\* collect_driver_input's submit_values names its form, and looks neither at the version's
\* status nor at its company.
SubmitChat(v, by) ==
    /\ \E i \in Nameable(by) : Recording(v, i, by)
    /\ UNCHANGED <<forms, open, month, today, desk, chase, notices>>

-----------------------------------------------------------------------------
(* The world around *)

\* A day passes, the last of the month into the next month.
NextDay ==
    /\ chase.state # "reading"
    /\ IF today + 1 < MonthDays
       THEN today' = today + 1 /\ UNCHANGED month
       ELSE month < MaxMonths /\ today' = 0 /\ month' = month + 1
    /\ UNCHANGED <<forms, inputs, open, desk, chase, notices>>

LastApproval(v) ==
    /\ v \in open
    /\ open' = open \ {v}
    /\ UNCHANGED <<forms, inputs, month, today, desk, chase, notices>>

-----------------------------------------------------------------------------
(* The daily sweep *)

\* The forms with no submission for an open version of their company, with the people to tell.
Owed ==
    {o \in [v : open, form : DOMAIN forms, to : UNION {Providers[f] : f \in Firms}, month : {month}] :
        /\ PastSoft
        /\ forms[o.form] = FirmOf[o.v] /\ o.to \in Providers[forms[o.form]]
        /\ ~\E x \in inputs : x.v = o.v /\ x.form = o.form}

ChaseStart ==
    /\ chase.state # "reading" /\ chase.runs < MaxRounds
    /\ chase' = [state |-> "reading", owed |-> Owed, runs |-> chase.runs + 1]
    /\ UNCHANGED <<forms, inputs, open, month, today, desk, notices>>

DedupKeyForm(o) == <<o.form, o.to>>

\* The dedup key: the version, the form, and whom, but not the month.
DedupKey(o) == <<o.v, o.form, o.to>>

\* notify_users, create_notification: nothing when the key has fired for the person before.
Notified(owed) ==
    LET fresh == {o \in owed : ~\E n \in notices : n.key = DedupKey(o)}
    IN  notices \cup {[key |-> DedupKey(o), about |-> o] : o \in {q \in fresh : q = CHOOSE r \in fresh : DedupKey(r) = DedupKey(q)}}

ChaseCommit ==
    /\ chase.state = "reading"
    /\ notices' = Notified(chase.owed)
    /\ chase' = [chase EXCEPT !.state = "done"]
    /\ UNCHANGED <<forms, inputs, open, month, today, desk>>

\* The worker dies or the transaction fails: no notification at all, and the next day's run
\* starts over (max_tries = 1).
ChaseDies ==
    /\ chase.state = "reading"
    /\ chase' = [chase EXCEPT !.state = "none", !.owed = {}]
    /\ UNCHANGED <<forms, inputs, open, month, today, desk, notices>>

SweepsNext ==
    \/ \E f \in Firms : CreateForm(f)
    \/ \E d \in Desks, v \in Forecasts, by \in Firms \cup {Platform}, f \in Firms : SubmitLoad(d, v, by, f)
    \/ \E d \in Desks : SubmitCommit(d) \/ SubmitFails(d)
    \/ \E v \in Forecasts, by \in Firms \cup {Platform} : SubmitChat(v, by)
    \/ \E v \in Forecasts : LastApproval(v)
    \/ NextDay \/ ChaseStart \/ ChaseCommit \/ ChaseDies

SweepsSpec == SweepsInit /\ [][SweepsNext]_sweepVars

-----------------------------------------------------------------------------
SweepsTypeOK ==
    /\ forms \in Seq(Firms) /\ today \in 0..(MonthDays - 1) /\ month \in 0..MaxMonths
    /\ \A x \in inputs : x.v \in Forecasts /\ x.form \in DOMAIN forms /\ x.own \in BOOLEAN
    /\ open \subseteq Forecasts
    /\ \A d \in Desks : desk[d].form \in 0..Len(forms)
    /\ chase.state \in {"none", "reading", "done"} /\ chase.runs \in 0..MaxRounds

\* The same form of the same version, chased with the same person, in whatever month.
SameChase(o, p) == o.v = p.v /\ o.form = p.form /\ o.to = p.to

\* Everything a sweep that committed had found was told to each recipient in that month or
\* an earlier one (scheduled_driver_overdue_sweep, create_notification).
SweepsTell ==
    chase.state = "done" =>
        \A o \in chase.owed : \E n \in notices : SameChase(n.about, o) /\ n.about.month <= o.month

\* And once only: whoever has been told hears no more of that form and version, when the
\* deadline of a later month passes either.
ToldOnce == \A n, p \in notices : SameChase(n.about, p.about) => n = p

\* A company with one form, one of whose own people submitted for a version, is not chased for
\* that version by a sweep that begins afterwards, whichever way the submission took: the form
\* it landed on is the one the sweep looks for (submit_driver_inputs, submit_values).  A platform
\* administrator's may land on the form of another company.
SubmittersNotChased ==
    \A o \in Owed :
        (\A i, j \in DOMAIN forms : forms[i] = FirmOf[o.v] /\ forms[j] = FirmOf[o.v] => i = j)
            => ~\E x \in inputs : x.v = o.v /\ x.own

\* Whom a sweep tells: each once, and not those who have submitted.
SweepsRight == SweepsTell /\ ToldOnce /\ SubmittersNotChased
=============================================================================
