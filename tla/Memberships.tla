----------------------------- MODULE Memberships ------------------------------
(***************************************************************************)
(* Which company a person acts in and what a request may read              *)
(* (app/services/company_membership.py, permissions.py, tenant_scope.py,   *)
(* app/api/admin.py, auth.py).  The user row holds the active company and  *)
(* role; the grants say which companies the person may switch into.  A     *)
(* request pushes its scope once, when it begins; the endpoints' own       *)
(* checks read the user object, which is loaded anew after each commit.    *)
(* Requests of several processes interleave between their load and their   *)
(* commit.  The administrators who edit people act through their requests  *)
(* alone.                                                                  *)
(***************************************************************************)
EXTENDS Integers, FiniteSets

CONSTANTS
    People,           \* none of them a platform administrator
    Tenants,          \* each with its one business unit
    Roles,
    Workers,          \* server processes
    Nobody            \* no company, no role, no request

ASSUME MembershipsAssumption == Nobody \notin Tenants \cup Roles \cup People

VARIABLES
    account,      \* User.business_unit_id and role_id, per person
    grants,       \* CompanyMembership.role_id, per person and company
    inflight      \* per process: whom it loaded, the scope pushed, the row loaded, the companies read

membershipVars == <<account, grants, inflight>>

-----------------------------------------------------------------------------
Absentee == [unit |-> Nobody, role |-> Nobody]
Quiet    == [who |-> Nobody, scope |-> Nobody, view |-> Absentee, read |-> {}]

MembershipsInit ==
    /\ account = [p \in People |-> Absentee]
    /\ grants = [p \in People |-> [c \in Tenants |-> Nobody]]
    /\ inflight = [w \in Workers |-> Quiet]

\* ensure_active_membership, for the values the session holds.
Ensured(p, row) ==
    IF row.unit = Nobody THEN grants[p] ELSE [grants[p] EXCEPT ![row.unit] = row.role]

\* Only the columns whose value differs from what was loaded are written.
Written(p, loaded, row) ==
    [unit |-> IF row.unit # loaded.unit THEN row.unit ELSE account[p].unit,
     role |-> IF row.role # loaded.role THEN row.role ELSE account[p].role]

-----------------------------------------------------------------------------
(* Accounts *)

\* register, admin_create_user and resolve_oidc_user, which names no company.
CreateUser(p) ==
    /\ account[p] = Absentee
    /\ \E u \in Tenants \cup {Nobody}, r \in Roles :
        /\ account' = [account EXCEPT ![p] = [unit |-> u, role |-> r]]
        /\ grants' = [grants EXCEPT ![p] = Ensured(p, [unit |-> u, role |-> r])]
    /\ UNCHANGED inflight

\* update_user by an administrator, who has loaded the person's row.
EditUser(w, p) ==
    /\ inflight[w] = Quiet /\ account[p] # Absentee
    /\ inflight' = [inflight EXCEPT ![w] = [who |-> p, scope |-> "unrestricted", view |-> account[p], read |-> {}]]
    /\ UNCHANGED <<account, grants>>

UpdateUser(w) ==
    LET p == inflight[w].who IN
    /\ inflight[w].scope = "unrestricted"
    /\ \E u \in Tenants \cup {Nobody}, r \in Roles :
        /\ account' = [account EXCEPT ![p] = Written(p, inflight[w].view, [unit |-> u, role |-> r])]
        /\ grants' = [grants EXCEPT ![p] = Ensured(p, [unit |-> u, role |-> r])]
    /\ inflight' = [inflight EXCEPT ![w] = Quiet]

\* grant_membership leaves the user row alone, whichever company is active.
GrantMembership(p) ==
    /\ \E c \in Tenants, r \in Roles : grants' = [grants EXCEPT ![p][c] = r]
    /\ account[p] # Absentee
    /\ UNCHANGED <<account, inflight>>

\* switch_active_company: without a membership the answer is 404.
SwitchCompany(w) ==
    LET p == inflight[w].who IN
    /\ p # Nobody /\ inflight[w].scope # "unrestricted"
    /\ \E c \in Tenants :
        /\ grants[p][c] # Nobody
        /\ account' = [account EXCEPT ![p] = Written(p, inflight[w].view, [unit |-> c, role |-> grants[p][c]])]
    /\ inflight' = [inflight EXCEPT ![w] = Quiet]
    /\ UNCHANGED grants

-----------------------------------------------------------------------------
(* Requests *)

\* get_current_user loads the user and pushes the scope: the active company (scope_for_user).
Begin(w, p) ==
    /\ inflight[w] = Quiet /\ account[p] # Absentee
    /\ inflight' = [inflight EXCEPT ![w] = [who |-> p, scope |-> account[p].unit, view |-> account[p], read |-> {}]]
    /\ UNCHANGED <<account, grants>>

\* The filter that is added to every SELECT on a scoped model, for a row of company c.
NetShows(scope, c) == scope # Nobody /\ scope = c

\* can_access_business_unit and the scope filters of the endpoints.
CheckShows(view, c) == view.unit # Nobody /\ view.unit = c

ShownByCheck(r, c) == CheckShows(r.view, c)

Shown(r, c) == NetShows(r.scope, c) /\ CheckShows(r.view, c)

ReadRow(w) ==
    /\ inflight[w].who # Nobody /\ inflight[w].scope # "unrestricted"
    /\ \E c \in Tenants :
        /\ Shown(inflight[w], c)
        /\ inflight' = [inflight EXCEPT ![w].read = @ \cup {c}]
    /\ UNCHANGED <<account, grants>>

\* A commit in the middle of a request expires the user object: its next use loads the row.
CommitMidway(w) ==
    /\ inflight[w].who # Nobody
    /\ inflight' = [inflight EXCEPT ![w].view = account[inflight[w].who]]
    /\ UNCHANGED <<account, grants>>

Finish(w) ==
    /\ inflight[w].who # Nobody
    /\ inflight' = [inflight EXCEPT ![w] = Quiet]
    /\ UNCHANGED <<account, grants>>

MembershipsNext ==
    \/ \E p \in People : CreateUser(p) \/ GrantMembership(p)
    \/ \E w \in Workers, p \in People : EditUser(w, p) \/ Begin(w, p)
    \/ \E w \in Workers : UpdateUser(w) \/ SwitchCompany(w) \/ ReadRow(w) \/ CommitMidway(w) \/ Finish(w)

MembershipsSpec == MembershipsInit /\ [][MembershipsNext]_membershipVars

-----------------------------------------------------------------------------
MembershipsTypeOK ==
    /\ account \in [People -> [unit : Tenants \cup {Nobody}, role : Roles \cup {Nobody}]]
    /\ grants \in [People -> [Tenants -> Roles \cup {Nobody}]]
    /\ inflight \in [Workers -> [who : People \cup {Nobody}, scope : Tenants \cup {Nobody, "unrestricted"},
                                view : [unit : Tenants \cup {Nobody}, role : Roles \cup {Nobody}], read : SUBSET Tenants]]

\* "the 'active company always has a membership' invariant" (company_membership.py): through
\* creation, switches, grants and updates that overlap.
ActiveIsMember == \A p \in People : account[p].unit # Nobody => grants[p][account[p].unit] # Nobody

\* However switches overlap with a request, and even when the request commits midway and sees
\* its user in another company, what it reads is of one company, the one it began in.
ReadsOneCompany ==
    \A w \in Workers : inflight[w].read \subseteq {inflight[w].scope}

\* A person's active company is one of theirs, and a request reads no other.
CompaniesApart == ActiveIsMember /\ ReadsOneCompany
=============================================================================
