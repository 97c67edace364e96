------------------------------ MODULE EditLock ------------------------------
(***************************************************************************)
(* The edit locks of the cells of one line item (services/locks.py) and    *)
(* their callers: POST /locks/acquire and /locks/release (api/locks.py)    *)
(* and the chat skill apply_override, which locks every period it is about *)
(* to write and releases them when it has committed.                       *)
(*                                                                         *)
(* A server process serves one call at a time and sends Redis one command  *)
(* at a time; the commands of different processes interleave.  A process   *)
(* that cannot reach Redis when it first needs a lock keeps its locks in a *)
(* dictionary of its own from then on.                                     *)
(***************************************************************************)
EXTENDS FiniteSets

CONSTANTS
    Users,
    Processes,
    Cells,    \* the periods of the line item
    Outages   \* may a process fail to reach Redis at its first call?

NoUser == "no_user"

ASSUME EditLockAssumption ==
    /\ NoUser \notin Users /\ Cells # {}
    /\ Outages \in BOOLEAN

VARIABLES
    shared,   \* the holder Redis records for each cell
    store,    \* store[p]: what _redis_client() answers in process p
    local,    \* local[p]: the _LOCKS dictionary of process p
    expired,  \* expired[p]: the entries of local[p] that are past expires_at
    call,     \* call[p]: the call process p is serving
    adrift    \* for the properties: the cells whose key went while a call relied
              \* on it, until no call does

vars == <<shared, store, local, expired, call, adrift>>

\* todo: cells still to lock.  got: cells locked, or to release.
\* at: the command that comes next; cell: the cell of a command half way.
Calls ==
    [user : Users \cup {NoUser}, verb : {"none", "acquire", "release", "override"},
     at : {"idle", "set", "get", "refresh", "write", "owner", "delete"},
     cell : Cells, todo : SUBSET Cells, got : SUBSET Cells]

Served(p) == call[p].at # "idle"

NoCall == [user |-> NoUser, verb |-> "none", at |-> "idle",
           cell |-> CHOOSE c \in Cells : TRUE, todo |-> {}, got |-> {}]

TypeOK ==
    /\ shared \in [Cells -> Users \cup {NoUser}]
    /\ store \in [Processes -> {"unset", "redis", "local"}]
    /\ local \in [Processes -> [Cells -> Users \cup {NoUser}]]
    /\ expired \in [Processes -> SUBSET Cells]
    /\ call \in [Processes -> Calls]
    /\ adrift \subseteq Cells

Init ==
    /\ shared = [c \in Cells |-> NoUser]
    /\ store = [p \in Processes |-> "unset"]
    /\ local = [p \in Processes |-> [c \in Cells |-> NoUser]]
    /\ expired = [p \in Processes |-> {}]
    /\ call = [p \in Processes |-> NoCall]
    /\ adrift = {}

-----------------------------------------------------------------------------
(* Calls *)

\* _redis_client() pings Redis once per process and remembers the answer.
Connect(p) ==
    /\ store[p] = "unset"
    /\ \/ store' = [store EXCEPT ![p] = "redis"]
       \/ Outages /\ store' = [store EXCEPT ![p] = "local"]
    /\ UNCHANGED <<shared, local, expired, call>>

Begin(p, u, c) ==
    /\ ~Served(p)
    /\ store[p] # "unset"
    /\ call' = [call EXCEPT ![p] = c]

\* lock_acquire first purges the entries of its own process that have expired.
Acquire(p, u, c) ==
    /\ Begin(p, u, [NoCall EXCEPT !.user = u, !.verb = "acquire", !.at = "set", !.todo = {c}])
    /\ local' = [local EXCEPT ![p] = [d \in Cells |-> IF d \in expired[p] THEN NoUser ELSE @[d]]]
    /\ expired' = [expired EXCEPT ![p] = {}]
    /\ UNCHANGED <<shared, store>>

Release(p, u, c) ==
    /\ Begin(p, u, [NoCall EXCEPT !.user = u, !.verb = "release", !.at = "owner", !.got = {c}])
    /\ UNCHANGED <<shared, store, local, expired>>

\* apply_override on one period, or on all of them in the order the query
\* returned, which is not specified.
Override(p, u, cs) ==
    /\ Begin(p, u, [NoCall EXCEPT !.user = u, !.verb = "override", !.at = "set", !.todo = cs])
    /\ UNCHANGED <<shared, store, local, expired>>

Continue(p, c) == call' = [call EXCEPT ![p] = c]
Return(p)      == Continue(p, NoCall)

\* The call once the lock of cell c is taken: the endpoint returns, the skill
\* goes on to the next period and then to the write.
WithCell(r, c) ==
    IF r.verb = "acquire" THEN NoCall
    ELSE [r EXCEPT !.todo = @ \ {c}, !.got = @ \cup {c},
                   !.at = IF r.todo \subseteq {c} THEN "write" ELSE "set"]

\* Mutants: on a conflict the skill goes on to write; the call is left hanging.
RefusedIgnored(r) == [r EXCEPT !.at = "write"]
RefusedHangs(r)   == [r EXCEPT !.at = "conflict"]

\* On a conflict the endpoint answers 409 and the skill releases the periods it
\* has locked so far.
Refused(r) == IF r.got = {} THEN NoCall ELSE [r EXCEPT !.todo = {}, !.at = "owner"]

Without(r, c) ==
    IF r.got \subseteq {c} THEN NoCall ELSE [r EXCEPT !.got = @ \ {c}, !.at = "owner"]

-----------------------------------------------------------------------------
(* The commands of a process that uses Redis *)

\* Mutants: SET without NX; an entry of anybody counts as one's own.
FreeAlways(c)    == TRUE
MineAnyone(p, c) == shared[c] # NoUser

Free(c)    == shared[c] = NoUser
Mine(p, c) == shared[c] = call[p].user

\* SET NX EX.
SetIfAbsent(p, c) ==
    /\ call[p].at = "set" /\ store[p] = "redis" /\ c \in call[p].todo
    /\ IF Free(c)
       THEN shared' = [shared EXCEPT ![c] = call[p].user] /\ Continue(p, WithCell(call[p], c))
       ELSE Continue(p, [call[p] EXCEPT !.at = "get", !.cell = c]) /\ UNCHANGED shared
    /\ UNCHANGED <<store, local, expired>>

\* GET.  A key that expired since the SET reads as a conflict with nobody.
GetHolder(p) ==
    /\ call[p].at = "get"
    /\ Continue(p, IF Mine(p, call[p].cell)
                   THEN [call[p] EXCEPT !.at = "refresh"] ELSE Refused(call[p]))
    /\ UNCHANGED <<shared, store, local, expired>>

\* SET EX, with no condition.
Refresh(p) ==
    /\ call[p].at = "refresh"
    /\ shared' = [shared EXCEPT ![call[p].cell] = call[p].user]
    /\ Continue(p, WithCell(call[p], call[p].cell))
    /\ UNCHANGED <<store, local, expired>>

\* GET, of the release.
GetOwner(p, c) ==
    /\ call[p].at = "owner" /\ store[p] = "redis" /\ c \in call[p].got
    /\ Continue(p, IF Mine(p, c)
                   THEN [call[p] EXCEPT !.at = "delete", !.cell = c] ELSE Without(call[p], c))
    /\ UNCHANGED <<shared, store, local, expired>>

\* DELETE.
Delete(p) ==
    /\ call[p].at = "delete"
    /\ shared' = [shared EXCEPT ![call[p].cell] = NoUser]
    /\ Continue(p, Without(call[p], call[p].cell))
    /\ UNCHANGED <<store, local, expired>>

-----------------------------------------------------------------------------
(* The same calls on the dictionary of a process: no command to wait for. *)

LocalHolder(p, c) == IF c \in expired[p] THEN NoUser ELSE local[p][c]

\* Mutant: only expired entries are looked at, not whose they are.
LocalFreeAlways(p, c) == local[p][c] \in Users \cup {NoUser}

LocalFree(p, c) == LocalHolder(p, c) \in {NoUser, call[p].user}

LocalSet(p, c) ==
    /\ call[p].at = "set" /\ store[p] = "local" /\ c \in call[p].todo
    /\ IF LocalFree(p, c)
       THEN /\ local' = [local EXCEPT ![p][c] = call[p].user]
            /\ expired' = [expired EXCEPT ![p] = @ \ {c}]
            /\ Continue(p, WithCell(call[p], c))
       ELSE Continue(p, Refused(call[p])) /\ UNCHANGED <<local, expired>>
    /\ UNCHANGED <<shared, store>>

\* An expired entry still counts as its owner's here.
LocalDelete(p, c) ==
    /\ call[p].at = "owner" /\ store[p] = "local" /\ c \in call[p].got
    /\ IF local[p][c] = call[p].user
       THEN /\ local' = [local EXCEPT ![p][c] = NoUser]
            /\ expired' = [expired EXCEPT ![p] = @ \ {c}]
       ELSE UNCHANGED <<local, expired>>
    /\ Continue(p, Without(call[p], c))
    /\ UNCHANGED <<shared, store>>

-----------------------------------------------------------------------------
\* The skill writes the rows and commits, or fails and rolls back; its finally
\* clause releases the locks either way.
Write(p) ==
    /\ call[p].at = "write"
    /\ Continue(p, [call[p] EXCEPT !.at = "owner"])
    /\ UNCHANGED <<shared, store, local, expired>>

\* A lease may run out at any time, in the middle of a call too.
Expire(c) ==
    /\ shared[c] # NoUser
    /\ shared' = [shared EXCEPT ![c] = NoUser]
    /\ UNCHANGED <<store, local, expired, call>>

LocalExpire(p, c) ==
    /\ local[p][c] # NoUser
    /\ expired' = [expired EXCEPT ![p] = @ \cup {c}]
    /\ UNCHANGED <<shared, store, local, call>>

\* The process dies and is started again: its dictionary and its call are gone,
\* what it wrote to Redis stays.
Crash(p) ==
    /\ store' = [store EXCEPT ![p] = "unset"]
    /\ local' = [local EXCEPT ![p] = [c \in Cells |-> NoUser]]
    /\ expired' = [expired EXCEPT ![p] = {}]
    /\ Return(p)
    /\ UNCHANGED shared

-----------------------------------------------------------------------------
Arrive(p) ==
    \E u \in Users :
        \/ \E c \in Cells : Acquire(p, u, c) \/ Release(p, u, c)
        \/ \E cs \in (SUBSET Cells) \ {{}} : Override(p, u, cs)

Command(p) ==
    \/ GetHolder(p) \/ Refresh(p) \/ Delete(p) \/ Write(p)
    \/ \E c \in Cells : SetIfAbsent(p, c) \/ GetOwner(p, c) \/ LocalSet(p, c) \/ LocalDelete(p, c)

Step ==
    \/ \E p \in Processes : Connect(p) \/ Arrive(p) \/ Command(p) \/ Crash(p)
    \/ \E c \in Cells : Expire(c) \/ \E p \in Processes : LocalExpire(p, c)

\* The cells whose lock call r counts on: those it has locked on its way to the
\* write, and the one a GET has just called its own.
CountedOn(r) ==
    {c \in Cells : \/ r.at \in {"set", "get", "refresh", "write"} /\ c \in r.got
                   \/ r.at \in {"refresh", "delete"} /\ c = r.cell}

Relies(p) == IF store[p] = "redis" THEN CountedOn(call[p]) ELSE {}

\* The keys that go in this step.
Vanished == {c \in Cells : shared[c] # NoUser /\ shared'[c] = NoUser}

Drift == adrift' = {c \in adrift \cup Vanished : \E p \in Processes : c \in Relies(p)'}

Next == Step /\ Drift

Spec == Init /\ [][Next]_vars

-----------------------------------------------------------------------------
\* The cells apply_override is writing: every one it was asked for.
Writing(p) == IF call[p].at = "write" THEN call[p].got \cup call[p].todo ELSE {}

\* Two processes on Redis write the same cell at the same time only for one user,
\* or when its key ran out, or was released by another call of that user, under
\* one of the calls.
EditsExclusive ==
    \A p, q \in Processes : p # q /\ store[p] = "redis" /\ store[q] = "redis"
        => \A c \in Writing(p) \cap Writing(q) : call[p].user = call[q].user \/ c \in adrift

\* A process on Redis writes only cells whose lock its user holds, and all of
\* them: nothing but a key that went under a call, by its lease or by another
\* call of its user, takes a lock away from one that counts on it.
WritesHold ==
    \A p \in Processes : store[p] = "redis" =>
        \A c \in Writing(p) : shared[c] = call[p].user \/ c \in adrift

\* The Redis keys of the cells are locks with a lease; a cell adrift is nobody's.
SharedHolders == [c \in Cells |-> IF c \in adrift THEN NoUser ELSE shared[c]]
Shared == INSTANCE LeaseLock WITH Keys <- Cells, holder <- SharedHolders
SharedLease == Shared!Spec

\* So are the entries of the processes' dictionaries.
LocalHolders == [k \in Processes \X Cells |-> LocalHolder(k[1], k[2])]
Local == INSTANCE LeaseLock WITH Keys <- Processes \X Cells, holder <- LocalHolders
LocalLease == Local!Spec

\* acquire_lock refuses a lock held by another user: no lock passes from one user
\* to another without having been free in between.
NeverTakenOver ==
    [][\A c \in Cells : shared[c] # NoUser => shared'[c] \in {shared[c], NoUser}]_vars
=============================================================================
