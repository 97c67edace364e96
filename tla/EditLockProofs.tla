--------------------------- MODULE EditLockProofs ---------------------------
(***************************************************************************)
(* Proofs about EditLock for any users, processes and cells: leases run    *)
(* out in the middle of calls, processes die and lose Redis, and a user    *)
(* may have several calls in progress.                                     *)
(***************************************************************************)
EXTENDS EditLock, TLAPS

\* The shape of a call in a process whose store is s.
Shaped(r, s) ==
    /\ r.at # "idle" => r.user \in Users /\ s # "unset"
    /\ r.at \in {"get", "refresh", "delete"} => s = "redis"
    /\ r.at = "write" => r.todo = {}

\* A lock a call counts on is its user's, unless the key went under a call.
Trusted == \A p \in Processes : \A c \in Relies(p) : c \in adrift \/ shared[c] = call[p].user

LockInv ==
    /\ TypeOK
    /\ \A p \in Processes : Shaped(call[p], store[p])
    /\ Trusted

\* The state of a process that serves nothing is a call, and counts on nothing.
LEMMA NoCallIsCall ==
  /\ NoCall \in Calls /\ NoCall.at = "idle" /\ CountedOn(NoCall) = {}
  /\ \A s : Shaped(NoCall, s)
  <1>1. (CHOOSE d \in Cells : TRUE) \in Cells BY EditLockAssumption
  <1>2. NoCall \in Calls /\ NoCall.at = "idle" BY <1>1 DEF NoCall, Calls
  <1> QED BY <1>2 DEF Shaped, CountedOn

\* The call after a cell is locked counts on that cell besides what it has locked.
LEMMA WithCellCall ==
  ASSUME NEW r \in Calls, r.user \in Users, r.at \in {"set", "refresh"}, NEW c \in Cells,
         NEW s, s # "unset"
  PROVE  /\ WithCell(r, c) \in Calls /\ Shaped(WithCell(r, c), s)
         /\ \A d \in CountedOn(WithCell(r, c)) :
               WithCell(r, c).user = r.user /\ (d = c \/ d \in CountedOn(r))
  <1>1. CASE r.verb = "acquire"
    BY <1>1, NoCallIsCall DEF WithCell
  <1>2. CASE r.verb # "acquire"
    <2> DEFINE q == [r EXCEPT !.todo = @ \ {c}, !.got = @ \cup {c},
                              !.at = IF r.todo \subseteq {c} THEN "write" ELSE "set"]
    <2>1. WithCell(r, c) = q BY <1>2 DEF WithCell
    <2>2. q \in Calls BY DEF Calls
    <2>3. /\ q.user = r.user /\ q.got = r.got \cup {c} /\ q.at \in {"write", "set"}
          /\ q.at = "write" => q.todo = {}
      BY DEF Calls
    <2> HIDE DEF q
    <2> QED BY <2>1, <2>2, <2>3 DEF Shaped, CountedOn
  <1> QED BY <1>1, <1>2

\* After a conflict, and while it releases, a call counts on nothing.
LEMMA ReleasingCall ==
  ASSUME NEW r \in Calls, r.user \in Users, NEW c \in Cells, NEW s, s # "unset"
  PROVE  /\ Refused(r) \in Calls /\ Shaped(Refused(r), s) /\ CountedOn(Refused(r)) = {}
         /\ Without(r, c) \in Calls /\ Shaped(Without(r, c), s) /\ CountedOn(Without(r, c)) = {}
         /\ [r EXCEPT !.at = "owner"] \in Calls /\ Shaped([r EXCEPT !.at = "owner"], s)
         /\ CountedOn([r EXCEPT !.at = "owner"]) = {}
  <1>1. ASSUME NEW q \in Calls, q.at = "owner", q.user \in Users
        PROVE  Shaped(q, s) /\ CountedOn(q) = {}
    BY <1>1 DEF Shaped, CountedOn
  <1>2. Refused(r) \in Calls /\ Shaped(Refused(r), s) /\ CountedOn(Refused(r)) = {}
    <2>1. CASE r.got = {} BY <2>1, NoCallIsCall DEF Refused
    <2>2. CASE r.got # {}
      <3> DEFINE q == [r EXCEPT !.todo = {}, !.at = "owner"]
      <3>1. Refused(r) = q BY <2>2 DEF Refused
      <3>2. q \in Calls /\ q.at = "owner" /\ q.user = r.user BY DEF Calls
      <3> HIDE DEF q
      <3> QED BY <1>1, <3>1, <3>2
    <2> QED BY <2>1, <2>2
  <1>3. Without(r, c) \in Calls /\ Shaped(Without(r, c), s) /\ CountedOn(Without(r, c)) = {}
    <2>1. CASE r.got \subseteq {c} BY <2>1, NoCallIsCall DEF Without
    <2>2. CASE ~(r.got \subseteq {c})
      <3> DEFINE q == [r EXCEPT !.got = @ \ {c}, !.at = "owner"]
      <3>1. Without(r, c) = q BY <2>2 DEF Without
      <3>2. q \in Calls /\ q.at = "owner" /\ q.user = r.user BY DEF Calls
      <3> HIDE DEF q
      <3> QED BY <1>1, <3>1, <3>2
    <2> QED BY <2>1, <2>2
  <1>4. PICK q : q = [r EXCEPT !.at = "owner"] OBVIOUS
  <1>5. q \in Calls /\ q.at = "owner" /\ q.user = r.user BY <1>4 DEF Calls
  <1> QED BY <1>1, <1>2, <1>3, <1>4, <1>5

\* A lock moves from a user only to nobody, unless its cell is adrift.
Moved(sh) == \A c \in Cells : sh[c] = shared[c] \/ NoUser \in {sh[c], shared[c]} \/ c \in adrift

\* What a call counts on after a step, it counted on before, or its user holds.
Counts(q, r, sh) ==
    \A c \in CountedOn(r) : (c \in CountedOn(q) /\ r.user = q.user) \/ sh[c] = r.user

\* A step that moves locks so, and gives one process a call that counts so, keeps
\* the invariant.
LEMMA StepKeeps ==
  ASSUME LockInv, Drift, NEW p \in Processes, NEW r \in Calls, Continue(p, r),
         store' \in [Processes -> {"unset", "redis", "local"}],
         \A q \in Processes : q # p => store'[q] = store[q],
         Shaped(r, store'[p]),
         store'[p] = "redis" => Counts(call[p], r, shared') /\ (store[p] = "redis" \/ CountedOn(r) = {}),
         shared' \in [Cells -> Users \cup {NoUser}], Moved(shared'),
         local' \in [Processes -> [Cells -> Users \cup {NoUser}]],
         expired' \in [Processes -> SUBSET Cells]
  PROVE  LockInv'
  <1>1. call' \in [Processes -> Calls] /\ call'[p] = r
        /\ \A q \in Processes : q # p => call'[q] = call[q]
    BY DEF Continue, LockInv, TypeOK
  <1>2. adrift' \subseteq Cells BY DEF Drift, LockInv, TypeOK, Vanished
  <1>3. TypeOK'
    BY <1>1, <1>2 DEF LockInv, TypeOK
  <1>4. ASSUME NEW q \in Processes PROVE Shaped(call[q], store[q])'
    <2>1. CASE q = p BY <2>1, <1>1 DEF Shaped
    <2>2. CASE q # p BY <2>2, <1>1 DEF LockInv, Shaped
    <2> QED BY <2>1, <2>2
  <1>5. ASSUME NEW q \in Processes, NEW c \in Relies(q)'
        PROVE  c \in adrift' \/ shared'[c] = call'[q].user
    <2>1. c \in Cells /\ c \in CountedOn(call'[q]) /\ store'[q] = "redis"
      BY <1>5 DEF Relies, CountedOn
    <2>2. (c \in Relies(q) /\ call'[q].user = call[q].user) \/ shared'[c] = call'[q].user
      <3>1. CASE q # p BY <1>1, <2>1, <3>1 DEF Relies
      <3>2. CASE q = p BY <1>1, <2>1, <3>2 DEF Relies, Counts
      <3> QED BY <3>1, <3>2
    <2>3. CASE c \in Relies(q) /\ call'[q].user = call[q].user
      <3>1. c \in adrift \cup Vanished => c \in adrift' BY <1>5 DEF Drift
      <3>2. CASE c \in adrift BY <3>1, <3>2
      <3>3. CASE c \notin adrift
        <4>1. shared[c] = call[q].user BY <2>3, <3>3 DEF LockInv, Trusted
        <4>2. call[q].at # "idle" BY <2>3 DEF Relies, CountedOn
        <4>3. shared[c] # NoUser BY <4>1, <4>2, EditLockAssumption DEF LockInv, Shaped
        <4>4. CASE shared'[c] = NoUser BY <2>1, <3>1, <4>3, <4>4 DEF Vanished
        <4>5. CASE shared'[c] # NoUser BY <2>1, <2>3, <3>3, <4>1, <4>3, <4>5 DEF Moved
        <4> QED BY <4>4, <4>5
      <3> QED BY <3>2, <3>3
    <2> QED BY <2>2, <2>3
  <1>6. Trusted' BY <1>5 DEF Trusted
  <1> QED BY <1>3, <1>4, <1>6 DEF LockInv

\* The invariant holds before the first call.
LEMMA LockInit == Init => LockInv
  <1> SUFFICES ASSUME Init PROVE LockInv OBVIOUS
  <1>1. TypeOK BY NoCallIsCall DEF Init, TypeOK
  <1>2. \A p \in Processes : Shaped(call[p], store[p]) /\ Relies(p) = {}
    BY NoCallIsCall DEF Init, Relies
  <1> QED BY <1>1, <1>2 DEF LockInv, Trusted

\* A call that arrives counts on no lock.
LEMMA LockArrive ==
  ASSUME LockInv, Drift, NEW p \in Processes, Arrive(p)
  PROVE  LockInv'
  <1>0. /\ shared \in [Cells -> Users \cup {NoUser}] /\ store \in [Processes -> {"unset", "redis", "local"}]
        /\ local \in [Processes -> [Cells -> Users \cup {NoUser}]] /\ expired \in [Processes -> SUBSET Cells]
    BY DEF LockInv, TypeOK
  <1>1. ASSUME NEW u \in Users, NEW r \in Calls, Begin(p, u, r), r.user = u, r.at \in {"set", "owner"}, r.got = {} \/ r.at = "owner",
               store' = store, shared' = shared,
               local' \in [Processes -> [Cells -> Users \cup {NoUser}]],
               expired' \in [Processes -> SUBSET Cells]
        PROVE  LockInv'
    <2>1. Continue(p, r) /\ store[p] # "unset" BY <1>1 DEF Begin, Continue
    <2>2. CountedOn(r) = {} /\ Shaped(r, store[p]) BY <1>1, <2>1 DEF CountedOn, Shaped
    <2>3. Moved(shared') BY <1>1 DEF Moved
    <2>4. Counts(call[p], r, shared') BY <2>2 DEF Counts
    <2> QED BY <1>0, <1>1, <2>1, <2>2, <2>3, <2>4, StepKeeps
  <1>2. ASSUME NEW u \in Users, NEW c \in Cells, Acquire(p, u, c) PROVE LockInv'
    <2> DEFINE r == [NoCall EXCEPT !.user = u, !.verb = "acquire", !.at = "set", !.todo = {c}]
    <2>1. r \in Calls /\ r.user = u /\ r.at = "set" /\ r.got = {}
      BY NoCallIsCall DEF Calls, NoCall
    <2>2. Begin(p, u, r) /\ store' = store /\ shared' = shared BY <1>2 DEF Acquire
    <2>3. local' \in [Processes -> [Cells -> Users \cup {NoUser}]]
          /\ expired' \in [Processes -> SUBSET Cells]
      BY <1>0, <1>2 DEF Acquire
    <2> HIDE DEF r
    <2> QED BY <1>1, <2>1, <2>2, <2>3
  <1>3. ASSUME NEW u \in Users, NEW c \in Cells, Release(p, u, c) PROVE LockInv'
    <2> DEFINE r == [NoCall EXCEPT !.user = u, !.verb = "release", !.at = "owner", !.got = {c}]
    <2>1. r \in Calls /\ r.user = u /\ r.at = "owner"
      BY NoCallIsCall DEF Calls, NoCall
    <2>2. Begin(p, u, r) /\ UNCHANGED <<shared, store, local, expired>> BY <1>3 DEF Release
    <2> HIDE DEF r
    <2> QED BY <1>0, <1>1, <2>1, <2>2
  <1>4. ASSUME NEW u \in Users, NEW cs \in (SUBSET Cells) \ {{}}, Override(p, u, cs) PROVE LockInv'
    <2> DEFINE r == [NoCall EXCEPT !.user = u, !.verb = "override", !.at = "set", !.todo = cs]
    <2>1. r \in Calls /\ r.user = u /\ r.at = "set" /\ r.got = {}
      BY NoCallIsCall DEF Calls, NoCall
    <2>2. Begin(p, u, r) /\ UNCHANGED <<shared, store, local, expired>> BY <1>4 DEF Override
    <2> HIDE DEF r
    <2> QED BY <1>0, <1>1, <2>1, <2>2
  <1> QED BY <1>2, <1>3, <1>4 DEF Arrive

\* Every command of a call in progress keeps the invariant.
LEMMA LockCommand ==
  ASSUME LockInv, Drift, NEW p \in Processes, Command(p)
  PROVE  LockInv'
  <1> DEFINE r == call[p]
             u == call[p].user
             s == store[p]
  <1>0. /\ r \in Calls /\ Shaped(r, s) /\ r.cell \in Cells /\ r.got \subseteq Cells
        /\ shared \in [Cells -> Users \cup {NoUser}] /\ store \in [Processes -> {"unset", "redis", "local"}]
        /\ local \in [Processes -> [Cells -> Users \cup {NoUser}]]
        /\ expired \in [Processes -> SUBSET Cells]
    BY DEF LockInv, TypeOK, Calls
  <1>1. r.at # "idle" => u \in Users /\ s # "unset" BY <1>0 DEF Shaped
  <1>2. s = "redis" => \A c \in CountedOn(r) : c \in adrift \/ shared[c] = u
    BY DEF LockInv, Trusted, Relies
  <1>3. r.at \in {"get", "refresh", "delete"} => s = "redis" BY <1>0 DEF Shaped
  <1>4. /\ r.at \in {"set", "get", "refresh", "write"} => r.got \subseteq CountedOn(r)
        /\ r.at \in {"refresh", "delete"} => r.cell \in CountedOn(r)
    BY <1>0 DEF CountedOn
  <1>5. ASSUME NEW q \in Calls, Continue(p, q), store' = store, Shaped(q, s),
               s = "redis" => Counts(r, q, shared'),
               shared' \in [Cells -> Users \cup {NoUser}], Moved(shared'),
               local' \in [Processes -> [Cells -> Users \cup {NoUser}]],
               expired' \in [Processes -> SUBSET Cells]
        PROVE  LockInv'
    BY <1>0, <1>5, StepKeeps
  <1>6. shared' = shared => Moved(shared') BY DEF Moved
  <1>7. ASSUME NEW q, CountedOn(q) = {} PROVE Counts(r, q, shared') BY <1>7 DEF Counts
  <1>8. ASSUME r.at # "idle", NEW c \in Cells
        PROVE  /\ Refused(r) \in Calls /\ Shaped(Refused(r), s) /\ CountedOn(Refused(r)) = {}
               /\ Without(r, c) \in Calls /\ Shaped(Without(r, c), s) /\ CountedOn(Without(r, c)) = {}
               /\ [r EXCEPT !.at = "owner"] \in Calls /\ Shaped([r EXCEPT !.at = "owner"], s)
               /\ CountedOn([r EXCEPT !.at = "owner"]) = {}
    BY <1>0, <1>1, <1>8, ReleasingCall
  <1>9. ASSUME r.at \in {"set", "refresh"}, NEW c \in Cells
        PROVE  /\ WithCell(r, c) \in Calls /\ Shaped(WithCell(r, c), s)
               /\ shared'[c] = u \/ c \in CountedOn(r) => Counts(r, WithCell(r, c), shared')
    BY <1>0, <1>1, <1>9, WithCellCall DEF Counts
  <1>10. ASSUME NEW c \in Cells, NEW a \in {"get", "refresh", "delete"}, s = "redis", r.at # "idle",
                a \in {"get", "refresh"} => r.at \in {"set", "get"},
                a \in {"refresh", "delete"} => shared'[c] = u
         PROVE  LET q == [r EXCEPT !.at = a, !.cell = c]
                IN  q \in Calls /\ Shaped(q, s) /\ Counts(r, q, shared')
    <2> DEFINE q == [r EXCEPT !.at = a, !.cell = c]
    <2>1. q \in Calls /\ q.at = a /\ q.cell = c /\ q.got = r.got /\ q.user = u
      BY <1>0, <1>10 DEF Calls
    <2> HIDE DEF q
    <2>2. Shaped(q, s) BY <1>1, <1>10, <2>1 DEF Shaped
    <2>3. Counts(r, q, shared') BY <1>4, <1>10, <2>1 DEF Counts, CountedOn
    <2> QED BY <2>1, <2>2, <2>3 DEF q
  <1> HIDE DEF r, u, s
  <1>11. ASSUME NEW c \in Cells, SetIfAbsent(p, c) PROVE LockInv'
    <2>1. r.at = "set" /\ s = "redis" /\ UNCHANGED <<store, local, expired>>
      BY <1>11 DEF SetIfAbsent, r, s
    <2>2. CASE Free(c)
      <3>1. shared' = [shared EXCEPT ![c] = u] /\ Continue(p, WithCell(r, c)) /\ shared[c] = NoUser
        BY <1>11, <2>2 DEF SetIfAbsent, Free, r, u
      <3>2. shared'[c] = u /\ shared' \in [Cells -> Users \cup {NoUser}] /\ Moved(shared')
        BY <1>0, <1>1, <2>1, <3>1 DEF Moved
      <3> QED BY <1>0, <1>5, <1>9, <2>1, <3>1, <3>2
    <2>3. CASE ~Free(c)
      <3>1. shared' = shared /\ Continue(p, [r EXCEPT !.at = "get", !.cell = c])
        BY <1>11, <2>3 DEF SetIfAbsent, r
      <3>2. [r EXCEPT !.at = "get", !.cell = c] \in Calls /\ Shaped([r EXCEPT !.at = "get", !.cell = c], s)
            /\ Counts(r, [r EXCEPT !.at = "get", !.cell = c], shared')
        BY <1>10, <2>1
      <3> QED BY <1>0, <1>5, <1>6, <2>1, <3>1, <3>2
    <2> QED BY <2>2, <2>3
  <1>12. CASE GetHolder(p)
    <2>1. r.at = "get" /\ UNCHANGED <<shared, store, local, expired>> BY <1>12 DEF GetHolder, r
    <2>2. CASE Mine(p, r.cell)
      <3>1. Continue(p, [r EXCEPT !.at = "refresh"]) /\ shared[r.cell] = u
        BY <1>12, <2>2 DEF GetHolder, Mine, r, u
      <3>2. PICK q : q = [r EXCEPT !.at = "refresh", !.cell = r.cell] OBVIOUS
      <3>3. q = [r EXCEPT !.at = "refresh"] BY <1>0, <3>2 DEF Calls
      <3>4. q \in Calls /\ Shaped(q, s) /\ Counts(r, q, shared')
        BY <1>0, <1>3, <1>10, <2>1, <3>1, <3>2
      <3> QED BY <1>0, <1>5, <1>6, <2>1, <3>1, <3>3, <3>4
    <2>3. CASE ~Mine(p, r.cell)
      <3>1. Continue(p, Refused(r)) BY <1>12, <2>3 DEF GetHolder, r
      <3> QED BY <1>0, <1>5, <1>6, <1>7, <1>8, <2>1, <3>1
    <2> QED BY <2>2, <2>3
  <1>13. CASE Refresh(p)
    <2>1. /\ r.at = "refresh" /\ UNCHANGED <<store, local, expired>>
          /\ shared' = [shared EXCEPT ![r.cell] = u] /\ Continue(p, WithCell(r, r.cell))
      BY <1>13 DEF Refresh, r, u
    <2>2. shared'[r.cell] = u /\ shared' \in [Cells -> Users \cup {NoUser}] BY <1>0, <1>1, <2>1
    <2>3. Moved(shared') BY <1>0, <1>2, <1>3, <1>4, <2>1 DEF Moved
    <2> QED BY <1>0, <1>5, <1>9, <2>1, <2>2, <2>3
  <1>14. ASSUME NEW c \in Cells, GetOwner(p, c) PROVE LockInv'
    <2>1. r.at = "owner" /\ s = "redis" /\ UNCHANGED <<shared, store, local, expired>>
      BY <1>14 DEF GetOwner, r, s
    <2>2. CASE Mine(p, c)
      <3>1. Continue(p, [r EXCEPT !.at = "delete", !.cell = c]) /\ shared[c] = u
        BY <1>14, <2>2 DEF GetOwner, Mine, r, u
      <3>2. [r EXCEPT !.at = "delete", !.cell = c] \in Calls /\ Shaped([r EXCEPT !.at = "delete", !.cell = c], s)
            /\ Counts(r, [r EXCEPT !.at = "delete", !.cell = c], shared')
        BY <1>10, <2>1, <3>1
      <3> QED BY <1>0, <1>5, <1>6, <2>1, <3>1, <3>2
    <2>3. CASE ~Mine(p, c)
      <3>1. Continue(p, Without(r, c)) BY <1>14, <2>3 DEF GetOwner, r
      <3> QED BY <1>0, <1>5, <1>6, <1>7, <1>8, <2>1, <3>1
    <2> QED BY <2>2, <2>3
  <1>15. CASE Delete(p)
    <2>1. /\ r.at = "delete" /\ UNCHANGED <<store, local, expired>>
          /\ shared' = [shared EXCEPT ![r.cell] = NoUser] /\ Continue(p, Without(r, r.cell))
      BY <1>15 DEF Delete, r
    <2>2. shared' \in [Cells -> Users \cup {NoUser}] /\ Moved(shared') BY <1>0, <2>1 DEF Moved
    <2> QED BY <1>0, <1>5, <1>7, <1>8, <2>1, <2>2
  <1>16. CASE Write(p)
    <2>1. /\ r.at = "write" /\ UNCHANGED <<shared, store, local, expired>>
          /\ Continue(p, [r EXCEPT !.at = "owner"])
      BY <1>16 DEF Write, r
    <2> QED BY <1>0, <1>5, <1>6, <1>7, <1>8, <2>1
  <1>17. ASSUME NEW c \in Cells, LocalSet(p, c) PROVE LockInv'
    <2>1. r.at = "set" /\ s = "local" /\ UNCHANGED <<shared, store>> BY <1>17 DEF LocalSet, r, s
    <2>2. Continue(p, WithCell(r, c)) \/ Continue(p, Refused(r)) BY <1>17 DEF LocalSet, r
    <2>3. local' \in [Processes -> [Cells -> Users \cup {NoUser}]] /\ expired' \in [Processes -> SUBSET Cells]
      <3>1. \/ UNCHANGED <<local, expired>>
            \/ local' = [local EXCEPT ![p][c] = u] /\ expired' = [expired EXCEPT ![p] = @ \ {c}]
        BY <1>17 DEF LocalSet, u
      <3>2. u \in Users BY <1>1, <2>1
      <3>3. [local EXCEPT ![p][c] = u] \in [Processes -> [Cells -> Users \cup {NoUser}]] BY <1>0, <3>2
      <3>4. [expired EXCEPT ![p] = @ \ {c}] \in [Processes -> SUBSET Cells] BY <1>0
      <3> QED BY <1>0, <3>1, <3>3, <3>4
    <2> QED BY <1>0, <1>5, <1>6, <1>8, <1>9, <2>1, <2>2, <2>3
  <1>18. ASSUME NEW c \in Cells, LocalDelete(p, c) PROVE LockInv'
    <2>1. r.at = "owner" /\ UNCHANGED <<shared, store>> /\ Continue(p, Without(r, c))
      BY <1>18 DEF LocalDelete, r
    <2>2. local' \in [Processes -> [Cells -> Users \cup {NoUser}]] /\ expired' \in [Processes -> SUBSET Cells]
      <3>1. \/ UNCHANGED <<local, expired>>
            \/ local' = [local EXCEPT ![p][c] = NoUser] /\ expired' = [expired EXCEPT ![p] = @ \ {c}]
        BY <1>18 DEF LocalDelete
      <3>2. [local EXCEPT ![p][c] = NoUser] \in [Processes -> [Cells -> Users \cup {NoUser}]] BY <1>0
      <3>3. [expired EXCEPT ![p] = @ \ {c}] \in [Processes -> SUBSET Cells] BY <1>0
      <3> QED BY <1>0, <3>1, <3>2, <3>3
    <2> QED BY <1>0, <1>5, <1>6, <1>7, <1>8, <2>1, <2>2
  <1> QED BY <1>11, <1>12, <1>13, <1>14, <1>15, <1>16, <1>17, <1>18 DEF Command

\* A process that finds its store, or dies, and a lease that runs out keep the
\* invariant: what then counts on a key that went, finds it adrift.
LEMMA LockWorld ==
  ASSUME LockInv, Drift,
         \/ \E p \in Processes : Connect(p) \/ Crash(p)
         \/ \E c \in Cells : Expire(c) \/ \E p \in Processes : LocalExpire(p, c)
  PROVE  LockInv'
  <1>0. /\ shared \in [Cells -> Users \cup {NoUser}] /\ store \in [Processes -> {"unset", "redis", "local"}]
        /\ local \in [Processes -> [Cells -> Users \cup {NoUser}]] /\ expired \in [Processes -> SUBSET Cells]
        /\ call \in [Processes -> Calls]
    BY DEF LockInv, TypeOK
  <1>1. ASSUME NEW p \in Processes, Connect(p) PROVE LockInv'
    <2>1. /\ UNCHANGED <<shared, local, expired, call>> /\ store[p] = "unset"
          /\ store' \in [Processes -> {"unset", "redis", "local"}]
          /\ \A q \in Processes : q # p => store'[q] = store[q]
      BY <1>0, <1>1 DEF Connect
    <2>2. call[p] \in Calls /\ call[p].at = "idle" BY <1>0, <2>1 DEF LockInv, Shaped
    <2>3. Continue(p, call[p]) BY <1>0, <2>1 DEF Continue
    <2>4. CountedOn(call[p]) = {} /\ Shaped(call[p], store'[p]) BY <2>2 DEF CountedOn, Shaped
    <2>5. Moved(shared') /\ Counts(call[p], call[p], shared') BY <2>1, <2>4 DEF Moved, Counts
    <2> QED BY <1>0, <2>1, <2>2, <2>3, <2>4, <2>5, StepKeeps
  <1>2. ASSUME NEW p \in Processes, Crash(p) PROVE LockInv'
    <2>1. Continue(p, NoCall) /\ shared' = shared BY <1>2 DEF Crash, Return
    <2>2. /\ store' \in [Processes -> {"unset", "redis", "local"}]
          /\ \A q \in Processes : q # p => store'[q] = store[q]
          /\ local' \in [Processes -> [Cells -> Users \cup {NoUser}]] /\ expired' \in [Processes -> SUBSET Cells]
      BY <1>0, <1>2 DEF Crash
    <2>3. Moved(shared') /\ Counts(call[p], NoCall, shared') BY <2>1, NoCallIsCall DEF Moved, Counts
    <2> QED BY <1>0, <2>1, <2>2, <2>3, NoCallIsCall, StepKeeps
  <1>3. ASSUME NEW p \in Processes, UNCHANGED <<store, call>>, Moved(shared'),
               shared' \in [Cells -> Users \cup {NoUser}], local' = local, expired' \in [Processes -> SUBSET Cells]
        PROVE  LockInv'
    <2>1. call[p] \in Calls /\ Continue(p, call[p]) BY <1>0, <1>3 DEF Continue
    <2>2. Shaped(call[p], store[p]) /\ Counts(call[p], call[p], shared') BY DEF LockInv, Counts
    <2> QED BY <1>0, <1>3, <2>1, <2>2, StepKeeps
  <1>4. ASSUME NEW c \in Cells, Expire(c) PROVE LockInv'
    <2>1. UNCHANGED <<store, local, expired, call>> /\ shared' = [shared EXCEPT ![c] = NoUser]
      BY <1>4 DEF Expire
    <2>2. shared' \in [Cells -> Users \cup {NoUser}] /\ Moved(shared') BY <1>0, <2>1 DEF Moved
    <2>3. CASE Processes = {}
      <3>1. TypeOK' BY <1>0, <2>1, <2>2, <2>3 DEF LockInv, TypeOK, Drift, Vanished
      <3> QED BY <2>3, <3>1 DEF LockInv, Trusted
    <2>4. CASE Processes # {} BY <1>0, <1>3, <2>1, <2>2, <2>4
    <2> QED BY <2>3, <2>4
  <1>5. ASSUME NEW c \in Cells, NEW p \in Processes, LocalExpire(p, c) PROVE LockInv'
    BY <1>0, <1>3, <1>5 DEF LocalExpire, Moved
  <1> QED BY <1>1, <1>2, <1>4, <1>5

\* Every step keeps the invariant.
LEMMA LockStep == LockInv /\ [Next]_vars => LockInv'
  <1>1. LockInv /\ Next => LockInv'
    BY LockArrive, LockCommand, LockWorld DEF Next, Step
  <1>2. LockInv /\ UNCHANGED vars => LockInv'
    BY DEF vars, LockInv, TypeOK, Trusted, Relies
  <1> QED BY <1>1, <1>2

\* Whatever leases, outages, crashes and users do: a call on Redis that counts on a
\* lock holds it, unless its key went while a call counted on it.
THEOREM LockCorrect == Spec => []LockInv
  <1> QED BY LockStep, LockInit, PTL DEF Spec

\* The type invariant the run checks, for any users, processes and cells.
THEOREM LockTypeOKAlways == Spec => []TypeOK
  <1>1. LockInv => TypeOK BY DEF LockInv
  <1> QED BY <1>1, LockCorrect, PTL

\* A call on Redis writes only cells whose lock its user holds, or whose key went
\* while a call in progress counted on it.
THEOREM WritesHoldAlways == Spec => []WritesHold
  <1>1. LockInv => WritesHold
    <2> SUFFICES ASSUME LockInv, NEW p \in Processes, store[p] = "redis", NEW c \in Writing(p)
                 PROVE  shared[c] = call[p].user \/ c \in adrift
      BY DEF WritesHold
    <2>1. call[p].at = "write" /\ c \in call[p].got /\ call[p] \in Calls
      BY DEF LockInv, TypeOK, Shaped, Writing
    <2>2. c \in Relies(p) BY <2>1 DEF Relies, CountedOn, Calls
    <2> QED BY <2>2 DEF LockInv, Trusted
  <1> QED BY <1>1, LockCorrect, PTL

\* Two processes on Redis write the same cell at once only for one user, or when
\* its key went while a call in progress counted on it.
THEOREM EditsExclusiveAlways == Spec => []EditsExclusive
  <1>1. WritesHold => EditsExclusive BY DEF WritesHold, EditsExclusive
  <1> QED BY <1>1, WritesHoldAlways, PTL

-----------------------------------------------------------------------------
(* The Redis keys implement LeaseLock. *)

\* The holders that count after a step are the holders before it, or nobody is.
LEMMA SharedStep == LockInv /\ LockInv' /\ [Next]_vars => [Shared!Next]_SharedHolders
  <1> SUFFICES ASSUME LockInv, LockInv', [Next]_vars PROVE Shared!Next \/ UNCHANGED SharedHolders
    OBVIOUS
  <1>0. /\ shared \in [Cells -> Users \cup {NoUser}] /\ shared' \in [Cells -> Users \cup {NoUser}]
        /\ call \in [Processes -> Calls]
    BY DEF LockInv, TypeOK
  <1>1. CASE UNCHANGED vars BY <1>1 DEF vars, SharedHolders
  <1>2. ASSUME \A c \in Cells : shared'[c] = shared[c] \/ NoUser \in {shared'[c], shared[c]} \/ c \in adrift
        PROVE  Shared!Next
    <2>1. SharedHolders' \in [Cells -> Users \cup {NoUser}] BY <1>0 DEF SharedHolders
    <2>2. ASSUME NEW c \in Cells
          PROVE  SharedHolders[c] = NoUser \/ SharedHolders'[c] \in {SharedHolders[c], NoUser}
      BY <1>2 DEF SharedHolders
    <2> QED BY <2>1, <2>2 DEF Shared!Next, Shared!Kept, Shared!NoUser, NoUser
  <1>3. ASSUME NEW p \in Processes, Refresh(p) PROVE Shared!Next
    <2>1. /\ call[p].at = "refresh" /\ call[p].cell \in Cells
          /\ shared' = [shared EXCEPT ![call[p].cell] = call[p].user]
      BY <1>0, <1>3 DEF Refresh, Calls
    <2>2. store[p] = "redis" BY <2>1 DEF LockInv, Shaped
    <2>3. call[p].cell \in Relies(p) BY <2>1, <2>2 DEF Relies, CountedOn
    <2>4. call[p].cell \in adrift \/ shared[call[p].cell] = call[p].user BY <2>3 DEF LockInv, Trusted
    <2> QED BY <1>0, <1>2, <2>1, <2>4
  <1>4. ASSUME NEW p \in Processes, Delete(p) PROVE Shared!Next
    BY <1>0, <1>2, <1>4 DEF Delete
  <1>5. ASSUME NEW p \in Processes, NEW c \in Cells, SetIfAbsent(p, c) PROVE Shared!Next
    BY <1>0, <1>2, <1>5 DEF SetIfAbsent, Free
  <1>6. ASSUME NEW c \in Cells, Expire(c) PROVE Shared!Next \/ UNCHANGED SharedHolders
    BY <1>0, <1>2, <1>6 DEF Expire
  <1>7. CASE shared' = shared BY <1>2, <1>7
  <1>8. ASSUME NEW p \in Processes, Command(p) PROVE Shared!Next \/ UNCHANGED SharedHolders
    BY <1>3, <1>4, <1>5, <1>7, <1>8 DEF Command, GetHolder, GetOwner, Write, LocalSet, LocalDelete
  <1>9. ASSUME NEW p \in Processes, Arrive(p) PROVE Shared!Next \/ UNCHANGED SharedHolders
    BY <1>7, <1>9 DEF Arrive, Acquire, Release, Override
  <1>10. ASSUME NEW p \in Processes, Connect(p) \/ Crash(p) PROVE Shared!Next \/ UNCHANGED SharedHolders
    BY <1>7, <1>10 DEF Connect, Crash
  <1>11. ASSUME NEW p \in Processes, NEW c \in Cells, LocalExpire(p, c) PROVE Shared!Next \/ UNCHANGED SharedHolders
    BY <1>7, <1>11 DEF LocalExpire
  <1> QED BY <1>1, <1>6, <1>8, <1>9, <1>10, <1>11 DEF Next, Step

\* Redis's locks implement the abstract lock with a lease, a lock whose key went
\* while a call counted on it being nobody's until no call does.
THEOREM SharedLeaseHolds == Spec => SharedLease
  <1>1. Init => Shared!Init
    BY DEF Init, SharedHolders, Shared!Init, Shared!NoUser, NoUser
  <1>2. LockInv /\ [Next]_vars => [Shared!Next]_SharedHolders BY LockStep, SharedStep
  <1> QED BY <1>1, <1>2, LockCorrect, PTL DEF Spec, SharedLease, Shared!Spec

-----------------------------------------------------------------------------
(* The dictionaries of the processes implement LeaseLock. *)

\* A step that keeps, frees or takes each entry moves them as LeaseLock allows.
LEMMA LocalMoves ==
  ASSUME local' \in [Processes -> [Cells -> Users \cup {NoUser}]],
         \A q \in Processes, d \in Cells :
            LocalHolder(q, d) = NoUser \/ LocalHolder(q, d)' \in {LocalHolder(q, d), NoUser}
  PROVE  Local!Next
  <1>1. \A q \in Processes, d \in Cells : LocalHolder(q, d)' \in Users \cup {NoUser}
    BY DEF LocalHolder
  <1>2. LocalHolders' = [k \in Processes \X Cells |-> LocalHolder(k[1], k[2])']
    BY DEF LocalHolders
  <1>3. LocalHolders' \in [Processes \X Cells -> Users \cup {NoUser}] BY <1>1, <1>2
  <1>4. ASSUME NEW k \in Processes \X Cells
        PROVE  LocalHolders[k] = NoUser \/ LocalHolders'[k] \in {LocalHolders[k], NoUser}
    BY <1>2 DEF LocalHolders
  <1> QED BY <1>3, <1>4 DEF Local!Next, Local!Kept, Local!NoUser, NoUser

\* Every step of the program moves the dictionaries' locks as LeaseLock allows.
LEMMA LocalStep == LockInv /\ LockInv' /\ [Next]_vars => [Local!Next]_LocalHolders
  <1> SUFFICES ASSUME LockInv, LockInv', [Next]_vars PROVE Local!Next \/ UNCHANGED LocalHolders OBVIOUS
  <1>0. /\ local \in [Processes -> [Cells -> Users \cup {NoUser}]]
        /\ local' \in [Processes -> [Cells -> Users \cup {NoUser}]]
        /\ expired \in [Processes -> SUBSET Cells]
    BY DEF LockInv, TypeOK
  <1>1. CASE UNCHANGED <<local, expired>>
    BY <1>1 DEF LocalHolders, LocalHolder
  <1>2. ASSUME NEW p \in Processes, NEW u \in Users, NEW c \in Cells, Acquire(p, u, c) PROVE Local!Next
    BY <1>0, <1>2, LocalMoves DEF Acquire, LocalHolder
  <1>3. ASSUME NEW p \in Processes, NEW c \in Cells, LocalExpire(p, c) PROVE Local!Next
    BY <1>0, <1>3, LocalMoves DEF LocalExpire, LocalHolder
  <1>4. ASSUME NEW p \in Processes, Crash(p) PROVE Local!Next
    BY <1>0, <1>4, LocalMoves DEF Crash, LocalHolder
  <1>5. ASSUME NEW p \in Processes, NEW c \in Cells, LocalDelete(p, c) PROVE Local!Next \/ UNCHANGED LocalHolders
    BY <1>0, <1>1, <1>5, LocalMoves DEF LocalDelete, LocalHolder
  <1>6. ASSUME NEW p \in Processes, NEW c \in Cells, LocalSet(p, c) PROVE Local!Next \/ UNCHANGED LocalHolders
    <2>1. CASE /\ LocalFree(p, c)
               /\ local' = [local EXCEPT ![p][c] = call[p].user]
               /\ expired' = [expired EXCEPT ![p] = @ \ {c}]
      BY <1>0, <2>1, LocalMoves DEF LocalFree, LocalHolder
    <2> QED BY <1>1, <1>6, <2>1 DEF LocalSet
  <1>7. ASSUME NEW p \in Processes, Arrive(p) PROVE Local!Next \/ UNCHANGED LocalHolders
    BY <1>1, <1>2, <1>7 DEF Arrive, Release, Override
  <1>8. ASSUME NEW p \in Processes, Command(p) PROVE Local!Next \/ UNCHANGED LocalHolders
    BY <1>1, <1>5, <1>6, <1>8 DEF Command, GetHolder, Refresh, Delete, Write, SetIfAbsent, GetOwner
  <1>9. CASE UNCHANGED vars BY <1>1, <1>9 DEF vars
  <1>10. ASSUME NEW p \in Processes, Connect(p) PROVE Local!Next \/ UNCHANGED LocalHolders
    BY <1>1, <1>10 DEF Connect
  <1>11. ASSUME NEW c \in Cells, Expire(c) PROVE Local!Next \/ UNCHANGED LocalHolders
    BY <1>1, <1>11 DEF Expire
  <1> QED BY <1>3, <1>4, <1>7, <1>8, <1>9, <1>10, <1>11 DEF Next, Step

\* The entries of the processes' dictionaries are locks with a lease, even when
\* calls outlive leases and processes die.
THEOREM LocalLeaseHolds == Spec => LocalLease
  <1>1. Init => Local!Init
    BY DEF Init, LocalHolders, LocalHolder, Local!Init, Local!NoUser, NoUser
  <1>2. LockInv /\ [Next]_vars => [Local!Next]_LocalHolders BY LockStep, LocalStep
  <1> QED BY <1>1, <1>2, LockCorrect, PTL DEF Spec, LocalLease, Local!Spec
=============================================================================
