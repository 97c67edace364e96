---------------------------- MODULE PeopleProofs -----------------------------
(***************************************************************************)
(* What people do beside the versions themselves: who may act, by company  *)
(* (Memberships) and by session (SignIn), the turns of a chat (ChatTurns), *)
(* the reminders and expiries that nobody asks for (Sweeps), the reviews   *)
(* of lines and their undo (ReviewUndo).                                   *)
(***************************************************************************)
EXTENDS Memberships, SignIn, ChatTurns, Sweeps, ReviewUndo, FiniteSetTheorems,
        SequenceTheorems, Sums

(***************************************************************************)
(* Who may act: people and the companies they belong to (Memberships), and *)
(* the sessions and the sign-off on which they act (SignIn).               *)
(***************************************************************************)

(***************************************************************************)
(* CompaniesApart for any number of people, companies, roles and server    *)
(* processes.  Grants are only ever added, so that a row written from an   *)
(* old copy still names a company the person belongs to; and what a        *)
(* request reads it reads under the scope it began with.                   *)
(***************************************************************************)

\* Every reachable state of accounts, grants and requests is well typed.
THEOREM MembershipsTypeCorrect == MembershipsSpec => []MembershipsTypeOK
<1>1. MembershipsInit => MembershipsTypeOK
  BY DEF MembershipsInit, MembershipsTypeOK, Absentee, Quiet
<1>2. MembershipsTypeOK /\ [MembershipsNext]_membershipVars => MembershipsTypeOK'
  <2> SUFFICES ASSUME MembershipsTypeOK, [MembershipsNext]_membershipVars PROVE MembershipsTypeOK'
    OBVIOUS
  <2> USE DEF MembershipsTypeOK
  <2>1. ASSUME NEW p \in People, CreateUser(p) PROVE MembershipsTypeOK'
    BY <2>1 DEF CreateUser, Ensured
  <2>2. ASSUME NEW p \in People, GrantMembership(p) PROVE MembershipsTypeOK'
    BY <2>2 DEF GrantMembership
  <2>3. ASSUME NEW w \in Workers, NEW p \in People, EditUser(w, p) PROVE MembershipsTypeOK'
    BY <2>3 DEF EditUser
  <2>4. ASSUME NEW w \in Workers, NEW p \in People, Begin(w, p) PROVE MembershipsTypeOK'
    BY <2>4 DEF Begin
  <2>5. ASSUME NEW w \in Workers, UpdateUser(w) PROVE MembershipsTypeOK'
    <3> DEFINE p == inflight[w].who
    <3>1. PICK u \in Tenants \cup {Nobody}, r \in Roles :
              /\ account' = [account EXCEPT ![p] = Written(p, inflight[w].view, [unit |-> u, role |-> r])]
              /\ grants' = [grants EXCEPT ![p] = Ensured(p, [unit |-> u, role |-> r])]
      BY <2>5 DEF UpdateUser
    <3>2. p \in People => Written(p, inflight[w].view, [unit |-> u, role |-> r]) \in
                              [unit : Tenants \cup {Nobody}, role : Roles \cup {Nobody}]
      BY DEF Written
    <3>3. p \in People => Ensured(p, [unit |-> u, role |-> r]) \in [Tenants -> Roles \cup {Nobody}]
      BY DEF Ensured
    <3>4. inflight' \in [Workers -> [who : People \cup {Nobody}, scope : Tenants \cup {Nobody, "unrestricted"},
                                view : [unit : Tenants \cup {Nobody}, role : Roles \cup {Nobody}], read : SUBSET Tenants]]
      BY <2>5 DEF UpdateUser, Quiet, Absentee
    <3> HIDE DEF p
    <3>5. account' \in [People -> [unit : Tenants \cup {Nobody}, role : Roles \cup {Nobody}]]
      BY <3>1, <3>2
    <3>6. grants' \in [People -> [Tenants -> Roles \cup {Nobody}]]
      BY <3>1, <3>3
    <3> QED BY <3>4, <3>5, <3>6
  <2>6. ASSUME NEW w \in Workers, SwitchCompany(w) PROVE MembershipsTypeOK'
    BY <2>6 DEF SwitchCompany, Written, Quiet, Absentee
  <2>7. ASSUME NEW w \in Workers, ReadRow(w) PROVE MembershipsTypeOK'
    BY <2>7 DEF ReadRow
  <2>8. ASSUME NEW w \in Workers, CommitMidway(w) PROVE MembershipsTypeOK'
    <3>1. PICK a : a = account[inflight[w].who] OBVIOUS
    <3>2. inflight[w].who \in People BY <2>8 DEF CommitMidway
    <3>3. a \in [unit : Tenants \cup {Nobody}, role : Roles \cup {Nobody}] BY <3>1, <3>2
    <3>4. inflight' = [inflight EXCEPT ![w].view = a] /\ UNCHANGED <<account, grants>>
      BY <2>8, <3>1 DEF CommitMidway
    <3>5. account' = account /\ grants' = grants BY <3>4
    <3>6. PICK i \in [who : People \cup {Nobody}, scope : Tenants \cup {Nobody, "unrestricted"},
                      view : [unit : Tenants \cup {Nobody}, role : Roles \cup {Nobody}], read : SUBSET Tenants] :
                i = inflight[w]
      OBVIOUS
    <3>10. PICK j : j = [i EXCEPT !.view = a] OBVIOUS
    <3>7. j \in [who : People \cup {Nobody}, scope : Tenants \cup {Nobody, "unrestricted"},
                 view : [unit : Tenants \cup {Nobody}, role : Roles \cup {Nobody}], read : SUBSET Tenants]
      BY ONLY <3>3, <3>6, <3>10
    <3>8. inflight' = [inflight EXCEPT ![w] = j] BY <3>4, <3>6, <3>10
    <3>9. inflight' \in [Workers -> [who : People \cup {Nobody}, scope : Tenants \cup {Nobody, "unrestricted"},
                                view : [unit : Tenants \cup {Nobody}, role : Roles \cup {Nobody}], read : SUBSET Tenants]]
      BY <3>7, <3>8
    <3> QED BY <3>5, <3>9
  <2>9. ASSUME NEW w \in Workers, Finish(w) PROVE MembershipsTypeOK'
    BY <2>9 DEF Finish, Quiet, Absentee
  <2>10. CASE UNCHANGED membershipVars
    BY <2>10 DEF membershipVars
  <2> QED BY <2>1, <2>2, <2>3, <2>4, <2>5, <2>6, <2>7, <2>8, <2>9, <2>10 DEF MembershipsNext
<1> QED BY <1>1, <1>2, PTL DEF MembershipsSpec

\* The active company of every person is among their memberships: nobody ever loses a
\* grant, a switch asks for one, and creation and updates make one.
THEOREM ActiveIsMemberAlways == MembershipsSpec => []ActiveIsMember
<1> DEFINE Inv == MembershipsTypeOK /\ ActiveIsMember
<1>1. MembershipsInit => ActiveIsMember
  BY DEF MembershipsInit, ActiveIsMember, Absentee
<1>2. Inv /\ MembershipsTypeOK' /\ [MembershipsNext]_membershipVars => ActiveIsMember'
  <2> SUFFICES ASSUME MembershipsTypeOK, ActiveIsMember, MembershipsTypeOK', [MembershipsNext]_membershipVars
               PROVE  ActiveIsMember'
    OBVIOUS
  <2> USE MembershipsAssumption DEF MembershipsTypeOK, ActiveIsMember
  <2>1. ASSUME NEW p \in People, CreateUser(p) PROVE ActiveIsMember'
    BY <2>1 DEF CreateUser, Ensured
  <2>2. ASSUME NEW p \in People, GrantMembership(p) PROVE ActiveIsMember'
    BY <2>2 DEF GrantMembership
  <2>3. ASSUME NEW w \in Workers, NEW p \in People, EditUser(w, p) \/ Begin(w, p) PROVE ActiveIsMember'
    BY <2>3 DEF EditUser, Begin
  <2>5. ASSUME NEW w \in Workers, UpdateUser(w) PROVE ActiveIsMember'
    <3> DEFINE p == inflight[w].who
    <3>1. PICK u \in Tenants \cup {Nobody}, r \in Roles :
              /\ account' = [account EXCEPT ![p] = Written(p, inflight[w].view, [unit |-> u, role |-> r])]
              /\ grants' = [grants EXCEPT ![p] = Ensured(p, [unit |-> u, role |-> r])]
      BY <2>5 DEF UpdateUser
    <3> HIDE DEF p
    <3>2. ASSUME NEW q \in People, q # p PROVE account'[q] = account[q] /\ grants'[q] = grants[q]
      BY <3>1, <3>2
    <3>3. CASE p \in People
      <4>1. account'[p].unit \in {u, account[p].unit}
        BY <3>1, <3>3 DEF Written
      <4>2. u # Nobody => grants'[p][u] = r
        BY <3>1, <3>3 DEF Ensured
      <4>3. ASSUME NEW c \in Tenants, grants[p][c] # Nobody PROVE grants'[p][c] # Nobody
        BY <3>1, <3>3, <4>3 DEF Ensured
      <4>4. r # Nobody
        OBVIOUS
      <4>5. account'[p].unit # Nobody => grants'[p][account'[p].unit] # Nobody
        BY <3>3, <4>1, <4>2, <4>3, <4>4
      <4> QED BY <3>2, <4>5
    <3> QED BY <3>2, <3>3
  <2>6. ASSUME NEW w \in Workers, SwitchCompany(w) PROVE ActiveIsMember'
    BY <2>6 DEF SwitchCompany, Written
  <2>7. ASSUME NEW w \in Workers, ReadRow(w) \/ CommitMidway(w) \/ Finish(w) PROVE ActiveIsMember'
    BY <2>7 DEF ReadRow, CommitMidway, Finish
  <2>8. CASE UNCHANGED membershipVars
    BY <2>8 DEF membershipVars
  <2> QED BY <2>1, <2>2, <2>3, <2>5, <2>6, <2>7, <2>8 DEF MembershipsNext
<1> QED BY <1>1, <1>2, MembershipsTypeCorrect, PTL DEF MembershipsSpec

\* A request reads rows of the company it began in only, though its user may be moved to
\* another company meanwhile: the scope it pushed is kept to its end.
THEOREM ReadsOneCompanyAlways == MembershipsSpec => []ReadsOneCompany
<1>1. MembershipsInit => ReadsOneCompany
  BY DEF MembershipsInit, ReadsOneCompany, Quiet
<1>2. MembershipsTypeOK /\ ReadsOneCompany /\ [MembershipsNext]_membershipVars => ReadsOneCompany'
  <2> SUFFICES ASSUME MembershipsTypeOK, ReadsOneCompany, [MembershipsNext]_membershipVars PROVE ReadsOneCompany'
    OBVIOUS
  <2> USE DEF MembershipsTypeOK, ReadsOneCompany
  <2>1. ASSUME NEW p \in People, CreateUser(p) \/ GrantMembership(p) PROVE ReadsOneCompany'
    BY <2>1 DEF CreateUser, GrantMembership
  <2>2. ASSUME NEW w \in Workers, NEW p \in People, EditUser(w, p) \/ Begin(w, p) PROVE ReadsOneCompany'
    BY <2>2 DEF EditUser, Begin
  <2>3. ASSUME NEW w \in Workers, UpdateUser(w) \/ SwitchCompany(w) \/ Finish(w) PROVE ReadsOneCompany'
    BY <2>3 DEF UpdateUser, SwitchCompany, Finish, Quiet
  <2>4. ASSUME NEW w \in Workers, ReadRow(w) PROVE ReadsOneCompany'
    BY <2>4 DEF ReadRow, Shown, NetShows
  <2>5. ASSUME NEW w \in Workers, CommitMidway(w) PROVE ReadsOneCompany'
    BY <2>5 DEF CommitMidway
  <2>6. CASE UNCHANGED membershipVars
    BY <2>6 DEF membershipVars
  <2> QED BY <2>1, <2>2, <2>3, <2>4, <2>5, <2>6 DEF MembershipsNext
<1> QED BY <1>1, <1>2, MembershipsTypeCorrect, PTL DEF MembershipsSpec

\* A person's active company is one of theirs, and a request reads no other, for every
\* number of people, companies and processes.
THEOREM CompaniesApartAlways == MembershipsSpec => []CompaniesApart
BY ActiveIsMemberAlways, ReadsOneCompanyAlways, PTL DEF CompaniesApart

-----------------------------------------------------------------------------
(***************************************************************************)
(* For any number of browsers, server processes and tokens: a browser that *)
(* received its answers stays signed in, and a token that logged out stays *)
(* refused.                                                                *)
(***************************************************************************)

(***************************************************************************)
(* SessionsKept alone is not inductive: a refresh revokes the token it was *)
(* presented, which is another browser's only if two browsers may come to  *)
(* hold tokens of one family.                                              *)
(***************************************************************************)
TokenRows == [family : Nat, revoked : BOOLEAN, expired : BOOLEAN]
Hands(n)  == [token : 0 .. n, before : 0 .. n, missed : BOOLEAN]
Shaped ==
    /\ tokens \in Seq(TokenRows)
    /\ \A t \in 1 .. Len(tokens) : tokens[t].family \in 1 .. Len(tokens)
    /\ browser \in [Browsers -> Hands(Len(tokens))]
    /\ \A h \in Hosts : serving[h] = NoRequest \/ serving[h] \in [b : Browsers, t : 1 .. Len(tokens)]
    /\ DOMAIN serving = Hosts

\* Browser b holds token t, or a host serves a refresh of b that presented it.
Holds(b, t) ==
    \/ t = browser[b].token \/ t = browser[b].before
    \/ \E h \in Hosts : serving[h] # NoRequest /\ serving[h].b = b /\ serving[h].t = t

\* Tokens of one family are held by one browser.
FamiliesApart ==
    \A b, c \in Browsers : \A s, t \in 1 .. Len(tokens) :
        Holds(b, s) /\ Holds(c, t) /\ tokens[s].family = tokens[t].family => b = c

SessionsInv == Shaped /\ FamiliesApart /\ SessionsKept

\* What a browser may hold only grows with the tokens handed out.
LEMMA HandsWiden ==
  ASSUME NEW n \in Nat, NEW m \in n .. n + 1
  PROVE  /\ Hands(n) \subseteq Hands(m) /\ SignedOut \in Hands(n)
         /\ \A x \in Hands(n) : x.token \in 0 .. n /\ x.before \in 0 .. n /\ x.missed \in BOOLEAN
  <1>1. 0 .. n \subseteq 0 .. m /\ 0 \in 0 .. n OBVIOUS
  <1>2. ASSUME NEW x \in Hands(n)
        PROVE  x \in Hands(m) /\ x.token \in 0 .. n /\ x.before \in 0 .. n /\ x.missed \in BOOLEAN
    BY <1>1, <1>2, Zenon DEF Hands
  <1>3. SignedOut \in Hands(n) BY <1>1, Zenon DEF Hands, SignedOut
  <1> QED BY <1>2, <1>3

\* A token in the hand of a browser.
LEMMA HandsMade ==
  ASSUME NEW n, NEW t \in 0 .. n, NEW u \in 0 .. n, NEW m \in BOOLEAN
  PROVE  [token |-> t, before |-> u, missed |-> m] \in Hands(n)
  BY Zenon DEF Hands

\* A hand after a refresh whose answer arrives, and after one whose answer does not.
LEMMA HandEdits ==
  ASSUME NEW n \in Nat, NEW x \in Hands(n), NEW t \in 0 .. n, NEW u \in 0 .. n
  PROVE  LET next == [x EXCEPT !.token = t, !.before = u]
             lost == [x EXCEPT !.missed = TRUE]
         IN  /\ next \in Hands(n) /\ next.token = t /\ next.before = u
             /\ lost \in Hands(n) /\ lost.token = x.token /\ lost.before = x.before /\ lost.missed
  <1>1. x \in [token : 0 .. n, before : 0 .. n, missed : BOOLEAN] BY DEF Hands
  <1>2. [x EXCEPT !.token = t, !.before = u] \in [token : 0 .. n, before : 0 .. n, missed : BOOLEAN] BY <1>1
  <1>3. [x EXCEPT !.token = t, !.before = u].token = t /\ [x EXCEPT !.token = t, !.before = u].before = u BY <1>1
  <1>4. [x EXCEPT !.missed = TRUE] \in [token : 0 .. n, before : 0 .. n, missed : BOOLEAN] BY <1>1
  <1>5. [x EXCEPT !.missed = TRUE].token = x.token /\ [x EXCEPT !.missed = TRUE].before = x.before BY <1>1
  <1>6. [x EXCEPT !.missed = TRUE].missed BY <1>1
  <1> QED BY <1>2, <1>3, <1>4, <1>5, <1>6 DEF Hands

\* The sessions' invariant at the start.
LEMMA SessionsBegin == SessionsInit => SessionsInv
  <1> SUFFICES ASSUME SessionsInit PROVE SessionsInv OBVIOUS
  <1>1. tokens = <<>> /\ Len(tokens) = 0 /\ tokens \in Seq(TokenRows) BY DEF SessionsInit
  <1>2. SignedOut \in Hands(0) BY HandsWiden
  <1>3. Shaped BY <1>1, <1>2 DEF SessionsInit, Shaped
  <1>4. FamiliesApart BY <1>1 DEF FamiliesApart
  <1>5. SessionsKept BY DEF SessionsInit, SessionsKept, SignedOut
  <1> QED BY <1>3, <1>4, <1>5 DEF SessionsInv

\* A row's fields after FamilyRevoked.
LEMMA RevokedRows ==
  ASSUME Shaped, NEW t \in 1 .. Len(tokens)
  PROVE  LET rows == FamilyRevoked(tokens, t)
         IN  /\ rows \in Seq(TokenRows) /\ Len(rows) = Len(tokens)
             /\ \A i \in 1 .. Len(tokens) :
                   /\ rows[i].family = tokens[i].family /\ rows[i].expired = tokens[i].expired
                   /\ rows[i].revoked = IF tokens[i].family = tokens[t].family THEN TRUE ELSE tokens[i].revoked
  <1> DEFINE rows == FamilyRevoked(tokens, t)
  <1>1. tokens \in Seq(TokenRows) /\ DOMAIN tokens = 1 .. Len(tokens) /\ Len(tokens) \in Nat BY DEF Shaped
  <1>2. \A i \in 1 .. Len(tokens) : tokens[i] \in TokenRows BY <1>1
  <1>3. rows = [i \in 1 .. Len(tokens) |->
                  IF tokens[i].family = tokens[t].family THEN [tokens[i] EXCEPT !.revoked = TRUE] ELSE tokens[i]]
    BY <1>1 DEF FamilyRevoked
  <1>4. ASSUME NEW i \in 1 .. Len(tokens)
        PROVE  /\ rows[i] \in TokenRows
               /\ rows[i].family = tokens[i].family /\ rows[i].expired = tokens[i].expired
               /\ rows[i].revoked = IF tokens[i].family = tokens[t].family THEN TRUE ELSE tokens[i].revoked
    <2>1. tokens[i] \in TokenRows BY <1>2
    <2>2. CASE tokens[i].family = tokens[t].family
      <3>1. rows[i] = [tokens[i] EXCEPT !.revoked = TRUE] BY <1>3, <2>2
      <3> HIDE DEF rows
      <3> QED BY <2>1, <2>2, <3>1 DEF TokenRows
    <2>3. CASE tokens[i].family # tokens[t].family
      <3>1. rows[i] = tokens[i] BY <1>3, <2>3
      <3> QED BY <2>1, <2>3, <3>1
    <2> QED BY <2>2, <2>3
  <1>5. rows \in Seq(TokenRows) /\ Len(rows) = Len(tokens)
    <2>1. rows \in [1 .. Len(tokens) -> TokenRows] BY <1>3, <1>4
    <2> HIDE DEF rows
    <2> QED BY <1>1, <2>1, SeqDef
  <1> QED BY <1>4, <1>5

\* A sign-in starts a family of its own.
LEMMA LoginKeeps ==
  ASSUME SessionsInv, NEW b \in Browsers, Login(b)
  PROVE  SessionsInv'
  <1> DEFINE n == Len(tokens) + 1
             row == [family |-> n, revoked |-> FALSE, expired |-> FALSE]
  <1>0. tokens \in Seq(TokenRows) /\ Len(tokens) \in Nat BY DEF SessionsInv, Shaped
  <1>1. tokens' = Append(tokens, row) /\ serving' = serving /\ ended' = ended BY DEF Login, Issued
  <1>2. row \in TokenRows BY <1>0 DEF TokenRows
  <1>3. /\ tokens' \in Seq(TokenRows) /\ Len(tokens') = n /\ tokens'[n] = row
        /\ \A t \in 1 .. Len(tokens) : tokens'[t] = tokens[t]
    BY <1>0, <1>1, <1>2, AppendProperties
  <1>4. /\ browser'[b] = [token |-> n, before |-> 0, missed |-> FALSE]
        /\ \A c \in Browsers : c # b => browser'[c] = browser[c]
        /\ DOMAIN browser' = Browsers
    BY DEF Login, SignedOut, SessionsInv, Shaped
  <1> HIDE DEF row
  <1>5. \A c \in Browsers : /\ browser[c] \in Hands(Len(tokens))
                             /\ browser[c].token \in 0 .. Len(tokens) /\ browser[c].before \in 0 .. Len(tokens)
    BY <1>0, HandsWiden DEF SessionsInv, Shaped
  <1>6. Shaped'
    <2>1. \A t \in 1 .. n : tokens'[t].family \in 1 .. n
      BY <1>0, <1>3 DEF SessionsInv, Shaped, row
    <2>2. \A c \in Browsers : browser'[c] \in Hands(n)
      <3>1. n \in 0 .. n /\ 0 \in 0 .. n BY <1>0
      <3>2. browser'[b] \in Hands(n) BY <1>4, <3>1, HandsMade
      <3>3. Hands(Len(tokens)) \subseteq Hands(n) BY <1>0, HandsWiden
      <3> QED BY <1>4, <1>5, <3>2, <3>3
    <2>3. browser' \in [Browsers -> Hands(n)]
      <3>1. browser' = [c \in Browsers |-> browser'[c]] BY <1>4 DEF Login, SessionsInv, Shaped
      <3> QED BY <2>2, <3>1
    <2>4. \A h \in Hosts : serving'[h] = NoRequest \/ serving'[h] \in [b : Browsers, t : 1 .. n]
      BY <1>0, <1>1 DEF SessionsInv, Shaped
    <2> QED BY <1>1, <1>3, <2>1, <2>3, <2>4 DEF SessionsInv, Shaped
  <1>7. FamiliesApart'
    <2>1. ASSUME NEW c \in Browsers, NEW t \in 1 .. n, Holds(c, t)'
          PROVE  (c = b /\ t = n) \/ (t \in 1 .. Len(tokens) /\ Holds(c, t))
      <3>1. ASSUME NEW h \in Hosts, serving[h] # NoRequest, serving[h].b = c, serving[h].t = t
            PROVE  t \in 1 .. Len(tokens) /\ Holds(c, t)
        BY <3>1 DEF SessionsInv, Shaped, Holds
      <3>2. CASE c = b
        BY <1>1, <1>4, <2>1, <3>1, <3>2 DEF Holds
      <3>3. CASE c # b
        BY <1>1, <1>4, <1>5, <2>1, <3>1, <3>3 DEF Holds
      <3> QED BY <3>2, <3>3
    <2>2. \A t \in 1 .. Len(tokens) : tokens'[t].family = tokens[t].family /\ tokens[t].family \in 1 .. Len(tokens)
      BY <1>3 DEF SessionsInv, Shaped
    <2>3. tokens'[n].family = n BY <1>3 DEF row
    <2>4. ASSUME NEW c \in Browsers, NEW d \in Browsers, NEW s \in 1 .. n, NEW t \in 1 .. n,
                 Holds(c, s)', Holds(d, t)', tokens'[s].family = tokens'[t].family
          PROVE  c = d
      <3>1. ((c = b /\ s = n) \/ (s \in 1 .. Len(tokens) /\ Holds(c, s)))
            /\ ((d = b /\ t = n) \/ (t \in 1 .. Len(tokens) /\ Holds(d, t)))
        BY <2>1, <2>4
      <3>2. CASE s = n /\ t = n
        BY <1>0, <3>1, <3>2
      <3>3. CASE s # n /\ t # n
        BY <2>2, <2>4, <3>1, <3>3 DEF SessionsInv, FamiliesApart
      <3> QED BY <1>0, <2>2, <2>3, <2>4, <3>1, <3>2, <3>3
    <2> QED BY <1>3, <2>4 DEF FamiliesApart
  <1>8. SessionsKept'
    <2> SUFFICES ASSUME NEW c \in Browsers, browser'[c].token # 0, ~browser'[c].missed,
                        tokens'[browser'[c].token].revoked, ~tokens'[browser'[c].token].expired
                 PROVE  tokens'[browser'[c].token].family \in ended'
      BY DEF SessionsKept
    <2>1. c # b BY <1>3, <1>4 DEF row
    <2>2. browser'[c] = browser[c] /\ browser[c].token \in 1 .. Len(tokens) BY <1>4, <1>5, <2>1
    <2> QED BY <1>1, <1>3, <2>2 DEF SessionsInv, SessionsKept
  <1> QED BY <1>6, <1>7, <1>8 DEF SessionsInv

\* A step after which no browser holds more than before, and rows keep their family.
LEMMA ApartKept ==
  ASSUME SessionsInv, Len(tokens') = Len(tokens),
         \A t \in 1 .. Len(tokens) : tokens'[t].family = tokens[t].family,
         \A c \in Browsers, t \in 1 .. Len(tokens) : Holds(c, t)' => Holds(c, t)
  PROVE  FamiliesApart'
  <1> SUFFICES ASSUME NEW c \in Browsers, NEW d \in Browsers, NEW s \in 1 .. Len(tokens), NEW t \in 1 .. Len(tokens),
                      Holds(c, s)', Holds(d, t)', tokens'[s].family = tokens'[t].family
               PROVE  c = d
    BY DEF FamiliesApart
  <1>1. Holds(c, s) /\ Holds(d, t) /\ tokens[s].family = tokens[t].family OBVIOUS
  <1> QED BY <1>1 DEF SessionsInv, FamiliesApart

\* A logout, like a reuse, ends the family of what it was presented.
LEMMA EndedKeeps ==
  ASSUME SessionsInv, NEW t \in 1 .. Len(tokens), tokens' = FamilyRevoked(tokens, t),
         ended' = ended \cup {tokens[t].family}, serving' = serving,
         DOMAIN browser' = Browsers, browser' = [c \in Browsers |-> browser'[c]],
         \A c \in Browsers : browser'[c] \in {browser[c], SignedOut}
  PROVE  SessionsInv'
  <1>1. /\ tokens' \in Seq(TokenRows) /\ Len(tokens') = Len(tokens)
        /\ \A i \in 1 .. Len(tokens) :
              /\ tokens'[i].family = tokens[i].family /\ tokens'[i].expired = tokens[i].expired
              /\ tokens'[i].revoked = IF tokens[i].family = tokens[t].family THEN TRUE ELSE tokens[i].revoked
    BY RevokedRows DEF SessionsInv
  <1>2. Len(tokens) \in Nat BY DEF SessionsInv, Shaped
  <1>3. \A c \in Browsers : /\ browser[c] \in Hands(Len(tokens))
                             /\ browser'[c] \in Hands(Len(tokens))
                             /\ browser[c].token \in 0 .. Len(tokens)
    BY <1>2, HandsWiden DEF SessionsInv, Shaped
  <1>10. ASSUME NEW i \in 1 .. Len(tokens), tokens[i].family # tokens[t].family
         PROVE  tokens'[i].family = tokens[i].family /\ tokens'[i].expired = tokens[i].expired
                /\ tokens'[i].revoked = tokens[i].revoked
    BY <1>1, <1>10
  <1>4. Shaped'
    <2>1. browser' \in [Browsers -> Hands(Len(tokens))]
      BY <1>3
    <2> QED BY <1>1, <2>1 DEF SessionsInv, Shaped
  <1>5. FamiliesApart'
    <2>1. ASSUME NEW c \in Browsers, NEW u \in 1 .. Len(tokens), Holds(c, u)' PROVE Holds(c, u)
      <3>1. browser'[c] = browser[c] \/ (browser'[c].token = 0 /\ browser'[c].before = 0) BY DEF SignedOut
      <3> QED BY <2>1, <3>1 DEF Holds
    <2> QED BY <1>1, <2>1, ApartKept
  <1>6. SessionsKept'
    <2> SUFFICES ASSUME NEW c \in Browsers, browser'[c].token # 0, ~browser'[c].missed,
                        tokens'[browser'[c].token].revoked, ~tokens'[browser'[c].token].expired
                 PROVE  tokens'[browser'[c].token].family \in ended'
      BY DEF SessionsKept
    <2>1. browser'[c] = browser[c] BY DEF SignedOut
    <2>2. browser[c].token \in 1 .. Len(tokens) BY <1>2, <1>3, <2>1
    <2>3. CASE tokens[browser[c].token].family = tokens[t].family
      <3>1. PICK u \in 1 .. Len(tokens) : u = browser[c].token BY <2>2
      <3>2. tokens'[u].family = tokens[t].family BY <1>1, <2>3, <3>1
      <3> QED BY <1>1, <2>1, <3>1, <3>2
    <2>4. CASE tokens[browser[c].token].family # tokens[t].family
      <3>1. PICK u \in 1 .. Len(tokens) : u = browser[c].token BY <2>2
      <3>2. /\ tokens'[u].family = tokens[u].family /\ tokens'[u].expired = tokens[u].expired
            /\ tokens'[u].revoked = tokens[u].revoked
        BY <1>10, <2>4, <3>1
      <3>3. tokens[u].family \in ended BY <2>1, <3>1, <3>2 DEF SessionsInv, SessionsKept
      <3> QED BY <2>1, <3>1, <3>2, <3>3
    <2> QED BY <2>3, <2>4
  <1> QED BY <1>4, <1>5, <1>6 DEF SessionsInv

\* The sessions' invariant when a browser logs out.
LEMMA LogoutKeeps ==
  ASSUME SessionsInv, NEW b \in Browsers, Logout(b)
  PROVE  SessionsInv'
  <1>1. Len(tokens) \in Nat /\ browser[b] \in Hands(Len(tokens)) BY DEF SessionsInv, Shaped
  <1>2. browser[b].token \in 1 .. Len(tokens) BY <1>1, HandsWiden DEF Logout
  <1>3. /\ browser' = [c \in Browsers |-> browser'[c]] /\ DOMAIN browser' = Browsers
        /\ \A c \in Browsers : browser'[c] \in {browser[c], SignedOut}
    BY DEF Logout, SessionsInv, Shaped
  <1> QED BY <1>2, <1>3, EndedKeeps DEF Logout

\* The refresh that was loaded is of a token its browser holds.
LEMMA ServingKeeps ==
  ASSUME SessionsInv, NEW h \in Hosts, NEW b \in Browsers, NEW t \in 1 .. Len(tokens), Holds(b, t),
         serving' = [serving EXCEPT ![h] = [b |-> b, t |-> t]], UNCHANGED <<tokens, browser, ended>>
  PROVE  SessionsInv'
  <1>1. Shaped' BY DEF SessionsInv, Shaped
  <1>2. ASSUME NEW c \in Browsers, NEW u \in 1 .. Len(tokens), Holds(c, u)' PROVE Holds(c, u)
    <2>1. CASE u = browser[c].token \/ u = browser[c].before BY <2>1 DEF Holds
    <2>2. ASSUME NEW g \in Hosts, serving'[g] # NoRequest, serving'[g].b = c, serving'[g].t = u PROVE Holds(c, u)
      <3>1. CASE g = h BY <2>2, <3>1 DEF SessionsInv, Shaped
      <3>2. CASE g # h BY <2>2, <3>2 DEF Holds, SessionsInv, Shaped
      <3> QED BY <3>1, <3>2
    <2> QED BY <1>2, <2>1, <2>2 DEF Holds
  <1>3. FamiliesApart' BY <1>2, ApartKept
  <1>4. SessionsKept' BY DEF SessionsInv, SessionsKept
  <1> QED BY <1>1, <1>3, <1>4 DEF SessionsInv

\* The sessions' invariant when a token expires.
LEMMA ExpiryKeeps ==
  ASSUME SessionsInv, NEW t \in 1 .. Len(tokens), UNCHANGED <<browser, serving, ended>>,
         tokens' = [tokens EXCEPT ![t].revoked = TRUE, ![t].expired = TRUE]
  PROVE  SessionsInv'
  <1>1. tokens \in [1 .. Len(tokens) -> TokenRows] /\ Len(tokens) \in Nat BY DEF SessionsInv, Shaped
  <1>2. tokens[t] \in TokenRows BY <1>1
  <1> DEFINE row == [tokens[t] EXCEPT !.revoked = TRUE, !.expired = TRUE]
  <1>3. row \in TokenRows /\ row.family = tokens[t].family /\ row.expired = TRUE BY <1>2 DEF TokenRows
  <1>4. tokens' = [tokens EXCEPT ![t] = row] BY <1>1
  <1> HIDE DEF row
  <1>5. /\ tokens' \in [1 .. Len(tokens) -> TokenRows] /\ tokens'[t] = row
        /\ \A i \in 1 .. Len(tokens) : i # t => tokens'[i] = tokens[i]
    BY <1>1, <1>3, <1>4
  <1>6. tokens' \in Seq(TokenRows) /\ Len(tokens') = Len(tokens)
    <2>1. tokens' \in Seq(TokenRows)
      <3>1. tokens' \in [1 .. Len(tokens) -> TokenRows] BY <1>5
      <3>2. Len(tokens) \in Nat BY <1>1
      <3> QED BY ONLY <3>1, <3>2, SeqDef
    <2>2. DOMAIN tokens' = 1 .. Len(tokens) BY <1>5
    <2> QED BY <1>1, <2>1, <2>2, LenProperties
  <1>7. \A i \in 1 .. Len(tokens) : tokens'[i].family = tokens[i].family BY <1>3, <1>5
  <1>8. Shaped' BY <1>6, <1>7 DEF SessionsInv, Shaped
  <1>9. FamiliesApart'
    <2>1. \A c \in Browsers, u \in 1 .. Len(tokens) : Holds(c, u)' => Holds(c, u) BY DEF Holds
    <2> QED BY <1>6, <1>7, <2>1, ApartKept
  <1>10. SessionsKept'
    <2>0. browser' = browser /\ ended' = ended OBVIOUS
    <2> SUFFICES ASSUME NEW c \in Browsers, browser[c].token # 0, ~browser[c].missed,
                        tokens'[browser[c].token].revoked, ~tokens'[browser[c].token].expired
                 PROVE  tokens'[browser[c].token].family \in ended
      BY <2>0 DEF SessionsKept
    <2>1. browser[c].token \in 1 .. Len(tokens)
      BY <1>1, HandsWiden DEF SessionsInv, Shaped
    <2>2. browser[c].token # t BY <1>3, <1>5
    <2> QED BY <1>5, <2>1, <2>2 DEF SessionsInv, SessionsKept
  <1> QED BY <1>8, <1>9, <1>10 DEF SessionsInv

\* The sessions' invariant when a refresh reads its token.
LEMMA LoadKeeps ==
  ASSUME SessionsInv, NEW h \in Hosts, NEW b \in Browsers, RefreshLoad(h, b)
  PROVE  SessionsInv'
  <1>1. Len(tokens) \in Nat /\ browser[b] \in Hands(Len(tokens)) BY DEF SessionsInv, Shaped
  <1>2. browser' = browser /\ DOMAIN browser = Browsers /\ browser = [c \in Browsers |-> browser[c]]
    BY DEF RefreshLoad, SessionsInv, Shaped
  <1>3. PICK t \in {browser[b].token, browser[b].before} \ {0} :
          \/ serving' = [serving EXCEPT ![h] = [b |-> b, t |-> t]] /\ UNCHANGED <<tokens, ended>>
          \/ tokens' = FamilyRevoked(tokens, t) /\ ended' = ended \cup {tokens[t].family} /\ UNCHANGED serving
          \/ tokens' = [tokens EXCEPT ![t].revoked = TRUE, ![t].expired = TRUE] /\ UNCHANGED <<serving, ended>>
    BY DEF RefreshLoad
  <1>4. t \in 1 .. Len(tokens) /\ Holds(b, t) BY <1>1, HandsWiden DEF Holds
  <1>5. CASE serving' = [serving EXCEPT ![h] = [b |-> b, t |-> t]] /\ UNCHANGED <<tokens, ended>>
    BY <1>2, <1>4, <1>5, ServingKeeps
  <1>6. CASE tokens' = FamilyRevoked(tokens, t) /\ ended' = ended \cup {tokens[t].family} /\ UNCHANGED serving
    BY <1>2, <1>4, <1>6, EndedKeeps
  <1>7. CASE tokens' = [tokens EXCEPT ![t].revoked = TRUE, ![t].expired = TRUE] /\ UNCHANGED <<serving, ended>>
    BY <1>2, <1>4, <1>7, ExpiryKeeps
  <1> QED BY <1>3, <1>5, <1>6, <1>7

\* The sessions' invariant when a refresh dies.
LEMMA DiesKeeps ==
  ASSUME SessionsInv, NEW h \in Hosts, RefreshDies(h)
  PROVE  SessionsInv'
  <1>1. Shaped' BY DEF SessionsInv, Shaped, RefreshDies
  <1>2. \A c \in Browsers, u \in 1 .. Len(tokens) : Holds(c, u)' => Holds(c, u)
    BY DEF Holds, RefreshDies, SessionsInv, Shaped
  <1>3. FamiliesApart' BY <1>2, ApartKept DEF RefreshDies
  <1>4. SessionsKept' BY DEF SessionsInv, SessionsKept, RefreshDies
  <1> QED BY <1>1, <1>3, <1>4 DEF SessionsInv

\* The successor is of a family its browser alone holds, so what is revoked with it is no
\* other browser's token.
LEMMA CommitKeeps ==
  ASSUME SessionsInv, NEW h \in Hosts, RefreshCommit(h)
  PROVE  SessionsInv'
  <1> DEFINE n == Len(tokens)
             b == serving[h].b
             t == serving[h].t
             new == [family |-> tokens[t].family, revoked |-> FALSE, expired |-> FALSE]
             longer == Append(tokens, new)
             row == [longer[t] EXCEPT !.revoked = TRUE]
  <1>1. /\ n \in Nat /\ tokens \in Seq(TokenRows) /\ b \in Browsers /\ t \in 1 .. n
        /\ serving[h] # NoRequest /\ tokens[t].family \in 1 .. n
        /\ \A i \in 1 .. n : tokens[i] \in TokenRows
    BY DEF RefreshCommit, SessionsInv, Shaped
  <1>2. new \in TokenRows BY <1>1 DEF TokenRows
  <1>3. /\ longer \in Seq(TokenRows) /\ Len(longer) = n + 1 /\ longer[n + 1] = new
        /\ \A i \in 1 .. n : longer[i] = tokens[i]
    BY <1>1, <1>2, AppendProperties
  <1>4. tokens' = [longer EXCEPT ![t].revoked = TRUE] BY DEF RefreshCommit, Issued
  <1>5. longer[t] \in TokenRows /\ longer[t].family = tokens[t].family BY <1>1, <1>3
  <1> HIDE DEF longer
  <1>6. row \in TokenRows /\ row.family = tokens[t].family BY <1>5 DEF TokenRows
  <1>7. longer \in [1 .. n + 1 -> TokenRows] BY <1>1, <1>3
  <1>8. tokens' = [longer EXCEPT ![t] = row] BY <1>4, <1>7
  <1> HIDE DEF row
  <1>9. tokens' \in [1 .. n + 1 -> TokenRows] /\ tokens'[t] = row /\ tokens'[n + 1] = new
        /\ \A i \in 1 .. n : i # t => tokens'[i] = tokens[i]
    BY <1>1, <1>3, <1>6, <1>7, <1>8
  <1>10. tokens' \in Seq(TokenRows) /\ Len(tokens') = n + 1 BY <1>1, <1>9, SeqDef
  <1>11. new.family = tokens[t].family /\ new.revoked = FALSE OBVIOUS
  <1> HIDE DEF new
  <1>12. \A i \in 1 .. n : tokens'[i].family = tokens[i].family BY <1>6, <1>9
  <1>13. tokens'[n + 1].family = tokens[t].family BY <1>9, <1>11
  <1>14. /\ DOMAIN browser' = Browsers /\ browser' = [c \in Browsers |-> browser'[c]]
         /\ \A c \in Browsers : c # b => browser'[c] = browser[c]
         /\ browser'[b] \in Hands(n + 1)
         /\ \/ browser'[b].token = n + 1 /\ browser'[b].before = t
            \/ browser'[b].token = browser[b].token /\ browser'[b].before = browser[b].before /\ browser'[b].missed
    <2>1. browser \in [Browsers -> Hands(n)] /\ browser[b] \in Hands(n) BY <1>1 DEF SessionsInv, Shaped
    <2>2. \/ browser' = [browser EXCEPT ![b] = [browser[b] EXCEPT !.token = n + 1, !.before = t]]
          \/ browser' = [browser EXCEPT ![b] = [browser[b] EXCEPT !.missed = TRUE]]
      BY DEF RefreshCommit
    <2>3. browser[b] \in Hands(n + 1) BY <1>1, <2>1, HandsWiden
    <2>4. n + 1 \in 0 .. n + 1 /\ t \in 0 .. n + 1 /\ n + 1 \in Nat BY <1>1
    <2> DEFINE next == [browser[b] EXCEPT !.token = n + 1, !.before = t]
               lost == [browser[b] EXCEPT !.missed = TRUE]
    <2>5. /\ next \in Hands(n + 1) /\ next.token = n + 1 /\ next.before = t
          /\ lost \in Hands(n + 1) /\ lost.token = browser[b].token /\ lost.before = browser[b].before /\ lost.missed
      BY <2>3, <2>4, HandEdits
    <2>6. browser' = [browser EXCEPT ![b] = next] \/ browser' = [browser EXCEPT ![b] = lost] BY <2>2
    <2> HIDE DEF next, lost
    <2> QED BY <1>1, <2>1, <2>5, <2>6
  <1>15. /\ serving' = [serving EXCEPT ![h] = NoRequest] /\ ended' = ended BY DEF RefreshCommit
  <1>16. \A c \in Browsers : /\ browser[c] \in Hands(n) /\ browser[c].token \in 0 .. n
                              /\ browser[c].before \in 0 .. n /\ browser[c].missed \in BOOLEAN
    BY <1>1, HandsWiden DEF SessionsInv, Shaped
  <1>17. Shaped'
    <2>1. \A i \in 1 .. n + 1 : tokens'[i].family \in 1 .. n + 1
      BY <1>1, <1>12, <1>13 DEF SessionsInv, Shaped
    <2>3. Hands(n) \subseteq Hands(n + 1) BY <1>1, HandsWiden
    <2>4. browser' \in [Browsers -> Hands(n + 1)] BY <1>14, <1>16, <2>3
    <2>5. \A g \in Hosts : serving'[g] = NoRequest \/ serving'[g] \in [b : Browsers, t : 1 .. n + 1]
      BY <1>1, <1>15 DEF SessionsInv, Shaped
    <2> QED BY <1>10, <1>15, <2>1, <2>4, <2>5 DEF SessionsInv, Shaped
  <1>18. Holds(b, t) BY <1>1 DEF Holds
  <1>19. FamiliesApart'
    <2>1. ASSUME NEW c \in Browsers, NEW u \in 1 .. n + 1, Holds(c, u)'
          PROVE  (c = b /\ u = n + 1) \/ (u \in 1 .. n /\ Holds(c, u))
      <3>1. ASSUME NEW g \in Hosts, serving'[g] # NoRequest, serving'[g].b = c, serving'[g].t = u
            PROVE  u \in 1 .. n /\ Holds(c, u)
        BY <1>15, <3>1 DEF SessionsInv, Shaped, Holds
      <3>2. CASE c # b /\ (u = browser'[c].token \/ u = browser'[c].before)
        BY <1>1, <1>14, <1>16, <3>2 DEF Holds
      <3>3. CASE c = b /\ (u = browser'[c].token \/ u = browser'[c].before)
        BY <1>1, <1>14, <1>16, <1>18, <3>3 DEF Holds
      <3> QED BY <2>1, <3>1, <3>2, <3>3 DEF Holds
    <2>2. ASSUME NEW c \in Browsers, NEW d \in Browsers, NEW s \in 1 .. n + 1, NEW u \in 1 .. n + 1,
                 Holds(c, s)', Holds(d, u)', tokens'[s].family = tokens'[u].family
          PROVE  c = d
      <3>1. ((c = b /\ s = n + 1) \/ (s \in 1 .. n /\ Holds(c, s)))
            /\ ((d = b /\ u = n + 1) \/ (u \in 1 .. n /\ Holds(d, u)))
        BY <2>1, <2>2
      <3>2. CASE c = b /\ s = n + 1 /\ d = b /\ u = n + 1 BY <3>2
      <3>3. CASE c = b /\ s = n + 1 /\ u \in 1 .. n /\ Holds(d, u)
        BY <1>1, <1>12, <1>13, <1>18, <2>2, <3>3 DEF SessionsInv, FamiliesApart
      <3>4. CASE s \in 1 .. n /\ Holds(c, s) /\ d = b /\ u = n + 1
        BY <1>1, <1>12, <1>13, <1>18, <2>2, <3>4 DEF SessionsInv, FamiliesApart
      <3>5. CASE s \in 1 .. n /\ Holds(c, s) /\ u \in 1 .. n /\ Holds(d, u)
        BY <1>12, <2>2, <3>5 DEF SessionsInv, FamiliesApart
      <3> QED BY <3>1, <3>2, <3>3, <3>4, <3>5
    <2> QED BY <1>10, <2>2 DEF FamiliesApart
  <1>20. SessionsKept'
    <2> SUFFICES ASSUME NEW c \in Browsers, browser'[c].token # 0, ~browser'[c].missed,
                        tokens'[browser'[c].token].revoked, ~tokens'[browser'[c].token].expired
                 PROVE  tokens'[browser'[c].token].family \in ended'
      BY DEF SessionsKept
    <2>1. c # b BY <1>9, <1>11, <1>14
    <2>2. browser'[c] = browser[c] /\ browser[c].token \in 1 .. n BY <1>1, <1>14, <1>16, <2>1
    <2>3. browser[c].token # t
      BY <1>1, <1>18, <2>1, <2>2 DEF SessionsInv, FamiliesApart, Holds
    <2> QED BY <1>9, <1>15, <2>2, <2>3 DEF SessionsInv, SessionsKept
  <1> QED BY <1>17, <1>19, <1>20 DEF SessionsInv

\* The sessions' invariant in every step.
LEMMA SessionsStep == SessionsInv /\ [SessionsNext]_sessionVars => SessionsInv'
  <1> SUFFICES ASSUME SessionsInv, [SessionsNext]_sessionVars PROVE SessionsInv' OBVIOUS
  <1>1. CASE \E b \in Browsers : Login(b) \/ Logout(b) BY <1>1, LoginKeeps, LogoutKeeps
  <1>2. CASE \E h \in Hosts, b \in Browsers : RefreshLoad(h, b) BY <1>2, LoadKeeps
  <1>3. CASE \E h \in Hosts : RefreshCommit(h) \/ RefreshDies(h) BY <1>3, CommitKeeps, DiesKeeps
  <1>4. CASE UNCHANGED <<tokens, browser, serving, ended>>
    <2>1. Shaped' BY <1>4 DEF SessionsInv, Shaped
    <2>2. FamiliesApart' BY <1>4, ApartKept DEF Holds
    <2>3. SessionsKept' BY <1>4 DEF SessionsInv, SessionsKept
    <2> QED BY <2>1, <2>2, <2>3 DEF SessionsInv
  <1> QED BY <1>1, <1>2, <1>3, <1>4 DEF SessionsNext, AccountToggles, sessionVars

-----------------------------------------------------------------------------
\* What outlives Redis is the table: a token that logged out is in it.
SignOffInv == SignOffTypeOK /\ \A a \in Access : access[a] = "left" => a \in denied.table

\* The sign-off's invariant at the start.
LEMMA SignOffBegin == SignOffInit => SignOffInv
  BY SignOffAssumption DEF SignOffInit, SignOffInv, SignOffTypeOK, NoSignOn

\* The sign-off's invariant in every step.
LEMMA SignOffStep == SignOffInv /\ [SignOffNext]_signOffVars => SignOffInv'
  <1> SUFFICES ASSUME SignOffInv, [SignOffNext]_signOffVars PROVE SignOffInv' OBVIOUS
  <1> USE SignOffAssumption DEF SignOffInv, SignOffTypeOK
  <1>1. ASSUME NEW a \in Access, LogoutAccess(a) PROVE SignOffInv' BY <1>1 DEF LogoutAccess, Denied
  <1>2. ASSUME NEW a \in Access, AccessExpires(a) PROVE SignOffInv' BY <1>2 DEF AccessExpires
  <1>3. ASSUME NEW a \in Access, UseAccess(a) PROVE SignOffInv' BY <1>3 DEF UseAccess
  <1>4. ASSUME NEW h \in Processes, OidcLogin(h) PROVE SignOffInv' BY <1>4 DEF OidcLogin, PendingKept
  <1>5. ASSUME NEW h \in Processes, OidcCallback(h) PROVE SignOffInv'
    BY <1>5 DEF OidcCallback, PendingKept, NoSignOn
  <1>6. ASSUME NEW h \in Processes, OidcExchange(h) PROVE SignOffInv' BY <1>6 DEF OidcExchange, NoSignOn
  <1>7. CASE RedisToggles BY <1>7 DEF RedisToggles, NoSignOn
  <1>8. CASE UNCHANGED signOffVars BY <1>8 DEF signOffVars
  <1> QED BY <1>1, <1>2, <1>3, <1>4, <1>5, <1>6, <1>7, <1>8 DEF SignOffNext

-----------------------------------------------------------------------------
\* The invariant of being signed in holds in every reachable state (token_store.py, auth.py).
THEOREM SignInCorrect == SignInSpec => [](SessionsInv /\ SignOffInv)
  <1>1. SignInInit => SessionsInv /\ SignOffInv BY SessionsBegin, SignOffBegin DEF SignInInit
  <1>2. SessionsInv /\ SignOffInv /\ [SignInNext]_<<sessionVars, signOffVars>> => (SessionsInv /\ SignOffInv)'
    BY SessionsStep, SignOffStep DEF SignInNext
  <1> QED BY <1>1, <1>2, PTL DEF SignInSpec

\* Who received every answer stays signed in until the family is ended, and who signed out
\* is refused, whatever Redis does (rotate_refresh_token, revoke_jti, is_jti_revoked).
THEOREM AccessKeptAlways == SignInSpec => []AccessKept
  <1>1. SessionsInv /\ SignOffInv => AccessKept
    BY DEF SessionsInv, SignOffInv, AccessKept, LogoutHolds, TokenRefused
  <1> QED BY <1>1, SignInCorrect, PTL

-----------------------------------------------------------------------------
(***************************************************************************)
(* How people are kept up to date: the turns of a chat (ChatTurns) and the *)
(* reminders and expiries that nobody asks for (Sweeps).                   *)
(***************************************************************************)

\* A nonempty set of numbers up to a bound has a largest one.
LEMMA LastExists ==
  ASSUME NEW b \in Nat, NEW S \in SUBSET (1 .. b), S # {}
  PROVE  \E m \in S : \A k \in S : k <= m
  <1> DEFINE T == {b - k : k \in S}
  <1>1. T \in SUBSET Nat /\ T # {}
    <2>1. \A k \in S : k \in 1 .. b /\ b - k \in Nat OBVIOUS
    <2> QED BY <2>1
  <1>2. PICK n \in T : \A k \in T : n <= k
    <2> HIDE DEF T
    <2> QED BY <1>1, LeastExists
  <1>3. PICK m \in S : n = b - m BY <1>2
  <1>4. ASSUME NEW k \in S PROVE k <= m
    <2>1. k \in 1 .. b /\ m \in 1 .. b /\ b - k \in T OBVIOUS
    <2>2. n <= b - k BY <1>2, <2>1
    <2> QED BY <1>3, <2>1, <2>2
  <1> QED BY <1>4


-----------------------------------------------------------------------------
Versions == ActiveVersions \cup {NoVersion}
Memories == [version : Versions, used : Nat]
TurnRows == [open : BOOLEAN, memory : Memories, attached : BOOLEAN, remembered : Versions, from : Nat]
LogRows  == [from : Nat, at : Nat, ended : BOOLEAN, remembered : Versions]

ChatShaped ==
    /\ stored \in Memories /\ live \in BOOLEAN
    /\ turn \in [Turns -> TurnRows]
    /\ log \in Seq(LogRows)

\* The bounds the type invariant names: turns that were open together are
\* counted, and a message costs one token at the end of its turn.
Counted ==
    /\ IsFiniteSet(OpenTurns) /\ Len(log) + Cardinality(OpenTurns) <= MaxTurns
    /\ stored.used <= Len(log)
    /\ \A t \in Turns : turn[t].from <= Len(log) /\ turn[t].memory.used <= turn[t].from
    /\ \A i \in 1 .. Len(log) : log[i].from <= Len(log) /\ log[i].at \in 1 .. Len(log)

\* OneAtATime, without counting.
Apart ==
    /\ \A i \in 1 .. Len(log) : log[i].from = i - 1
    /\ \A t \in OpenTurns : turn[t].from = Len(log)
    /\ \A s, t \in OpenTurns : s = t

\* The version the last turn that remembered one left, if it reached its end.
OwedVersion ==
    \A i \in 1 .. Len(log) :
        /\ log[i].remembered # NoVersion /\ log[i].ended
        /\ \A j \in 1 .. Len(log) : j > i => log[j].remembered = NoVersion
        => stored.version = log[i].remembered

\* What an open turn will write: what it found, or what it remembered since, and
\* then its dictionary is no longer the column's.
InHand ==
    \A t \in OpenTurns :
        IF turn[t].remembered = NoVersion THEN turn[t].memory.version = stored.version
        ELSE turn[t].memory.version = turn[t].remembered /\ ~turn[t].attached

Untold == \A t \in OpenTurns : turn[t].remembered = NoVersion

ChatInv == ChatShaped /\ Counted /\ (Apart => InHand /\ (Untold => OwedVersion))

\* The shapes of the log and of the turns.
LEMMA ChatFacts ==
  ASSUME ChatShaped
  PROVE  /\ DOMAIN log = 1 .. Len(log) /\ Len(log) \in Nat
         /\ \A i \in 1 .. Len(log) : log[i] \in LogRows
         /\ \A t \in Turns : turn[t] \in TurnRows
  BY LenProperties, ElementOfSeq DEF ChatShaped

\* At most one element means that any two are the same.
LEMMA AtMostOne ==
  ASSUME NEW S, IsFiniteSet(S)
  PROVE  Cardinality(S) <= 1 <=> \A s, t \in S : s = t
  <1>1. Cardinality(S) \in Nat BY FS_CardinalityType
  <1>2. ASSUME Cardinality(S) <= 1, NEW s \in S, NEW t \in S, s # t PROVE FALSE
    <2>1. IsFiniteSet({s}) /\ Cardinality({s}) = 1 BY FS_Singleton
    <2>2. Cardinality({s} \cup {t}) = 2 BY <1>2, <2>1, FS_AddElement
    <2>3. Cardinality({s} \cup {t}) <= Cardinality(S) BY FS_Subset
    <2> QED BY <1>1, <1>2, <2>2, <2>3
  <1>3. ASSUME \A s, t \in S : s = t PROVE Cardinality(S) <= 1
    <2>1. CASE S = {} BY <2>1, FS_EmptySet
    <2>2. CASE S # {}
      <3>1. PICK s \in S : TRUE BY <2>2
      <3>2. S = {s} BY <1>3, <3>1
      <3> QED BY <3>2, FS_Singleton
    <2> QED BY <2>1, <2>2
  <1> QED BY <1>2, <1>3

\* Turns are apart as long as one is in hand at a time.
LEMMA ApartCounted == ASSUME ChatShaped, Counted PROVE Apart <=> OneAtATime
  <1>1. IsFiniteSet(OpenTurns) BY DEF Counted
  <1>2. Cardinality(OpenTurns) <= 1 <=> \A s, t \in OpenTurns : s = t BY <1>1, AtMostOne
  <1> QED BY <1>2, ChatFacts DEF Apart, OneAtATime

\* The log is only ever added to, one row at a time.
LEMMA LogAdded ==
  ASSUME ChatShaped, NEW r \in LogRows, log' = Append(log, r)
  PROVE  /\ log' \in Seq(LogRows) /\ Len(log') = Len(log) + 1 /\ log'[Len(log) + 1] = r
         /\ \A i \in 1 .. Len(log) : log'[i] = log[i]
         /\ \A i \in 1 .. Len(log') : i \in 1 .. Len(log) \/ i = Len(log) + 1
         /\ \A i \in 1 .. Len(log) : i \in 1 .. Len(log')
  <1>1. log \in Seq(LogRows) /\ Len(log) \in Nat BY ChatFacts DEF ChatShaped
  <1>2. /\ log' \in Seq(LogRows) /\ Len(log') = Len(log) + 1 /\ log'[Len(log) + 1] = r
        /\ \A i \in 1 .. Len(log) : log'[i] = log[i]
    BY <1>1, AppendProperties
  <1> QED BY <1>1, <1>2

\* A step that leaves the log and the open turns as they are.
LEMMA OpenSame ==
  ASSUME ChatInv, UNCHANGED log, turn' \in [Turns -> TurnRows], stored' \in Memories, live' \in BOOLEAN,
         stored'.used <= Len(log),
         \A t \in Turns : /\ turn'[t].open = turn[t].open /\ turn'[t].from = turn[t].from
                          /\ turn'[t].memory.used = turn[t].memory.used
  PROVE  ChatShaped' /\ Counted' /\ OpenTurns' = OpenTurns /\ (Apart' <=> Apart)
  <1>1. OpenTurns' = OpenTurns BY DEF OpenTurns
  <1>2. ChatShaped' BY DEF ChatInv, ChatShaped
  <1>3. Counted' BY <1>1 DEF ChatInv, Counted
  <1>4. Apart' <=> Apart
    <2>1. \A t \in OpenTurns : turn'[t].from = turn[t].from BY DEF OpenTurns
    <2> QED BY <1>1, <2>1 DEF Apart
  <1> QED BY <1>1, <1>2, <1>3, <1>4

\* The invariant when a skill of a turn commits.
LEMMA SkillCommitsKeeps ==
  ASSUME ChatInv, NEW t \in Turns, SkillCommits(t)
  PROVE  ChatInv'
  <1>0. ChatShaped /\ turn[t] \in TurnRows BY ChatFacts DEF ChatInv
  <1>1. PICK r : r = [turn[t] EXCEPT !.attached = FALSE] OBVIOUS
  <1>2. /\ r \in TurnRows /\ r.open = turn[t].open /\ r.memory = turn[t].memory
        /\ r.remembered = turn[t].remembered /\ r.from = turn[t].from /\ r.attached = FALSE
    BY <1>0, <1>1, Zenon DEF TurnRows
  <1>3. turn' = [turn EXCEPT ![t] = r] BY <1>1 DEF SkillCommits
  <1>4. turn' \in [Turns -> TurnRows] /\ \A s \in Turns : turn'[s] = IF s = t THEN r ELSE turn[s]
    BY <1>0, <1>2, <1>3 DEF ChatShaped
  <1>5. \A s \in Turns : /\ turn'[s].open = turn[s].open /\ turn'[s].from = turn[s].from
                         /\ turn'[s].memory = turn[s].memory /\ turn'[s].remembered = turn[s].remembered
    BY <1>2, <1>4
  <1>6. UNCHANGED <<stored, live, log>> BY DEF SkillCommits
  <1>7. ChatShaped' /\ Counted' /\ OpenTurns' = OpenTurns /\ (Apart' <=> Apart)
    <2>1. \A s \in Turns : turn'[s].memory.used = turn[s].memory.used BY <1>5
    <2>2. stored' \in Memories /\ live' \in BOOLEAN /\ stored'.used <= Len(log)
      BY <1>0, <1>6 DEF ChatInv, ChatShaped, Counted
    <2> QED BY <1>4, <1>5, <1>6, <2>1, <2>2, OpenSame
  <1>8. ASSUME NEW s \in Turns, ~turn[s].attached PROVE ~turn'[s].attached
    <2>1. CASE s = t
      <3>1. turn'[s].attached = FALSE BY <1>2, <1>4, <2>1
      <3> QED BY <3>1
    <2>2. CASE s # t BY <1>4, <1>8, <2>2
    <2> QED BY <2>1, <2>2
  <1>9. InHand => InHand' BY <1>5, <1>6, <1>7, <1>8 DEF InHand, OpenTurns
  <1>10. (Untold' => Untold) /\ (OwedVersion => OwedVersion') BY <1>5, <1>6, <1>7 DEF Untold, OwedVersion, OpenTurns
  <1> QED BY <1>7, <1>9, <1>10 DEF ChatInv

\* The invariant when a turn remembers its version.
LEMMA RememberKeeps ==
  ASSUME ChatInv, NEW t \in Turns, NEW v \in ActiveVersions, Remember(t, v)
  PROVE  ChatInv'
  <1>0. ChatShaped /\ turn[t] \in TurnRows /\ v \in Versions /\ v # NoVersion
    BY ChatFacts, ChatAssumption DEF ChatInv, Versions
  <1>1. PICK memory : memory = [turn[t].memory EXCEPT !.version = v] OBVIOUS
  <1>2. memory \in Memories /\ memory.version = v /\ memory.used = turn[t].memory.used
    BY <1>0, <1>1 DEF TurnRows, Memories
  <1>3. PICK r : r = [turn[t] EXCEPT !.memory = memory, !.attached = FALSE, !.remembered = v] OBVIOUS
  <1>4. /\ r \in TurnRows /\ r.open = turn[t].open /\ r.memory = memory
        /\ r.remembered = v /\ r.from = turn[t].from /\ r.attached = FALSE
    BY <1>0, <1>2, <1>3, Zenon DEF TurnRows
  <1>5. turn' = [turn EXCEPT ![t] = r]
    <2>1. turn' = [turn EXCEPT ![t].memory = memory, ![t].attached = FALSE, ![t].remembered = v]
      BY <1>1 DEF Remember
    <2> QED BY <1>3, <2>1, <1>0 DEF ChatShaped
  <1>6. turn' \in [Turns -> TurnRows] /\ \A s \in Turns : turn'[s] = IF s = t THEN r ELSE turn[s]
    BY <1>0, <1>4, <1>5 DEF ChatShaped
  <1>7. \A s \in Turns : /\ turn'[s].open = turn[s].open /\ turn'[s].from = turn[s].from
                         /\ turn'[s].memory.used = turn[s].memory.used
    BY <1>2, <1>4, <1>6
  <1>8. UNCHANGED <<live, log>> /\ stored' \in {stored, memory} BY <1>1 DEF Remember, SetMemory
  <1>9. ChatShaped' /\ Counted' /\ OpenTurns' = OpenTurns /\ (Apart' <=> Apart)
    <2>1. stored' \in Memories BY <1>0, <1>2, <1>8 DEF ChatShaped
    <2>2. memory.used <= Len(log)
      <3>1. turn[t].memory.used \in Nat /\ turn[t].from \in Nat /\ Len(log) \in Nat
        BY <1>0, ChatFacts DEF TurnRows, Memories
      <3>2. turn[t].from <= Len(log) /\ turn[t].memory.used <= turn[t].from BY DEF ChatInv, Counted
      <3> QED BY <1>2, <3>1, <3>2
    <2>3. stored'.used <= Len(log) BY <1>8, <2>2 DEF ChatInv, Counted
    <2> QED BY <1>6, <1>7, <1>8, <2>1, <2>3, OpenSame DEF ChatInv, ChatShaped
  <1>10. t \in OpenTurns BY DEF Remember, OpenTurns
  <1>11. ASSUME Apart PROVE InHand' /\ ~Untold'
    <2>1. \A s \in OpenTurns' : s = t BY <1>9, <1>10, <1>11 DEF Apart
    <2>2. turn'[t].remembered = v /\ turn'[t].memory.version = v /\ turn'[t].attached = FALSE
      BY <1>2, <1>4, <1>6
    <2> QED BY <1>0, <1>9, <1>10, <2>1, <2>2 DEF InHand, Untold
  <1> QED BY <1>9, <1>11 DEF ChatInv

\* The invariant when a turn opens.
LEMMA OpenTurnKeeps ==
  ASSUME ChatInv, NEW t \in Turns, OpenTurn(t)
  PROVE  ChatInv'
  <1>0. ChatShaped /\ turn[t] \in TurnRows /\ Len(log) \in Nat BY ChatFacts DEF ChatInv
  <1>1. PICK b \in BOOLEAN : b = (stored # Empty) OBVIOUS
  <1>2. PICK r : r = [NoTurn EXCEPT !.open = TRUE, !.memory = stored, !.attached = b, !.from = Len(log)] OBVIOUS
  <1>3. PICK n \in Nat : n = Len(log) BY <1>0
  <1>4. /\ r \in TurnRows /\ r.open = TRUE /\ r.memory = stored
        /\ r.remembered = NoVersion /\ r.from = n
    <2>1. stored \in Memories /\ NoVersion \in Versions BY <1>0 DEF ChatShaped, Versions
    <2>2. r = [open |-> TRUE, memory |-> stored, attached |-> b, remembered |-> NoVersion, from |-> n]
      BY <1>2, <1>3 DEF NoTurn
    <2> QED BY <2>1, <2>2, Zenon DEF TurnRows
  <1>5. turn' = [turn EXCEPT ![t] = r] BY <1>1, <1>2 DEF OpenTurn
  <1>6. turn' \in [Turns -> TurnRows] /\ \A s \in Turns : turn'[s] = IF s = t THEN r ELSE turn[s]
    BY <1>0, <1>4, <1>5 DEF ChatShaped
  <1>7. UNCHANGED <<stored, live, log>> BY DEF OpenTurn
  <1>8. OpenTurns' = OpenTurns \cup {t} /\ t \notin OpenTurns BY <1>4, <1>6 DEF OpenTurn, OpenTurns
  <1>9. ChatShaped' BY <1>0, <1>6, <1>7 DEF ChatShaped
  <1>10. Counted'
    <2>1. IsFiniteSet(OpenTurns') /\ Cardinality(OpenTurns') = Cardinality(OpenTurns) + 1
      BY <1>8, FS_AddElement DEF ChatInv, Counted
    <2>2. Cardinality(OpenTurns) \in Nat BY FS_CardinalityType DEF ChatInv, Counted
    <2>3. Len(log) + Cardinality(OpenTurns') <= MaxTurns
      BY <1>0, <2>1, <2>2, ChatAssumption DEF OpenTurn
    <2>4. \A s \in Turns : turn'[s].from <= Len(log) /\ turn'[s].memory.used <= turn'[s].from
      BY <1>3, <1>4, <1>6 DEF ChatInv, Counted
    <2> QED BY <1>7, <2>1, <2>3, <2>4 DEF ChatInv, Counted
  <1>11. ASSUME Apart' PROVE InHand' /\ (Untold' => OwedVersion')
    <2>1. OpenTurns = {} BY <1>8, <1>11 DEF Apart
    <2>2. OpenTurns' = {t} BY <1>8, <2>1
    <2>3. InHand' BY <1>4, <1>6, <1>7, <2>2 DEF InHand
    <2>4. Apart BY <1>7, <1>11, <2>1 DEF Apart
    <2>5. OwedVersion BY <2>1, <2>4 DEF ChatInv, Untold
    <2> QED BY <1>7, <2>3, <2>5 DEF OwedVersion
  <1> QED BY <1>9, <1>10, <1>11 DEF ChatInv

\* A turn is over: the others' memories, if there are others, no longer count.
LEMMA TurnOver ==
  ASSUME ChatInv, NEW t \in OpenTurns, turn' = [turn EXCEPT ![t] = NoTurn],
         stored' \in Memories, stored'.used <= Len(log) + 1, UNCHANGED live,
         NEW closed \in BOOLEAN, Over(t, closed),
         Apart => \/ turn[t].remembered = NoVersion /\ stored'.version = stored.version
                  \/ turn[t].remembered # NoVersion /\ ~closed
                  \/ turn[t].remembered # NoVersion /\ stored'.version = turn[t].remembered
  PROVE  ChatInv'
  <1>0. /\ ChatShaped /\ t \in Turns /\ turn[t] \in TurnRows /\ turn[t].open
        /\ OpenTurns \subseteq Turns /\ turn[t].from \in Nat
    BY ChatFacts DEF ChatInv, OpenTurns, TurnRows
  <1>1. PICK n \in Nat : n = Len(log) BY <1>0, ChatFacts
  <1>2. NoTurn \in TurnRows /\ NoTurn.open = FALSE /\ NoTurn.from = 0 /\ NoTurn.memory.used = 0
    BY Zenon DEF NoTurn, TurnRows, Empty, Memories, Versions
  <1>3. turn' \in [Turns -> TurnRows] /\ \A s \in Turns : turn'[s] = IF s = t THEN NoTurn ELSE turn[s]
    BY <1>0, <1>2 DEF ChatShaped
  <1>4. OpenTurns' = OpenTurns \ {t} BY <1>2, <1>3 DEF OpenTurns
  <1>5. PICK r : r = [from |-> turn[t].from, at |-> n + 1, ended |-> closed, remembered |-> turn[t].remembered]
    OBVIOUS
  <1>6. /\ r \in LogRows /\ r.from = turn[t].from /\ r.at = n + 1 /\ r.ended = closed
        /\ r.remembered = turn[t].remembered
    <2>1. n + 1 \in Nat /\ turn[t].remembered \in Versions BY <1>0 DEF TurnRows
    <2> QED BY <1>0, <1>5, <2>1, Zenon DEF LogRows
  <1>7. log' = Append(log, r) BY <1>1, <1>5 DEF Over
  <1>8. /\ log' \in Seq(LogRows) /\ Len(log') = n + 1 /\ log'[n + 1] = r
        /\ \A i \in 1 .. n : log'[i] = log[i]
        /\ \A i \in 1 .. Len(log') : i \in 1 .. n \/ i = n + 1
        /\ \A i \in 1 .. n : i \in 1 .. Len(log')
    BY <1>0, <1>1, <1>6, <1>7, LogAdded
  <1>9. ChatShaped' BY <1>0, <1>3, <1>8 DEF ChatShaped
  <1>10. turn[t].from <= n BY <1>1, <1>0 DEF ChatInv, Counted
  <1>11. Counted'
    <2>1. /\ IsFiniteSet(OpenTurns') /\ Cardinality(OpenTurns') = Cardinality(OpenTurns) - 1
          /\ Cardinality(OpenTurns) \in Nat
      BY <1>4, FS_RemoveElement, FS_CardinalityType DEF ChatInv, Counted
    <2>2. Len(log') + Cardinality(OpenTurns') <= MaxTurns
      <3>1. n + Cardinality(OpenTurns) <= MaxTurns BY <1>1 DEF ChatInv, Counted
      <3> QED BY <1>8, <2>1, <3>1, ChatAssumption
    <2>3. ASSUME NEW s \in Turns PROVE turn'[s].from <= Len(log') /\ turn'[s].memory.used <= turn'[s].from
      <3>1. CASE s = t
        <4>1. turn'[s].from = 0 /\ turn'[s].memory.used = 0 BY <1>2, <1>3, <3>1
        <4> QED BY <1>8, <4>1
      <3>2. CASE s # t
        <4>1. turn'[s] = turn[s] /\ turn[s].from \in Nat BY <1>0, <1>3, <3>2, ChatFacts DEF TurnRows
        <4>2. turn[s].from <= n /\ turn[s].memory.used <= turn[s].from BY <1>1 DEF ChatInv, Counted
        <4> QED BY <1>8, <4>1, <4>2
      <3> QED BY <3>1, <3>2
    <2>4. ASSUME NEW i \in 1 .. Len(log') PROVE log'[i].from <= Len(log') /\ log'[i].at \in 1 .. Len(log')
      <3>1. CASE i = n + 1 BY <1>0, <1>6, <1>8, <1>10, <3>1
      <3>2. CASE i \in 1 .. n
        <4>1. log[i].from <= n /\ log[i].at \in 1 .. n BY <1>1, <3>2 DEF ChatInv, Counted
        <4>2. log[i].from \in Nat BY <1>0, <1>1, <3>2, ChatFacts DEF LogRows
        <4> QED BY <1>8, <3>2, <4>1, <4>2
      <3> QED BY <1>8, <3>1, <3>2
    <2>5. stored'.used <= Len(log') BY <1>1, <1>8
    <2> QED BY <2>1, <2>2, <2>3, <2>4, <2>5 DEF Counted
  <1>12. ASSUME Apart' PROVE InHand' /\ OwedVersion'
    <2>1. OpenTurns' = {}
      <3>1. ASSUME NEW s \in OpenTurns' PROVE FALSE
        <4>1. s \in Turns /\ s # t BY <1>0, <1>4
        <4>2. turn'[s].from = n + 1 BY <1>8, <1>12 DEF Apart
        <4>3. turn[s].from <= n /\ turn[s].from = n + 1 BY <1>1, <1>3, <4>1, <4>2 DEF ChatInv, Counted
        <4> QED BY <4>3
      <3> QED BY <3>1
    <2>2. OpenTurns = {t} BY <1>4, <2>1
    <2>3. Apart
      <3>1. \A i \in 1 .. n : log[i].from = i - 1 BY <1>8, <1>12 DEF Apart
      <3>2. turn[t].from = n
        <4>1. log'[n + 1].from = (n + 1) - 1 /\ (n + 1) - 1 = n BY <1>8, <1>12 DEF Apart
        <4> QED BY <1>6, <1>8, <4>1
      <3> QED BY <1>1, <2>2, <3>1, <3>2 DEF Apart
    <2>4. InHand' BY <2>1 DEF InHand
    <2>5. OwedVersion'
      <3>1. SUFFICES ASSUME NEW i \in 1 .. Len(log'), log'[i].remembered # NoVersion, log'[i].ended,
                            \A j \in 1 .. Len(log') : j > i => log'[j].remembered = NoVersion
                     PROVE  stored'.version = log'[i].remembered
        BY DEF OwedVersion
      <3>2. CASE i = n + 1
        <4>1. log'[i].remembered = turn[t].remembered /\ log'[i].ended = closed BY <1>6, <1>8, <3>2
        <4> QED BY <2>3, <3>1, <4>1
      <3>3. CASE i \in 1 .. n
        <4>1. log'[n + 1].remembered = NoVersion BY <1>8, <3>1, <3>3
        <4>2. turn[t].remembered = NoVersion BY <1>6, <1>8, <4>1
        <4>3. OwedVersion BY <2>2, <2>3, <4>2 DEF ChatInv, Untold
        <4>4. log'[i] = log[i] /\ \A j \in 1 .. n : log'[j] = log[j] /\ j \in 1 .. Len(log') BY <1>8, <3>3
        <4>5. stored.version = log[i].remembered BY <1>1, <3>1, <3>3, <4>3, <4>4 DEF OwedVersion
        <4> QED BY <2>3, <4>2, <4>4, <4>5
      <3> QED BY <1>8, <3>2, <3>3
    <2> QED BY <2>4, <2>5
  <1> QED BY <1>9, <1>11, <1>12 DEF ChatInv

\* The invariant when a turn ends.
LEMMA EndTurnKeeps ==
  ASSUME ChatInv, NEW t \in Turns, EndTurn(t)
  PROVE  ChatInv'
  <1>0. /\ ChatShaped /\ turn[t] \in TurnRows /\ t \in OpenTurns
        /\ turn[t].memory \in Memories /\ turn[t].memory.used \in Nat /\ Len(log) \in Nat /\ turn[t].from \in Nat
    BY ChatFacts DEF ChatInv, OpenTurns, EndTurn, TurnRows, Memories
  <1>1. PICK memory : memory = [turn[t].memory EXCEPT !.used = @ + 1] OBVIOUS
  <1>2. /\ memory \in Memories /\ memory.version = turn[t].memory.version
        /\ memory.used = turn[t].memory.used + 1
    <2>1. turn[t].memory.used + 1 \in Nat BY <1>0
    <2> QED BY <1>0, <1>1, <2>1 DEF Memories
  <1>3. /\ turn' = [turn EXCEPT ![t] = NoTurn] /\ UNCHANGED live /\ Over(t, TRUE)
        /\ turn[t].attached => stored' = stored
        /\ ~turn[t].attached => stored' = memory
    BY <1>1 DEF EndTurn, Recorded, SetMemory
  <1>4. stored' = stored \/ stored' = memory BY <1>3
  <1>5. stored' \in Memories BY <1>0, <1>2, <1>4 DEF ChatShaped
  <1>6. stored'.used <= Len(log) + 1
    <2>1. turn[t].from <= Len(log) /\ turn[t].memory.used <= turn[t].from BY DEF ChatInv, Counted
    <2>2. memory.used <= Len(log) + 1 BY <1>0, <1>2, <2>1
    <2>3. stored.used <= Len(log) + 1 BY <1>0 DEF ChatInv, Counted, ChatShaped, Memories
    <2> QED BY <1>4, <2>2, <2>3
  <1>7. ASSUME Apart, turn[t].remembered = NoVersion PROVE stored'.version = stored.version
    <2>1. turn[t].memory.version = stored.version BY <1>0, <1>7 DEF ChatInv, InHand
    <2> QED BY <1>2, <1>4, <2>1
  <1>8. ASSUME Apart, turn[t].remembered # NoVersion PROVE stored'.version = turn[t].remembered
    <2>1. turn[t].memory.version = turn[t].remembered /\ ~turn[t].attached BY <1>0, <1>8 DEF ChatInv, InHand
    <2> QED BY <1>2, <1>3, <2>1
  <1> QED BY <1>0, <1>3, <1>5, <1>6, <1>7, <1>8, TurnOver

\* The invariant when a turn breaks off.
LEMMA BreakTurnKeeps ==
  ASSUME ChatInv, NEW t \in Turns, BreakTurn(t)
  PROVE  ChatInv'
  <1>1. PICK no \in BOOLEAN : no = FALSE OBVIOUS
  <1>2. /\ t \in OpenTurns /\ turn' = [turn EXCEPT ![t] = NoTurn] /\ UNCHANGED <<stored, live>> /\ Over(t, no)
    BY <1>1 DEF BreakTurn, OpenTurns
  <1>3. stored' \in Memories /\ stored'.used <= Len(log) + 1
    BY <1>2, ChatFacts DEF ChatInv, Counted, ChatShaped, Memories
  <1> QED BY <1>1, <1>2, <1>3, TurnOver

\* The invariant when a turn is refused.
LEMMA RefuseTurnKeeps ==
  ASSUME ChatInv, NEW t \in Turns, RefuseTurn(t)
  PROVE  ChatInv'
  <1>0. ChatShaped BY DEF ChatInv
  <1>1. PICK n \in Nat : n = Len(log) BY <1>0, ChatFacts
  <1>2. PICK yes \in BOOLEAN : yes = TRUE OBVIOUS
  <1>3. PICK r : r = [from |-> n, at |-> n + 1, ended |-> yes, remembered |-> NoVersion] OBVIOUS
  <1>4. r \in LogRows /\ r.from = n /\ r.at = n + 1 /\ r.remembered = NoVersion
    <2>1. n + 1 \in Nat /\ NoVersion \in Versions BY DEF Versions
    <2> QED BY <1>3, <2>1, Zenon DEF LogRows
  <1>5. log' = Append(log, r) /\ UNCHANGED <<stored, live, turn>> BY <1>1, <1>2, <1>3 DEF RefuseTurn
  <1>6. /\ log' \in Seq(LogRows) /\ Len(log') = n + 1 /\ log'[n + 1] = r
        /\ \A i \in 1 .. n : log'[i] = log[i]
        /\ \A i \in 1 .. Len(log') : i \in 1 .. n \/ i = n + 1
        /\ \A i \in 1 .. n : i \in 1 .. Len(log')
    BY <1>0, <1>1, <1>4, <1>5, LogAdded
  <1>7. OpenTurns' = OpenTurns BY <1>5 DEF OpenTurns
  <1>8. ChatShaped' BY <1>0, <1>5, <1>6 DEF ChatShaped
  <1>9. Counted'
    <2>1. Cardinality(OpenTurns) \in Nat BY FS_CardinalityType DEF ChatInv, Counted
    <2>2. Len(log') + Cardinality(OpenTurns') <= MaxTurns
      BY <1>1, <1>6, <1>7, <2>1, ChatAssumption DEF RefuseTurn
    <2>3. ASSUME NEW i \in 1 .. Len(log') PROVE log'[i].from <= Len(log') /\ log'[i].at \in 1 .. Len(log')
      <3>1. CASE i = n + 1 BY <1>4, <1>6, <3>1
      <3>2. CASE i \in 1 .. n
        <4>1. log[i].from <= n /\ log[i].at \in 1 .. n BY <1>1, <3>2 DEF ChatInv, Counted
        <4>2. log[i].from \in Nat BY <1>0, <1>1, <3>2, ChatFacts DEF LogRows
        <4> QED BY <1>6, <3>2, <4>1, <4>2
      <3> QED BY <1>6, <3>1, <3>2
    <2>4. ASSUME NEW s \in Turns PROVE turn'[s].from <= Len(log') /\ turn'[s].memory.used <= turn'[s].from
      <3>1. turn[s].from \in Nat BY <1>0, ChatFacts DEF TurnRows
      <3>2. turn[s].from <= n /\ turn[s].memory.used <= turn[s].from BY <1>1 DEF ChatInv, Counted
      <3> QED BY <1>5, <1>6, <3>1, <3>2
    <2>5. stored'.used <= Len(log')
      <3>1. stored.used \in Nat /\ stored.used <= n BY <1>0, <1>1 DEF ChatInv, Counted, ChatShaped, Memories
      <3> QED BY <1>5, <1>6, <3>1
    <2> QED BY <1>7, <2>2, <2>3, <2>4, <2>5 DEF ChatInv, Counted
  <1>10. ASSUME Apart' PROVE InHand' /\ OwedVersion'
    <2>1. OpenTurns = {}
      <3>1. ASSUME NEW s \in OpenTurns PROVE FALSE
        <4>1. s \in Turns BY DEF OpenTurns
        <4>2. turn'[s].from = n + 1 BY <1>6, <1>7, <1>10 DEF Apart
        <4>3. turn[s].from <= n /\ turn[s].from = n + 1 BY <1>1, <1>5, <4>1, <4>2 DEF ChatInv, Counted
        <4> QED BY <4>3
      <3> QED BY <3>1
    <2>2. Apart
      <3>1. \A i \in 1 .. n : log[i].from = i - 1 BY <1>6, <1>10 DEF Apart
      <3> QED BY <1>1, <2>1, <3>1 DEF Apart
    <2>3. OwedVersion BY <2>1, <2>2 DEF ChatInv, Untold
    <2>4. ASSUME NEW i \in 1 .. Len(log'), log'[i].remembered # NoVersion, log'[i].ended,
                 \A j \in 1 .. Len(log') : j > i => log'[j].remembered = NoVersion
          PROVE  stored'.version = log'[i].remembered
      <3>1. i \in 1 .. n BY <1>4, <1>6, <2>4
      <3>2. log'[i] = log[i] /\ \A j \in 1 .. n : log'[j] = log[j] /\ j \in 1 .. Len(log') BY <1>6, <3>1
      <3>3. stored.version = log[i].remembered BY <1>1, <2>3, <2>4, <3>1, <3>2 DEF OwedVersion
      <3> QED BY <1>5, <3>2, <3>3
    <2> QED BY <1>7, <2>1, <2>4 DEF InHand, OwedVersion
  <1> QED BY <1>8, <1>9, <1>10 DEF ChatInv

\* The invariant at the start.
LEMMA ChatInitial == ChatInit => ChatInv
  <1> SUFFICES ASSUME ChatInit PROVE ChatInv OBVIOUS
  <1>1. stored = Empty /\ live = TRUE /\ turn = [t \in Turns |-> NoTurn] /\ log = <<>> BY DEF ChatInit
  <1>2. Empty \in Memories /\ Empty.used = 0 /\ Empty.version = NoVersion BY DEF Empty, Memories, Versions
  <1>3. NoTurn \in TurnRows /\ NoTurn.open = FALSE /\ NoTurn.from = 0 /\ NoTurn.memory.used = 0
    BY Zenon DEF NoTurn, TurnRows, Empty, Memories, Versions
  <1>4. log \in Seq(LogRows) /\ Len(log) = 0 BY <1>1, EmptySeq
  <1>5. OpenTurns = {} BY <1>1, <1>3 DEF OpenTurns
  <1>6. IsFiniteSet(OpenTurns) /\ Cardinality(OpenTurns) = 0 BY <1>5, FS_EmptySet
  <1>7. ChatShaped BY <1>1, <1>2, <1>3, <1>4 DEF ChatShaped
  <1>8. Counted BY <1>1, <1>2, <1>3, <1>4, <1>6, ChatAssumption DEF Counted
  <1> QED BY <1>4, <1>5, <1>7, <1>8 DEF ChatInv, InHand, OwedVersion

\* The invariant in every step.
LEMMA ChatSteps ==
  ASSUME ChatInv, [ChatNext]_chatVars
  PROVE  ChatInv'
  <1>1. CASE ChatNext
    <2>1. ASSUME NEW t \in Turns, OpenTurn(t) \/ RefuseTurn(t) \/ SkillCommits(t) \/ EndTurn(t) \/ BreakTurn(t)
          PROVE  ChatInv'
      BY <2>1, OpenTurnKeeps, RefuseTurnKeeps, SkillCommitsKeeps, EndTurnKeeps, BreakTurnKeeps
    <2>2. ASSUME NEW t \in Turns, NEW v \in ActiveVersions, Remember(t, v) PROVE ChatInv' BY <2>2, RememberKeeps
    <2>3. CASE DeleteConversation
      <3>1. UNCHANGED <<stored, turn, log>> /\ live' = FALSE BY <2>3 DEF DeleteConversation
      <3>2. live' \in BOOLEAN BY <3>1
      <3> QED BY <3>1, <3>2
          DEF ChatInv, ChatShaped, Counted, Apart, InHand, Untold, OwedVersion, OpenTurns
    <2> QED BY <1>1, <2>1, <2>2, <2>3 DEF ChatNext
  <1>2. CASE UNCHANGED chatVars
    BY <1>2 DEF chatVars, ChatInv, ChatShaped, Counted, Apart, InHand, Untold, OwedVersion, OpenTurns
  <1> QED BY <1>1, <1>2

\* Each turn keeps its own copy of the memory and writes it back as a whole; as
\* long as turns stay apart the copy and the column agree (set_memory,
\* set_active_version_id, record_token_usage).
THEOREM ChatCorrect == ChatSpec => []ChatInv
  BY ChatInitial, ChatSteps, PTL DEF ChatSpec

\* The memory, the turns and their log keep their types, and no turn stores more
\* tokens than turns ended.
THEOREM ChatTypesKept == ChatSpec => []ChatTypeOK
  <1>1. ChatInv => ChatTypeOK
    <2> SUFFICES ASSUME ChatInv PROVE ChatTypeOK OBVIOUS
    <2>1. ChatShaped /\ Counted /\ Len(log) \in Nat BY ChatFacts DEF ChatInv
    <2>2. Len(log) <= MaxTurns /\ stored.used <= MaxTurns
      <3>1. Cardinality(OpenTurns) \in Nat BY <2>1, FS_CardinalityType DEF Counted
      <3>2. stored.used \in Nat BY <2>1 DEF ChatShaped, Memories
      <3> QED BY <2>1, <3>1, <3>2, ChatAssumption DEF Counted
    <2>3. stored \in Memory BY <2>1, <2>2, ChatAssumption DEF ChatShaped, Memories, Memory, Versions
    <2>4. ASSUME NEW t \in Turns
          PROVE  turn[t] \in [open : BOOLEAN, memory : Memory, attached : BOOLEAN,
                              remembered : Versions, from : 0 .. MaxTurns]
      <3>1. turn[t] \in TurnRows /\ turn[t].from \in Nat /\ turn[t].memory \in Memories /\ turn[t].memory.used \in Nat
        BY <2>1, ChatFacts DEF TurnRows, Memories
      <3>2. turn[t].from <= Len(log) /\ turn[t].memory.used <= turn[t].from BY <2>1 DEF Counted
      <3>3. turn[t].from \in 0 .. MaxTurns /\ turn[t].memory.used \in 0 .. MaxTurns
        BY <2>1, <2>2, <3>1, <3>2, ChatAssumption
      <3>4. turn[t].memory \in Memory BY <3>1, <3>3 DEF Memories, Memory, Versions
      <3> QED BY <3>1, <3>3, <3>4, Zenon DEF TurnRows
    <2>5. turn \in [Turns -> [open : BOOLEAN, memory : Memory, attached : BOOLEAN,
                              remembered : Versions, from : 0 .. MaxTurns]]
      BY <2>1, <2>4 DEF ChatShaped
    <2> DEFINE Rows == [from : 0 .. MaxTurns, at : 1 .. MaxTurns, ended : BOOLEAN, remembered : Versions]
    <2>6. ASSUME NEW i \in 1 .. Len(log) PROVE log[i] \in Rows
      <3>1. log[i] \in LogRows /\ log[i].from \in Nat BY <2>1, ChatFacts DEF LogRows
      <3>2. log[i].from <= Len(log) /\ log[i].at \in 1 .. Len(log) BY <2>1 DEF Counted
      <3>3. log[i].from \in 0 .. MaxTurns /\ log[i].at \in 1 .. MaxTurns
        BY <2>1, <2>2, <3>1, <3>2, ChatAssumption
      <3> QED BY <3>1, <3>3, Zenon DEF LogRows
    <2> HIDE DEF Rows
    <2>7. log \in Seq(Rows)
      <3>1. log \in [1 .. Len(log) -> LogRows] BY <2>1, LenProperties DEF ChatShaped
      <3>2. log \in [1 .. Len(log) -> Rows] BY <2>6, <3>1
      <3> QED BY <2>1, <3>2, SeqDef
    <2> USE DEF Rows
    <2> QED BY <2>1, <2>2, <2>3, <2>5, <2>7 DEF ChatTypeOK, Versions, ChatShaped
  <1> QED BY <1>1, ChatCorrect, PTL

\* As long as turns do not overlap, a version the agent made active in one turn
\* is the active one of the next, if the turn reached its end: a write lost to
\* the column's change tracking is repaired by the recording of the tokens.
THEOREM RememberedAlways == ChatSpec => []RememberedAcrossTurns
  <1>1. ChatInv => RememberedAcrossTurns
    <2> SUFFICES ASSUME ChatInv PROVE RememberedAcrossTurns OBVIOUS
    <2>1. PICK settled : settled = {i \in DOMAIN log : log[i].remembered # NoVersion} OBVIOUS
    <2>2. SUFFICES ASSUME OneAtATime, OpenTurns = {}, settled # {},
                          NEW last, last = (CHOOSE i \in settled : \A j \in settled : j <= i), log[last].ended
                   PROVE  stored.version = log[last].remembered
      BY <2>1 DEF RememberedAcrossTurns
    <2>3. Apart /\ DOMAIN log = 1 .. Len(log) /\ Len(log) \in Nat BY <2>2, ApartCounted, ChatFacts DEF ChatInv
    <2>4. OwedVersion BY <2>2, <2>3 DEF ChatInv, Untold
    <2>5. \E i \in settled : \A j \in settled : j <= i BY <2>1, <2>2, <2>3, LastExists
    <2>6. last \in settled /\ \A j \in settled : j <= last BY <2>2, <2>5
    <2>7. \A j \in 1 .. Len(log) : j > last => log[j].remembered = NoVersion BY <2>1, <2>3, <2>6
    <2> QED BY <2>1, <2>2, <2>3, <2>4, <2>6, <2>7 DEF OwedVersion
  <1> QED BY <1>1, ChatCorrect, PTL

-----------------------------------------------------------------------------
-----------------------------------------------------------------------------
Recipients   == UNION {Providers[f] : f \in Firms}
OwedRows == [v : Forecasts, form : Nat, to : Recipients, month : 0 .. MaxMonths]

SweepsShaped ==
    /\ forms \in Seq(Firms) /\ today \in 0 .. (MonthDays - 1) /\ month \in 0 .. MaxMonths
    /\ open \subseteq Forecasts
    /\ DOMAIN desk = Desks
    /\ chase \in [state : {"none", "reading", "done"}, owed : SUBSET OwedRows, runs : 0 .. MaxRounds]

\* A form of the version's own company.
OwnForm(v, i) == i \in 1 .. Len(forms) /\ forms[i] = FirmOf[v]

\* A submission is on a form that exists, and one of the version's own people on
\* a form of their company.
Fits(x) ==
    /\ x.v \in Forecasts /\ x.form \in 1 .. Len(forms) /\ x.own \in BOOLEAN
    /\ x.own => OwnForm(x.v, x.form)

\* So is, or will be, the one a process is in the middle of.
DeskFits(s) ==
    /\ s.v \in Forecasts /\ s.firm \in Firms /\ s.form \in 0 .. Len(forms)
    /\ s.by = FirmOf[s.v] => s.firm = FirmOf[s.v] /\ (s.form = 0 \/ OwnForm(s.v, s.form))

OwnForms ==
    /\ \A x \in inputs : Fits(x)
    /\ \A d \in Desks : desk[d] # NoSubmission => DeskFits(desk[d])

\* A key has fired once, for what it stands for, and no later than now; a sweep
\* in the middle is of this month.
KeysTrue ==
    /\ \A n \in notices : n.about \in OwedRows /\ n.key = DedupKey(n.about) /\ n.about.month <= month
    /\ \A n, p \in notices : n.key = p.key => n = p
    /\ chase.state = "reading" => \A o \in chase.owed : o.month = month

SweepsInv == SweepsShaped /\ OwnForms /\ KeysTrue /\ SweepsTell

\* The shapes of the driver forms.
LEMMA FormsFacts ==
  ASSUME SweepsShaped
  PROVE  /\ DOMAIN forms = 1 .. Len(forms) /\ Len(forms) \in Nat
         /\ \A i \in 1 .. Len(forms) : forms[i] \in Firms
  BY LenProperties, ElementOfSeq DEF SweepsShaped

\* Chases of the same form, version and person have the same key, and no others.
LEMMA KeysApart == \A o, p : DedupKey(o) = DedupKey(p) <=> SameChase(o, p)
  BY DEF DedupKey, SameChase

\* Nothing that a step left alone, and that the invariant speaks of, changes it.
LEMMA SweepsUntouched ==
  ASSUME SweepsInv, SweepsShaped', UNCHANGED <<month, chase, notices>>
  PROVE  KeysTrue' /\ SweepsTell'
  BY DEF SweepsInv, KeysTrue, SweepsTell

\* A new form takes no version's own form away.
LEMMA OwnFormsGrow ==
  ASSUME SweepsShaped, NEW f \in Firms, forms' = Append(forms, f)
  PROVE  /\ forms' \in Seq(Firms) /\ Len(forms') = Len(forms) + 1 /\ forms'[Len(forms) + 1] = f
         /\ \A v, i : OwnForm(v, i) => OwnForm(v, i)'
         /\ \A i \in 0 .. Len(forms) : i \in 0 .. Len(forms')
         /\ \A i \in 1 .. Len(forms) : i \in 1 .. Len(forms')
  <1>1. forms \in Seq(Firms) /\ Len(forms) \in Nat BY FormsFacts DEF SweepsShaped
  <1>2. /\ forms' \in Seq(Firms) /\ Len(forms') = Len(forms) + 1 /\ forms'[Len(forms) + 1] = f
        /\ \A i \in 1 .. Len(forms) : forms'[i] = forms[i]
    BY <1>1, AppendProperties
  <1>3. ASSUME NEW v, NEW i, OwnForm(v, i) PROVE OwnForm(v, i)'
    <2>1. i \in 1 .. Len(forms) /\ forms[i] = FirmOf[v] BY <1>3 DEF OwnForm
    <2>2. i \in 1 .. Len(forms') BY <1>1, <1>2, <2>1
    <2> QED BY <1>2, <2>1, <2>2 DEF OwnForm
  <1> QED BY <1>1, <1>2, <1>3

\* The invariant when a form is created.
LEMMA CreateFormKeeps ==
  ASSUME SweepsInv, NEW f \in Firms, CreateForm(f)
  PROVE  SweepsInv'
  <1>1. forms' = Append(forms, f) /\ UNCHANGED <<inputs, open, month, today, desk, chase, notices>> BY DEF CreateForm
  <1>0. SweepsShaped BY DEF SweepsInv
  <1>2. /\ forms' \in Seq(Firms) /\ \A v, i : OwnForm(v, i) => OwnForm(v, i)'
        /\ \A i \in 0 .. Len(forms) : i \in 0 .. Len(forms')
        /\ \A i \in 1 .. Len(forms) : i \in 1 .. Len(forms')
    BY <1>0, <1>1, OwnFormsGrow
  <1>3. OwnForms'
    <2>1. ASSUME NEW x \in inputs' PROVE Fits(x)'
      <3>1. Fits(x) BY <1>1, <2>1 DEF SweepsInv, OwnForms
      <3> QED BY <1>0, <1>2, <3>1 DEF Fits
    <2>2. ASSUME NEW d \in Desks, NEW r, r = desk'[d], r # NoSubmission PROVE DeskFits(r)'
      <3>1. r = desk[d] /\ DeskFits(r) BY <1>1, <2>2 DEF SweepsInv, OwnForms
      <3> QED BY <1>2, <3>1 DEF DeskFits
    <2> QED BY <2>1, <2>2 DEF OwnForms
  <1>4. SweepsShaped' BY <1>0, <1>1, <1>2 DEF SweepsShaped
  <1> QED BY <1>1, <1>3, <1>4, SweepsUntouched DEF SweepsInv

\* The form found for a company is its own.
LEMMA FormForOwn ==
  ASSUME SweepsShaped, NEW f \in Firms
  PROVE  FormFor(f) = 0 \/ (FormFor(f) \in 1 .. Len(forms) /\ forms[FormFor(f)] = f)
  <1>1. PICK own : own = {i \in DOMAIN forms : forms[i] = f} OBVIOUS
  <1>2. own \in SUBSET Nat BY <1>1, FormsFacts
  <1>3. CASE own = {}
    <2>1. FormFor(f) = 0 BY <1>1, <1>3 DEF FormFor
    <2> QED BY <2>1
  <1>4. CASE own # {}
    <2>1. \E i \in own : \A j \in own : i <= j BY <1>2, <1>4, LeastExists
    <2>2. FormFor(f) = CHOOSE i \in own : \A j \in own : i <= j BY <1>1, <1>4 DEF FormFor
    <2>3. FormFor(f) \in own BY <2>1, <2>2
    <2> QED BY <1>1, <2>3, FormsFacts
  <1> QED BY <1>3, <1>4

\* The invariant when a submission reads its form.
LEMMA SubmitLoadKeeps ==
  ASSUME SweepsInv, NEW d \in Desks, NEW v \in Forecasts, NEW by \in Firms \cup {Platform}, NEW f \in Firms,
         SubmitLoad(d, v, by, f)
  PROVE  SweepsInv'
  <1>0. SweepsShaped BY DEF SweepsInv
  <1>1. PICK i \in {FormFor(f)} \cup Nameable(by) :
              desk' = [desk EXCEPT ![d] = [v |-> v, form |-> i, firm |-> IF i = 0 THEN f ELSE forms[i], by |-> by]]
    BY DEF SubmitLoad
  <1>2. UNCHANGED <<forms, inputs, open, month, today, chase, notices>> BY DEF SubmitLoad
  <1>3. FirmOf[v] \in Firms /\ Platform \notin Firms BY SweepsAssumption
  <1>4. i \in 0 .. Len(forms)
    BY <1>0, <1>1, FormForOwn, FormsFacts DEF Nameable
  <1>11. PICK firm : firm = IF i = 0 THEN f ELSE forms[i] OBVIOUS
  <1>12. firm \in Firms BY <1>0, <1>4, <1>11, FormsFacts
  <1>5. by = FirmOf[v] => firm = FirmOf[v] /\ (i = 0 \/ OwnForm(v, i))
    <2>1. SUFFICES ASSUME by = FirmOf[v] PROVE f = FirmOf[v] /\ (i = 0 \/ OwnForm(v, i)) BY <1>11 DEF OwnForm
    <2>2. by # Platform /\ f = by BY <1>3, <2>1 DEF SubmitLoad
    <2>3. CASE i = FormFor(f) BY <1>0, <2>1, <2>2, <2>3, FormForOwn DEF OwnForm
    <2>4. CASE i \in Nameable(by) BY <1>0, <2>1, <2>2, <2>4, FormsFacts DEF OwnForm, Nameable
    <2> QED BY <1>1, <2>1, <2>2, <2>3, <2>4
  <1>6. PICK s : s = [v |-> v, form |-> i, firm |-> firm, by |-> by] OBVIOUS
  <1>7. DeskFits(s)'
    <2>1. s.v = v /\ s.form = i /\ s.firm = firm /\ s.by = by BY <1>6
    <2> QED BY <1>2, <1>4, <1>5, <1>12, <2>1 DEF DeskFits, OwnForm
  <1>8. DOMAIN desk' = Desks /\ \A e \in Desks : desk'[e] = IF e = d THEN s ELSE desk[e]
    BY <1>0, <1>1, <1>6, <1>11 DEF SweepsShaped
  <1>9. SweepsShaped' BY <1>0, <1>2, <1>8 DEF SweepsShaped
  <1>10. OwnForms'
    <2>1. ASSUME NEW e \in Desks, NEW r, r = desk'[e], r # NoSubmission PROVE DeskFits(r)'
      <3>1. CASE e = d BY <1>7, <1>8, <2>1, <3>1
      <3>2. CASE e # d
        <4>1. r = desk[e] /\ DeskFits(r) BY <1>8, <2>1, <3>2 DEF SweepsInv, OwnForms
        <4> QED BY <1>2, <4>1 DEF DeskFits, OwnForm
      <3> QED BY <3>1, <3>2
    <2>2. \A x \in inputs : Fits(x)' BY <1>2 DEF SweepsInv, OwnForms, Fits, OwnForm
    <2> QED BY <1>2, <2>1, <2>2 DEF OwnForms
  <1> QED BY <1>2, <1>9, <1>10, SweepsUntouched DEF SweepsInv

\* The invariant when a submission commits.
LEMMA SubmitCommitKeeps ==
  ASSUME SweepsInv, NEW d \in Desks, SubmitCommit(d)
  PROVE  SweepsInv'
  <1>0. SweepsShaped BY DEF SweepsInv
  <1>1. PICK s : s = desk[d] OBVIOUS
  <1>2. DeskFits(s) BY <1>1 DEF SweepsInv, OwnForms, SubmitCommit
  <1>3. PICK i : i = IF s.form = 0 THEN Len(forms) + 1 ELSE s.form OBVIOUS
  <1>4. /\ forms' = IF s.form = 0 THEN Append(forms, s.firm) ELSE forms
        /\ inputs' = inputs \cup {[v |-> s.v, form |-> i, own |-> s.by = FirmOf[s.v]]}
        /\ desk' = [desk EXCEPT ![d] = NoSubmission]
        /\ UNCHANGED <<open, month, today, chase, notices>>
    BY <1>1, <1>3 DEF SubmitCommit, Recording
  <1>5. /\ forms' \in Seq(Firms) /\ \A v, j : OwnForm(v, j) => OwnForm(v, j)'
        /\ \A j \in 0 .. Len(forms) : j \in 0 .. Len(forms')
        /\ \A j \in 1 .. Len(forms) : j \in 1 .. Len(forms')
        /\ i \in 1 .. Len(forms') /\ (s.by = FirmOf[s.v] => OwnForm(s.v, i)')
    <2>1. CASE s.form = 0
      <3>1. s.firm \in Firms BY <1>2 DEF DeskFits
      <3>2. forms' = Append(forms, s.firm) BY <1>4, <2>1
      <3>3. /\ forms' \in Seq(Firms) /\ Len(forms') = Len(forms) + 1 /\ forms'[Len(forms) + 1] = s.firm
            /\ \A v, j : OwnForm(v, j) => OwnForm(v, j)'
            /\ \A j \in 0 .. Len(forms) : j \in 0 .. Len(forms')
            /\ \A j \in 1 .. Len(forms) : j \in 1 .. Len(forms')
        BY <1>0, <3>1, <3>2, OwnFormsGrow
      <3>4. i = Len(forms) + 1 /\ i \in 1 .. Len(forms') BY <1>0, <1>3, <2>1, <3>3, FormsFacts
      <3> QED BY <1>2, <3>3, <3>4 DEF OwnForm, DeskFits
    <2>2. CASE s.form # 0 BY <1>0, <1>2, <1>3, <1>4, <2>2 DEF OwnForm, SweepsShaped, DeskFits
    <2> QED BY <2>1, <2>2
  <1>6. DOMAIN desk' = Desks /\ \A e \in Desks : desk'[e] = IF e = d THEN NoSubmission ELSE desk[e]
    BY <1>0, <1>4 DEF SweepsShaped
  <1>7. OwnForms'
    <2>1. ASSUME NEW x \in inputs' PROVE Fits(x)'
      <3>1. PICK y : y = [v |-> s.v, form |-> i, own |-> s.by = FirmOf[s.v]] OBVIOUS
      <3>2. y.v = s.v /\ y.form = i /\ y.own = (s.by = FirmOf[s.v]) BY <3>1
      <3>3. CASE x = y BY <1>2, <1>5, <3>2, <3>3 DEF Fits, DeskFits
      <3>4. CASE x \in inputs
        <4>1. Fits(x) BY <3>4 DEF SweepsInv, OwnForms
        <4> QED BY <1>5, <4>1 DEF Fits
      <3> QED BY <1>4, <2>1, <3>1, <3>3, <3>4
    <2>2. ASSUME NEW e \in Desks, NEW r, r = desk'[e], r # NoSubmission PROVE DeskFits(r)'
      <3>1. r = desk[e] BY <1>6, <2>2
      <3>2. DeskFits(r) BY <2>2, <3>1 DEF SweepsInv, OwnForms
      <3> QED BY <1>5, <3>2 DEF DeskFits
    <2> QED BY <2>1, <2>2 DEF OwnForms
  <1>8. SweepsShaped' BY <1>0, <1>4, <1>5, <1>6 DEF SweepsShaped
  <1> QED BY <1>4, <1>7, <1>8, SweepsUntouched DEF SweepsInv

\* The invariant when a submission fails or comes from the chat, a version is
\* approved, or a day passes.
LEMMA OtherSubmissionsKeep ==
  ASSUME SweepsInv, \/ \E d \in Desks : SubmitFails(d)
                    \/ \E v \in Forecasts, by \in Firms \cup {Platform} : SubmitChat(v, by)
                    \/ \E v \in Forecasts : LastApproval(v)
                    \/ NextDay
  PROVE  SweepsInv'
  <1>0. SweepsShaped BY DEF SweepsInv
  <1>1. ASSUME NEW d \in Desks, SubmitFails(d) PROVE SweepsInv'
    <2>1. desk' = [desk EXCEPT ![d] = NoSubmission] /\ UNCHANGED <<forms, inputs, open, month, today, chase, notices>>
      BY <1>1 DEF SubmitFails
    <2>2. DOMAIN desk' = Desks /\ \A e \in Desks : desk'[e] = IF e = d THEN NoSubmission ELSE desk[e]
      BY <1>0, <2>1 DEF SweepsShaped
    <2>3. OwnForms' BY <2>1, <2>2 DEF SweepsInv, OwnForms, Fits, DeskFits, OwnForm
    <2>4. SweepsShaped' BY <1>0, <2>1, <2>2 DEF SweepsShaped
    <2> QED BY <2>1, <2>3, <2>4, SweepsUntouched DEF SweepsInv
  <1>2. ASSUME NEW v \in Forecasts, NEW by \in Firms \cup {Platform}, SubmitChat(v, by) PROVE SweepsInv'
    <2>1. PICK i \in Nameable(by) : inputs' = inputs \cup {[v |-> v, form |-> i, own |-> by = FirmOf[v]]}
      BY <1>2 DEF SubmitChat, Recording
    <2>2. UNCHANGED <<forms, open, month, today, desk, chase, notices>> BY <1>2 DEF SubmitChat
    <2>3. by = FirmOf[v] => OwnForm(v, i)
      BY <1>0, <2>1, FormsFacts, SweepsAssumption DEF OwnForm, Nameable
    <2>4. OwnForms'
      <3>1. PICK y : y = [v |-> v, form |-> i, own |-> by = FirmOf[v]] OBVIOUS
      <3>2. y.v = v /\ y.form = i /\ y.own = (by = FirmOf[v]) BY <3>1
      <3>3. i \in 1 .. Len(forms) BY <1>0, <2>1, FormsFacts DEF Nameable
      <3>4. Fits(y) BY <2>3, <3>2, <3>3 DEF Fits
      <3>5. \A x \in inputs' : Fits(x) BY <2>1, <3>1, <3>4 DEF SweepsInv, OwnForms
      <3> QED BY <2>2, <3>5 DEF SweepsInv, OwnForms, Fits, DeskFits, OwnForm
    <2>5. SweepsShaped' BY <1>0, <2>2 DEF SweepsShaped
    <2> QED BY <2>2, <2>4, <2>5, SweepsUntouched DEF SweepsInv
  <1>3. ASSUME NEW v \in Forecasts, LastApproval(v) PROVE SweepsInv'
    <2>1. SweepsShaped' BY <1>0, <1>3 DEF LastApproval, SweepsShaped
    <2>2. OwnForms' BY <1>3 DEF LastApproval, SweepsInv, OwnForms, Fits, DeskFits, OwnForm
    <2> QED BY <1>3, <2>1, <2>2, SweepsUntouched DEF LastApproval, SweepsInv
  <1>4. CASE NextDay
    <2>1. /\ today \in 0 .. (MonthDays - 1) /\ month \in 0 .. MaxMonths
          /\ MonthDays \in Nat \ {0} /\ MaxMonths \in Nat
      BY <1>0, SweepsAssumption DEF SweepsShaped
    <2>2. today' \in 0 .. (MonthDays - 1) /\ month' \in 0 .. MaxMonths /\ month <= month'
      BY <1>4, <2>1 DEF NextDay
    <2>3. UNCHANGED <<forms, inputs, open, desk, chase, notices>> /\ chase.state # "reading" BY <1>4 DEF NextDay
    <2>4. SweepsShaped' BY <1>0, <2>2, <2>3 DEF SweepsShaped
    <2>5. OwnForms' BY <2>3 DEF SweepsInv, OwnForms, Fits, DeskFits, OwnForm
    <2>6. KeysTrue'
      <3>1. ASSUME NEW n \in notices PROVE n.about.month <= month'
        <4>1. n.about \in OwedRows /\ n.about.month <= month BY DEF SweepsInv, KeysTrue
        <4>2. n.about.month \in Int BY <4>1 DEF OwedRows
        <4> QED BY <2>1, <2>2, <4>1, <4>2
      <3> QED BY <2>3, <3>1 DEF SweepsInv, KeysTrue
    <2> QED BY <2>3, <2>4, <2>5, <2>6 DEF SweepsInv, SweepsTell
  <1> QED BY <1>1, <1>2, <1>3, <1>4

\* The shapes of the reminders owed.
LEMMA OwedShaped == ASSUME SweepsShaped PROVE Owed \in SUBSET OwedRows /\ \A o \in Owed : o.month = month
  <1>1. \A o \in Owed : o \in [v : open, form : DOMAIN forms, to : Recipients, month : {month}] BY DEF Owed, Recipients
  <1>2. open \subseteq Forecasts /\ DOMAIN forms \subseteq Nat /\ month \in 0 .. MaxMonths BY FormsFacts DEF SweepsShaped
  <1> QED BY <1>1, <1>2 DEF OwedRows

\* The invariant when a sweep starts.
LEMMA ChaseStartKeeps ==
  ASSUME SweepsInv, ChaseStart
  PROVE  SweepsInv'
  <1>0. SweepsShaped BY DEF SweepsInv
  <1>1. PICK n : n = chase.runs + 1 OBVIOUS
  <1>2. n \in 0 .. MaxRounds BY <1>0, <1>1, SweepsAssumption DEF ChaseStart, SweepsShaped
  <1>3. PICK found : found = Owed OBVIOUS
  <1>4. found \in SUBSET OwedRows /\ \A o \in found : o.month = month BY <1>0, <1>3, OwedShaped
  <1>5. chase' = [state |-> "reading", owed |-> found, runs |-> n] BY <1>1, <1>3 DEF ChaseStart
  <1>6. UNCHANGED <<forms, inputs, open, month, today, desk, notices>> BY DEF ChaseStart
  <1>7. SweepsShaped' BY <1>0, <1>2, <1>4, <1>5, <1>6 DEF SweepsShaped
  <1>8. KeysTrue' BY <1>4, <1>5, <1>6 DEF SweepsInv, KeysTrue
  <1> QED BY <1>5, <1>6, <1>7, <1>8 DEF SweepsInv, OwnForms, Fits, DeskFits, OwnForm, SweepsTell

\* The invariant when a sweep commits its reminders.
LEMMA ChaseCommitKeeps ==
  ASSUME SweepsInv, ChaseCommit
  PROVE  SweepsInv'
  <1>0. SweepsShaped /\ chase.owed \subseteq OwedRows BY DEF SweepsInv, SweepsShaped
  <1>1. PICK owed : owed = chase.owed OBVIOUS
  <1>2. PICK fresh : fresh = {o \in owed : ~\E n \in notices : n.key = DedupKey(o)} OBVIOUS
  <1>3. PICK told : told = {q \in fresh : q = CHOOSE r \in fresh : DedupKey(r) = DedupKey(q)} OBVIOUS
  <1>4. notices' = notices \cup {[key |-> DedupKey(o), about |-> o] : o \in told}
    BY <1>1, <1>2, <1>3 DEF ChaseCommit, Notified
  <1>5. UNCHANGED <<forms, inputs, open, month, today, desk>> BY DEF ChaseCommit
  <1>6. chase.state = "reading" /\ chase' = [chase EXCEPT !.state = "done"] BY DEF ChaseCommit
  <1>7. SweepsShaped' /\ chase'.owed = owed /\ chase'.state = "done"
    BY <1>0, <1>1, <1>5, <1>6 DEF SweepsShaped
  <1>8. \A o \in owed : o \in OwedRows /\ o.month = month BY <1>0, <1>1, <1>6 DEF SweepsInv, KeysTrue
  <1>9. month \in Int BY <1>0 DEF SweepsShaped
  <1>10. ASSUME NEW o \in owed, NEW p \in owed, DedupKey(o) = DedupKey(p) PROVE o = p
    BY <1>8, <1>10 DEF DedupKey, OwedRows
  <1>11. told = fresh
    <2>1. ASSUME NEW q \in fresh PROVE q = CHOOSE r \in fresh : DedupKey(r) = DedupKey(q)
      <3>1. PICK p : p = CHOOSE r \in fresh : DedupKey(r) = DedupKey(q) OBVIOUS
      <3>2. p \in fresh /\ DedupKey(p) = DedupKey(q) BY <2>1, <3>1
      <3> QED BY <1>2, <1>10, <2>1, <3>1, <3>2
    <2> QED BY <1>3, <2>1
  <1>12. ASSUME NEW n \in notices', n \notin notices
         PROVE  /\ n.about \in fresh /\ n.key = DedupKey(n.about) /\ n = [key |-> DedupKey(n.about), about |-> n.about]
                /\ n.about \in OwedRows /\ n.about.month <= month
    <2>1. PICK o \in fresh : n = [key |-> DedupKey(o), about |-> o] BY <1>4, <1>11, <1>12
    <2>2. n.about = o /\ n.key = DedupKey(o) BY <2>1
    <2>3. o \in OwedRows /\ o.month = month BY <1>2, <1>8, <2>1
    <2> QED BY <1>9, <2>1, <2>2, <2>3
  <1>13. ASSUME NEW n \in notices', NEW p \in notices', n.key = p.key PROVE n = p
    <2>1. CASE n \in notices /\ p \in notices BY <1>13, <2>1 DEF SweepsInv, KeysTrue
    <2>2. CASE n \in notices /\ p \notin notices BY <1>2, <1>12, <1>13, <2>2
    <2>3. CASE n \notin notices /\ p \in notices BY <1>2, <1>12, <1>13, <2>3
    <2>4. CASE n \notin notices /\ p \notin notices
      <3>1. n.about \in owed /\ p.about \in owed /\ DedupKey(n.about) = DedupKey(p.about)
        BY <1>2, <1>12, <1>13, <2>4
      <3>2. n.about = p.about BY <1>10, <3>1
      <3> QED BY <1>12, <2>4, <3>2
    <2> QED BY <2>1, <2>2, <2>3, <2>4
  <1>14. \A n \in notices' : n.about \in OwedRows /\ n.key = DedupKey(n.about) /\ n.about.month <= month
    BY <1>12 DEF SweepsInv, KeysTrue
  <1>15. ASSUME NEW o \in owed PROVE \E n \in notices' : SameChase(n.about, o) /\ n.about.month <= o.month
    <2>1. PICK n \in notices' : n.key = DedupKey(o)
      <3>1. CASE o \notin fresh BY <1>2, <1>4, <3>1
      <3>2. CASE o \in fresh
        <4>1. PICK n : n = [key |-> DedupKey(o), about |-> o] OBVIOUS
        <4>2. n \in notices' /\ n.key = DedupKey(o) BY <1>4, <1>11, <3>2, <4>1
        <4> QED BY <4>2
      <3> QED BY <3>1, <3>2
    <2>2. SameChase(n.about, o) BY <1>14, <2>1, KeysApart
    <2>3. n.about.month <= o.month BY <1>8, <1>14, <2>1
    <2> QED BY <2>1, <2>2, <2>3
  <1>16. KeysTrue' BY <1>5, <1>7, <1>13, <1>14 DEF KeysTrue
  <1>17. SweepsTell' BY <1>7, <1>15 DEF SweepsTell
  <1>18. OwnForms' BY <1>5 DEF SweepsInv, OwnForms, Fits, DeskFits, OwnForm
  <1> QED BY <1>7, <1>16, <1>17, <1>18 DEF SweepsInv

\* The invariant when a sweep dies.
LEMMA ChaseDiesKeeps ==
  ASSUME SweepsInv, ChaseDies
  PROVE  SweepsInv'
  <1>1. chase' = [chase EXCEPT !.state = "none", !.owed = {}] BY DEF ChaseDies
  <1>2. UNCHANGED <<forms, inputs, open, month, today, desk, notices>> BY DEF ChaseDies
  <1>3. SweepsShaped' /\ chase'.state = "none" BY <1>1, <1>2 DEF SweepsInv, SweepsShaped
  <1> QED BY <1>2, <1>3 DEF SweepsInv, OwnForms, Fits, DeskFits, OwnForm, KeysTrue, SweepsTell

\* The invariant at the start.
LEMMA SweepsInitial == SweepsInit => SweepsInv
  <1> SUFFICES ASSUME SweepsInit PROVE SweepsInv OBVIOUS
  <1>1. forms \in Seq(Firms) BY EmptySeq DEF SweepsInit
  <1>2. today \in 0 .. (MonthDays - 1) /\ month \in 0 .. MaxMonths /\ 0 \in 0 .. MaxRounds
    BY SweepsAssumption DEF SweepsInit
  <1>3. SweepsShaped BY <1>1, <1>2 DEF SweepsInit, SweepsShaped
  <1> QED BY <1>3 DEF SweepsInit, SweepsInv, OwnForms, KeysTrue, SweepsTell

\* The invariant in every step.
LEMMA SweepsSteps ==
  ASSUME SweepsInv, [SweepsNext]_sweepVars
  PROVE  SweepsInv'
  <1>1. CASE UNCHANGED sweepVars
    BY <1>1 DEF sweepVars, SweepsInv, SweepsShaped, OwnForms, Fits, DeskFits, OwnForm, KeysTrue, SweepsTell
  <1>2. CASE SweepsNext
    BY <1>2, CreateFormKeeps, SubmitLoadKeeps, SubmitCommitKeeps, OtherSubmissionsKeep, ChaseStartKeeps,
       ChaseCommitKeeps, ChaseDiesKeeps DEF SweepsNext
  <1> QED BY <1>1, <1>2

\* Submissions land between what a sweep reads and what it writes: what the
\* version's own people submit is on a form of their company, a key has fired
\* once, and a sweep that committed told everybody it had found
\* (submit_driver_inputs, submit_values, scheduled_driver_overdue_sweep).
THEOREM SweepsCorrect == SweepsSpec => []SweepsInv
  BY SweepsInitial, SweepsSteps, PTL DEF SweepsSpec

\* A sweep that committed told everybody of what it found, each person once per
\* form and version in whatever month, and nobody whose company has one form is
\* chased for what one of that company submitted before the sweep.
THEOREM SweepsRightAlways == SweepsSpec => []SweepsRight
  <1>1. SweepsInv => SweepsRight
    <2> SUFFICES ASSUME SweepsInv PROVE SweepsRight OBVIOUS
    <2>1. ASSUME NEW o \in Owed,
                 \A i, j \in DOMAIN forms : forms[i] = FirmOf[o.v] /\ forms[j] = FirmOf[o.v] => i = j,
                 NEW x \in inputs, x.v = o.v, x.own
          PROVE  FALSE
      <3>1. x.form \in DOMAIN forms /\ forms[x.form] = FirmOf[o.v]
        BY <2>1, FormsFacts DEF SweepsInv, OwnForms, Fits, DeskFits, OwnForm
      <3>2. o.form \in DOMAIN forms /\ forms[o.form] = FirmOf[o.v] /\ ~\E y \in inputs : y.v = o.v /\ y.form = o.form
        BY DEF Owed
      <3>3. x.form = o.form BY <2>1, <3>1, <3>2
      <3> QED BY <2>1, <3>2, <3>3
    <2>2. ToldOnce BY KeysApart DEF ToldOnce, SweepsInv, KeysTrue
    <2> QED BY <2>1, <2>2 DEF SweepsRight, SubmittersNotChased, SweepsInv
  <1> QED BY <1>1, SweepsCorrect, PTL

\* Forms, submissions, deadlines and sweeps keep their types.
THEOREM SweepsTypesKept == SweepsSpec => []SweepsTypeOK
  <1>1. SweepsInv => SweepsTypeOK
    <2> SUFFICES ASSUME SweepsInv PROVE SweepsTypeOK OBVIOUS
    <2>1. \A x \in inputs : x.v \in Forecasts /\ x.form \in DOMAIN forms /\ x.own \in BOOLEAN
      BY FormsFacts DEF SweepsInv, OwnForms, Fits
    <2>2. \A d \in Desks : desk[d].form \in 0 .. Len(forms)
      <3>1. NoSubmission.form = 0 BY DEF NoSubmission
      <3> QED BY <3>1, FormsFacts DEF SweepsInv, OwnForms, DeskFits
    <2> QED BY <2>1, <2>2 DEF SweepsTypeOK, SweepsInv, SweepsShaped
  <1> QED BY <1>1, SweepsCorrect, PTL

-----------------------------------------------------------------------------
(***************************************************************************)
(* Reviews and their undo (ReviewUndo): a line's rows show what the audit  *)
(* rows about it tell, as long as its requests do not overlap.             *)
(***************************************************************************)

\* What a row of a line may hold.
Held == [status : {"none", "approve", "reject", "approved"}, by : Reviewers \cup {NoReviewer}, at : Nat]

ReviewRows == [kind : {"review"}, token : Nat, items : Seq(ReviewLines), wrote : Held, from : Nat, at : Nat]
UndoRows   == [kind : {"undo"}, token : Nat, from : Nat, at : Nat]
AuditRows  == ReviewRows \cup UndoRows
Priors     == UNION {[D -> Held] : D \in SUBSET ReviewLines}
Snapshots  == [by : Reviewers, prior : Priors, consumed : BOOLEAN]

-----------------------------------------------------------------------------
(* The story a trail tells of a line *)

AboutOf(T, S, l) == {i \in DOMAIN T : l \in DOMAIN S[T[i].token].prior}
UndoOf(T, i, j)  == T[i].kind = "undo" /\ T[j].kind = "review" /\ T[i].token = T[j].token

\* The reviews before n that no undo before n took back, and what they show.
KeptBy(T, S, l, n) ==
    {j \in AboutOf(T, S, l) : j < n /\ T[j].kind = "review" /\ \A i \in AboutOf(T, S, l) : i < n => ~UndoOf(T, i, j)}

Latest(K)           == CHOOSE j \in K : \A k \in K : k <= j
ShownBy(T, S, l, n) == IF KeptBy(T, S, l, n) = {} THEN Unreviewed ELSE T[Latest(KeptBy(T, S, l, n))].wrote

StackedIn(T, S, l) ==
    /\ \A i, j \in AboutOf(T, S, l) : i < j => T[i].at < T[j].from
    /\ \A j \in AboutOf(T, S, l) : T[j].kind = "review" => ~Repeated(T[j].items, l)
    /\ \A i, j, k \in AboutOf(T, S, l) :
          UndoOf(T, i, j) /\ T[k].kind = "review" /\ j < k /\ k < i =>
              \E m \in AboutOf(T, S, l) : m < i /\ UndoOf(T, m, k)

OnceIn(T, S, l) == \A i, j, k \in AboutOf(T, S, l) : UndoOf(T, i, k) /\ UndoOf(T, j, k) => i = j

\* Every audit row has its snapshot, and every snapshot its one review.
History(T, S) ==
    /\ T \in Seq(AuditRows) /\ S \in Seq(Snapshots)
    /\ \A i \in DOMAIN T : T[i].token \in DOMAIN S
    /\ \A i, j \in DOMAIN T : T[i].kind = "review" /\ T[j].kind = "review" /\ T[i].token = T[j].token => i = j
    /\ \A t \in DOMAIN S : \E j \in DOMAIN T : T[j].kind = "review" /\ T[j].token = t

\* A stacked line shows its latest kept review, and each review's snapshot has
\* what the line showed before it.
Shows(T, S, R, l) ==
    StackedIn(T, S, l) =>
        /\ OnceIn(T, S, l)
        /\ R[l] = ShownBy(T, S, l, Len(T) + 1)
        /\ \A j \in AboutOf(T, S, l) : T[j].kind = "review" => S[T[j].token].prior[l] = ShownBy(T, S, l, j)

\* Another audit row; the snapshots keep what they hold.
Longer(T, S, x, T2, S2) ==
    /\ x \in AuditRows /\ T2 = Append(T, x)
    /\ \A t \in DOMAIN S : t \in DOMAIN S2 /\ S2[t].prior = S[t].prior

\* A nonempty set of positions has a latest.
LEMMA LatestExists ==
  ASSUME NEW n \in Nat, NEW K, K # {}, K \subseteq 1 .. n
  PROVE  Latest(K) \in K /\ \A k \in K : k <= Latest(K)
  <1>1. \A k \in K : k \in Nat /\ n - k \in Nat OBVIOUS
  <1>2. PICK D : D = {n - k : k \in K} OBVIOUS
  <1>3. \A d \in D : d \in Nat BY <1>1, <1>2
  <1>4. D \in SUBSET Nat /\ D # {} BY <1>2, <1>3
  <1>5. PICK d \in D : \A e \in D : d <= e BY <1>4, LeastExists
  <1>6. PICK j \in K : d = n - j BY <1>2
  <1>7. ASSUME NEW k \in K PROVE k <= j
    <2>1. n - k \in D BY <1>2
    <2>2. n - j <= n - k BY <1>5, <1>6, <2>1
    <2>3. k \in Nat /\ j \in Nat BY <1>1
    <2> QED BY <2>2, <2>3
  <1> QED BY <1>7 DEF Latest

\* A trail that is longer by one row has the rows it had.
LEMMA LongerTrail ==
  ASSUME NEW T, NEW S, History(T, S), NEW x, NEW T2, NEW S2, Longer(T, S, x, T2, S2), NEW n, n = Len(T) + 1
  PROVE  /\ n \in Nat /\ n > 0 /\ Len(T2) = n /\ T2[n] = x /\ DOMAIN T = 1 .. n - 1 /\ DOMAIN T2 = 1 .. n
         /\ \A i \in DOMAIN T : T2[i] = T[i] /\ i \in Nat /\ i < n /\ i \in DOMAIN T2
  BY DEF History, Longer

\* Which rows of a longer trail are about a line.
LEMMA LongerAbout ==
  ASSUME NEW T, NEW S, History(T, S), NEW x, NEW T2, NEW S2, Longer(T, S, x, T2, S2), NEW l
  PROVE  /\ \A i \in DOMAIN T : i \in AboutOf(T2, S2, l) <=> i \in AboutOf(T, S, l)
         /\ Len(T) + 1 \in AboutOf(T2, S2, l) <=> l \in DOMAIN S2[x.token].prior
         /\ AboutOf(T2, S2, l) \subseteq 1 .. Len(T) + 1 /\ AboutOf(T, S, l) \subseteq DOMAIN T
         /\ \A i \in AboutOf(T2, S2, l) : i = Len(T) + 1 \/ i \in AboutOf(T, S, l)
  <1>1. PICK n : n = Len(T) + 1 OBVIOUS
  <1>2. /\ n \in Nat /\ n > 0 /\ T2[n] = x /\ DOMAIN T = 1 .. n - 1 /\ DOMAIN T2 = 1 .. n
        /\ \A i \in DOMAIN T : T2[i] = T[i] /\ i \in DOMAIN T2
    BY <1>1, LongerTrail
  <1>3. ASSUME NEW i \in DOMAIN T PROVE i \in AboutOf(T2, S2, l) <=> i \in AboutOf(T, S, l)
    <2>1. T[i].token \in DOMAIN S BY DEF History
    <2>2. S2[T[i].token].prior = S[T[i].token].prior BY <2>1 DEF Longer
    <2> QED BY <1>2, <2>2 DEF AboutOf
  <1>4. n \in AboutOf(T2, S2, l) <=> l \in DOMAIN S2[x.token].prior BY <1>2 DEF AboutOf
  <1>5. AboutOf(T2, S2, l) \subseteq 1 .. n /\ AboutOf(T, S, l) \subseteq DOMAIN T BY <1>2 DEF AboutOf
  <1>6. \A i \in 1 .. n : i = n \/ i \in DOMAIN T BY <1>2
  <1> QED BY <1>1, <1>3, <1>4, <1>5, <1>6

\* What a row of the trail kept and showed stays in a longer trail.
LEMMA LongerKept ==
  ASSUME NEW T, NEW S, History(T, S), NEW x, NEW T2, NEW S2, Longer(T, S, x, T2, S2), NEW l,
         NEW m \in 1 .. Len(T) + 1
  PROVE  KeptBy(T2, S2, l, m) = KeptBy(T, S, l, m) /\ ShownBy(T2, S2, l, m) = ShownBy(T, S, l, m)
  <1>1. PICK n : n = Len(T) + 1 OBVIOUS
  <1>2. /\ n \in Nat /\ n > 0 /\ DOMAIN T = 1 .. n - 1 /\ DOMAIN T2 = 1 .. n
        /\ \A i \in DOMAIN T : T2[i] = T[i]
    BY <1>1, LongerTrail
  <1>3. \A i \in DOMAIN T : i \in AboutOf(T2, S2, l) <=> i \in AboutOf(T, S, l) BY LongerAbout
  <1>4. AboutOf(T, S, l) \subseteq DOMAIN T /\ AboutOf(T2, S2, l) \subseteq 1 .. n BY <1>1, LongerAbout
  <1>5. \A i \in 1 .. n : i < m => i \in DOMAIN T BY <1>1, <1>2
  <1>6. \A i, j \in DOMAIN T : UndoOf(T2, i, j) <=> UndoOf(T, i, j) BY <1>2 DEF UndoOf
  <1>7. KeptBy(T2, S2, l, m) = KeptBy(T, S, l, m)
    BY <1>2, <1>3, <1>4, <1>5, <1>6 DEF KeptBy
  <1>8. ASSUME KeptBy(T, S, l, m) # {} PROVE Latest(KeptBy(T, S, l, m)) \in DOMAIN T
    <2>1. PICK K : K = KeptBy(T, S, l, m) OBVIOUS
    <2>2. K # {} /\ K \subseteq 1 .. n - 1 BY <1>2, <1>4, <1>8, <2>1 DEF KeptBy
    <2>3. PICK h \in Nat : h = n - 1 BY <1>2
    <2>4. Latest(K) \in K BY <2>2, <2>3, LatestExists
    <2> QED BY <1>2, <2>1, <2>2, <2>4
  <1> QED BY <1>2, <1>7, <1>8 DEF ShownBy

\* What is stacked in a longer trail was stacked before.
LEMMA LongerStacked ==
  ASSUME NEW T, NEW S, History(T, S), NEW x, NEW T2, NEW S2, Longer(T, S, x, T2, S2), NEW l, StackedIn(T2, S2, l)
  PROVE  StackedIn(T, S, l)
  <1>1. PICK n : n = Len(T) + 1 OBVIOUS
  <1>2. /\ n \in Nat /\ n > 0 /\ DOMAIN T = 1 .. n - 1 /\ DOMAIN T2 = 1 .. n
        /\ \A i \in DOMAIN T : T2[i] = T[i]
    BY <1>1, LongerTrail
  <1>3. \A i \in DOMAIN T : i \in AboutOf(T2, S2, l) <=> i \in AboutOf(T, S, l) BY LongerAbout
  <1>4. AboutOf(T, S, l) \subseteq DOMAIN T /\ AboutOf(T2, S2, l) \subseteq 1 .. n BY <1>1, LongerAbout
  <1>5. \A i, j \in DOMAIN T : UndoOf(T2, i, j) <=> UndoOf(T, i, j) BY <1>2 DEF UndoOf
  <1>6. \A i, j \in AboutOf(T, S, l) : i < j => T[i].at < T[j].from BY <1>2, <1>3, <1>4 DEF StackedIn
  <1>7. \A j \in AboutOf(T, S, l) : T[j].kind = "review" => ~Repeated(T[j].items, l)
    BY <1>2, <1>3, <1>4 DEF StackedIn
  <1>8. ASSUME NEW i \in AboutOf(T, S, l), NEW j \in AboutOf(T, S, l), NEW k \in AboutOf(T, S, l),
               UndoOf(T, i, j), T[k].kind = "review", j < k, k < i
        PROVE  \E m \in AboutOf(T, S, l) : m < i /\ UndoOf(T, m, k)
    <2>1. i \in DOMAIN T /\ j \in DOMAIN T /\ k \in DOMAIN T BY <1>4
    <2>2. UndoOf(T2, i, j) /\ T2[k].kind = "review" BY <1>2, <1>5, <1>8, <2>1
    <2>3. PICK m \in AboutOf(T2, S2, l) : m < i /\ UndoOf(T2, m, k) BY <1>3, <1>8, <2>1, <2>2 DEF StackedIn
    <2>4. m \in DOMAIN T BY <1>2, <1>4, <2>1, <2>3
    <2> QED BY <1>3, <1>5, <2>1, <2>3, <2>4
  <1> QED BY <1>6, <1>7, <1>8 DEF StackedIn

\* A row that is not about the line tells nothing new of it.
LEMMA Elsewhere ==
  ASSUME NEW T, NEW S, History(T, S), NEW x, NEW T2, NEW S2, Longer(T, S, x, T2, S2), NEW l,
         NEW R, NEW R2, Shows(T, S, R, l), l \notin DOMAIN S2[x.token].prior, R2[l] = R[l]
  PROVE  Shows(T2, S2, R2, l)
  <1> SUFFICES ASSUME StackedIn(T2, S2, l)
               PROVE  /\ OnceIn(T2, S2, l)
                      /\ R2[l] = ShownBy(T2, S2, l, Len(T2) + 1)
                      /\ \A j \in AboutOf(T2, S2, l) : T2[j].kind = "review" =>
                            S2[T2[j].token].prior[l] = ShownBy(T2, S2, l, j)
    BY DEF Shows
  <1>1. PICK n : n = Len(T) + 1 OBVIOUS
  <1>2. /\ n \in Nat /\ n > 0 /\ Len(T2) = n /\ DOMAIN T = 1 .. n - 1
        /\ \A i \in DOMAIN T : T2[i] = T[i]
    BY <1>1, LongerTrail
  <1>3. /\ \A i \in AboutOf(T2, S2, l) : i \in AboutOf(T, S, l) /\ i \in DOMAIN T
    BY <1>1, LongerAbout
  <1>4. StackedIn(T, S, l) BY LongerStacked
  <1>5. /\ OnceIn(T, S, l) /\ R[l] = ShownBy(T, S, l, n)
        /\ \A j \in AboutOf(T, S, l) : T[j].kind = "review" => S[T[j].token].prior[l] = ShownBy(T, S, l, j)
    BY <1>1, <1>4 DEF Shows
  <1>6. OnceIn(T2, S2, l) BY <1>2, <1>3, <1>5 DEF OnceIn, UndoOf
  <1>7. ShownBy(T2, S2, l, n) = ShownBy(T, S, l, n)
    <2>1. n \in 1 .. Len(T) + 1 BY <1>1, <1>2
    <2> QED BY <2>1, LongerKept
  <1>8. KeptBy(T2, S2, l, n + 1) = KeptBy(T2, S2, l, n)
    <2>1. \A i \in AboutOf(T2, S2, l) : i < n /\ i < n + 1 BY <1>2, <1>3
    <2> QED BY <2>1 DEF KeptBy
  <1>9. R2[l] = ShownBy(T2, S2, l, n + 1) BY <1>5, <1>7, <1>8 DEF ShownBy
  <1>10. ASSUME NEW j \in AboutOf(T2, S2, l), T2[j].kind = "review"
         PROVE  S2[T2[j].token].prior[l] = ShownBy(T2, S2, l, j)
    <2>1. j \in AboutOf(T, S, l) /\ j \in DOMAIN T /\ T2[j] = T[j] BY <1>2, <1>3
    <2>2. T[j].token \in DOMAIN S BY <2>1 DEF History
    <2>3. S2[T2[j].token].prior = S[T[j].token].prior BY <2>1, <2>2 DEF Longer
    <2>4. j \in 1 .. Len(T) + 1 BY <1>1, <1>2, <2>1
    <2>5. ShownBy(T2, S2, l, j) = ShownBy(T, S, l, j) BY <2>4, LongerKept
    <2> QED BY <1>5, <1>10, <2>1, <2>3, <2>5
  <1> QED BY <1>2, <1>6, <1>9, <1>10

\* What both kinds of row about the line keep of the story before them.
LEMMA Earlier ==
  ASSUME NEW T, NEW S, History(T, S), NEW x, NEW T2, NEW S2, Longer(T, S, x, T2, S2), NEW l,
         NEW R, Shows(T, S, R, l), StackedIn(T2, S2, l)
  PROVE  /\ OnceIn(T, S, l) /\ R[l] = ShownBy(T2, S2, l, Len(T) + 1)
         /\ \A j \in AboutOf(T2, S2, l) : j < Len(T) + 1 /\ T2[j].kind = "review" =>
               S2[T2[j].token].prior[l] = ShownBy(T2, S2, l, j)
  <1>1. PICK n : n = Len(T) + 1 OBVIOUS
  <1>2. /\ n \in Nat /\ n > 0 /\ DOMAIN T = 1 .. n - 1 /\ \A i \in DOMAIN T : T2[i] = T[i]
    BY <1>1, LongerTrail
  <1>3. \A i \in AboutOf(T2, S2, l) : i = n \/ (i \in AboutOf(T, S, l) /\ i \in DOMAIN T)
    BY <1>1, LongerAbout
  <1>4. StackedIn(T, S, l) BY LongerStacked
  <1>5. /\ OnceIn(T, S, l) /\ R[l] = ShownBy(T, S, l, n)
        /\ \A j \in AboutOf(T, S, l) : T[j].kind = "review" => S[T[j].token].prior[l] = ShownBy(T, S, l, j)
    BY <1>1, <1>4 DEF Shows
  <1>6. ShownBy(T2, S2, l, n) = ShownBy(T, S, l, n)
    <2>1. n \in 1 .. Len(T) + 1 BY <1>1, <1>2
    <2> QED BY <2>1, LongerKept
  <1>7. ASSUME NEW j \in AboutOf(T2, S2, l), j < n, T2[j].kind = "review"
        PROVE  S2[T2[j].token].prior[l] = ShownBy(T2, S2, l, j)
    <2>1. j \in AboutOf(T, S, l) /\ j \in DOMAIN T /\ T2[j] = T[j] BY <1>2, <1>3, <1>7
    <2>2. T[j].token \in DOMAIN S BY <2>1 DEF History
    <2>3. S2[T2[j].token].prior = S[T[j].token].prior BY <2>1, <2>2 DEF Longer
    <2>4. j \in 1 .. Len(T) + 1 BY <1>1, <1>2, <2>1
    <2>5. ShownBy(T2, S2, l, j) = ShownBy(T, S, l, j) BY <2>4, LongerKept
    <2> QED BY <1>5, <1>7, <2>1, <2>3, <2>5
  <1> QED BY <1>1, <1>5, <1>6, <1>7

\* A review of the line that wrote all its columns, and kept what it showed.
LEMMA ReviewShows ==
  ASSUME NEW T, NEW S, History(T, S), NEW x, NEW T2, NEW S2, Longer(T, S, x, T2, S2), NEW l,
         NEW R, NEW R2, Shows(T, S, R, l), l \in DOMAIN S2[x.token].prior,
         x.kind = "review", \A i \in DOMAIN T : T[i].token # x.token,
         StackedIn(T2, S2, l) => R2[l] = x.wrote /\ S2[x.token].prior[l] = R[l]
  PROVE  Shows(T2, S2, R2, l)
  <1> SUFFICES ASSUME StackedIn(T2, S2, l)
               PROVE  /\ OnceIn(T2, S2, l)
                      /\ R2[l] = ShownBy(T2, S2, l, Len(T2) + 1)
                      /\ \A j \in AboutOf(T2, S2, l) : T2[j].kind = "review" =>
                            S2[T2[j].token].prior[l] = ShownBy(T2, S2, l, j)
    BY DEF Shows
  <1>1. PICK n : n = Len(T) + 1 OBVIOUS
  <1>2. /\ n \in Nat /\ n > 0 /\ Len(T2) = n /\ DOMAIN T = 1 .. n - 1 /\ T2[n] = x
        /\ \A i \in DOMAIN T : T2[i] = T[i] /\ i < n
    BY <1>1, LongerTrail
  <1>3. /\ \A i \in AboutOf(T2, S2, l) : i = n \/ (i \in AboutOf(T, S, l) /\ i \in DOMAIN T)
        /\ n \in AboutOf(T2, S2, l) /\ AboutOf(T2, S2, l) \subseteq 1 .. n
    BY <1>1, LongerAbout
  <1>4. /\ OnceIn(T, S, l) /\ R[l] = ShownBy(T2, S2, l, n)
        /\ \A j \in AboutOf(T2, S2, l) : j < n /\ T2[j].kind = "review" =>
               S2[T2[j].token].prior[l] = ShownBy(T2, S2, l, j)
    BY <1>1, Earlier
  <1>5. \A i \in AboutOf(T2, S2, l), j \in AboutOf(T2, S2, l) :
           UndoOf(T2, i, j) => /\ i \in AboutOf(T, S, l) /\ j \in AboutOf(T, S, l) /\ UndoOf(T, i, j)
                               /\ i # n /\ j # n
    BY <1>2, <1>3 DEF UndoOf
  <1>6. OnceIn(T2, S2, l) BY <1>4, <1>5 DEF OnceIn
  <1>7. n \in KeptBy(T2, S2, l, n + 1) BY <1>2, <1>3, <1>5 DEF KeptBy
  <1>8. KeptBy(T2, S2, l, n + 1) \subseteq 1 .. n BY <1>3 DEF KeptBy
  <1>9. Latest(KeptBy(T2, S2, l, n + 1)) = n
    <2>1. PICK K : K = KeptBy(T2, S2, l, n + 1) OBVIOUS
    <2>2. K # {} /\ K \subseteq 1 .. n /\ n \in K BY <1>7, <1>8, <2>1
    <2>3. Latest(K) \in K /\ \A k \in K : k <= Latest(K) BY <1>2, <2>2, LatestExists
    <2>4. Latest(K) \in 1 .. n /\ n <= Latest(K) BY <2>2, <2>3
    <2> QED BY <1>2, <2>1, <2>4
  <1>10. ShownBy(T2, S2, l, n + 1) = x.wrote BY <1>2, <1>7, <1>9 DEF ShownBy
  <1>11. ASSUME NEW j \in AboutOf(T2, S2, l), T2[j].kind = "review"
         PROVE  S2[T2[j].token].prior[l] = ShownBy(T2, S2, l, j)
    <2>1. CASE j = n BY <1>2, <1>4, <2>1
    <2>2. CASE j < n BY <1>4, <1>11, <2>2
    <2> QED BY <1>2, <1>3, <2>1, <2>2
  <1> QED BY <1>2, <1>6, <1>10, <1>11

\* An undo that restored what its review kept, the first of its token.
LEMMA UndoShows ==
  ASSUME NEW T, NEW S, History(T, S), NEW x, NEW T2, NEW S2, Longer(T, S, x, T2, S2), NEW l,
         NEW R, NEW R2, Shows(T, S, R, l), l \in DOMAIN S2[x.token].prior,
         x.kind = "undo", x.token \in DOMAIN S,
         StackedIn(T2, S2, l) =>
            /\ R2[l] = S[x.token].prior[l]
            /\ \A i \in DOMAIN T : T[i].kind = "undo" => T[i].token # x.token
  PROVE  Shows(T2, S2, R2, l)
  <1> SUFFICES ASSUME StackedIn(T2, S2, l)
               PROVE  /\ OnceIn(T2, S2, l)
                      /\ R2[l] = ShownBy(T2, S2, l, Len(T2) + 1)
                      /\ \A j \in AboutOf(T2, S2, l) : T2[j].kind = "review" =>
                            S2[T2[j].token].prior[l] = ShownBy(T2, S2, l, j)
    BY DEF Shows
  <1>1. PICK n : n = Len(T) + 1 OBVIOUS
  <1>2. /\ n \in Nat /\ n > 0 /\ Len(T2) = n /\ DOMAIN T = 1 .. n - 1 /\ T2[n] = x
        /\ \A i \in DOMAIN T : T2[i] = T[i] /\ i < n
    BY <1>1, LongerTrail
  <1>3. /\ \A i \in AboutOf(T2, S2, l) : i = n \/ (i \in AboutOf(T, S, l) /\ i \in DOMAIN T)
        /\ n \in AboutOf(T2, S2, l) /\ AboutOf(T2, S2, l) \subseteq 1 .. n
        /\ \A i \in DOMAIN T : i \in AboutOf(T2, S2, l) <=> i \in AboutOf(T, S, l)
    BY <1>1, LongerAbout
  <1>4. /\ OnceIn(T, S, l)
        /\ \A j \in AboutOf(T2, S2, l) : j < n /\ T2[j].kind = "review" =>
               S2[T2[j].token].prior[l] = ShownBy(T2, S2, l, j)
    BY <1>1, Earlier
  <1>5. \A i \in DOMAIN T : T[i].kind = "undo" => T[i].token # x.token OBVIOUS
  <1>6. R2[l] = S[x.token].prior[l] /\ S2[x.token].prior = S[x.token].prior BY DEF Longer
  <1>7. PICK j \in DOMAIN T : T[j].kind = "review" /\ T[j].token = x.token BY DEF History
  <1>8. j \in AboutOf(T2, S2, l) /\ T2[j] = T[j] /\ j < n /\ UndoOf(T2, n, j)
    <2>1. T2[j] = T[j] /\ j < n BY <1>2
    <2>2. j \in 1 .. Len(T2) BY <1>2
    <2>3. DOMAIN T2 = 1 .. n BY <1>1, LongerTrail
    <2> QED BY <1>2, <1>7, <2>1, <2>2, <2>3 DEF AboutOf, UndoOf
  <1>9. ASSUME NEW i \in AboutOf(T2, S2, l), i < n PROVE ~UndoOf(T2, i, j)
    BY <1>2, <1>3, <1>5, <1>7, <1>8, <1>9 DEF UndoOf
  <1>10. OnceIn(T2, S2, l)
    <2> SUFFICES ASSUME NEW i \in AboutOf(T2, S2, l), NEW h \in AboutOf(T2, S2, l), NEW k \in AboutOf(T2, S2, l),
                        UndoOf(T2, i, k), UndoOf(T2, h, k)
                 PROVE  i = h
      BY DEF OnceIn
    <2>1. k # n /\ k \in DOMAIN T /\ k \in AboutOf(T, S, l) BY <1>2, <1>3 DEF UndoOf
    <2>2. CASE i = n BY <1>2, <1>3, <1>5, <2>2 DEF UndoOf
    <2>3. CASE h = n BY <1>2, <1>3, <1>5, <2>3 DEF UndoOf
    <2>4. CASE i # n /\ h # n
      <3>1. i \in AboutOf(T, S, l) /\ h \in AboutOf(T, S, l) /\ i \in DOMAIN T /\ h \in DOMAIN T BY <1>3, <2>4
      <3>2. UndoOf(T, i, k) /\ UndoOf(T, h, k) BY <1>2, <2>1, <3>1 DEF UndoOf
      <3> QED BY <1>4, <2>1, <3>1, <3>2 DEF OnceIn
    <2> QED BY <2>2, <2>3, <2>4
  <1>11. KeptBy(T2, S2, l, n + 1) = KeptBy(T2, S2, l, j)
    <2>1. ASSUME NEW k \in KeptBy(T2, S2, l, n + 1) PROVE k \in KeptBy(T2, S2, l, j)
      <3>1. /\ k \in AboutOf(T2, S2, l) /\ T2[k].kind = "review" /\ k \in Nat /\ k <= n
            /\ \A i \in AboutOf(T2, S2, l) : i < n + 1 => ~UndoOf(T2, i, k)
        BY <1>2, <1>3 DEF KeptBy
      <3>2. k # n BY <1>2, <3>1
      <3>3. k # j BY <1>2, <1>3, <1>8, <3>1
      <3>4. ~(j < k)
        <4> SUFFICES ASSUME j < k PROVE FALSE OBVIOUS
        <4>1. k < n BY <1>2, <3>1, <3>2
        <4>2. PICK m \in AboutOf(T2, S2, l) : m < n /\ UndoOf(T2, m, k)
          BY <1>3, <1>8, <3>1, <4>1 DEF StackedIn
        <4>3. m < n + 1 BY <1>2, <1>3, <4>2
        <4> QED BY <3>1, <4>2, <4>3
      <3>5. k < j BY <1>2, <3>1, <3>3, <3>4
      <3>6. \A i \in AboutOf(T2, S2, l) : i < j => i < n + 1 BY <1>2, <1>3
      <3> QED BY <3>1, <3>5, <3>6 DEF KeptBy
    <2>2. ASSUME NEW k \in KeptBy(T2, S2, l, j) PROVE k \in KeptBy(T2, S2, l, n + 1)
      <3>1. /\ k \in AboutOf(T2, S2, l) /\ T2[k].kind = "review" /\ k \in Nat /\ k < j /\ k < n
            /\ \A i \in AboutOf(T2, S2, l) : i < j => ~UndoOf(T2, i, k)
        BY <1>2, <1>3, <1>8 DEF KeptBy
      <3>2. ASSUME NEW i \in AboutOf(T2, S2, l), UndoOf(T2, i, k) PROVE FALSE
        <4>1. i \in 1 .. n BY <1>3
        <4>2. i # n
          <5>1. SUFFICES ASSUME i = n PROVE FALSE OBVIOUS
          <5>2. T2[k].token = x.token BY <1>2, <3>2, <5>1 DEF UndoOf
          <5>3. k \in DOMAIN T /\ T2[k] = T[k] BY <1>2, <3>1, <1>3
          <5>4. k = j BY <1>7, <3>1, <5>2, <5>3 DEF History
          <5> QED BY <1>2, <3>1, <5>4
        <4>3. i # j BY <1>7, <1>8, <3>2 DEF UndoOf
        <4>4. ~(i < j) BY <3>1, <3>2
        <4>5. j < i /\ i < n BY <1>2, <4>1, <4>2, <4>3, <4>4
        <4>6. PICK m \in AboutOf(T2, S2, l) : m < i /\ UndoOf(T2, m, j)
          BY <1>7, <1>8, <3>1, <3>2, <4>5 DEF StackedIn
        <4>7. m < n BY <1>2, <1>3, <4>1, <4>5, <4>6
        <4> QED BY <1>9, <4>6, <4>7
      <3> QED BY <1>2, <3>1, <3>2 DEF KeptBy
    <2> QED BY <2>1, <2>2
  <1>12. R2[l] = ShownBy(T2, S2, l, n + 1)
    <2>1. S2[T2[j].token].prior[l] = ShownBy(T2, S2, l, j) BY <1>4, <1>7, <1>8
    <2>2. ShownBy(T2, S2, l, n + 1) = ShownBy(T2, S2, l, j) BY <1>11 DEF ShownBy
    <2> QED BY <1>6, <1>7, <1>8, <2>1, <2>2
  <1>13. ASSUME NEW h \in AboutOf(T2, S2, l), T2[h].kind = "review"
         PROVE  S2[T2[h].token].prior[l] = ShownBy(T2, S2, l, h)
    <2>1. h # n BY <1>2, <1>13
    <2>2. h < n BY <1>2, <1>3, <2>1
    <2> QED BY <1>4, <1>13, <2>2
  <1> QED BY <1>2, <1>10, <1>12, <1>13

-----------------------------------------------------------------------------
(* The requests in flight, and the invariant *)

ReviewRequests == [kind : {"review"}, by : Reviewers, items : Seq(ReviewLines), verdict : {"approve", "reject", "approved"},
                   loaded : [ReviewLines -> Held], from : Nat]
UndoRequests   == [kind : {"undo"}, token : Nat, loaded : [ReviewLines -> Held], from : Nat]

\* What the request loaded is what is stored, unless a row since is about the line.
Loaded(r, T, S, R, now) ==
    /\ r.from <= now
    /\ \A l \in ReviewLines : (\A i \in AboutOf(T, S, l) : T[i].at < r.from) => r.loaded[l] = R[l]

\* An undo in flight has its snapshot, whose undos are all later than its load.
FirstToTake(r, T, S) ==
    /\ r.token \in DOMAIN S
    /\ \A i \in DOMAIN T : T[i].kind = "undo" /\ T[i].token = r.token => r.from <= T[i].at

Serving(r, T, S, R, now) ==
    \/ r = Idle
    \/ r \in ReviewRequests /\ Loaded(r, T, S, R, now)
    \/ r \in UndoRequests /\ Loaded(r, T, S, R, now) /\ FirstToTake(r, T, S)

Stamped(T, S, now) ==
    /\ now \in Nat
    /\ \A i \in DOMAIN T : T[i].at <= now /\ (T[i].kind = "undo" => S[T[i].token].consumed)

\* Each line shows what its audit rows tell, and each request holds what was
\* stored when it loaded.
UndoInv ==
    /\ History(trail, snapshot) /\ Stamped(trail, snapshot, tick)
    /\ review \in [ReviewLines -> Held]
    /\ DOMAIN request = Servers /\ \A p \in Servers : Serving(request[p], trail, snapshot, review, tick)
    /\ \A l \in ReviewLines : Shows(trail, snapshot, review, l)

\* An update of a row is a row; writing over what was loaded writes all of it.
LEMMA UpdatedHeld ==
  ASSUME NEW a \in Held, NEW b \in Held, NEW c \in Held
  PROVE  Updated(a, b, c) \in Held /\ Updated(a, a, c) = c
  <1>1. DOMAIN c = {"status", "by", "at"} BY DEF Held
  <1>2. PICK u : u = Updated(a, b, c) OBVIOUS
  <1>3. u = [f \in {"status", "by", "at"} |-> IF c[f] # b[f] THEN c[f] ELSE a[f]] BY <1>1, <1>2 DEF Updated
  <1>4. u = [status |-> IF c.status # b.status THEN c.status ELSE a.status,
             by |-> IF c.by # b.by THEN c.by ELSE a.by,
             at |-> IF c.at # b.at THEN c.at ELSE a.at]
    BY <1>3
  <1>5. u \in Held BY <1>4 DEF Held
  <1>6. Updated(a, a, c) = [f \in DOMAIN c |-> c[f]] BY DEF Updated
  <1>7. c = [f \in DOMAIN c |-> c[f]] BY DEF Held
  <1> QED BY <1>2, <1>5, <1>6, <1>7

\* A request loaded at the new time holds what is stored.
LEMMA FreshLoad ==
  ASSUME NEW r, NEW T, NEW S, NEW R, NEW now, r.loaded = R, r.from = now, now \in Nat
  PROVE  Loaded(r, T, S, R, now)
  BY DEF Loaded

\* A request stays what it is while time passes.
LEMMA LaterServing ==
  ASSUME NEW r, NEW T, NEW S, NEW R, NEW now \in Nat, Serving(r, T, S, R, now)
  PROVE  Serving(r, T, S, R, now + 1)
  <1>1. Loaded(r, T, S, R, now) /\ r.from \in Nat => Loaded(r, T, S, R, now + 1) BY DEF Loaded
  <1> QED BY <1>1 DEF Serving, ReviewRequests, UndoRequests

\* Another request's commit leaves what this one may rely on.
LEMMA StillServing ==
  ASSUME NEW r, NEW T, NEW S, History(T, S), NEW R, NEW now \in Nat, Serving(r, T, S, R, now),
         NEW x, NEW T2, NEW S2, NEW R2, Longer(T, S, x, T2, S2), x.at = now + 1,
         \A l \in ReviewLines : l \notin DOMAIN S2[x.token].prior => R2[l] = R[l]
  PROVE  Serving(r, T2, S2, R2, now + 1)
  <1> SUFFICES ASSUME r # Idle PROVE Serving(r, T2, S2, R2, now + 1) BY DEF Serving
  <1>1. r.from \in Nat /\ Loaded(r, T, S, R, now) BY DEF Serving, ReviewRequests, UndoRequests
  <1>2. PICK n : n = Len(T) + 1 OBVIOUS
  <1>3. /\ n \in Nat /\ T2[n] = x /\ DOMAIN T = 1 .. n - 1 /\ DOMAIN T2 = 1 .. n
        /\ \A i \in DOMAIN T : T2[i] = T[i]
    BY <1>2, LongerTrail
  <1>4. Loaded(r, T2, S2, R2, now + 1)
    <2>1. r.from <= now /\ r.from <= now + 1 BY <1>1 DEF Loaded
    <2>2. ASSUME NEW l \in ReviewLines, \A i \in AboutOf(T2, S2, l) : T2[i].at < r.from
          PROVE  r.loaded[l] = R2[l]
      <3>1. n \notin AboutOf(T2, S2, l) BY <1>1, <1>3, <2>1, <2>2
      <3>2. R2[l] = R[l] BY <1>2, <3>1, LongerAbout
      <3>3. \A i \in AboutOf(T, S, l) : i \in DOMAIN T /\ i \in AboutOf(T2, S2, l) BY LongerAbout
      <3>4. \A i \in AboutOf(T, S, l) : T[i].at < r.from BY <1>3, <2>2, <3>3
      <3> QED BY <1>1, <3>2, <3>4 DEF Loaded
    <2> QED BY <2>1, <2>2 DEF Loaded
  <1>5. FirstToTake(r, T, S) => FirstToTake(r, T2, S2)
    <2> SUFFICES ASSUME FirstToTake(r, T, S) PROVE FirstToTake(r, T2, S2) OBVIOUS
    <2>1. r.token \in DOMAIN S2 BY DEF FirstToTake, Longer
    <2>2. r.from <= x.at BY <1>1 DEF Loaded
    <2>3. ASSUME NEW i \in DOMAIN T2, T2[i].kind = "undo", T2[i].token = r.token PROVE r.from <= T2[i].at
      <3>1. CASE i = n BY <1>3, <2>2, <3>1
      <3>2. CASE i \in DOMAIN T BY <1>3, <2>3, <3>2 DEF FirstToTake
      <3> QED BY <1>3, <3>1, <3>2
    <2> QED BY <2>1, <2>3 DEF FirstToTake
  <1> QED BY <1>4, <1>5 DEF Serving

\* A stacked line has no row since the load of the request that now commits.
LEMMA StackedLoad ==
  ASSUME NEW T, NEW S, History(T, S), NEW x, NEW T2, NEW S2, Longer(T, S, x, T2, S2), NEW l \in ReviewLines,
         l \in DOMAIN S2[x.token].prior, StackedIn(T2, S2, l)
  PROVE  \A i \in AboutOf(T, S, l) : T[i].at < x.from
  <1>1. PICK n : n = Len(T) + 1 OBVIOUS
  <1>2. /\ n \in Nat /\ T2[n] = x /\ DOMAIN T = 1 .. n - 1
        /\ \A i \in DOMAIN T : T2[i] = T[i] /\ i < n
    BY <1>1, LongerTrail
  <1>3. n \in AboutOf(T2, S2, l) /\ \A i \in AboutOf(T, S, l) : i \in DOMAIN T /\ i \in AboutOf(T2, S2, l)
    BY <1>1, LongerAbout
  <1> QED BY <1>2, <1>3 DEF StackedIn

\* The invariant at the start.
LEMMA UndoInvInit == ASSUME ReviewInit PROVE UndoInv
  <1> USE DEF ReviewInit
  <1>1. History(trail, snapshot) BY DEF History
  <1>2. Stamped(trail, snapshot, tick) BY DEF Stamped
  <1>3. Unreviewed \in Held BY DEF Unreviewed, Held
  <1>4. review \in [ReviewLines -> Held] BY <1>3
  <1>5. DOMAIN request = Servers /\ \A p \in Servers : Serving(request[p], trail, snapshot, review, tick) BY DEF Serving
  <1>6. ASSUME NEW l \in ReviewLines PROVE Shows(trail, snapshot, review, l)
    <2>1. AboutOf(trail, snapshot, l) = {} BY DEF AboutOf
    <2> QED BY <2>1 DEF Shows, OnceIn, ShownBy, KeptBy
  <1> QED BY <1>1, <1>2, <1>4, <1>5, <1>6 DEF UndoInv

\* The invariant when a request reads the lines.
LEMMA LoadInv ==
  ASSUME UndoInv, NEW p \in Servers, NEW r, request' = [request EXCEPT ![p] = r],
         r \in ReviewRequests \/ (r \in UndoRequests /\ FirstToTake(r, trail, snapshot)),
         r.loaded = review, r.from = tick + 1, tick' = tick + 1, UNCHANGED <<review, snapshot, trail>>
  PROVE  UndoInv'
  <1> USE DEF UndoInv
  <1>1. tick \in Nat /\ tick + 1 \in Nat BY DEF Stamped
  <1>2. Loaded(r, trail, snapshot, review, tick + 1) BY <1>1, FreshLoad
  <1>3. Serving(r, trail, snapshot, review, tick + 1) BY <1>2 DEF Serving
  <1>4. \A q \in Servers : Serving(request[q], trail, snapshot, review, tick + 1) BY <1>1, LaterServing
  <1>5. Stamped(trail, snapshot, tick + 1)
    <2>1. \A i \in DOMAIN trail : trail[i].at \in Nat /\ trail[i].at <= tick
      BY DEF History, Stamped, AuditRows, ReviewRows, UndoRows
    <2> QED BY <1>1, <2>1 DEF Stamped
  <1>6. DOMAIN request' = Servers /\ \A q \in Servers : request'[q] = IF q = p THEN r ELSE request[q] OBVIOUS
  <1>7. \A q \in Servers : Serving(request'[q], trail', snapshot', review', tick') BY <1>3, <1>4, <1>6
  <1> QED BY <1>5, <1>6, <1>7

\* The invariant when a request's lines and its row of the trail are committed.
LEMMA CommitInv ==
  ASSUME UndoInv, NEW p \in Servers, request' = [request EXCEPT ![p] = Idle], NEW x,
         Longer(trail, snapshot, x, trail', snapshot'), x.at = tick + 1, tick' = tick + 1,
         History(trail', snapshot'), Stamped(trail', snapshot', tick'),
         \A l \in ReviewLines : review'[l] \in Held, DOMAIN review' = ReviewLines,
         \E f : review' = [l \in ReviewLines |-> f[l]],
         \A l \in ReviewLines : l \notin DOMAIN snapshot'[x.token].prior => review'[l] = review[l],
         \A l \in ReviewLines : l \in DOMAIN snapshot'[x.token].prior => Shows(trail', snapshot', review', l)
  PROVE  UndoInv'
  <1> USE DEF UndoInv
  <1>1. tick \in Nat BY DEF Stamped
  <1>2. review' \in [ReviewLines -> Held] OBVIOUS
  <1>3. ASSUME NEW l \in ReviewLines PROVE Shows(trail', snapshot', review', l)
    <2>1. CASE l \notin DOMAIN snapshot'[x.token].prior
      <3>1. review'[l] = review[l] BY <2>1
      <3> QED BY <2>1, <3>1, Elsewhere
    <2> QED BY <2>1
  <1>4. ASSUME NEW q \in Servers PROVE Serving(request'[q], trail', snapshot', review', tick')
    <2>1. CASE q = p BY <2>1 DEF Serving
    <2>2. CASE q # p
      <3>1. request'[q] = request[q] BY <2>2
      <3>2. Serving(request[q], trail', snapshot', review', tick + 1) BY <1>1, StillServing
      <3> QED BY <3>1, <3>2
    <2> QED BY <2>1, <2>2
  <1>5. DOMAIN request' = Servers OBVIOUS
  <1> QED BY <1>2, <1>3, <1>4, <1>5

\* The invariant when a review reads the lines.
LEMMA ReviewLoadInv ==
  ASSUME UndoInv, NEW p \in Servers, NEW u \in Reviewers, NEW items \in Seq(ReviewLines),
         NEW verdict \in {"approve", "reject", "approved"}, ReviewLoad(p, u, items, verdict)
  PROVE  UndoInv'
  <1>1. PICK r : r = [kind |-> "review", by |-> u, items |-> items, verdict |-> verdict,
                      loaded |-> review, from |-> tick + 1] OBVIOUS
  <1>2. tick + 1 \in Nat /\ review \in [ReviewLines -> Held] BY DEF UndoInv, Stamped
  <1>3. r \in ReviewRequests /\ r.loaded = review /\ r.from = tick + 1 BY <1>1, <1>2 DEF ReviewRequests
  <1>4. request' = [request EXCEPT ![p] = r] /\ tick' = tick + 1 /\ UNCHANGED <<review, snapshot, trail>>
    BY <1>1 DEF ReviewLoad
  <1> QED BY <1>3, <1>4, LoadInv

\* The invariant when an acceptance of all reads the lines.
LEMMA AcceptLoadInv ==
  ASSUME UndoInv, NEW p \in Servers, NEW u \in Reviewers, AcceptLoad(p, u)
  PROVE  UndoInv'
  <1>1. PICK accepted : accepted = {l \in ReviewLines : advice[l] = "approve" /\ review[l].status = "none"} OBVIOUS
  <1>2. PICK items \in [1 .. Cardinality(accepted) -> accepted] : ReviewLoad(p, u, items, "approved")
    BY <1>1 DEF AcceptLoad
  <1>3. IsFiniteSet(accepted) /\ accepted \subseteq ReviewLines BY <1>1, FS_Subset, ReviewAssumption
  <1>4. Cardinality(accepted) \in Nat BY <1>3, FS_CardinalityType
  <1>5. items \in Seq(ReviewLines) BY <1>3, <1>4
  <1> QED BY <1>2, <1>5, ReviewLoadInv

\* The invariant when an undo takes a token and reads the lines.
LEMMA UndoLoadInv ==
  ASSUME UndoInv, NEW p \in Servers, NEW u \in Reviewers, NEW t \in Nat, UndoLoad(p, u, t)
  PROVE  UndoInv'
  <1>1. PICK r : r = [kind |-> "undo", token |-> t, loaded |-> review, from |-> tick + 1] OBVIOUS
  <1>2. tick + 1 \in Nat /\ review \in [ReviewLines -> Held] BY DEF UndoInv, Stamped
  <1>3. r \in UndoRequests /\ r.loaded = review /\ r.from = tick + 1 BY <1>1, <1>2 DEF UndoRequests
  <1>4. request' = [request EXCEPT ![p] = r] /\ tick' = tick + 1 /\ UNCHANGED <<review, snapshot, trail>>
    BY <1>1 DEF UndoLoad
  <1>5. FirstToTake(r, trail, snapshot)
    <2>1. r.token = t /\ t \in DOMAIN snapshot /\ ~snapshot[t].consumed BY <1>1 DEF UndoLoad
    <2>2. \A i \in DOMAIN trail : trail[i].kind = "undo" => trail[i].token # t
      BY <2>1 DEF UndoInv, Stamped
    <2> QED BY <2>1, <2>2 DEF FirstToTake
  <1> QED BY <1>3, <1>4, <1>5, LoadInv

\* The trail's shape when a review is added.
LEMMA HistoryReviewed ==
  ASSUME NEW T, NEW S, History(T, S), NEW x \in ReviewRows, NEW y \in Snapshots, x.token = Len(S) + 1
  PROVE  History(Append(T, x), Append(S, y))
  <1>1. PICK T2, S2, n, m : T2 = Append(T, x) /\ S2 = Append(S, y) /\ n = Len(T) + 1 /\ m = Len(S) + 1 OBVIOUS
  <1>2. /\ T2 \in Seq(AuditRows) /\ DOMAIN T = 1 .. n - 1 /\ DOMAIN T2 = 1 .. n /\ T2[n] = x
        /\ \A i \in DOMAIN T : T2[i] = T[i]
    BY <1>1 DEF History, AuditRows
  <1>3. /\ S2 \in Seq(Snapshots) /\ DOMAIN S = 1 .. m - 1 /\ DOMAIN S2 = 1 .. m
        /\ m \in Nat /\ n \in Nat /\ m > 0 /\ n > 0
    BY <1>1 DEF History
  <1>4. x.token = m /\ x.kind = "review" BY <1>1 DEF ReviewRows
  <1>5. \A i \in DOMAIN T : T[i].token \in 1 .. m - 1 BY <1>3 DEF History
  <1>6. \A i \in 1 .. n : i = n \/ i \in DOMAIN T BY <1>2, <1>3
  <1>7. \A i \in DOMAIN T2 : T2[i].token \in DOMAIN S2 BY <1>2, <1>3, <1>4, <1>5, <1>6
  <1>8. ASSUME NEW i \in DOMAIN T2, NEW j \in DOMAIN T2, T2[i].kind = "review", T2[j].kind = "review",
               T2[i].token = T2[j].token
        PROVE  i = j
    <2>1. m \notin 1 .. m - 1 BY <1>3
    <2>2. \A k \in DOMAIN T : T[k].token # m BY <1>5, <2>1
    <2>3. (i = n \/ i \in DOMAIN T) /\ (j = n \/ j \in DOMAIN T) BY <1>2, <1>6
    <2>4. CASE i = n BY <1>2, <1>4, <1>8, <2>2, <2>3, <2>4
    <2>5. CASE j = n BY <1>2, <1>4, <1>8, <2>2, <2>3, <2>5
    <2>6. CASE i \in DOMAIN T /\ j \in DOMAIN T
      <3>1. T2[i] = T[i] /\ T2[j] = T[j] BY <1>2, <2>6
      <3> QED BY <1>8, <2>6, <3>1 DEF History
    <2> QED BY <2>3, <2>4, <2>5, <2>6
  <1>9. ASSUME NEW t \in DOMAIN S2 PROVE \E j \in DOMAIN T2 : T2[j].kind = "review" /\ T2[j].token = t
    <2>1. CASE t = m
      <3>1. n \in DOMAIN T2 BY <1>2, <1>3
      <3> QED BY <1>2, <1>4, <2>1, <3>1
    <2>2. CASE t \in DOMAIN S
      <3>1. PICK j \in DOMAIN T : T[j].kind = "review" /\ T[j].token = t BY <2>2 DEF History
      <3>2. j \in DOMAIN T2 /\ T2[j] = T[j] BY <1>2, <1>3
      <3> QED BY <3>1, <3>2
    <2> QED BY <1>3, <2>1, <2>2
  <1> QED BY <1>1, <1>2, <1>3, <1>7, <1>8, <1>9 DEF History

\* The trail's shape when an undo is added.
LEMMA HistoryUndone ==
  ASSUME NEW T, NEW S, History(T, S), NEW x \in UndoRows, x.token \in DOMAIN S,
         NEW S2 \in Seq(Snapshots), DOMAIN S2 = DOMAIN S
  PROVE  History(Append(T, x), S2)
  <1>1. PICK T2, n : T2 = Append(T, x) /\ n = Len(T) + 1 OBVIOUS
  <1>2. /\ T2 \in Seq(AuditRows) /\ DOMAIN T = 1 .. n - 1 /\ DOMAIN T2 = 1 .. n /\ T2[n] = x
        /\ n \in Nat /\ n > 0 /\ \A i \in DOMAIN T : T2[i] = T[i]
    BY <1>1 DEF History, AuditRows
  <1>3. x.kind # "review" BY DEF UndoRows
  <1>4. \A i \in 1 .. n : i = n \/ i \in DOMAIN T BY <1>2
  <1>5. \A i \in DOMAIN T2 : T2[i].token \in DOMAIN S2 BY <1>2, <1>4 DEF History
  <1>6. ASSUME NEW i \in DOMAIN T2, NEW j \in DOMAIN T2, T2[i].kind = "review", T2[j].kind = "review",
               T2[i].token = T2[j].token
        PROVE  i = j
    <2>1. i # n /\ j # n BY <1>2, <1>3, <1>6
    <2>2. i \in DOMAIN T /\ j \in DOMAIN T BY <1>2, <1>4, <2>1
    <2>3. T2[i] = T[i] /\ T2[j] = T[j] BY <1>2, <2>2
    <2> QED BY <1>6, <2>2, <2>3 DEF History
  <1>7. ASSUME NEW t \in DOMAIN S2 PROVE \E j \in DOMAIN T2 : T2[j].kind = "review" /\ T2[j].token = t
    <2>1. PICK j \in DOMAIN T : T[j].kind = "review" /\ T[j].token = t BY DEF History
    <2>2. j \in DOMAIN T2 /\ T2[j] = T[j] BY <1>2
    <2> QED BY <2>1, <2>2
  <1> QED BY <1>1, <1>2, <1>5, <1>6, <1>7 DEF History

\* The trail's times when a row is added.
LEMMA StampedReviewed ==
  ASSUME NEW T, NEW S, History(T, S), NEW now, Stamped(T, S, now), NEW x, NEW T2, NEW S2,
         Longer(T, S, x, T2, S2), x.at = now + 1, x.kind = "undo" => S2[x.token].consumed,
         \A t \in DOMAIN S : S[t].consumed => S2[t].consumed
  PROVE  Stamped(T2, S2, now + 1)
  <1>1. PICK n : n = Len(T) + 1 OBVIOUS
  <1>2. /\ n \in Nat /\ T2[n] = x /\ DOMAIN T = 1 .. n - 1 /\ DOMAIN T2 = 1 .. n
        /\ \A i \in DOMAIN T : T2[i] = T[i]
    BY <1>1, LongerTrail
  <1>3. now \in Nat BY DEF Stamped
  <1>4. \A i \in DOMAIN T : T[i].at \in Nat /\ T[i].at <= now /\ T[i].token \in DOMAIN S
    BY DEF History, Stamped, AuditRows, ReviewRows, UndoRows
  <1>5. ASSUME NEW i \in DOMAIN T2 PROVE T2[i].at <= now + 1 /\ (T2[i].kind = "undo" => S2[T2[i].token].consumed)
    <2>1. CASE i = n BY <1>2, <1>3, <2>1
    <2>2. CASE i \in DOMAIN T BY <1>2, <1>3, <1>4, <2>2 DEF Stamped
    <2> QED BY <1>2, <2>1, <2>2
  <1> QED BY <1>3, <1>5 DEF Stamped

\* What a request that overlapped no row of l writes is what it means to write.
LEMMA Overwrites ==
  ASSUME UndoInv, NEW r, Loaded(r, trail, snapshot, review, tick), r.loaded \in [ReviewLines -> Held],
         NEW x, Longer(trail, snapshot, x, trail', snapshot'), x.from = r.from, NEW l \in ReviewLines,
         l \in DOMAIN snapshot'[x.token].prior, StackedIn(trail', snapshot', l), NEW new \in Held
  PROVE  r.loaded[l] = review[l] /\ Updated(review[l], r.loaded[l], new) = new
  <1>1. \A i \in AboutOf(trail, snapshot, l) : trail[i].at < x.from BY StackedLoad DEF UndoInv
  <1>2. r.loaded[l] = review[l] BY <1>1 DEF Loaded
  <1>3. review[l] \in Held BY DEF UndoInv
  <1> QED BY <1>2, <1>3, UpdatedHeld

\* The invariant when a review commits.
LEMMA ReviewCommitInv ==
  ASSUME UndoInv, NEW p \in Servers, ReviewCommit(p)
  PROVE  UndoInv'
  <1>1. PICK r, at : r = request[p] /\ at = tick + 1 OBVIOUS
  <1>2. r \in ReviewRequests /\ Loaded(r, trail, snapshot, review, tick)
    BY <1>1 DEF UndoInv, Serving, ReviewCommit, Idle, UndoRequests
  <1>3. PICK x, y : /\ x = [kind |-> "review", token |-> Len(snapshot) + 1, items |-> r.items,
                            wrote |-> Verdict(r, at), from |-> r.from, at |-> at]
                    /\ y = [by |-> r.by, prior |-> Prior(r, at), consumed |-> FALSE]
    OBVIOUS
  <1>4. /\ review' = [l \in ReviewLines |->
                        IF l \in Items(r.items) THEN Updated(review[l], r.loaded[l], Verdict(r, at)) ELSE review[l]]
        /\ snapshot' = Append(snapshot, y) /\ trail' = Append(trail, x)
        /\ request' = [request EXCEPT ![p] = Idle] /\ tick' = at
    BY <1>1, <1>3 DEF ReviewCommit
  <1>5. at \in Nat /\ History(trail, snapshot) /\ review \in [ReviewLines -> Held]
    BY <1>1 DEF UndoInv, Stamped
  <1>6. Verdict(r, at) \in Held /\ Items(r.items) \subseteq ReviewLines
    BY <1>2, <1>5 DEF Verdict, ReviewRequests, Held, Items
  <1>7. /\ Prior(r, at) \in [Items(r.items) -> Held]
        /\ \A l \in Items(r.items) : ~Repeated(r.items, l) => Prior(r, at)[l] = r.loaded[l]
    BY <1>2, <1>6 DEF Prior, ReviewRequests
  <1>8. y \in Snapshots
    <2>1. Items(r.items) \in SUBSET ReviewLines BY <1>6
    <2>2. Prior(r, at) \in Priors BY <1>7, <2>1 DEF Priors
    <2> QED BY <1>2, <1>3, <2>2 DEF Snapshots, ReviewRequests
  <1>9. Len(snapshot) + 1 \in Nat BY <1>5 DEF History
  <1>10. x \in ReviewRows BY <1>2, <1>3, <1>5, <1>6, <1>9 DEF ReviewRows, ReviewRequests
  <1>11. /\ \A t \in DOMAIN snapshot : t \in DOMAIN snapshot' /\ snapshot'[t] = snapshot[t]
         /\ snapshot'[x.token] = y
    BY SMTT(60), <1>3, <1>4, <1>5, <1>8 DEF History
  <1>12. Longer(trail, snapshot, x, trail', snapshot') BY <1>4, <1>10, <1>11 DEF Longer, AuditRows
  <1>13. x.token = Len(snapshot) + 1 /\ x.kind = "review" /\ x.at = tick + 1 /\ tick' = tick + 1 /\ x.from = r.from
    BY <1>1, <1>3, <1>4
  <1>14. History(trail', snapshot') BY <1>4, <1>5, <1>8, <1>10, <1>13, HistoryReviewed
  <1>15. Stamped(trail', snapshot', tick')
    <2>1. Stamped(trail, snapshot, tick) BY DEF UndoInv
    <2>2. x.kind = "undo" => snapshot'[x.token].consumed BY <1>13
    <2>3. \A t \in DOMAIN snapshot : snapshot[t].consumed => snapshot'[t].consumed BY <1>11
    <2>4. Stamped(trail', snapshot', tick + 1) BY <1>5, <1>12, <1>13, <2>1, <2>2, <2>3, StampedReviewed
    <2> QED BY <1>13, <2>4
  <1>16. DOMAIN snapshot'[x.token].prior = Items(r.items) BY <1>3, <1>7, <1>11
  <1>17. r.loaded \in [ReviewLines -> Held] BY <1>2 DEF ReviewRequests
  <1>18. \A l \in ReviewLines : review'[l] \in Held
    <2>1. ASSUME NEW l \in ReviewLines PROVE Updated(review[l], r.loaded[l], Verdict(r, at)) \in Held
      <3>1. review[l] \in Held /\ r.loaded[l] \in Held BY <1>5, <1>17
      <3> QED BY <1>6, <3>1, UpdatedHeld
    <2> QED BY <1>4, <1>5, <2>1
  <1>19. DOMAIN review' = ReviewLines /\ \E f : review' = [l \in ReviewLines |-> f[l]] BY <1>4
  <1>20. \A l \in ReviewLines : l \notin DOMAIN snapshot'[x.token].prior => review'[l] = review[l]
    BY <1>4, <1>16
  <1>21. ASSUME NEW l \in ReviewLines, l \in DOMAIN snapshot'[x.token].prior
         PROVE  Shows(trail', snapshot', review', l)
    <2>1. \A i \in DOMAIN trail : trail[i].token # x.token
      <3>1. \A i \in DOMAIN trail : trail[i].token \in DOMAIN snapshot BY <1>5 DEF History
      <3>2. x.token \notin DOMAIN snapshot BY <1>5, <1>13 DEF History
      <3> QED BY <3>1, <3>2
    <2>2. ASSUME StackedIn(trail', snapshot', l)
          PROVE  review'[l] = x.wrote /\ snapshot'[x.token].prior[l] = review[l]
      <3>1. r.loaded[l] = review[l] /\ Updated(review[l], r.loaded[l], Verdict(r, at)) = Verdict(r, at)
        BY <1>2, <1>6, <1>12, <1>13, <1>17, <1>21, <2>2, Overwrites
      <3>2. ~Repeated(r.items, l)
        <4>1. PICK n : n = Len(trail) + 1 OBVIOUS
        <4>2. n \in AboutOf(trail', snapshot', l) BY <1>5, <1>12, <1>21, <4>1, LongerAbout
        <4>3. trail'[n] = x BY <1>5, <1>12, <4>1, LongerTrail
        <4> QED BY <1>3, <2>2, <4>2, <4>3 DEF StackedIn
      <3>3. l \in Items(r.items) BY <1>16, <1>21
      <3> QED BY <1>3, <1>4, <1>7, <1>11, <3>1, <3>2, <3>3
    <2>3. Shows(trail, snapshot, review, l) BY DEF UndoInv
    <2>4. PICK R2, T2, S2 : R2 = review' /\ T2 = trail' /\ S2 = snapshot' OBVIOUS
    <2>5. Longer(trail, snapshot, x, T2, S2) /\ l \in DOMAIN S2[x.token].prior BY <1>12, <1>21, <2>4
    <2>6. StackedIn(T2, S2, l) => R2[l] = x.wrote /\ S2[x.token].prior[l] = review[l] BY <2>2, <2>4
    <2>7. x.kind = "review" BY <1>13
    <2>8. Shows(T2, S2, R2, l) BY ONLY <1>5, <2>1, <2>3, <2>5, <2>6, <2>7, ReviewShows
    <2> QED BY <2>4, <2>8
  <1> QED BY <1>4, <1>12, <1>13, <1>14, <1>15, <1>18, <1>19, <1>20, <1>21, CommitInv

\* The invariant when an undo commits.
LEMMA UndoCommitInv ==
  ASSUME UndoInv, NEW p \in Servers, UndoCommit(p)
  PROVE  UndoInv'
  <1>1. PICK r, at, t : r = request[p] /\ at = tick + 1 /\ t = r.token OBVIOUS
  <1>2. r \in UndoRequests /\ Loaded(r, trail, snapshot, review, tick) /\ FirstToTake(r, trail, snapshot)
    BY <1>1 DEF UndoInv, Serving, UndoCommit, Idle, ReviewRequests
  <1>3. PICK x, prior : /\ x = [kind |-> "undo", token |-> t, from |-> r.from, at |-> at]
                        /\ prior = snapshot[t].prior
    OBVIOUS
  <1>4. /\ review' = [l \in ReviewLines |->
                        IF l \in DOMAIN prior THEN Updated(review[l], r.loaded[l], prior[l]) ELSE review[l]]
        /\ snapshot' = [snapshot EXCEPT ![t].consumed = TRUE] /\ trail' = Append(trail, x)
        /\ request' = [request EXCEPT ![p] = Idle] /\ tick' = at
    BY <1>1, <1>3 DEF UndoCommit, Restored
  <1>5. /\ at \in Nat /\ History(trail, snapshot) /\ review \in [ReviewLines -> Held]
        /\ t \in DOMAIN snapshot /\ snapshot \in Seq(Snapshots)
    BY <1>1, <1>2 DEF UndoInv, Stamped, FirstToTake, History
  <1>6. snapshot[t] \in Snapshots BY <1>5
  <1>7. DOMAIN prior \subseteq ReviewLines /\ \A l \in DOMAIN prior : prior[l] \in Held
    BY <1>3, <1>6 DEF Snapshots, Priors
  <1>8. PICK y : y = [snapshot[t] EXCEPT !.consumed = TRUE] OBVIOUS
  <1>9. y \in Snapshots /\ y.prior = prior /\ y.consumed = TRUE BY <1>3, <1>6, <1>8 DEF Snapshots
  <1>10. snapshot' = [snapshot EXCEPT ![t] = y] BY <1>4, <1>8
  <1>11. /\ snapshot' \in Seq(Snapshots) /\ DOMAIN snapshot' = DOMAIN snapshot
         /\ \A h \in DOMAIN snapshot : snapshot'[h] = IF h = t THEN y ELSE snapshot[h]
    BY <1>5, <1>9, <1>10
  <1>12. x \in UndoRows /\ x.token = t /\ x.kind = "undo" /\ x.at = tick + 1 /\ tick' = tick + 1 /\ x.from = r.from
    BY <1>1, <1>2, <1>3, <1>4, <1>5 DEF UndoRows, UndoRequests
  <1>13. Longer(trail, snapshot, x, trail', snapshot')
    <2>1. \A h \in DOMAIN snapshot : snapshot'[h].prior = snapshot[h].prior BY <1>3, <1>9, <1>11
    <2> QED BY <1>4, <1>11, <1>12, <2>1 DEF Longer, AuditRows
  <1>14. History(trail', snapshot') BY <1>4, <1>5, <1>11, <1>12, HistoryUndone
  <1>15. Stamped(trail', snapshot', tick')
    <2>1. Stamped(trail, snapshot, tick) BY DEF UndoInv
    <2>2. x.kind = "undo" => snapshot'[x.token].consumed BY <1>5, <1>9, <1>11, <1>12
    <2>3. \A h \in DOMAIN snapshot : snapshot[h].consumed => snapshot'[h].consumed BY <1>9, <1>11
    <2>4. Stamped(trail', snapshot', tick + 1) BY <1>5, <1>12, <1>13, <2>1, <2>2, <2>3, StampedReviewed
    <2> QED BY <1>12, <2>4
  <1>16. snapshot'[x.token].prior = prior /\ snapshot[x.token].prior = prior
    BY <1>3, <1>5, <1>9, <1>11, <1>12
  <1>17. r.loaded \in [ReviewLines -> Held] BY <1>2 DEF UndoRequests
  <1>18. \A l \in ReviewLines : review'[l] \in Held
    <2>1. ASSUME NEW l \in ReviewLines, l \in DOMAIN prior PROVE Updated(review[l], r.loaded[l], prior[l]) \in Held
      <3>1. review[l] \in Held /\ r.loaded[l] \in Held /\ prior[l] \in Held BY <1>5, <1>7, <1>17, <2>1
      <3> QED BY <3>1, UpdatedHeld
    <2> QED BY <1>4, <1>5, <2>1
  <1>19. DOMAIN review' = ReviewLines /\ \E f : review' = [l \in ReviewLines |-> f[l]] BY <1>4
  <1>20. \A l \in ReviewLines : l \notin DOMAIN snapshot'[x.token].prior => review'[l] = review[l]
    BY <1>4, <1>16
  <1>21. ASSUME NEW l \in ReviewLines, l \in DOMAIN snapshot'[x.token].prior
         PROVE  Shows(trail', snapshot', review', l)
    <2>1. l \in DOMAIN prior /\ prior[l] \in Held BY <1>7, <1>16, <1>21
    <2>2. ASSUME StackedIn(trail', snapshot', l)
          PROVE  /\ review'[l] = snapshot[x.token].prior[l]
                 /\ \A i \in DOMAIN trail : trail[i].kind = "undo" => trail[i].token # x.token
      <3>1. Updated(review[l], r.loaded[l], prior[l]) = prior[l]
        BY <1>2, <1>12, <1>13, <1>17, <1>21, <2>1, <2>2, Overwrites
      <3>2. ASSUME NEW i \in DOMAIN trail, trail[i].kind = "undo", trail[i].token = x.token PROVE FALSE
        <4>1. r.from <= trail[i].at BY <1>1, <1>2, <1>12, <3>2 DEF FirstToTake
        <4>2. i \in AboutOf(trail, snapshot, l) BY <1>16, <2>1, <3>2 DEF AboutOf
        <4>3. trail[i].at < x.from BY <1>5, <1>13, <1>21, <2>2, <4>2, StackedLoad
        <4>4. trail[i].at \in Nat /\ r.from \in Nat
          <5>1. r.from \in Nat BY <1>2 DEF UndoRequests
          <5>2. trail \in Seq(AuditRows) BY <1>5 DEF History
          <5>3. trail[i] \in AuditRows BY ONLY <3>2, <5>2, i \in DOMAIN trail
          <5>4. trail[i].at \in Nat BY <5>3 DEF AuditRows, ReviewRows, UndoRows
          <5> QED BY <5>1, <5>4
        <4> QED BY <1>12, <4>1, <4>3, <4>4
      <3> QED BY <1>4, <1>16, <2>1, <3>1, <3>2
    <2>3. Shows(trail, snapshot, review, l) BY DEF UndoInv
    <2> QED BY <1>5, <1>12, <1>13, <1>21, <2>2, <2>3, UndoShows
  <1> QED BY <1>4, <1>12, <1>13, <1>14, <1>15, <1>18, <1>19, <1>20, <1>21, CommitInv

\* The invariant in every step.
LEMMA UndoInvNext == ASSUME UndoInv, [ReviewNext]_reviewVars PROVE UndoInv'
  <1>1. CASE UNCHANGED reviewVars BY <1>1 DEF reviewVars, UndoInv
  <1>2. ASSUME NEW recommended \in Advices, Analyze(recommended) PROVE UndoInv'
    BY <1>2 DEF Analyze, UndoInv
  <1>3. ASSUME NEW p \in Servers, NEW u \in Reviewers, NEW items \in Batches, NEW verdict \in {"approve", "reject"},
               ReviewLoad(p, u, items, verdict)
        PROVE  UndoInv'
    <2>1. items \in Seq(ReviewLines) BY ReviewAssumption
    <2> QED BY <1>3, <2>1, ReviewLoadInv
  <1>4. ASSUME NEW p \in Servers, NEW u \in Reviewers, AcceptLoad(p, u) PROVE UndoInv' BY <1>4, AcceptLoadInv
  <1>5. ASSUME NEW p \in Servers, ReviewCommit(p) PROVE UndoInv' BY <1>5, ReviewCommitInv
  <1>6. ASSUME NEW p \in Servers, NEW u \in Reviewers, NEW t \in 1 .. MaxReviews, UndoLoad(p, u, t) PROVE UndoInv'
    <2>1. t \in Nat BY ReviewAssumption
    <2> QED BY <1>6, <2>1, UndoLoadInv
  <1>7. ASSUME NEW p \in Servers, UndoCommit(p) PROVE UndoInv' BY <1>7, UndoCommitInv
  <1> QED BY <1>1, <1>2, <1>3, <1>4, <1>5, <1>6, <1>7 DEF ReviewNext

\* Every row of a line is told by the audit rows about it, and every request in
\* flight holds what was stored when it loaded.
THEOREM UndoCorrect == ReviewSpec => []UndoInv
  <1>1. ReviewInit => UndoInv BY UndoInvInit
  <1>2. UndoInv /\ [ReviewNext]_reviewVars => UndoInv' BY UndoInvNext
  <1> QED BY <1>1, <1>2, PTL DEF ReviewSpec

\* A stacked line shows the latest review that stands, and no token works twice.
THEOREM UndoIsExactAlways == ReviewSpec => []UndoIsExact
  <1>1. ASSUME UndoInv PROVE UndoIsExact
    <2> SUFFICES ASSUME NEW l \in ReviewLines, Stacked(l)
                 PROVE  /\ \A i, j, k \in About(l) : Undoes(i, k) /\ Undoes(j, k) => i = j
                        /\ review[l] = IF Kept(l) = {} THEN Unreviewed
                                       ELSE trail[CHOOSE j \in Kept(l) : \A k \in Kept(l) : k <= j].wrote
      BY DEF UndoIsExact
    <2>1. PICK n : n = Len(trail) + 1 OBVIOUS
    <2>2. n \in Nat /\ DOMAIN trail = 1 .. n - 1 BY <1>1, <2>1 DEF UndoInv, History
    <2>3. About(l) = AboutOf(trail, snapshot, l) BY DEF About, AboutOf
    <2>4. \A i, j : Undoes(i, j) <=> UndoOf(trail, i, j) BY DEF Undoes, UndoOf
    <2>5. StackedIn(trail, snapshot, l) BY <2>3, <2>4 DEF Stacked, StackedIn
    <2>6. Kept(l) = KeptBy(trail, snapshot, l, n)
      <3>1. \A i \in AboutOf(trail, snapshot, l) : i < n BY <2>2 DEF AboutOf
      <3> QED BY <2>3, <2>4, <3>1 DEF Kept, KeptBy
    <2>7. OnceIn(trail, snapshot, l) /\ review[l] = ShownBy(trail, snapshot, l, n)
      BY <1>1, <2>1, <2>5 DEF UndoInv, Shows
    <2> QED BY <2>3, <2>4, <2>6, <2>7 DEF OnceIn, ShownBy, Latest
  <1> QED BY <1>1, UndoCorrect, PTL
==============================================================================
