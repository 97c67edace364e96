------------------------------- MODULE Sessions -------------------------------
(***************************************************************************)
(* How a browser stays signed in (app/api/auth.py, services/               *)
(* token_store.py).  A sign-in starts a family of refresh tokens; every    *)
(* refresh replaces the browser's token by a successor of the family, and  *)
(* a token that is presented again ends the whole family.                  *)
(*                                                                         *)
(* A refresh reads its row and commits in two steps: another process may   *)
(* act in between.  All browsers belong to one account.                    *)
(***************************************************************************)
EXTENDS Integers, Sequences

CONSTANTS
    Browsers,
    Hosts,            \* server processes
    MaxTokens         \* bound on the tokens issued

ASSUME SessionsAssumption == MaxTokens \in Nat

VARIABLES
    tokens,       \* refresh_tokens, oldest first
    browser,      \* what each browser holds: its token and the one before, whether it missed an answer
    serving,      \* per host: the refresh it is in the middle of
    ended,        \* families ended by a logout or a reuse
    enabled       \* User.is_active

sessionVars == <<tokens, browser, serving, ended, enabled>>

-----------------------------------------------------------------------------
NoRequest == [b |-> "none", t |-> 0]
SignedOut == [token |-> 0, before |-> 0, missed |-> FALSE]

SessionsInit ==
    /\ tokens = <<>> /\ ended = {}
    /\ browser = [b \in Browsers |-> SignedOut]
    /\ serving = [h \in Hosts |-> NoRequest]
    /\ enabled = TRUE

\* issue_refresh_token: a row of the family.
Issued(family) == Append(tokens, [family |-> family, revoked |-> FALSE, expired |-> FALSE])

UserRevoked(rows, t) == [i \in DOMAIN rows |-> [rows[i] EXCEPT !.revoked = TRUE]]

\* The UPDATE that ends the family of a token.
FamilyRevoked(rows, t) ==
    [i \in DOMAIN rows |-> IF rows[i].family = rows[t].family THEN [rows[i] EXCEPT !.revoked = TRUE] ELSE rows[i]]

\* login checks the password alone; the exchange of a single sign-on goes through here too.
Login(b) ==
    /\ Len(tokens) < MaxTokens
    /\ tokens' = Issued(Len(tokens) + 1)
    /\ browser' = [browser EXCEPT ![b] = [SignedOut EXCEPT !.token = Len(tokens) + 1]]
    /\ UNCHANGED <<serving, ended, enabled>>

\* rotate_refresh_token up to the insertion: a token that was revoked ends its family, one
\* whose time is up is revoked; both are refused.  A tab may present the token before.
RefreshLoad(h, b) ==
    /\ serving[h] = NoRequest
    /\ \E t \in {browser[b].token, browser[b].before} \ {0} :
        \/ /\ ~tokens[t].revoked /\ Len(tokens) < MaxTokens
           /\ serving' = [serving EXCEPT ![h] = [b |-> b, t |-> t]]
           /\ UNCHANGED <<tokens, ended>>
        \/ /\ tokens[t].revoked
           /\ tokens' = FamilyRevoked(tokens, t)
           /\ ended' = ended \cup {tokens[t].family}
           /\ UNCHANGED serving
        \/ /\ ~tokens[t].revoked
           /\ tokens' = [tokens EXCEPT ![t].revoked = TRUE, ![t].expired = TRUE]
           /\ UNCHANGED <<serving, ended>>
    /\ UNCHANGED <<browser, enabled>>

\* The successor and the revocation of the old row are one transaction; the account is
\* looked at after it, and the answer may be lost on its way.
RefreshCommit(h) ==
    LET r == serving[h] IN
    /\ r # NoRequest /\ Len(tokens) < MaxTokens
    /\ tokens' = [Issued(tokens[r.t].family) EXCEPT ![r.t].revoked = TRUE]
    /\ \/ /\ enabled /\ browser[r.b].token # 0
          /\ browser' = [browser EXCEPT ![r.b].token = Len(tokens) + 1, ![r.b].before = r.t]
       \/ browser' = [browser EXCEPT ![r.b].missed = TRUE]
    /\ serving' = [serving EXCEPT ![h] = NoRequest]
    /\ UNCHANGED <<ended, enabled>>

\* The process dies or the transaction fails: nothing of it was written.
RefreshDies(h) ==
    /\ serving[h] # NoRequest
    /\ serving' = [serving EXCEPT ![h] = NoRequest]
    /\ UNCHANGED <<tokens, browser, ended, enabled>>

\* logout: revoke_refresh_token ends the family whatever the token's own state.
Logout(b) ==
    /\ browser[b].token # 0
    /\ tokens' = FamilyRevoked(tokens, browser[b].token)
    /\ ended' = ended \cup {tokens[browser[b].token].family}
    /\ browser' = [browser EXCEPT ![b] = SignedOut]
    /\ UNCHANGED <<serving, enabled>>

\* update_user with is_active.
AccountToggles ==
    /\ enabled' = ~enabled
    /\ UNCHANGED <<tokens, browser, serving, ended>>

SessionsNext ==
    \/ \E b \in Browsers : Login(b) \/ Logout(b)
    \/ \E h \in Hosts, b \in Browsers : RefreshLoad(h, b)
    \/ \E h \in Hosts : RefreshCommit(h) \/ RefreshDies(h)
    \/ AccountToggles

SessionsSpec == SessionsInit /\ [][SessionsNext]_sessionVars

-----------------------------------------------------------------------------
SessionsTypeOK ==
    /\ \A t \in DOMAIN tokens : tokens[t] \in [family : 1..Len(tokens), revoked : BOOLEAN, expired : BOOLEAN]
    /\ browser \in [Browsers -> [token : 0..Len(tokens), before : 0..Len(tokens), missed : BOOLEAN]]
    /\ \A h \in Hosts : serving[h] = NoRequest \/ serving[h].t \in DOMAIN tokens
    /\ ended \subseteq 1..Len(tokens) /\ enabled \in BOOLEAN

\* A browser that received every answer to its refreshes can refresh again, however its tabs
\* and the processes overlap and whatever other browsers of the account do, until its token
\* expires or its own family is ended (rotate_refresh_token, revoke_refresh_token).
SessionsKept ==
    \A b \in Browsers :
        LET t == browser[b].token IN
        t # 0 /\ ~browser[b].missed
            => ~tokens[t].revoked \/ tokens[t].expired \/ tokens[t].family \in ended
=============================================================================
