------------------------------- MODULE SignOff --------------------------------
(***************************************************************************)
(* What sign-in and sign-out keep on Redis and where they fall back while  *)
(* it is away (app/services/token_store.py, oidc_store.py).  A logout      *)
(* denies the access token by its identifier, on Redis and in the          *)
(* database.  The hand-over of a single sign-on, its pending state and     *)
(* then its one-time code, is kept on Redis, or in the memory of the       *)
(* process that wrote it.                                                  *)
(***************************************************************************)
EXTENDS Integers

CONSTANTS
    Access,           \* access tokens
    Processes,        \* server processes
    MaxOutages        \* bound on the times Redis goes away

ASSUME SignOffAssumption == MaxOutages \in Nat

VARIABLES
    access,       \* per access token: valid, logged out, expired
    denied,       \* the identifiers denied: on Redis, and in the table
    signOn,       \* the single sign-on under way: its step, and where it is kept
    redisUp,      \* whether Redis answers
    outages       \* how often it went away

signOffVars == <<access, denied, signOn, redisUp, outages>>

-----------------------------------------------------------------------------
NoSignOn  == [step |-> "none", at |-> "redis"]

SignOffInit ==
    /\ access = [a \in Access |-> "valid"]
    /\ denied = [redis |-> {}, table |-> {}]
    /\ signOn = NoSignOn
    /\ redisUp = TRUE /\ outages = 0

DeniedOnce(a) ==
    [redis |-> denied.redis \cup (IF redisUp THEN {a} ELSE {}), table |-> denied.table \cup (IF redisUp THEN {} ELSE {a})]

\* revoke_jti: the identifier goes to Redis if it answers, and always to the table.
Denied(a) ==
    [redis |-> denied.redis \cup (IF redisUp THEN {a} ELSE {}), table |-> denied.table \cup {a}]

\* is_jti_revoked.
TokenRefused(a) == (redisUp /\ a \in denied.redis) \/ a \in denied.table

\* revoke_access_from_bearer accepts an expired token.
LogoutAccess(a) ==
    /\ denied' = Denied(a)
    /\ access' = [access EXCEPT ![a] = IF @ = "valid" THEN "left" ELSE @]
    /\ UNCHANGED <<signOn, redisUp, outages>>

\* The token's time is up, and its key on Redis with it (setex); the row in the table is
\* deleted by the next request that finds it expired.
AccessExpires(a) ==
    /\ access[a] # "expired"
    /\ access' = [access EXCEPT ![a] = "expired"]
    /\ denied' = [denied EXCEPT !.redis = @ \ {a}]
    /\ UNCHANGED <<signOn, redisUp, outages>>

UseAccess(a) ==
    /\ ~(redisUp /\ a \in denied.redis)
    /\ access[a] = "expired" /\ a \in denied.table
    /\ denied' = [denied EXCEPT !.table = @ \ {a}]
    /\ UNCHANGED <<access, signOn, redisUp, outages>>

-----------------------------------------------------------------------------
\* _redis() asks anew on every call.
PendingKept(h) == IF redisUp THEN "redis" ELSE h

\* create_oidc_pending; the callback pops it and leaves a one-time code; the exchange
\* redeems that.  What another process keeps, or Redis lost, is not found.
OidcLogin(h) ==
    /\ signOn = NoSignOn
    /\ signOn' = [step |-> "pending", at |-> PendingKept(h)]
    /\ UNCHANGED <<access, denied, redisUp, outages>>

OidcCallback(h) ==
    /\ signOn.step = "pending"
    /\ signOn' = IF signOn.at = PendingKept(h) THEN [step |-> "code", at |-> PendingKept(h)] ELSE NoSignOn
    /\ UNCHANGED <<access, denied, redisUp, outages>>

OidcExchange(h) ==
    /\ signOn.step = "code"
    /\ signOn' = NoSignOn
    /\ UNCHANGED <<access, denied, redisUp, outages>>

\* Redis goes away with what it held, and comes back empty.
RedisToggles ==
    /\ redisUp => outages < MaxOutages
    /\ redisUp' = ~redisUp
    /\ outages' = IF redisUp THEN outages + 1 ELSE outages
    /\ denied' = [denied EXCEPT !.redis = {}]
    /\ signOn' = IF signOn.at = "redis" THEN NoSignOn ELSE signOn
    /\ UNCHANGED access

SignOffNext ==
    \/ \E a \in Access : LogoutAccess(a) \/ AccessExpires(a) \/ UseAccess(a)
    \/ \E h \in Processes : OidcLogin(h) \/ OidcCallback(h) \/ OidcExchange(h)
    \/ RedisToggles

SignOffSpec == SignOffInit /\ [][SignOffNext]_signOffVars

-----------------------------------------------------------------------------
SignOffTypeOK ==
    /\ access \in [Access -> {"valid", "left", "expired"}]
    /\ denied \in [redis : SUBSET Access, table : SUBSET Access]
    /\ signOn \in [step : {"none", "pending", "code"}, at : Processes \cup {"redis"}]
    /\ redisUp \in BOOLEAN /\ outages \in 0..MaxOutages

\* An access token that logged out stays refused until it expires, whether Redis answers,
\* is away or came back empty (revoke_jti: "Always persist to DB as durable fallback").
LogoutHolds == \A a \in Access : access[a] = "left" => TokenRefused(a)
=============================================================================
