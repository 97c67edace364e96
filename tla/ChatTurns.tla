----------------------------- MODULE ChatTurns -----------------------------
(***************************************************************************)
(* The working memory of a chat conversation: the active version and the   *)
(* tokens spent, a JSON column that each turn copies when it begins.       *)
(*                                                                         *)
(* set_memory changes the dictionary, assigns it to the column and         *)
(* commits.  When the column still holds that very dictionary, loaded at   *)
(* the start of the turn, the unit of work compares it with itself and     *)
(* writes nothing.  Any commit expires the column, after which an          *)
(* assignment is written whole; an empty memory starts from a new          *)
(* dictionary.  A turn lives in a session of its own; two turns of one     *)
(* conversation may overlap.                                               *)
(*                                                                         *)
(* Messages, tools and streaming only matter as commits; other keys of the *)
(* memory behave like the active version.                                  *)
(***************************************************************************)
EXTENDS Integers, Sequences, FiniteSets

CONSTANTS
    Turns,          \* turns of the conversation that may be open at a time
    ActiveVersions,
    NoVersion,
    Budget,         \* conversation_token_budget
    MaxTurns        \* bound: turns

ASSUME ChatAssumption == NoVersion \notin ActiveVersions /\ Budget \in Nat /\ MaxTurns \in Nat

VARIABLES
    stored,    \* Conversation.working_memory
    live,      \* the conversation exists
    turn,      \* turn[t]: its dictionary, whether the column holds it, what it has remembered
    log        \* the turns that are over, oldest first, with the time they were open

chatVars == <<stored, live, turn, log>>

Memory   == [version : ActiveVersions \cup {NoVersion}, used : 0 .. MaxTurns]
Empty    == [version |-> NoVersion, used |-> 0]
NoTurn   == [open |-> FALSE, memory |-> Empty, attached |-> FALSE, remembered |-> NoVersion, from |-> 0]
OpenTurns == {t \in Turns : turn[t].open}

ChatTypeOK ==
    /\ stored \in Memory /\ live \in BOOLEAN
    /\ turn \in [Turns -> [open : BOOLEAN, memory : Memory, attached : BOOLEAN,
                           remembered : ActiveVersions \cup {NoVersion}, from : 0 .. MaxTurns]]
    /\ log \in Seq([from : 0 .. MaxTurns, at : 1 .. MaxTurns, ended : BOOLEAN,
                    remembered : ActiveVersions \cup {NoVersion}])
    /\ Len(log) <= MaxTurns

ChatInit == stored = Empty /\ live = TRUE /\ turn = [t \in Turns |-> NoTurn] /\ log = <<>>

\* astream; a message costs one token.
OpenTurn(t) ==
    /\ live /\ ~turn[t].open /\ Len(log) + Cardinality(OpenTurns) < MaxTurns
    /\ stored.used + 1 < Budget
    /\ turn' = [turn EXCEPT ![t] = [NoTurn EXCEPT !.open = TRUE, !.memory = stored,
                                        !.attached = stored # Empty, !.from = Len(log)]]
    /\ UNCHANGED <<stored, live, log>>

Over(t, ended) ==
    log' = Append(log, [from |-> turn[t].from, at |-> Len(log) + 1, ended |-> ended,
                        remembered |-> turn[t].remembered])

\* The budget is spent: refused before anything is read or remembered.
RefuseTurn(t) ==
    /\ live /\ ~turn[t].open /\ Len(log) + Cardinality(OpenTurns) < MaxTurns
    /\ stored.used + 1 >= Budget
    /\ log' = Append(log, [from |-> Len(log), at |-> Len(log) + 1, ended |-> TRUE, remembered |-> NoVersion])
    /\ UNCHANGED <<stored, live, turn>>

\* A skill commits.
SkillCommits(t) ==
    /\ live /\ turn[t].open /\ turn[t].attached
    /\ turn' = [turn EXCEPT ![t].attached = FALSE]
    /\ UNCHANGED <<stored, live, log>>

\* set_memory
SetMemory(t, memory) == stored' = IF turn[t].attached THEN stored ELSE memory

\* set_active_version_id, by a skill.
Remember(t, v) ==
    LET memory == [turn[t].memory EXCEPT !.version = v]
    IN  /\ live /\ turn[t].open
        /\ SetMemory(t, memory)
        /\ turn' = [turn EXCEPT ![t].memory = memory, ![t].attached = FALSE, ![t].remembered = v]
        /\ UNCHANGED <<live, log>>

\* Mutant: spending nothing, a turn records nothing.
RecordedNothing(t) == stored' = stored

\* record_token_usage
Recorded(t) == SetMemory(t, [turn[t].memory EXCEPT !.used = @ + 1])

EndTurn(t) ==
    /\ live /\ turn[t].open
    /\ Recorded(t)
    /\ Over(t, TRUE)
    /\ turn' = [turn EXCEPT ![t] = NoTurn]
    /\ UNCHANGED live

\* An exception, a lost connection, a restart, a deleted conversation.
BreakTurn(t) ==
    /\ turn[t].open
    /\ Over(t, FALSE)
    /\ turn' = [turn EXCEPT ![t] = NoTurn]
    /\ UNCHANGED <<stored, live>>

\* delete_conversation; the writes of a turn still open then fail.
DeleteConversation ==
    /\ live /\ live' = FALSE
    /\ UNCHANGED <<stored, turn, log>>

ChatNext ==
    \/ \E t \in Turns : OpenTurn(t) \/ RefuseTurn(t) \/ SkillCommits(t) \/ EndTurn(t) \/ BreakTurn(t)
    \/ \E t \in Turns, v \in ActiveVersions : Remember(t, v)
    \/ DeleteConversation

ChatSpec == ChatInit /\ [][ChatNext]_chatVars

-----------------------------------------------------------------------------
(* Properties *)

\* No turn began while another was open.
OneAtATime ==
    /\ \A i \in DOMAIN log : log[i].from = i - 1
    /\ \A t \in OpenTurns : turn[t].from = Len(log)
    /\ Cardinality(OpenTurns) <= 1

\* As long as turns do not overlap, the next turn begins with the version the
\* last turn that remembered one left, if that turn reached its end: its own
\* write may be lost, the recording of its tokens writes it again.
RememberedAcrossTurns ==
    LET settled == {i \in DOMAIN log : log[i].remembered # NoVersion}
    IN  OneAtATime /\ OpenTurns = {} /\ settled # {} =>
            LET last == CHOOSE i \in settled : \A j \in settled : j <= i
            IN  log[last].ended => stored.version = log[last].remembered

\* What set_memory's docstring says, for the tokens: with turns one after the
\* other, the tokens stored are those the turns spent.
TokensAreCounted ==
    OneAtATime /\ OpenTurns = {} /\ stored.used + 1 < Budget =>
        stored.used = Cardinality({i \in DOMAIN log : log[i].ended})
=============================================================================
