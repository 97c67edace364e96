---------------------------- MODULE Generation ----------------------------
(***************************************************************************)
(* Baseline generation: one version from its first flush to its commit.    *)
(*                                                                         *)
(* A run takes minutes and holds one transaction, so versions appear when  *)
(* it commits.  It names its version after the highest number it sees,     *)
(* then forecasts line by line, and may run out of time, lack an exchange  *)
(* rate, meet an error, fail to reconcile, or die.  Runs of the API and of *)
(* the worker close their session when the skill fails; a chat session     *)
(* goes on, and what the failed skill flushed is committed with the turn.  *)
(*                                                                         *)
(* A line's rows stand for one; the draft versions are those of one month. *)
(* A version with branches cannot be deleted, as if nobody tried.  Driver  *)
(* paths and the panel model only add warnings; jobs are BackgroundJobs'.  *)
(***************************************************************************)
EXTENDS Integers, FiniteSets, FiniteSetsExt, Sequences

CONSTANTS
    Sessions,       \* database sessions that may generate at a time
    ChatSessions,   \* those of chat turns
    GenLines,       \* lines in the actor's scope
    MaxGenerations  \* bound: runs

ASSUME GenerationAssumption == ChatSessions \subseteq Sessions /\ MaxGenerations \in Nat

VARIABLES
    version,    \* committed versions, oldest first: number, lines, skipped, reconciled, scored,
                \* the answer they came with; a deleted one keeps its place
    gen,        \* gen[s]: the run of session s, or what a failed one left in it
    begun,      \* runs so far
    moment      \* beginnings and commits so far

generationVars == <<version, gen, begun, moment>>

Answers == {"ok", "warned", "timeout", "failed"}

Outcomes == [number : 1 .. MaxGenerations, lines : SUBSET GenLines, skipped : SUBSET GenLines,
             reconciled : BOOLEAN, scored : BOOLEAN, answer : Answers]

NotGenerating == [phase |-> "idle"]

GenerationTypeOK ==
    /\ \A i \in DOMAIN version :
          /\ [f \in {"number", "lines", "skipped", "reconciled", "scored", "answer"} |-> version[i][f]] \in Outcomes
          /\ version[i].draft \in BOOLEAN /\ version[i].live \in BOOLEAN
    /\ \A s \in Sessions :
          /\ gen[s].phase \in {"idle", "lines", "left"}
          /\ gen[s].phase # "idle" => gen[s].flushed \subseteq gen[s].lines
    /\ begun \in 0 .. MaxGenerations /\ moment \in 0 .. 2 * MaxGenerations

GenerationInit ==
    version = <<>> /\ gen = [s \in Sessions |-> NotGenerating] /\ begun = 0 /\ moment = 0

LiveVersions == {i \in DOMAIN version : version[i].live}

\* Mutant: the highest number itself.
NextNumberHighest(s) == Max({0} \cup {version[i].number : i \in LiveVersions})

\* One more than the highest number in sight, the session's own leftover included.
NextNumber(s) ==
    Max({0} \cup {version[i].number : i \in LiveVersions}
            \cup (IF gen[s].phase = "left" THEN {gen[s].number} ELSE {})) + 1

\* Up to the loop.  A leftover of the session stays in its transaction.
BeginRun(s) ==
    /\ gen[s].phase \in {"idle", "left"} /\ begun < MaxGenerations
    /\ gen[s].phase = "left" => gen[s].before = <<>>
    /\ gen' = [gen EXCEPT ![s] =
          [phase |-> "lines", number |-> NextNumber(s), lines |-> {}, skipped |-> {}, flushed |-> {},
           error |-> FALSE, from |-> moment + 1,
           before |-> IF gen[s].phase = "left" THEN <<gen[s]>> ELSE <<>>]]
    /\ begun' = begun + 1 /\ moment' = moment + 1
    /\ UNCHANGED version

Todo(s) == IF gen[s].error THEN {} ELSE GenLines \ (gen[s].lines \cup gen[s].skipped)

\* No records, or too few: the line is counted and left out.
SkipLine(s, l) ==
    /\ gen[s].phase = "lines" /\ l \in Todo(s)
    /\ gen' = [gen EXCEPT ![s].skipped = @ \cup {l}]
    /\ UNCHANGED <<version, begun, moment>>

\* forecast_line_item; a full batch is flushed.
ForecastLine(s, l, flush) ==
    LET lines == gen[s].lines \cup {l}
    IN  /\ gen[s].phase = "lines" /\ l \in Todo(s)
        /\ gen' = [gen EXCEPT ![s].lines = lines, ![s].flushed = IF flush THEN lines ELSE @]
        /\ UNCHANGED <<version, begun, moment>>

\* Mutant: an error is not told.
ToldNothing(error, reconciled) == "ok"

Told(error, reconciled) == IF error \/ ~reconciled THEN "warned" ELSE "ok"

\* An exception in the loop ends it; what is done is kept.
LineError(s) ==
    /\ gen[s].phase = "lines" /\ Todo(s) # {}
    /\ gen' = [gen EXCEPT ![s].error = TRUE]
    /\ UNCHANGED <<version, begun, moment>>

Row(g, lines, reconciled, scored, answer) ==
    [number |-> g.number, lines |-> lines, skipped |-> g.skipped, reconciled |-> reconciled,
     scored |-> scored, answer |-> answer, draft |-> TRUE, live |-> TRUE,
     from |-> g.from, at |-> moment + 1]

\* What failed earlier in the session is committed with it.
Leftover(s) == [k \in DOMAIN gen[s].before |->
                    Row(gen[s].before[k], gen[s].before[k].flushed, FALSE, FALSE, "failed")]

CommitRun(s, row) ==
    /\ version' = (version \o Leftover(s)) \o <<row>>
    /\ gen' = [gen EXCEPT ![s] = NotGenerating]
    /\ moment' = moment + 1
    /\ UNCHANGED begun

\* check_generation_timeout, before a line: rows so far, unreconciled, unscored.
TimeOut(s) ==
    /\ gen[s].phase = "lines" /\ Todo(s) # {}
    /\ CommitRun(s, Row(gen[s], gen[s].lines, FALSE, FALSE, "timeout"))

\* Reconcile, score, commit.
FinishRun(s, reconciled) ==
    /\ gen[s].phase = "lines" /\ Todo(s) = {}
    /\ CommitRun(s, Row(gen[s], gen[s].lines, reconciled, TRUE, Told(gen[s].error, reconciled)))

\* A missing rate: the skill fails and rolls nothing back.
MissingRate(s) ==
    /\ gen[s].phase = "lines" /\ Todo(s) # {}
    /\ gen' = [gen EXCEPT ![s] = IF s \in ChatSessions THEN [@ EXCEPT !.phase = "left"] ELSE NotGenerating]
    /\ UNCHANGED <<version, begun, moment>>

\* The turn goes on and commits something.
TurnCommits(s) ==
    /\ gen[s].phase = "left"
    /\ CommitRun(s, Row(gen[s], gen[s].flushed, FALSE, FALSE, "failed"))

\* The process is restarted, or the turn ends in an error: rolled back.
RunDies(s) ==
    /\ gen[s].phase # "idle"
    /\ gen' = [gen EXCEPT ![s] = NotGenerating]
    /\ UNCHANGED <<version, begun, moment>>

\* Into review, or beyond: no longer a draft, whatever the answer was.
SubmitVersion(i) ==
    /\ i \in LiveVersions /\ version[i].draft
    /\ version' = [version EXCEPT ![i].draft = FALSE]
    /\ UNCHANGED <<gen, begun, moment>>

\* delete_version
DeleteVersion(i) ==
    /\ i \in LiveVersions /\ version[i].draft
    /\ version' = [version EXCEPT ![i].live = FALSE]
    /\ UNCHANGED <<gen, begun, moment>>

GenerationNext ==
    \/ \E s \in Sessions : BeginRun(s) \/ LineError(s) \/ TimeOut(s) \/ MissingRate(s)
    \/ \E s \in Sessions : TurnCommits(s) \/ RunDies(s)
    \/ \E s \in Sessions, l \in GenLines : SkipLine(s, l)
    \/ \E s \in Sessions, l \in GenLines, flush \in BOOLEAN : ForecastLine(s, l, flush)
    \/ \E s \in Sessions, reconciled \in BOOLEAN : FinishRun(s, reconciled)
    \/ \E i \in 1 .. MaxGenerations : SubmitVersion(i) \/ DeleteVersion(i)

GenerationSpec == GenerationInit /\ [][GenerationNext]_generationVars

-----------------------------------------------------------------------------
(* Properties *)

\* Two versions share a name only if they were generated at overlapping times:
\* deletions, failures and leftovers of a chat session never bring a number
\* back while a version holds it (the comment on the highest suffix).
NamesDistinct ==
    \A i, j \in LiveVersions :
        i # j /\ version[i].number = version[j].number =>
            version[i].from <= version[j].at /\ version[j].from <= version[i].at

\* A version is what its answer said: without a warning it has every line that
\* is not skipped, reconciled and scored; with one it is at least scored; a
\* version of a run that timed out or failed shows no scores at all.
AsAnswered ==
    \A i \in DOMAIN version :
        LET v == version[i]
        IN  /\ v.answer = "ok" => v.lines \cup v.skipped = GenLines /\ v.reconciled
            /\ v.scored <=> v.answer \in {"ok", "warned"}

\* However runs overlap, fail and are cleaned up, their versions have numbers of
\* their own and hold what was answered (generate_baseline).
RunsAnswered == NamesDistinct /\ AsAnswered
=============================================================================
