-------------------------- MODULE GenerationProofs ---------------------------
(***************************************************************************)
(* How a version comes about and what its readers see: the runs that       *)
(* generate it (Generation), the conversion of its lines to the currency   *)
(* it is kept in (Currency), the making of a row from its engines          *)
(* (LinePipeline), the causes of a change (Attribution), the verdicts on   *)
(* the rows (Scoring), the reading of versions and copies (Readings), and  *)
(* the periods all of them name (Calendar).                                *)
(***************************************************************************)
EXTENDS Calendar, Generation, Currency, LinePipeline, Attribution, Scoring,
        Readings, SequenceTheorems, Sums

(***************************************************************************)
(* How a version comes about: the runs that generate it (Generation) and   *)
(* the conversion of its lines to the currency it is kept in (Currency).   *)
(***************************************************************************)

(***************************************************************************)
(* RunsAnswered for any sessions, lines and number of runs: versions of    *)
(* one number were generated at overlapping times, and every version is    *)
(* what its answer said.                                                   *)
(***************************************************************************)

(***************************************************************************)
(* RunsAnswered speaks of what is committed.  What keeps it is the run     *)
(* that is not: a number it holds is held by no live version that was      *)
(* committed before it began, and everything numbered was begun, so that   *)
(* the highest number exists.                                              *)
(***************************************************************************)
RunsWith(phases, before) ==
    [phase : phases, number : Nat, lines : SUBSET GenLines, skipped : SUBSET GenLines,
     flushed : SUBSET GenLines, error : BOOLEAN, from : Nat, before : before]
Lefts == RunsWith({"left"}, {<<>>})
Runs  == RunsWith({"lines", "left"}, {<<>>} \cup {<<x>> : x \in Lefts})
RunRows  == [number : Nat, lines : SUBSET GenLines, skipped : SUBSET GenLines, reconciled : BOOLEAN,
          scored : BOOLEAN, answer : Answers, draft : BOOLEAN, live : BOOLEAN, from : Nat, at : Nat]

Shaped ==
    /\ version \in Seq(RunRows)
    /\ gen \in [Sessions -> {NotGenerating} \cup Runs]
    /\ begun \in Nat /\ moment \in Nat

\* What a session may yet commit.
HeldOf(g) == IF g.phase = "idle" THEN {} ELSE {g} \cup {g.before[k] : k \in DOMAIN g.before}

Timely(v) == v.number <= begun /\ v.from <= v.at /\ v.at <= moment

Aside(g) ==
    /\ g.number <= begun /\ g.from <= moment
    /\ \A i \in LiveVersions : version[i].number = g.number => g.from <= version[i].at

Answered(v) ==
    /\ v.answer = "ok" => v.lines \cup v.skipped = GenLines /\ v.reconciled
    /\ v.scored <=> v.answer \in {"ok", "warned"}

GenerationInv ==
    /\ Shaped
    /\ \A i \in 1 .. Len(version) : Timely(version[i])
    /\ \A s \in Sessions : \A g \in HeldOf(gen[s]) : Aside(g)
    /\ NamesDistinct
    /\ \A i \in 1 .. Len(version) : Answered(version[i])

-----------------------------------------------------------------------------
(* Numbers *)

\* A bounded set of numbers has a highest.
LEMMA HighestExists ==
  ASSUME NEW b \in Nat, NEW S \in SUBSET (0 .. b), NEW n \in S
  PROVE  Max(S) \in S /\ \A k \in S : Max(S) >= k
  <1> DEFINE T    == {m \in Nat : b - m \in S}
             Less == {p \in Nat \X Nat : p[1] < p[2]}
  <1>1. b - n \in T
    <2>1. n \in 0 .. b OBVIOUS
    <2>2. b - n \in Nat /\ b - (b - n) = n BY <2>1
    <2> QED BY <2>2
  <1>2. PICK m \in T : \A k \in T : <<k, m>> \notin Less
    <2>1. T \subseteq Nat /\ T # {} BY <1>1
    <2>2. IsWellFoundedOn(Less, Nat) BY NatLessThanWellFounded DEF OpToRel
    <2> HIDE DEF T, Less
    <2> QED BY <2>1, <2>2, WFMin
  <1>3. ASSUME NEW k \in S PROVE b - m >= k
    <2>1. k \in 0 .. b /\ m \in Nat BY <1>2
    <2>2. b - k \in T BY <2>1
    <2>3. ~ (b - k < m) BY <1>2, <2>1, <2>2
    <2> QED BY <2>1, <2>3
  <1>4. b - m \in S BY <1>2
  <1> QED BY <1>3, <1>4 DEF Max

\* A run holds itself and at most the one it was begun on top of.
LEMMA HeldShapes ==
  ASSUME NEW g \in Runs
  PROVE  /\ g.phase # "idle" /\ g # NotGenerating
         /\ \/ g.before = <<>> /\ HeldOf(g) = {g}
            \/ \E x \in Lefts : g.before = <<x>> /\ HeldOf(g) = {g, x}
  <1>1. g.phase \in {"lines", "left"} /\ g.before \in {<<>>} \cup {<<x>> : x \in Lefts} BY DEF Runs, RunsWith
  <1>2. g # NotGenerating BY <1>1 DEF NotGenerating
  <1>3. CASE g.before = <<>> BY <1>1, <1>2, <1>3 DEF HeldOf
  <1>4. ASSUME NEW x \in Lefts, g.before = <<x>> PROVE HeldOf(g) = {g, x}
    <2>1. DOMAIN g.before = {1} /\ g.before[1] = x BY <1>4
    <2> QED BY <1>1, <2>1 DEF HeldOf
  <1> QED BY <1>1, <1>2, <1>3, <1>4

\* A run that was left is a run.
LEMMA LeftsAreRuns == Lefts \subseteq Runs
  BY DEF Lefts, Runs, RunsWith

\* The shapes of the versions written.
LEMMA VersionFacts ==
  ASSUME Shaped
  PROVE  /\ DOMAIN version = 1 .. Len(version) /\ Len(version) \in Nat
         /\ \A i \in 1 .. Len(version) : version[i] \in RunRows
         /\ LiveVersions = {i \in 1 .. Len(version) : version[i].live}
  BY LenProperties, ElementOfSeq DEF Shaped, LiveVersions

-----------------------------------------------------------------------------
(* RunRows *)

\* Only a run that was answered ok must be whole.
LEMMA FailedAnswered ==
  ASSUME NEW g \in Runs, NEW lines \in SUBSET GenLines, NEW answer \in {"failed", "timeout"}, moment \in Nat
  PROVE  LET stored == Row(g, lines, FALSE, FALSE, answer)
         IN  stored \in RunRows /\ Answered(stored)
  <1> DEFINE stored == Row(g, lines, FALSE, FALSE, answer)
  <1>1. stored \in RunRows /\ stored.answer = answer /\ ~stored.scored
    <2>1. /\ g.number \in Nat /\ g.skipped \in SUBSET GenLines /\ g.from \in Nat
          /\ moment + 1 \in Nat /\ answer \in Answers
      BY DEF Runs, RunsWith, Answers
    <2> QED BY <2>1, Zenon DEF Row, RunRows
  <1> HIDE DEF stored
  <1>2. stored.answer # "ok" /\ stored.answer \notin {"ok", "warned"} BY <1>1
  <1>3. Answered(stored) BY <1>1, <1>2, Zenon DEF Answered
  <1> QED BY <1>1, <1>3 DEF stored

\* A run that skipped or forecast every line, or had an error, is answered by
\* what it is.
LEMMA FinishAnswered ==
  ASSUME NEW g \in Runs, NEW reconciled \in BOOLEAN, moment \in Nat,
         ~g.error => GenLines \subseteq g.lines \cup g.skipped
  PROVE  LET stored == Row(g, g.lines, reconciled, TRUE, Told(g.error, reconciled))
         IN  stored \in RunRows /\ Answered(stored)
  <1> DEFINE answer == Told(g.error, reconciled)
             stored == Row(g, g.lines, reconciled, TRUE, answer)
  <1>1. /\ g.number \in Nat /\ g.lines \in SUBSET GenLines /\ g.skipped \in SUBSET GenLines
        /\ g.from \in Nat /\ moment + 1 \in Nat
    BY DEF Runs, RunsWith
  <1>2. answer \in {"ok", "warned"} /\ (answer = "ok" => ~g.error /\ reconciled) BY DEF Told
  <1>3. answer \in Answers BY <1>2 DEF Answers
  <1> HIDE DEF answer
  <1>4. /\ stored \in RunRows /\ stored.lines = g.lines /\ stored.skipped = g.skipped /\ stored.answer = answer
        /\ stored.reconciled <=> reconciled
        /\ stored.scored
    BY <1>1, <1>3, Zenon DEF Row, RunRows
  <1> HIDE DEF stored
  <1>5. stored.answer = "ok" => stored.lines \cup stored.skipped = GenLines BY <1>1, <1>2, <1>4
  <1>6. stored.answer = "ok" => stored.reconciled BY <1>2, <1>4, Zenon
  <1>7. stored.scored <=> stored.answer \in {"ok", "warned"} BY <1>2, <1>4, Zenon
  <1>8. Answered(stored) BY <1>5, <1>6, <1>7, Zenon DEF Answered
  <1> QED BY <1>4, <1>8 DEF stored, answer

-----------------------------------------------------------------------------
(* Steps that leave the versions alone *)

\* A run goes on, is dropped, or is left for the turn: what it holds is as before.
LEMMA RunGoesOn ==
  ASSUME GenerationInv, NEW s \in Sessions, NEW g \in {NotGenerating} \cup Runs,
         gen' = [gen EXCEPT ![s] = g], UNCHANGED <<version, begun, moment>>,
         g \in Runs => /\ gen[s] \in Runs /\ g.number = gen[s].number
                       /\ g.from = gen[s].from /\ g.before = gen[s].before
  PROVE  GenerationInv'
  <1>1. Shaped' BY DEF GenerationInv, Shaped
  <1>2. \A h : Aside(h)' <=> Aside(h) BY DEF Aside, LiveVersions
  <1>3. ASSUME NEW t \in Sessions, NEW h \in HeldOf(gen'[t]) PROVE Aside(h)
    <2>1. CASE t # s BY <1>3, <2>1 DEF GenerationInv, Shaped
    <2>2. CASE t = s
      <3>1. gen'[s] = g BY DEF GenerationInv, Shaped
      <3>2. g # NotGenerating BY <1>3, <2>2, <3>1 DEF HeldOf, NotGenerating
      <3>3. g \in Runs /\ gen[s] \in Runs BY <3>2
      <3>4. Aside(gen[s]) BY <3>3, HeldShapes DEF GenerationInv
      <3>5. CASE h = g BY <3>3, <3>4, <3>5 DEF Aside
      <3>6. CASE h # g
        <4>1. h \in HeldOf(gen[s]) BY <1>3, <2>2, <3>1, <3>3, <3>6, HeldShapes DEF HeldOf
        <4> QED BY <4>1 DEF GenerationInv
      <3> QED BY <3>5, <3>6
    <2> QED BY <2>1, <2>2
  <1>4. /\ (\A i \in 1 .. Len(version) : Timely(version[i]) /\ Answered(version[i]))'
        /\ NamesDistinct'
    BY DEF GenerationInv, Timely, Answered, NamesDistinct, LiveVersions
  <1> QED BY <1>1, <1>2, <1>3, <1>4 DEF GenerationInv

\* The next number is new among the live versions, and was not begun yet.
LEMMA NumbersInSight ==
  ASSUME GenerationInv, NEW s \in Sessions, gen[s].phase \in {"idle", "left"}
  PROVE  /\ NextNumber(s) \in 1 .. begun + 1
         /\ \A i \in LiveVersions : version[i].number < NextNumber(s)
  <1> DEFINE left == IF gen[s].phase = "left" THEN {gen[s].number} ELSE {}
             S == {0} \cup {version[i].number : i \in LiveVersions} \cup left
  <1>1. begun \in Nat BY DEF GenerationInv, Shaped
  <1>2. ASSUME NEW i \in LiveVersions PROVE version[i].number \in 0 .. begun
    <2>1. i \in 1 .. Len(version) /\ version[i] \in RunRows BY VersionFacts DEF GenerationInv
    <2>2. version[i].number \in Nat /\ version[i].number <= begun BY <2>1 DEF RunRows, GenerationInv, Timely
    <2> QED BY <1>1, <2>2
  <1>3. ASSUME gen[s].phase = "left" PROVE gen[s].number \in 0 .. begun
    <2>1. gen[s] \in Runs BY <1>3 DEF GenerationInv, Shaped, NotGenerating
    <2>2. Aside(gen[s]) BY <2>1, HeldShapes DEF GenerationInv
    <2>3. gen[s].number \in Nat BY <2>1 DEF Runs, RunsWith
    <2> QED BY <1>1, <2>2, <2>3 DEF Aside
  <1>4. S \in SUBSET (0 .. begun) /\ 0 \in S BY <1>1, <1>2, <1>3
  <1>5. \A i \in LiveVersions : version[i].number \in S OBVIOUS
  <1>6. NextNumber(s) = Max(S) + 1 BY DEF NextNumber
  <1> HIDE DEF S
  <1>7. Max(S) \in 0 .. begun /\ \A k \in S : Max(S) >= k BY <1>1, <1>4, HighestExists
  <1> QED BY <1>1, <1>2, <1>5, <1>6, <1>7

\* The invariant when a run begins.
LEMMA RunBegins ==
  ASSUME GenerationInv, NEW s \in Sessions, BeginRun(s)
  PROVE  GenerationInv'
  <1> DEFINE before == IF gen[s].phase = "left" THEN <<gen[s]>> ELSE <<>>
  <1>0. begun \in Nat /\ moment \in Nat BY DEF GenerationInv, Shaped
  <1> PICK g : g = [phase |-> "lines", number |-> NextNumber(s), lines |-> {}, skipped |-> {}, flushed |-> {},
                    error |-> FALSE, from |-> moment + 1, before |-> before]
    OBVIOUS
  <1>1. /\ gen' = [gen EXCEPT ![s] = g] /\ version' = version
        /\ begun' = begun + 1 /\ moment' = moment + 1
    BY DEF BeginRun
  <1>2. /\ NextNumber(s) \in 1 .. begun + 1
        /\ \A i \in LiveVersions : version[i].number < NextNumber(s)
    BY NumbersInSight DEF BeginRun
  <1>3. ASSUME gen[s].phase = "left" PROVE gen[s] \in Lefts
    <2>1. gen[s] \in Runs /\ gen[s].before = <<>>
      BY <1>3 DEF GenerationInv, Shaped, NotGenerating, BeginRun
    <2>2. gen[s] = [gen[s] EXCEPT !.phase = "left", !.before = <<>>] BY <1>3, <2>1 DEF Runs, RunsWith
    <2> QED BY <1>3, <2>1, <2>2 DEF Runs, Lefts, RunsWith
  <1>4. g \in Runs
    <2>1. before \in {<<>>} \cup {<<x>> : x \in Lefts} BY <1>3
    <2>2. NextNumber(s) \in Nat BY <1>0, <1>2
    <2> HIDE DEF before
    <2> QED BY <1>0, <2>1, <2>2 DEF Runs, RunsWith
  <1>5. g.number = NextNumber(s) /\ g.from = moment + 1 /\ g.before = before OBVIOUS
  <1>6. Shaped' BY <1>0, <1>1, <1>4 DEF GenerationInv, Shaped
  <1>7. ASSUME NEW h, h.number \in Nat, h.from \in Nat, Aside(h) PROVE Aside(h)'
    BY <1>0, <1>1, <1>7 DEF Aside, LiveVersions
  <1>8. Aside(g)'
    <2>1. \A i \in LiveVersions : version[i].number # g.number
      <3>1. ASSUME NEW i \in LiveVersions PROVE version[i].number \in Nat
        BY VersionFacts DEF GenerationInv, RunRows
      <3> QED BY <1>2, <1>5, <3>1
    <2> QED BY <1>0, <1>1, <1>2, <1>5, <2>1 DEF Aside, LiveVersions
  <1>9. ASSUME NEW t \in Sessions, NEW h \in HeldOf(gen'[t]) PROVE Aside(h)'
    <2>1. ASSUME NEW u \in Sessions, NEW k \in HeldOf(gen[u]) PROVE Aside(k)'
      <3>1. gen[u] \in Runs BY <2>1 DEF GenerationInv, Shaped, HeldOf, NotGenerating
      <3>2. k \in Runs BY <2>1, <3>1, HeldShapes, LeftsAreRuns
      <3>3. k.number \in Nat /\ k.from \in Nat BY <3>2 DEF Runs, RunsWith
      <3>4. Aside(k) BY <2>1 DEF GenerationInv
      <3> QED BY <1>7, <3>3, <3>4
    <2>2. CASE t # s BY <1>1, <1>9, <2>1, <2>2 DEF GenerationInv, Shaped
    <2>3. CASE t = s
      <3>1. gen'[s] = g BY <1>1 DEF GenerationInv, Shaped
      <3>2. CASE h = g BY <1>8, <3>2
      <3>3. CASE h # g
        <4>1. gen[s].phase = "left" /\ h = gen[s]
          <5>1. \E k \in DOMAIN g.before : h = g.before[k] BY <1>9, <2>3, <3>1, <3>3 DEF HeldOf
          <5> QED BY <1>5, <5>1
        <4>2. h \in HeldOf(gen[s]) BY <4>1 DEF HeldOf
        <4> QED BY <2>1, <4>2
      <3> QED BY <3>2, <3>3
    <2> QED BY <2>2, <2>3
  <1>10. /\ (\A i \in 1 .. Len(version) : Timely(version[i]) /\ Answered(version[i]))'
         /\ NamesDistinct'
    <2>1. ASSUME NEW i \in 1 .. Len(version) PROVE Timely(version[i])'
      <3>1. version[i] \in RunRows BY VersionFacts DEF GenerationInv
      <3>2. version[i].number \in Nat /\ version[i].at \in Nat BY <3>1 DEF RunRows
      <3> QED BY <1>0, <1>1, <3>2 DEF GenerationInv, Timely
    <2> QED BY <1>1, <2>1 DEF GenerationInv, Answered, NamesDistinct, LiveVersions
  <1> QED BY <1>6, <1>9, <1>10 DEF GenerationInv

\* Edits of a run by the skill.
LEMMA RunEdits ==
  ASSUME NEW g \in Runs, NEW skipped \in SUBSET GenLines
  PROVE  \A h \in {[g EXCEPT !.skipped = skipped], [g EXCEPT !.error = TRUE], [g EXCEPT !.phase = "left"]} :
             h \in Runs /\ h.number = g.number /\ h.from = g.from /\ h.before = g.before
  BY DEF Runs, RunsWith

\* The invariant while a run forecasts, skips, fails or dies.
LEMMA RunIsEdited ==
  ASSUME GenerationInv, NEW s \in Sessions,
         \/ \E l \in GenLines : SkipLine(s, l)
         \/ \E l \in GenLines, flush \in BOOLEAN : ForecastLine(s, l, flush)
         \/ LineError(s) \/ MissingRate(s) \/ RunDies(s)
  PROVE  GenerationInv'
  <1>1. gen \in [Sessions -> {NotGenerating} \cup Runs] BY DEF GenerationInv, Shaped
  <1>2. gen[s].phase # "idle" => gen[s] \in Runs BY <1>1 DEF NotGenerating
  <1>3. ASSUME NEW l \in GenLines, SkipLine(s, l) PROVE GenerationInv'
    <2> DEFINE skipped == gen[s].skipped \cup {l}
               g == [gen[s] EXCEPT !.skipped = skipped]
    <2>1. gen[s] \in Runs /\ skipped \in SUBSET GenLines BY <1>2, <1>3 DEF SkipLine, Runs, RunsWith
    <2>2. g \in Runs /\ g.number = gen[s].number /\ g.from = gen[s].from /\ g.before = gen[s].before
      <3> HIDE DEF skipped
      <3> QED BY <2>1, RunEdits
    <2>3. gen' = [gen EXCEPT ![s] = g] /\ UNCHANGED <<version, begun, moment>> BY <1>3 DEF SkipLine
    <2> HIDE DEF g
    <2> QED BY <2>1, <2>2, <2>3, RunGoesOn
  <1>4. ASSUME NEW l \in GenLines, NEW flush \in BOOLEAN, ForecastLine(s, l, flush) PROVE GenerationInv'
    <2> DEFINE lines   == gen[s].lines \cup {l}
               flushed == IF flush THEN lines ELSE gen[s].flushed
               g == [gen[s] EXCEPT !.lines = lines, !.flushed = flushed]
    <2>1. gen[s] \in Runs /\ gen[s].lines \in SUBSET GenLines /\ gen[s].flushed \in SUBSET GenLines
      BY <1>2, <1>4 DEF ForecastLine, Runs, RunsWith
    <2>2. lines \in SUBSET GenLines /\ flushed \in SUBSET GenLines BY <2>1
    <2>3. g \in Runs /\ g.number = gen[s].number /\ g.from = gen[s].from /\ g.before = gen[s].before
      <3> HIDE DEF lines, flushed
      <3> QED BY <2>1, <2>2 DEF Runs, RunsWith
    <2>4. gen' = [gen EXCEPT ![s] = g] /\ UNCHANGED <<version, begun, moment>> BY <1>4 DEF ForecastLine
    <2> HIDE DEF g
    <2> QED BY <2>1, <2>3, <2>4, RunGoesOn
  <1>5. CASE LineError(s)
    <2> DEFINE g == [gen[s] EXCEPT !.error = TRUE]
    <2>1. gen[s] \in Runs /\ {} \in SUBSET GenLines BY <1>2, <1>5 DEF LineError
    <2>2. g \in Runs /\ g.number = gen[s].number /\ g.from = gen[s].from /\ g.before = gen[s].before
      BY <2>1, RunEdits
    <2>3. gen' = [gen EXCEPT ![s] = g] /\ UNCHANGED <<version, begun, moment>> BY <1>5 DEF LineError
    <2> HIDE DEF g
    <2> QED BY <2>1, <2>2, <2>3, RunGoesOn
  <1>6. CASE MissingRate(s)
    <2> DEFINE g == IF s \in ChatSessions THEN [gen[s] EXCEPT !.phase = "left"] ELSE NotGenerating
    <2>1. gen[s] \in Runs /\ {} \in SUBSET GenLines BY <1>2, <1>6 DEF MissingRate
    <2>2. CASE s \in ChatSessions
      <3>1. g \in Runs /\ g.number = gen[s].number /\ g.from = gen[s].from /\ g.before = gen[s].before
        BY <2>1, <2>2, RunEdits
      <3>2. gen' = [gen EXCEPT ![s] = g] /\ UNCHANGED <<version, begun, moment>> BY <1>6 DEF MissingRate
      <3> HIDE DEF g
      <3> QED BY <2>1, <3>1, <3>2, RunGoesOn
    <2>3. CASE s \notin ChatSessions
      <3>1. gen' = [gen EXCEPT ![s] = NotGenerating] /\ UNCHANGED <<version, begun, moment>>
        BY <1>6, <2>3 DEF MissingRate
      <3> QED BY <3>1, RunGoesOn, HeldShapes
    <2> QED BY <2>2, <2>3
  <1>7. CASE RunDies(s)
    <2>1. gen' = [gen EXCEPT ![s] = NotGenerating] /\ UNCHANGED <<version, begun, moment>>
      BY <1>7 DEF RunDies
    <2> QED BY <2>1, RunGoesOn, HeldShapes
  <1> QED BY <1>3, <1>4, <1>5, <1>6, <1>7

-----------------------------------------------------------------------------
(* Steps on one version *)

\* A submission or a deletion changes only what the invariant asks less of.
LEMMA VersionIsEdited ==
  ASSUME GenerationInv, NEW i \in LiveVersions, SubmitVersion(i) \/ DeleteVersion(i)
  PROVE  GenerationInv'
  <1>1. i \in 1 .. Len(version) /\ version[i] \in RunRows /\ version \in Seq(RunRows)
    BY VersionFacts DEF GenerationInv, Shaped
  <1>2. PICK stored \in RunRows :
          /\ version' = [version EXCEPT ![i] = stored]
          /\ stored.number = version[i].number /\ stored.from = version[i].from /\ stored.at = version[i].at
          /\ stored.live => version[i].live
          /\ Answered(version[i]) => Answered(stored)
    <2>1. CASE SubmitVersion(i)
      <3> DEFINE stored == [version[i] EXCEPT !.draft = FALSE]
      <3>1. /\ stored \in RunRows /\ stored.number = version[i].number /\ stored.from = version[i].from
            /\ stored.at = version[i].at /\ stored.live = version[i].live
            /\ stored.answer = version[i].answer /\ stored.lines = version[i].lines /\ stored.skipped = version[i].skipped
            /\ stored.reconciled = version[i].reconciled /\ stored.scored = version[i].scored
        BY <1>1 DEF RunRows
      <3>2. version' = [version EXCEPT ![i] = stored] BY <2>1 DEF SubmitVersion
      <3> HIDE DEF stored
      <3>3. Answered(version[i]) => Answered(stored) BY <3>1, Zenon DEF Answered
      <3> QED BY <3>1, <3>2, <3>3
    <2>2. CASE DeleteVersion(i)
      <3> DEFINE stored == [version[i] EXCEPT !.live = FALSE]
      <3>1. /\ stored \in RunRows /\ stored.number = version[i].number /\ stored.from = version[i].from
            /\ stored.at = version[i].at /\ ~stored.live
            /\ stored.answer = version[i].answer /\ stored.lines = version[i].lines /\ stored.skipped = version[i].skipped
            /\ stored.reconciled = version[i].reconciled /\ stored.scored = version[i].scored
        BY <1>1 DEF RunRows
      <3>2. version' = [version EXCEPT ![i] = stored] BY <2>2 DEF DeleteVersion
      <3> HIDE DEF stored
      <3>3. Answered(version[i]) => Answered(stored) BY <3>1, Zenon DEF Answered
      <3> QED BY <3>1, <3>2, <3>3
    <2> QED BY <2>1, <2>2
  <1>3. UNCHANGED <<gen, begun, moment>> BY DEF SubmitVersion, DeleteVersion
  <1>4. /\ version' \in Seq(RunRows) /\ Len(version') = Len(version)
        /\ \A j \in 1 .. Len(version) : version'[j] = IF j = i THEN stored ELSE version[j]
    BY <1>1, <1>2, ExceptSeq
  <1>5. Shaped' BY <1>3, <1>4 DEF GenerationInv, Shaped
  <1>6. ASSUME NEW j \in 1 .. Len(version)
        PROVE  /\ version'[j].number = version[j].number /\ version'[j].from = version[j].from
               /\ version'[j].at = version[j].at
               /\ version'[j].live => version[j].live
               /\ Answered(version[j]) => Answered(version'[j])
    BY <1>2, <1>4, Zenon
  <1>7. LiveVersions' \subseteq LiveVersions /\ LiveVersions \subseteq 1 .. Len(version)
    <2>1. LiveVersions' = {j \in 1 .. Len(version) : version'[j].live}
      BY <1>4, <1>5, VersionFacts, LenProperties DEF LiveVersions
    <2>2. LiveVersions = {j \in 1 .. Len(version) : version[j].live} BY VersionFacts DEF GenerationInv
    <2> QED BY <1>6, <2>1, <2>2
  <1>8. ASSUME NEW g, Aside(g) PROVE Aside(g)' BY <1>3, <1>6, <1>7, <1>8 DEF Aside
  <1>9. NamesDistinct' BY <1>6, <1>7 DEF GenerationInv, NamesDistinct
  <1>10. (\A j \in 1 .. Len(version) : Timely(version[j]) /\ Answered(version[j]))'
    BY <1>3, <1>4, <1>6 DEF GenerationInv, Timely, Answered
  <1> QED BY <1>3, <1>5, <1>8, <1>9, <1>10 DEF GenerationInv

-----------------------------------------------------------------------------
(* Commits *)

\* What a commit of session s may add: a stored of a run it holds.
NewRow(s, r) ==
    /\ r \in RunRows /\ r.at = moment + 1 /\ Answered(r)
    /\ \E g \in HeldOf(gen[s]) : r.number = g.number /\ r.from = g.from

\* A row made of a held run is a row that may be committed.
LEMMA RowOfRun ==
  ASSUME NEW s \in Sessions, NEW g \in HeldOf(gen[s]), NEW lines, NEW reconciled, NEW scored, NEW answer,
         Row(g, lines, reconciled, scored, answer) \in RunRows,
         Answered(Row(g, lines, reconciled, scored, answer))
  PROVE  NewRow(s, Row(g, lines, reconciled, scored, answer))
  <1> DEFINE r == Row(g, lines, reconciled, scored, answer)
  <1>1. r.number = g.number /\ r.from = g.from /\ r.at = moment + 1 BY DEF Row
  <1> HIDE DEF r
  <1>2. r \in RunRows /\ Answered(r) BY DEF r
  <1>3. NewRow(s, r) BY <1>1, <1>2 DEF NewRow
  <1> QED BY <1>3 DEF r

\* The versions afterwards are those before and new rows.
LEMMA OldOrNew ==
  ASSUME GenerationInv, NEW s \in Sessions, gen[s] \in Runs, NEW stored, NewRow(s, stored),
         version' = (version \o Leftover(s)) \o <<stored>>
  PROVE  /\ version' \in Seq(RunRows)
         /\ \A i \in 1 .. Len(version') :
               \/ i \in 1 .. Len(version) /\ version'[i] = version[i]
               \/ NewRow(s, version'[i])
  <1>1. version \in Seq(RunRows) /\ Len(version) \in Nat /\ moment \in Nat /\ stored \in RunRows
    BY LenProperties DEF GenerationInv, Shaped, NewRow
  <1>2. PICK before \in Seq(RunRows) :
           Leftover(s) = before /\ \A k \in 1 .. Len(before) : NewRow(s, before[k])
    <2>1. CASE gen[s].before = <<>>
      <3>1. Leftover(s) = <<>> BY <2>1 DEF Leftover
      <3>2. <<>> \in Seq(RunRows) /\ Len(<<>>) = 0 BY EmptySeq
      <3>3. \A k \in 1 .. Len(<<>>) : NewRow(s, <<>>[k]) BY <3>2
      <3> QED BY <3>1, <3>2, <3>3
    <2>2. ASSUME NEW x \in Lefts, gen[s].before = <<x>>, HeldOf(gen[s]) = {gen[s], x}
          PROVE  \E before \in Seq(RunRows) :
                    Leftover(s) = before /\ \A k \in 1 .. Len(before) : NewRow(s, before[k])
      <3> DEFINE r == Row(x, x.flushed, FALSE, FALSE, "failed")
      <3>1. x \in Runs /\ x.flushed \in SUBSET GenLines BY LeftsAreRuns DEF Lefts, RunsWith
      <3>2. r \in RunRows /\ Answered(r) BY <1>1, <3>1, FailedAnswered
      <3>3. NewRow(s, r) BY <2>2, <3>2, RowOfRun
      <3>4. DOMAIN gen[s].before = {1} /\ gen[s].before[1] = x BY <2>2
      <3>5. Leftover(s) = [k \in {1} |-> r] BY <3>4 DEF Leftover
      <3> HIDE DEF r
      <3>6. [k \in {1} |-> r] = <<r>> OBVIOUS
      <3>7. <<r>> \in Seq(RunRows) /\ Len(<<r>>) = 1 /\ <<r>>[1] = r BY <3>2
      <3>8. \A k \in 1 .. Len(<<r>>) : NewRow(s, <<r>>[k])
        <4> SUFFICES ASSUME NEW k \in 1 .. Len(<<r>>) PROVE NewRow(s, <<r>>[k]) OBVIOUS
        <4>1. <<r>>[k] = r BY <3>7
        <4> QED BY <3>3, <4>1
      <3>9. Leftover(s) = <<r>> BY <3>5, <3>6
      <3> QED BY <3>7, <3>8, <3>9
    <2> QED BY <2>1, <2>2, HeldShapes
  <1>3. <<stored>> \in Seq(RunRows) /\ Len(<<stored>>) = 1 /\ <<stored>>[1] = stored BY <1>1
  <1> DEFINE mid == version \o before
  <1>4. /\ mid \in Seq(RunRows) /\ Len(mid) = Len(version) + Len(before) /\ Len(before) \in Nat
        /\ \A i \in 1 .. Len(mid) : mid[i] = IF i <= Len(version) THEN version[i] ELSE before[i - Len(version)]
    BY <1>1, <1>2, ConcatProperties, LenProperties
  <1>5. version' = mid \o <<stored>> BY <1>2
  <1> HIDE DEF mid
  <1>6. /\ version' \in Seq(RunRows) /\ Len(version') = Len(mid) + 1
        /\ \A i \in 1 .. Len(mid) + 1 : version'[i] = IF i <= Len(mid) THEN mid[i] ELSE stored
    <2>1. /\ mid \o <<stored>> \in Seq(RunRows) /\ Len(mid \o <<stored>>) = Len(mid) + 1
          /\ \A i \in 1 .. Len(mid) + 1 :
                (mid \o <<stored>>)[i] = IF i <= Len(mid) THEN mid[i] ELSE <<stored>>[i - Len(mid)]
      BY <1>3, <1>4, ConcatProperties
    <2>2. \A i \in 1 .. Len(mid) + 1 : ~ (i <= Len(mid)) => <<stored>>[i - Len(mid)] = stored BY <1>1, <1>4
    <2> QED BY <1>5, <2>1, <2>2
  <1>7. ASSUME NEW i \in 1 .. Len(version')
        PROVE  (i \in 1 .. Len(version) /\ version'[i] = version[i]) \/ NewRow(s, version'[i])
    <2>1. CASE i <= Len(version) BY <1>1, <1>4, <1>6, <2>1
    <2>2. CASE Len(version) < i /\ i <= Len(mid)
      <3>1. version'[i] = before[i - Len(version)] /\ i - Len(version) \in 1 .. Len(before)
        BY <1>1, <1>4, <1>6, <2>2
      <3> QED BY <1>2, <3>1
    <2>3. CASE Len(mid) < i BY <1>1, <1>4, <1>6, <2>3
    <2> QED BY <1>1, <1>4, <1>6, <2>1, <2>2, <2>3
  <1> QED BY <1>6, <1>7

\* The invariant when such a row is committed.
LEMMA CommitKeeps ==
  ASSUME GenerationInv, NEW s \in Sessions, gen[s] \in Runs, NEW stored, NewRow(s, stored), CommitRun(s, stored)
  PROVE  GenerationInv'
  <1>1. /\ version' \in Seq(RunRows)
        /\ \A i \in 1 .. Len(version') :
              \/ i \in 1 .. Len(version) /\ version'[i] = version[i]
              \/ NewRow(s, version'[i])
    BY OldOrNew DEF CommitRun
  <1>2. /\ begun \in Nat /\ moment \in Nat /\ begun' = begun /\ moment' = moment + 1
        /\ gen' = [gen EXCEPT ![s] = NotGenerating]
    BY DEF GenerationInv, Shaped, CommitRun
  <1>3. Shaped' BY <1>1, <1>2 DEF GenerationInv, Shaped
  <1>4. /\ LiveVersions = {i \in 1 .. Len(version) : version[i].live}
        /\ LiveVersions' = {i \in 1 .. Len(version') : version'[i].live}
    BY <1>1, VersionFacts, LenProperties DEF GenerationInv, LiveVersions
  <1>5. ASSUME NEW i \in 1 .. Len(version)
        PROVE  /\ version[i].number \in Nat /\ version[i].from \in Nat /\ version[i].at \in Nat
               /\ version[i].from <= version[i].at /\ version[i].at <= moment /\ version[i].number <= begun
    BY VersionFacts DEF GenerationInv, RunRows, Timely
  <1>6. ASSUME NEW r, NewRow(s, r)
        PROVE  /\ r.number \in Nat /\ r.from \in Nat /\ r.at = moment + 1 /\ r.from <= moment
               /\ r.number <= begun
               /\ \A i \in LiveVersions : version[i].number = r.number => r.from <= version[i].at
    <2>1. PICK g \in HeldOf(gen[s]) : r.number = g.number /\ r.from = g.from BY <1>6 DEF NewRow
    <2>2. Aside(g) BY DEF GenerationInv
    <2> QED BY <1>6, <2>1, <2>2 DEF Aside, NewRow, RunRows
  <1>7. (\A i \in 1 .. Len(version) : Timely(version[i]) /\ Answered(version[i]))'
    <2>1. ASSUME NEW i \in 1 .. Len(version')
          PROVE  /\ version'[i].number <= begun' /\ version'[i].from <= version'[i].at
                 /\ version'[i].at <= moment' /\ Answered(version'[i])
      <3>1. CASE i \in 1 .. Len(version) /\ version'[i] = version[i]
        <4>1. Answered(version'[i]) BY <3>1 DEF GenerationInv
        <4> QED BY <1>2, <1>5, <3>1, <4>1
      <3>2. CASE NewRow(s, version'[i])
        <4>1. Answered(version'[i]) BY <3>2 DEF NewRow
        <4> QED BY <1>2, <1>6, <3>2, <4>1
      <3> QED BY <1>1, <3>1, <3>2
    <2> QED BY <2>1 DEF Timely, Answered
  <1>8. NamesDistinct'
    <2>1. ASSUME NEW i \in LiveVersions', NEW j \in LiveVersions', i # j,
                 version'[i].number = version'[j].number
          PROVE  version'[i].from <= version'[j].at
      <3>1. CASE /\ i \in 1 .. Len(version) /\ version'[i] = version[i]
                 /\ j \in 1 .. Len(version) /\ version'[j] = version[j]
        BY <1>4, <2>1, <3>1 DEF GenerationInv, NamesDistinct
      <3>2. CASE NewRow(s, version'[i]) /\ j \in 1 .. Len(version) /\ version'[j] = version[j]
        BY <1>4, <1>6, <2>1, <3>2
      <3>3. CASE i \in 1 .. Len(version) /\ version'[i] = version[i] /\ NewRow(s, version'[j])
        BY <1>2, <1>5, <1>6, <3>3
      <3>4. CASE NewRow(s, version'[i]) /\ NewRow(s, version'[j]) BY <1>2, <1>6, <3>4
      <3> QED BY <1>1, <1>4, <3>1, <3>2, <3>3, <3>4
    <2> QED BY <2>1 DEF NamesDistinct
  <1>9. ASSUME NEW t \in Sessions, NEW g \in HeldOf(gen'[t]) PROVE Aside(g)'
    <2>1. t # s BY <1>2, <1>9 DEF GenerationInv, Shaped, HeldOf, NotGenerating
    <2>2. gen'[t] = gen[t] BY <1>2, <2>1 DEF GenerationInv, Shaped
    <2>3. Aside(g) /\ gen[t] \in Runs
      BY <1>9, <2>2 DEF GenerationInv, Shaped, HeldOf, NotGenerating
    <2>4. g \in Runs BY <1>9, <2>2, <2>3, HeldShapes, LeftsAreRuns
    <2>5. g.from \in Nat /\ g.number \in Nat /\ g.from <= moment /\ g.number <= begun
      BY <2>3, <2>4 DEF Aside, Runs, RunsWith
    <2>6. ASSUME NEW i \in LiveVersions', version'[i].number = g.number PROVE g.from <= version'[i].at
      <3>1. CASE i \in 1 .. Len(version) /\ version'[i] = version[i] BY <1>4, <2>3, <2>6, <3>1 DEF Aside
      <3>2. CASE NewRow(s, version'[i]) BY <1>2, <1>6, <2>5, <3>2
      <3> QED BY <1>1, <1>4, <3>1, <3>2
    <2> QED BY <1>2, <2>5, <2>6 DEF Aside
  <1> QED BY <1>3, <1>7, <1>8, <1>9 DEF GenerationInv

\* The invariant at each of the three ends of a run.
LEMMA RunIsCommitted ==
  ASSUME GenerationInv, NEW s \in Sessions,
         TimeOut(s) \/ TurnCommits(s) \/ \E reconciled \in BOOLEAN : FinishRun(s, reconciled)
  PROVE  GenerationInv'
  <1>1. gen[s].phase # "idle" BY DEF TimeOut, TurnCommits, FinishRun
  <1>2. /\ gen[s] \in Runs /\ gen[s].lines \in SUBSET GenLines /\ gen[s].flushed \in SUBSET GenLines
        /\ gen[s] \in HeldOf(gen[s]) /\ moment \in Nat
    BY <1>1 DEF GenerationInv, Shaped, NotGenerating, Runs, RunsWith, HeldOf
  <1>3. CASE TimeOut(s)
    <2> DEFINE stored == Row(gen[s], gen[s].lines, FALSE, FALSE, "timeout")
    <2>1. stored \in RunRows /\ Answered(stored) BY <1>2, FailedAnswered
    <2>2. NewRow(s, stored) BY <1>2, <2>1, RowOfRun
    <2>3. CommitRun(s, stored) BY <1>3 DEF TimeOut
    <2> HIDE DEF stored
    <2> QED BY <1>2, <2>2, <2>3, CommitKeeps
  <1>4. CASE TurnCommits(s)
    <2> DEFINE stored == Row(gen[s], gen[s].flushed, FALSE, FALSE, "failed")
    <2>1. stored \in RunRows /\ Answered(stored) BY <1>2, FailedAnswered
    <2>2. NewRow(s, stored) BY <1>2, <2>1, RowOfRun
    <2>3. CommitRun(s, stored) BY <1>4 DEF TurnCommits
    <2> HIDE DEF stored
    <2> QED BY <1>2, <2>2, <2>3, CommitKeeps
  <1>5. ASSUME NEW reconciled \in BOOLEAN, FinishRun(s, reconciled) PROVE GenerationInv'
    <2> DEFINE stored == Row(gen[s], gen[s].lines, reconciled, TRUE, Told(gen[s].error, reconciled))
    <2>1. ~gen[s].error => GenLines \subseteq gen[s].lines \cup gen[s].skipped BY <1>5 DEF FinishRun, Todo
    <2>2. stored \in RunRows /\ Answered(stored) BY <1>2, <2>1, FinishAnswered
    <2>3. NewRow(s, stored) BY <1>2, <2>2, RowOfRun
    <2>4. CommitRun(s, stored) BY <1>5 DEF FinishRun
    <2> HIDE DEF stored
    <2> QED BY <1>2, <2>3, <2>4, CommitKeeps
  <1> QED BY <1>3, <1>4, <1>5

-----------------------------------------------------------------------------

\* The invariant at the start.
LEMMA GenerationStarts == GenerationInit => GenerationInv
  <1> SUFFICES ASSUME GenerationInit PROVE GenerationInv OBVIOUS
  <1>1. /\ version = <<>> /\ Len(version) = 0 /\ gen = [s \in Sessions |-> NotGenerating]
        /\ begun = 0 /\ moment = 0
    BY DEF GenerationInit
  <1>2. Shaped BY <1>1, EmptySeq DEF Shaped
  <1>3. LiveVersions = {} BY <1>1, <1>2, VersionFacts
  <1>4. \A s \in Sessions : HeldOf(gen[s]) = {} BY <1>1 DEF HeldOf, NotGenerating
  <1> QED BY <1>1, <1>2, <1>3, <1>4 DEF GenerationInv, NamesDistinct

\* The invariant in every step.
LEMMA GenerationSteps == GenerationInv /\ [GenerationNext]_generationVars => GenerationInv'
  <1> SUFFICES ASSUME GenerationInv, [GenerationNext]_generationVars PROVE GenerationInv' OBVIOUS
  <1>1. ASSUME NEW s \in Sessions, BeginRun(s) PROVE GenerationInv' BY <1>1, RunBegins
  <1>2. ASSUME NEW s \in Sessions, LineError(s) \/ MissingRate(s) \/ RunDies(s) PROVE GenerationInv'
    BY <1>2, RunIsEdited
  <1>3. ASSUME NEW s \in Sessions, NEW l \in GenLines, SkipLine(s, l) PROVE GenerationInv'
    BY <1>3, RunIsEdited
  <1>4. ASSUME NEW s \in Sessions, NEW l \in GenLines, NEW flush \in BOOLEAN, ForecastLine(s, l, flush)
        PROVE  GenerationInv'
    BY <1>4, RunIsEdited
  <1>5. ASSUME NEW s \in Sessions, TimeOut(s) \/ TurnCommits(s) PROVE GenerationInv' BY <1>5, RunIsCommitted
  <1>6. ASSUME NEW s \in Sessions, NEW reconciled \in BOOLEAN, FinishRun(s, reconciled) PROVE GenerationInv'
    BY <1>6, RunIsCommitted
  <1>7. ASSUME NEW i \in 1 .. MaxGenerations, SubmitVersion(i) \/ DeleteVersion(i) PROVE GenerationInv'
    BY <1>7, VersionIsEdited DEF SubmitVersion, DeleteVersion
  <1>8. CASE UNCHANGED generationVars
    <2>1. UNCHANGED <<version, gen, begun, moment>> BY <1>8 DEF generationVars
    <2> QED BY <2>1
        DEF GenerationInv, Shaped, Timely, Aside, Answered, NamesDistinct, LiveVersions
  <1> QED BY <1>1, <1>2, <1>3, <1>4, <1>5, <1>6, <1>7, <1>8 DEF GenerationNext

\* Whatever runs overlap, fail, time out or are left in a chat session, and
\* whatever is deleted in between, versions of one number were generated at
\* overlapping times and each is what its answer said (generate_baseline).
THEOREM RunsAreAnswered == GenerationSpec => []RunsAnswered
  <1>1. GenerationInv => RunsAnswered
    <2> SUFFICES ASSUME GenerationInv PROVE RunsAnswered OBVIOUS
    <2>1. DOMAIN version = 1 .. Len(version) BY VersionFacts DEF GenerationInv
    <2>2. AsAnswered BY <2>1 DEF GenerationInv, AsAnswered, Answered
    <2> QED BY <2>2 DEF GenerationInv, RunsAnswered
  <1> QED BY <1>1, GenerationStarts, GenerationSteps, PTL DEF GenerationSpec

-----------------------------------------------------------------------------
(***************************************************************************)
(* CurrencyKept for any lines, currencies, rates and number of generations.*)
(*                                                                         *)
(* The invariant speaks of one generation at a time and of the rates kept: *)
(* a line still to be converted has its actual, one in the currency of the *)
(* version keeps it, and any other has been converted by a rate on record; *)
(* while no rate changes, the rates on record are those the lookup finds,  *)
(* and the lookup finds one per pair.                                      *)
(***************************************************************************)

ConversionShaped(c) ==
    /\ c \in [phase : {c.phase}, pinned : {c.pinned}, left : {c.left}, points : {c.points}, used : {c.used},
              disturbed : BOOLEAN]
    /\ c.points = [l \in ConvertedLines |-> c.points[l]]

\* A line and the point it has been given.
ConvertedRight(c, l) ==
    \E u \in c.used : /\ u.line = l /\ u.pair = <<LocalOf[l], c.pinned>>
                      /\ c.points[l] = Converted(AmountOf[l], u.by)

PointsRight(c) ==
    /\ c.phase = "idle" => c.left = ConvertedLines /\ c.used = {}
    /\ c.phase = "done" => c.left = {}
    /\ \A l \in ConvertedLines : l \in c.left \/ LocalOf[l] = c.pinned => c.points[l] = AmountOf[l]
    /\ \A l \in ConvertedLines \ c.left : LocalOf[l] # c.pinned => ConvertedRight(c, l)

OneRatePerPair(c) ==
    ~c.disturbed => \A u, v \in c.used : u.pair = v.pair => u.by = v.by

RatesCurrent(c, rows) ==
    ~c.disturbed /\ c.phase = "running" =>
        \A u \in c.used : u.by \in RatesFor(rows, u.pair[1], u.pair[2])

Right(c, rows) == ConversionShaped(c) /\ PointsRight(c) /\ OneRatePerPair(c) /\ RatesCurrent(c, rows)

CurrencyInv ==
    /\ conversion = [g \in Conversions |-> conversion[g]]
    /\ \A g \in Conversions : Right(conversion[g], quotes)

-----------------------------------------------------------------------------
\* The lookup finds at most one rate.
LEMMA OneRate ==
    ASSUME NEW rows, NEW a, NEW b, NEW x \in RatesFor(rows, a, b), NEW y \in RatesFor(rows, a, b)
    PROVE  x = y
<1>1. \E z : RatesFor(rows, a, b) \subseteq {z}
  <2>1. CASE QuotedFor(rows, a, b) # <<>>
    BY <2>1, Zenon DEF RatesFor
  <2>2. CASE QuotedFor(rows, a, b) = <<>> /\ QuotedFor(rows, b, a) # <<>>
    BY <2>2, Zenon DEF RatesFor
  <2>3. CASE QuotedFor(rows, a, b) = <<>> /\ QuotedFor(rows, b, a) = <<>>
    BY <2>3, Zenon DEF RatesFor
  <2> QED BY <2>1, <2>2, <2>3
<1> QED BY <1>1

\* The writes a generation makes to its own record leave a record.
LEMMA StillShaped ==
    ASSUME NEW c, ConversionShaped(c)
    PROVE  /\ \A p, q : ConversionShaped([c EXCEPT !.phase = p, !.pinned = q])
           /\ \A l, a, y, z : ConversionShaped([c EXCEPT !.left = a, !.points[l] = y, !.used = z])
<1>1. ASSUME NEW p, NEW q PROVE ConversionShaped([c EXCEPT !.phase = p, !.pinned = q])
  BY DEF ConversionShaped
<1>2. ASSUME NEW l, NEW a, NEW y, NEW z PROVE ConversionShaped([c EXCEPT !.left = a, !.points[l] = y, !.used = z])
  <2> DEFINE d == [c EXCEPT !.left = a, !.points[l] = y, !.used = z]
  <2>1. d \in [phase : {d.phase}, pinned : {d.pinned}, left : {d.left}, points : {d.points}, used : {d.used}, disturbed : BOOLEAN]
    BY DEF ConversionShaped
  <2>2. d.points = [c.points EXCEPT ![l] = y]
    BY DEF ConversionShaped
  <2>3. d.points = [k \in ConvertedLines |-> d.points[k]]
    BY <2>2 DEF ConversionShaped
  <2> QED BY <2>1, <2>3 DEF ConversionShaped
<1> QED BY <1>1, <1>2

\* A commit of the rates marks the running generations and changes nothing else of them.
LEMMA RatesMayChange ==
    ASSUME CurrencyInv, NEW rows, StoreRates(rows)
    PROVE  CurrencyInv'
<1>1. \A g \in Conversions :
         conversion'[g] = [conversion[g] EXCEPT !.disturbed = conversion[g].disturbed \/ conversion[g].phase = "running"]
  BY DEF StoreRates
<1>2. ASSUME NEW g \in Conversions PROVE Right(conversion'[g], quotes')
  <2> DEFINE c == conversion[g]
             d == conversion'[g]
  <2>1. Right(c, quotes)
    BY DEF CurrencyInv
  <2>2. /\ d.phase = c.phase /\ d.pinned = c.pinned /\ d.left = c.left /\ d.points = c.points /\ d.used = c.used
        /\ d.disturbed = (c.disturbed \/ c.phase = "running")
        /\ ConversionShaped(d)
    BY <1>1, <2>1 DEF Right, ConversionShaped
  <2> HIDE DEF c, d
  <2>3. PointsRight(d)
    BY SMTT(60), <2>1, <2>2 DEF Right, PointsRight, ConvertedRight
  <2>4. OneRatePerPair(d)
    BY <2>1, <2>2 DEF Right, OneRatePerPair
  <2>5. RatesCurrent(d, quotes')
    BY <2>2 DEF RatesCurrent
  <2> QED BY <2>2, <2>3, <2>4, <2>5 DEF Right, d
<1>3. conversion' = [g \in Conversions |-> conversion'[g]]
  BY DEF StoreRates
<1> QED BY <1>2, <1>3 DEF CurrencyInv

\* A generation that is right after a step which touches no rate and no other generation.
LEMMA OneMoves ==
    ASSUME CurrencyInv, NEW g \in Conversions, quotes' = quotes,
           NEW d, conversion' = [conversion EXCEPT ![g] = d], Right(d, quotes)
    PROVE  CurrencyInv'
BY DEF CurrencyInv

\* The invariant when a conversion reads its rate and lines.
LEMMA StartRight ==
    ASSUME CurrencyInv, NEW g \in Conversions, StartConversion(g)
    PROVE  CurrencyInv'
<1> DEFINE c == conversion[g]
           d == [c EXCEPT !.phase = "running", !.pinned = ReportingCurrency]
<1>1. Right(c, quotes) /\ c.phase = "idle"
  BY DEF CurrencyInv, StartConversion
<1>2. d.phase = "running" /\ d.left = c.left /\ d.points = c.points /\ d.used = c.used /\ d.disturbed = c.disturbed
  BY <1>1 DEF Right, ConversionShaped
<1>5. ConversionShaped(d)
  BY <1>1, StillShaped DEF Right
<1>3. quotes' = quotes /\ conversion' = [conversion EXCEPT ![g] = d]
  BY DEF StartConversion, CurrencyInv
<1> HIDE DEF c, d
<1>4. PointsRight(d) /\ OneRatePerPair(d) /\ RatesCurrent(d, quotes)
  BY <1>1, <1>2 DEF Right, PointsRight, OneRatePerPair, RatesCurrent
<1> QED BY <1>2, <1>5, <1>3, <1>4, OneMoves DEF Right

\* The invariant when a conversion writes its lines.
LEMMA FinishRight ==
    ASSUME CurrencyInv, NEW g \in Conversions, FinishConversion(g)
    PROVE  CurrencyInv'
<1> DEFINE c == conversion[g]
           d == [c EXCEPT !.phase = "done"]
<1>1. Right(c, quotes) /\ c.phase = "running" /\ c.left = {}
  BY DEF CurrencyInv, FinishConversion
<1>2. /\ d.phase = "done" /\ d.pinned = c.pinned /\ d.left = c.left /\ d.points = c.points /\ d.used = c.used
      /\ d.disturbed = c.disturbed
  BY <1>1 DEF Right, ConversionShaped
<1>5. ConversionShaped(d)
  BY <1>1, <1>2 DEF Right, ConversionShaped
<1>3. quotes' = quotes /\ conversion' = [conversion EXCEPT ![g] = d]
  BY DEF FinishConversion, CurrencyInv
<1> HIDE DEF c, d
<1>4. PointsRight(d) /\ OneRatePerPair(d) /\ RatesCurrent(d, quotes)
  BY <1>1, <1>2 DEF Right, PointsRight, ConvertedRight, OneRatePerPair, RatesCurrent
<1> QED BY <1>2, <1>5, <1>3, <1>4, OneMoves DEF Right

\* Converting one line: it is in the version's currency, or its rate is missing, or the
\* lookup finds the rate every other line of its pair has used since the rates last changed.
LEMMA ConvertRight ==
    ASSUME CurrencyInv, NEW g \in Conversions, NEW l \in ConvertedLines, ConvertLine(g, l)
    PROVE  CurrencyInv'
<1> DEFINE c == conversion[g]
           r == Lookup(LocalOf[l], c.pinned)
<1>1. Right(c, quotes) /\ c.phase = "running" /\ l \in c.left /\ quotes' = quotes
  BY DEF CurrencyInv, ConvertLine
<1>2. CASE LocalOf[l] = c.pinned
  <2> DEFINE d == [c EXCEPT !.left = c.left \ {l}]
  <2>1. conversion' = [conversion EXCEPT ![g] = d]
    BY <1>2 DEF ConvertLine, Target, CurrencyInv
  <2>2. /\ d.phase = c.phase /\ d.pinned = c.pinned /\ d.left = c.left \ {l} /\ d.points = c.points
        /\ d.used = c.used /\ d.disturbed = c.disturbed /\ ConversionShaped(d)
    BY <1>1 DEF Right, ConversionShaped
  <2> HIDE DEF c, d
  <2>3. PointsRight(d) /\ OneRatePerPair(d) /\ RatesCurrent(d, quotes)
    BY SMTT(60), <1>1, <1>2, <2>2 DEF Right, PointsRight, ConvertedRight, OneRatePerPair, RatesCurrent
  <2> QED BY <1>1, <2>1, <2>2, <2>3, OneMoves DEF Right
<1>3. CASE LocalOf[l] # c.pinned /\ r = {}
  <2> DEFINE d == [c EXCEPT !.phase = "failed"]
  <2>1. conversion' = [conversion EXCEPT ![g] = d]
    BY <1>3 DEF ConvertLine, Target, CurrencyInv
  <2>2. /\ d.phase = "failed" /\ d.pinned = c.pinned /\ d.left = c.left /\ d.points = c.points
        /\ d.used = c.used /\ d.disturbed = c.disturbed /\ ConversionShaped(d)
    BY <1>1 DEF Right, ConversionShaped
  <2> HIDE DEF c, d
  <2>3. PointsRight(d) /\ OneRatePerPair(d) /\ RatesCurrent(d, quotes)
    BY <1>1, <2>2 DEF Right, PointsRight, ConvertedRight, OneRatePerPair, RatesCurrent
  <2> QED BY <1>1, <2>1, <2>2, <2>3, OneMoves DEF Right
<1>4. CASE LocalOf[l] # c.pinned /\ r # {}
  <2> DEFINE x == CHOOSE x \in r : TRUE
             w == [line |-> l, pair |-> <<LocalOf[l], c.pinned>>, by |-> x]
             d == [c EXCEPT !.left = c.left \ {l}, !.points[l] = Converted(AmountOf[l], x), !.used = c.used \cup {w}]
  <2>1. x \in r
    BY <1>4
  <2>2. {[line |-> l, pair |-> <<LocalOf[l], c.pinned>>, by |-> y] : y \in r} = {w}
    BY <2>1, OneRate DEF Lookup
  <2>3. conversion' = [conversion EXCEPT ![g] = d]
    BY <1>4, <2>2 DEF ConvertLine, Target, CurrencyInv
  <2>4. /\ d.phase = c.phase /\ d.pinned = c.pinned /\ d.left = c.left \ {l}
        /\ d.points = [c.points EXCEPT ![l] = Converted(AmountOf[l], x)]
        /\ d.used = c.used \cup {w} /\ d.disturbed = c.disturbed
    BY <1>1 DEF Right, ConversionShaped
  <2>10. ConversionShaped(d)
    BY <1>1, StillShaped DEF Right
  <2>5. x \in RatesFor(quotes, w.pair[1], w.pair[2]) /\ w.by = x /\ w.line = l /\ w.pair = <<LocalOf[l], c.pinned>>
    BY <2>1 DEF Lookup
  <2>6. /\ d.points[l] = Converted(AmountOf[l], w.by)
        /\ \A k \in ConvertedLines \ {l} : d.points[k] = c.points[k]
    BY <1>1, <2>4, <2>5 DEF Right, ConversionShaped
  <2> HIDE DEF c, d, w, x, r
  <2>7. PointsRight(d)
    <3>1. \A k \in ConvertedLines : k \in d.left \/ LocalOf[k] = d.pinned => d.points[k] = AmountOf[k]
      BY <1>1, <1>4, <2>4, <2>6 DEF Right, PointsRight
    <3>2. ASSUME NEW k \in ConvertedLines \ d.left, LocalOf[k] # d.pinned PROVE ConvertedRight(d, k)
      <4>1. CASE k = l
        BY <2>4, <2>5, <2>6, <4>1 DEF ConvertedRight
      <4>2. CASE k # l
        <5>1. ConvertedRight(c, k)
          BY <1>1, <2>4, <3>2, <4>2 DEF Right, PointsRight
        <5> QED BY <2>4, <2>6, <4>2, <5>1 DEF ConvertedRight
      <4> QED BY <4>1, <4>2
    <3> QED BY <1>1, <2>4, <3>1, <3>2 DEF PointsRight
  <2>8. RatesCurrent(d, quotes)
    BY <1>1, <2>4, <2>5 DEF Right, RatesCurrent
  <2>9. OneRatePerPair(d)
    BY <1>1, <2>4, <2>8, OneRate DEF OneRatePerPair, RatesCurrent
  <2> QED BY <1>1, <2>3, <2>10, <2>7, <2>8, <2>9, OneMoves DEF Right
<1> QED BY <1>2, <1>3, <1>4

-----------------------------------------------------------------------------
\* The inductive invariant: every generation, begun, running or ended, is right about the
\* rates it has used.
THEOREM CurrencyCorrect == CurrencySpec => []CurrencyInv
<1>1. CurrencyInit => CurrencyInv
  <2> SUFFICES ASSUME CurrencyInit, NEW g \in Conversions PROVE Right(conversion[g], quotes)
    BY DEF CurrencyInit, CurrencyInv
  <2> DEFINE c == conversion[g]
  <2>1. /\ c = [phase |-> "idle", pinned |-> Unset, left |-> ConvertedLines, points |-> AmountOf, used |-> {}, disturbed |-> FALSE]
    BY DEF CurrencyInit
  <2>2. ConversionShaped(c)
    BY <2>1, CurrencyAssumption DEF ConversionShaped
  <2>3. c.phase = "idle" /\ c.left = ConvertedLines /\ c.points = AmountOf /\ c.used = {}
    BY <2>1
  <2> HIDE DEF c
  <2> QED BY <2>2, <2>3 DEF Right, PointsRight, OneRatePerPair, RatesCurrent, c
<1>2. CurrencyInv /\ [CurrencyNext]_currencyVars => CurrencyInv'
  <2> SUFFICES ASSUME CurrencyInv, [CurrencyNext]_currencyVars PROVE CurrencyInv'
    OBVIOUS
  <2>1. ASSUME NEW scope \in {"all", "own"}, NEW y \in Currencies, SetReporting(scope, y) PROVE CurrencyInv'
    BY <2>1 DEF SetReporting, CurrencyInv
  <2>2. ASSUME NEW q \in Quotes, CreateRate(q) PROVE CurrencyInv'
    BY <2>2, RatesMayChange DEF CreateRate
  <2>3. ASSUME NEW i \in DOMAIN quotes, NEW rate \in QuotedRates, NEW type \in RateTypes, UpdateRate(i, rate, type)
        PROVE  CurrencyInv'
    BY <2>3, RatesMayChange DEF UpdateRate
  <2>4. ASSUME NEW i \in DOMAIN quotes, DeleteRate(i) PROVE CurrencyInv'
    BY <2>4, RatesMayChange DEF DeleteRate
  <2>5. ASSUME NEW file \in RateFiles, UploadRates(file) PROVE CurrencyInv'
    BY <2>5, RatesMayChange DEF UploadRates
  <2>6. CASE UNCHANGED currencyVars
    BY <2>6 DEF currencyVars, CurrencyInv
  <2> QED BY <2>1, <2>2, <2>3, <2>4, <2>5, <2>6, StartRight, FinishRight, ConvertRight DEF CurrencyNext
<1> QED BY <1>1, <1>2, PTL DEF CurrencySpec

\* Every finished generation is in the currency it stored.
LEMMA InvGivesCurrency == CurrencyInv => InOneCurrency
<1> SUFFICES ASSUME CurrencyInv, NEW g \in Done, NEW l \in ConvertedLines
             PROVE  LET used == {u \in conversion[g].used : u.line = l}
                    IN  IF LocalOf[l] = conversion[g].pinned THEN conversion[g].points[l] = AmountOf[l]
                        ELSE \E u \in used : /\ u.pair = <<LocalOf[l], conversion[g].pinned>>
                                             /\ conversion[g].points[l] = Converted(AmountOf[l], u.by)
  BY DEF InOneCurrency
<1>1. PointsRight(conversion[g]) /\ conversion[g].left = {}
  BY DEF CurrencyInv, Done, Right, PointsRight
<1>2. LocalOf[l] # conversion[g].pinned => ConvertedRight(conversion[g], l)
  BY <1>1 DEF PointsRight
<1> QED BY <1>1, <1>2 DEF PointsRight, ConvertedRight

\* Equal hashes mean equal rates, pair by pair, and so equal points.
LEMMA InvGivesRates == CurrencyInv => HashTellsRates
<1> SUFFICES ASSUME CurrencyInv, NEW g \in Done, NEW h \in Done,
                    ~conversion[g].disturbed, ~conversion[h].disturbed,
                    conversion[g].pinned = conversion[h].pinned, RateSetHash(g) = RateSetHash(h)
             PROVE  conversion[g].points = conversion[h].points
  BY DEF HashTellsRates
<1> DEFINE c == conversion[g]
           d == conversion[h]
<1>1. Right(c, quotes) /\ Right(d, quotes) /\ c.left = {} /\ d.left = {}
  BY DEF CurrencyInv, Done, Right, PointsRight
<1>2. ASSUME NEW l \in ConvertedLines PROVE c.points[l] = d.points[l]
  <2>1. CASE LocalOf[l] = c.pinned
    BY <1>1, <2>1 DEF Right, PointsRight
  <2>2. CASE LocalOf[l] # c.pinned
    <3>0. ConvertedRight(c, l) /\ ConvertedRight(d, l) BY <1>1, <2>2 DEF Right, PointsRight
    <3>1. PICK u \in c.used : u.line = l /\ u.pair = <<LocalOf[l], c.pinned>> /\ c.points[l] = Converted(AmountOf[l], u.by)
      BY <3>0 DEF ConvertedRight
    <3>2. PICK v \in d.used : v.line = l /\ v.pair = <<LocalOf[l], c.pinned>> /\ d.points[l] = Converted(AmountOf[l], v.by)
      BY <3>0 DEF ConvertedRight
    <3>3. PICK k \in ConvertedLines : <<u.pair, u.by>> \in {<<w.pair, w.by>> : w \in {w \in d.used : w.line = k}}
      <4>1. {<<w.pair, w.by>> : w \in {w \in c.used : w.line = l}} \in RateSetHash(h)
        BY DEF RateSetHash
      <4>2. <<u.pair, u.by>> \in {<<w.pair, w.by>> : w \in {w \in c.used : w.line = l}}
        BY <3>1
      <4> QED BY <4>1, <4>2 DEF RateSetHash
    <3>4. PICK w \in d.used : w.pair = u.pair /\ w.by = u.by
      BY <3>3
    <3>5. w.by = v.by
      BY <1>1, <3>1, <3>2, <3>4 DEF Right, OneRatePerPair
    <3> QED BY <3>1, <3>2, <3>4, <3>5
  <2> QED BY <2>1, <2>2
<1> QED BY <1>1, <1>2 DEF Right, ConversionShaped

\* A version's amounts are in the currency it names, and its hash stands for the rates behind
\* them, however requests and generations interleave.
THEOREM CurrencyKeptAlways == CurrencySpec => []CurrencyKept
BY CurrencyCorrect, InvGivesCurrency, InvGivesRates, PTL DEF CurrencyKept

-----------------------------------------------------------------------------
(***************************************************************************)
(* A row's band (LinePipeline): it is calibrated with the errors of the    *)
(* models its forecast is made of.                                         *)
(***************************************************************************)

\* A dictated, a chosen and a blended model each bring their own errors, and
\* neither the clamp nor the driver uncertainty brings others.
LEMMA OwnErrors ==
  ASSUME NEW l
  PROVE  RowOf(l).errors \in {{}, RowOf(l).models}
  <1>1. Errors(l) \in {{}, Used(l)}
    <2>1. CASE Blended(l) BY <2>1 DEF Errors, Used
    <2>2. CASE ~Blended(l) BY <2>2 DEF Errors, Used
    <2> QED BY <2>1, <2>2
  <1>2. Calibrated(l).of \in {{}, Errors(l)} BY DEF Calibrated
  <1>3. Inflated(l).of = Calibrated(l).of
    <2> DEFINE half == 1 + Max({Distance(Point(l), Calibrated(l).lower), Distance(Calibrated(l).upper, Point(l))})
    <2>1. PICK b, lower, upper : b = Calibrated(l) /\ lower = Point(l) - half /\ upper = Point(l) + half OBVIOUS
    <2>2. Inflated(l) = IF UsesDrivers(l) THEN [b EXCEPT !.lower = lower, !.upper = upper] ELSE b
      BY <2>1 DEF Inflated
    <2>3. [b EXCEPT !.lower = lower, !.upper = upper].of = b.of
      <3>1. PICK x, y, z : b = [lower |-> x, upper |-> y, of |-> z] BY <2>1 DEF Calibrated
      <3> QED BY <3>1
    <2> QED BY <2>1, <2>2, <2>3
  <1>4. RowOf(l).errors = Inflated(l).of /\ RowOf(l).models = Used(l) BY DEF RowOf
  <1> QED BY <1>1, <1>2, <1>3, <1>4

\* For any engines, drivers, scores and offsets, what calibrates a band are the
\* errors of the models the forecast is made of (forecast_line_item,
\* residuals_for, blend_partner).
THEOREM BandsOwnErrorsAlways == LineSpec => []BandsOwnErrors
  <1>1. LineInit => BandsOwnErrors BY DEF LineInit, NoRow, BandsOwnErrors
  <1>2. BandsOwnErrors /\ [LineNext]_lineVars => BandsOwnErrors'
    <2> SUFFICES ASSUME BandsOwnErrors, [LineNext]_lineVars PROVE BandsOwnErrors' OBVIOUS
    <2>1. ASSUME NEW l \in LineSet, ForecastLineItem(l) PROVE BandsOwnErrors'
      BY <2>1, OwnErrors DEF ForecastLineItem, BandsOwnErrors
    <2>2. ASSUME NEW l \in LineSet, SkipForecast(l) PROVE BandsOwnErrors'
      BY <2>2 DEF SkipForecast, NoRow, BandsOwnErrors
    <2>3. CASE UNCHANGED lineVars BY <2>3 DEF lineVars, BandsOwnErrors
    <2> QED BY <2>1, <2>2, <2>3 DEF LineNext
  <1> QED BY <1>1, <1>2, PTL DEF LineSpec

-----------------------------------------------------------------------------
(***************************************************************************)
(* The causes of a change (Attribution): the buckets of a part and of the  *)
(* whole add up to the change that is published.                           *)
(***************************************************************************)

AttrCells == [p50 : Int, pre : Int \cup {Absent}, over : Int \cup {Absent}]

\* The inductive invariant: a reconciliation takes its snapshot at both ends.
AttributionInv ==
    /\ points \in [AttrLines -> [Ends -> AttrCells]]
    /\ units \in Quantities /\ asp \in [Parts -> Prices] /\ restated \in 0 .. MaxRestatements
    /\ \A l \in AttrLines : points[l][1].pre = Absent <=> points[l][2].pre = Absent

\* The invariant at the start.
LEMMA AttributionInitial == AttributionInit => AttributionInv
  <1> SUFFICES ASSUME AttributionInit PROVE AttributionInv OBVIOUS
  <1>1. PICK b \in Books :
          points = [l \in AttrLines |-> [i \in Ends |-> [p50 |-> b[l][i], pre |-> Absent, over |-> Absent]]]
    BY DEF AttributionInit
  <1>2. \A l \in AttrLines, i \in Ends : b[l][i] \in Int BY AttributionAssumption
  <1>3. points \in [AttrLines -> [Ends -> AttrCells]] BY <1>1, <1>2 DEF AttrCells
  <1>4. \A l \in AttrLines : points[l][1].pre = Absent /\ points[l][2].pre = Absent BY <1>1 DEF Ends
  <1>5. 0 \in 0 .. MaxRestatements BY AttributionAssumption
  <1> QED BY <1>3, <1>4, <1>5 DEF AttributionInit, AttributionInv

\* The invariant in every step.
LEMMA AttributionSteps == AttributionInv /\ [AttributionNext]_attributionVars => AttributionInv'
  <1> SUFFICES ASSUME AttributionInv, [AttributionNext]_attributionVars PROVE AttributionInv' OBVIOUS
  <1> USE DEF AttributionInv
  <1>0. ASSUME NEW p, Restate(p) PROVE restated' \in 0 .. MaxRestatements /\ points' = p
    BY <1>0, AttributionAssumption DEF Restate
  <1>1. ASSUME NEW b \in Books, ReconcilePoints(b) PROVE AttributionInv'
    <2>1. points' = Snapshotted(b) /\ restated' \in 0 .. MaxRestatements /\ UNCHANGED <<units, asp>>
      BY <1>0, <1>1 DEF ReconcilePoints
    <2>2. \A l \in AttrLines, i \in Ends : b[l][i] \in Int BY AttributionAssumption
    <2>3. ASSUME NEW l \in AttrLines, NEW i \in Ends
          PROVE  points'[l][i] \in AttrCells /\ points'[l][i].pre = points[l][i].p50
      <3>1. PICK c \in AttrCells : c = points[l][i] OBVIOUS
      <3>2. points'[l][i] = [c EXCEPT !.pre = c.p50, !.p50 = b[l][i]] BY <2>1, <3>1 DEF Snapshotted
      <3> QED BY <2>2, <3>1, <3>2 DEF AttrCells
    <2>4. points' \in [AttrLines -> [Ends -> AttrCells]] BY <2>1, <2>3 DEF Snapshotted
    <2>5. ASSUME NEW l \in AttrLines PROVE points'[l][1].pre # Absent /\ points'[l][2].pre # Absent
      <3>1. points[l][1] \in AttrCells /\ points[l][2] \in AttrCells BY DEF Ends
      <3>2. points[l][1].p50 \in Int /\ points[l][2].p50 \in Int BY <3>1 DEF AttrCells
      <3> QED BY <2>3, <3>2, AttributionAssumption DEF Ends
    <2> QED BY <2>1, <2>4, <2>5
  <1>2. ASSUME NEW l \in AttrLines, NEW i \in Ends, NEW x \in {7, Absent}, OverridePoint(l, i, x)
        PROVE  AttributionInv'
    <2>1. /\ points' = [points EXCEPT ![l][i].over = x] /\ restated' \in 0 .. MaxRestatements
          /\ UNCHANGED <<units, asp>>
      BY <1>0, <1>2 DEF OverridePoint
    <2>2. PICK c \in AttrCells : c = points[l][i] OBVIOUS
    <2>3. PICK d \in AttrCells : d = [c EXCEPT !.over = x] /\ d.pre = c.pre
      <3>1. PICK y \in Int \cup {Absent} : y = x OBVIOUS
      <3>2. [c EXCEPT !.over = y] \in AttrCells /\ [c EXCEPT !.over = y].pre = c.pre BY DEF AttrCells
      <3> QED BY <3>1, <3>2
    <2>4. points' = [points EXCEPT ![l] = [points[l] EXCEPT ![i] = d]] BY <2>1, <2>2, <2>3
    <2>5. points' \in [AttrLines -> [Ends -> AttrCells]] BY <2>4
    <2>6. \A k \in AttrLines, j \in Ends : points'[k][j].pre = points[k][j].pre BY <2>2, <2>3, <2>4
    <2> QED BY <2>1, <2>5, <2>6 DEF Ends
  <1>3. ASSUME NEW l \in Parts, NEW b \in Books, EnsemblePoints(l, b) PROVE AttributionInv'
    <2>1. /\ points' = [points EXCEPT ![l] = [i \in Ends |-> [points[l][i] EXCEPT !.p50 = b[l][i]]]]
          /\ restated' \in 0 .. MaxRestatements /\ UNCHANGED <<units, asp>>
      BY <1>0, <1>3 DEF EnsemblePoints
    <2>2. l \in AttrLines /\ \A i \in Ends : b[l][i] \in Int BY AttributionAssumption DEF AttrLines
    <2>3. PICK entry : entry = [i \in Ends |-> [points[l][i] EXCEPT !.p50 = b[l][i]]] OBVIOUS
    <2>4. ASSUME NEW i \in Ends PROVE entry[i] \in AttrCells /\ entry[i].pre = points[l][i].pre
      <3>1. PICK c \in AttrCells : c = points[l][i] BY <2>2
      <3>2. entry[i] = [c EXCEPT !.p50 = b[l][i]] BY <2>3, <3>1
      <3> QED BY <2>2, <3>1, <3>2 DEF AttrCells
    <2>5. entry \in [Ends -> AttrCells] BY <2>3, <2>4
    <2>6. points' = [points EXCEPT ![l] = entry] BY <2>1, <2>3
    <2>7. points' \in [AttrLines -> [Ends -> AttrCells]] BY <2>5, <2>6
    <2>8. \A k \in AttrLines, j \in Ends : points'[k][j].pre = points[k][j].pre BY <2>2, <2>4, <2>6
    <2> QED BY <2>1, <2>7, <2>8 DEF Ends
  <1>4. ASSUME NEW q \in Quantities, ChangeUnits(q) PROVE AttributionInv'
    BY <1>4 DEF ChangeUnits
  <1>5. CASE UNCHANGED attributionVars BY <1>5 DEF attributionVars
  <1> QED BY <1>1, <1>2, <1>3, <1>4, <1>5 DEF AttributionNext

\* Both ends of every line are numbers.
LEMMA AttributionNumbers ==
  ASSUME AttributionInv, NEW l \in AttrLines, NEW i \in Ends
  PROVE  Published(l, i) \in Int /\ Modelled(l, i) \in Int
  <1>1. PICK c \in AttrCells : c = points[l][i] BY DEF AttributionInv
  <1>2. Published(l, i) = IF c.over # Absent THEN c.over ELSE c.p50 BY <1>1 DEF Published
  <1>3. Published(l, i) \in Int BY <1>2 DEF AttrCells
  <1>4. Modelled(l, i) = IF c.pre # Absent THEN c.pre ELSE Published(l, i) BY <1>1 DEF Modelled
  <1> QED BY <1>3, <1>4 DEF AttrCells

\* What a reconciliation moved is what the published change has beyond the
\* modelled one.
LEMMA ReconciliationExplains ==
  ASSUME AttributionInv, NEW l \in AttrLines
  PROVE  /\ OfReconciliation(l) \in Int
         /\ Published(l, 2) - Published(l, 1) = Modelled(l, 2) - Modelled(l, 1) + OfReconciliation(l)
  <1>1. 1 \in Ends /\ 2 \in Ends /\ \A i \in Ends : i = 1 \/ i = 2 BY DEF Ends
  <1>2. /\ Published(l, 1) \in Int /\ Published(l, 2) \in Int
        /\ Modelled(l, 1) \in Int /\ Modelled(l, 2) \in Int
    BY <1>1, AttributionNumbers
  <1>3. CASE points[l][1].pre = Absent
    <2>1. points[l][2].pre = Absent BY <1>3 DEF AttributionInv
    <2>2. OfReconciliation(l) = 0 BY <1>1, <1>3 DEF OfReconciliation
    <2>3. Modelled(l, 1) = Published(l, 1) /\ Modelled(l, 2) = Published(l, 2) BY <1>3, <2>1 DEF Modelled
    <2> QED BY <1>2, <2>2, <2>3
  <1>4. CASE points[l][1].pre # Absent
    <2>1. points[l][2].pre # Absent BY <1>4 DEF AttributionInv
    <2>2. \A i \in Ends : points[l][i].pre # Absent BY <1>1, <1>4, <2>1
    <2>3. Modelled(l, 1) = points[l][1].pre /\ Modelled(l, 2) = points[l][2].pre BY <1>4, <2>1 DEF Modelled
    <2>4. OfReconciliation(l) = (Published(l, 2) - Published(l, 1)) - (Modelled(l, 2) - Modelled(l, 1))
      BY <2>2, <2>3 DEF OfReconciliation
    <2> QED BY <1>2, <2>4
  <1> QED BY <1>3, <1>4

\* Volume and price of a line are the change of quantity times price.
LEMMA SplitAddsUp ==
  ASSUME NEW q, NEW p, q[1] \in Int, q[2] \in Int, p[1] \in Int, p[2] \in Int,
         NEW convention \in {"volume_first", "price_first"}
  PROVE  /\ Split(q, p, convention).volume \in Int /\ Split(q, p, convention).price \in Int
         /\ Split(q, p, convention).volume + Split(q, p, convention).price = q[2] * p[2] - q[1] * p[1]
  <1>1. PICK a \in Int, b \in Int, c \in Int, d \in Int : a = q[1] /\ b = q[2] /\ c = p[1] /\ d = p[2] OBVIOUS
  <1>2. CASE convention = "price_first"
    <2>1. Split(q, p, convention).volume = (b - a) * d /\ Split(q, p, convention).price = (d - c) * a
      BY <1>1, <1>2 DEF Split
    <2>2. (b - a) * d + (d - c) * a = b * d - a * c BY Z3
    <2> QED BY <1>1, <2>1, <2>2
  <1>3. CASE convention # "price_first"
    <2>1. Split(q, p, convention).volume = (b - a) * c /\ Split(q, p, convention).price = (d - c) * b
      BY <1>1, <1>3 DEF Split
    <2>2. (b - a) * c + (d - c) * b = b * d - a * c BY Z3
    <2> QED BY <1>1, <2>1, <2>2
  <1> QED BY <1>2, <1>3

\* The buckets of one part explain its change, as PartsAttributed says.
LEMMA PartAddsUp ==
  ASSUME AttributionInv, NEW l \in Parts, NEW convention \in {"volume_first", "price_first"}, HasPoints(l)
  PROVE  LET b     == OwnBuckets(l, convention)
             short == b.scale * (Published(l, 2) - Published(l, 1)) - Explained(b)
         IN  IF asp[l] = Absent THEN short = 0
             ELSE 100 * Size(short) <= Tolerance * (Size(Modelled(l, 1)) + Size(Modelled(l, 2)))
  <1>1. l \in AttrLines /\ 1 \in Ends /\ 2 \in Ends /\ \A i \in Ends : i = 1 \/ i = 2 BY DEF AttrLines, Ends
  <1>2. PICK m1 \in Int, m2 \in Int, R \in Int, P \in Int :
          /\ m1 = Modelled(l, 1) /\ m2 = Modelled(l, 2) /\ R = OfReconciliation(l)
          /\ P = Published(l, 2) - Published(l, 1) /\ P = m2 - m1 + R
    <2>1. Modelled(l, 1) \in Int /\ Modelled(l, 2) \in Int BY <1>1, AttributionNumbers
    <2>2. OfReconciliation(l) \in Int BY <1>1, ReconciliationExplains
    <2>3. Published(l, 2) - Published(l, 1) = Modelled(l, 2) - Modelled(l, 1) + OfReconciliation(l)
      BY <1>1, ReconciliationExplains
    <2> QED BY <2>1, <2>2, <2>3
  <1>3. PICK q1 \in Int, q2 \in Int : q1 = units[l][1] /\ q2 = units[l][2]
    <2>1. units[l] \in [Ends -> Int] BY AttributionAssumption DEF AttributionInv
    <2> QED BY <1>1, <2>1
  <1> DEFINE q == units[l]
             scale == IF asp[l] = Absent THEN q[1] * q[2] ELSE 1
             p == [i \in Ends |-> IF asp[l] = Absent THEN Modelled(l, i) * q[3 - i] ELSE asp[l][i]]
             split == Split(q, p, convention)
             b == OwnBuckets(l, convention)
             short == b.scale * (Published(l, 2) - Published(l, 1)) - Explained(b)
  <1>4. /\ b.scale = scale /\ b.volume = split.volume /\ b.mix = 0 /\ b.price = split.price
        /\ b.reconciliation = scale * R
    BY <1>2 DEF OwnBuckets
  <1>5. ASSUME NEW s \in Int, s = scale, p[1] \in Int, p[2] \in Int
        PROVE  short = s * (m2 - m1) - (q2 * p[2] - q1 * p[1])
    <2>1. PICK c1 \in Int, c2 \in Int : c1 = p[1] /\ c2 = p[2] BY <1>5
    <2>2. PICK v \in Int, w \in Int : v = split.volume /\ w = split.price /\ v + w = q2 * c2 - q1 * c1
      <3>1. q[1] \in Int /\ q[2] \in Int BY <1>3
      <3> HIDE DEF p, q
      <3>2. /\ split.volume \in Int /\ split.price \in Int
            /\ split.volume + split.price = q[2] * p[2] - q[1] * p[1]
        BY <1>5, <3>1, SplitAddsUp
      <3>3. q1 = q[1] /\ q2 = q[2] BY <1>3 DEF q
      <3> QED BY <2>1, <3>2, <3>3
    <2>3. Explained(b) = v + 0 + w + s * R
      <3> HIDE DEF b, split, scale
      <3> QED BY <1>4, <1>5, <2>2 DEF Explained
    <2>4. short = s * P - (v + 0 + w + s * R)
      <3>1. b.scale = s BY <1>4, <1>5
      <3> HIDE DEF b
      <3> QED BY <1>2, <2>3, <3>1
    <2>5. s * P = s * (m2 - m1) + s * R
      <3>1. s * (m2 - m1 + R) = s * (m2 - m1) + s * R BY Z3
      <3> QED BY <1>2, <3>1
    <2>6. PICK y \in Int, z \in Int, u \in Int : y = s * R /\ z = s * (m2 - m1) /\ u = s * P OBVIOUS
    <2>7. short = z - (v + w) BY <2>4, <2>5, <2>6
    <2> QED BY <2>1, <2>2, <2>6, <2>7
  <1>6. CASE asp[l] = Absent
    <2>1. scale = q1 * q2 /\ p[1] = m1 * q2 /\ p[2] = m2 * q1 BY <1>1, <1>2, <1>3, <1>6
    <2>2. short = (q1 * q2) * (m2 - m1) - (q2 * (m2 * q1) - q1 * (m1 * q2))
      <3>1. q1 * q2 \in Int /\ m1 * q2 \in Int /\ m2 * q1 \in Int OBVIOUS
      <3> HIDE DEF short, scale, p
      <3> QED BY <1>5, <2>1, <3>1
    <2>3. (q1 * q2) * (m2 - m1) - (q2 * (m2 * q1) - q1 * (m1 * q2)) = 0 BY Z3
    <2> QED BY <1>6, <2>2, <2>3
  <1>7. CASE asp[l] # Absent
    <2>1. PICK c1 \in Int, c2 \in Int : c1 = asp[l][1] /\ c2 = asp[l][2]
      <3>1. asp[l] \in [Ends -> Int] BY <1>7, AttributionAssumption DEF AttributionInv
      <3> QED BY <1>1, <3>1
    <2>2. scale = 1 /\ p[1] = c1 /\ p[2] = c2 BY <1>1, <1>7, <2>1
    <2>3. short = 1 * (m2 - m1) - (q2 * c2 - q1 * c1)
      <3> HIDE DEF short, scale, p
      <3> QED BY <1>5, <2>2
    <2>4. PICK x1 \in Int, x2 \in Int : x1 = q1 * c1 /\ x2 = q2 * c2 OBVIOUS
    <2>5. Coherent(l) BY <1>7 DEF HasPoints
    <2>6. 100 * Size(x1 - m1) <= Tolerance * Size(m1) /\ 100 * Size(x2 - m2) <= Tolerance * Size(m2)
      BY <1>1, <1>2, <1>3, <2>1, <2>4, <2>5 DEF Coherent
    <2>7. short = (m2 - x2) - (m1 - x1) BY <2>3, <2>4
    <2>8. PICK t1 \in Nat, t2 \in Nat : t1 = Size(m1) /\ t2 = Size(m2) BY DEF Size
    <2>9. PICK u1 \in Int, u2 \in Int : u1 = Tolerance * t1 /\ u2 = Tolerance * t2 /\ Tolerance * (t1 + t2) = u1 + u2
      <3>1. Tolerance \in Int BY AttributionAssumption
      <3>2. Tolerance * (t1 + t2) = Tolerance * t1 + Tolerance * t2 BY <3>1, Z3
      <3> QED BY <3>1, <3>2
    <2>10. 100 * Size(x1 - m1) <= u1 /\ 100 * Size(x2 - m2) <= u2 BY <2>6, <2>8, <2>9
    <2>11. PICK h \in Int : h = short BY <2>7
    <2>12. 100 * Size(h) <= u1 + u2
      <3>1. h = (m2 - x2) - (m1 - x1) BY <2>7, <2>11
      <3> HIDE DEF short
      <3> QED BY <2>10, <3>1 DEF Size
    <2> QED BY <1>2, <1>7, <2>8, <2>9, <2>11, <2>12
  <1> QED BY <1>6, <1>7

\* The units of both ends are numbers.
LEMMA UnitsTyped == ASSUME AttributionInv, NEW l \in Parts PROVE units[l][1] \in Int /\ units[l][2] \in Int
  <1>1. units[l] \in [Ends -> Int] BY AttributionAssumption DEF AttributionInv
  <1> QED BY <1>1 DEF Ends

\* The units of the whole, as a sum.
LEMMA AllUnitsIsSum == ASSUME NEW i PROVE AllUnits(i) = SumOf([l \in Parts |-> units[l][i]], Parts)
  BY ZenonT(60) DEF AllUnits, SumOf, MapThenSumSet, MapThenFoldSet

\* The sums over the parts are numbers.
LEMMA SumsOfParts ==
  ASSUME AttributionInv
  PROVE  /\ AllUnits(1) \in Int /\ AllUnits(2) \in Int
         /\ \A S \in SUBSET Parts : Denominator(S) \in Int
  <1>1. ASSUME NEW i \in {1, 2} PROVE AllUnits(i) \in Int
    <2>1. PICK f : f = [l \in Parts |-> units[l][i]] OBVIOUS
    <2>2. AllUnits(i) = SumOf(f, Parts)
      <3> QED BY <2>1, AllUnitsIsSum
    <2>3. \A l \in Parts : f[l] \in Int BY <2>1, UnitsTyped
    <2> QED BY <2>2, <2>3, SumOfWithout, AttributionAssumption
  <1>2. ASSUME NEW S \in SUBSET Parts PROVE Denominator(S) \in Int
    <2>1. PICK f : f = [l \in Parts |-> IF asp[l] = Absent THEN units[l][1] ELSE 1] OBVIOUS
    <2>2. Denominator(S) = ProductOf(f, S)
      <3>1. Denominator(S) = ProductOf([l \in Parts |-> IF asp[l] = Absent THEN units[l][1] ELSE 1], S)
        BY ZenonT(60) DEF Denominator, ProductOf, MapThenFoldSet
      <3> QED BY <2>1, <3>1
    <2>3. \A l \in S : f[l] \in Int BY <2>1, UnitsTyped
    <2>4. IsFiniteSet(S) BY FS_Subset, AttributionAssumption
    <2> QED BY <2>2, <2>3, <2>4, ProductOfWithout
  <1> QED BY <1>1, <1>2

\* Volume, mix and rate of the parts explain the change of the whole.
LEMMA WholeAddsUp == AttributionInv => WholeAttributed
  <1> SUFFICES ASSUME AttributionInv PROVE WholeAttributed OBVIOUS
  <1> DEFINE before == Denominator(Parts)
             old(l) == IF asp[l] = Absent THEN Modelled(l, 1) * Denominator(Parts \ {l}) ELSE asp[l][1] * before
             atOld == MapThenSumSet(LAMBDA l : units[l][2] * old(l), Parts)
  <1>1. PICK U1 \in Int, U2 \in Int, D \in Int : U1 = AllUnits(1) /\ U2 = AllUnits(2) /\ D = before BY SumsOfParts
  <1>2. Whole \in AttrLines /\ 1 \in Ends /\ 2 \in Ends BY DEF AttrLines, Ends
  <1>3. PICK w1 \in Int, w2 \in Int, R \in Int, P \in Int :
          /\ w1 = Modelled(Whole, 1) /\ w2 = Modelled(Whole, 2) /\ R = OfReconciliation(Whole)
          /\ P = Published(Whole, 2) - Published(Whole, 1) /\ P = w2 - w1 + R
    <2>1. Modelled(Whole, 1) \in Int /\ Modelled(Whole, 2) \in Int BY <1>2, AttributionNumbers
    <2>2. OfReconciliation(Whole) \in Int BY <1>2, ReconciliationExplains
    <2>3. Published(Whole, 2) - Published(Whole, 1) = Modelled(Whole, 2) - Modelled(Whole, 1) + OfReconciliation(Whole)
      BY <1>2, ReconciliationExplains
    <2> QED BY <2>1, <2>2, <2>3
  <1>4. PICK A \in Int : A = atOld
    <2>1. PICK f : f = [l \in Parts |-> units[l][2] * old(l)] OBVIOUS
    <2>2. atOld = SumOf(f, Parts)
      <3>1. atOld = SumOf([l \in Parts |-> units[l][2] * old(l)], Parts)
        <4> HIDE DEF old
        <4> QED BY ZenonT(60) DEF SumOf, MapThenSumSet, MapThenFoldSet
      <3> QED BY <2>1, <3>1
    <2>3. ASSUME NEW l \in Parts PROVE f[l] \in Int
      <3>1. Modelled(l, 1) \in Int /\ Denominator(Parts \ {l}) \in Int
        BY <1>2, AttributionNumbers, SumsOfParts DEF AttrLines
      <3>2. asp[l] # Absent => asp[l][1] \in Int
        <4>1. asp[l] # Absent => asp[l] \in [Ends -> Int] BY AttributionAssumption DEF AttributionInv
        <4> QED BY <1>2, <4>1
      <3>3. old(l) \in Int BY <1>1, <3>1, <3>2
      <3> HIDE DEF old
      <3> QED BY <2>1, <3>3, UnitsTyped
    <2> QED BY <2>2, <2>3, SumOfWithout, AttributionAssumption
  <1>5. /\ MixBuckets.scale = U1 * U2 * D
        /\ MixBuckets.volume = (U2 - U1) * w1 * U2 * D
        /\ MixBuckets.mix = A * U1 * U2 - U2 * U2 * w1 * D
        /\ MixBuckets.price = w2 * (U1 * U2 * D) - A * U1 * U2
        /\ MixBuckets.reconciliation = (U1 * U2 * D) * R
    BY <1>1, <1>2, <1>3, <1>4 DEF MixBuckets
  <1>6. Explained(MixBuckets) = (U2 - U1) * w1 * U2 * D + (A * U1 * U2 - U2 * U2 * w1 * D)
                                  + (w2 * (U1 * U2 * D) - A * U1 * U2) + (U1 * U2 * D) * R
    BY <1>5 DEF Explained
  <1>7. (U2 - U1) * w1 * U2 * D + (A * U1 * U2 - U2 * U2 * w1 * D)
          + (w2 * (U1 * U2 * D) - A * U1 * U2) + (U1 * U2 * D) * R = (U1 * U2 * D) * (w2 - w1 + R)
    BY Z3
  <1> QED BY <1>3, <1>5, <1>6, <1>7 DEF WholeAttributed

\* Every reachable state keeps its types and has its snapshots at both ends of
\* a line (_reconcile_mint_full, run_ensemble, apply_override).
THEOREM AttributionCorrect == AttributionSpec => []AttributionInv
  <1> QED BY AttributionInitial, AttributionSteps, PTL DEF AttributionSpec

\* For any parts, numbers and tolerance, the buckets of a part and of the whole
\* add up to the published change (_identity_qp_attribution,
\* _identity_qp_mix_for_parent, _reconciliation_delta).
THEOREM AttributedAlways == AttributionSpec => []Attributed
  <1>1. AttributionInv => PartsAttributed BY PartAddsUp DEF PartsAttributed
  <1>2. AttributionInv => Attributed BY <1>1, WholeAddsUp DEF Attributed
  <1> QED BY <1>2, AttributionCorrect, PTL

-----------------------------------------------------------------------------
(***************************************************************************)
(* The verdicts (Scoring): a score is a weighted mean of what is known of  *)
(* a row, and every step from measurement to verdict is monotone.          *)
(***************************************************************************)

\* f has a number for each of four things.
Four(f, T, a, b, c, d) ==
    /\ T = {a, b, c, d} /\ a # b /\ a # c /\ a # d /\ b # c /\ b # d /\ c # d
    /\ f[a] \in Int /\ f[b] \in Int /\ f[c] \in Int /\ f[d] \in Int

\* A sum of four different elements.
LEMMA SumOfFour ==
  ASSUME NEW f, NEW T, NEW a, NEW b, NEW c, NEW d, Four(f, T, a, b, c, d)
  PROVE  SumOf(f, T) = f[a] + f[b] + f[c] + f[d]
  <1> USE DEF Four
  <1>1. PICK U : U = {d} OBVIOUS
  <1>2. IsFiniteSet(U) /\ SumOf(f, U) = f[d] BY <1>1, SumOne, FS_Singleton
  <1>3. PICK V : V = {c, d} OBVIOUS
  <1>4. IsFiniteSet(V) /\ SumOf(f, V) = f[c] + f[d]
    <2>1. IsFiniteSet(V)
      <3>1. V = U \cup {c} BY <1>1, <1>3
      <3> QED BY <1>2, <3>1, FS_AddElement
    <2>2. SumOf(f, V) = f[c] + SumOf(f, V \ {c}) BY <1>3, <2>1, SumOfWithout
    <2>3. V \ {c} = U BY <1>1, <1>3
    <2> QED BY <1>2, <2>1, <2>2, <2>3
  <1>5. PICK W : W = {b, c, d} OBVIOUS
  <1>6. IsFiniteSet(W) /\ SumOf(f, W) = f[b] + (f[c] + f[d])
    <2>1. IsFiniteSet(W)
      <3>1. W = V \cup {b} BY <1>3, <1>5
      <3> QED BY <1>4, <3>1, FS_AddElement
    <2>2. SumOf(f, W) = f[b] + SumOf(f, W \ {b}) BY <1>5, <2>1, SumOfWithout
    <2>3. W \ {b} = V BY <1>3, <1>5
    <2> QED BY <1>4, <2>1, <2>2, <2>3
  <1>8. SumOf(f, T) = f[a] + (f[b] + (f[c] + f[d]))
    <2>1. IsFiniteSet(T)
      <3>1. T = W \cup {a} BY <1>5
      <3> QED BY <1>6, <3>1, FS_AddElement
    <2>2. SumOf(f, T) = f[a] + SumOf(f, T \ {a}) BY <2>1, SumOfWithout
    <2>3. T \ {a} = W BY <1>5
    <2> QED BY <1>6, <2>2, <2>3
  <1> QED BY <1>8

\* What max(0, n) is.
LEMMA MaxWithZero == ASSUME NEW n \in Int PROVE Max({0, n}) = IF n > 0 THEN n ELSE 0
  BY DEF Max
\* What min(1000, n) is.
LEMMA MinWithCap == ASSUME NEW n \in Int PROVE Min({1000, n}) = IF n < 1000 THEN n ELSE 1000
  BY DEF Min

If(measured, weight) == IF measured THEN weight ELSE 0

PartsOf(kind, x) ==
    { <<"mape",  If(x.mape > 0, 8),      Max({0, 100 - 5 * x.mape})>>,
      <<"width", If(x.width > 0, 5),     Max({0, 100 - x.width})>>,
      <<"fit",   If(x.fit # NoFit, 4),   x.fit>>,
      <<"base",  3,                      Kinds[kind]>> }

Weighed(x) == If(x.mape > 0, 8) + If(x.width > 0, 5) + If(x.fit # NoFit, 4) + 3

Scored(kind, x) ==
    If(x.mape > 0, 8) * If(x.mape < 20, 100 - 5 * x.mape) + If(x.width > 0, 5) * If(x.width < 100, 100 - x.width)
        + If(x.fit # NoFit, 4) * x.fit + 3 * Kinds[kind]

\* The weights of a score's parts, as a sum.
LEMMA WeightOfParts ==
  ASSUME NEW P
  PROVE  MapThenSumSet(LAMBDA p : p[2], P) = SumOf([p \in P |-> p[2]], P)
  BY ZenonT(60) DEF SumOf, MapThenSumSet, MapThenFoldSet

\* The weighted parts of a score, as a sum.
LEMMA ScoreOfParts ==
  ASSUME NEW P
  PROVE  MapThenSumSet(LAMBDA p : p[2] * p[3], P) = SumOf([p \in P |-> p[2] * p[3]], P)
  BY ZenonT(60) DEF SumOf, MapThenSumSet, MapThenFoldSet

\* A confidence is the weighted mean of its parts, in tenths, rounded.
LEMMA ConfidenceOfParts ==
  ASSUME NEW kind, NEW x
  PROVE  Confidence(kind, x) =
            (20 * MapThenSumSet(LAMBDA p : p[2] * p[3], PartsOf(kind, x))
                + MapThenSumSet(LAMBDA p : p[2], PartsOf(kind, x)))
              \div (2 * MapThenSumSet(LAMBDA p : p[2], PartsOf(kind, x)))
  BY Zenon DEF Confidence, PartsOf, If

\* The same with the sums of Sums.
LEMMA ConfidenceBySums ==
  ASSUME NEW kind, NEW x, NEW P, P = PartsOf(kind, x)
  PROVE  Confidence(kind, x) =
            (20 * SumOf([p \in P |-> p[2] * p[3]], P) + SumOf([p \in P |-> p[2]], P)) \div (2 * SumOf([p \in P |-> p[2]], P))
  BY ConfidenceOfParts, WeightOfParts, ScoreOfParts

\* What the four possible parts of a score contribute; there is always one.
LEMMA ConfidenceIs ==
  ASSUME NEW kind \in DOMAIN Kinds, NEW x \in Measures
  PROVE  /\ Weighed(x) \in Nat \ {0} /\ Scored(kind, x) \in Nat /\ Scored(kind, x) <= 100 * Weighed(x)
         /\ Confidence(kind, x) = (20 * Scored(kind, x) + Weighed(x)) \div (2 * Weighed(x))
  <1>1. PICK m \in Nat, w \in Nat, t \in 0 .. 100 \cup {NoFit}, k \in 0 .. 100 :
          m = x.mape /\ w = x.width /\ t = x.fit /\ k = Kinds[kind]
    BY ScoringAssumption
  <1>2. PICK wm \in {0, 8}, ww \in {0, 5}, wt \in {0, 4} :
          /\ wm = If(m > 0, 8) /\ ww = If(w > 0, 5) /\ wt = If(t # NoFit, 4) /\ (t = NoFit => wt = 0)
    BY DEF If
  <1>3. PICK sm \in 0 .. 100, sw \in 0 .. 100 :
          /\ sm = Max({0, 100 - 5 * m}) /\ sm = If(m < 20, 100 - 5 * m)
          /\ sw = Max({0, 100 - w}) /\ sw = If(w < 100, 100 - w)
    <2>1. 100 - 5 * m \in Int /\ 100 - w \in Int /\ (m < 20 <=> 100 - 5 * m > 0) OBVIOUS
    <2>2. Max({0, 100 - 5 * m}) = IF 100 - 5 * m > 0 THEN 100 - 5 * m ELSE 0 BY <2>1, MaxWithZero
    <2>3. Max({0, 100 - w}) = IF 100 - w > 0 THEN 100 - w ELSE 0 BY <2>1, MaxWithZero
    <2>4. Max({0, 100 - 5 * m}) \in 0 .. 100 /\ Max({0, 100 - 5 * m}) = If(m < 20, 100 - 5 * m)
      BY <2>1, <2>2 DEF If
    <2>5. Max({0, 100 - w}) \in 0 .. 100 /\ Max({0, 100 - w}) = If(w < 100, 100 - w)
      BY <2>1, <2>3 DEF If
    <2> QED BY <2>4, <2>5
  <1>4. PICK a, b, c, d, P :
          /\ a = <<"mape", wm, sm>> /\ b = <<"width", ww, sw>> /\ c = <<"fit", wt, t>> /\ d = <<"base", 3, k>>
          /\ P = {a, b, c, d}
    OBVIOUS
  <1>5. P = PartsOf(kind, x) BY <1>1, <1>2, <1>3, <1>4 DEF PartsOf
  <1>6. t \in Int /\ wt * t \in Nat /\ wt * t <= 100 * wt BY <1>2 DEF NoFit
  <1>7. wm * sm \in Nat /\ ww * sw \in Nat /\ 3 * k \in Nat
    BY <1>2, <1>3
  <1>8. wm * sm <= 100 * wm /\ ww * sw <= 100 * ww /\ 3 * k <= 300 BY <1>2, <1>3
  <1>9. SumOf([p \in P |-> p[2]], P) = wm + ww + wt + 3
    <2>1. PICK f : f = [p \in P |-> p[2]] OBVIOUS
    <2>2. f[a] = wm /\ f[b] = ww /\ f[c] = wt /\ f[d] = 3 BY <1>4, <2>1
    <2>3. SumOf(f, P) = f[a] + f[b] + f[c] + f[d]
      <3>1. Four(f, P, a, b, c, d) BY <1>4, <1>6, <1>7, <2>2 DEF Four
      <3> QED BY ONLY <3>1, SumOfFour
    <2> QED BY <1>4, <2>1, <2>2, <2>3
  <1>10. SumOf([p \in P |-> p[2] * p[3]], P) = wm * sm + ww * sw + wt * t + 3 * k
    <2>1. PICK f : f = [p \in P |-> p[2] * p[3]] OBVIOUS
    <2>2. f[a] = wm * sm /\ f[b] = ww * sw /\ f[c] = wt * t /\ f[d] = 3 * k BY <1>4, <2>1
    <2>3. SumOf(f, P) = f[a] + f[b] + f[c] + f[d]
      <3>1. Four(f, P, a, b, c, d) BY <1>4, <1>6, <1>7, <2>2 DEF Four
      <3> QED BY ONLY <3>1, SumOfFour
    <2> QED BY <1>4, <2>1, <2>2, <2>3
  <1>11. Weighed(x) = wm + ww + wt + 3 BY <1>1, <1>2 DEF Weighed
  <1>12. Scored(kind, x) = wm * sm + ww * sw + wt * t + 3 * k BY <1>1, <1>2, <1>3 DEF Scored
  <1>13. Confidence(kind, x) = (20 * (wm * sm + ww * sw + wt * t + 3 * k) + (wm + ww + wt + 3)) \div (2 * (wm + ww + wt + 3))
    BY <1>5, <1>9, <1>10, ConfidenceBySums
  <1>14. wm + ww + wt + 3 \in Nat \ {0} BY <1>2
  <1>15. Scored(kind, x) \in Nat /\ Scored(kind, x) <= 100 * Weighed(x)
    <2>1. PICK i \in Nat, j \in Nat, l \in Nat, n \in Nat : i = wm * sm /\ j = ww * sw /\ l = wt * t /\ n = 3 * k
      BY <1>6, <1>7
    <2>2. i <= 100 * wm /\ j <= 100 * ww /\ l <= 100 * wt /\ n <= 300 BY <1>6, <1>8, <2>1
    <2>3. Scored(kind, x) = i + j + l + n BY <1>12, <2>1
    <2> QED BY <1>2, <1>11, <2>2, <2>3
  <1> QED BY <1>11, <1>12, <1>13, <1>14, <1>15

Rounded(n, w) == (20 * n + w) \div (2 * w)

InScale(n, m, w) == n \in Nat /\ m \in Nat /\ w \in Nat \ {0} /\ n <= m /\ m <= 100 * w

\* Rounding a ratio keeps it in the scale and keeps its order.
LEMMA Rounding ==
  ASSUME NEW n, NEW m, NEW w, InScale(n, m, w)
  PROVE  Rounded(n, w) \in 0 .. 1000 /\ Rounded(m, w) \in 0 .. 1000 /\ Rounded(n, w) <= Rounded(m, w)
  <1> USE DEF InScale
  <1>1. PICK q \in Int, r \in Int : 20 * n + w = 2 * w * q + r /\ 0 <= r /\ r < 2 * w /\ q = (20 * n + w) \div (2 * w)
    OBVIOUS
  <1>2. PICK p \in Int, s \in Int : 20 * m + w = 2 * w * p + s /\ 0 <= s /\ s < 2 * w /\ p = (20 * m + w) \div (2 * w)
    OBVIOUS
  <1>3. q >= 0 BY <1>1, Z3
  <1>4. q <= p BY <1>1, <1>2, Z3
  <1>5. p <= 1000 BY <1>2, Z3
  <1> QED BY SMTT(60), <1>1, <1>2, <1>3, <1>4, <1>5 DEF Rounded

\* Measurements that are no better give no more confidence.
LEMMA ConfidenceMonotone ==
  ASSUME NEW kind \in DOMAIN Kinds, NEW x \in Measures, NEW y \in Measures, NoBetter(x, y)
  PROVE  Confidence(kind, x) \in 0 .. 1000 /\ Confidence(kind, y) \in 0 .. 1000 /\ Confidence(kind, x) <= Confidence(kind, y)
  <1>1. x.mape \in Nat /\ y.mape \in Nat /\ x.width \in Nat /\ y.width \in Nat
        /\ x.fit \in 0 .. 100 \cup {NoFit} /\ y.fit \in 0 .. 100 \cup {NoFit} /\ Kinds[kind] \in 0 .. 100
    BY ScoringAssumption
  <1>2. Weighed(x) = Weighed(y) BY <1>1 DEF NoBetter, Weighed, If
  <1>3. Scored(kind, x) <= Scored(kind, y)
    <2>1. If(x.mape > 0, 8) * If(x.mape < 20, 100 - 5 * x.mape) <= If(y.mape > 0, 8) * If(y.mape < 20, 100 - 5 * y.mape)
      BY <1>1 DEF NoBetter, If
    <2>2. If(x.width > 0, 5) * If(x.width < 100, 100 - x.width) <= If(y.width > 0, 5) * If(y.width < 100, 100 - y.width)
      BY <1>1 DEF NoBetter, If
    <2>3. If(x.fit # NoFit, 4) * x.fit <= If(y.fit # NoFit, 4) * y.fit
      <3>1. PICK a \in Int, b \in Int : a = x.fit /\ b = y.fit BY SMTT(60), <1>1 DEF NoFit
      <3>2. a <= b /\ (a = -1 <=> b = -1) BY <3>1 DEF NoBetter, NoFit
      <3>3. If(a # -1, 4) * a <= If(b # -1, 4) * b BY ONLY <3>2, SMT DEF If
      <3> QED BY <3>1, <3>3 DEF NoFit
    <2>4. /\ If(x.mape > 0, 8) * If(x.mape < 20, 100 - 5 * x.mape) \in Int
          /\ If(y.mape > 0, 8) * If(y.mape < 20, 100 - 5 * y.mape) \in Int
          /\ If(x.width > 0, 5) * If(x.width < 100, 100 - x.width) \in Int
          /\ If(y.width > 0, 5) * If(y.width < 100, 100 - y.width) \in Int
          /\ If(x.fit # NoFit, 4) * x.fit \in Int /\ If(y.fit # NoFit, 4) * y.fit \in Int
          /\ 3 * Kinds[kind] \in Int
      BY <1>1 DEF If, NoFit
    <2> QED BY <2>1, <2>2, <2>3, <2>4 DEF Scored
  <1>4. PICK w, n, m : w = Weighed(x) /\ n = Scored(kind, x) /\ m = Scored(kind, y) OBVIOUS
  <1>5. w \in Nat \ {0} /\ n \in Nat /\ m \in Nat /\ n <= m /\ m <= 100 * w BY <1>2, <1>3, <1>4, ConfidenceIs
  <1>6. Confidence(kind, x) = Rounded(n, w) /\ Confidence(kind, y) = Rounded(m, w)
    BY <1>2, <1>4, ConfidenceIs DEF Rounded
  <1>7. Rounded(n, w) \in 0 .. 1000 /\ Rounded(m, w) \in 0 .. 1000 /\ Rounded(n, w) <= Rounded(m, w)
    BY <1>5, Rounding DEF InScale
  <1> QED BY <1>6, <1>7

\* Every confidence is in the scale.
LEMMA ConfidenceRange ==
  ASSUME NEW kind \in DOMAIN Kinds, NEW x \in Measures
  PROVE  Confidence(kind, x) \in 0 .. 1000
  <1>1. NoBetter(x, x) BY ScoringAssumption DEF NoBetter, NoFit
  <1> QED BY <1>1, ConfidenceMonotone

\* Confidences are compared as integers.
LEMMA ConfidenceOrdered ==
  ASSUME NEW kind \in DOMAIN Kinds, NEW x \in Measures, NEW y \in Measures, NoBetter(x, y)
  PROVE  Confidence(kind, x) \in Int /\ Confidence(kind, y) \in Int /\ Confidence(kind, x) <= Confidence(kind, y)
  <1>1. PICK p, q : p = Confidence(kind, x) /\ q = Confidence(kind, y) OBVIOUS
  <1>2. p \in 0 .. 1000 /\ q \in 0 .. 1000 /\ p <= q BY <1>1, ConfidenceMonotone
  <1>3. p \in Int /\ q \in Int BY ONLY <1>2
  <1> QED BY ONLY <1>1, <1>2, <1>3

\* What is no better in any measure, and no higher in confidence, has no lower
\* risk.
LEMMA RiskMonotone ==
  ASSUME NEW x \in Measures, NEW y \in Measures, NoBetter(x, y), NEW w \in Nat,
         NEW c \in Int, NEW e \in Int, c <= e
  PROVE  Risk(c, x, w) \in Int /\ Risk(e, y, w) \in Int /\ Risk(e, y, w) <= Risk(c, x, w)
  <1>1. /\ x.mape \in Nat /\ y.mape \in Nat /\ x.width \in Nat /\ y.width \in Nat /\ x.off \in Nat /\ y.off \in Nat
        /\ x.also \in SUBSET {"override", "outlier"} /\ y.also \subseteq x.also
    BY ScoringAssumption DEF NoBetter
  <1> DEFINE Of(d, z) == OfConfidence(d) + OfError(z) + OfBand(z) + OfDeviation(z)
  <1>2. PICK p \in Nat, q \in Nat : p = Of(c, x) /\ q = Of(e, y) /\ q <= p
    BY <1>1 DEF NoBetter, OfConfidence, OfError, OfBand, OfDeviation, Step
  <1>3. PICK i \in Nat, j \in Nat : i = Cardinality(x.also) /\ j = Cardinality(y.also) /\ j <= i
    <2>1. IsFiniteSet({"override", "outlier"})
      <3>1. IsFiniteSet({"override"}) BY FS_Singleton
      <3>2. PICK o : o = {"override"} OBVIOUS
      <3>3. IsFiniteSet(o \cup {"outlier"}) BY <3>1, <3>2, FS_AddElement
      <3>4. o \cup {"outlier"} = {"override", "outlier"} BY <3>2
      <3> QED BY <3>3, <3>4
    <2>2. PICK s, t : s = x.also /\ t = y.also OBVIOUS
    <2>3. IsFiniteSet(s) BY <1>1, <2>1, <2>2, FS_Subset
    <2>4. IsFiniteSet(t) /\ Cardinality(t) <= Cardinality(s) BY <1>1, <2>2, <2>3, FS_Subset
    <2> QED BY <2>2, <2>3, <2>4, FS_CardinalityType
  <1>4. w * q \in Int /\ w * p \in Int /\ w * q <= w * p BY <1>2, Z3
  <1>5. PICK a \in Int, b \in Int : a = w * p + 100 * i /\ b = w * q + 100 * j /\ b <= a BY <1>3, <1>4
  <1>6. Risk(c, x, w) = Min({1000, a}) /\ Risk(e, y, w) = Min({1000, b})
    BY <1>2, <1>3, <1>5 DEF Risk
  <1> QED BY <1>5, <1>6, MinWithCap

Severity(v) ==
    CASE v = "approve" -> 1 [] v = "review" -> 2 [] v = "flag" -> 3 [] v = "override" -> 4 [] OTHER -> 5

\* Milder verdicts have a lower severity.
LEMMA MilderIsLess ==
  ASSUME NEW a, NEW b, Milder(a, b)
  PROVE  Severity(a) \in Int /\ Severity(b) \in Int /\ Severity(a) < Severity(b)
  <1>1. PICK i \in 1 .. 5, j \in 1 .. 5 : i < j /\ Recommendations[i] = a /\ Recommendations[j] = b BY DEF Milder
  <1>2. \A k \in 1 .. 5 : Severity(Recommendations[k]) = k
    <2> SUFFICES ASSUME NEW k \in 1 .. 5 PROVE Severity(Recommendations[k]) = k OBVIOUS
    <2>1. k = 1 \/ k = 2 \/ k = 3 \/ k = 4 \/ k = 5 OBVIOUS
    <2> QED BY <2>1 DEF Severity, Recommendations
  <1> QED BY <1>1, <1>2

\* No verdict on measurements that are no better is milder.
LEMMA AnalysisMonotone ==
  ASSUME NEW kind, NEW x \in Measures, NEW y \in Measures, NoBetter(x, y), NEW w \in Nat,
         NEW c \in Int, NEW e \in Int, c <= e
  PROVE  ~Milder(Analysis(kind, c, x, w), Analysis(kind, e, y, w))
  <1>1. PICK p \in Int, q \in Int : p = Risk(c, x, w) /\ q = Risk(e, y, w) /\ q <= p BY RiskMonotone
  <1>2. Severity(Analysis(kind, e, y, w)) <= Severity(Analysis(kind, c, x, w))
    BY <1>1 DEF Analysis, Severity
  <1>3. Severity(Analysis(kind, e, y, w)) \in Int /\ Severity(Analysis(kind, c, x, w)) \in Int BY DEF Severity
  <1> QED BY <1>2, <1>3, MilderIsLess

\* What is no better in any measure is not told a milder remedy.
LEMMA RemediationMonotone ==
  ASSUME NEW kind, NEW x \in Measures, NEW y \in Measures, NoBetter(x, y)
  PROVE  ~Milder(Remediation(kind, x, FALSE), Remediation(kind, y, FALSE))
  <1>1. x.mape \in Nat /\ y.mape \in Nat /\ x.width \in Nat /\ y.width \in Nat
        /\ x.fit \in 0 .. 100 \cup {NoFit} /\ y.fit \in 0 .. 100 \cup {NoFit}
    BY ScoringAssumption
  <1>2. PICK u, v : u = Remediation(kind, x, FALSE) /\ v = Remediation(kind, y, FALSE) OBVIOUS
  <1>3. Severity(v) <= Severity(u)
    BY <1>1, <1>2 DEF Remediation, Severity, NoBetter, NoFit
  <1>4. Severity(u) \in Int /\ Severity(v) \in Int BY DEF Severity
  <1>5. ~Milder(u, v) BY <1>3, <1>4, MilderIsLess
  <1> QED BY Zenon, <1>2, <1>5

-----------------------------------------------------------------------------
JudgedRows == [line : LinesJudged, now : Known, verdict : Verdicts, on : Known, by : {"remediation", "analysis"}]

\* A fact's verdict is its judge's on what the fact keeps of it.
TrueVerdict(j) ==
    /\ j.by = "analysis" => j.verdict = Analysis(j.on.kind, j.on.confidence, j.on.x, j.on.weight)
    /\ j.by = "remediation" => j.verdict = Remediation(j.on.kind, j.on.x, j.on.flagged)

ScoringInv == ScoringTypeOK /\ \A r \in Rows : TrueVerdict(judged[r])

\* Every verdict is one of the known.
LEMMA VerdictsGiven ==
  /\ \A kind, c, x, w : Analysis(kind, c, x, w) \in Verdicts
  /\ \A kind, x, flagged : Remediation(kind, x, flagged) \in Verdicts
  <1>1. "approve" \in Verdicts /\ "review" \in Verdicts /\ "flag" \in Verdicts /\ "override" \in Verdicts
        /\ "manual_input" \in Verdicts
    <2>1. /\ Recommendations[1] = "approve" /\ Recommendations[2] = "review" /\ Recommendations[3] = "flag"
          /\ Recommendations[4] = "override" /\ Recommendations[5] = "manual_input"
      BY DEF Recommendations
    <2>2. \A i \in 1 .. 5 : Recommendations[i] \in Verdicts BY DEF Verdicts
    <2>3. 1 \in 1 .. 5 /\ 2 \in 1 .. 5 /\ 3 \in 1 .. 5 /\ 4 \in 1 .. 5 /\ 5 \in 1 .. 5 OBVIOUS
    <2> QED BY <2>1, <2>2, <2>3
  <1> QED BY <1>1 DEF Analysis, Remediation

\* The parts of a scored line.
LEMMA KnownParts ==
  ASSUME NEW z \in Known
  PROVE  /\ z.kind \in DOMAIN Kinds /\ z.x \in Measures /\ z.weight \in {10, 12, 15} /\ z.confidence \in 0 .. 1000
         /\ z.flagged \in BOOLEAN
         /\ z = [kind |-> z.kind, weight |-> z.weight, x |-> z.x, confidence |-> z.confidence, flagged |-> z.flagged]
  BY DEF Known

\* What is known of a fact measured anew.
Renewed(z, k, x, c) == [z EXCEPT !.kind = k, !.x = x, !.confidence = c]

\* Its parts: the weight and the flag stay.
LEMMA RenewedParts ==
  ASSUME NEW z \in Known, NEW k, NEW x, NEW c
  PROVE  Renewed(z, k, x, c) = [kind |-> k, weight |-> z.weight, x |-> x, confidence |-> c, flagged |-> z.flagged]
  <1>1. z = [kind |-> z.kind, weight |-> z.weight, x |-> z.x, confidence |-> z.confidence, flagged |-> z.flagged]
    BY KnownParts
  <1>2. PICK t, w, o, p, f : z = [kind |-> t, weight |-> w, x |-> o, confidence |-> p, flagged |-> f] BY <1>1
  <1>3. PICK n : n = [z EXCEPT !.kind = k, !.x = x, !.confidence = c] OBVIOUS
  <1>4. n = [kind |-> k, weight |-> w, x |-> x, confidence |-> c, flagged |-> f] BY <1>2, <1>3
  <1>5. Renewed(z, k, x, c) = n BY ONLY <1>3 DEF Renewed
  <1>6. z.weight = w /\ z.flagged = f BY ONLY <1>2
  <1> QED BY ONLY <1>4, <1>5, <1>6

Measured(k, x, c) == k \in DOMAIN Kinds /\ x \in Measures /\ c \in 0 .. 1000

\* A scored line is measured, and stays so when its confidence is scored or its
\* measurements change.
LEMMA KnownMeasured ==
  ASSUME NEW z \in Known, NEW x \in Measures
  PROVE  Measured(z.kind, z.x, Confidence(z.kind, z.x)) /\ Measured(z.kind, x, z.confidence)
  <1>1. PICK k \in DOMAIN Kinds, y \in Measures : k = z.kind /\ y = z.x BY KnownParts
  <1>2. Measured(k, y, Confidence(k, y)) BY ConfidenceRange DEF Measured
  <1>3. Measured(k, x, z.confidence) BY KnownParts DEF Measured
  <1> QED BY ONLY <1>1, <1>2, <1>3

\* A change of the confidence alone, or of the measurements alone.
LEMMA MovedOnly ==
  ASSUME NEW z \in Known, NEW y
  PROVE  /\ [z EXCEPT !.confidence = y] = Renewed(z, z.kind, z.x, y)
         /\ [z EXCEPT !.x = y] = Renewed(z, z.kind, y, z.confidence)
  <1>1. z = [kind |-> z.kind, weight |-> z.weight, x |-> z.x, confidence |-> z.confidence, flagged |-> z.flagged]
    BY KnownParts
  <1>2. PICK t, w, o, p, f : z = [kind |-> t, weight |-> w, x |-> o, confidence |-> p, flagged |-> f] BY <1>1
  <1> QED BY ONLY <1>2 DEF Renewed

\* A line scored anew is a scored line.
LEMMA KnownRenewed ==
  ASSUME NEW z \in Known, NEW k, NEW x, NEW c, Measured(k, x, c)
  PROVE  Renewed(z, k, x, c) \in Known
  <1>1. k \in DOMAIN Kinds /\ x \in Measures /\ c \in 0 .. 1000 BY DEF Measured
  <1>2. z.weight \in {10, 12, 15} /\ z.flagged \in BOOLEAN BY KnownParts
  <1>3. Renewed(z, k, x, c) = [kind |-> k, weight |-> z.weight, x |-> x, confidence |-> c, flagged |-> z.flagged]
    BY RenewedParts
  <1> QED BY ONLY <1>1, <1>2, <1>3 DEF Known

\* The fact of line l, scored and judged by its remediation.
LEMMA FreshTells ==
  ASSUME NEW l \in LinesJudged, NEW z \in Known, NEW flagged \in BOOLEAN, NEW j, j = Judged(l, Fresh(z, flagged))
  PROVE  j \in JudgedRows /\ TrueVerdict(j)
  <1>1. PICK e, v : e = Confidence(z.kind, z.x) /\ v = Remediation(z.kind, z.x, flagged) OBVIOUS
  <1>2. z.kind \in DOMAIN Kinds /\ z.x \in Measures BY KnownParts
  <1>3. e \in 0 .. 1000 BY <1>1, <1>2, ConfidenceRange
  <1>4. v \in Verdicts BY Zenon, <1>1, VerdictsGiven
  <1>5. PICK now : now = [z EXCEPT !.confidence = e, !.flagged = flagged] OBVIOUS
  <1>6. now \in Known /\ now.kind = z.kind /\ now.x = z.x /\ now.flagged = flagged
    <2>1. PICK k, w, x, c, g : z = [kind |-> k, weight |-> w, x |-> x, confidence |-> c, flagged |-> g]
      BY KnownParts
    <2>2. now = [kind |-> k, weight |-> w, x |-> x, confidence |-> e, flagged |-> flagged] BY <1>5, <2>1
    <2>3. k \in DOMAIN Kinds /\ w \in {10, 12, 15} /\ x \in Measures BY <2>1, KnownParts
    <2>4. now \in Known BY <1>3, <2>2, <2>3 DEF Known
    <2> QED BY <2>1, <2>2, <2>4
  <1>7. j = [line |-> l, now |-> now, verdict |-> v, on |-> now, by |-> "remediation"]
    BY <1>1, <1>5 DEF Judged, Fresh
  <1>8. j.by = "remediation" /\ j.on = now /\ j.verdict = v BY <1>7
  <1>9. v = Remediation(now.kind, now.x, now.flagged) BY Zenon, <1>1, <1>6
  <1>10. j \in JudgedRows BY <1>4, <1>6, <1>7 DEF JudgedRows
  <1> QED BY <1>8, <1>9, <1>10 DEF TrueVerdict

\* The invariant at the start.
LEMMA ScoringInitial == ScoringInit => ScoringInv
  <1> SUFFICES ASSUME ScoringInit PROVE ScoringInv OBVIOUS
  <1>1. ASSUME NEW r \in Rows PROVE judged[r] \in JudgedRows /\ TrueVerdict(judged[r])
    <2>1. PICK l \in LinesJudged, fact \in Forecast : judged[r] = Judged(l, Fresh(fact, fact.flagged)) BY DEF ScoringInit
    <2>2. fact \in Known /\ fact.flagged \in BOOLEAN BY DEF Forecast, Known
    <2>3. PICK j, f : j = judged[r] /\ f = fact.flagged OBVIOUS
    <2>4. f \in BOOLEAN /\ j = Judged(l, Fresh(fact, f)) BY <2>1, <2>2, <2>3
    <2>5. j \in JudgedRows /\ TrueVerdict(j) BY <2>2, <2>4, FreshTells
    <2> QED BY <2>3, <2>5
  <1>2. judged \in [Rows -> JudgedRows] BY <1>1 DEF ScoringInit
  <1>3. edits = 0 BY DEF ScoringInit
  <1> QED BY <1>1, <1>2, <1>3, ScoringAssumption DEF ScoringInv, ScoringTypeOK, JudgedRows

\* The invariant in every step.
LEMMA ScoringSteps == ScoringInv /\ [ScoringNext]_scoringVars => ScoringInv'
  <1> SUFFICES ASSUME ScoringInv, [ScoringNext]_scoringVars PROVE ScoringInv' OBVIOUS
  <1>1. /\ judged \in [Rows -> JudgedRows] /\ edits \in 0 .. MaxEdits
        /\ \A r \in Rows : TrueVerdict(judged[r])
    BY DEF ScoringInv, ScoringTypeOK, JudgedRows
  <1>2. SUFFICES /\ edits' \in 0 .. MaxEdits /\ judged' \in [Rows -> JudgedRows]
                 /\ \A r \in Rows : TrueVerdict(judged'[r])
    BY DEF ScoringInv, ScoringTypeOK, JudgedRows
  <1>3. ASSUME NEW r \in Rows
        PROVE  /\ judged[r].line \in LinesJudged /\ judged[r].now \in Known /\ judged[r].on \in Known
               /\ judged[r].verdict \in Verdicts
    BY <1>1 DEF JudgedRows
  <1>4. ASSUME NEW r \in Rows, NEW k, NEW x, NEW c, NEW n, Measured(k, x, c),
               n = [judged[r] EXCEPT !.now = Renewed(judged[r].now, k, x, c)]
        PROVE  n \in JudgedRows /\ TrueVerdict(n)
    <2>1. judged[r] \in JudgedRows /\ TrueVerdict(judged[r]) BY <1>1
    <2>2. PICK z \in Known : z = judged[r].now BY <1>3
    <2>3. PICK m \in Known : m = Renewed(z, k, x, c) BY <1>4, KnownRenewed
    <2>4. n = [judged[r] EXCEPT !.now = m] BY <1>4, <2>2, <2>3
    <2> QED BY <2>1, <2>4 DEF JudgedRows, TrueVerdict
  <1>5. Edit => edits' \in 0 .. MaxEdits BY <1>1, ScoringAssumption DEF Edit
  <1>6. CASE Rescore
    <2>1. judged' = [r \in Rows |-> Judged(judged[r].line, Fresh(judged[r].now, FALSE))] /\ edits' = edits
      BY <1>6 DEF Rescore
    <2>2. ASSUME NEW r \in Rows PROVE judged'[r] \in JudgedRows /\ TrueVerdict(judged'[r])
      <3>1. PICK j, l, z, f : j = judged'[r] /\ l = judged[r].line /\ z = judged[r].now /\ f = FALSE OBVIOUS
      <3>2. l \in LinesJudged /\ z \in Known BY <1>3, <3>1
      <3>3. f \in BOOLEAN /\ j = Judged(l, Fresh(z, f)) BY <2>1, <3>1
      <3>4. j \in JudgedRows /\ TrueVerdict(j) BY <3>2, <3>3, FreshTells
      <3> QED BY <3>1, <3>4
    <2> QED BY <1>1, <2>1, <2>2
  <1>7. CASE ScoreConfidence
    <2>1. /\ edits' = edits
          /\ judged' = [r \in Rows |->
               [judged[r] EXCEPT !.now.confidence = Confidence(judged[r].now.kind, judged[r].now.x)]]
      BY <1>7 DEF ScoreConfidence
    <2>2. ASSUME NEW r \in Rows PROVE judged'[r] \in JudgedRows /\ TrueVerdict(judged'[r])
      <3>1. PICK z \in Known : z = judged[r].now BY <1>3
      <3>2. z.x \in Measures BY KnownParts
      <3>3. PICK c : c = Confidence(z.kind, z.x) /\ Measured(z.kind, z.x, c) BY <3>2, KnownMeasured
      <3>4. judged'[r] = [judged[r] EXCEPT !.now = [z EXCEPT !.confidence = c]]
        BY <2>1, <3>1, <3>3
      <3>5. [z EXCEPT !.confidence = c] = Renewed(z, z.kind, z.x, c) BY MovedOnly
      <3>6. PICK n : n = judged'[r] OBVIOUS
      <3>7. n = [judged[r] EXCEPT !.now = Renewed(judged[r].now, z.kind, z.x, c)] BY <3>1, <3>4, <3>5, <3>6
      <3>8. n \in JudgedRows /\ TrueVerdict(n) BY <1>4, <3>3, <3>7
      <3> QED BY <3>6, <3>8
    <2> QED BY <1>1, <2>1, <2>2
  <1>8. CASE ReviewDashboard
    <2>1. PICK worst \in [Rows -> Rows] :
            judged' = [r \in Rows |->
                        LET v == judged[worst[r]].now
                        IN  [judged[r] EXCEPT !.verdict = Analysis(v.kind, v.confidence, v.x, v.weight),
                                              !.on = v, !.by = "analysis"]]
      BY <1>8 DEF ReviewDashboard
    <2>2. edits' = edits BY <1>8 DEF ReviewDashboard
    <2>3. ASSUME NEW r \in Rows PROVE judged'[r] \in JudgedRows /\ TrueVerdict(judged'[r])
      <3>1. PICK v \in Known : v = judged[worst[r]].now BY <1>3
      <3>2. PICK a \in Verdicts : a = Analysis(v.kind, v.confidence, v.x, v.weight) BY VerdictsGiven
      <3>3. judged'[r] = [judged[r] EXCEPT !.verdict = a, !.on = v, !.by = "analysis"] BY <2>1, <3>1, <3>2
      <3>4. judged[r] \in JudgedRows BY <1>1
      <3> QED BY <3>1, <3>2, <3>3, <3>4 DEF JudgedRows, TrueVerdict
    <2> QED BY <1>1, <2>1, <2>2, <2>3
  <1>9. ASSUME NEW l \in LinesJudged, NEW x \in Measures, Ensemble(l, x)
        PROVE  edits' \in 0 .. MaxEdits /\ judged' \in [Rows -> JudgedRows] /\ \A r \in Rows : TrueVerdict(judged'[r])
    <2>1. PICK c : c = Confidence("ensemble", x) /\ Measured("ensemble", x, c)
      <3>1. "ensemble" \in DOMAIN Kinds BY ScoringAssumption
      <3> QED BY <3>1, ConfidenceRange DEF Measured
    <2>2. judged' = [r \in Rows |->
                  IF judged[r].line # l THEN judged[r]
                  ELSE [judged[r] EXCEPT !.now.kind = "ensemble", !.now.x = x, !.now.confidence = c]]
      <3>1. judged' = [r \in Rows |->
                    IF judged[r].line # l THEN judged[r]
                    ELSE [judged[r] EXCEPT !.now.kind = "ensemble", !.now.x = x,
                                           !.now.confidence = Confidence("ensemble", x)]]
        BY ONLY <1>9 DEF Ensemble
      <3> QED BY ONLY <2>1, <3>1
    <2>3. ASSUME NEW r \in Rows PROVE judged'[r] \in JudgedRows /\ TrueVerdict(judged'[r])
      <3>1. CASE judged[r].line # l BY <1>1, <2>2, <3>1
      <3>2. CASE judged[r].line = l
        <4>1. PICK n : n = judged'[r] OBVIOUS
        <4>2. n = [judged[r] EXCEPT !.now = Renewed(judged[r].now, "ensemble", x, c)]
          <5>1. PICK j \in JudgedRows : j = judged[r] BY <1>1
          <5>2. n = [j EXCEPT !.now.kind = "ensemble", !.now.x = x, !.now.confidence = c] BY <2>2, <3>2, <4>1, <5>1
          <5>3. n = [j EXCEPT !.now = Renewed(j.now, "ensemble", x, c)] BY ONLY <5>2 DEF JudgedRows, Renewed
          <5> QED BY <5>1, <5>3
        <4>3. n \in JudgedRows /\ TrueVerdict(n) BY <1>4, <2>1, <4>2
        <4> QED BY <4>1, <4>3
      <3> QED BY <3>1, <3>2
    <2> QED BY <1>5, <1>9, <2>2, <2>3 DEF Ensemble
  <1>10. ASSUME NEW q \in Rows, NEW x \in Measures, MovePoints(q, x)
         PROVE  edits' \in 0 .. MaxEdits /\ judged' \in [Rows -> JudgedRows] /\ \A r \in Rows : TrueVerdict(judged'[r])
    <2>1. PICK z \in Known : z = judged[q].now BY <1>3
    <2>2. Measured(z.kind, x, z.confidence) BY KnownMeasured
    <2>3. PICK n : n = [judged[q] EXCEPT !.now = Renewed(judged[q].now, z.kind, x, z.confidence)] OBVIOUS
    <2>4. n \in JudgedRows /\ TrueVerdict(n) BY <1>4, <2>2, <2>3
    <2>5. n = [judged[q] EXCEPT !.now = [z EXCEPT !.x = x]]
      <3>1. [z EXCEPT !.x = x] = Renewed(z, z.kind, x, z.confidence) BY MovedOnly
      <3> QED BY <2>1, <2>3, <3>1
    <2>6. judged' = [judged EXCEPT ![q] = n] BY <1>10, <2>1, <2>5 DEF MovePoints
    <2> QED BY <1>1, <1>5, <1>10, <2>4, <2>6 DEF MovePoints
  <1>11. CASE UNCHANGED scoringVars BY <1>1, <1>11 DEF scoringVars
  <1> QED BY <1>6, <1>7, <1>8, <1>9, <1>10, <1>11 DEF ScoringNext

\* Every fact carries the verdict its judge gives on what the fact keeps of it.
THEOREM ScoringCorrect == ScoringSpec => []ScoringInv
  <1> QED BY ScoringInitial, ScoringSteps, PTL DEF ScoringSpec

\* The invariant implies that the worse line is never told the milder verdict.
LEMMA ToldIsMonotone == ScoringInv => WorseNeverMilder
  <1> SUFFICES ASSUME ScoringInv, NEW r \in Rows,
                      judged[r].by = "remediation" => ~judged[r].on.flagged,
                      judged[r].on.confidence = Confidence(judged[r].on.kind, judged[r].on.x),
                      NEW x \in Measures, NoBetter(x, judged[r].on.x)
               PROVE  ~Milder(VerdictOf(judged[r].by, judged[r].on.kind, x, judged[r].on.weight, FALSE), judged[r].verdict)
    BY DEF WorseNeverMilder
  <1>1. judged[r] \in JudgedRows /\ TrueVerdict(judged[r]) BY DEF ScoringInv, ScoringTypeOK, JudgedRows
  <1>2. PICK a \in Known : a = judged[r].on BY <1>1 DEF JudgedRows
  <1>3. a.kind \in DOMAIN Kinds /\ a.x \in Measures /\ a.weight \in Nat BY DEF Known
  <1>4. CASE judged[r].by = "analysis"
    <2>1. PICK c, e : c = Confidence(a.kind, x) /\ e = Confidence(a.kind, a.x) OBVIOUS
    <2>2. c \in Int /\ e \in Int /\ c <= e
      <3>1. PICK y \in Measures : y = a.x BY <1>3
      <3>2. NoBetter(x, y) BY <1>2, <3>1
      <3>3. PICK k \in DOMAIN Kinds : k = a.kind BY <1>3
      <3>4. Confidence(k, x) \in Int /\ Confidence(k, y) \in Int /\ Confidence(k, x) <= Confidence(k, y)
        BY ONLY <3>2, ConfidenceOrdered
      <3> QED BY <2>1, <3>1, <3>3, <3>4
    <2>3. ~Milder(Analysis(a.kind, c, x, a.weight), Analysis(a.kind, e, a.x, a.weight))
      BY <1>2, <1>3, <2>2, AnalysisMonotone
    <2>4. judged[r].verdict = Analysis(a.kind, e, a.x, a.weight) BY <1>1, <1>2, <1>4, <2>1 DEF TrueVerdict
    <2>5. VerdictOf(judged[r].by, a.kind, x, a.weight, FALSE) = Analysis(a.kind, c, x, a.weight)
      BY <1>4, <2>1 DEF VerdictOf
    <2> QED BY <1>2, <2>3, <2>4, <2>5
  <1>5. CASE judged[r].by = "remediation"
    <2>1. a.flagged = FALSE BY <1>2, <1>5 DEF Known
    <2>2. judged[r].verdict = Remediation(a.kind, a.x, a.flagged) BY <1>1, <1>2, <1>5 DEF TrueVerdict
    <2>3. judged[r].verdict = Remediation(a.kind, a.x, FALSE) BY Zenon, <2>1, <2>2
    <2>4. VerdictOf(judged[r].by, a.kind, x, a.weight, FALSE) = Remediation(a.kind, x, FALSE)
      BY <1>5 DEF VerdictOf
    <2>5. ~Milder(Remediation(a.kind, x, FALSE), Remediation(a.kind, a.x, FALSE)) BY <1>2, <1>3, RemediationMonotone
    <2> QED BY Zenon, <1>2, <2>3, <2>4, <2>5
  <1> QED BY <1>1, <1>4, <1>5 DEF JudgedRows

\* A fact is never judged more severely than one that is no better in anything
\* and as material would be by the same judge, for every table of base
\* confidences and all measurements.
THEOREM WorseNeverMilderAlways == ScoringSpec => []WorseNeverMilder
  <1> QED BY ScoringCorrect, ToldIsMonotone, PTL

-----------------------------------------------------------------------------
(***************************************************************************)
(* The readers (Readings): a sum of rows does not depend on the order in   *)
(* which lines and months are added, so all readers agree.                 *)
(***************************************************************************)

Shelved == [status : Statuses, parent : ShelfPlaces \cup {Unrelated}, publishedAt : 0 .. MaxStatusMoves]

\* The inductive invariant: the version a copy was made from is on the shelf
\* as long as the copy is, and the version published last has a date, later
\* than every other.
ReadingsInv ==
    /\ ReadingsTypeOK
    /\ \A v \in OnShelf : shelf[v].parent # Unrelated => shelf[v].parent \in OnShelf
    /\ \A v \in ShelfPlaces : shelf[v].publishedAt <= effort.moves
    /\ announced \in ShelfPlaces =>
          /\ shelf[announced].status # "absent"
          /\ shelf[announced].publishedAt # 0
          /\ \A u \in ShelfPlaces \ {announced} : shelf[u].publishedAt < shelf[announced].publishedAt

\* The places and what they carry.
Shelves(s, e, a) ==
    LET on == {v \in ShelfPlaces : s[v].status \notin {"absent", "deleted"}}
    IN  /\ s \in [ShelfPlaces -> Shelved]
        /\ e \in [writes : 0 .. MaxWrites, moves : 0 .. MaxStatusMoves]
        /\ a \in ShelfPlaces \cup {Unrelated}
        /\ \A v \in on : s[v].parent # Unrelated => s[v].parent \in on
        /\ \A v \in ShelfPlaces : s[v].publishedAt <= e.moves
        /\ a \in ShelfPlaces =>
              /\ s[a].status # "absent"
              /\ s[a].publishedAt # 0
              /\ \A u \in ShelfPlaces \ {a} : s[u].publishedAt < s[a].publishedAt

Stocks == [ShelfPlaces -> [ReadLines -> [Months -> StockRows]]]

\* The invariant by the places and by the rows on them.
LEMMA ReadingsInvIs == ReadingsInv <=> Shelves(shelf, effort, announced) /\ stock \in Stocks
  BY DEF ReadingsInv, ReadingsTypeOK, Shelves, Shelved, Stocks, OnShelf

\* The same after a step.
LEMMA ReadingsInvIsNext == ReadingsInv' <=> Shelves(shelf', effort', announced') /\ stock' \in Stocks
  BY DEF ReadingsInv, ReadingsTypeOK, Shelves, Shelved, Stocks, OnShelf, StockRows, ReadLines, Months, ShelfPlaces

\* The rows a model writes are rows.
LEMMA ModelRowsTyped == ModelRows \in [ReadLines -> [Months -> StockRows]]
  BY ReadingsAssumption DEF ModelRows, Plain, StockRows

\* The invariant at the start.
LEMMA ReadingsInitial == ReadingsInit => ReadingsInv
  <1> SUFFICES ASSUME ReadingsInit PROVE ReadingsInv OBVIOUS
  <1>1. stock \in Stocks BY ModelRowsTyped DEF ReadingsInit, Stocks
  <1>2. Shelves(shelf, effort, announced)
    BY ReadingsAssumption DEF ReadingsInit, Shelves, Shelved, Statuses
  <1> QED BY <1>1, <1>2, ReadingsInvIs

\* The shelf when a version is generated or copied.
LEMMA MadeKeeps ==
  ASSUME NEW s, NEW e, NEW a, Shelves(s, e, a), NEW c \in ShelfPlaces, s[c].status = "absent",
         NEW parent, parent = Unrelated \/ (parent \in ShelfPlaces /\ s[parent].status \notin {"absent", "deleted"}),
         NEW t, t = [s EXCEPT ![c] = [status |-> "draft", parent |-> parent, publishedAt |-> 0]]
  PROVE  Shelves(t, e, a)
  <1>1. s \in [ShelfPlaces -> Shelved] BY DEF Shelves
  <1>2. PICK kept \in Shelved : kept = [status |-> "draft", parent |-> parent, publishedAt |-> 0]
    <2>1. "draft" \in Statuses /\ parent \in ShelfPlaces \cup {Unrelated} BY DEF Statuses
    <2>2. 0 \in 0 .. MaxStatusMoves BY ReadingsAssumption
    <2>3. [status |-> "draft", parent |-> parent, publishedAt |-> 0] \in Shelved BY <2>1, <2>2 DEF Shelved
    <2> QED BY <2>3
  <1>3. t = [s EXCEPT ![c] = kept] BY <1>2
  <1>4. t \in [ShelfPlaces -> Shelved] BY <1>1, <1>3
  <1>5. kept.status = "draft" /\ kept.parent = parent /\ kept.publishedAt = 0 BY <1>2
  <1>6. \A v \in ShelfPlaces : t[v] = IF v = c THEN kept ELSE s[v] BY <1>1, <1>3
  <1>7. ASSUME NEW v \in ShelfPlaces, t[v].status \notin {"absent", "deleted"}, t[v].parent # Unrelated
        PROVE  t[v].parent \in ShelfPlaces /\ t[t[v].parent].status \notin {"absent", "deleted"}
    BY <1>5, <1>6, <1>7 DEF Shelves
  <1>8. \A v \in ShelfPlaces : t[v].publishedAt <= e.moves BY <1>5, <1>6 DEF Shelves
  <1>9. a \in ShelfPlaces =>
              /\ t[a].status # "absent"
              /\ t[a].publishedAt # 0
              /\ \A u \in ShelfPlaces \ {a} : t[u].publishedAt < t[a].publishedAt
    <2> SUFFICES ASSUME a \in ShelfPlaces
                 PROVE  /\ t[a].status # "absent" /\ t[a].publishedAt # 0
                        /\ \A u \in ShelfPlaces \ {a} : t[u].publishedAt < t[a].publishedAt
      OBVIOUS
    <2>1. a # c /\ t[a] = s[a] BY <1>6 DEF Shelves
    <2>2. s[a].publishedAt \in Nat /\ s[a].publishedAt # 0 BY <1>1 DEF Shelved, Shelves
    <2> QED BY <1>5, <1>6, <2>1, <2>2 DEF Shelves
  <1> QED BY <1>4, <1>7, <1>8, <1>9 DEF Shelves

\* A kept whose status moves, its parent as it was and its date as it was or
\* the latest of all.
Moved(s, e, a, v, status, d, b, t, f) ==
    /\ v \in ShelfPlaces /\ s[v].status \notin {"absent", "deleted"} /\ e.moves < MaxStatusMoves
    /\ status \in Statuses \ {"absent", "deleted"}
    /\ (d = s[v].publishedAt /\ b = a) \/ (d = e.moves + 1 /\ b = v)
    /\ t = [s EXCEPT ![v] = [status |-> status, parent |-> s[v].parent, publishedAt |-> d]]
    /\ f = [e EXCEPT !.moves = @ + 1]

\* The shelf when a version's status moves.
LEMMA MovedKeeps ==
  ASSUME NEW s, NEW e, NEW a, Shelves(s, e, a), NEW v, NEW status, NEW d, NEW b, NEW t, NEW f,
         Moved(s, e, a, v, status, d, b, t, f)
  PROVE  Shelves(t, f, b)
  <1> USE DEF Moved
  <1>1. s \in [ShelfPlaces -> Shelved] /\ e \in [writes : 0 .. MaxWrites, moves : 0 .. MaxStatusMoves]
        /\ a \in ShelfPlaces \cup {Unrelated}
    BY DEF Shelves
  <1>2. f \in [writes : 0 .. MaxWrites, moves : 0 .. MaxStatusMoves] /\ f.moves = e.moves + 1 /\ e.moves \in Nat
    BY <1>1, ReadingsAssumption
  <1>3. \A u \in ShelfPlaces : s[u].publishedAt \in Nat /\ s[u].publishedAt <= e.moves
                             /\ s[u].parent \in ShelfPlaces \cup {Unrelated}
    BY <1>1 DEF Shelves, Shelved
  <1>4. d \in 0 .. MaxStatusMoves /\ d <= e.moves + 1 BY <1>2, <1>3, ReadingsAssumption
  <1>5. PICK kept \in Shelved : kept = [status |-> status, parent |-> s[v].parent, publishedAt |-> d]
    <2>1. [status |-> status, parent |-> s[v].parent, publishedAt |-> d] \in Shelved BY <1>3, <1>4 DEF Shelved
    <2> QED BY <2>1
  <1>6. t = [s EXCEPT ![v] = kept] BY <1>5
  <1>7. kept.status = status /\ kept.parent = s[v].parent /\ kept.publishedAt = d BY <1>5
  <1>8. t \in [ShelfPlaces -> Shelved] BY <1>1, <1>6
  <1>9. \A u \in ShelfPlaces : t[u] = IF u = v THEN kept ELSE s[u] BY <1>1, <1>6
  <1>10. \A u \in ShelfPlaces : t[u].parent = s[u].parent
                             /\ (t[u].status \notin {"absent", "deleted"} <=> s[u].status \notin {"absent", "deleted"})
    BY <1>7, <1>9
  <1>11. ASSUME NEW u \in ShelfPlaces, t[u].status \notin {"absent", "deleted"}, t[u].parent # Unrelated
         PROVE  t[u].parent \in ShelfPlaces /\ t[t[u].parent].status \notin {"absent", "deleted"}
    <2>1. s[u].status \notin {"absent", "deleted"} /\ s[u].parent # Unrelated BY <1>10, <1>11
    <2>2. s[u].parent \in ShelfPlaces /\ s[s[u].parent].status \notin {"absent", "deleted"} BY <2>1 DEF Shelves
    <2> QED BY <1>10, <2>2
  <1>12. \A u \in ShelfPlaces : t[u].publishedAt <= f.moves BY <1>2, <1>3, <1>4, <1>7, <1>9
  <1>13. ASSUME b \in ShelfPlaces
         PROVE  /\ t[b].status # "absent" /\ t[b].publishedAt # 0
                /\ \A u \in ShelfPlaces \ {b} : t[u].publishedAt < t[b].publishedAt
    <2>1. CASE d = s[v].publishedAt /\ b = a
      <3>1. \A u \in ShelfPlaces : t[u].publishedAt = s[u].publishedAt BY <1>7, <1>9, <2>1
      <3>2. /\ s[a].status # "absent" /\ s[a].publishedAt # 0
            /\ \A u \in ShelfPlaces \ {a} : s[u].publishedAt < s[a].publishedAt
        BY <1>13, <2>1 DEF Shelves
      <3> QED BY <1>7, <1>9, <1>13, <2>1, <3>1, <3>2
    <2>2. CASE d = e.moves + 1 /\ b = v BY <1>2, <1>3, <1>7, <1>9, <2>2
    <2> QED BY <2>1, <2>2
  <1>14. b \in ShelfPlaces \cup {Unrelated} BY <1>1
  <1> QED BY <1>2, <1>8, <1>11, <1>12, <1>13, <1>14 DEF Shelves

\* The shelf when a draft is deleted that nothing was made from.
LEMMA RemovedKeeps ==
  ASSUME NEW s, NEW e, NEW a, Shelves(s, e, a), NEW v \in ShelfPlaces,
         \A u \in ShelfPlaces : s[u].status \notin {"absent", "deleted"} => s[u].parent # v,
         s[v].status = "draft", NEW t, t = [s EXCEPT ![v].status = "deleted"]
  PROVE  Shelves(t, e, a)
  <1>1. s \in [ShelfPlaces -> Shelved] BY DEF Shelves
  <1>2. PICK kept \in Shelved : kept = [s[v] EXCEPT !.status = "deleted"]
    <2>1. [s[v] EXCEPT !.status = "deleted"] \in Shelved BY <1>1 DEF Shelved, Statuses
    <2> QED BY <2>1
  <1>3. kept.status = "deleted" /\ kept.publishedAt = s[v].publishedAt BY <1>1, <1>2 DEF Shelved
  <1>4. \A u \in ShelfPlaces : t[u] = IF u = v THEN kept ELSE s[u] BY <1>1, <1>2
  <1>5. t \in [ShelfPlaces -> Shelved]
    <2>1. t = [s EXCEPT ![v] = kept] BY <1>2
    <2> QED BY <1>1, <2>1
  <1>6. ASSUME NEW u \in ShelfPlaces, t[u].status \notin {"absent", "deleted"}, t[u].parent # Unrelated
        PROVE  t[u].parent \in ShelfPlaces /\ t[t[u].parent].status \notin {"absent", "deleted"}
    <2>1. t[u] = s[u] BY <1>3, <1>4, <1>6
    <2>2. s[u].parent \in ShelfPlaces /\ s[s[u].parent].status \notin {"absent", "deleted"} BY <1>6, <2>1 DEF Shelves
    <2>3. s[u].parent # v BY <1>6, <2>1
    <2> QED BY <1>4, <2>1, <2>2, <2>3
  <1>7. \A u \in ShelfPlaces : t[u].publishedAt = s[u].publishedAt BY <1>3, <1>4
  <1>8. \A u \in ShelfPlaces : t[u].publishedAt <= e.moves BY <1>7 DEF Shelves
  <1>9. ASSUME a \in ShelfPlaces
        PROVE  /\ t[a].status # "absent" /\ t[a].publishedAt # 0
               /\ \A u \in ShelfPlaces \ {a} : t[u].publishedAt < t[a].publishedAt
    <2>1. /\ s[a].status # "absent" /\ s[a].publishedAt # 0
          /\ \A u \in ShelfPlaces \ {a} : s[u].publishedAt < s[a].publishedAt
      BY <1>9 DEF Shelves
    <2> QED BY <1>3, <1>4, <1>7, <1>9, <2>1
  <1> QED BY <1>5, <1>6, <1>8, <1>9 DEF Shelves

\* The invariant in every step.
LEMMA ReadingsSteps == ReadingsInv /\ [ReadingsNext]_readingsVars => ReadingsInv'
  <1> SUFFICES ASSUME ReadingsInv, [ReadingsNext]_readingsVars PROVE ReadingsInv' OBVIOUS
  <1>1. Shelves(shelf, effort, announced) /\ stock \in Stocks BY ReadingsInvIs
  <1>2. SUFFICES Shelves(shelf', effort', announced') /\ stock' \in Stocks BY ReadingsInvIsNext
  <1>3. shelf \in [ShelfPlaces -> Shelved] BY <1>1 DEF Shelves
  <1>4. ASSUME NEW v \in ShelfPlaces, NEW l \in ReadLines, NEW mm \in Months PROVE stock[v][l][mm] \in StockRows
    BY <1>1 DEF Stocks
  <1>5. ASSUME NEW c \in ShelfPlaces, NEW parent, NEW rows, MakeVersion(c, parent, rows),
               parent = Unrelated \/ parent \in OnShelf, rows \in [ReadLines -> [Months -> StockRows]]
        PROVE  Shelves(shelf', effort', announced') /\ stock' \in Stocks
    <2>1. shelf[c].status = "absent" BY <1>5 DEF MakeVersion, NextPlace
    <2>2. PICK t : t = shelf' OBVIOUS
    <2>3. t = [shelf EXCEPT ![c] = [status |-> "draft", parent |-> parent, publishedAt |-> 0]]
      BY <1>5, <2>2 DEF MakeVersion
    <2>4. parent = Unrelated \/ (parent \in ShelfPlaces /\ shelf[parent].status \notin {"absent", "deleted"})
      BY <1>5 DEF OnShelf
    <2>5. Shelves(t, effort, announced) BY <1>1, <2>1, <2>3, <2>4, MadeKeeps
    <2>6. effort' = effort /\ announced' = announced /\ stock' = [stock EXCEPT ![c] = rows] BY <1>5 DEF MakeVersion
    <2>7. stock' \in Stocks BY <1>1, <1>5, <2>6 DEF Stocks
    <2> QED BY <2>2, <2>5, <2>6, <2>7
  <1>6. ASSUME NEW v \in ShelfPlaces, shelf[v].status \notin {"absent", "deleted"},
               NEW status \in Statuses \ {"absent", "deleted"}, Moves(v, [shelf[v] EXCEPT !.status = status]),
               announced' = announced
        PROVE  Shelves(shelf', effort', announced') /\ stock' \in Stocks
    <2>1. PICK t, f, d, b : t = shelf' /\ f = effort' /\ d = shelf[v].publishedAt /\ b = announced OBVIOUS
    <2>2. [shelf[v] EXCEPT !.status = status] = [status |-> status, parent |-> shelf[v].parent, publishedAt |-> d]
      BY <1>3, <2>1 DEF Shelved
    <2>3. /\ t = [shelf EXCEPT ![v] = [status |-> status, parent |-> shelf[v].parent, publishedAt |-> d]]
          /\ f = [effort EXCEPT !.moves = @ + 1] /\ effort.moves < MaxStatusMoves
      BY <1>6, <2>1, <2>2 DEF Moves
    <2>4. (d = shelf[v].publishedAt /\ b = announced) \/ (d = effort.moves + 1 /\ b = v) BY <2>1
    <2>5. Moved(shelf, effort, announced, v, status, d, b, t, f) BY <1>6, <2>3, <2>4 DEF Moved
    <2>6. Shelves(t, f, b) BY <1>1, <2>5, MovedKeeps
    <2>7. stock' = stock BY <1>6 DEF Moves
    <2> QED BY <1>1, <1>6, <2>1, <2>6, <2>7
  <1>7. "draft" \in Statuses \ {"absent", "deleted"} /\ "in_review" \in Statuses \ {"absent", "deleted"}
        /\ "approved" \in Statuses \ {"absent", "deleted"} /\ "published" \in Statuses \ {"absent", "deleted"}
    BY DEF Statuses
  <1>8. ASSUME NEW c \in ShelfPlaces, GenerateVersion(c)
        PROVE  Shelves(shelf', effort', announced') /\ stock' \in Stocks
    BY <1>5, <1>8, ModelRowsTyped DEF GenerateVersion
  <1>9. ASSUME NEW c \in ShelfPlaces, NEW v \in ShelfPlaces, CopyVersion(c, v)
        PROVE  Shelves(shelf', effort', announced') /\ stock' \in Stocks
    <2>1. stock[v] \in [ReadLines -> [Months -> StockRows]] BY <1>1 DEF Stocks
    <2> QED BY <1>5, <1>9, <2>1 DEF CopyVersion
  <1>10. ASSUME NEW c \in ShelfPlaces, NEW v \in ShelfPlaces, NEW k \in Categories, NEW x \in Entered,
                AdjustedBranch(c, v, k, x)
         PROVE  Shelves(shelf', effort', announced') /\ stock' \in Stocks
    <2> DEFINE rows == [l \in ReadLines |-> [mm \in Months |->
                          IF l \in LeafLines /\ CategoryOf[l] = k
                          THEN [stock[v][l][mm] EXCEPT !.p50 = x, !.marked = TRUE]
                          ELSE stock[v][l][mm]]]
    <2>1. x \in Int BY ReadingsAssumption
    <2>2. ASSUME NEW l \in ReadLines, NEW mm \in Months PROVE rows[l][mm] \in StockRows
      <3>1. PICK r \in StockRows : r = stock[v][l][mm] BY <1>4
      <3>2. rows[l][mm] = IF l \in LeafLines /\ CategoryOf[l] = k THEN [r EXCEPT !.p50 = x, !.marked = TRUE] ELSE r
        BY <3>1
      <3>3. [r EXCEPT !.p50 = x, !.marked = TRUE] \in StockRows BY <2>1 DEF StockRows
      <3> HIDE DEF rows
      <3> QED BY <3>2, <3>3
    <2>3. rows \in [ReadLines -> [Months -> StockRows]]
      <3>1. \A l \in ReadLines : rows[l] \in [Months -> StockRows] BY <2>2
      <3> QED BY <3>1
    <2>4. v \in OnShelf /\ MakeVersion(c, v, rows) BY <1>10 DEF AdjustedBranch
    <2> HIDE DEF rows
    <2> QED BY <1>5, <2>3, <2>4
  <1>11. ASSUME NEW v \in ShelfPlaces, NEW l \in LeafLines, NEW mm \in Months, NEW r \in WrittenRows, NEW x \in Entered,
                WriteRow(v, l, mm, r, x)
         PROVE  Shelves(shelf', effort', announced') /\ stock' \in Stocks
    <2>1. x \in Int /\ r \in StockRows
      <3>1. ASSUME NEW y \in Entered
            PROVE  Plain(y) \in StockRows /\ [p50 |-> y, marked |-> TRUE, over |-> {y}] \in StockRows
        BY ReadingsAssumption DEF Plain, StockRows
      <3>2. r \in StockRows BY <3>1 DEF WrittenRows
      <3> QED BY <3>2, ReadingsAssumption
    <2>2. PICK old \in [ReadLines -> [Months -> StockRows]] : old = stock[v] BY <1>1 DEF Stocks
    <2> DEFINE rows == [k \in ReadLines |->
                          IF k = l THEN [old[l] EXCEPT ![mm] = r]
                          ELSE IF k \in SumLines THEN [old[k] EXCEPT ![mm].p50 = x]
                          ELSE old[k]]
    <2>3. stock' = [stock EXCEPT ![v] = rows] BY <1>11, <2>2 DEF WriteRow
    <2>4. ASSUME NEW k \in ReadLines PROVE rows[k] \in [Months -> StockRows]
      <3>1. old[k] \in [Months -> StockRows] OBVIOUS
      <3>2. PICK q \in StockRows : q = [old[k][mm] EXCEPT !.p50 = x]
        <4>1. PICK z \in StockRows : z = old[k][mm] BY <3>1
        <4>2. [z EXCEPT !.p50 = x] \in StockRows BY <2>1 DEF StockRows
        <4> QED BY <4>1, <4>2
      <3>3. [old[k] EXCEPT ![mm].p50 = x] = [old[k] EXCEPT ![mm] = q] BY <3>2
      <3>4. [old[k] EXCEPT ![mm] = q] \in [Months -> StockRows] /\ [old[k] EXCEPT ![mm] = r] \in [Months -> StockRows]
        BY <2>1, <3>1
      <3> QED BY <3>1, <3>3, <3>4
    <2>5. rows \in [ReadLines -> [Months -> StockRows]] BY <2>4
    <2>6. stock' \in Stocks
      <3> HIDE DEF rows
      <3> QED BY <1>1, <2>3, <2>5 DEF Stocks
    <2>7. PICK f : f = effort' OBVIOUS
    <2>8. f = [effort EXCEPT !.writes = @ + 1] /\ effort.writes < MaxWrites BY <1>11, <2>7 DEF WriteRow
    <2>9. f \in [writes : 0 .. MaxWrites, moves : 0 .. MaxStatusMoves] /\ f.moves = effort.moves
      BY <1>1, <2>8, ReadingsAssumption DEF Shelves
    <2>10. Shelves(shelf, f, announced) BY <1>1, <2>9 DEF Shelves
    <2>11. shelf' = shelf /\ announced' = announced BY <1>11 DEF WriteRow
    <2> QED BY <2>6, <2>7, <2>10, <2>11
  <1>12. ASSUME NEW v \in ShelfPlaces, OfferVersion(v) PROVE Shelves(shelf', effort', announced') /\ stock' \in Stocks
    BY <1>6, <1>7, <1>12 DEF OfferVersion
  <1>13. ASSUME NEW v \in ShelfPlaces, ApproveVersion(v) PROVE Shelves(shelf', effort', announced') /\ stock' \in Stocks
    BY <1>6, <1>7, <1>13 DEF ApproveVersion
  <1>14. ASSUME NEW v \in ShelfPlaces, ReturnVersion(v) PROVE Shelves(shelf', effort', announced') /\ stock' \in Stocks
    BY <1>6, <1>7, <1>14 DEF ReturnVersion
  <1>15. ASSUME NEW v \in ShelfPlaces, NEW s \in {"draft", "published"}, SetStatus(v, s)
         PROVE  Shelves(shelf', effort', announced') /\ stock' \in Stocks
    <2>1. s \in Statuses \ {"absent", "deleted"} BY <1>7
    <2>2. shelf[v].status \notin {"absent", "deleted"} /\ Moves(v, [shelf[v] EXCEPT !.status = s]) /\ announced' = announced
      BY <1>15 DEF SetStatus, OnShelf
    <2> QED BY <1>6, <2>1, <2>2
  <1>16. ASSUME NEW v \in ShelfPlaces, PublishVersion(v) PROVE Shelves(shelf', effort', announced') /\ stock' \in Stocks
    <2>1. PICK t, f, d, b : t = shelf' /\ f = effort' /\ d = effort.moves + 1 /\ b = v OBVIOUS
    <2>2. [shelf[v] EXCEPT !.status = "published", !.publishedAt = d]
            = [status |-> "published", parent |-> shelf[v].parent, publishedAt |-> d]
      <3>1. PICK kept \in Shelved : kept = shelf[v] BY <1>3
      <3>2. PICK p, q, w : kept = [status |-> p, parent |-> q, publishedAt |-> w] BY DEF Shelved
      <3>3. [kept EXCEPT !.status = "published", !.publishedAt = d]
              = [status |-> "published", parent |-> q, publishedAt |-> d]
        <4>1. PICK out : out = [kept EXCEPT !.status = "published"] OBVIOUS
        <4>2. out = [status |-> "published", parent |-> q, publishedAt |-> w] BY <3>2, <4>1
        <4>3. [kept EXCEPT !.status = "published", !.publishedAt = d] = [out EXCEPT !.publishedAt = d] BY <4>1
        <4> QED BY <4>2, <4>3
      <3> QED BY <3>1, <3>2, <3>3
    <2>3. /\ t = [shelf EXCEPT ![v] = [status |-> "published", parent |-> shelf[v].parent, publishedAt |-> d]]
          /\ f = [effort EXCEPT !.moves = @ + 1] /\ effort.moves < MaxStatusMoves
          /\ shelf[v].status \notin {"absent", "deleted"} /\ announced' = b /\ stock' = stock
      BY <1>16, <2>1, <2>2 DEF PublishVersion, Moves
    <2>4. (d = shelf[v].publishedAt /\ b = announced) \/ (d = effort.moves + 1 /\ b = v) BY <2>1
    <2>5. Moved(shelf, effort, announced, v, "published", d, b, t, f) BY <1>7, <2>3, <2>4 DEF Moved
    <2>6. Shelves(t, f, b) BY <1>1, <2>5, MovedKeeps
    <2> QED BY <1>1, <2>1, <2>3, <2>6
  <1>17. ASSUME NEW v \in ShelfPlaces, RemoveVersion(v) PROVE Shelves(shelf', effort', announced') /\ stock' \in Stocks
    <2>1. PICK t : t = shelf' OBVIOUS
    <2>2. t = [shelf EXCEPT ![v].status = "deleted"] /\ shelf[v].status = "draft"
          /\ UNCHANGED <<stock, effort, announced>>
      BY <1>17, <2>1 DEF RemoveVersion
    <2>3. \A u \in ShelfPlaces : shelf[u].status \notin {"absent", "deleted"} => shelf[u].parent # v
      BY <1>17 DEF RemoveVersion, OnShelf
    <2>4. Shelves(t, effort, announced) BY <1>1, <2>2, <2>3, RemovedKeeps
    <2> QED BY <1>1, <2>1, <2>2, <2>4
  <1>18. CASE UNCHANGED readingsVars BY <1>1, <1>18 DEF readingsVars
  <1> QED BY <1>8, <1>9, <1>10, <1>11, <1>12, <1>13, <1>14, <1>15, <1>16, <1>17, <1>18 DEF ReadingsNext

\* The version a copy was made from is on the shelf as long as the copy is, and the
\* version announced is the one published last.
THEOREM ReadingsCorrect == ReadingsSpec => []ReadingsInv
  <1> QED BY ReadingsInitial, ReadingsSteps, PTL DEF ReadingsSpec

-----------------------------------------------------------------------------
(* Readers *)

\* The numbers of a line over some months, and over the lines of a category.
HeldOver(v, l, M) == SumOf([mm \in M |-> Held(stock[v][l][mm])], M)
LinesOf(k)        == {l \in ReadLines : CategoryOf[l] = k}

\* What months hold, as the sum of Sums.
LEMMA HeldOverIs ==
  ASSUME NEW v, NEW l, NEW M
  PROVE  SumOver(M, LAMBDA mm : Held(stock[v][l][mm])) = HeldOver(v, l, M)
  BY ZenonT(60) DEF SumOver, HeldOver, SumOf, MapThenSumSet, MapThenFoldSet

\* The pack's total, as a sum of sums.
LEMMA PackIs ==
  ASSUME NEW v, NEW k, NEW M
  PROVE  PackOver(v, k, M) = SumOf([l \in LinesOf(k) |-> HeldOver(v, l, M)], LinesOf(k))
  <1>1. PackOver(v, k, M) = SumOver(LinesOf(k), LAMBDA l : SumOver(M, LAMBDA mm : Held(stock[v][l][mm])))
    BY DEF PackOver, LinesOf
  <1>2. @ = SumOf([l \in LinesOf(k) |-> SumOver(M, LAMBDA mm : Held(stock[v][l][mm]))], LinesOf(k))
    BY ZenonT(60) DEF SumOver, SumOf, MapThenSumSet, MapThenFoldSet
  <1> QED BY <1>1, <1>2, HeldOverIs

CaseOf(v, l, mm) == IF stock[v][l][mm].marked THEN TheOne(stock[v][l][mm].over) ELSE stock[v][l][mm].p50
CountedRows(v, l)    == {mm \in Months : ~stock[v][l][mm].marked \/ stock[v][l][mm].over # {}}

\* The sum of a line's counted rows.
LEMMA CaseIs ==
  ASSUME NEW v, NEW l
  PROVE  SumOfCase(v, l) = SumOf([mm \in CountedRows(v, l) |-> CaseOf(v, l, mm)], CountedRows(v, l))
  <1>1. SumOfCase(v, l) = SumOver(CountedRows(v, l), LAMBDA mm : CaseOf(v, l, mm)) BY DEF SumOfCase, CountedRows, CaseOf
  <1>2. PICK T : T = CountedRows(v, l) OBVIOUS
  <1>3. SumOver(T, LAMBDA mm : CaseOf(v, l, mm)) = SumOf([mm \in T |-> CaseOf(v, l, mm)], T)
    BY ZenonT(60) DEF SumOver, SumOf, MapThenSumSet, MapThenFoldSet
  <1> QED BY <1>1, <1>2, <1>3

\* The bridge's total, by lines.
LEMMA BridgeIs ==
  ASSUME NEW v, NEW k
  PROVE  SumOver(LinesOf(k), LAMBDA l : BridgeRow(v, l).forecast) = SumOf([l \in LinesOf(k) |-> SumOfCase(v, l)], LinesOf(k))
  <1>1. SumOver(LinesOf(k), LAMBDA l : BridgeRow(v, l).forecast)
          = SumOf([l \in LinesOf(k) |-> BridgeRow(v, l).forecast], LinesOf(k))
    BY ZenonT(60) DEF SumOver, SumOf, MapThenSumSet, MapThenFoldSet
  <1>2. \A l : BridgeRow(v, l).forecast = SumOfCase(v, l) BY DEF BridgeRow
  <1> QED BY <1>1, <1>2

Exported(v, k) == {e \in ExportRows(v) : CategoryOf[e.line] = k}

\* The export's total, by entries.
LEMMA ExportIs ==
  ASSUME NEW v, NEW k
  PROVE  ExportTotal(v, k) = SumOf([e \in Exported(v, k) |-> e.published], Exported(v, k))
  <1>1. ExportTotal(v, k) = SumOver(Exported(v, k), LAMBDA e : e.published) BY DEF ExportTotal, Exported
  <1>2. SumOver(Exported(v, k), LAMBDA e : e.published) = SumOf([e \in Exported(v, k) |-> e.published], Exported(v, k))
    BY ZenonT(60) DEF SumOver, SumOf, MapThenSumSet, MapThenFoldSet
  <1> QED BY <1>1, <1>2

\* The table's total, by months.
LEMMA TableIs ==
  ASSUME NEW v, NEW l
  PROVE  TableTotal(v, l) = SumOf([mm \in Months |-> stock[v][l][mm].p50], Months)
  BY ZenonT(60) DEF SumOver, SumOf, MapThenSumSet, MapThenFoldSet, TableTotal

\* The summary's total, by lines.
LEMMA SummaryIs ==
  ASSUME NEW v, NEW k
  PROVE  SummaryTotal(v, k) = SumOf([l \in LinesOf(k) |-> stock[v][l][1].p50], LinesOf(k))
  <1>1. SummaryTotal(v, k) = SumOver(LinesOf(k), LAMBDA l : stock[v][l][1].p50) BY DEF SummaryTotal, LinesOf
  <1>2. SumOver(LinesOf(k), LAMBDA l : stock[v][l][1].p50) = SumOf([l \in LinesOf(k) |-> stock[v][l][1].p50], LinesOf(k))
    BY ZenonT(60) DEF SumOver, SumOf, MapThenSumSet, MapThenFoldSet
  <1> QED BY <1>1, <1>2

\* There are finitely many months and lines, so that their sums are sums.
LEMMA FiniteLines ==
  /\ IsFiniteSet(Months) /\ 1 \in Months
  /\ \A k : IsFiniteSet(LinesOf(k)) /\ LinesOf(k) \subseteq ReadLines
  <1>1. LastMonth \in Int /\ 1 \in Int /\ 1 \in Months BY ReadingsAssumption DEF Months
  <1>2. IsFiniteSet(1 .. LastMonth) BY <1>1, FS_Interval
  <1>3. ASSUME NEW k PROVE IsFiniteSet(LinesOf(k)) /\ LinesOf(k) \subseteq ReadLines
    <2>1. PICK S : S = LinesOf(k) OBVIOUS
    <2>2. S \subseteq ReadLines BY <2>1 DEF LinesOf
    <2>3. IsFiniteSet(S) BY <2>2, FS_Subset, ReadingsAssumption
    <2> QED BY <2>1, <2>2, <2>3
  <1> QED BY <1>1, <1>2, <1>3 DEF Months

\* A row holds a number, nothing when it is not counted.
LEMMA HeldNumber ==
  ASSUME ReadingsInv, NEW v \in ShelfPlaces, NEW l \in ReadLines, NEW mm \in Months
  PROVE  /\ Held(stock[v][l][mm]) \in Int /\ stock[v][l][mm].p50 \in Int
         /\ mm \in CountedRows(v, l) => CaseOf(v, l, mm) = Held(stock[v][l][mm])
         /\ mm \notin CountedRows(v, l) => Held(stock[v][l][mm]) = 0
  <1>1. PICK r \in StockRows : r = stock[v][l][mm] BY ReadingsInvIs DEF Stocks
  <1>2. r.p50 \in Int /\ r.marked \in BOOLEAN /\ r.over \in SUBSET Int BY DEF StockRows
  <1>3. r.over # {} => TheOne(r.over) \in Int BY <1>2 DEF TheOne
  <1>4. Held(r) \in Int BY <1>2, <1>3 DEF Held
  <1>5. mm \in CountedRows(v, l) <=> (~r.marked \/ r.over # {}) BY <1>1 DEF CountedRows
  <1>6. CaseOf(v, l, mm) = IF r.marked THEN TheOne(r.over) ELSE r.p50 BY <1>1 DEF CaseOf
  <1> QED BY <1>1, <1>2, <1>4, <1>5, <1>6 DEF Held

\* The bridge's sum of a line is the board pack's.
LEMMA LineAgrees ==
  ASSUME ReadingsInv, NEW v \in ShelfPlaces, NEW l \in ReadLines
  PROVE  HeldOver(v, l, Months) \in Int /\ SumOfCase(v, l) = HeldOver(v, l, Months)
  <1>1. PICK f : f = [mm \in Months |-> Held(stock[v][l][mm])] OBVIOUS
  <1>2. PICK h : h = [mm \in CountedRows(v, l) |-> CaseOf(v, l, mm)] OBVIOUS
  <1>3. PICK T : T = CountedRows(v, l) OBVIOUS
  <1>4. T \in SUBSET Months /\ IsFiniteSet(Months) BY <1>3, FiniteLines DEF CountedRows
  <1>5. (\A mm \in Months : f[mm] \in Int) /\ (\A mm \in T : h[mm] = f[mm]) /\ (\A mm \in Months \ T : f[mm] = 0)
    BY <1>1, <1>2, <1>3, <1>4, HeldNumber
  <1>6. SumOf(f, Months) \in Int BY <1>4, <1>5, SumOfWithout
  <1>7. SumOf(f, Months) = SumOf(f, T) BY <1>4, <1>5, SumSkip
  <1>8. IsFiniteSet(T) BY <1>4, FS_Subset
  <1>9. \A mm \in T : f[mm] \in Int /\ h[mm] = f[mm] BY <1>4, <1>5
  <1>10. SumOf(h, T) = SumOf(f, T) BY <1>8, <1>9, SumSame
  <1>11. SumOfCase(v, l) = SumOf(h, T) BY <1>2, <1>3, CaseIs
  <1> QED BY <1>1, <1>6, <1>7, <1>10, <1>11 DEF HeldOver

\* The pack adds by months what the bridge adds by lines.
LEMMA PackIsBridge ==
  ASSUME ReadingsInv, NEW v \in ShelfPlaces, NEW k
  PROVE  PackTotal(v, k) = SumOver(LinesOf(k), LAMBDA l : BridgeRow(v, l).forecast)
  <1>1. [l \in LinesOf(k) |-> HeldOver(v, l, Months)] = [l \in LinesOf(k) |-> SumOfCase(v, l)]
    BY LineAgrees, FiniteLines
  <1>2. PackTotal(v, k) = SumOf([l \in LinesOf(k) |-> HeldOver(v, l, Months)], LinesOf(k))
    BY PackIs DEF PackTotal
  <1> QED BY <1>1, <1>2, BridgeIs

\* The export has one kept for each line and month.
LEMMA ExportIsPack ==
  ASSUME ReadingsInv, NEW v \in ShelfPlaces, NEW k, NoneHalfMade(v)
  PROVE  ExportTotal(v, k) = PackTotal(v, k)
  <1> DEFINE Out(l, mm) == IF stock[v][l][mm].marked /\ stock[v][l][mm].over # {} THEN TheOne(stock[v][l][mm].over)
                           ELSE stock[v][l][mm].p50
  <1>1. ASSUME NEW l \in ReadLines, NEW mm \in Months PROVE Out(l, mm) = Held(stock[v][l][mm])
    <2>1. PICK r : r = stock[v][l][mm] OBVIOUS
    <2>2. r.marked => r.over # {} BY <2>1 DEF NoneHalfMade, RowsOf
    <2>3. Out(l, mm) = IF r.marked /\ r.over # {} THEN TheOne(r.over) ELSE r.p50 BY <2>1
    <2>4. r.marked \in BOOLEAN BY <2>1, ReadingsInvIs DEF Stocks, StockRows
    <2> QED BY <2>1, <2>2, <2>3, <2>4 DEF Held
  <1>2. PICK L, S : L = LinesOf(k) /\ S = L \X Months OBVIOUS
  <1>3. L \subseteq ReadLines /\ IsFiniteSet(L) /\ IsFiniteSet(Months) BY <1>2, FiniteLines
  <1>4. IsFiniteSet(S) BY <1>2, <1>3, FS_Product
  <1>5. PICK F : F = [p \in S |-> Held(stock[v][p[1]][p[2]])] OBVIOUS
  <1>6. PICK m : m = [p \in S |-> [line |-> p[1], month |-> p[2], published |-> Out(p[1], p[2])]] OBVIOUS
  <1>7. PICK E, h : E = Exported(v, k) /\ h = [e \in Exported(v, k) |-> e.published] OBVIOUS
  <1>8. {m[p] : p \in S} = E
    <2>1. ASSUME NEW p \in S PROVE m[p] \in E
      <3>1. PICK l \in L, mm \in Months : p = <<l, mm>> BY <1>2
      <3>2. m[p] = [line |-> l, month |-> mm, published |-> Out(l, mm)] BY <1>6, <3>1
      <3>3. m[p] \in ExportRows(v) BY <1>3, <3>2 DEF ExportRows
      <3>4. CategoryOf[m[p].line] = k BY <1>2, <3>2 DEF LinesOf
      <3> QED BY <1>7, <3>3, <3>4 DEF Exported
    <2>2. ASSUME NEW e \in E PROVE \E p \in S : m[p] = e
      <3>1. e \in ExportRows(v) /\ CategoryOf[e.line] = k BY <1>7 DEF Exported
      <3>2. PICK l \in ReadLines, mm \in Months : e = [line |-> l, month |-> mm, published |-> Out(l, mm)]
        BY <3>1 DEF ExportRows
      <3>3. l \in L BY <1>2, <3>1, <3>2 DEF LinesOf
      <3>4. <<l, mm>> \in S /\ m[<<l, mm>>] = e BY <1>2, <1>6, <3>2, <3>3
      <3> QED BY <3>4
    <2> QED BY <2>1, <2>2
  <1>9. ASSUME NEW p \in S PROVE F[p] \in Int /\ h[m[p]] = F[p]
    <2>1. PICK l \in L, mm \in Months : p = <<l, mm>> BY <1>2
    <2>2. F[p] = Held(stock[v][l][mm]) BY <1>5, <2>1
    <2>3. m[p] \in Exported(v, k) /\ m[p].published = Out(l, mm)
      <3>1. m[p] \in Exported(v, k) BY <1>7, <1>8
      <3>2. m[p] = [line |-> l, month |-> mm, published |-> Out(l, mm)] BY <1>6, <2>1
      <3> HIDE DEF Out
      <3> QED BY <3>1, <3>2
    <2>4. h[m[p]] = Out(l, mm) BY <1>7, <2>3
    <2>5. l \in ReadLines BY <1>3
    <2> HIDE DEF Out
    <2> QED BY <1>1, <2>2, <2>4, <2>5, HeldNumber
  <1>10. \A p, q \in S : m[p] = m[q] => p = q
    <2> SUFFICES ASSUME NEW p \in S, NEW q \in S, m[p] = m[q] PROVE p = q OBVIOUS
    <2>1. p = <<p[1], p[2]>> /\ q = <<q[1], q[2]>> BY <1>2
    <2>2. m[p].line = p[1] /\ m[p].month = p[2] /\ m[q].line = q[1] /\ m[q].month = q[2]
      <3> HIDE DEF Out
      <3> QED BY <1>6
    <2> QED BY <2>1, <2>2
  <1>11. SumOf(h, E) = SumOf(F, S)
    <2> HIDE DEF Out
    <2> QED BY <1>4, <1>8, <1>9, <1>10, SumAlong
  <1>12. PICK R : R = [l \in L |-> HeldOver(v, l, Months)] OBVIOUS
  <1>13. ASSUME NEW l \in L PROVE R[l] = SumOf([mm \in Months |-> F[<<l, mm>>]], Months)
    <2>1. [mm \in Months |-> F[<<l, mm>>]] = [mm \in Months |-> Held(stock[v][l][mm])] BY <1>2, <1>5
    <2> QED BY <1>12, <2>1 DEF HeldOver
  <1>14. \A l \in L, mm \in Months : F[<<l, mm>>] \in Int BY <1>2, <1>9
  <1>15. SumOf(F, L \X Months) = SumOf(R, L)
    <2>1. PICK M : M = Months OBVIOUS
    <2>2. RowSums(R, F, L, M) BY <1>13, <2>1 DEF RowSums
    <2>3. IsFiniteSet(L) /\ IsFiniteSet(M) /\ \A l \in L, mm \in M : F[<<l, mm>>] \in Int BY <1>3, <1>14, <2>1
    <2>4. SumOf(F, L \X M) = SumOf(R, L) BY ONLY <2>2, <2>3, SumOfSums
    <2> QED BY <2>1, <2>4
  <1>16. ExportTotal(v, k) = SumOf(h, E) BY <1>7, ExportIs
  <1>17. PackTotal(v, k) = SumOf(R, L) BY <1>2, <1>12, PackIs DEF PackTotal
  <1> QED BY <1>2, <1>11, <1>15, <1>16, <1>17

\* Where nothing is overridden, the points are what counts.
LEMMA UntouchedPoints ==
  ASSUME ReadingsInv, NEW v \in ShelfPlaces, Untouched(v), NEW l \in ReadLines, NEW mm \in Months
  PROVE  Held(stock[v][l][mm]) = stock[v][l][mm].p50
  BY DEF Untouched, RowsOf, Held

\* The table agrees with the bridge when nothing was overridden.
LEMMA TableIsBridge ==
  ASSUME ReadingsInv, NEW v \in ShelfPlaces, Untouched(v), NEW l \in ReadLines
  PROVE  TableTotal(v, l) = SumOfCase(v, l) /\ TableTotal(v, l) \in Int
  <1>1. [mm \in Months |-> stock[v][l][mm].p50] = [mm \in Months |-> Held(stock[v][l][mm])] BY UntouchedPoints
  <1>2. TableTotal(v, l) = HeldOver(v, l, Months) BY <1>1, TableIs DEF HeldOver
  <1> QED BY <1>2, LineAgrees

\* The summary agrees with the pack's first month when nothing was overridden.
LEMMA SummaryIsPack ==
  ASSUME ReadingsInv, NEW v \in ShelfPlaces, Untouched(v), NEW k
  PROVE  SummaryTotal(v, k) = PackOver(v, k, {1})
  <1>1. ASSUME NEW l \in LinesOf(k) PROVE HeldOver(v, l, {1}) = stock[v][l][1].p50
    <2>1. l \in ReadLines /\ 1 \in Months BY FiniteLines
    <2>2. PICK f : f = [mm \in {1} |-> Held(stock[v][l][mm])] OBVIOUS
    <2>3. f[1] = Held(stock[v][l][1]) /\ f[1] \in Int BY <2>1, <2>2, HeldNumber
    <2>4. SumOf(f, {1}) = f[1] BY <2>3, SumOne
    <2> QED BY <2>1, <2>2, <2>3, <2>4, UntouchedPoints DEF HeldOver
  <1>2. [l \in LinesOf(k) |-> HeldOver(v, l, {1})] = [l \in LinesOf(k) |-> stock[v][l][1].p50] BY <1>1
  <1> QED BY <1>2, PackIs, SummaryIs

\* The invariant implies that the readers agree on values.
LEMMA ReadersAgreeOnValues == ReadingsInv => ValuesAgree
  <1> SUFFICES ASSUME ReadingsInv, NEW v \in OnShelf
               PROVE  /\ \A k \in Categories :
                            /\ PackTotal(v, k) = SumOver(LinesOf(k), LAMBDA l : BridgeRow(v, l).forecast)
                            /\ NoneHalfMade(v) => ExportTotal(v, k) = PackTotal(v, k)
                            /\ Untouched(v) => SummaryTotal(v, k) = PackOver(v, k, {1})
                      /\ Untouched(v) => \A l \in ReadLines : TableTotal(v, l) = BridgeRow(v, l).forecast
    BY DEF ValuesAgree, LinesOf
  <1>1. v \in ShelfPlaces BY DEF OnShelf
  <1>2. \A l \in ReadLines : BridgeRow(v, l).forecast = SumOfCase(v, l) BY DEF BridgeRow
  <1>3. Untouched(v) => \A l \in ReadLines : TableTotal(v, l) = BridgeRow(v, l).forecast
    BY <1>1, <1>2, TableIsBridge
  <1>4. ASSUME NEW k \in Categories
        PROVE  PackTotal(v, k) = SumOver(LinesOf(k), LAMBDA l : BridgeRow(v, l).forecast)
    BY <1>1, PackIsBridge
  <1>5. ASSUME NEW k \in Categories
        PROVE  /\ NoneHalfMade(v) => ExportTotal(v, k) = PackTotal(v, k)
               /\ Untouched(v) => SummaryTotal(v, k) = PackOver(v, k, {1})
    BY <1>1, ExportIsPack, SummaryIsPack
  <1> QED BY <1>3, <1>4, <1>5

\* A copy measures against the version it was copied from.
LEMMA PriorIsParent ==
  ASSUME ReadingsInv, NEW v \in OnShelf, shelf[v].parent # Unrelated
  PROVE  PriorOf(v) = shelf[v].parent /\ shelf[v].parent \in OnShelf
  BY DEF ReadingsInv, PriorOf

Compared(v, u, l) ==
    LET a == TableTotal(v, l) b == TableTotal(u, l)
    IN  [line |-> l, a |-> a, b |-> b, variance |-> a - b, pct |-> Pct(a, b)]

\* What the panel's and the chat's comparisons contain.
LEMMA ComparisonRows ==
  ASSUME NEW v, NEW u
  PROVE  /\ \A c \in PanelComparison(v, u) : c.line \in ReadLines /\ c = Compared(v, u, c.line)
         /\ \A d \in ChatComparison(v, u) :
               /\ d.line \in ReadLines /\ d.variance = Compared(v, u, d.line).variance
               /\ Compared(v, u, d.line).b # 0 => d = Compared(v, u, d.line)
  <1>1. PanelComparison(v, u) = {Compared(v, u, l) : l \in ReadLines} BY DEF PanelComparison, Compared
  <1>2. \A l : Compared(v, u, l).line = l BY DEF Compared
  <1>3. ASSUME NEW d \in ChatComparison(v, u)
        PROVE  /\ d.line \in ReadLines /\ d.variance = Compared(v, u, d.line).variance
               /\ Compared(v, u, d.line).b # 0 => d = Compared(v, u, d.line)
    <2>1. PICK l \in ReadLines :
            d = LET a == TableTotal(v, l) b == TableTotal(u, l)
                IN  [line |-> l, a |-> a, b |-> b, variance |-> a - b,
                     pct |-> IF b = 0 /\ a # 0 THEN <<1, 1>> ELSE Pct(a, b)]
      BY DEF ChatComparison
    <2>2. PICK a, b : a = TableTotal(v, l) /\ b = TableTotal(u, l) OBVIOUS
    <2>3. PICK q : q = IF b = 0 /\ a # 0 THEN <<1, 1>> ELSE Pct(a, b) OBVIOUS
    <2>4. d = [line |-> l, a |-> a, b |-> b, variance |-> a - b, pct |-> q] BY <2>1, <2>2, <2>3
    <2>5. Compared(v, u, l) = [line |-> l, a |-> a, b |-> b, variance |-> a - b, pct |-> Pct(a, b)]
      BY <2>2 DEF Compared
    <2>6. b # 0 => q = Pct(a, b) BY <2>3
    <2>7. d.line = l BY <2>4
    <2> QED BY <2>4, <2>5, <2>6, <2>7
  <1>4. \A c \in PanelComparison(v, u) : c.line \in ReadLines /\ c = Compared(v, u, c.line) BY <1>1, <1>2
  <1> QED BY <1>3, <1>4

\* The branch comparison is the panel's, without what hardly changed.
LEMMA BranchRows ==
  ASSUME NEW v
  PROVE  BranchComparison(v) = {c \in PanelComparison(v, shelf[v].parent) : 1000 * Magnitude(c.pct[1]) > c.pct[2]}
  BY DEF BranchComparison, PanelComparison

\* The invariant implies that the readers agree on changes.
LEMMA ReadersAgreeOnChanges == ReadingsInv => ComparisonsAgree
  <1> SUFFICES ASSUME ReadingsInv, NEW v \in OnShelf
               PROVE  /\ shelf[v].parent # Unrelated => PriorOf(v) = shelf[v].parent
                      /\ \A u \in OnShelf : \A c \in PanelComparison(v, u), d \in ChatComparison(v, u) :
                            c.line = d.line => c.variance = d.variance /\ (c.b # 0 => c = d)
                      /\ shelf[v].parent # Unrelated =>
                            LET panel == PanelComparison(v, shelf[v].parent)  branch == BranchComparison(v)
                            IN  /\ branch \subseteq panel
                                /\ \A c \in panel :
                                      /\ Untouched(v) /\ Untouched(shelf[v].parent) => BridgeRow(v, c.line).vsPrior = c.variance
                                      /\ c.b # 0 /\ 1000 * Magnitude(c.variance) > Magnitude(c.b) => c \in branch
    BY DEF ComparisonsAgree
  <1>1. shelf[v].parent # Unrelated => PriorOf(v) = shelf[v].parent BY PriorIsParent
  <1>2. ASSUME NEW u \in OnShelf, NEW c \in PanelComparison(v, u), NEW d \in ChatComparison(v, u), c.line = d.line
        PROVE  c.variance = d.variance /\ (c.b # 0 => c = d)
    <2>1. c = Compared(v, u, d.line) BY <1>2, ComparisonRows
    <2> QED BY <2>1, ComparisonRows
  <1>3. ASSUME shelf[v].parent # Unrelated, NEW c \in PanelComparison(v, shelf[v].parent)
        PROVE  /\ Untouched(v) /\ Untouched(shelf[v].parent) => BridgeRow(v, c.line).vsPrior = c.variance
               /\ c.b # 0 /\ 1000 * Magnitude(c.variance) > Magnitude(c.b) => c \in BranchComparison(v)
    <2>1. PICK u \in OnShelf : u = shelf[v].parent /\ PriorOf(v) = u BY <1>3, PriorIsParent
    <2>2. PICK l \in ReadLines : l = c.line /\ c = Compared(v, u, l) BY <2>1, ComparisonRows
    <2>3. v \in ShelfPlaces /\ u \in ShelfPlaces BY DEF OnShelf
    <2>4. PICK a, b : a = TableTotal(v, l) /\ b = TableTotal(u, l) OBVIOUS
    <2>5. c = [line |-> l, a |-> a, b |-> b, variance |-> a - b, pct |-> Pct(a, b)] BY <2>2, <2>4 DEF Compared
    <2>6. ASSUME Untouched(v), Untouched(u) PROVE BridgeRow(v, l).vsPrior = c.variance
      <3>1. a = SumOfCase(v, l) /\ b = SumOfCase(u, l) BY <2>3, <2>4, <2>6, TableIsBridge
      <3>2. u # Unrelated BY <1>3, <2>1
      <3>3. BridgeRow(v, l).vsPrior = SumOfCase(v, l) - SumOfCase(u, l) BY <2>1, <3>2 DEF BridgeRow
      <3> QED BY <2>5, <3>1, <3>3
    <2>7. ASSUME c.b # 0, 1000 * Magnitude(c.variance) > Magnitude(c.b) PROVE c \in BranchComparison(v)
      <3>1. b # 0 /\ c.variance = a - b /\ c.b = b /\ c.pct = Pct(a, b) BY <2>5, <2>7
      <3>2. c.pct = <<a - b, Magnitude(b)>> BY <3>1 DEF Pct
      <3>3. 1000 * Magnitude(c.pct[1]) > c.pct[2] BY <2>7, <3>1, <3>2
      <3> QED BY <1>3, <3>3, BranchRows
    <2> QED BY <2>1, <2>2, <2>6, <2>7
  <1>4. BranchComparison(v) \subseteq PanelComparison(v, shelf[v].parent) BY BranchRows
  <1> QED BY <1>1, <1>2, <1>3, <1>4

\* The version published last is the one with the latest date.
LEMMA LandingFound == ReadingsInv => LandingIsLast
  <1> SUFFICES ASSUME ReadingsInv, announced \in ShelfPlaces, shelf[announced].status = "published"
               PROVE  ExecutiveLanding = announced
    BY DEF LandingIsLast
  <1> DEFINE out   == {v \in ShelfPlaces : shelf[v].status = "published"}
             dated == {v \in out : shelf[v].publishedAt # 0}
             last  == CHOOSE v \in dated : \A u \in dated : shelf[u].publishedAt <= shelf[v].publishedAt
  <1>1. /\ shelf[announced].publishedAt # 0
        /\ \A u \in ShelfPlaces \ {announced} : shelf[u].publishedAt < shelf[announced].publishedAt
    BY DEF ReadingsInv
  <1>2. \A u \in ShelfPlaces : shelf[u].publishedAt \in Int BY DEF ReadingsInv, ReadingsTypeOK
  <1>3. announced \in dated BY <1>1
  <1>4. \A u \in dated : shelf[u].publishedAt <= shelf[announced].publishedAt BY <1>1, <1>2
  <1>5. last \in dated /\ \A u \in dated : shelf[u].publishedAt <= shelf[last].publishedAt BY <1>3, <1>4
  <1>6. last = announced
    <2> HIDE DEF last
    <2> QED BY <1>1, <1>2, <1>3, <1>5
  <1>7. ExecutiveLanding = last BY <1>3 DEF ExecutiveLanding
  <1> QED BY <1>6, <1>7

\* Everyone who reads a version reads the same numbers, for any number of
\* versions, lines and months.
THEOREM ReadersAgreeAlways == ReadingsSpec => []ReadersAgree
  <1>1. ReadingsInv => ReadersAgree
    BY ReadersAgreeOnValues, ReadersAgreeOnChanges, LandingFound DEF ReadersAgree
  <1> QED BY <1>1, ReadingsCorrect, PTL

-----------------------------------------------------------------------------
(***************************************************************************)
(* Periods and dates.  Years and months follow one another without gaps,   *)
(* and so do the twelve periods of a fiscal year, whose next begins 364    *)
(* or 371 days on; numbering all the periods of all years in one sequence  *)
(* (Numbered) makes AddPeriods addition, PeriodToDate increasing, and      *)
(* DateToPeriod the last period that has begun.                            *)
(***************************************************************************)

\* The next year begins 365 days on, or 366 after a leap year.
LEMMA DaysStep ==
  ASSUME NEW y \in Int
  PROVE  Days(y) \in Int /\ Days(y + 1) = Days(y) + 365 + IF y % 4 = 0 THEN 1 ELSE 0
  <1>1. (y - 1996) \div 4 = (y - 1997) \div 4 + IF y % 4 = 0 THEN 1 ELSE 0 OBVIOUS
  <1>2. y + 1 - 1997 = y - 1996 /\ (y - 1997) \div 4 \in Int OBVIOUS
  <1>3. Days(y + 1) = 365 * (y + 1 - 2000) + (y - 1996) \div 4 BY <1>2 DEF Days
  <1> QED BY <1>1, <1>2, <1>3 DEF Days

\* The months of a year follow one another, and a month begins at least 365
\* days before it does next year.
LEMMA MonthsStep ==
  ASSUME NEW y \in Int
  PROVE  /\ \A m \in 1 .. 12 : FirstOf(y, m) \in Int /\ Days(y) <= FirstOf(y, m) /\ FirstOf(y, m) <= Days(y) + 335
         /\ FirstOf(y, 1) = Days(y)
         /\ \A m \in 1 .. 11 : FirstOf(y, m) < FirstOf(y, m + 1)
         /\ \A m \in 1 .. 12 : FirstOf(y, m) + 365 <= FirstOf(y + 1, m)
  <1>1. /\ Days(y) \in Int /\ Days(y + 1) = Days(y) + 365 + IF y % 4 = 0 THEN 1 ELSE 0
        /\ y + 1 \in Int
    BY DaysStep
  <1>2. /\ Before(y, 1) = 0
        /\ \A m \in 1 .. 11 : Before(y, m) < Before(y, m + 1)
        /\ \A m \in 1 .. 12 : Before(y, m) \in 0 .. 335
    BY DEF Before
  <1>3. ASSUME NEW m \in 1 .. 12 PROVE FirstOf(y, m) + 365 <= FirstOf(y + 1, m)
    <2>1. PICK b : b = <<0, 31, 59, 90, 120, 151, 181, 212, 243, 273, 304, 334>>[m] OBVIOUS
    <2>2. b \in Int BY <2>1
    <2>3. \A x : Before(x, m) = b + IF m > 2 /\ x % 4 = 0 THEN 1 ELSE 0 BY <2>1 DEF Before
    <2>4. PICK x \in Int : x = y + 1 OBVIOUS
    <2>5. PICK e, g : (e = IF m > 2 /\ y % 4 = 0 THEN 1 ELSE 0) /\ (g = IF m > 2 /\ x % 4 = 0 THEN 1 ELSE 0) OBVIOUS
    <2>6. FirstOf(y, m) = Days(y) + (b + e) /\ FirstOf(x, m) = Days(x) + (b + g) BY <2>3, <2>5 DEF FirstOf
    <2>7. e \in {0, 1} /\ g \in {0, 1} /\ (e = 1 => y % 4 = 0) BY <2>5
    <2>8. Days(y) \in Int /\ Days(x) \in Int /\ Days(x) >= Days(y) + 365 + e BY <1>1, <2>4, <2>7
    <2> QED BY <2>2, <2>4, <2>6, <2>7, <2>8
  <1>4. ASSUME NEW m \in 1 .. 11 PROVE FirstOf(y, m) < FirstOf(y, m + 1)
    <2>1. m \in 1 .. 12 /\ m + 1 \in 1 .. 12 OBVIOUS
    <2>2. Before(y, m) < Before(y, m + 1) /\ Before(y, m) \in 0 .. 335 /\ Before(y, m + 1) \in 0 .. 335
      BY <1>2, <2>1, Zenon
    <2>3. PICK a, b : a = Before(y, m) /\ b = Before(y, m + 1) OBVIOUS
    <2>4. a \in Int /\ b \in Int /\ a < b BY <2>2, <2>3
    <2>5. FirstOf(y, m) = Days(y) + a /\ FirstOf(y, m + 1) = Days(y) + b BY <2>3 DEF FirstOf
    <2> QED BY <1>1, <2>4, <2>5
  <1>5. FirstOf(y, 1) = Days(y) BY <1>1, <1>2 DEF FirstOf
  <1>6. ASSUME NEW m \in 1 .. 12
        PROVE  FirstOf(y, m) \in Int /\ Days(y) <= FirstOf(y, m) /\ FirstOf(y, m) <= Days(y) + 335
    <2>1. Before(y, m) \in 0 .. 335 BY <1>2, Zenon
    <2> QED BY <1>1, <2>1 DEF FirstOf
  <1> QED BY <1>3, <1>4, <1>5, <1>6

\* A year has 365 or 366 days.
LEMMA YearsStep ==
  ASSUME NEW y \in Int
  PROVE  /\ Days(y) \in Int /\ Days(y) + 365 <= Days(y + 1) /\ Days(y + 1) <= Days(y) + 366
  <1>1. Days(y) \in Int /\ Days(y + 1) = Days(y) + 365 + IF y % 4 = 0 THEN 1 ELSE 0 BY DaysStep
  <1> QED BY <1>1

YearRange   == 2001 .. 2097
DayRange    == 0 .. 365
Askable(d)  == \E y \in YearRange, i \in DayRange : d = Days(y) + i

\* A day lies in the year it is labelled with.
LEMMA YearOfDay ==
  ASSUME NEW d, Askable(d)
  PROVE  /\ YearOf(d) \in 2000 .. 2099 /\ d \in Int
         /\ Days(YearOf(d)) <= d /\ d < Days(YearOf(d) + 1)
  <1>a. PICK y \in YearRange, i \in DayRange : d = Days(y) + i BY DEF Askable
  <1>0. y \in 2001 .. 2097 /\ i \in 0 .. 365 /\ d = Days(y) + i BY <1>a DEF YearRange, DayRange
  <1>1. /\ Days(y) \in Int /\ Days(y) + 365 <= Days(y + 1) /\ Days(y + 1) <= Days(y) + 366 /\ y \in Int
    <2>1. y \in Int BY <1>0
    <2> QED BY <2>1, YearsStep
  <1>2. Days(y + 1) \in Int /\ Days(y + 1) + 365 <= Days(y + 1 + 1)
    <2>1. y + 1 \in Int BY <1>1
    <2> QED BY <2>1, YearsStep
  <1>3. \E x \in 2000 .. 2099 : Days(x) <= d /\ d < Days(x + 1)
    <2>1. CASE d < Days(y + 1)
      <3>1. y \in 2000 .. 2099 /\ Days(y) <= d BY <1>0, <1>1
      <3> QED BY <2>1, <3>1
    <2>2. CASE d >= Days(y + 1)
      <3>1. PICK x : x = y + 1 OBVIOUS
      <3>2. x \in 2000 .. 2099 /\ Days(x) <= d BY <1>0, <2>2, <3>1
      <3>3. Days(x) \in Int /\ Days(x) + 365 <= Days(x + 1) /\ Days(y) + 365 <= Days(x) BY <1>1, <1>2, <3>1
      <3>4. PICK z : z = Days(x + 1) OBVIOUS
      <3>5. z \in Int
        <4>1. x + 1 \in Int BY <1>1, <3>1
        <4> QED BY <3>4, <4>1, YearsStep
      <3>6. d < z BY <1>0, <1>1, <3>3, <3>4, <3>5
      <3> QED BY <3>2, <3>4, <3>6
    <2>3. d \in Int BY <1>0, <1>1
    <2> QED BY <1>2, <2>1, <2>2, <2>3
  <1> QED BY <1>0, <1>1, <1>3 DEF YearOf

\* A day lies in the month it is labelled with.
LEMMA MonthOfDay ==
  ASSUME NEW d, Askable(d)
  PROVE  /\ MonthOf(d) \in 1 .. 12
         /\ FirstOf(YearOf(d), MonthOf(d)) <= d
         /\ MonthOf(d) < 12 => d < FirstOf(YearOf(d), MonthOf(d) + 1)
  <1>1. PICK x : x = YearOf(d) OBVIOUS
  <1>2. x \in Int /\ d \in Int /\ Days(x) <= d
    <2>1. x \in 2000 .. 2099 /\ d \in Int /\ Days(x) <= d BY <1>1, YearOfDay
    <2> QED BY <2>1
  <1>3. PICK f : f = [m \in 1 .. 12 |-> FirstOf(x, m)] OBVIOUS
  <1>4. \A m \in 1 .. 12 : f[m] \in Int BY <1>2, <1>3, MonthsStep
  <1>5. f[1] <= d BY <1>2, <1>3, MonthsStep
  <1>6. \E m \in 1 .. 12 : f[m] <= d /\ (m < 12 => d < f[m + 1])
    <2>1. PICK D : D = {k \in 0 .. 11 : f[12 - k] <= d} OBVIOUS
    <2>2. D \in SUBSET Nat /\ 11 \in D BY <1>5, <2>1
    <2>3. PICK k \in D : \A h \in D : k <= h BY <2>2, LeastExists
    <2>4. PICK m \in 1 .. 12 : m = 12 - k BY <2>1
    <2>5. f[m] <= d /\ (m < 12 => d < f[m + 1])
      <3>1. f[m] <= d BY <2>1, <2>4
      <3>2. ASSUME m < 12 PROVE d < f[m + 1]
        <4>1. k - 1 \in 0 .. 11 /\ 12 - (k - 1) = m + 1 /\ m + 1 \in 1 .. 12 BY <2>1, <2>4, <3>2
        <4>2. k - 1 \notin D BY <2>1, <2>3
        <4> QED BY <1>2, <1>4, <2>1, <4>1, <4>2
      <3> QED BY <3>1, <3>2
    <2> QED BY <2>5
  <1>7. \E m \in 1 .. 12 : FirstOf(x, m) <= d /\ (m < 12 => d < FirstOf(x, m + 1))
    <2>1. PICK m \in 1 .. 12 : f[m] <= d /\ (m < 12 => d < f[m + 1]) BY <1>6
    <2>2. m < 12 => m + 1 \in 1 .. 12 OBVIOUS
    <2> QED BY <1>3, <2>1, <2>2
  <1> QED BY <1>1, <1>7 DEF MonthOf

-----------------------------------------------------------------------------
(* Fiscal years *)

ConfigSet == [type : {"gregorian_month", "fiscal_445"}, month : 1 .. 12, weekday : 0 .. 6]

\* A fiscal year begins with or after its calendar year, and at least 359 days
\* before the next one.
LEMMA FiscalStarts ==
  ASSUME NEW y \in Int, NEW c \in ConfigSet, c.type # "gregorian_month"
  PROVE  /\ FiscalYearStart(y, c) \in Int
         /\ Days(y) <= FiscalYearStart(y, c) /\ FiscalYearStart(y, c) <= Days(y) + 341
         /\ FiscalYearStart(y, c) + 359 <= FiscalYearStart(y + 1, c)
  <1>1. c.month \in 1 .. 12 /\ c.weekday \in 0 .. 6 BY DEF ConfigSet
  <1>2. \A x \in Int : /\ FirstOf(x, c.month) \in Int /\ Days(x) \in Int
                       /\ Days(x) <= FirstOf(x, c.month) /\ FirstOf(x, c.month) <= Days(x) + 335
                       /\ FirstOf(x, c.month) + 365 <= FirstOf(x + 1, c.month)
    <2> SUFFICES ASSUME NEW x \in Int
                 PROVE  /\ FirstOf(x, c.month) \in Int /\ Days(x) \in Int
                        /\ Days(x) <= FirstOf(x, c.month) /\ FirstOf(x, c.month) <= Days(x) + 335
                        /\ FirstOf(x, c.month) + 365 <= FirstOf(x + 1, c.month)
      OBVIOUS
    <2>1. Days(x) \in Int BY YearsStep
    <2>2. /\ \A m \in 1 .. 12 : FirstOf(x, m) \in Int /\ Days(x) <= FirstOf(x, m) /\ FirstOf(x, m) <= Days(x) + 335
          /\ \A m \in 1 .. 12 : FirstOf(x, m) + 365 <= FirstOf(x + 1, m)
      BY MonthsStep
    <2> QED BY ZenonT(60), <1>1, <2>1, <2>2
  <1>3. \A f \in Int : (c.weekday - Weekday(f)) % 7 \in 0 .. 6 BY <1>1 DEF Weekday
  <1>4. \A x \in Int : \E k \in 0 .. 6 : FiscalYearStart(x, c) = FirstOf(x, c.month) + k
    BY <1>2, <1>3 DEF FiscalYearStart
  <1>5. y + 1 \in Int OBVIOUS
  <1>6. PICK k \in 0 .. 6 : FiscalYearStart(y, c) = FirstOf(y, c.month) + k BY <1>4
  <1>7. PICK h \in 0 .. 6 : FiscalYearStart(y + 1, c) = FirstOf(y + 1, c.month) + h BY <1>4, <1>5
  <1>8. /\ FirstOf(y, c.month) \in Int /\ Days(y) \in Int /\ FirstOf(y + 1, c.month) \in Int
        /\ Days(y) <= FirstOf(y, c.month) /\ FirstOf(y, c.month) <= Days(y) + 335
        /\ FirstOf(y, c.month) + 365 <= FirstOf(y + 1, c.month)
    BY <1>2, <1>5
  <1> QED BY <1>6, <1>7, <1>8

\* The weeks before each period, and the periods' order.
LEMMA PeriodsInOrder ==
  ASSUME NEW y \in Int, NEW c \in ConfigSet, c.type # "gregorian_month"
  PROVE  /\ \A p \in 1 .. 12 : PeriodStarts(y, c)[p] \in Int
         /\ PeriodStarts(y, c)[1] = FiscalYearStart(y, c)
         /\ \A p \in 1 .. 11 : PeriodStarts(y, c)[p] < PeriodStarts(y, c)[p + 1]
         /\ PeriodStarts(y, c)[12] < FiscalYearStart(y + 1, c)
  <1>1. PICK s \in Int : s = FiscalYearStart(y, c) BY FiscalStarts
  <1>2. s + 359 <= FiscalYearStart(y + 1, c) BY <1>1, FiscalStarts
  <1>3. PICK w : w = [p \in 1 .. 12 |-> 13 * ((p - 1) \div 3) + 4 * ((p - 1) % 3)] OBVIOUS
  <1>4. /\ w[1] = 0 /\ w[2] = 4 /\ w[3] = 8 /\ w[4] = 13 /\ w[5] = 17 /\ w[6] = 21 /\ w[7] = 26 /\ w[8] = 30
        /\ w[9] = 34 /\ w[10] = 39 /\ w[11] = 43 /\ w[12] = 47
    BY <1>3
  <1>5. \A p \in 1 .. 12 : PeriodStarts(y, c)[p] = s + 7 * w[p]
    <2>1. PeriodStarts(y, c) = [p \in 1 .. 12 |-> s + 7 * (13 * ((p - 1) \div 3) + 4 * ((p - 1) % 3))]
      BY <1>1 DEF PeriodStarts
    <2> QED BY <1>3, <2>1
  <1>6. FiscalYearStart(y + 1, c) \in Int
    <2>1. y + 1 \in Int OBVIOUS
    <2> QED BY <2>1, FiscalStarts
  <1> QED BY <1>1, <1>2, <1>4, <1>5, <1>6

\* A day lies in the fiscal year it is labelled with.
LEMMA FiscalYearOfDay ==
  ASSUME NEW d, Askable(d),
         NEW c \in ConfigSet, c.type # "gregorian_month"
  PROVE  /\ FiscalYear(d, c) \in Int /\ d \in Int
         /\ FiscalYearStart(FiscalYear(d, c), c) <= d /\ d < FiscalYearStart(FiscalYear(d, c) + 1, c)
  <1>1. PICK x : x = YearOf(d) OBVIOUS
  <1>2. x \in 2000 .. 2099 /\ x \in Int /\ d \in Int /\ Days(x) <= d /\ d < Days(x + 1)
    <2>1. x \in 2000 .. 2099 /\ d \in Int /\ Days(x) <= d /\ d < Days(x + 1) BY <1>1, YearOfDay
    <2> QED BY <2>1
  <1>3. \A z \in Int : /\ FiscalYearStart(z, c) \in Int /\ Days(z) \in Int
                       /\ Days(z) <= FiscalYearStart(z, c) /\ FiscalYearStart(z, c) <= Days(z) + 341
                       /\ Days(z) + 365 <= Days(z + 1)
    BY FiscalStarts, YearsStep
  <1>4. x + 1 \in Int /\ x - 1 \in Int /\ x - 1 + 1 = x BY <1>2
  <1>5. CASE d >= FiscalYearStart(x, c)
    <2>1. FiscalYear(d, c) = x BY <1>1, <1>5 DEF FiscalYear
    <2> QED BY <1>2, <1>3, <1>4, <1>5, <2>1
  <1>6. CASE d < FiscalYearStart(x, c)
    <2>1. FiscalYear(d, c) = x - 1 BY <1>1, <1>2, <1>3, <1>6 DEF FiscalYear
    <2> QED BY <1>2, <1>3, <1>4, <1>6, <2>1
  <1> QED BY <1>2, <1>3, <1>5, <1>6

-----------------------------------------------------------------------------
(* Periods *)

Labels == [y : Int, p : 1 .. 12]

\* A period and the next one, in either calendar.
LEMMA NextPeriod ==
  ASSUME NEW y \in Int, NEW p \in 1 .. 12
  PROVE  AddPeriods(<<y, p>>, 1) = IF p < 12 THEN <<y, p + 1>> ELSE <<y + 1, 1>>
  <1>1. PICK i \in Int : i = 12 * y + p BY Z3
  <1>2. i \div 12 = (IF p < 12 THEN y ELSE y + 1) /\ i % 12 = (IF p < 12 THEN p ELSE 0) BY <1>1
  <1>3. 12 * y + (p - 1) + 1 = i BY <1>1
  <1>4. AddPeriods(<<y, p>>, 1) = <<i \div 12, 1 + (i % 12)>> BY <1>3 DEF AddPeriods
  <1> QED BY <1>2, <1>4

\* The period number i counts from year 0 on.
Numbered(i) == <<i \div 12, 1 + (i % 12)>>

\* Adding periods adds to their number.
LEMMA NumberedPeriods ==
  ASSUME NEW y \in Int, NEW p \in 1 .. 12, NEW n \in Int
  PROVE  /\ AddPeriods(<<y, p>>, n) = Numbered(12 * y + (p - 1) + n)
         /\ <<y, p>> = Numbered(12 * y + (p - 1))
  <1>1. PICK i \in Int : i = 12 * y + (p - 1) BY Z3
  <1>2. i \div 12 = y /\ i % 12 = p - 1 BY <1>1
  <1> QED BY <1>1, <1>2 DEF AddPeriods, Numbered

\* A period begins before the next one.
LEMMA NumberedSteps ==
  ASSUME NEW i \in Int, NEW c \in ConfigSet
  PROVE  /\ PeriodToDate(Numbered(i), c) \in Int
         /\ PeriodToDate(Numbered(i), c) < PeriodToDate(Numbered(i + 1), c)
  <1>1. PICK y, p : y = i \div 12 /\ p = 1 + (i % 12) OBVIOUS
  <1>2. y \in Int /\ p \in 1 .. 12 BY <1>1
  <1>3. i % 12 = i - 12 * (i \div 12) OBVIOUS
  <1>4. i = 12 * y + (p - 1) BY <1>1, <1>2, <1>3
  <1>5. Numbered(i) = <<y, p>> BY <1>1 DEF Numbered
  <1>6. Numbered(i + 1) = IF p < 12 THEN <<y, p + 1>> ELSE <<y + 1, 1>>
    <2>1. Numbered(i + 1) = AddPeriods(<<y, p>>, 1)
      <3>1. PICK n \in Int : n = 1 OBVIOUS
      <3>2. AddPeriods(<<y, p>>, n) = Numbered(12 * y + (p - 1) + n) BY <1>2, NumberedPeriods
      <3> QED BY <1>4, <3>1, <3>2
    <2> QED BY <1>2, <2>1, NextPeriod
  <1>7. CASE c.type = "gregorian_month"
    <2>1. \A q : PeriodToDate(q, c) = FirstOf(q[1], q[2]) BY <1>7 DEF PeriodToDate
    <2>2. FirstOf(y, p) \in Int /\ (p < 12 => FirstOf(y, p) < FirstOf(y, p + 1)) /\ FirstOf(y, p) <= Days(y) + 335
      <3>1. \A m \in 1 .. 11 : FirstOf(y, m) < FirstOf(y, m + 1) BY <1>2, MonthsStep
      <3>2. \A m \in 1 .. 12 : FirstOf(y, m) \in Int /\ FirstOf(y, m) <= Days(y) + 335 BY ZenonT(60), <1>2, MonthsStep
      <3>3. p < 12 => p \in 1 .. 11 BY <1>2
      <3> QED BY <1>2, <3>1, <3>2, <3>3
    <2>3. y + 1 \in Int /\ FirstOf(y + 1, 1) = Days(y + 1) /\ Days(y) \in Int /\ Days(y) + 365 <= Days(y + 1)
      <3>1. y + 1 \in Int BY <1>2
      <3> QED BY <1>2, <3>1, MonthsStep, YearsStep
    <2>4. Days(y + 1) \in Int BY <2>3, YearsStep
    <2>5. FirstOf(y, p) < FirstOf(y + 1, 1) BY <2>2, <2>3, <2>4
    <2>6. CASE p < 12
      <3>1. PeriodToDate(Numbered(i), c) = FirstOf(y, p) /\ PeriodToDate(Numbered(i + 1), c) = FirstOf(y, p + 1)
        BY <1>5, <1>6, <2>1, <2>6
      <3> QED BY <2>2, <2>6, <3>1
    <2>7. CASE ~ (p < 12)
      <3>1. PeriodToDate(Numbered(i), c) = FirstOf(y, p) /\ PeriodToDate(Numbered(i + 1), c) = FirstOf(y + 1, 1)
        BY <1>5, <1>6, <2>1, <2>7
      <3> QED BY <2>2, <2>5, <3>1
    <2> QED BY <2>6, <2>7
  <1>8. CASE c.type # "gregorian_month"
    <2>1. \A q : PeriodToDate(q, c) = PeriodStarts(q[1], c)[q[2]] BY <1>8 DEF PeriodToDate
    <2>2. PeriodStarts(y, c)[p] \in Int /\ (p < 12 => PeriodStarts(y, c)[p] < PeriodStarts(y, c)[p + 1])
      BY <1>2, <1>8, PeriodsInOrder
    <2>3. PeriodStarts(y + 1, c)[1] = FiscalYearStart(y + 1, c) /\ PeriodStarts(y, c)[12] < FiscalYearStart(y + 1, c)
      <3>1. y + 1 \in Int BY <1>2
      <3> QED BY <1>2, <1>8, <3>1, PeriodsInOrder
    <2>4. CASE p < 12
      <3>1. /\ PeriodToDate(Numbered(i), c) = PeriodStarts(y, c)[p]
            /\ PeriodToDate(Numbered(i + 1), c) = PeriodStarts(y, c)[p + 1]
        BY <1>5, <1>6, <2>1, <2>4
      <3> QED BY <2>2, <2>4, <3>1
    <2>5. CASE ~ (p < 12)
      <3>1. p = 12 BY <1>2, <2>5
      <3>2. /\ PeriodToDate(Numbered(i), c) = PeriodStarts(y, c)[12]
            /\ PeriodToDate(Numbered(i + 1), c) = PeriodStarts(y + 1, c)[1]
        BY <1>5, <1>6, <2>1, <3>1
      <3> QED BY <2>2, <2>3, <3>1, <3>2
    <2> QED BY <2>4, <2>5
  <1> QED BY <1>7, <1>8

\* Later periods begin later, however many lie between.
LEMMA NumberedInOrder ==
  ASSUME NEW i \in Int, NEW c \in ConfigSet, NEW n \in Nat, n > 0
  PROVE  PeriodToDate(Numbered(i), c) < PeriodToDate(Numbered(i + n), c)
  <1>1. PICK f : f = [k \in Nat |-> PeriodToDate(Numbered(i + k), c)] OBVIOUS
  <1>2. ASSUME NEW k \in Nat PROVE f[k] \in Int /\ f[k] < f[k + 1]
    <2>1. PICK j \in Int : j = i + k OBVIOUS
    <2>2. j + 1 = i + (k + 1) /\ k + 1 \in Nat BY <2>1
    <2>3. f[k] = PeriodToDate(Numbered(j), c) /\ f[k + 1] = PeriodToDate(Numbered(j + 1), c) BY <1>1, <2>1, <2>2
    <2> QED BY <2>3, NumberedSteps
  <1>3. SUFFICES ASSUME ~ (f[0] < f[n]) PROVE FALSE BY <1>1
  <1>4. PICK D : D = {k \in Nat : k > 0 /\ ~ (f[0] < f[k])} OBVIOUS
  <1>5. D \in SUBSET Nat /\ D # {} BY <1>3, <1>4
  <1>6. PICK m \in D : \A k \in D : m <= k BY <1>5, LeastExists
  <1>7. PICK k \in Nat : k = m - 1 BY <1>4
  <1>8. k + 1 = m /\ ~ (m <= k) BY <1>4, <1>7
  <1>9. k = 0 \/ f[0] < f[k] BY <1>4, <1>6, <1>8
  <1>10. f[0] \in Int /\ f[k] \in Int /\ f[m] \in Int /\ f[k] < f[m] BY <1>2, <1>4, <1>8
  <1>11. f[0] < f[m] BY <1>9, <1>10
  <1> QED BY <1>4, <1>11

-----------------------------------------------------------------------------
(* The labels *)

\* What date_to_period answers: the number of the period the day lies in.
LEMMA LabelOfDay ==
  ASSUME NEW d, Askable(d), NEW c \in ConfigSet
  PROVE  \E i \in Int : /\ DateToPeriod(d, c) = Numbered(i) /\ AddPeriods(Numbered(i), 1) = Numbered(i + 1)
                        /\ \A n \in Int : AddPeriods(Numbered(i), n) = Numbered(i + n)
                        /\ PeriodToDate(Numbered(i), c) <= d /\ d < PeriodToDate(Numbered(i + 1), c)
  <1>1. ASSUME NEW y \in Int, NEW p \in 1 .. 12, DateToPeriod(d, c) = <<y, p>>,
               PeriodToDate(<<y, p>>, c) <= d,
               p < 12 => d < PeriodToDate(<<y, p + 1>>, c), p = 12 => d < PeriodToDate(<<y + 1, 1>>, c)
        PROVE  \E i \in Int : /\ DateToPeriod(d, c) = Numbered(i) /\ AddPeriods(Numbered(i), 1) = Numbered(i + 1)
                              /\ \A n \in Int : AddPeriods(Numbered(i), n) = Numbered(i + n)
                              /\ PeriodToDate(Numbered(i), c) <= d /\ d < PeriodToDate(Numbered(i + 1), c)
    <2>1. PICK i \in Int : i = 12 * y + (p - 1) BY Z3
    <2>2. Numbered(i) = <<y, p>> BY <2>1, NumberedPeriods
    <2>3. ASSUME NEW n \in Int PROVE AddPeriods(Numbered(i), n) = Numbered(i + n)
      <3>1. AddPeriods(<<y, p>>, n) = Numbered(12 * y + (p - 1) + n) BY NumberedPeriods
      <3> QED BY <2>1, <2>2, <3>1
    <2>4. PICK e \in Int : e = 1 OBVIOUS
    <2>5. AddPeriods(Numbered(i), 1) = Numbered(i + 1) BY <2>3, <2>4
    <2>6. Numbered(i + 1) = IF p < 12 THEN <<y, p + 1>> ELSE <<y + 1, 1>> BY <2>2, <2>5, NextPeriod
    <2>7. d < PeriodToDate(Numbered(i + 1), c)
      <3>1. CASE p < 12 BY <1>1, <2>6, <3>1
      <3>2. CASE ~ (p < 12)
        <4>1. p = 12 BY <3>2
        <4> QED BY <1>1, <2>6, <4>1
      <3> QED BY <3>1, <3>2
    <2> QED BY <1>1, <2>2, <2>3, <2>5, <2>7
  <1>2. CASE c.type = "gregorian_month"
    <2>1. PICK y, p : y = YearOf(d) /\ p = MonthOf(d) OBVIOUS
    <2>2. y \in 2000 .. 2099 /\ d \in Int /\ d < Days(y + 1) BY <2>1, YearOfDay
    <2>3. p \in 1 .. 12 /\ FirstOf(y, p) <= d /\ (p < 12 => d < FirstOf(y, p + 1)) BY <2>1, MonthOfDay
    <2>4. y \in Int /\ y + 1 \in Int BY <2>2
    <2>5. FirstOf(y + 1, 1) = Days(y + 1) BY <2>4, MonthsStep
    <2>6. DateToPeriod(d, c) = <<y, p>> BY <1>2, <2>1 DEF DateToPeriod
    <2>7. \A a, b : PeriodToDate(<<a, b>>, c) = FirstOf(a, b) BY <1>2 DEF PeriodToDate
    <2>8. /\ PeriodToDate(<<y, p>>, c) <= d
          /\ p < 12 => d < PeriodToDate(<<y, p + 1>>, c)
          /\ p = 12 => d < PeriodToDate(<<y + 1, 1>>, c)
      BY <2>2, <2>3, <2>5, <2>7
    <2> QED BY <1>1, <2>3, <2>4, <2>6, <2>8
  <1>3. CASE c.type # "gregorian_month"
    <2>1. PICK y : y = FiscalYear(d, c) OBVIOUS
    <2>2. y \in Int /\ d \in Int /\ FiscalYearStart(y, c) <= d /\ d < FiscalYearStart(y + 1, c)
      BY <1>3, <2>1, FiscalYearOfDay
    <2>3. y + 1 \in Int BY <2>2
    <2>4. PICK s : s = PeriodStarts(y, c) OBVIOUS
    <2>5. PICK e : e = FiscalYearStart(y + 1, c) OBVIOUS
    <2>6. /\ \A p \in 1 .. 12 : s[p] \in Int
          /\ s[1] = FiscalYearStart(y, c) /\ s[12] < e /\ e \in Int
          /\ \A p \in 1 .. 11 : s[p] < s[p + 1]
      BY <1>3, <2>2, <2>3, <2>4, <2>5, PeriodsInOrder, FiscalStarts
    <2>7. PICK t : t = s \o <<e>> OBVIOUS
    <2>8. /\ \A p \in 1 .. 12 : t[p] = s[p] /\ t[13] = e
      <3>1. s \in Seq(Int) /\ Len(s) = 12 BY <2>4, <2>6 DEF PeriodStarts
      <3>2. <<e>> \in Seq(Int) /\ Len(<<e>>) = 1 /\ <<e>>[1] = e BY <2>6
      <3>0. PICK w : w = <<e>> OBVIOUS
      <3>6. \A p \in 1 .. Len(s) + Len(w) : (s \o w)[p] = IF p <= Len(s) THEN s[p] ELSE w[p - Len(s)]
        BY ONLY <3>0, <3>1, <3>2, ConcatProperties
      <3>3. t = s \o w /\ Len(w) = 1 /\ w[1] = e BY <2>7, <3>0, <3>2
      <3>4. t[13] = e
        <4>1. 13 \in 1 .. Len(s) + Len(w) /\ ~ (13 <= Len(s)) /\ 13 - Len(s) = 1 BY ONLY <3>1, <3>3
        <4> QED BY ONLY <3>3, <3>6, <4>1
      <3>5. ASSUME NEW p \in 1 .. 12 PROVE t[p] = s[p]
        <4>1. p \in 1 .. Len(s) + Len(w) /\ p <= Len(s) BY ONLY p \in 1 .. 12, <3>1, <3>3
        <4> QED BY ONLY <3>3, <3>6, <4>1
      <3> QED BY <3>4, <3>5
    <2>9. PICK within : within = {p \in 1 .. 12 : t[p] <= d /\ d < t[p + 1]} OBVIOUS
    <2>10. within # {}
      <3>1. PICK D : D = {k \in 0 .. 11 : t[12 - k] <= d} OBVIOUS
      <3>2. D \in SUBSET Nat /\ 11 \in D BY <2>2, <2>6, <2>8, <3>1
      <3>3. PICK k \in D : \A h \in D : k <= h BY <3>2, LeastExists
      <3>4. PICK p \in 1 .. 12 : p = 12 - k BY <3>1
      <3>5. t[p] <= d BY <3>1, <3>4
      <3>6. d < t[p + 1]
        <4>1. CASE p = 12 BY <2>2, <2>5, <2>8, <4>1
        <4>2. CASE p < 12
          <5>1. k - 1 \in 0 .. 11 /\ 12 - (k - 1) = p + 1 /\ p + 1 \in 1 .. 12 BY <3>1, <3>4, <4>2
          <5>2. k - 1 \notin D BY <3>1, <3>3
          <5>3. t[p + 1] \in Int BY <2>6, <2>8, <5>1
          <5>4. PICK h : h = k - 1 OBVIOUS
          <5>5. ~ (t[12 - h] <= d) BY <3>1, <5>1, <5>2, <5>4
          <5>6. ~ (t[p + 1] <= d) BY <5>1, <5>4, <5>5
          <5> QED BY <2>2, <5>3, <5>6
        <4> QED BY <4>1, <4>2
      <3> QED BY <2>9, <3>5, <3>6
    <2>11. PICK p : p = CHOOSE x \in within : TRUE OBVIOUS
    <2>12. p \in 1 .. 12 /\ t[p] <= d /\ d < t[p + 1] BY <2>9, <2>10, <2>11
    <2>13. DateToPeriod(d, c) = <<y, p>>
      BY <1>3, <2>1, <2>4, <2>5, <2>7, <2>9, <2>10, <2>11 DEF DateToPeriod
    <2>14. \A a, b : PeriodToDate(<<a, b>>, c) = PeriodStarts(a, c)[b] BY <1>3 DEF PeriodToDate
    <2>15. PeriodStarts(y + 1, c)[1] = e BY <1>3, <2>3, <2>5, PeriodsInOrder
    <2>16. /\ PeriodToDate(<<y, p>>, c) <= d
           /\ p < 12 => d < PeriodToDate(<<y, p + 1>>, c)
           /\ p = 12 => d < PeriodToDate(<<y + 1, 1>>, c)
      <3>1. p < 12 => p + 1 \in 1 .. 12 BY <2>12
      <3> QED BY <2>4, <2>8, <2>12, <2>14, <2>15, <3>1
    <2> QED BY <1>1, <2>2, <2>12, <2>13, <2>16
  <1> QED BY <1>2, <1>3

-----------------------------------------------------------------------------
(* Horizons *)

\* Periods with different numbers are different.
LEMMA NumbersDiffer ==
  ASSUME NEW i \in Int, NEW j \in Int
  PROVE  Numbered(i) = Numbered(j) => i = j
  <1>1. i % 12 = i - 12 * (i \div 12) /\ j % 12 = j - 12 * (j \div 12) OBVIOUS
  <1>2. PICK a, b, e, f : a = i \div 12 /\ b = i % 12 /\ e = j \div 12 /\ f = j % 12 OBVIOUS
  <1>3. a \in Int /\ b \in Int /\ e \in Int /\ f \in Int BY <1>2
  <1>4. Numbered(i) = <<a, 1 + b>> /\ Numbered(j) = <<e, 1 + f>> BY <1>2 DEF Numbered
  <1>5. Numbered(i) = Numbered(j) => a = e /\ b = f BY <1>3, <1>4
  <1> QED BY <1>1, <1>2, <1>3, <1>5

\* A period further ahead is another one and begins later.
LEMMA StepsAhead ==
  ASSUME NEW i \in Int, NEW c \in ConfigSet, NEW k \in Nat, NEW h \in Nat, k < h
  PROVE  /\ Numbered(i + k) # Numbered(i + h)
         /\ PeriodToDate(Numbered(i + k), c) < PeriodToDate(Numbered(i + h), c)
         /\ PeriodToDate(Numbered(i + k), c) \in Int /\ PeriodToDate(Numbered(i + h), c) \in Int
  <1>1. PICK j \in Int : j = i + k OBVIOUS
  <1>2. PICK m \in Nat : m = h - k
    <2>1. h - k \in Nat OBVIOUS
    <2> QED BY <2>1
  <1>3. i + h = j + m /\ m > 0 BY <1>1, <1>2
  <1>4. PeriodToDate(Numbered(j), c) < PeriodToDate(Numbered(j + m), c) BY <1>1, <1>2, <1>3, NumberedInOrder
  <1>5. j + m \in Int /\ j # j + m BY <1>1, <1>2, <1>3
  <1>6. Numbered(j) # Numbered(j + m) BY <1>1, <1>5, NumbersDiffer
  <1>7. PeriodToDate(Numbered(j), c) \in Int /\ PeriodToDate(Numbered(j + m), c) \in Int BY <1>1, <1>5, NumberedSteps
  <1> QED BY <1>1, <1>3, <1>4, <1>6, <1>7

\* The offset of the n-th period ahead is n.
LEMMA OffsetCounts ==
  ASSUME NEW i \in Int, NEW c \in ConfigSet, NEW n \in 1 .. MaxSteps,
         \A m \in Int : AddPeriods(Numbered(i), m) = Numbered(i + m)
  PROVE  HorizonOffset(Numbered(i), Numbered(i + n), c) = n
  <1>1. n \in Nat /\ n > 0 BY DEF MaxSteps
  <1>2. CASE c.type = "gregorian_month"
    <2>1. PICK j \in Int : j = i + n OBVIOUS
    <2>2. i % 12 = i - 12 * (i \div 12) OBVIOUS
    <2>3. j % 12 = j - 12 * (j \div 12) BY <2>1
    <2>4. PICK a \in Int, b \in Int : a = i \div 12 /\ b = i % 12 OBVIOUS
    <2>5. PICK e \in Int, f \in Int : e = j \div 12 /\ f = j % 12 BY <2>1
    <2>6. Numbered(i) = <<a, 1 + b>> BY <2>4 DEF Numbered
    <2>7. Numbered(i + n) = <<e, 1 + f>> BY <2>1, <2>5 DEF Numbered
    <2>8. HorizonOffset(<<a, 1 + b>>, <<e, 1 + f>>, c) = 12 * (e - a) + ((1 + f) - (1 + b))
      BY <1>2 DEF HorizonOffset
    <2>9. 12 * (e - a) + ((1 + f) - (1 + b)) = n BY <1>1, <2>1, <2>2, <2>3, <2>4, <2>5
    <2> QED BY <2>6, <2>7, <2>8, <2>9
  <1>3. CASE c.type # "gregorian_month"
    <2>1. PICK p, q : p = Numbered(i) /\ q = Numbered(i + n) OBVIOUS
    <2> DEFINE Met(m)    == AddPeriods(p, m) = q \/ PeriodToDate(AddPeriods(p, m), c) > PeriodToDate(q, c)
               Before2(m) == \A k \in 1 .. m - 1 : /\ AddPeriods(p, k) # q
                                                   /\ PeriodToDate(AddPeriods(p, k), c) <= PeriodToDate(q, c)
    <2>2. p # q
      <3>1. i + 0 = i /\ 0 \in Nat OBVIOUS
      <3>2. Numbered(i + 0) # Numbered(i + n) BY <1>1, <3>1, StepsAhead
      <3> QED BY <2>1, <3>1, <3>2
    <2>3. HorizonOffset(p, q, c) = CHOOSE m \in 1 .. MaxSteps : Met(m) /\ Before2(m)
      BY <1>3, <2>2 DEF HorizonOffset
    <2>4. ASSUME NEW m \in Nat PROVE AddPeriods(p, m) = Numbered(i + m)
      <3>1. m \in Int OBVIOUS
      <3> QED BY <2>1, <3>1
    <2>5. Met(n) BY <1>1, <2>1, <2>4
    <2>6. ASSUME NEW k \in Nat, k < n
          PROVE  ~ Met(k) /\ AddPeriods(p, k) # q /\ PeriodToDate(AddPeriods(p, k), c) <= PeriodToDate(q, c)
      <3>1. AddPeriods(p, k) = Numbered(i + k) BY <2>4
      <3>2. PICK r : r = Numbered(i + k) OBVIOUS
      <3>3. PICK x, y : x = PeriodToDate(r, c) /\ y = PeriodToDate(q, c) OBVIOUS
      <3>4. r # q /\ x < y /\ x \in Int /\ y \in Int
        <4>1. /\ Numbered(i + k) # Numbered(i + n)
              /\ PeriodToDate(Numbered(i + k), c) < PeriodToDate(Numbered(i + n), c)
              /\ PeriodToDate(Numbered(i + k), c) \in Int /\ PeriodToDate(Numbered(i + n), c) \in Int
          BY <1>1, <2>6, StepsAhead
        <4> QED BY <2>1, <3>2, <3>3, <4>1
      <3>5. x <= y /\ ~ (x > y) BY <3>4
      <3> QED BY <3>1, <3>2, <3>3, <3>4, <3>5
    <2>7. Before2(n)
      <3> SUFFICES ASSUME NEW k \in 1 .. n - 1
                   PROVE  AddPeriods(p, k) # q /\ PeriodToDate(AddPeriods(p, k), c) <= PeriodToDate(q, c)
        OBVIOUS
      <3>1. k \in Nat /\ k < n BY <1>1
      <3> QED BY <2>6, <3>1
    <2>8. ASSUME NEW m \in 1 .. MaxSteps, Met(m), Before2(m) PROVE m = n
      <3>1. m \in Nat BY DEF MaxSteps
      <3>2. ~ (m < n) BY <2>6, <2>8, <3>1
      <3>3. ~ (n < m)
        <4> SUFFICES ASSUME n < m PROVE FALSE OBVIOUS
        <4>1. n \in 1 .. m - 1 BY <1>1, <3>1
        <4>2. AddPeriods(p, n) # q BY <2>8, <4>1
        <4> QED BY <1>1, <2>1, <2>4, <4>2
      <3> QED BY <1>1, <3>1, <3>2, <3>3
    <2> HIDE DEF Met, Before2
    <2>9. (CHOOSE m \in 1 .. MaxSteps : Met(m) /\ Before2(m)) = n BY <2>5, <2>7, <2>8
    <2> QED BY <2>1, <2>3, <2>9
  <1> QED BY <1>2, <1>3

-----------------------------------------------------------------------------
(* The questions *)

\* Every question is about a day of the years asked about, and no more than
\* the steps the loop allows.
CalendarInv ==
    /\ CalendarTypeOK
    /\ Askable(calendar.day)
    /\ calendar.steps <= MaxSteps

\* The invariant implies that every day lies in its period and every offset
\* counts.
LEMMA CalendarInvHolds ==
  ASSUME CalendarInv
  PROVE  DayHasPeriod
  <1>1. PICK c, d, n : c = calendar.config /\ d = calendar.day /\ n = calendar.steps OBVIOUS
  <1>2. c \in ConfigSet /\ Askable(d) /\ n \in Int /\ n <= MaxSteps
    BY <1>1, CalendarAssumption DEF CalendarInv, CalendarTypeOK, ConfigSet
  <1>3. PICK i \in Int : /\ DateToPeriod(d, c) = Numbered(i) /\ AddPeriods(Numbered(i), 1) = Numbered(i + 1)
                         /\ \A m \in Int : AddPeriods(Numbered(i), m) = Numbered(i + m)
                         /\ PeriodToDate(Numbered(i), c) <= d /\ d < PeriodToDate(Numbered(i + 1), c)
    BY <1>2, LabelOfDay
  <1>4. PICK q : q = Numbered(i) OBVIOUS
  <1>5. DateToPeriod(d, c) = q /\ PeriodToDate(q, c) <= d /\ d < PeriodToDate(AddPeriods(q, 1), c) BY <1>3, <1>4
  <1>6. ASSUME n > 0, NEW m \in 1 .. n
        PROVE  HorizonOffset(q, HorizonPeriods(q, n)[m], c) = m
    <2>1. m \in 1 .. MaxSteps /\ m \in Int BY <1>2 DEF MaxSteps
    <2>2. HorizonPeriods(q, n)[m] = AddPeriods(q, m) BY <1>6 DEF HorizonPeriods
    <2>3. AddPeriods(q, m) = Numbered(i + m) BY <1>3, <1>4, <2>1
    <2>4. HorizonOffset(Numbered(i), Numbered(i + m), c) = m BY <1>2, <1>3, <2>1, OffsetCounts
    <2> QED BY <1>4, <2>2, <2>3, <2>4
  <1> QED BY <1>1, <1>5, <1>6 DEF DayHasPeriod

\* Every question the calendar is asked is one it can answer: about a day of the
\* years asked about, and no more steps than horizon_offset counts.
THEOREM CalendarCorrect == CalendarSpec => []CalendarInv
  <1>1. CalendarInit => CalendarInv
    <2> SUFFICES ASSUME CalendarInit PROVE CalendarInv OBVIOUS
    <2>1. PICK c \in Configs : calendar = [config |-> c, day |-> Days(2001), steps |-> 0] BY DEF CalendarInit
    <2>2. Days(2001) = 366 BY DEF Days
    <2>3. CalendarTypeOK BY <2>1, <2>2 DEF CalendarTypeOK
    <2>4. Askable(calendar.day)
      <3>1. 2001 \in YearRange /\ 0 \in DayRange BY DEF YearRange, DayRange
      <3>2. Days(2001) = Days(2001) + 0 BY <2>2
      <3> QED BY <2>1, <3>1, <3>2 DEF Askable
    <2> QED BY <2>1, <2>3, <2>4 DEF CalendarInv, MaxSteps
  <1>2. CalendarInv /\ [CalendarNext]_calendarVars => CalendarInv'
    <2> SUFFICES ASSUME CalendarInv, [CalendarNext]_calendarVars PROVE CalendarInv' OBVIOUS
    <2>1. CASE UNCHANGED calendarVars
      BY <2>1 DEF calendarVars, CalendarInv, CalendarTypeOK, Askable
    <2>2. ASSUME NEW y \in Years, NEW i \in DaysAsked, NEW n \in StepsAsked, AskCalendar(y, i, n)
          PROVE  CalendarInv'
      <3>1. y \in YearRange /\ i \in DayRange /\ n \in Int /\ n <= MaxSteps
        BY CalendarAssumption DEF YearRange, DayRange
      <3>2. Days(y) \in Nat /\ Days(y) + i \in Nat
        <4>1. y \in Int /\ 2001 <= y /\ i \in Nat BY <3>1 DEF YearRange, DayRange
        <4>2. (y - 1997) \div 4 >= 1 /\ (y - 1997) \div 4 \in Int BY <4>1
        <4> QED BY <4>1, <4>2 DEF Days
      <3>3. PICK d \in Nat : d = Days(y) + i BY <3>2
      <3>4. calendar' = [calendar EXCEPT !.day = d, !.steps = n] BY <2>2, <3>3 DEF AskCalendar
      <3>5. calendar \in [config : Configs, day : Nat, steps : StepsAsked \cup {0}]
        BY DEF CalendarInv, CalendarTypeOK
      <3>6. calendar' \in [config : Configs, day : Nat, steps : StepsAsked \cup {0}]
            /\ calendar'.day = d /\ calendar'.steps = n
        BY <3>3, <3>4, <3>5
      <3>7. Askable(d) BY <3>1, <3>3 DEF Askable
      <3> QED BY <3>1, <3>6, <3>7 DEF CalendarInv, CalendarTypeOK, Askable
    <2> QED BY <2>1, <2>2 DEF CalendarNext
  <1> QED BY <1>1, <1>2, PTL DEF CalendarSpec

\* Every day lies in the period its label names, in either calendar and whatever
\* weekday and month the fiscal year begins on, and the offset of a horizon's n-th
\* period from its base is n, also across a year's end.
THEOREM DayHasPeriodAlways == CalendarSpec => []DayHasPeriod
  <1>1. CalendarInv => DayHasPeriod BY CalendarInvHolds
  <1> QED BY <1>1, CalendarCorrect, PTL
=============================================================================
