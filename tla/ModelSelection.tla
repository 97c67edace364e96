--------------------------- MODULE ModelSelection ---------------------------
(***************************************************************************)
(* Which model forecasts a line: the pool a preset or the caller leaves,   *)
(* the two-stage screening under a wall-clock budget, the one-standard-    *)
(* error band around the best score, and the Occam choice within it.       *)
(*                                                                         *)
(* Fold scores are small integers, most recent fold first; Failed stands   *)
(* for infinity.  The score of a model is a fraction, and comparisons with *)
(* a standard error are made on squares, so that nothing is rounded.  The  *)
(* rule is MAPE or MASE: one list of folds stands for either.  Ranks       *)
(* differ, so pinball never decides.  Unscorable folds, alike for all      *)
(* models of a series, and panel folds are left out.                       *)
(***************************************************************************)
EXTENDS Integers, Sequences, FiniteSets, SequencesExt, FiniteSetsExt

CONSTANTS
    Models,        \* the models, in the order they are registered, and listed
    Benchmarks,    \* is_benchmark
    Expensive,     \* cost class moderate or expensive
    RankOf,        \* complexity_rank
    Rosters,       \* model sets a company, or the settings, may have enabled
    Failed,        \* infinity
    FoldScores,    \* bound: the fold lists a model may have on a series
    Budgets        \* bound: how many models the wall-clock budget lets through

ASSUME SelectionAssumption ==
    /\ Models \in Seq(ToSet(Models)) /\ IsInjective(Models)
    /\ RankOf \in [ToSet(Models) -> Nat] /\ IsInjective(RankOf)
    /\ Failed \in Nat /\ Budgets \subseteq Nat
    /\ \A s \in FoldScores : s \in Seq(0 .. Failed) /\ s # <<>>

VARIABLES
    series,     \* the line compared last: folds of each model, what admits expensive
                \* models, the budget
    asked       \* the run resolved last: candidates, the path, the rosters

selectionVars == <<series, asked>>

AllModels == ToSet(Models)

-----------------------------------------------------------------------------
(* The pool *)

\* What generate_baseline keeps of a preset's candidates.
CompanyPool(left, roster) == left \cap roster

Everything == [models |-> {}, fails |-> FALSE]    \* models_to_test is None
Refused    == [models |-> {}, fails |-> TRUE]
Only(S)    == [models |-> S, fails |-> FALSE]

\* resolve_preset against a roster; an emptied list is no list.
ResolvePreset(candidates, roster) ==
    IF candidates \cap roster = {} THEN Everything ELSE Only(candidates \cap roster)

\* Chat resolves against every model and then drops what the company has not
\* enabled; the REST panel resolves against the roster of the settings and hands
\* the list over as an explicit one, which must be enabled as it stands.
Pool(r) ==
    LET known == ResolvePreset(r.candidates, IF r.path = "chat" THEN AllModels ELSE r.settings)
        left  == CompanyPool(known.models, r.company)
    IN  IF r.candidates = {} \/ known = Everything THEN Everything
        ELSE IF r.path = "chat" THEN IF left = {} THEN Refused ELSE Only(left)
        ELSE IF known.models \subseteq r.company THEN known ELSE Refused

-----------------------------------------------------------------------------
(* The screening of compare_models *)

\* recency_weighted_mean as a fraction.
Total(folds) ==
    LET weighted(i) == (Len(folds) + 1 - i) * folds[i] IN MapThenSumSet(weighted, DOMAIN folds)
Weight(folds) == (Len(folds) * (Len(folds) + 1)) \div 2
Scored(folds) == Failed \notin ToSet(folds)

Less(f, g)    == Total(f) * Weight(g) < Total(g) * Weight(f)

\* _admit_expensive; MASE above one, in twentieths.
Admitted(s, cheap) ==
    LET scored == {m \in cheap : Scored(s.folds[m])} IN
    \/ s.worth
    \/ scored # {} /\ \A m \in scored : Total(s.folds[m]) > 20 * Weight(s.folds[m])

\* When a model's turn comes: without a list, the expensive ones wait for the others.
Turn(pool) ==
    [m \in AllModels |->
        LET at == CHOOSE i \in DOMAIN Models : Models[i] = m IN
        IF pool = {} /\ m \in Expensive THEN Len(Models) + at ELSE at]

InBudget(S, n, turn) == {m \in S : Cardinality({k \in S : turn[k] < turn[m]}) < n}

\* The models evaluated before the budget is exhausted: without a list the cheap ones first,
\* then the others if they are admitted.
Evaluated(s, pool, roster) ==
    LET candidates == AllModels \cap IF pool = {} THEN roster ELSE pool
        stage1     == IF pool = {} THEN candidates \ Expensive ELSE candidates
        first      == InBudget(stage1, s.budget, Turn(pool))
    IN  IF Admitted(s, first) THEN InBudget(candidates, s.budget, Turn(pool)) ELSE first

-----------------------------------------------------------------------------
(* The choice of _pick_best *)

\* Of two models with the same score, the one tested earlier comes first.
Ahead(s, m, n, turn) ==
    \/ Less(s.folds[m], s.folds[n])
    \/ ~Less(s.folds[n], s.folds[m]) /\ turn[m] < turn[n]

Best(s, tested, turn) == CHOOSE m \in tested : \A n \in tested \ {m} : Ahead(s, m, n, turn)

\* Mutant: the band pools the fold scores of all the models.
BandPooled(s, m, b, tested) ==
    LET size(x)  == Len(s.folds[x])
        sum(x)   == LET fold(i) == s.folds[x][i] IN MapThenSumSet(fold, DOMAIN s.folds[x])
        power(x) == LET square(i) == s.folds[x][i] * s.folds[x][i] IN MapThenSumSet(square, DOMAIN s.folds[x])
        k   == MapThenSumSet(size, tested)
        all == MapThenSumSet(sum, tested)
        gap == Total(s.folds[m]) * Weight(s.folds[b]) - Total(s.folds[b]) * Weight(s.folds[m])
        by  == Weight(s.folds[m]) * Weight(s.folds[b])
        spread == k * MapThenSumSet(power, tested) - all * all
    IN  k >= 2 /\ gap * gap * k * k * (k - 1) <= spread * by * by

\* _paired_band: model m scores within a standard error of the fold differences,
\* or, with at most three folds in common, within 5 % of the best score.
Band(s, m, b, tested) ==
    LET f == s.folds[m]
        g == s.folds[b]
        k == Min({Len(f), Len(g)})
        differs(i) == f[i] - g[i]
        squared(i) == differs(i) * differs(i)
        all    == MapThenSumSet(differs, 1..k)
        gap    == Total(f) * Weight(g) - Total(g) * Weight(f)
        by     == Weight(f) * Weight(g)
        spread == k * MapThenSumSet(squared, 1..k) - all * all
    IN  \/ k >= 2 /\ gap * gap * k * k * (k - 1) <= spread * by * by
        \/ k <= 3 /\ 20 * gap <= Total(g) * Weight(f)

\* _within_band_candidates
Within(s, tested, turn) ==
    LET scored == {m \in tested : Scored(s.folds[m])}
        best   == Best(s, scored, turn)
    IN  {m \in scored : m = best \/ Band(s, m, best, scored)}

Simpler(m, n) ==
    \/ m \notin Benchmarks /\ n \in Benchmarks
    \/ (m \in Benchmarks <=> n \in Benchmarks) /\ RankOf[m] < RankOf[n]

Simplest(S) == {m \in S : \A n \in S \ {m} : Simpler(m, n)}

\* _pick_best; no model at all is {}.
Pick(s, tested, turn) == Simplest(Within(s, tested, turn))

\* blend_partner: the runner-up within the band.
Partner(s, tested, turn) == Simplest(Within(s, tested, turn) \ Pick(s, tested, turn))

-----------------------------------------------------------------------------
(* One line of one run *)

\* worth: the line is material, or volatile.
SeriesSet == [folds : [AllModels -> FoldScores], worth : BOOLEAN, budget : Budgets]

Runs == [candidates : SUBSET AllModels, path : {"chat", "panel"}, settings : Rosters, company : Rosters]

SelectionInit ==
    /\ series = [folds |-> [m \in AllModels |-> <<Failed>>], worth |-> FALSE, budget |-> 0]
    /\ asked = [candidates |-> {}, path |-> "chat", settings |-> AllModels, company |-> AllModels]

CompareModels(s) == series' = s /\ UNCHANGED asked
ResolveRun(r)    == asked' = r /\ UNCHANGED series

\* One of the two, so that the instances add up instead of multiplying.
SelectionNext ==
    /\ SelectionInit
    /\ \/ \E s \in SeriesSet : CompareModels(s)
       \/ \E r \in Runs : ResolveRun(r)

-----------------------------------------------------------------------------
SelectionSpec == SelectionInit /\ [][SelectionNext]_selectionVars

-----------------------------------------------------------------------------
(* Properties *)

\* The choice depends on the best model and on itself, on nothing else: leaving
\* out other models, for the budget, the screening or a preset, or evaluating
\* them in the reverse order, changes neither it nor the runner-up if that is tested
\* too; exact ties for the best score excepted (_paired_band).
ChoiceStands ==
    LET pool   == Pool(asked).models
        turn   == Turn(pool)
        tested == Evaluated(series, pool, asked.company)
        scored == {m \in tested : Scored(series.folds[m])}
        best   == Best(series, scored, turn)
        tied   == \E m \in scored \ {best} : ~Less(series.folds[best], series.folds[m])
        kept   == {best} \cup Pick(series, tested, turn) \cup Partner(series, tested, turn)
    IN  scored # {} /\ ~tied =>
            \A some \in SUBSET tested, o \in {turn, [m \in AllModels |-> -turn[m]]} :
                kept \subseteq some =>
                    /\ Pick(series, some, o) = Pick(series, tested, turn)
                    /\ Partner(series, some, o) = Partner(series, tested, turn)

\* A list of candidates restricts the run to those of them the company has
\* enabled, or stops it; only a list of which the roster it is first resolved
\* against knows nothing is dropped, and then every model is tested.
CandidatesRespected ==
    LET pool == Pool(asked)
    IN  asked.candidates # {} /\ ~pool.fails =>
            \/ pool.models # {} /\ pool.models \subseteq asked.candidates \cap asked.company
            \/ pool = Everything /\ asked.path = "panel" /\ asked.candidates \cap asked.settings = {}

\* What a contest of models owes: the choice its scores give, among the models
\* that were asked for (get_model, resolve_preset).
ContestStands == ChoiceStands /\ CandidatesRespected
=============================================================================
