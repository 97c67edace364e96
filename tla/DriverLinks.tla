---------------------------- MODULE DriverLinks ----------------------------
(***************************************************************************)
(* The links of causal drivers to lines, and the discovery runs.           *)
(*                                                                         *)
(* A run retires the candidates that earlier runs left on its line and     *)
(* leaves its own; people assert links in any status and promote them.     *)
(* A handler runs without interruption.  Statistics decide which drivers   *)
(* survive a run: here any may.  Coefficients, sign priors and audit rows  *)
(* are left out.                                                           *)
(***************************************************************************)
EXTENDS Integers, Sequences, FiniteSets

CONSTANTS
    Series,         \* drivers
    DrivenLines,
    MaxLinks,       \* bound: links that may exist
    MaxRuns         \* bound: discovery runs

ASSUME DriverLinksAssumption == IsFiniteSet(Series) /\ MaxLinks \in Nat /\ MaxRuns \in Nat

VARIABLES
    links,     \* driver_links, by id
    runs       \* discovery runs: line and status

linksVars == <<links, runs>>

LinkStatuses == {"candidate", "active", "rejected", "superseded"}

LinkRows == [driver : Series, line : DrivenLines, status : LinkStatuses,
             run : 0 .. MaxRuns, promoted : BOOLEAN]   \* run 0: asserted by a person

LinksTypeOK ==
    /\ links \in Seq(LinkRows) /\ Len(links) <= MaxLinks
    /\ runs \in Seq([line : DrivenLines, status : {"completed", "insufficient_data"}])

LinksInit == links = <<>> /\ runs = <<>>

NewLink(d, l, status, run) ==
    [driver |-> d, line |-> l, status |-> status, run |-> run, promoted |-> FALSE]

\* assert_link: the API takes any status, the skill writes candidates.
AssertLink(d, l, status) ==
    /\ Len(links) < MaxLinks
    /\ links' = Append(links, NewLink(d, l, status, 0))
    /\ UNCHANGED runs

\* promote_link; an active link is left as it is, a superseded one refused.
PromoteLink(i) ==
    /\ i \in DOMAIN links /\ links[i].status \in {"candidate", "rejected"}
    /\ links' = [links EXCEPT ![i].status = "active", ![i].promoted = TRUE]
    /\ UNCHANGED runs

\* Too short a line, or nothing testable: the run is kept, the links are not touched.
DiscoverInsufficient(l) ==
    /\ Len(runs) < MaxRuns
    /\ runs' = Append(runs, [line |-> l, status |-> "insufficient_data"])
    /\ UNCHANGED links

\* Mutant: candidates of every line are retired.
StaleAnyLine(k, l, run) == k.status = "candidate" /\ k.run # 0 /\ k.run # run

Stale(k, l, run) == k.line = l /\ k.status = "candidate" /\ k.run # 0 /\ k.run # run

Retired(l, run) ==
    [i \in DOMAIN links |-> IF Stale(links[i], l, run) THEN [links[i] EXCEPT !.status = "superseded"] ELSE links[i]]

Rankings(survivors) ==
    {ranked \in [1 .. Cardinality(survivors) -> survivors] :
        \A i, j \in 1 .. Cardinality(survivors) : ranked[i] = ranked[j] => i = j}

\* discover_drivers_for_line with the drivers that pass every gate, best first.
Discover(l, survivors) ==
    LET run == Len(runs) + 1
    IN  /\ run <= MaxRuns /\ Len(links) + Cardinality(survivors) <= MaxLinks
        /\ runs' = Append(runs, [line |-> l, status |-> "completed"])
        /\ \E ranked \in Rankings(survivors) :
              links' = Retired(l, run) \o [i \in 1 .. Cardinality(survivors) |-> NewLink(ranked[i], l, "candidate", run)]

LinksNext ==
    \/ \E d \in Series, l \in DrivenLines, status \in LinkStatuses : AssertLink(d, l, status)
    \/ \E i \in 1 .. MaxLinks : PromoteLink(i)
    \/ \E l \in DrivenLines : DiscoverInsufficient(l)
    \/ \E l \in DrivenLines, survivors \in SUBSET Series : Discover(l, survivors)

LinksSpec == LinksInit /\ [][LinksNext]_linksVars

-----------------------------------------------------------------------------
(* Properties *)

\* Of the runs made, those of a link's line that came after its own and found something.
LaterRuns(made, k) == {r \in DOMAIN made : r > k.run /\ made[r].line = k.line /\ made[r].status = "completed"}

\* What discovery has left on a line is settled by its last completed run and
\* by people: a link someone promoted is active for good, the candidates are
\* the survivors of that run, all others are superseded; runs of other lines
\* and runs that found too little data change nothing (_supersede_prior_candidates).
CandidatesOfLastRun ==
    \A i \in DOMAIN links : links[i].run # 0 =>
        links[i].status = IF links[i].promoted THEN "active"
                          ELSE IF LaterRuns(runs, links[i]) = {} THEN "candidate"
                          ELSE "superseded"
=============================================================================
