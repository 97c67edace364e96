---------------------------- MODULE Heuristics ----------------------------
(***************************************************************************)
(* The learned heuristics: reflection passes propose them, reviewers       *)
(* promote or reject them, the forecast reads the active ones.             *)
(*                                                                         *)
(* A slice is a line with a kind, a model and a horizon bucket.  A pass    *)
(* for a company stamps its rows with that company; a pass over all of     *)
(* them stamps none.  It runs in the worker: reviewers decide between the  *)
(* time it matches what it found with the rows and the time it commits.    *)
(* Slices are matched one by one, so that one load may stand for all.      *)
(* A decision is one short transaction and taken as one step.              *)
(*                                                                         *)
(* What the statistics find on a slice is any direction or nothing.  The   *)
(* size of the effect, the evidence and the texts are left out.            *)
(***************************************************************************)
EXTENDS Integers, Sequences, FiniteSets, FiniteSetsExt, SequencesExt

CONSTANTS
    Slices,
    Units,          \* companies
    UnitOf,         \* UnitOf[s]: the company of the line of slice s
    NoUnit,
    Passes,         \* passes that may run at a time
    MaxRules,       \* bound: rows
    MaxDecisions    \* bound: promotions and rejections

ASSUME HeuristicsAssumption ==
    /\ IsFiniteSet(Slices) /\ UnitOf \in [Slices -> Units] /\ NoUnit \notin Units
    /\ MaxRules \in Nat /\ MaxDecisions \in Nat

VARIABLES
    rules,      \* learned_heuristics, by id
    passing,    \* passing[p]: what pass p matched, if it is under way
    decisions   \* the audit rows of promotions and rejections

heuristicsVars == <<rules, passing, decisions>>

Stamps     == Units \cup {NoUnit}
Directions == {"over", "under"}
Found      == [Slices -> Directions \cup {"nothing"}]
NotPassing == [stamp |-> NoUnit, refresh |-> <<>>, create |-> <<>>, running |-> FALSE]

HeuristicsTypeOK ==
    /\ rules \in Seq([slice : Slices, stamp : Stamps, direction : Directions,
                      status : {"candidate", "active", "rejected", "superseded"}])
    /\ Len(rules) <= MaxRules /\ Len(decisions) <= MaxDecisions
    /\ \A p \in Passes : passing[p].running \in BOOLEAN /\ passing[p].stamp \in Stamps

HeuristicsInit == rules = <<>> /\ decisions = <<>> /\ passing = [p \in Passes |-> NotPassing]

Signature(i) == <<rules[i].slice, rules[i].stamp>>

\* Mutant: the direction is not compared.
SameCaseAnySign(i, s, stamp, direction) == Signature(i) = <<s, stamp>>

\* _find_existing
SameCase(i, s, stamp, direction) == Signature(i) = <<s, stamp>> /\ rules[i].direction = direction

Matched(s, stamp, direction, status) ==
    {i \in DOMAIN rules : SameCase(i, s, stamp, direction) /\ rules[i].status = status}

\* run_reflection_pass up to its commit: what is active is skipped, an open
\* candidate is refreshed, anything else is new.
PassLoad(p, stamp, found) ==
    LET covered  == {s \in Slices : found[s] # "nothing" /\ stamp \in {UnitOf[s], NoUnit}}
        inactive == {s \in covered : Matched(s, stamp, found[s], "active") = {}}
        open(s)  == Matched(s, stamp, found[s], "candidate")
    IN  /\ ~passing[p].running
        /\ passing' = [passing EXCEPT ![p] =
              [stamp   |-> stamp, running |-> TRUE,
               refresh |-> [i \in {Min(open(s)) : s \in {t \in inactive : open(t) # {}}} |-> found[rules[i].slice]],
               create  |-> [s \in {t \in inactive : open(t) = {}} |-> found[s]]]]
        /\ UNCHANGED <<rules, decisions>>

NewRule(s, stamp, direction) ==
    [slice |-> s, stamp |-> stamp, direction |-> direction, status |-> "candidate"]

PassCommit(p) ==
    LET pass == passing[p]
        new  == SetToSeq(DOMAIN pass.create)
    IN  /\ pass.running /\ Len(rules) + Len(new) <= MaxRules
        /\ rules' = [i \in DOMAIN rules |->
                        IF i \in DOMAIN pass.refresh THEN [rules[i] EXCEPT !.direction = pass.refresh[i]]
                        ELSE rules[i]]
                    \o [k \in DOMAIN new |-> NewRule(new[k], pass.stamp, pass.create[new[k]])]
        /\ passing' = [passing EXCEPT ![p] = NotPassing]
        /\ UNCHANGED decisions

\* The worker is restarted.
PassDies(p) ==
    /\ passing[p].running
    /\ passing' = [passing EXCEPT ![p] = NotPassing]
    /\ UNCHANGED <<rules, decisions>>

Decided(kind, i) ==
    /\ i \in DOMAIN rules /\ rules[i].status \in {"candidate", "active"}
    /\ Len(decisions) < MaxDecisions
    /\ decisions' = Append(decisions, [kind |-> kind, id |-> i, direction |-> rules[i].direction])
    /\ UNCHANGED passing

\* _supersede_siblings
Siblings(i) == {j \in DOMAIN rules \ {i} : rules[j].status = "active" /\ Signature(j) = Signature(i)}

\* promote_heuristic
PromoteRule(i) ==
    /\ Decided("promote", i)
    /\ rules' = [j \in DOMAIN rules |->
                    IF j = i THEN [rules[j] EXCEPT !.status = "active"]
                    ELSE IF j \in Siblings(i) THEN [rules[j] EXCEPT !.status = "superseded"]
                    ELSE rules[j]]

\* reject_heuristic
RejectRule(i) ==
    /\ Decided("reject", i)
    /\ rules' = [rules EXCEPT ![i].status = "rejected"]

HeuristicsNext ==
    \/ \E p \in Passes, stamp \in Stamps, found \in Found : PassLoad(p, stamp, found)
    \/ \E p \in Passes : PassCommit(p)
    \/ \E p \in Passes : PassDies(p)
    \/ \E i \in 1 .. MaxRules : PromoteRule(i)
    \/ \E i \in 1 .. MaxRules : RejectRule(i)

HeuristicsSpec == HeuristicsInit /\ [][HeuristicsNext]_heuristicsVars

-----------------------------------------------------------------------------
(* Properties *)

\* active_heuristics_for_line: the rows the forecast of a line of company c reads.
Consumed(s) ==
    {i \in DOMAIN rules : rules[i].status = "active" /\ rules[i].slice = s /\ rules[i].stamp = UnitOf[s]}

OnSlice(s) == {k \in DOMAIN decisions : Signature(decisions[k].id) = <<s, UnitOf[s]>>}
Promotions(s) == {k \in OnSlice(s) : decisions[k].kind = "promote"}

\* The forecast reads on a slice what the last promotion there put in force,
\* in the direction the reviewer saw, until that rule is rejected: never two
\* that contradict each other, never what a pass still under way proposes
\* (_supersede_siblings, active_heuristics_for_line).
PromotionsStand ==
    \A s \in Slices :
        LET last == CHOOSE k \in Promotions(s) : \A j \in Promotions(s) : j <= k
            rule == decisions[last].id
            gone == \E k \in OnSlice(s) : k > last /\ decisions[k].kind = "reject" /\ decisions[k].id = rule
        IN  IF Promotions(s) = {} THEN Consumed(s) = {}
            ELSE /\ Consumed(s) = IF gone THEN {} ELSE {rule}
                 /\ rules[rule].direction = decisions[last].direction
=============================================================================
