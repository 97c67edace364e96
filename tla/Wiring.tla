------------------------------- MODULE Wiring -------------------------------
(***************************************************************************)
(* The dependency edges of the chart of accounts: added one at a time by   *)
(* an administrator, or wired from the standard rollups and the lines'     *)
(* formulas, by an administrator or at the end of an ingestion.  Each      *)
(* addition loads the graph, checks it with the new edge and inserts; the  *)
(* transaction commits later, and sees no other's edges before that.       *)
(*                                                                         *)
(* Which lines a rollup or a formula names is text matching and an input:  *)
(* the edges it would like, in order.  Types and weights are left out; an  *)
(* edge added twice is one edge of the graph.                              *)
(***************************************************************************)
EXTENDS Integers, Sequences, FiniteSets, SequencesExt

CONSTANTS
    GraphLines,
    Wirers,         \* transactions that may be open at a time
    Rollups,        \* bound: what standard wiring may want, sequences of edges <<source, dependent>>
    MaxWirings      \* bound: transactions

ASSUME WiringAssumption ==
    /\ MaxWirings \in Nat /\ Rollups \subseteq Seq(GraphLines \X GraphLines)

VARIABLES
    edges,     \* committed: [edge, began, ended]
    wiring,    \* wiring[w]: the edges its transaction has inserted, and when it first looked
    clock

wiringVars == <<edges, wiring, clock>>

EdgeSet == GraphLines \X GraphLines

WiringTypeOK ==
    /\ edges \subseteq [edge : EdgeSet, began : 1 .. 2 * MaxWirings, ended : 1 .. 2 * MaxWirings]
    /\ wiring \in [Wirers -> [open : BOOLEAN, mine : SUBSET EdgeSet, began : 0 .. 2 * MaxWirings]]
    /\ clock \in 0 .. 2 * MaxWirings

WiringInit ==
    /\ edges = {} /\ clock = 0
    /\ wiring = [w \in Wirers |-> [open |-> FALSE, mine |-> {}, began |-> 0]]

-----------------------------------------------------------------------------
\* Some set of lines each of which feeds another of the set.
Cyclic(E) ==
    \E S \in (SUBSET GraphLines) \ {{}} : \A a \in S : \E b \in S : <<a, b>> \in E

Committed == {e.edge : e \in edges}

\* Mutant: the graph loaded first serves every addition of the transaction.
AddedUnreloaded(E, e) == IF Cyclic(Committed \cup {e}) THEN E ELSE E \cup {e}

\* add_dependency on the graph E, which is loaded anew after each success.
Added(E, e) == IF Cyclic(E \cup {e}) THEN E ELSE E \cup {e}

\* ensure_standard_dependencies: what is wired already and what would close a
\* cycle is passed over.
Wired(E, wanted) == FoldLeft(LAMBDA F, e : IF e \in F THEN F ELSE Added(F, e), E, wanted)

Open(w, mine) ==
    /\ ~wiring[w].open /\ clock + Cardinality({v \in Wirers : wiring[v].open}) + 2 <= 2 * MaxWirings
    /\ clock' = clock + 1
    /\ wiring' = [wiring EXCEPT ![w] = [open |-> TRUE, mine |-> mine, began |-> clock + 1]]
    /\ UNCHANGED edges

\* create_dependency up to its commit; a cycle is answered 400.
CreateDependency(w, e) ==
    /\ ~Cyclic(Committed \cup {e})
    /\ Open(w, Added(Committed, e) \ Committed)

\* wire_standard_coa, or the end of an ingestion, up to its commit.
WireStandard(w) ==
    \E wanted \in Rollups : Open(w, Wired(Committed, wanted) \ Committed)

CommitWiring(w) ==
    /\ wiring[w].open
    /\ clock' = clock + 1
    /\ edges' = edges \cup {[edge |-> e, began |-> wiring[w].began, ended |-> clock + 1] : e \in wiring[w].mine}
    /\ wiring' = [wiring EXCEPT ![w] = [open |-> FALSE, mine |-> {}, began |-> 0]]

\* An ambiguous formula, or a failure of the ingestion around it.
RollbackWiring(w) ==
    /\ wiring[w].open
    /\ wiring' = [wiring EXCEPT ![w] = [open |-> FALSE, mine |-> {}, began |-> 0]]
    /\ UNCHANGED <<edges, clock>>

WiringNext ==
    \E w \in Wirers :
        \/ \E e \in EdgeSet : CreateDependency(w, e)
        \/ WireStandard(w) \/ CommitWiring(w) \/ RollbackWiring(w)

WiringSpec == WiringInit /\ [][WiringNext]_wiringVars

-----------------------------------------------------------------------------
(* Properties *)

Overlap(e, f) ==
    /\ <<e.began, e.ended>> # <<f.began, f.ended>>
    /\ e.began < f.ended /\ f.began < e.ended

\* A cycle is always the work of two transactions at the same time: edges
\* whose transactions came one after the other, or were one, make no circle,
\* in whatever order they were added and whatever a rollup names.
NoLoneCycle ==
    \A F \in SUBSET edges :
        (\A e, f \in F : ~Overlap(e, f)) => ~Cyclic({e.edge : e \in F})
=============================================================================
