---------------------------- MODULE KpiReferences ----------------------------
(***************************************************************************)
(* A company's own key figures as it saves them: formulas over its lines   *)
(* and categories (services/kpis.py, api/kpis.py).  A formula is resolved  *)
(* against the chart of accounts when it is saved and anew whenever it is  *)
(* evaluated, and the chart only grows in between.                         *)
(*                                                                         *)
(* What of it is a well-formed formula is a constant here; Kpis, which     *)
(* parses and evaluates, says which that is.  Names of key figures and     *)
(* their display are left out.                                             *)
(***************************************************************************)
EXTENDS Integers, Sequences, FiniteSets, FiniteSetsExt

CONSTANTS
    Names,            \* the reference tokens
    RefOf,            \* what each names
    SavedFormulas,    \* formulas tried, sequences of tokens
    WellFormed,       \* those the parser accepts
    ChartLines,       \* lines that may come: id, name, code, category, calculated
    FigureBooks       \* [ids -> a value per period, or <<>>] a generation may write

ASSUME ReferencesAssumption ==
    /\ RefOf \in [Names -> [kind : {"any", "item", "category"}, key : STRING]]
    /\ WellFormed \subseteq SavedFormulas

VARIABLES
    chart,        \* the lines of the company
    kpi,          \* the saved formula and what its references meant then
    figures       \* per line: the override or else the p50 of each of its rows

kpiVars == <<chart, kpi, figures>>

-----------------------------------------------------------------------------
NoKpi == [formula |-> <<>>, meant |-> <<>>]

ReferencesInit == chart = {} /\ kpi = NoKpi /\ figures = <<>>

\* The items a key names: by name, else by account code.
ItemsOf(key) ==
    LET named == {l \in chart : l.name = key}
    IN  IF named # {} THEN named ELSE {l \in chart : l.code = key}

Unresolved == <<"error", 0>>

\* resolve_references for one reference: a bare name must be one or the other.
Resolved(n) ==
    LET key == RefOf[n].key
        kind == RefOf[n].kind
        isCategory == \E l \in chart : l.category = key
    IN  CASE kind # "category" /\ Cardinality(ItemsOf(key)) = 1 /\ (kind = "any" => ~isCategory) ->
                <<"item", (CHOOSE l \in ItemsOf(key) : TRUE).id>>
          [] kind # "item" /\ isCategory /\ (kind = "any" => ItemsOf(key) = {}) -> <<"category", key>>
          [] OTHER -> Unresolved

RefsIn(f) == {f[i] : i \in DOMAIN f} \cap Names

Compiles(f) == f \in WellFormed /\ \A n \in RefsIn(f) : Resolved(n) # Unresolved

\* create_line_item, or an upload or pull that names a line nobody had.
AddLine ==
    /\ \E l \in ChartLines \ chart : chart' = chart \cup {l}
    /\ UNCHANGED <<kpi, figures>>

\* create_kpi, and update_kpi with a formula.
SaveKpi ==
    /\ \E f \in SavedFormulas :
        /\ Compiles(f)
        /\ kpi' = [formula |-> f, meant |-> [n \in RefsIn(f) |-> Resolved(n)]]
    /\ UNCHANGED <<chart, figures>>

DeleteKpi ==
    /\ kpi # NoKpi /\ kpi' = NoKpi
    /\ UNCHANGED <<chart, figures>>

\* A version of the company is generated, overridden or another one looked at.
WriteFigures ==
    /\ \E b \in FigureBooks : figures' = [i \in {l.id : l \in chart} |-> b[i]]
    /\ UNCHANGED <<chart, kpi>>

KpisNext == AddLine \/ SaveKpi \/ DeleteKpi \/ WriteFigures

KpiSpec == ReferencesInit /\ [][KpisNext]_kpiVars

-----------------------------------------------------------------------------
ReferencesTypeOK ==
    /\ chart \subseteq ChartLines
    /\ kpi = NoKpi \/ kpi.formula \in SavedFormulas
    /\ DOMAIN figures \subseteq {l.id : l \in chart}

\* However the chart grows, a saved formula means what it meant or is an error, as long as no
\* line is named like the code of another (resolve_references prefers names).
MeaningKept ==
    (\A a, b \in chart : a.name = b.code => a = b)
        => \A n \in DOMAIN kpi.meant : Resolved(n) \in {kpi.meant[n], Unresolved}
=============================================================================
