--------------------------------- MODULE Kpis ---------------------------------
(***************************************************************************)
(* The formulas of key figures: how one is parsed, and checked in the      *)
(* editor as it is typed, and what one comes to over the rows of a version *)
(* (app/domain/kpi_formula.py, services/kpis.py).  What a saved formula    *)
(* refers to is KpiReferences'; what stands in the editor is a variable of *)
(* its own.                                                                *)
(*                                                                         *)
(* A formula is a sequence of tokens, a number a fraction.                 *)
(***************************************************************************)
EXTENDS KpiReferences

CONSTANTS
    Literals,         \* the number tokens
    LiteralOf,        \* [Literals -> Nat]
    MaxDepth,         \* _MAX_DEPTH
    Typable,          \* the tokens the editor is tried with
    MaxTyped          \* MAX_FORMULA_LENGTH, in tokens

ASSUME KpisAssumption ==
    /\ LiteralOf \in [Literals -> Nat]
    /\ MaxDepth \in Nat /\ MaxTyped \in Nat

VARIABLE
    typed         \* what stands in the editor

-----------------------------------------------------------------------------
(* The parser *)

ParseError == [node |-> <<"error">>, at |-> 0]

Peek(f, p) == IF p <= Len(f) THEN f[p] ELSE "end"

\* What _expr and _term loop over, and the rule below them.
Operators(rule) == IF rule = "expr" THEN {"+", "-"} ELSE {"*", "/"}
Below(rule)     == IF rule = "expr" THEN "term" ELSE "unary"

RECURSIVE Parsed(_, _, _, _), Onwards(_, _, _, _)

\* The while loop of _expr and _term, from what it has so far.
Onwards(f, left, depth, rule) ==
    IF left = ParseError \/ Peek(f, left.at) \notin Operators(rule) THEN left
    ELSE LET right == Parsed(f, left.at + 1, depth, Below(rule)) IN
         IF right = ParseError THEN ParseError
         ELSE Onwards(f, [node |-> <<Peek(f, left.at), left.node, right.node>>, at |-> right.at], depth, rule)

\* _expr, _term, _unary and _atom at p; _nested counts the depth.
Parsed(f, p, depth, rule) ==
    IF depth > MaxDepth THEN ParseError
    ELSE CASE rule \in {"expr", "term"} -> Onwards(f, Parsed(f, p, depth, Below(rule)), depth, rule)
           [] rule = "unary" /\ Peek(f, p) = "-" ->
                LET x == Parsed(f, p + 1, depth + 1, "unary") IN
                IF x = ParseError THEN ParseError ELSE [node |-> <<"neg", x.node>>, at |-> x.at]
           [] rule = "unary" /\ Peek(f, p) = "(" ->
                LET x == Parsed(f, p + 1, depth + 1, "expr") IN
                IF x = ParseError \/ Peek(f, x.at) # ")" THEN ParseError ELSE [x EXCEPT !.at = @ + 1]
           [] rule = "unary" /\ Peek(f, p) \in Literals -> [node |-> <<"number", f[p]>>, at |-> p + 1]
           [] rule = "unary" /\ Peek(f, p) \in Names    -> [node |-> <<"name", f[p]>>, at |-> p + 1]
           [] OTHER -> ParseError

\* parse_formula: the whole text, or an error.
ParseFormula(f) ==
    LET r == Parsed(f, 1, 0, "expr") IN IF r.at = Len(f) + 1 THEN r.node ELSE ParseError.node

\* What may be saved is what parses.
ASSUME ParserAssumption == WellFormed = {f \in SavedFormulas : ParseFormula(f) # ParseError.node}

\* The editor sends what stands in it to /validate.
TypeToken ==
    /\ Len(typed) < MaxTyped
    /\ \E t \in Typable : typed' = Append(typed, t)

KpisInit == typed = <<>> /\ ReferencesInit

-----------------------------------------------------------------------------
(* evaluate_kpis *)

HasRows(l) == l.id \in DOMAIN figures /\ figures[l.id] # <<>>

\* The lines whose rows a resolved reference adds up.
LinesOf(r) ==
    {l \in chart : HasRows(l) /\ \/ r = <<"item", l.id>>
                                 \/ r = <<"category", l.category>> /\ ~l.calculated}

Horizon2 == UNION {DOMAIN figures[i] : i \in DOMAIN figures}

\* ref_value: of the periods, one or all of them; <<>> is no value.
RefValue(r, periods) ==
    LET worth(l) == LET at(p) == figures[l.id][p] IN MapThenSumSet(at, periods) IN
    IF LinesOf(r) = {} THEN <<>> ELSE <<MapThenSumSet(worth, LinesOf(r)), 1>>

RECURSIVE FormulaValue(_, _)

\* evaluate: no value and a division by zero spread.
FormulaValue(node, value) ==
    CASE node[1] = "number" -> <<LiteralOf[node[2]], 1>>
      [] node[1] = "name"   -> value[node[2]]
      [] node[1] = "neg"    -> LET x == FormulaValue(node[2], value) IN IF x = <<>> THEN <<>> ELSE <<-x[1], x[2]>>
      [] OTHER ->
           LET a == FormulaValue(node[2], value)  b == FormulaValue(node[3], value) IN
           IF a = <<>> \/ b = <<>> THEN <<>>
           ELSE CASE node[1] = "+" -> <<a[1] * b[2] + b[1] * a[2], a[2] * b[2]>>
                  [] node[1] = "-" -> <<a[1] * b[2] - b[1] * a[2], a[2] * b[2]>>
                  [] node[1] = "*" -> <<a[1] * b[1], a[2] * b[2]>>
                  [] node[1] = "/" -> IF b[1] = 0 THEN <<>> ELSE <<a[1] * b[2], a[2] * b[1]>>

KpiOver(periods) ==
    FormulaValue(ParseFormula(kpi.formula), [n \in RefsIn(kpi.formula) |-> RefValue(Resolved(n), periods)])

-----------------------------------------------------------------------------
(* The grammar of the module's docstring, as what each rule derives *)

RECURSIVE Derived(_, _)

\* Every tree of a rule that spells s, with how deep it nests.
Derived(s, rule) ==
    IF rule \in {"expr", "term"} THEN
        Derived(s, IF rule = "expr" THEN "term" ELSE "unary")
        \cup UNION {{[tree |-> <<s[k], l.tree, r.tree>>, depth |-> Max({l.depth, r.depth})] :
                        l \in Derived(SubSeq(s, 1, k - 1), rule),
                        r \in Derived(SubSeq(s, k + 1, Len(s)), IF rule = "expr" THEN "term" ELSE "unary")} :
                    k \in {i \in DOMAIN s : s[i] \in IF rule = "expr" THEN {"+", "-"} ELSE {"*", "/"}}}
    ELSE IF s = <<>> THEN {}
    ELSE IF Len(s) = 1 THEN
        {[tree |-> <<IF t \in Literals THEN "number" ELSE "name", t>>, depth |-> 0] : t \in {s[1]} \cap (Literals \cup Names)}
    ELSE IF s[1] = "-" THEN {[tree |-> <<"neg", x.tree>>, depth |-> x.depth + 1] : x \in Derived(Tail(s), "unary")}
    ELSE IF s[1] = "(" /\ s[Len(s)] = ")" THEN
        {[x EXCEPT !.depth = @ + 1] : x \in Derived(SubSeq(s, 2, Len(s) - 1), "expr")}
    ELSE {}

RECURSIVE Constant(_), LinearNode(_)
Constant(node) ==
    CASE node[1] = "number" -> TRUE [] node[1] = "name" -> FALSE [] node[1] = "neg" -> Constant(node[2])
      [] OTHER -> Constant(node[2]) /\ Constant(node[3])

\* Each term holds exactly one reference, none under a fraction bar.
LinearNode(node) ==
    CASE node[1] = "name" -> TRUE [] node[1] = "number" -> FALSE [] node[1] = "neg" -> LinearNode(node[2])
      [] node[1] \in {"+", "-"} -> LinearNode(node[2]) /\ LinearNode(node[3])
      [] node[1] = "*" -> (LinearNode(node[2]) /\ Constant(node[3])) \/ (Constant(node[2]) /\ LinearNode(node[3]))
      [] node[1] = "/" -> LinearNode(node[2]) /\ Constant(node[3])

-----------------------------------------------------------------------------
KpisTypeOK ==
    /\ typed \in Seq(Typable)
    /\ ReferencesTypeOK

\* The parser accepts what the grammar derives within the depth, and builds its one tree.
ParsedByGrammar ==
    LET derived == {d.tree : d \in {e \in Derived(typed, "expr") : e.depth <= MaxDepth}}
        parsed == ParseFormula(typed)
    IN  derived = IF parsed = ParseError.node THEN {} ELSE {parsed}

\* When every reference has a value, the horizon's total of a linear formula is what its
\* periods add up to (evaluate_kpis computes both from the references).
TotalsAddUp ==
    kpi # NoKpi /\ Horizon2 # {} /\ Compiles(kpi.formula) /\ LinearNode(ParseFormula(kpi.formula)) =>
        LET total == KpiOver(Horizon2)
            parts == {p \in Horizon2 : KpiOver({p}) # <<>>}
            scale(p) == total[2] * KpiOver({p})[1]
        IN  IF total = <<>> THEN parts = {}
            ELSE parts = Horizon2 /\ MapThenSumSet(scale, Horizon2) = total[1] * KpiOver({1})[2]

\* What the formulas promise, from the editor to the dashboard.
KpisHold == ParsedByGrammar /\ MeaningKept /\ TotalsAddUp
===============================================================================
