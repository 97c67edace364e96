------------------------------ MODULE Currency ------------------------------
(***************************************************************************)
(* Exchange rates, the reporting currency, and generations that convert    *)
(* each line's actuals by them.                                            *)
(*                                                                         *)
(* A rate is kept per pair and type for the month, and the lookup ignores  *)
(* the type: it takes the first row the database returns, the direct       *)
(* direction before the inverse.  A generation reads the reporting         *)
(* currency once and the rates line by line, so an administrator's change  *)
(* may fall between two of its lines.  Each administrator's request is one *)
(* transaction.  One company, one month; amounts are multiples of the      *)
(* rates, so that dividing by one is exact.                                *)
(***************************************************************************)
EXTENDS Integers, Sequences, SequencesExt

CONSTANTS
    Currencies,
    DefaultCurrency,
    RateTypes,
    QuotedRates,    \* rates an administrator may enter
    Unset,          \* no setting, no currency, no rate
    LocalOf,        \* LocalOf[l]: the currency of a line's actuals
    AmountOf,       \* AmountOf[l]: the actual
    RateFiles,      \* sequences of rows an upload may hold; a rate of 0 is refused
    Conversions,    \* generations
    MaxQuotes,      \* bound: rates kept
    MaxChanges      \* bound: administrators' requests

ConvertedLines == DOMAIN LocalOf
Quotes == [from : Currencies, to : Currencies, type : RateTypes, rate : QuotedRates]

ASSUME CurrencyAssumption ==
    /\ DefaultCurrency \in Currencies /\ QuotedRates \subseteq Nat \ {0} /\ Unset \notin Currencies
    /\ \A l \in ConvertedLines : \A r \in QuotedRates : AmountOf[l] % r = 0
    /\ AmountOf \in [ConvertedLines -> Int]
    /\ MaxQuotes \in Nat /\ MaxChanges \in Nat

VARIABLES
    quotes,      \* the fx_rates rows in the order the database returns them
    reporting,   \* reporting.all: the system setting; reporting.own: the company's
    conversion,  \* conversion[g]: phase, pinned currency, lines left, points, rates used, whether rates changed meanwhile
    changes

currencyVars == <<quotes, reporting, conversion, changes>>

Uses == [line : ConvertedLines, pair : Currencies \X Currencies, by : [rate : QuotedRates, inverse : BOOLEAN]]

CurrencyTypeOK ==
    /\ quotes \in Seq(Quotes) /\ Len(quotes) <= MaxQuotes
    /\ reporting \in [all : Currencies \cup {Unset}, own : Currencies \cup {Unset}]
    /\ \A g \in Conversions :
          /\ conversion[g].phase \in {"idle", "running", "done", "failed"}
          /\ conversion[g].pinned \in Currencies \cup {Unset}
          /\ conversion[g].left \subseteq ConvertedLines
          /\ conversion[g].points \in [ConvertedLines -> Int]
          /\ conversion[g].used \subseteq Uses
          /\ conversion[g].disturbed \in BOOLEAN
    /\ changes \in 0 .. MaxChanges

CurrencyInit ==
    /\ quotes = <<>>
    /\ reporting = [all |-> Unset, own |-> Unset]
    /\ conversion = [g \in Conversions |->
          [phase |-> "idle", pinned |-> Unset, left |-> ConvertedLines, points |-> AmountOf, used |-> {}, disturbed |-> FALSE]]
    /\ changes = 0

-----------------------------------------------------------------------------
(* Settings and rates *)

\* get_tenant_setting: the company's, else the system's, else the default.
ReportingCurrency ==
    IF reporting.own # Unset THEN reporting.own
    ELSE IF reporting.all # Unset THEN reporting.all
    ELSE DefaultCurrency

Change == changes < MaxChanges /\ changes' = changes + 1

\* An administrator of the company edits its own setting, a platform
\* administrator either.
SetReporting(scope, c) ==
    /\ Change /\ reporting' = [reporting EXCEPT ![scope] = c]
    /\ UNCHANGED <<quotes, conversion>>

SameKey(q, r) == q.from = r.from /\ q.to = r.to /\ q.type = r.type

\* A commit of the rates table; the unique constraint refuses two rows of a key.
StoreRates(rows) ==
    /\ Change
    /\ \A i, j \in DOMAIN rows : SameKey(rows[i], rows[j]) => i = j
    /\ quotes' = rows /\ Len(rows) <= MaxQuotes
    /\ conversion' = [g \in Conversions |-> [conversion[g] EXCEPT !.disturbed = @ \/ conversion[g].phase = "running"]]
    /\ UNCHANGED reporting

CreateRate(q) == StoreRates(Append(quotes, q))

\* The row keeps its place, or is written anew at the end.
UpdateRate(i, rate, type) ==
    LET row == [quotes[i] EXCEPT !.rate = rate, !.type = type]
    IN  StoreRates([quotes EXCEPT ![i] = row]) \/ StoreRates(Append(RemoveAt(quotes, i), row))

DeleteRate(i) == StoreRates(RemoveAt(quotes, i))

\* A row replaces the rate of its key or is added.  Rows of the file are not
\* visible to the lookups of later rows, so a key that is new twice is added
\* twice and the commit fails.
Uploaded(file) ==
    LET good   == SelectSeq(file, LAMBDA r : r.rate # 0)
        news   == SelectSeq(good, LAMBDA r : \A i \in DOMAIN quotes : ~SameKey(quotes[i], r))
        Reloaded(q) == LET same == SelectSeq(good, LAMBDA r : SameKey(q, r))
                        IN  IF same = <<>> THEN q ELSE [q EXCEPT !.rate = same[Len(same)].rate]
    IN  [i \in DOMAIN quotes |-> Reloaded(quotes[i])] \o news

UploadRates(file) == StoreRates(Uploaded(file))

-----------------------------------------------------------------------------
(* Conversion *)

QuotedFor(rows, from, to) == SelectSeq(rows, LAMBDA q : q.from = from /\ q.to = to)

\* _lookup_rate: the first row of the pair, else the first of the inverse.
RatesFor(rows, from, to) ==
    IF QuotedFor(rows, from, to) # <<>> THEN {[rate |-> Head(QuotedFor(rows, from, to)).rate, inverse |-> FALSE]}
    ELSE IF QuotedFor(rows, to, from) # <<>> THEN {[rate |-> Head(QuotedFor(rows, to, from)).rate, inverse |-> TRUE]}
    ELSE {}

Lookup(from, to) == RatesFor(quotes, from, to)

Converted(x, r) == IF r.inverse THEN x \div r.rate ELSE x * r.rate

StartConversion(g) ==
    /\ conversion[g].phase = "idle"
    /\ conversion' = [conversion EXCEPT ![g].phase = "running", ![g].pinned = ReportingCurrency]
    /\ UNCHANGED <<quotes, reporting, changes>>

\* Mutant: each line reads the setting again.
TargetNow(g) == ReportingCurrency

\* The reporting currency was stored on the version at its start.
Target(g) == conversion[g].pinned

\* convert_series_values of one line; a missing rate fails the generation.
ConvertLine(g, l) ==
    LET to == Target(g)
        r  == Lookup(LocalOf[l], to)
    IN  /\ conversion[g].phase = "running" /\ l \in conversion[g].left
        /\ conversion' =
              IF LocalOf[l] = to THEN [conversion EXCEPT ![g].left = @ \ {l}]
              ELSE IF r = {} THEN [conversion EXCEPT ![g].phase = "failed"]
              ELSE [conversion EXCEPT
                       ![g].left = @ \ {l},
                       ![g].points[l] = Converted(AmountOf[l], CHOOSE x \in r : TRUE),
                       ![g].used = @ \cup {[line |-> l, pair |-> <<LocalOf[l], to>>, by |-> x] : x \in r}]
        /\ UNCHANGED <<quotes, reporting, changes>>

FinishConversion(g) ==
    /\ conversion[g].phase = "running" /\ conversion[g].left = {}
    /\ conversion' = [conversion EXCEPT ![g].phase = "done"]
    /\ UNCHANGED <<quotes, reporting, changes>>

CurrencyNext ==
    \/ \E scope \in {"all", "own"}, c \in Currencies : SetReporting(scope, c)
    \/ \E q \in Quotes : q.from # q.to /\ CreateRate(q)
    \/ \E i \in DOMAIN quotes, rate \in QuotedRates, type \in RateTypes : UpdateRate(i, rate, type)
    \/ \E i \in DOMAIN quotes : DeleteRate(i)
    \/ \E file \in RateFiles : UploadRates(file)
    \/ \E g \in Conversions : StartConversion(g) \/ FinishConversion(g)
    \/ \E g \in Conversions, l \in ConvertedLines : ConvertLine(g, l)

CurrencySpec == CurrencyInit /\ [][CurrencyNext]_currencyVars

-----------------------------------------------------------------------------
(* Properties *)

\* fx_rate_set_hash: the set of the digests of the lines' series, each of the
\* pairs and rates it used; an unconverted line counts as "identity".
RateSetHash(g) ==
    {{<<u.pair, u.by>> : u \in {u \in conversion[g].used : u.line = l}} : l \in ConvertedLines}

Done == {g \in Conversions : conversion[g].phase = "done"}

\* Whatever the setting becomes while it runs, a generation's points are all in
\* the currency it stored: a line in another currency was converted to it by a
\* rate, and a line already in it was not.
InOneCurrency ==
    \A g \in Done : \A l \in ConvertedLines :
        LET used == {u \in conversion[g].used : u.line = l}
        IN  IF LocalOf[l] = conversion[g].pinned THEN conversion[g].points[l] = AmountOf[l]
            ELSE \E u \in used : /\ u.pair = <<LocalOf[l], conversion[g].pinned>>
                                 /\ conversion[g].points[l] = Converted(AmountOf[l], u.by)

\* Two generations of the same actuals with the same currency and the same rate
\* set hash have the same values, if no rate changed while either ran.
HashTellsRates ==
    \A g, h \in Done :
        /\ ~conversion[g].disturbed /\ ~conversion[h].disturbed
        /\ conversion[g].pinned = conversion[h].pinned /\ RateSetHash(g) = RateSetHash(h)
        => conversion[g].points = conversion[h].points

\* Amounts are in the currency the version names, by the rates its hash stands for.
CurrencyKept == InOneCurrency /\ HashTellsRates
=============================================================================
