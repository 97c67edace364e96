---------------------------- MODULE MCLifecycles ----------------------------
(***************************************************************************)
(* One instance of the parts that share no variable: each behaviour runs   *)
(* one of them, its focus, and the others stay where they begin.           *)
(***************************************************************************)
EXTENDS ReviewUndo, Actuals, Drivers, Heuristics, Generation,
        ChatTurns, ModelSelection, LinePipeline, Scoring, Attribution, Calendar, Wiring,
        SignIn, Memberships, Sweeps, Anomalies, Accuracy, Kpis, Readings, Currency

VARIABLE focus

vars == <<focus, reviewVars, actualsVars, linksVars, cacheVars, heuristicsVars, generationVars, chatVars,
          selectionVars, lineVars, scoringVars, attributionVars, calendarVars, wiringVars, sessionVars,
          signOffVars, membershipVars, sweepVars, anomalyVars, accuracyVars, typed, kpiVars, readingsVars,
          currencyVars>>

-----------------------------------------------------------------------------
(* Values of the constants *)

MCOwnerOf    == [f \in Connections |-> IF f = "erp" THEN "acme" ELSE "bolt"]
MCReturned == [f \in Connections |-> IF f = "erp" THEN {"x"} ELSE {"none"}]
MCUnitOf     == [s \in Slices |-> "acme"]
MCBatches    == {<<"a">>, <<"a", "b", "a">>}
MCAdvices    == {[l \in ReviewLines |-> "approve"]}
MCReadings   == {-1, -2, 3}
MCModels     == <<"linear", "naive", "ets", "arima">>
MCRankOf     == [m \in ToSet(MCModels) |-> CASE m = "naive" -> 0 [] m = "linear" -> 10 [] m = "ets" -> 20 [] m = "arima" -> 30]
MCRosters    == {ToSet(MCModels), {"linear", "ets", "arima"}, {"linear"}}
MCFoldScores == {<<21, 21>>, <<23, 22>>, <<60, 10>>, <<99, 20>>}
MCPoints      == {3}
MCOffsets     == {<<-3, -1>>}
MCDriverFolds == {<< <<30, 30>>, <<20, 22>> >>, << <<30, 99>>, <<29, 10>> >>}
MCKinds       == [ets |-> 55, zero |-> 0, average |-> 25, ensemble |-> 50]
MCMeasures    == [mape : {8, 18, 30}, width : {20, 90}, fit : {50}, off : {0, 40}, also : {{}}]
MCBook(a, b, w) == [l \in AttrLines |-> CASE l = "a" -> a [] l = "b" -> b [] l = "w" -> w]
MCBooks       == {MCBook(<<6, 8>>, <<10, 9>>, <<16, 17>>), MCBook(<<12, -3>>, <<4, 5>>, <<15, 6>>)}
MCQuantities  == {[a |-> <<2, 3>>, b |-> <<5, 4>>], [a |-> <<3, 2>>, b |-> <<5, 0>>]}
MCPrices      == {Absent, <<3, 3>>}
MCConfigs     == [type : {"gregorian_month"}, month : {2}, weekday : {6}]
                     \cup [type : {"fiscal_445"}, month : {1, 2, 12}, weekday : {0, 6}]
MCRollups     == {<< <<"rev", "gm">>, <<"gm", "oi">>, <<"oi", "rev">> >>, << <<"oi", "gm">> >>}

MCFirmOf      == [v \in Forecasts |-> "acme"]
MCProviders   == [f \in Firms |-> IF f = "acme" THEN {"ana"} ELSE {"bob"}]
MCPasts       == {<<8, 9, 8, 9, 8, 9, 8, 9>>, <<2, 3, 4, 5, 6, 7, 8, 9>>, <<8, 9, 8, 3, 9, 8, 9, 9>>, <<5, 5, 5, 9, 6>>,
                  <<0, 9, 0>>, <<4, 6, 4, 6, 9, 6>>}
MCLater       == {<<3>>}
MCBase        == <<8, 8, 9, 9, 8, 8>>
MCBaseOf      == [v \in Vintages |-> IF v = "v1" THEN 0 ELSE 1]
MCOutlook     == [l \in ScoredLines |-> IF l = "a" THEN 10 ELSE 20]
MCReport(a, b) == [l \in ScoredLines |-> IF l = "a" THEN a ELSE b]
MCReports     == {MCReport(<<10, 20, 25, 5>>, <<20, 0, 20, 50>>),
                  MCReport(<<0, 5, Unreported, Unreported>>, <<25, 20, Unreported, 25>>)}
MCLiteralOf   == [t \in Literals |-> IF t = "0" THEN 0 ELSE 2]
MCRefOf       == [n \in Names |-> CASE n = "item:Revenue"     -> [kind |-> "item", key |-> "Revenue"]
                                    [] n = "category:Revenue" -> [kind |-> "category", key |-> "Revenue"]
                                    [] OTHER                  -> [kind |-> "any", key |-> n]]
MCLine(id, name, code, cat, calc) == [id |-> id, name |-> name, code |-> code, category |-> cat, calculated |-> calc]
MCChartLines  == {MCLine(1, "Fees", "4000", "Revenue", FALSE), MCLine(2, "Rent", "4100", "Revenue", FALSE),
                  MCLine(3, "Revenue", "4900", "Totals", TRUE), MCLine(4, "4000", "5000", "Cost", FALSE),
                  MCLine(5, "Fees", "4200", "Revenue", FALSE)}
MCSaved       == {<<"4000", "/", "Revenue">>, <<"Revenue", "-", "Fees">>,
                  <<"2", "*", "(", "category:Revenue", "-", "item:Revenue", ")">>, <<"-", "Fees", "/", "2">>,
                  <<"4000", "+", "0", "*", "2">>}
MCWellFormed  == {f \in MCSaved : ParseFormula(f) # ParseError.node}
MCFigures     == {<< <<2, 3>>, <<5, -3>>, <<7, 0>>, <<1, 1>>, <<>> >>, << <<4, -4>>, <<>>, <<4, 0>>, <<2, 0>>, <<1, 6>> >>}
MCCategoryOf  == [l \in ReadLines |-> "Revenue"]
MCModelPoints == [l \in ReadLines |-> IF l = "fee" THEN 3 ELSE 0]
MCBudgeted    == [l \in ReadLines |-> IF l = "fee" THEN 4 ELSE 0]
MCLocalOf     == [l \in {"a", "b"} |-> IF l = "a" THEN "EUR" ELSE "USD"]
MCAmountOf    == [l \in {"a", "b"} |-> 6]
MCQuote(f, t, y, r) == [from |-> f, to |-> t, type |-> y, rate |-> r]
MCRateFiles   == {<<MCQuote("EUR", "USD", "average", 3), MCQuote("USD", "EUR", "spot", 0)>>,
                  <<MCQuote("EUR", "USD", "spot", 2), MCQuote("EUR", "USD", "spot", 3)>>}

-----------------------------------------------------------------------------
(* Each part has one beginning while another is in focus *)

\* The second period's row has the kind of the first and fixed measurements.
MCScoringInit ==
    LET x == [mape |-> 18, width |-> 90, fit |-> 50, off |-> 0, also |-> {}]
    IN  /\ ScoringInit
        /\ judged["p2"].now = Fresh([judged["p1"].now EXCEPT !.x = x, !.weight = 10], FALSE).now

MCScoringRest ==
    LET x == [mape |-> 8, width |-> 20, fit |-> 50, off |-> 0, also |-> {}]
    IN  /\ edits = 0
        /\ judged = [r \in Rows |-> Judged("a", Fresh([kind |-> "ets", weight |-> 10, x |-> x, confidence |-> 0,
                                                        flagged |-> TRUE], TRUE))]

MCAttributionRest == asp["a"] # Absent /\ asp["b"] = Absent /\ points["a"][1].p50 = 6 /\ units["b"][2] = 0
MCCalendarRest    == calendar.config.type = "gregorian_month"

MCAnomaliesRest   == past = <<0, 9, 0>> /\ ~material

Init ==
    /\ focus \in {"review", "actuals", "links", "cache", "heuristics", "generation", "chat", "selection", "line",
                  "scoring", "attribution", "calendar", "wiring", "sessions", "signoff", "memberships", "sweeps",
                  "anomalies", "accuracy", "editor", "kpis", "readings", "currency"}
    /\ ReviewInit /\ LinksInit
    /\ ActualsInit /\ (focus # "actuals" => sweep.auto)
    /\ CacheInit /\ (focus # "cache" => \A d \in CachedDrivers : reading[d] = 3)
    /\ HeuristicsInit /\ GenerationInit /\ ChatInit /\ SelectionInit /\ LineInit
    /\ AttributionInit /\ (focus # "attribution" => MCAttributionRest)
    /\ CalendarInit /\ (focus # "calendar" => MCCalendarRest)
    /\ WiringInit
    /\ IF focus = "scoring" THEN MCScoringInit ELSE MCScoringRest
    /\ SessionsInit /\ SignOffInit /\ MembershipsInit /\ SweepsInit
    /\ AnomaliesInit /\ (focus # "anomalies" => MCAnomaliesRest)
    /\ AccuracyInit /\ KpisInit /\ ReadingsInit /\ CurrencyInit

Next ==
    /\ UNCHANGED focus
    /\ IF focus = "review"      THEN ReviewNext      ELSE UNCHANGED reviewVars
    /\ IF focus = "actuals"     THEN ActualsNext     ELSE UNCHANGED actualsVars
    /\ IF focus = "links"       THEN LinksNext       ELSE UNCHANGED linksVars
    /\ IF focus = "cache"       THEN CacheNext       ELSE UNCHANGED cacheVars
    /\ IF focus = "heuristics"  THEN HeuristicsNext  ELSE UNCHANGED heuristicsVars
    /\ IF focus = "generation"  THEN GenerationNext  ELSE UNCHANGED generationVars
    /\ IF focus = "chat"        THEN ChatNext        ELSE UNCHANGED chatVars
    /\ IF focus = "selection"   THEN SelectionNext   ELSE UNCHANGED selectionVars
    /\ IF focus = "line"        THEN LineNext        ELSE UNCHANGED lineVars
    /\ IF focus = "scoring"     THEN ScoringNext     ELSE UNCHANGED scoringVars
    /\ IF focus = "attribution" THEN AttributionNext ELSE UNCHANGED attributionVars
    /\ IF focus = "calendar"    THEN CalendarNext    ELSE UNCHANGED calendarVars
    /\ IF focus = "wiring"      THEN WiringNext      ELSE UNCHANGED wiringVars
    /\ IF focus = "sessions"    THEN SessionsNext    ELSE UNCHANGED sessionVars
    /\ IF focus = "signoff"     THEN SignOffNext     ELSE UNCHANGED signOffVars
    /\ IF focus = "memberships" THEN MembershipsNext ELSE UNCHANGED membershipVars
    /\ IF focus = "sweeps"      THEN SweepsNext      ELSE UNCHANGED sweepVars
    /\ IF focus = "anomalies"   THEN AnomaliesNext   ELSE UNCHANGED anomalyVars
    /\ IF focus = "accuracy"    THEN AccuracyNext    ELSE UNCHANGED accuracyVars
    /\ IF focus = "editor"      THEN TypeToken       ELSE UNCHANGED typed
    /\ IF focus = "kpis"        THEN KpisNext        ELSE UNCHANGED kpiVars
    /\ IF focus = "readings"    THEN ReadingsNext    ELSE UNCHANGED readingsVars
    /\ IF focus = "currency"    THEN CurrencyNext    ELSE UNCHANGED currencyVars

Spec == Init /\ [][Next]_vars

-----------------------------------------------------------------------------
(* Properties of a part that cost much to evaluate are evaluated in its focus *)

\* The variables of every part keep their types.
TypeOK ==
    /\ focus = "review" => ReviewTypeOK
    /\ focus = "actuals" => ActualsTypeOK
    /\ focus = "links" => LinksTypeOK
    /\ focus = "cache" => CacheTypeOK
    /\ focus = "heuristics" => HeuristicsTypeOK
    /\ focus = "generation" => GenerationTypeOK
    /\ focus = "chat" => ChatTypeOK
    /\ focus = "scoring" => ScoringTypeOK
    /\ focus = "attribution" => AttributionTypeOK
    /\ focus = "calendar" => CalendarTypeOK
    /\ focus = "wiring" => WiringTypeOK
    /\ focus = "sessions" => SessionsTypeOK
    /\ focus = "signoff" => SignOffTypeOK
    /\ focus = "memberships" => MembershipsTypeOK
    /\ focus = "sweeps" => SweepsTypeOK
    /\ focus = "anomalies" => AnomaliesTypeOK
    /\ focus = "accuracy" => AccuracyTypeOK
    /\ focus \in {"editor", "kpis"} => KpisTypeOK
    /\ focus = "readings" => ReadingsTypeOK
    /\ focus = "currency" => CurrencyTypeOK

\* The screens that judge the same rows say the same: two anomaly scans, four
\* accuracy reports, a formula as typed, saved and evaluated.
FiguresAgree ==
    /\ focus = "anomalies" => AnomaliesAgree
    /\ focus = "accuracy" => AccuracyAgrees
    /\ focus \in {"editor", "kpis"} => KpisHold
=============================================================================
