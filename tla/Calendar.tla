------------------------------ MODULE Calendar ------------------------------
(***************************************************************************)
(* Periods and dates: months, and the twelve periods of four, four and     *)
(* five weeks of a fiscal year that begins on the first given weekday of a *)
(* given month.  A date is a number of days since 2000-01-01; a period is  *)
(* its year and its number.  The calendar is the state: it is asked about  *)
(* one date and one step at a time, under one company's configuration.     *)
(***************************************************************************)
EXTENDS Integers, Sequences

CONSTANTS
    Configs,      \* bound: calendar_type, fiscal_year_start_month, week_start
    Years,        \* bound: years asked about
    DaysAsked,    \* bound: days of those years
    StepsAsked    \* bound: periods added

MaxSteps == 500    \* the guard of horizon_offset's loop

ASSUME CalendarAssumption ==
    /\ Years \subseteq 2001 .. 2097 /\ DaysAsked \subseteq 0 .. 365 /\ StepsAsked \subseteq Int
    /\ \A n \in StepsAsked : n <= MaxSteps /\ \A y \in Years : 12 * y + n <= 12 * 2098
    /\ Configs \subseteq [type : {"gregorian_month", "fiscal_445"}, month : 1 .. 12, weekday : 0 .. 6]

VARIABLE calendar    \* what is asked: the configuration, a date and a number of periods

calendarVars == <<calendar>>

CalendarTypeOK ==
    calendar \in [config : Configs, day : Nat, steps : StepsAsked \cup {0}]

-----------------------------------------------------------------------------
(* Dates *)

Days(y)     == 365 * (y - 2000) + (y - 1997) \div 4             \* from 2000-01-01 to the first of y
Before(y, m) ==                                                 \* of the year, before month m
    <<0, 31, 59, 90, 120, 151, 181, 212, 243, 273, 304, 334>>[m] + IF m > 2 /\ y % 4 = 0 THEN 1 ELSE 0
FirstOf(y, m) == Days(y) + Before(y, m)
Weekday(d)  == (5 + d) % 7                                      \* 0 = Monday; 2000-01-01 was a Saturday
YearOf(d)   == CHOOSE y \in 2000 .. 2099 : Days(y) <= d /\ d < Days(y + 1)
MonthOf(d)  == CHOOSE m \in 1 .. 12 : FirstOf(YearOf(d), m) <= d /\ (m < 12 => d < FirstOf(YearOf(d), m + 1))

-----------------------------------------------------------------------------
(* Periods *)

\* fiscal_year_start: the first such weekday of the month.
FiscalYearStart(y, c) ==
    IF c.type = "gregorian_month" THEN Days(y)
    ELSE LET first == FirstOf(y, c.month) IN first + ((c.weekday - Weekday(first)) % 7)

\* _445_period_starts; a 53rd week falls to the last period, which has no
\* successor of its own year.
PeriodStarts(y, c) ==
    [p \in 1 .. 12 |-> FiscalYearStart(y, c) + 7 * (13 * ((p - 1) \div 3) + 4 * ((p - 1) % 3))]

\* period_to_date
PeriodToDate(q, c) ==
    IF c.type = "gregorian_month" THEN FirstOf(q[1], q[2]) ELSE PeriodStarts(q[1], c)[q[2]]

\* Mutant: the month decides the fiscal year, not the day it begins on.
FiscalYearByMonth(d, c) == IF MonthOf(d) >= c.month THEN YearOf(d) ELSE YearOf(d) - 1

\* The fiscal year that has begun by the date.
FiscalYear(d, c) == IF d >= FiscalYearStart(YearOf(d), c) THEN YearOf(d) ELSE YearOf(d) - 1

\* date_to_period
DateToPeriod(d, c) ==
    IF c.type = "gregorian_month" THEN <<YearOf(d), MonthOf(d)>>
    ELSE LET y      == FiscalYear(d, c)
             starts == PeriodStarts(y, c) \o <<FiscalYearStart(y + 1, c)>>
             within == {p \in 1 .. 12 : starts[p] <= d /\ d < starts[p + 1]}
         IN  <<y, IF within = {} THEN 12 ELSE CHOOSE p \in within : TRUE>>

\* add_periods: twelve to a year in either calendar.
AddPeriods(q, n) == LET i == 12 * q[1] + (q[2] - 1) + n IN <<i \div 12, 1 + (i % 12)>>

\* forecast_horizon_periods
HorizonPeriods(q, n) == [i \in 1 .. n |-> AddPeriods(q, i)]

\* horizon_offset counts steps in a fiscal calendar until it meets or passes
\* the period, and subtracts months in the other.
HorizonOffset(base, q, c) ==
    IF c.type = "gregorian_month" THEN 12 * (q[1] - base[1]) + (q[2] - base[2])
    ELSE IF base = q THEN 0
    ELSE CHOOSE n \in 1 .. MaxSteps :
            /\ AddPeriods(base, n) = q \/ PeriodToDate(AddPeriods(base, n), c) > PeriodToDate(q, c)
            /\ \A k \in 1 .. n - 1 : /\ AddPeriods(base, k) # q
                                     /\ PeriodToDate(AddPeriods(base, k), c) <= PeriodToDate(q, c)

-----------------------------------------------------------------------------
CalendarInit == calendar \in {[config |-> c, day |-> Days(2001), steps |-> 0] : c \in Configs}

\* One question from each beginning.
AskCalendar(y, i, n) ==
    /\ calendar.day = Days(2001)
    /\ calendar' = [calendar EXCEPT !.day = Days(y) + i, !.steps = n]

CalendarNext == \E y \in Years, i \in DaysAsked, n \in StepsAsked : AskCalendar(y, i, n)

CalendarSpec == CalendarInit /\ [][CalendarNext]_calendarVars

-----------------------------------------------------------------------------
(* Properties *)

\* Every day lies in the period its label names, whatever weekday and month the
\* fiscal year begins on and however long its last period is: not before the
\* period begins, and before the next one does.  And the offset of a horizon's
\* n-th period from its base is n, also across a year's end.
DayHasPeriod ==
    LET c == calendar.config
        q == DateToPeriod(calendar.day, c)
    IN  /\ PeriodToDate(q, c) <= calendar.day
        /\ calendar.day < PeriodToDate(AddPeriods(q, 1), c)
        /\ calendar.steps > 0 =>
            LET ahead == HorizonPeriods(q, calendar.steps)
            IN  \A n \in 1 .. calendar.steps : HorizonOffset(q, ahead[n], c) = n
=============================================================================
