------------------------------ MODULE Calendar ------------------------------
(***************************************************************************)
(* gmtime and mktime, libc/src/time.c: the loops that turn a count of      *)
(* seconds into a date and back, and current_tm, the one structure that    *)
(* every call of gmtime fills.  A clock that advances a calendar date day  *)
(* by day, by the rules of the Gregorian calendar, says what the date is.  *)
(***************************************************************************)
EXTENDS Integers, FiniteSets

CONSTANTS
    SecPerMin, MinPerHour, HourPerDay,  \* 60, 60 and 24 in the code
    ClockYears                          \* bound: the years the clock is asked in

ASSUME CalendarAssumption ==
    /\ SecPerMin \in Nat \ {0} /\ MinPerHour \in Nat \ {0} /\ HourPerDay \in Nat \ {0}
    /\ \A y \in ClockYears : y \in Nat /\ y >= 1970

SecPerDay == SecPerMin * MinPerHour * HourPerDay

VARIABLES
    today,          \* the reference: days since the epoch, date and weekday
    sec_of_day,     \* the time of day the clock is asked for
    current_tm,     \* the result of gmtime
    cal_pc

calVars == <<today, sec_of_day, current_tm, cal_pc>>

-----------------------------------------------------------------------------
\* Mutant of IsLeapYear: centuries are not exempt.
IsLeapYearJulian(year) == year % 4 = 0

IsLeapYear(year) == (year % 4 = 0 /\ year % 100 # 0) \/ year % 400 = 0

\* days_in_month, lines 9-11; months count from 0.
DaysInMonth == <<31, 28, 31, 30, 31, 30, 31, 31, 30, 31, 30, 31>>
GetDaysInMonth(month, year) ==
    IF month = 1 /\ IsLeapYear(year) THEN 29 ELSE DaysInMonth[month + 1]
DaysInYear(year) == IF IsLeapYear(year) THEN 366 ELSE 365

\* The loops of lines 122-125 and 131-134, after at most so many turns: while
\* the days do not fit in a year or a month, take its length away and go on.
CountOff(first, days, length, turns) ==
    LET next == [at \in [unit : Nat, rest : Nat] |->
                    IF at.rest < length[at.unit] THEN at
                    ELSE [unit |-> at.unit + 1, rest |-> at.rest - length[at.unit]]]
        turn[k \in 0..turns] ==
            IF k = 0 THEN [unit |-> first, rest |-> days] ELSE next[turn[k - 1]]
    IN  turn[turns]

YearLoop(days) == CountOff(1970, days, [y \in Nat |-> DaysInYear(y)], days \div 365)
MonthLoop(days, year) ==
    CountOff(0, days, [m \in 0..11 |-> GetDaysInMonth(m, year)], 11)

\* gmtime, for times since the epoch.
Gmtime(t) ==
    LET minutes == t \div SecPerMin
        hours   == minutes \div MinPerHour
        days    == hours \div HourPerDay
        y       == YearLoop(days)
        m       == MonthLoop(y.rest, y.unit)
    IN  [tm_sec |-> t % SecPerMin,
         tm_min |-> minutes % MinPerHour,
         tm_hour |-> hours % HourPerDay,
         tm_year |-> y.unit - 1900,
         tm_yday |-> y.rest,
         tm_mon |-> m.unit,
         tm_mday |-> m.rest + 1,
         tm_wday |-> (4 + days) % 7]

\* The checks of mktime, lines 72-76.
Valid(tm) ==
    /\ tm.tm_mon \in 0..11
    /\ tm.tm_mday \in 1..GetDaysInMonth(tm.tm_mon, tm.tm_year + 1900)
    /\ tm.tm_hour \in 0..(HourPerDay - 1)
    /\ tm.tm_min \in 0..(MinPerHour - 1)
    /\ tm.tm_sec \in 0..SecPerMin

\* The loops of lines 82-84 and 87-89: the lengths from the first up to the last.
AddUp(first, last, length) ==
    LET upTo[u \in first..last] ==
            IF u = first THEN 0 ELSE upTo[u - 1] + length[u - 1]
    IN  upTo[last]

DaysBefore(year, month) ==
    AddUp(1970, year, [y \in Nat |-> DaysInYear(y)])
    + AddUp(0, month, [m \in 0..11 |-> GetDaysInMonth(m, year)])

Mktime(tm) ==
    IF ~Valid(tm) THEN -1
    ELSE (DaysBefore(tm.tm_year + 1900, tm.tm_mon) + tm.tm_mday - 1) * SecPerDay
         + tm.tm_hour * SecPerMin * MinPerHour + tm.tm_min * SecPerMin + tm.tm_sec

-----------------------------------------------------------------------------
\* Thirty days has September ...; written down without the code's helpers.
LeapDay(year) == IF year % 4 = 0 /\ (year % 100 = 0 => year % 400 = 0) THEN 1 ELSE 0
LastDay(mon, year) ==
    CASE mon = 1              -> 28 + LeapDay(year)
      [] mon \in {3, 5, 8, 10} -> 30
      [] OTHER                -> 31

Tomorrow(d) ==
    LET monthEnds == d.mday = LastDay(d.mon, d.year)
        yearEnds  == monthEnds /\ d.mon = 11
    IN  [n |-> d.n + 1,
         year |-> IF yearEnds THEN d.year + 1 ELSE d.year,
         yday |-> IF yearEnds THEN 0 ELSE d.yday + 1,
         mon |-> IF yearEnds THEN 0 ELSE IF monthEnds THEN d.mon + 1 ELSE d.mon,
         mday |-> IF monthEnds THEN 1 ELSE d.mday + 1,
         wday |-> IF d.wday = 6 THEN 0 ELSE d.wday + 1]

\* The first of January 1970 was a Thursday.
NewYear(year) ==
    LET n == 365 * (year - 1970) + Cardinality({y \in 1970..(year - 1) : LeapDay(y) = 1})
    IN  [n |-> n, year |-> year, yday |-> 0, mon |-> 0, mday |-> 1, wday |-> (4 + n) % 7]

\* The first call is on the first day of a year.
CalInit ==
    /\ today \in {NewYear(y) : y \in ClockYears}
    /\ sec_of_day \in {0, SecPerDay - 1}
    /\ current_tm = Gmtime(today.n * SecPerDay + sec_of_day)
    /\ cal_pc = "run"

CalRest ==
    today = NewYear(1970) /\ sec_of_day = 0 /\ current_tm = Gmtime(0) /\ cal_pc = "done"

\* gmtime is called once a day.
CallGmtime ==
    /\ cal_pc = "run" /\ Tomorrow(today).year \in ClockYears
    /\ today' = Tomorrow(today)
    /\ current_tm' = Gmtime(today'.n * SecPerDay + sec_of_day)
    /\ UNCHANGED <<sec_of_day, cal_pc>>

CalEnd ==
    /\ cal_pc = "run" /\ Tomorrow(today).year \notin ClockYears
    /\ cal_pc' = "done"
    /\ UNCHANGED <<today, sec_of_day, current_tm>>

CalNext == CallGmtime \/ CalEnd

(***************************************************************************)
(* gmtime gives every day its date, weekday and place in the year, through *)
(* leap years, the century that is none and the turns of months and years; *)
(* mktime accepts every date of gmtime and is its inverse, to the second.  *)
(***************************************************************************)
DatesRight ==
    /\ current_tm.tm_year + 1900 = today.year /\ current_tm.tm_yday = today.yday
    /\ current_tm.tm_mon = today.mon /\ current_tm.tm_mday = today.mday
    /\ current_tm.tm_wday = today.wday
    /\ Mktime(current_tm) = today.n * SecPerDay + sec_of_day
=============================================================================
