------------------------------ MODULE Datetime ------------------------------
(***************************************************************************)
(* sys_datetime(): the conversion of a UNIX time into Cairo's civil date   *)
(* (sysutil.c), read off while the clock runs and compared with a calendar *)
(* that is advanced digit by digit.  A time is [day, sec], the number      *)
(* day * 86400 + sec, because the seconds of 2100 exceed TLC's integers.   *)
(***************************************************************************)
EXTENDS Integers, Sequences, FiniteSets

CONSTANTS
    Boots,   \* [day, year, weekday] of the 1 January's on which the machine may boot
    Uptime   \* bound on the days it runs

VARIABLES now, cal, up   \* current_time; what the calendar shows; steps since boot

Carry(t, secs) == [day |-> t.day + (t.sec + secs) \div 86400, sec |-> (t.sec + secs) % 86400]

\* get_current_time(): BOOT_EPOCH and the seconds that r_time() has counted since.
get_current_time(epoch, seconds) == Carry(epoch, seconds)

CAIRO_OFFSET == 2 * 3600

month_days == <<31, 28, 31, 30, 31, 30, 31, 31, 30, 31, 30, 31>>

\* Mutant: a century is not an exception.
is_leap_year_julian(year) == year % 4 = 0

is_leap_year(year) == (year % 4 = 0 /\ year % 100 # 0) \/ year % 400 = 0

\* The loop over years takes the days of 1970, 1971, ... off days while it can, and
\* leaves the day in the last one.
DaysBefore(year) ==
    365 * (year - 1970) + Cardinality({y \in 1970 .. year - 1 : is_leap_year(y)})
YearOf(days) ==
    LET year == CHOOSE y \in 1970 + days \div 366 .. 1970 + days \div 365 :
                    DaysBefore(y) <= days /\ days < DaysBefore(y + 1)
    IN  [year |-> year, days |-> days - DaysBefore(year)]

\* The loop over months.
RECURSIVE MonthOf(_, _, _)
MonthOf(year, month, days) ==
    LET n == IF month = 1 /\ is_leap_year(year) THEN 29 ELSE month_days[month + 1]
    IN  IF month = 12 \/ days < n THEN [month |-> month + 1, day |-> days + 1]
        ELSE MonthOf(year, month + 1, days - n)

unix_to_datetime(timestamp) ==
    LET Date(t, y, m) ==
            [year |-> y.year, month |-> m.month, day |-> m.day, weekday |-> (t.day + 4) % 7,
             hour |-> t.sec \div 3600, minute |-> (t.sec % 3600) \div 60, second |-> t.sec % 60]
        Month(t, y) == Date(t, y, MonthOf(y.year, 0, y.days))
        Local(t) == Month(t, YearOf(t.day))
    IN  Local(Carry(timestamp, CAIRO_OFFSET))

-----------------------------------------------------------------------------
(* The calendar: 30 days hath September ...; one day later, a second less. *)

DaysIn(year, month) ==
    CASE month \in {4, 6, 9, 11} -> 30
      [] month = 2 -> IF year % 4 = 0 /\ (year % 100 = 0 => year % 400 = 0) THEN 29 ELSE 28
      [] OTHER -> 31

NextDay(c) ==
    LET tomorrow == [c EXCEPT !.weekday = (@ + 1) % 7]
    IN  CASE c.day < DaysIn(c.year, c.month) -> [tomorrow EXCEPT !.day = @ + 1]
          [] c.day = DaysIn(c.year, c.month) /\ c.month < 12 ->
                [tomorrow EXCEPT !.day = 1, !.month = @ + 1]
          [] c.day = DaysIn(c.year, c.month) /\ c.month = 12 ->
                [tomorrow EXCEPT !.day = 1, !.month = 1, !.year = @ + 1]

SecondEarlier(c) ==
    CASE c.second > 0 -> [c EXCEPT !.second = @ - 1]
      [] c.second = 0 /\ c.minute > 0 -> [c EXCEPT !.second = 59, !.minute = @ - 1]
      [] c.second = 0 /\ c.minute = 0 -> [c EXCEPT !.second = 59, !.minute = 59, !.hour = @ - 1]

\* One day less a second later: the next day unless it is midnight.
Later(c) == IF c.hour = 0 /\ c.minute = 0 /\ c.second = 0
            THEN [c EXCEPT !.hour = 23, !.minute = 59, !.second = 59]
            ELSE SecondEarlier(NextDay(c))

Boot(b) == [now |-> [day |-> b.day, sec |-> 0],
            cal |-> [year |-> b.year, month |-> 1, day |-> 1, weekday |-> b.weekday,
                     hour |-> 2, minute |-> 0, second |-> 0]]

Init == \E b \in Boots : now = Boot(b).now /\ cal = Boot(b).cal /\ up = 0

Run == /\ up < Uptime
       /\ now' = get_current_time(now, 86399)
       /\ cal' = Later(cal)
       /\ up' = up + 1

\* sys_shutdown(), and the machine is started again.
Shutdown == /\ up = Uptime
            /\ \E b \in Boots : now' = Boot(b).now /\ cal' = Boot(b).cal
            /\ up' = 0

Next == Run \/ Shutdown

-----------------------------------------------------------------------------
\* datetime() reports the date, the weekday and the time of day that the calendar and
\* the clock show in Cairo, through the ends of months and years, 29 February of the
\* years that have one (2000) and not of those that have none (2100), and midnight
\* falling two hours before that of the UNIX day.
DatetimeExact == unix_to_datetime(now) = cal
=============================================================================
