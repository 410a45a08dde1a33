------------------------------ MODULE Calendar ------------------------------
(***************************************************************************)
(* The exchange's calendar (sched/calendar.go): which dates are sessions,  *)
(* and when each closes.  A date is the number of the day, counted from    *)
(* the first of January of the year 1, a Monday.                           *)
(***************************************************************************)
EXTENDS Integers

-----------------------------------------------------------------------------
(* Dates, as the time package computes them. *)

IsLeap(y) == y % 4 = 0 /\ (y % 100 # 0 \/ y % 400 = 0)
BeforeMonth == <<0, 31, 59, 90, 120, 151, 181, 212, 243, 273, 304, 334>>
BeforeYear(y) == 365 * (y - 1) + (y - 1) \div 4 - (y - 1) \div 100 + (y - 1) \div 400
Date(y, m, d) == BeforeYear(y) + BeforeMonth[m] + d + (IF m > 2 /\ IsLeap(y) THEN 1 ELSE 0)

Sunday == 0
Monday == 1
Thursday == 4
Saturday == 6
Weekday(date) == date % 7
IsWeekday(date) == Weekday(date) \notin {Saturday, Sunday}
Year(date) ==
  LET near == date \div 365
  IN CHOOSE y \in near - 2..near + 1 : BeforeYear(y) < date /\ date <= BeforeYear(y + 1)

-----------------------------------------------------------------------------
NthWeekday(y, m, wd, n) ==
  LET first == Date(y, m, 1) IN first + ((wd - Weekday(first)) % 7) + 7 * (n - 1)

LastWeekday(y, m, wd) ==
  LET last == Date(y, m + 1, 1) - 1 IN last - ((Weekday(last) - wd) % 7)

\* Two days before Easter Sunday, by the anonymous algorithm.
GoodFriday(y) ==
  LET a == y % 19
      b == y \div 100
      c == y % 100
      g == (b - (b + 8) \div 25 + 1) \div 3
      h == (19 * a + b - b \div 4 - g + 15) % 30
      l == (32 + 2 * (b % 4) + 2 * (c \div 4) - h - (c % 4)) % 7
      m == (a + 11 * h + 22 * l) \div 451
      n == h + l - 7 * m + 114
  IN Date(y, n \div 31, (n % 31) + 1) - 2

FixedHolidays(y) == {Date(y, 1, 1), Date(y, 6, 19), Date(y, 7, 4), Date(y, 12, 25)}

FloatingHolidays(y) ==
  { NthWeekday(y, 1, Monday, 3), NthWeekday(y, 2, Monday, 3), GoodFriday(y),
    LastWeekday(y, 5, Monday), NthWeekday(y, 9, Monday, 1), NthWeekday(y, 11, Thursday, 4) }

\* New Year's Day on a Saturday stays where it is; being looked for in the day's own
\* year alone, it would not be found on the Friday before in any case.
Observed(h) ==
  CASE Weekday(h) = Saturday /\ h # Date(Year(h), 1, 1) -> h - 1
    [] Weekday(h) = Sunday -> h + 1
    [] OTHER -> h

IsHoliday(date) ==
  \/ \E h \in FixedHolidays(Year(date)) : Observed(h) = date
  \/ date \in FloatingHolidays(Year(date))

IsEarlyClose(date) ==
  LET y == Year(date)
  IN \/ date = NthWeekday(y, 11, Thursday, 4) + 1
     \/ date = Date(y, 12, 24) /\ IsWeekday(date)
     \/ date = Date(y, 7, 3) /\ IsWeekday(date) /\ IsWeekday(Date(y, 7, 4))

IsSession(date) == IsWeekday(date) /\ ~IsHoliday(date)

\* The close, in minutes of the exchange's day.
CloseOf(date) == IF IsEarlyClose(date) THEN 13 * 60 ELSE 16 * 60
=============================================================================
