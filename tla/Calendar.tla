------------------------------ MODULE Calendar ------------------------------
(***************************************************************************)
(* Dates and days, crates/okibi-core/src/time.rs and window.rs.  A date is *)
(* <<year, month, day>>, a day a number with 1970-01-01 as zero.           *)
(***************************************************************************)
EXTENDS Integers, FiniteSets, FiniteSetsExt

\* Integer division as Rust has it, towards zero.
Div(a, b) == IF a >= 0 THEN a \div b ELSE -((-a) \div b)

DaysFromCivil(date) ==
  LET early == date[2] <= 2
      year == IF early THEN date[1] - 1 ELSE date[1]
      era == Div(IF year >= 0 THEN year ELSE year - 399, 400)
      yearOfEra == year - era * 400
      month == IF early THEN date[2] + 9 ELSE date[2] - 3
      dayOfYear == Div(153 * month + 2, 5) + date[3] - 1
      dayOfEra == yearOfEra * 365 + Div(yearOfEra, 4) - Div(yearOfEra, 100) + dayOfYear
  IN  era * 146097 + dayOfEra - 719468

CivilFromDays(n) ==
  LET days == n + 719468
      era == Div(IF days >= 0 THEN days ELSE days - 146096, 146097)
      dayOfEra == days - era * 146097
      yearOfEra == Div(dayOfEra - Div(dayOfEra, 1460) + Div(dayOfEra, 36524)
                         - Div(dayOfEra, 146096), 365)
      dayOfYear == dayOfEra - (365 * yearOfEra + Div(yearOfEra, 4) - Div(yearOfEra, 100))
      monthPrime == Div(5 * dayOfYear + 2, 153)
      month == IF monthPrime < 10 THEN monthPrime + 3 ELSE monthPrime - 9
      year == yearOfEra + era * 400
  IN  <<IF month <= 2 THEN year + 1 ELSE year, month,
        dayOfYear - Div(153 * monthPrime + 2, 5) + 1>>

\* Slip: the next day of the month.
UpToNextInMonth(date) == <<date[1], date[2], date[3] + 1>>

\* Window::bounds: the date itself, and the day after it.
From(date) == date

UpTo(date) == CivilFromDays(DaysFromCivil(date) + 1)

-----------------------------------------------------------------------------
(* What a date means to the backend that compares timestamps with it.      *)

Leap(year) == year % 4 = 0 /\ (year % 100 = 0 => year % 400 = 0)

MonthLength(year, month) ==
  IF month = 2 THEN IF Leap(year) THEN 29 ELSE 28
  ELSE IF month \in {4, 6, 9, 11} THEN 30 ELSE 31

\* The number of a date from 1970 on, counted in whole years and months.
DayOf(date) ==
  365 * (date[1] - 1970) + Cardinality({y \in 1970..(date[1] - 1) : Leap(y)})
    + MapThenSumSet(LAMBDA m : MonthLength(date[1], m), 1..(date[2] - 1)) + date[3] - 1

IsDate(date) == date[2] \in 1..12 /\ date[3] \in 1..MonthLength(date[1], date[2])

\* timestamp >= toDateTime(from) AND timestamp < toDateTime(to), for the days that
\* are some offset away from the date.  What is no date is no time either.
Covered(date, offsets) ==
  {n \in offsets :
     /\ IsDate(From(date)) /\ IsDate(UpTo(date))
     /\ DayOf(From(date)) <= DayOf(date) + n
     /\ DayOf(date) + n < DayOf(UpTo(date))}
=============================================================================
