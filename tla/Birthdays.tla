------------------------------- MODULE Birthdays -------------------------------
(***************************************************************************)
(* What resume_search says of a birth date on a day: the age, the next     *)
(* anniversary, how far off it is and how old it makes.  Dates are those   *)
(* of Python's datetime, which this module states as far as it is used.    *)
(***************************************************************************)
EXTENDS Integers

Leap(y) == y % 4 = 0 /\ (y % 100 # 0 \/ y % 400 = 0)

DaysIn(y, m) ==
    CASE m = 2 -> IF Leap(y) THEN 29 ELSE 28
      [] m \in {4, 6, 9, 11} -> 30
      [] OTHER -> 31

Date == [y: Nat \ {0}, m: 1..12, d: 1..31]

Day(y, m, d) == [y |-> y, m |-> m, d |-> d]
IsDate(t) == t \in Date /\ t.d <= DaysIn(t.y, t.m)

(* Tuples of numbers compare from the left. *)
EarlierInYear(s, t) == s.m < t.m \/ (s.m = t.m /\ s.d < t.d)
Earlier(s, t) == s.y < t.y \/ (s.y = t.y /\ EarlierInYear(s, t))

Tomorrow(t) ==
    IF t.d < DaysIn(t.y, t.m) THEN Day(t.y, t.m, t.d + 1)
    ELSE IF t.m < 12 THEN Day(t.y, t.m + 1, 1)
    ELSE Day(t.y + 1, 1, 1)

DaysBefore == <<0, 31, 59, 90, 120, 151, 181, 212, 243, 273, 304, 334>>

(* date.toordinal: the days since the year 1. *)
Ordinal(t) ==
    LET years == t.y - 1
    IN  365 * years + years \div 4 - years \div 100 + years \div 400
        + DaysBefore[t.m] + (IF t.m > 2 /\ Leap(t.y) THEN 1 ELSE 0) + t.d

-----------------------------------------------------------------------------
(* age_on *)
Age(born, today) ==
    today.y - born.y - (IF EarlierInYear(today, born) THEN 1 ELSE 0)

IsToday(born, today) == born.m = today.m /\ born.d = today.d

(* The anniversary in a year, "mapping 29 Feb to 1 March". *)
Anniversary(born, y) ==
    IF born.d <= DaysIn(y, born.m) THEN Day(y, born.m, born.d) ELSE Day(y, 3, 1)

(* Mutant of NextOccurrence: what is today is over. *)
NextStrictly(born, today) ==
    IF Earlier(today, Anniversary(born, today.y)) THEN Anniversary(born, today.y)
    ELSE Anniversary(born, today.y + 1)

NextOccurrence(born, today) ==
    IF Earlier(Anniversary(born, today.y), today) THEN Anniversary(born, today.y + 1)
    ELSE Anniversary(born, today.y)

DaysUntil(born, today) == Ordinal(NextOccurrence(born, today)) - Ordinal(today)

(* Mutant of Turning: today counts as any other day. *)
TurningAlways(born, today) == Age(born, today) + 1

Turning(born, today) ==
    IF IsToday(born, today) THEN Age(born, today) ELSE Age(born, today) + 1
=============================================================================
