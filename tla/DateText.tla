------------------------------ MODULE DateText ------------------------------
(***************************************************************************)
(* The texts of a Date (utils/Date.cpp).  A Date is a number of            *)
(* microseconds since 1970; the units of time are constants, so that years *)
(* fit the integers of TLC.  A text is the sequence of its characters'     *)
(* codes, because its order and its length are what the code relies on.    *)
(***************************************************************************)
EXTENDS Integers, SequencesExt

CONSTANTS
  Micros,       \* MICRO_SECONDS_PER_SEC
  Minute, Hour, \* seconds of a minute, minutes of an hour
  DayHours,     \* hours of a day
  Zone,         \* seconds the local time is ahead in winter
  Summer,       \* seconds the clocks are put forward in summer
  SummerBegin, SummerEnd \* the seconds since 1970 between which it is summer

Day == Minute * Hour * DayHours

\* Division of C++, which rounds towards zero, and its remainder.
Seconds(date) == IF date >= 0 THEN date \div Micros ELSE -((-date) \div Micros)
Fraction(date) == date - Seconds(date) * Micros

-----------------------------------------------------------------------------
(* The C library.                                                          *)

\* Days from 1 January 1970, months and days out of range carried over.
DaysFrom(year, mon, mday) ==
  LET y == year + mon \div 12
      m == (mon % 12) + 1
      shifted == IF m <= 2 THEN y - 1 ELSE y
      dayOfYear == (153 * ((m + 9) % 12) + 2) \div 5
  IN 365 * shifted + shifted \div 4 - shifted \div 100 + shifted \div 400
       + dayOfYear + mday - 1 - 719468

IsSummer(seconds) == SummerBegin <= seconds /\ seconds < SummerEnd

Offset(seconds) == IF IsSummer(seconds) THEN Zone + Summer ELSE Zone

\* tm_year counts from 1900, tm_mon from 0; tm_isdst says which of the two times
\* is meant, and -1 leaves it to the library.
mktime(tm) ==
  LET winter == DaysFrom(tm.year + 1900, tm.mon, tm.mday) * Day
                  + (tm.hour * Hour + tm.min) * Minute + tm.sec - Zone
      summer == winter - Summer
  IN IF tm.isdst = 1 \/ (tm.isdst = -1 /\ IsSummer(summer)) THEN summer ELSE winter

\* Years begin in March here, so that the leap day is the last.
gmtime(seconds) ==
  LET days == seconds \div Day + 719468
      ofEra == days % 146097
      yearOfEra == (ofEra - ofEra \div 1460 + ofEra \div 36524 - ofEra \div 146096) \div 365
      ofYear == ofEra - (365 * yearOfEra + yearOfEra \div 4 - yearOfEra \div 100)
      month == (5 * ofYear + 2) \div 153
      mon == (month + 2) % 12
  IN [year |-> yearOfEra + 400 * (days \div 146097) + (IF mon < 2 THEN 1 ELSE 0) - 1900,
      mon |-> mon,
      mday |-> ofYear - (153 * month + 2) \div 5 + 1,
      hour |-> (seconds % Day) \div (Hour * Minute),
      min |-> (seconds \div Minute) % Hour,
      sec |-> seconds % Minute,
      isdst |-> 0]

localtime(seconds) ==
  [gmtime(seconds + Offset(seconds)) EXCEPT !.isdst = IF IsSummer(seconds) THEN 1 ELSE 0]

-----------------------------------------------------------------------------
(* snprintf() and strftime() *)

Dash == <<45>>
Dot == <<46>>
Colon == <<58>>
Space == <<32>>

Decimal(n, places) == [i \in 1..places |-> 48 + ((n \div 10^(places - i)) % 10)]
Places(n) == CHOOSE k \in 1..9 : n < 10^k /\ (k = 1 \/ n >= 10^(k - 1))

Unpadded(n, width) == Decimal(n, Places(n))

\* "%0<width>d": the sign takes one of the places.
Padded(n, width) ==
  LET sign == IF n < 0 THEN Dash ELSE <<>>
      size == IF n < 0 THEN -n ELSE n
      room == width - Len(sign)
  IN sign \o Decimal(size, IF Places(size) > room THEN Places(size) ELSE room)

\* Years have four digits here, where "%4d" is "%04d".
Calendar(tm, between) ==
  Padded(tm.year + 1900, 4) \o between \o Padded(tm.mon + 1, 2) \o between \o Padded(tm.mday, 2)

Clock(tm, between) ==
  Padded(tm.hour, 2) \o between \o Padded(tm.min, 2) \o between \o Padded(tm.sec, 2)

Decimals(date) == Dot \o Padded(Fraction(date), 6)

-----------------------------------------------------------------------------
\* roundSecond(), and roundDay(), which keeps the tm_isdst of the time of day: on
\* a day on which the clocks change its midnight is Summer off.
RoundedSecond(date) == date - Fraction(date)

RoundedDay(date) ==
  mktime([localtime(Seconds(date)) EXCEPT !.hour = 0, !.min = 0, !.sec = 0]) * Micros

isSameSecond(one, other) == Seconds(one) = Seconds(other)

Formatted(date, tm, showMicroseconds) ==
  Calendar(tm, <<>>) \o Space \o Clock(tm, Colon)
    \o (IF showMicroseconds THEN Decimals(date) ELSE <<>>)

toFormattedString(date, showMicroseconds) ==
  Formatted(date, gmtime(Seconds(date)), showMicroseconds)

toFormattedStringLocal(date, showMicroseconds) ==
  Formatted(date, localtime(Seconds(date)), showMicroseconds)

\* toCustomedFormattedString("%y%m%d-%H%M%S"), as switchLog() calls it: the year
\* has no century.
RotationDate(date) ==
  LET tm == gmtime(Seconds(date)) IN
  Tail(Tail(Calendar(tm, <<>>))) \o Dash \o Clock(tm, <<>>)

\* The date alone at midnight, else without dashes.
toDbStringLocal(date) ==
  IF Fraction(date) # 0 THEN toFormattedStringLocal(date, TRUE)
  ELSE IF date = RoundedDay(date) THEN Calendar(localtime(Seconds(date)), Dash)
  ELSE toFormattedStringLocal(date, FALSE)

-----------------------------------------------------------------------------
\* Order of strings.
Less(s, t) ==
  \E i \in 1..Len(t) : /\ i > Len(s) \/ s[i] < t[i]
                       /\ SubSeq(s, 1, i - 1) = SubSeq(t, 1, i - 1)

\* The next date whose text for databases has the length of this one's.
NextAlike(date) ==
  LET days == {Day, Day - Summer, Day + Summer}
      alike == {n \in {1} \cup {s * Micros : s \in {1, 2} \cup days} :
                  Len(toDbStringLocal(date + n)) = Len(toDbStringLocal(date))}
  IN date + (CHOOSE n \in alike : \A k \in alike : n <= k)

Century(date) == gmtime(Seconds(date)).year \div 100
PutBack(date, later) == Offset(Seconds(later)) < Offset(Seconds(date))

\* Before and After, the texts without microseconds of a date and of the next one,
\* tell them apart as far as isSameSecond() does, and sort as they do or, where
\* reversed, the other way.
Tells(date, Before, After, reversed) ==
  IF isSameSecond(date, date + 1) THEN Before = After
  ELSE IF reversed THEN Less(After, Before) ELSE Less(Before, After)

\* A text tells which date it is of, and texts sort as their dates do: what the
\* log's files are named by and sorted by.  There are two exceptions, where texts
\* go back: those of local time when the clocks are put back, and those of
\* rotated files at the turn of a century, since they have two digits of the year.
\* A text without microseconds is that of its second, as isSameSecond() has it,
\* also before 1970, where rounding towards zero makes a second of two; one with
\* microseconds tells its date from 1970 on, since earlier ones have a sign in
\* their fraction.  The text for databases has three forms, and tells within each.
TextsTellDates(date) ==
  LET next == date + 1 IN
  /\ Tells(date, toFormattedString(date, FALSE), toFormattedString(next, FALSE), FALSE)
  /\ Tells(date, toFormattedStringLocal(date, FALSE), toFormattedStringLocal(next, FALSE),
           PutBack(date, next))
  /\ Tells(date, RotationDate(date), RotationDate(next), Century(date) # Century(next))
  /\ date >= 0 =>
       /\ Less(toFormattedString(date, TRUE), toFormattedString(next, TRUE))
       /\ \/ PutBack(date, next)
          \/ Less(toFormattedStringLocal(date, TRUE), toFormattedStringLocal(next, TRUE))
       /\ \/ PutBack(date, NextAlike(date))
          \/ Less(toDbStringLocal(date), toDbStringLocal(NextAlike(date)))
=============================================================================
