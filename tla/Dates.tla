------------------------------- MODULE Dates --------------------------------
(***************************************************************************)
(* The text of a Date for databases read back (utils/Date.cpp), with the   *)
(* splitString() of Funcs.h, and a Date that is added to and rounded.      *)
(* A text is here a sequence of tokens: separators, and runs of digits     *)
(* with the number std::stol() reads from them.                            *)
(***************************************************************************)
EXTENDS DateText

CONSTANTS
  Days         \* the days the machine starts at, counted from 1 January 1970

VARIABLE microSecondSinceEpoch_

-----------------------------------------------------------------------------
Digits(n) == [separator |-> "", number |-> n]
Separator(s) == [separator |-> s, number |-> 0]

\* The pieces of s between the delimiters, without the empty ones.
splitString(s, delimiter) ==
  LET Add(pieces, token) ==
        IF token = Separator(delimiter) THEN Append(pieces, <<>>)
        ELSE [pieces EXCEPT ![Len(pieces)] = Append(@, token)]
  IN SelectSeq(FoldLeft(Add, <<<<>>>>, s), LAMBDA piece : piece # <<>>)

stol(piece) == piece[1].number

\* Date(year, month, day, hour, minute, second, microSecond): local time, of
\* summer or winter as mktime() finds out.
NewDate(d) ==
  mktime([year |-> d.year - 1900, mon |-> d.month - 1, mday |-> d.day,
          hour |-> d.hour, min |-> d.minute, sec |-> d.second, isdst |-> -1]) * Micros
    + d.micro

NoFields == [year |-> 0, month |-> 0, day |-> 0, hour |-> 0, minute |-> 0, second |-> 0,
             micro |-> 0]

\* The fields read from hh:mm:ss[.micro]; the fraction is filled up to its
\* places, which a run of digits here has already.
TimeOfDay(fields, time) ==
  IF Len(time) <= 2 THEN fields
  ELSE LET seconds == splitString(time[3], ".") IN
       [fields EXCEPT !.hour = stol(time[1]), !.minute = stol(time[2]),
                      !.second = stol(seconds[1]),
                      !.micro = IF 1 < Len(seconds) THEN stol(seconds[2]) ELSE 0]

\* fromDbStringLocal() tests v.size() for 3 where v has two parts.
fromDbStringLocal(datetime) ==
  LET v == splitString(datetime, " ")
      date == splitString(v[1], "-")
  IN NewDate(IF Len(v) = 2 /\ Len(v) = 3
             THEN TimeOfDay([NoFields EXCEPT !.year = stol(date[1]), !.month = stol(date[2]),
                                             !.day = stol(date[3])],
                            splitString(v[2], ":"))
             ELSE NoFields)

-----------------------------------------------------------------------------
(* A Date that goes on by some seconds, is rounded, and written.           *)

after(second) == microSecondSinceEpoch_ + second * Micros

Init == microSecondSinceEpoch_ \in {d * Day * Micros : d \in Days}

After(second) == microSecondSinceEpoch_' = after(second)
RoundSecond == microSecondSinceEpoch_' = RoundedSecond(microSecondSinceEpoch_)
RoundDay == microSecondSinceEpoch_' = RoundedDay(microSecondSinceEpoch_)

Next == (\E s \in 1..2 : After(s)) \/ RoundSecond \/ RoundDay

Spec == Init /\ [][Next]_microSecondSinceEpoch_

\* "YYYY-MM-DD hh:mm:ss", the form of the text in timezoneOffset().
DbText(seconds) ==
  LET tm == localtime(seconds) IN
  << Digits(tm.year + 1900), Separator("-"), Digits(tm.mon + 1), Separator("-"),
     Digits(tm.mday), Separator(" "), Digits(tm.hour), Separator(":"),
     Digits(tm.min), Separator(":"), Digits(tm.sec) >>

\* A Date is a time point, and fromDbStringLocal() reads it from a text of that
\* form: timezoneOffset() reads "1970-01-03 00:00:00" and takes two days off.
ReadsDbText ==
  fromDbStringLocal(DbText(Seconds(microSecondSinceEpoch_))) = RoundedSecond(microSecondSinceEpoch_)
=============================================================================
