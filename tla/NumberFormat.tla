---------------------------- MODULE NumberFormat ----------------------------
(***************************************************************************)
(* convert() and convertHex() of LogStream.cpp: a number into characters,  *)
(* least significant digit first, then reversed.  A signed number is never *)
(* negated: its remainders are negative and select from a table that runs  *)
(* from 9 down to 0 and up to 9 again.  Characters are the values of the   *)
(* digits, and minus.                                                      *)
(***************************************************************************)
EXTENDS Integers, SequencesExt

CONSTANTS
  Least, Greatest,   \* the range of the type
  Digits10,          \* std::numeric_limits<T>::digits10
  HexDigits          \* hexadecimal digits of an address

\* The number that digits spell in a base, the high one first.
Positional(text, base) ==
  LET Upto[i \in 0..Len(text)] == IF i = 0 THEN 0 ELSE base * Upto[i - 1] + text[i]
  IN  Upto[Len(text)]

\* The least number of k + 1 digits.
Power(base, k) == Positional([i \in 1..(k + 1) |-> IF i = 1 THEN 1 ELSE 0], base)

ASSUME RangeAssumption ==
  /\ Least \in Int /\ Greatest \in Nat /\ Least <= 0
  /\ Digits10 \in Nat /\ HexDigits \in Nat \ {0}
\* digits10 is the most digits of which the type has every number, and an
\* address has four bits to a hexadecimal digit.
ASSUME DigitsAssumption ==
  /\ Greatest < Power(10, Digits10 + 1) /\ -Least < Power(10, Digits10 + 1)
  /\ Greatest < Power(16, HexDigits)

VARIABLE value     \* the number converted

\* Division and remainder of C++, which truncate towards zero.
Quotient(i, n) == IF i >= 0 THEN i \div n ELSE -((-i) \div n)
Remainder(i, n) == i - n * Quotient(i, n)

digits == <<9, 8, 7, 6, 5, 4, 3, 2, 1, 0, 1, 2, 3, 4, 5, 6, 7, 8, 9>>
zero(lsd) == digits[10 + lsd]
minus == 10

Lsds[i \in Int] ==
  <<zero(Remainder(i, 10))>>
    \o (IF Quotient(i, 10) = 0 THEN <<>> ELSE Lsds[Quotient(i, 10)])

convertUnsigned(v) == Reverse(Lsds[v])

convert(v) == Reverse(Lsds[v] \o (IF v < 0 THEN <<minus>> ELSE <<>>))

HexLsds[i \in Nat] ==
  <<i % 16>> \o (IF i \div 16 = 0 THEN <<>> ELSE HexLsds[i \div 16])

convertHex(v) == Reverse(HexLsds[v])

\* The room formatInteger() and operator<<(const void*) ask for.
IntegerRoom == Digits10 + 4
PointerRoom == HexDigits + 4

-----------------------------------------------------------------------------
(* Properties *)

Canonical(text) == Len(text) = 1 \/ Head(text) # 0

\* The text of an integer reads back as that integer, in the one way without
\* leading zeros, for every value of the type, the least one included, whose
\* absolute value the type does not have. The same of an address in
\* hexadecimal. And the characters with the '\0' behind them, and with "0x" in
\* front, fit the room that was tested for before they were written.
NumbersReadBack ==
  LET text == convert(value) IN
  /\ Len(text) < IntegerRoom
  /\ value < 0 => /\ Head(text) = minus /\ Canonical(Tail(text))
                  /\ Positional(Tail(text), 10) = -value
  /\ value >= 0 => /\ Canonical(text) /\ Positional(text, 10) = value
                   /\ Len(convertHex(value)) + 2 < PointerRoom
                   /\ Canonical(convertHex(value))
                   /\ Positional(convertHex(value), 16) = value
=============================================================================
