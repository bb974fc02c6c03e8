-------------------------------- MODULE Utf ---------------------------------
(***************************************************************************)
(* utf8Toutf16() and utf16Toutf8() of Utilities.cpp, behind fromUtf8() and *)
(* toUtf8() where the platform brings no conversion of its own.  A string  *)
(* is a sequence of the values of its bytes or of its wchar_t.             *)
(***************************************************************************)
EXTENDS Integers, Sequences

VARIABLE character     \* one of 16 bits

\* What follows the first byte: 10xxxxxx for each six bits.
Trail(c) == 128 + (c % 64)

\* A mutated form of Encoded.
EncodedShort(c) ==
  IF c <= 127 THEN <<c>> ELSE <<192 + ((c \div 64) % 32), Trail(c)>>

\* One character. Of those above 0xFFFF the high bits are lost.
Encoded(c) ==
  CASE c <= 127 -> <<c>>
    [] 127 < c /\ c <= 2047 -> <<192 + ((c \div 64) % 32), Trail(c)>>
    [] OTHER -> <<224 + ((c \div 4096) % 16), Trail(c \div 64), Trail(c)>>

utf16Toutf8(w) ==
  LET Upto[i \in 0..Len(w)] == IF i = 0 THEN <<>> ELSE Upto[i - 1] \o Encoded(w[i])
  IN  Upto[Len(w)]

\* The bytes of the character that starts with b, 0 for none: the code knows
\* no characters of four bytes.
Width(b) ==
  CASE b < 128 -> 1
    [] b \in 192..223 -> 2
    [] b \in 224..239 -> 3
    [] OTHER -> 0

\* The character of these bytes; all but the first are taken as they are.
Decoded(bytes) ==
  CASE Len(bytes) = 1 -> bytes[1]
    [] Len(bytes) = 2 -> (bytes[1] % 32) * 64 + (bytes[2] % 64)
    [] OTHER -> (bytes[1] % 16) * 4096 + (bytes[2] % 64) * 64 + (bytes[3] % 64)

\* A character that is unknown or cut off makes the whole string empty.
Failed == <<-1>>
utf8Toutf16(s) ==
  LET From[i \in 1..(Len(s) + 1)] ==
        IF i > Len(s) THEN <<>>
        ELSE LET width == Width(s[i]) IN
             IF width = 0 \/ i + width > Len(s) + 1 THEN Failed
             ELSE IF From[i + width] = Failed THEN Failed
             ELSE <<Decoded(SubSeq(s, i, i + width - 1))>> \o From[i + width]
  IN IF From[1] = Failed THEN <<>> ELSE From[1]

-----------------------------------------------------------------------------
(* Properties *)

\* A character goes to UTF-8 and back, alone, before another and behind another,
\* for every one of 16 bits: those of one byte, of two, and of three.
Utf16RoundTrip ==
  \A w \in {<<character>>, <<character, 127>>, <<2048, character>>} :
    utf8Toutf16(utf16Toutf8(w)) = w
=============================================================================
