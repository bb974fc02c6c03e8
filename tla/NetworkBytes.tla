---------------------------- MODULE NetworkBytes -----------------------------
(***************************************************************************)
(* The integers a MsgBuffer takes and gives: appendInt8() to appendInt64(),*)
(* addInFrontInt8() to addInFrontInt64(), peekInt8() to peekInt64() and    *)
(* readInt8() to readInt64(), on hosts of either byte order.               *)
(***************************************************************************)
EXTENDS MsgBuffer, SequencesExt

CONSTANTS
  Base,     \* the number of values of a byte
  Widths    \* bytes of an integer: 1, 2, 4 and 8

ASSUME BytesAreDigits == Base \in Nat /\ Bytes = 0..(Base - 1)
ASSUME WidthsAssumption == Widths \subseteq Nat \ {0}

\* Base^k, written out: the provers know nothing of ^.
Power[k \in Nat] == IF k = 0 THEN 1 ELSE Base * Power[k - 1]

Values(width) == 0..(Power[width] - 1)

BigEndian(n, width) == [i \in 1..width |-> (n \div Power[width - i]) % Base]

\* How a host keeps an integer in memory, and what it takes memory for.
Stored(little, n, width) ==
  IF little THEN Reverse(BigEndian(n, width)) ELSE BigEndian(n, width)
Loaded(little, s) == CHOOSE n \in Values(Len(s)) : Stored(little, n, Len(s)) = s

Unswapped(little, n, width) == n

\* hton64() and ntoh64(): on a host that keeps the low byte first, reversed.
\* htons() and htonl() are the library's and do the same.
hton(little, n, width) ==
  IF ~little THEN n ELSE Loaded(little, Reverse(Stored(little, n, width)))

appendInt(little, m, n, width) ==
  Appended(m, Stored(little, hton(little, n, width), width))

addInFrontInt(little, m, n, width) ==
  Prepended(m, Stored(little, hton(little, n, width), width))

peekInt(little, m, width) ==
  hton(little, Loaded(little, SubSeq(Peek(m), 1, width)), width)

\* readInt8() to readInt64(): the integer and the buffer after it.
readInt(little, m, width) ==
  [value |-> peekInt(little, m, width), rest |-> Retrieved(m, width)]

\* Whatever the buffer holds and however it makes room, an integer goes into it
\* with the high byte first, in front as at the end, a host of either byte order
\* reads the number another has written, and the bytes behind it stay.
IntegersTravel ==
  \A sender, receiver \in BOOLEAN, width \in Widths :
    Room(width) =>
      \A n \in Values(width) :
        LET back == appendInt(sender, buf, n, width)
            front == addInFrontInt(sender, buf, n, width)
            read == readInt(receiver, front, width)
        IN  /\ Peek(back) = Peek(buf) \o BigEndian(n, width)
            /\ read.value = n /\ Peek(read.rest) = Peek(buf)
            /\ peekInt(receiver, Retrieved(back, ReadableBytes(buf)), width) = n
=============================================================================
