---------------------------- MODULE MCSequential ----------------------------
(***************************************************************************)
(* Sequential code for TLC: a small log statement, beside it the           *)
(* conversions of every number of 16 bits and the texts of as many dates,  *)
(* and beside both a hash function and two compression functions.  One of  *)
(* these moves while the others are where they start.                      *)
(***************************************************************************)
EXTENDS LogStream, NumberFormat, Utf

CONSTANTS Micros, Minute, Hour, DayHours, Zone, Summer, SummerBegin, SummerEnd

\* The dates are those around 1970, and Near microseconds around the turns of the
\* centuries, 2000 and 2100 (10957 and 47482 days later).
CONSTANTS Turns, Near

CONSTANTS BlockBytes, LengthBytes, SizeBits, Rate, Blake2Bytes, CounterBits, KeyBytes, MaxBytes

VARIABLES algorithm, ctx, fed, calls, digest
hashVars == <<algorithm, ctx, fed, calls, digest>>

VARIABLES sha1, fips180, keccak, fips202, begun
compression == <<sha1, fips180, keccak, fips202, begun>>

MaxBlocks == 2

\* The padded message "abc", and a block of all sorts of bytes.
Buffers ==
  { <<97, 98, 99, 128>> \o [i \in 1..59 |-> 0] \o <<24>>, [k \in 1..64 |-> (k * 37) % 256] }

Compress == INSTANCE Compression
Hash == INSTANCE Hashing
ASSUME HashAssumption == Hash!SizesAreSound

MCTexts == BoundedSeq(Chars, 2)

\* Numbers as short as their room allows, and as long.
MCNumbers == {[text |-> s, room |-> 3] : s \in BoundedSeq(Chars, 2) \ {<<>>}}

ShortLeast == -32768

\* The digest is that of the message alone; see Hashing.
DigestOfMessage == Hash!DigestOfMessage

\* Code and standard go the same way, step by step; see Compression.
AsStandardised == Compress!AsStandardised

\* A date is told by its text; see DateText.
DateTexts == INSTANCE DateText
TextsTellDates ==
  /\ DateTexts!TextsTellDates(value)
  /\ value \in -Near..Near => \A turn \in Turns : DateTexts!TextsTellDates(turn + value)

NextValue ==
  /\ value < Greatest /\ value' = value + 1
  /\ UNCHANGED vars

HashAtStart == algorithm = "MD5" /\ calls = 0 /\ digest = <<>>

Apart ==
  \/ /\ HashAtStart /\ begun = 0 /\ UNCHANGED <<hashVars, compression>>
     /\ (Contents = <<>> /\ NextValue) \/ (value = Least /\ Next /\ UNCHANGED value)
  \/ /\ value = Least /\ Contents = <<>> /\ UNCHANGED <<vars, value>>
     /\ \/ begun = 0 /\ Hash!Next /\ UNCHANGED compression
        \/ HashAtStart /\ Compress!Next /\ UNCHANGED hashVars

\* The same 16 bits, taken as a number and as a character.
TextNext == Apart /\ character' = value' % 65536

TextInit ==
  Init /\ value = Least /\ character = value % 65536 /\ Hash!Init /\ Compress!Init
TextSpec == TextInit /\ [][TextNext]_<<vars, value, character, hashVars, compression>>
=============================================================================
