----------------------------- MODULE LogStream ------------------------------
(***************************************************************************)
(* xiao::LogStream: the text of one log statement, collected in a buffer   *)
(* of fixed size and, from the first piece that does not fit, in a string  *)
(* that starts with a copy of the buffer.                                  *)
(*                                                                         *)
(* A number comes as its text and the room its operator asks for before it *)
(* formats into the buffer; NumberFormat is about the text itself.         *)
(***************************************************************************)
EXTENDS Integers, Sequences

CONSTANTS
  Chars,
  Size,         \* xSmallBuffer
  Texts,        \* texts given to append()
  Numbers,      \* formatted numbers
  MaxLength     \* bound on the length of a statement

ASSUME SizeAssumption == Size \in Nat \ {0} /\ MaxLength \in Nat
ASSUME TextsAssumption == Texts \subseteq Seq(Chars)
\* A number and its '\0' fit the room asked for.
ASSUME NumbersAssumption ==
  /\ Numbers \subseteq [text : Seq(Chars) \ {<<>>}, room : Nat]
  /\ \A n \in Numbers : Len(n.text) < n.room

VARIABLES
  buffer_,      \* the characters of buffer_ up to cur_
  exBuffer_

vars == <<buffer_, exBuffer_>>

Init == buffer_ = <<>> /\ exBuffer_ = <<>>

avail == Size - Len(buffer_)

\* bufferData() and bufferLength().
Contents == IF exBuffer_ # <<>> THEN exBuffer_ ELSE buffer_

Fits(s) == Len(Contents) + Len(s) <= MaxLength

ToBuffer(s) == buffer_' = buffer_ \o s /\ UNCHANGED exBuffer_

OverflowUncopied(s) == exBuffer_' = exBuffer_ \o s /\ UNCHANGED buffer_

\* The string takes over what the buffer holds when it is still empty.
Overflow(s) ==
  /\ exBuffer_' = Contents \o s
  /\ UNCHANGED buffer_

\* append(), behind every operator<< for text and for Fmt.
AppendText(s) ==
  /\ Fits(s)
  /\ IF exBuffer_ = <<>> /\ avail > Len(s) THEN ToBuffer(s) ELSE Overflow(s)

\* formatInteger() and the operators for addresses and floating point.
AppendNumber(n) ==
  /\ Fits(n.text)
  /\ IF exBuffer_ = <<>> /\ avail >= n.room THEN ToBuffer(n.text) ELSE Overflow(n.text)

ResetBuffer == buffer_' = <<>> /\ exBuffer_' = <<>>

Next ==
  \/ \E s \in Texts : AppendText(s)
  \/ \E n \in Numbers : AppendNumber(n)
  \/ ResetBuffer

Spec == Init /\ [][Next]_vars

-----------------------------------------------------------------------------
(* Properties *)

\* Every variable keeps its type, and the buffer is never full: one character
\* is left for the '\0' of debugString() and of the conversions.
TypeOK ==
  /\ buffer_ \in Seq(Chars) /\ Len(buffer_) < Size
  /\ exBuffer_ \in Seq(Chars)

Text == INSTANCE ByteQueue WITH bytes <- Contents

\* Whichever of the two holds it, bufferData() is all that was streamed, in
\* order: the change from the buffer to the string loses and repeats nothing,
\* and no later piece, however short, goes back to the buffer.
ImplementsByteQueue ==
  [][/\ \A s \in Texts : AppendText(s) => Text!PutBack(s)
     /\ \A n \in Numbers : AppendNumber(n) => Text!PutBack(n.text)
     /\ ResetBuffer => Text!Consume(Len(Contents))]_vars
=============================================================================
