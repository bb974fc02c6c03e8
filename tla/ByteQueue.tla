----------------------------- MODULE ByteQueue ------------------------------
(***************************************************************************)
(* What a message buffer and the buffer of a log statement promise: a      *)
(* sequence of bytes that takes bytes at both ends, gives them up from the *)
(* front, and can be cut short at the back.  Capacity, offsets and copying *)
(* are not its business.                                                   *)
(***************************************************************************)
EXTENDS Integers, Sequences

VARIABLE bytes

PutBack(s)  == bytes' = bytes \o s
PutFront(s) == bytes' = s \o bytes
Consume(n)  == bytes' = SubSeq(bytes, n + 1, Len(bytes))
Cut(n)      == bytes' = SubSeq(bytes, 1, Len(bytes) - n)
Keep        == bytes' = bytes
=============================================================================
