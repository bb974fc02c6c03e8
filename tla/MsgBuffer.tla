----------------------------- MODULE MsgBuffer ------------------------------
(***************************************************************************)
(* xiao::MsgBuffer: a byte buffer over a vector, read from head_ and       *)
(* written from tail_, with xBufferOffset bytes of room kept in front for  *)
(* addInFront().  The readers of integers and strings are peek() and       *)
(* retrieve(); their writers are append() and addInFront().                *)
(*                                                                         *)
(* The functions below are the member functions, from the buffer before    *)
(* to the buffer after; the state machine calls them in every order.       *)
(* std::copy between overlapping ranges of char is memmove in the builds.  *)
(***************************************************************************)
EXTENDS Integers, Sequences

CONSTANTS
  Bytes, Zero,
  Offset,       \* xBufferOffset
  ExtLen,       \* sizeof extBuffer in readFd
  InitLen,      \* the constructor's argument
  Inputs,       \* byte strings the callers write
  MaxReadable   \* bound on readable bytes plus bytes asked for

ASSUME BytesAssumption == Zero \in Bytes /\ Inputs \subseteq Seq(Bytes)
\* With InitLen below Offset the resize() of retrieveAll() is reachable.
ASSUME SizesAssumption ==
  /\ Offset \in Nat /\ ExtLen \in Nat /\ MaxReadable \in Nat
  /\ InitLen \in Offset..MaxReadable

VARIABLE buf

\* A MsgBuffer: head_, tail_, initCap_, and buffer_ with its size().
Cells(size) == [0..(size - 1) -> Bytes]
ReadableBytes(m) == m.tail - m.head
WritableBytes(m) == m.size - m.tail
Peek(m) == [i \in 1..ReadableBytes(m) |-> m.buffer[m.head + i - 1]]

\* MsgBuffer(len)
New(len) ==
  [head |-> Offset, tail |-> Offset, initCap |-> len, size |-> len + Offset,
   buffer |-> [i \in 0..(len + Offset - 1) |-> Zero]]

\* The cells with s written from index at on (memcpy, std::copy).
Written(cells, at, s) ==
  [i \in DOMAIN cells |-> IF i \in at..(at + Len(s) - 1) THEN s[i - at + 1] ELSE cells[i]]

\* m with its head_ and tail_ moved and its cells rewritten.
With(m, head, tail, cells) ==
  [head |-> head, tail |-> tail, initCap |-> m.initCap, size |-> m.size, buffer |-> cells]

\* Write s at beginWrite() and move tail_: needs Len(s) writable bytes.
Put(m, s) == With(m, m.head, m.tail + Len(s), Written(m.buffer, m.tail, s))

CompactedWithoutCopy(m) == With(m, Offset, Offset + ReadableBytes(m), m.buffer)

Compacted(m) ==
  With(m, Offset, Offset + ReadableBytes(m), Written(m.buffer, Offset, Peek(m)))

\* The new buffer takes the old one's bytes with append(), which finds room.
GrownLen(m, len) ==
  LET need == Offset + ReadableBytes(m) + len
  IN  IF 2 * m.size > need THEN 2 * m.size ELSE need
Grown(m, len) == Put(New(GrownLen(m, len)), Peek(m))

NeverCompacting(m, len) ==
  IF WritableBytes(m) >= len THEN m ELSE Grown(m, len)

EnsureWriteableBytes(m, len) ==
  IF WritableBytes(m) >= len THEN m
  ELSE IF m.head + WritableBytes(m) >= len + Offset THEN Compacted(m)
  ELSE Grown(m, len)

Appended(m, s) == Put(EnsureWriteableBytes(m, Len(s)), s)

\* append(*this) reads peek() and the length only after making room.
AppendedToItself(m) ==
  LET e == EnsureWriteableBytes(m, ReadableBytes(m)) IN Put(e, Peek(e))

Prepended(m, s) ==
  IF m.head >= Len(s)
  THEN With(m, m.head - Len(s), m.tail, Written(m.buffer, m.head - Len(s), s))
  ELSE IF Len(s) <= WritableBytes(m)
  THEN With(m, m.head, m.tail + Len(s),
            Written(Written(m.buffer, m.head + Len(s), Peek(m)), m.head, s))
  ELSE LET need == Len(s) + ReadableBytes(m)
       IN  Put(Put(New(IF need < m.initCap THEN m.initCap ELSE need), s), Peek(m))

Resized(m, size) ==
  [m EXCEPT !.size = size, !.buffer = [i \in 0..(size - 1) |-> m.buffer[i]]]

RetrievedAll(m) ==
  LET kept == IF m.size > 2 * m.initCap THEN Resized(m, m.initCap) ELSE m
  IN  With(kept, Offset, Offset, kept.buffer)

Retrieved(m, len) ==
  IF len >= ReadableBytes(m) THEN RetrievedAll(m)
  ELSE With(m, m.head + len, m.tail, m.buffer)

\* readFd() when readv() delivers s: what fits goes behind tail_, the rest
\* comes from extBuffer.
ReceivedAll(m, s) ==
  LET n == WritableBytes(m)
  IN  IF Len(s) <= n THEN Put(m, s)
      ELSE Appended(Put(m, SubSeq(s, 1, n)), SubSeq(s, n + 1, Len(s)))
ReadvLimit(m) ==
  WritableBytes(m) + (IF WritableBytes(m) < ExtLen THEN ExtLen ELSE 0)

-----------------------------------------------------------------------------
Room(len) == ReadableBytes(buf) + len <= MaxReadable

Init == buf = New(InitLen)

EnsureWriteable(len) == Room(len) /\ buf' = EnsureWriteableBytes(buf, len)

AppendBytes(s) == Room(Len(s)) /\ buf' = Appended(buf, s)

AppendSelf == Room(ReadableBytes(buf)) /\ buf' = AppendedToItself(buf)

\* The caller has written s at beginWrite(); hasWritten() asserts it fits.
HasWritten(s) ==
  /\ Room(Len(s)) /\ Len(s) <= WritableBytes(buf)
  /\ buf' = Put(buf, s)

\* A readv() that fails or meets the end of the file changes nothing.
ReadFd(s) ==
  /\ Room(Len(s)) /\ Len(s) <= ReadvLimit(buf)
  /\ buf' = ReceivedAll(buf, s)

AddInFront(s) == Room(Len(s)) /\ buf' = Prepended(buf, s)

\* retrieve(), retrieveUntil(), read(), readInt8() to readInt64().
Retrieve(len) == buf' = Retrieved(buf, len)

RetrieveAll == buf' = RetrievedAll(buf)

\* unwrite() asserts that it takes back no more than is there.
Unwrite(len) ==
  /\ len <= ReadableBytes(buf)
  /\ buf' = With(buf, buf.head, buf.tail - len, buf.buffer)

Next ==
  \/ \E s \in Inputs : AppendBytes(s) \/ HasWritten(s) \/ ReadFd(s) \/ AddInFront(s)
  \/ \E n \in 1..MaxReadable : EnsureWriteable(n) \/ Retrieve(n) \/ Unwrite(n)
  \/ AppendSelf \/ RetrieveAll

Spec == Init /\ [][Next]_buf

-----------------------------------------------------------------------------
(* Properties *)

\* head_ and tail_ stay inside the vector and in order, and the vector is
\* always the initial capacity and the offset.
TypeOK ==
  /\ buf.head \in Nat /\ buf.tail \in Nat /\ buf.initCap \in Nat
  /\ buf.head <= buf.tail /\ buf.tail <= buf.size
  /\ buf.initCap >= Offset
  /\ buf.size = buf.initCap + Offset
  /\ buf.buffer \in Cells(buf.size)

Queue == INSTANCE ByteQueue WITH bytes <- Peek(buf)

\* Every member function does to the readable bytes what a byte queue does,
\* whichever of moving, compacting, growing or reading through extBuffer it
\* has to resort to.
ImplementsByteQueue ==
  [][/\ \A s \in Inputs :
          /\ AppendBytes(s) \/ HasWritten(s) \/ ReadFd(s) => Queue!PutBack(s)
          /\ AddInFront(s) => Queue!PutFront(s)
     /\ \A n \in 1..MaxReadable :
          /\ EnsureWriteable(n) => Queue!Keep
          /\ Retrieve(n) => Queue!Consume(n)
          /\ Unwrite(n) => Queue!Cut(n)
     /\ AppendSelf => Queue!PutBack(Peek(buf))
     /\ RetrieveAll => Queue!Consume(ReadableBytes(buf))]_buf

\* The vector never shrinks: the resize() in retrieveAll(), which compares
\* size() with twice initCap_, is never reached, because growing replaces
\* initCap_ along with the vector.
NeverShrinks == [][buf'.size >= buf.size]_buf

\* Memory follows the largest demand there ever was: at most twice that and
\* the offsets, however the operations are mixed.
CapacityBounded == buf.size <= 2 * (MaxReadable + Offset) + Offset
=============================================================================
