------------------------------ MODULE Hashing -------------------------------
(***************************************************************************)
(* The hash functions of utils/crypto: how a message, given to update() in *)
(* pieces, becomes the blocks that are compressed.  The compression itself *)
(* is left abstract: the chaining value is the sequence of all that was    *)
(* compressed, as a collision-free function would have it, and the digest  *)
(* is the chaining value at the end.                                       *)
(*                                                                         *)
(* A byte of the message is named by its place in it: 256 and up.  Other   *)
(* numbers are bytes the padding adds, and Junk is memory never written.   *)
(***************************************************************************)
EXTENDS Integers, SequencesExt

CONSTANTS
  BlockBytes,     \* 64, the block of MD5, SHA-1 and SHA-256
  LengthBytes,    \* 8, the bytes of the message's length in its last block
  SizeBits,       \* the width of size_t
  Rate,           \* rsiz of SHA-3: the bytes absorbed between permutations
  Blake2Bytes,    \* 128, the block of BLAKE2b
  CounterBits,    \* 64, the width of a word of BLAKE2b's counter
  KeyBytes,       \* the length of the key of keyed BLAKE2b
  MaxBytes        \* bound on the length of the message

\* What the constants have to be, for whoever instantiates the module.
SizesAreSound ==
  /\ BlockBytes \in Nat /\ LengthBytes \in Nat /\ LengthBytes % 2 = 0
  /\ 0 < LengthBytes /\ LengthBytes < BlockBytes
  /\ SizeBits \in Nat /\ SizeBits >= 4 * LengthBytes
  /\ Rate \in Nat \ {0} /\ Blake2Bytes \in Nat \ {0} /\ CounterBits \in Nat
  /\ KeyBytes \in 1..Blake2Bytes /\ MaxBytes \in Nat

Junk == -1
Zeros(n) == [i \in 1..n |-> 0]
Message(n) == [i \in 1..n |-> 255 + i]
Key == [i \in 1..KeyBytes |-> 0 - 1 - i]

\* The i-th part of n bytes, counted from 1.
Part(bytes, i, n) == SubSeq(bytes, (i - 1) * n + 1, i * n)
Parts(bytes, count, n) == [i \in 1..count |-> Part(bytes, i, n)]

-----------------------------------------------------------------------------
(* MD5 and SHA-256, which differ in the order of the length's bytes.       *)

MdInit == [data |-> [i \in 1..BlockBytes |-> Junk], datalen |-> 0, bitlen |-> 0,
           chain |-> <<>>]

\* One turn of the loop of update().
MdByte(c, byte) ==
  LET data == [c.data EXCEPT ![c.datalen + 1] = byte] IN
  IF c.datalen + 1 = BlockBytes
  THEN [data |-> data, chain |-> Append(c.chain, data), datalen |-> 0,
        bitlen |-> (c.bitlen + 8 * BlockBytes) % 2^(8 * LengthBytes)]
  ELSE [c EXCEPT !.data = data, !.datalen = @ + 1]

MdUpdate(c, bytes) == FoldLeft(MdByte, c, bytes)

BigEndian(n) == [i \in 1..LengthBytes |-> (n \div 256^(LengthBytes - i)) % 256]
LittleEndian(n) == Reverse(BigEndian(n))

\* ctx->data with 0x80 after the bytes in it and zeros up to end.
MdClosed(c, end) ==
  SubSeq(c.data, 1, c.datalen) \o <<128>> \o Zeros(end - c.datalen - 1)

\* final(): the length in a block of its own when the rest leaves no room.
MdFinal(c, length) ==
  LET end == BlockBytes - LengthBytes IN
  IF c.datalen < end
  THEN Append(c.chain, MdClosed(c, end) \o length)
  ELSE c.chain \o <<MdClosed(c, BlockBytes), Zeros(end) \o length>>

MdLength(c) == (c.bitlen + c.datalen * 8) % 2^(8 * LengthBytes)
Sha256Final(c) == MdFinal(c, BigEndian(MdLength(c)))
Md5Final(c) == MdFinal(c, LittleEndian(MdLength(c)))

-----------------------------------------------------------------------------
(* SHA-1. The two words of count hold 32 bits each of the length, and are  *)
(* of type size_t.                                                         *)

WordBits == 4 * LengthBytes
Sha1Init == [buffer |-> [i \in 1..BlockBytes |-> Junk], count |-> <<0, 0>>, chain |-> <<>>]

\* memcpy to the buffer at j.
Copied(buffer, j, bytes) ==
  SubSeq(buffer, 1, j) \o bytes \o SubSeq(buffer, j + Len(bytes) + 1, Len(buffer))

Sha1Count(count, len) ==
  LET low == (count[1] + len * 8) % 2^SizeBits IN
  <<low, (count[2] + (IF low < count[1] THEN 1 ELSE 0) + len \div 2^(WordBits - 3)) % 2^SizeBits>>

Sha1Update(c, bytes) ==
  LET len == Len(bytes)
      j == (c.count[1] \div 8) % BlockBytes
      fill == BlockBytes - j
      whole == (len - fill) \div BlockBytes
      rest == SubSeq(bytes, fill + 1, len)
      first == Copied(c.buffer, j, SubSeq(bytes, 1, fill))
  IN [count |-> Sha1Count(c.count, len)] @@
     IF j + len > BlockBytes - 1
     THEN [chain |-> Append(c.chain, first) \o Parts(rest, whole, BlockBytes),
           buffer |-> Copied(first, 0, SubSeq(rest, whole * BlockBytes + 1, Len(rest)))]
     ELSE [chain |-> c.chain, buffer |-> Copied(c.buffer, j, bytes)]

\* finalcount: the low 32 bits of each word, the second first.
Sha1FinalCount(count) ==
  LET bytes(word) == [i \in 1..(LengthBytes \div 2) |->
                        (word \div 256^(LengthBytes \div 2 - i)) % 256]
  IN bytes(count[2]) \o bytes(count[1])

\* The padding goes through update() byte by byte, until the length fits.
Sha1Final(c) ==
  LET closed == Sha1Update(c, <<128>>)
      zeros == (BlockBytes - LengthBytes - closed.count[1] \div 8) % BlockBytes
      padded == FoldLeft(Sha1Update, closed, [i \in 1..zeros |-> <<0>>])
  IN Sha1Update(padded, Sha1FinalCount(c.count)).chain

-----------------------------------------------------------------------------
(* SHA-3. What is xored into a byte of the state since the last            *)
(* permutation is a set: xor adds to it or takes away.                     *)

Sha3Init == [st |-> [i \in 1..Rate |-> {}], pt |-> 0, chain |-> <<>>]

Xored(st, i, byte) == [st EXCEPT ![i] = (@ \ {byte}) \cup ({byte} \ @)]

Sha3Byte(c, byte) ==
  LET st == Xored(c.st, c.pt + 1, byte) IN
  IF c.pt + 1 >= Rate
  THEN [st |-> Sha3Init.st, pt |-> 0, chain |-> Append(c.chain, st)]
  ELSE [c EXCEPT !.st = st, !.pt = @ + 1]

Sha3Update(c, bytes) == FoldLeft(Sha3Byte, c, bytes)

Sha3Final(c) == Append(c.chain, Xored(Xored(c.st, c.pt + 1, 6), Rate, 128))

-----------------------------------------------------------------------------
(* BLAKE2b, which keeps a full block until more comes: the last one is     *)
(* compressed with a flag, and each with the count of bytes up to its end. *)

Counted(t, inc) ==
  LET low == (t[1] + inc) % 2^CounterBits
  IN <<low, (t[2] + (IF low < inc THEN 1 ELSE 0)) % 2^CounterBits>>

\* increment_counter() and F().
Compressed(c, block, inc, last) ==
  LET t == Counted(c.t, inc) IN
  [c EXCEPT !.t = t, !.chain = Append(@, [block |-> block, t |-> t, last |-> last])]
Blake2Full(c, block) == Compressed(c, block, Blake2Bytes, FALSE)

\* A mutated form of Blake2Update: a block goes as soon as it is full.
Blake2UpdateEager(c, bytes) ==
  LET fill == Blake2Bytes - c.buflen
      rest == SubSeq(bytes, fill + 1, Len(bytes))
      whole == Len(rest) \div Blake2Bytes
      full == FoldLeft(Blake2Full, Blake2Full(c, Copied(c.buf, c.buflen, SubSeq(bytes, 1, fill))),
                       Parts(rest, whole, Blake2Bytes))
      left == SubSeq(rest, whole * Blake2Bytes + 1, Len(rest))
  IN IF Len(bytes) >= fill
     THEN [full EXCEPT !.buf = Copied(c.buf, 0, left), !.buflen = Len(left)]
     ELSE [c EXCEPT !.buf = Copied(@, c.buflen, bytes), !.buflen = @ + Len(bytes)]

\* update(): a block goes when more than it has come.
Blake2Update(c, bytes) ==
  LET fill == Blake2Bytes - c.buflen
      rest == SubSeq(bytes, fill + 1, Len(bytes))
      whole == (Len(rest) - 1) \div Blake2Bytes
      first == Copied(c.buf, c.buflen, SubSeq(bytes, 1, fill))
      full == FoldLeft(Blake2Full, Blake2Full(c, first), Parts(rest, whole, Blake2Bytes))
      left == SubSeq(rest, whole * Blake2Bytes + 1, Len(rest))
  IN IF Len(bytes) > fill
     THEN [full EXCEPT !.buf = Copied(first, 0, left), !.buflen = Len(left)]
     ELSE [c EXCEPT !.buf = Copied(@, c.buflen, bytes), !.buflen = @ + Len(bytes)]

Blake2Start == [buf |-> Zeros(Blake2Bytes), buflen |-> 0, t |-> <<0, 0>>, chain |-> <<>>]
Blake2Init(key) ==
  IF key = <<>> THEN Blake2Start
  ELSE Blake2Update(Blake2Start, key \o Zeros(Blake2Bytes - Len(key)))

Blake2Final(c) ==
  Compressed(c, SubSeq(c.buf, 1, c.buflen) \o Zeros(Blake2Bytes - c.buflen), c.buflen, TRUE).chain
-----------------------------------------------------------------------------
(* One context, from init() over any calls of update() to final().         *)

Algorithms == {"MD5", "SHA-1", "SHA-256", "SHA-3", "BLAKE2b", "BLAKE2b with a key"}

VARIABLES
  algorithm, ctx,
  fed,      \* bytes of the message given to update()
  calls,    \* of update(), counted up to two
  digest    \* empty until final()

vars == <<algorithm, ctx, fed, calls, digest>>

Initialised(a) ==
  CASE a \in {"MD5", "SHA-256"} -> MdInit
    [] a = "SHA-1" -> Sha1Init
    [] a = "SHA-3" -> Sha3Init
    [] a = "BLAKE2b" -> Blake2Init(<<>>)
    [] OTHER -> Blake2Init(Key)

Updated(a, c, bytes) ==
  CASE a \in {"MD5", "SHA-256"} -> MdUpdate(c, bytes)
    [] a = "SHA-1" -> Sha1Update(c, bytes)
    [] a = "SHA-3" -> Sha3Update(c, bytes)
    [] OTHER -> Blake2Update(c, bytes)

Finalised(a, c) ==
  CASE a = "MD5" -> Md5Final(c)
    [] a = "SHA-256" -> Sha256Final(c)
    [] a = "SHA-1" -> Sha1Final(c)
    [] a = "SHA-3" -> Sha3Final(c)
    [] OTHER -> Blake2Final(c)

Init ==
  /\ algorithm \in Algorithms
  /\ ctx = Initialised(algorithm)
  /\ fed = 0 /\ calls = 0 /\ digest = <<>>

Update(n) ==
  /\ digest = <<>> /\ fed + n <= MaxBytes
  /\ ctx' = Updated(algorithm, ctx, SubSeq(Message(fed + n), fed + 1, fed + n))
  /\ fed' = fed + n
  /\ calls' = IF calls = 2 THEN 2 ELSE calls + 1
  /\ UNCHANGED <<algorithm, digest>>

Final ==
  /\ digest = <<>>
  /\ digest' = Finalised(algorithm, ctx)
  /\ UNCHANGED <<algorithm, ctx, fed, calls>>

Next == Final \/ \E n \in 0..MaxBytes : Update(n)

Spec == Init /\ [][Next]_vars

-----------------------------------------------------------------------------
(* What the standards say is compressed, from the whole message.           *)

MdBlocks(message, length) ==
  LET zeros == (BlockBytes - LengthBytes - Len(message) - 1) % BlockBytes
      padded == message \o <<128>> \o Zeros(zeros) \o length
  IN Parts(padded, Len(padded) \div BlockBytes, BlockBytes)

Sha3Blocks(message) ==
  LET n == Len(message)
      count == n \div Rate + 1
      padded == [i \in 1..(count * Rate) |->
        IF i <= n THEN {message[i]}
        ELSE (IF i = n + 1 THEN {6} ELSE {}) \cup (IF i = count * Rate THEN {128} ELSE {})]
  IN Parts(padded, count, Rate)

\* Blocks of the message, of one block at least, the last one filled with zeros.
Blake2Blocks(message) ==
  LET n == Len(message)
      count == IF n = 0 THEN 1 ELSE (n + Blake2Bytes - 1) \div Blake2Bytes
      padded == message \o Zeros(count * Blake2Bytes - n)
      upTo(i) == IF i = count THEN n ELSE i * Blake2Bytes
  IN [i \in 1..count |->
       [block |-> Part(padded, i, Blake2Bytes), last |-> i = count,
        t |-> <<upTo(i) % 2^CounterBits, upTo(i) \div 2^CounterBits>>]]

Reference ==
  LET message == Message(fed) IN
  CASE algorithm = "MD5" -> MdBlocks(message, LittleEndian(8 * fed))
    [] algorithm \in {"SHA-1", "SHA-256"} -> MdBlocks(message, BigEndian(8 * fed))
    [] algorithm = "SHA-3" -> Sha3Blocks(message)
    [] algorithm = "BLAKE2b" -> Blake2Blocks(message)
    [] OTHER -> Blake2Blocks(Key \o Zeros(Blake2Bytes - KeyBytes) \o message)

\* The digest is that of the message alone: how update() was called, what the
\* buffer held before and where the message ends do not show in it. Except that
\* SHA-1 counts with words of type size_t where it means words of 32 bits, and
\* loses the carry between them when no single call brings it: a message of
\* 2^29 bytes and more in several calls.
DigestOfMessage ==
  digest # <<>> =>
    \/ digest = Reference
    \/ /\ algorithm = "SHA-1" /\ SizeBits > WordBits
       /\ fed >= 2^(WordBits - 3) /\ calls > 1
=============================================================================
