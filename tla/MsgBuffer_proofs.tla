-------------------------- MODULE MsgBuffer_proofs --------------------------
(***************************************************************************)
(* Proofs about MsgBuffer, for every offset, initial length, set of inputs *)
(* and demand.  The bytes of a buffer are a window on its cells; four      *)
(* lemmas say what writing, splitting and cutting do to windows.  Each     *)
(* member function then has a lemma: what it makes of a good buffer is     *)
(* good, what it does to the readable bytes, and how far it may grow.      *)
(***************************************************************************)
EXTENDS NetworkBytes, SequenceTheorems, WellFoundedInduction, TLAPS

\* What TypeOK says of buf, for any buffer.
Good(m) ==
  /\ m.head \in Nat /\ m.tail \in Nat /\ m.initCap \in Nat /\ m.size \in Nat
  /\ m.head <= m.tail /\ m.tail <= m.size
  /\ m.initCap >= Offset /\ m.size = m.initCap + Offset
  /\ m.buffer \in Cells(m.size)

\* The offset and the bounds are numbers.
LEMMA Numbers ==
  /\ Offset \in Nat /\ ExtLen \in Nat /\ MaxReadable \in Nat /\ InitLen \in Nat
  /\ Offset <= InitLen /\ InitLen <= MaxReadable
  BY SizesAssumption DEF SizesAssumption

\* The inputs are byte strings.
LEMMA InputsAreBytes == Zero \in Bytes /\ \A s \in Inputs : s \in Seq(Bytes) /\ Len(s) \in Nat
  BY BytesAssumption DEF BytesAssumption

-----------------------------------------------------------------------------
(* Windows *)

\* The n cells from index at on.
Window(cells, at, n) == [i \in 1..n |-> cells[at + i - 1]]

\* A window inside the vector is a byte string.
LEMMA WindowTyped ==
  ASSUME NEW size \in Nat, NEW cells \in Cells(size), NEW at \in Nat, NEW n \in Nat,
         at + n <= size
  PROVE  /\ Window(cells, at, n) \in Seq(Bytes) /\ Len(Window(cells, at, n)) = n
         /\ \A i \in 1..n : Window(cells, at, n)[i] = cells[at + i - 1]
<1>1. ASSUME NEW i \in 1..n PROVE cells[at + i - 1] \in Bytes
  <2>1. at + i - 1 \in 0..(size - 1)
    OBVIOUS
  <2> QED BY <2>1 DEF Cells
<1>2. Window(cells, at, n) \in [1..n -> Bytes]
  BY <1>1 DEF Window
<1>3. Window(cells, at, n) \in Seq(Bytes) /\ Len(Window(cells, at, n)) = n
  BY <1>2
<1> QED BY <1>3 DEF Window

\* Writing stays inside the vector.
LEMMA WrittenTyped ==
  ASSUME NEW size \in Nat, NEW cells \in Cells(size), NEW at \in Nat, NEW s \in Seq(Bytes)
  PROVE  Written(cells, at, s) \in Cells(size)
<1>1. DOMAIN cells = 0..(size - 1) /\ \A i \in 0..(size - 1) : cells[i] \in Bytes
  BY DEF Cells
<1>2. Len(s) \in Nat /\ \A j \in 1..Len(s) : s[j] \in Bytes
  OBVIOUS
<1>3. ASSUME NEW i \in 0..(size - 1)
      PROVE  (IF i \in at..(at + Len(s) - 1) THEN s[i - at + 1] ELSE cells[i]) \in Bytes
  <2>1. CASE i \in at..(at + Len(s) - 1)
    <3>1. i - at + 1 \in 1..Len(s)
      BY <1>2, <2>1
    <3> QED BY <1>2, <2>1, <3>1
  <2>2. CASE i \notin at..(at + Len(s) - 1)
    BY <1>1, <2>2
  <2> QED BY <2>1, <2>2
<1> QED BY <1>1, <1>3 DEF Written, Cells

\* The cells after writing, one by one.
LEMMA WrittenAt ==
  ASSUME NEW size \in Nat, NEW cells \in Cells(size), NEW at, NEW s, NEW j \in 0..(size - 1)
  PROVE  Written(cells, at, s)[j]
           = IF j \in at..(at + Len(s) - 1) THEN s[j - at + 1] ELSE cells[j]
<1>1. j \in DOMAIN cells
  BY DEF Cells
<1> QED BY <1>1 DEF Written

\* What was written can be read.
LEMMA WindowOnWritten ==
  ASSUME NEW size \in Nat, NEW cells \in Cells(size), NEW at \in Nat, NEW s \in Seq(Bytes),
         at + Len(s) <= size
  PROVE  Window(Written(cells, at, s), at, Len(s)) = s
<1> DEFINE w == Written(cells, at, s)
<1>1. Len(s) \in Nat /\ w \in Cells(size)
  BY WrittenTyped
<1>2. /\ Window(w, at, Len(s)) \in Seq(Bytes) /\ Len(Window(w, at, Len(s))) = Len(s)
      /\ \A i \in 1..Len(s) : Window(w, at, Len(s))[i] = w[at + i - 1]
  BY <1>1, WindowTyped
<1>3. ASSUME NEW i \in 1..Len(s) PROVE w[at + i - 1] = s[i]
  <2>1. /\ at + i - 1 \in 0..(size - 1) /\ at + i - 1 \in at..(at + Len(s) - 1)
        /\ (at + i - 1) - at + 1 = i
    BY <1>1
  <2>2. PICK j \in 0..(size - 1) : j = at + i - 1
    BY <2>1
  <2>3. w[j] = IF j \in at..(at + Len(s) - 1) THEN s[j - at + 1] ELSE cells[j]
    <3>1. j \in DOMAIN cells
      BY DEF Cells
    <3> QED BY <3>1 DEF Written
  <2> HIDE DEF w
  <2> QED BY <2>1, <2>2, <2>3
<1> HIDE DEF w
<1>4. \A i \in 1..Len(s) : Window(w, at, Len(s))[i] = s[i]
  BY <1>2, <1>3
<1>5. Window(w, at, Len(s)) = s
  BY <1>2, <1>4, SeqEqual
<1> QED BY <1>5 DEF w

\* The rest is as it was.
LEMMA WindowBesideWritten ==
  ASSUME NEW size \in Nat, NEW cells \in Cells(size), NEW at \in Nat, NEW s \in Seq(Bytes),
         NEW from \in Nat, NEW n \in Nat, from + n <= size,
         from + n <= at \/ from >= at + Len(s)
  PROVE  Window(Written(cells, at, s), from, n) = Window(cells, from, n)
<1> DEFINE w == Written(cells, at, s)
<1>1. Len(s) \in Nat
  OBVIOUS
<1>2. ASSUME NEW i \in 1..n PROVE w[from + i - 1] = cells[from + i - 1]
  <2>1. PICK j \in 0..(size - 1) : j = from + i - 1 /\ j \notin at..(at + Len(s) - 1)
    BY <1>1
  <2>2. w[j] = IF j \in at..(at + Len(s) - 1) THEN s[j - at + 1] ELSE cells[j]
    BY WrittenAt
  <2> HIDE DEF w
  <2> QED BY <2>1, <2>2
<1> HIDE DEF w
<1>3. Window(w, from, n) = Window(cells, from, n)
  BY <1>2 DEF Window
<1> QED BY <1>3 DEF w

\* Two windows side by side are one.
LEMMA WindowJoin ==
  ASSUME NEW cells, NEW at \in Nat, NEW s \in Seq(Bytes), NEW t \in Seq(Bytes),
         Window(cells, at, Len(s)) = s, Window(cells, at + Len(s), Len(t)) = t
  PROVE  Window(cells, at, Len(s) + Len(t)) = s \o t
<1> DEFINE n == Len(s)  k == Len(t)  w == Window(cells, at, n + k)
<1>1. n \in Nat /\ k \in Nat /\ n + k \in Nat /\ at + n \in Nat
  OBVIOUS
<1>2. /\ s \o t \in Seq(Bytes) /\ Len(s \o t) = n + k
      /\ \A i \in 1..(n + k) : (s \o t)[i] = IF i <= n THEN s[i] ELSE t[i - n]
  BY ConcatProperties
<1>3. \A i \in 1..n : s[i] \in Bytes /\ s[i] = cells[at + i - 1]
  BY <1>1 DEF Window
<1>4. \A i \in 1..k : t[i] \in Bytes /\ t[i] = cells[(at + n) + i - 1]
  BY <1>1 DEF Window
<1>5. ASSUME NEW i \in 1..(n + k)
      PROVE  cells[at + i - 1] \in Bytes /\ (s \o t)[i] = cells[at + i - 1]
  <2>1. CASE i <= n
    <3>1. i \in 1..n
      BY <1>1, <2>1
    <3> QED BY <1>2, <1>3, <2>1, <3>1
  <2>2. CASE ~(i <= n)
    <3>1. i - n \in 1..k /\ (at + n) + (i - n) - 1 = at + i - 1
      BY <1>1, <2>2
    <3>2. t[i - n] = cells[at + i - 1] /\ t[i - n] \in Bytes
      BY <1>4, <3>1
    <3> QED BY <1>2, <2>2, <3>2
  <2> QED BY <2>1, <2>2
<1> HIDE DEF n, k
<1>6. w \in Seq(Bytes) /\ Len(w) = n + k /\ \A i \in 1..(n + k) : w[i] = cells[at + i - 1]
  <2>1. w \in [1..(n + k) -> Bytes]
    BY <1>5 DEF Window
  <2>2. w \in Seq(Bytes) /\ Len(w) = n + k
    BY <1>1, <2>1
  <2> QED BY <2>2 DEF Window
<1> HIDE DEF w
<1>7. w = s \o t
  BY <1>2, <1>5, <1>6, SeqEqual
<1> QED BY <1>7 DEF w, n, k

\* A window without its first k cells is a window.
CutFront(cells, at, n, k) == SubSeq(Window(cells, at, n), k + 1, n) = Window(cells, at + k, n - k)

LEMMA WindowCutFront ==
  ASSUME NEW cells, NEW at \in Nat, NEW n \in Nat, NEW k \in Nat, k <= n
  PROVE  CutFront(cells, at, n, k)
<1>1. n - k \in Nat /\ n - (k + 1) + 1 = n - k
  OBVIOUS
<1>2. SubSeq(Window(cells, at, n), k + 1, n)
        = [i \in 1..(n - k) |-> Window(cells, at, n)[i + (k + 1) - 1]]
  BY <1>1
<1>3. ASSUME NEW i \in 1..(n - k)
      PROVE  Window(cells, at, n)[i + (k + 1) - 1] = cells[(at + k) + i - 1]
  <2>1. i + (k + 1) - 1 \in 1..n /\ at + (i + (k + 1) - 1) - 1 = (at + k) + i - 1
    BY <1>1
  <2> QED BY <2>1 DEF Window
<1> QED BY <1>2, <1>3 DEF Window, CutFront

\* The first l cells of a window are a window.
LEMMA WindowCutBack ==
  ASSUME NEW cells, NEW at \in Nat, NEW n \in Nat, NEW l \in Nat, l <= n
  PROVE  SubSeq(Window(cells, at, n), 1, l) = Window(cells, at, l)
<1>1. SubSeq(Window(cells, at, n), 1, l) = [i \in 1..l |-> Window(cells, at, n)[i + 1 - 1]]
  OBVIOUS
<1>2. ASSUME NEW i \in 1..l PROVE Window(cells, at, n)[i + 1 - 1] = cells[at + i - 1]
  <2>1. i \in 1..n /\ i + 1 - 1 = i
    OBVIOUS
  <2> QED BY <2>1 DEF Window
<1> QED BY <1>1, <1>2 DEF Window

-----------------------------------------------------------------------------
(* Peek, Put and New *)

\* The facts about the numbers of a good buffer.
LEMMA GoodNumbers ==
  ASSUME NEW m, Good(m)
  PROVE  /\ m.head \in Nat /\ m.tail \in Nat /\ m.initCap \in Nat /\ m.size \in Nat
         /\ m.head <= m.tail /\ m.tail <= m.size
         /\ m.initCap >= Offset /\ m.size = m.initCap + Offset
         /\ ReadableBytes(m) = m.tail - m.head /\ ReadableBytes(m) \in Nat
         /\ WritableBytes(m) = m.size - m.tail /\ WritableBytes(m) \in Nat
  BY DEF Good, ReadableBytes, WritableBytes

\* The bytes of a good buffer are a window on its cells.
LEMMA GoodCells ==
  ASSUME NEW m, Good(m)
  PROVE  /\ m.buffer \in Cells(m.size)
         /\ Peek(m) = Window(m.buffer, m.head, m.tail - m.head)
  BY DEF Good, ReadableBytes, Peek, Window

\* Both.
LEMMA GoodFacts ==
  ASSUME NEW m, Good(m)
  PROVE  /\ m.head \in Nat /\ m.tail \in Nat /\ m.initCap \in Nat /\ m.size \in Nat
         /\ m.head <= m.tail /\ m.tail <= m.size
         /\ m.initCap >= Offset /\ m.size = m.initCap + Offset
         /\ m.buffer \in Cells(m.size)
         /\ ReadableBytes(m) = m.tail - m.head /\ ReadableBytes(m) \in Nat
         /\ WritableBytes(m) = m.size - m.tail /\ WritableBytes(m) \in Nat
         /\ Peek(m) = Window(m.buffer, m.head, m.tail - m.head)
  BY GoodNumbers, GoodCells

\* peek() yields the readable bytes.
LEMMA PeekTyped ==
  ASSUME NEW m, Good(m)
  PROVE  Peek(m) \in Seq(Bytes) /\ Len(Peek(m)) = ReadableBytes(m)
<1>1. m.head + (m.tail - m.head) <= m.size /\ m.tail - m.head \in Nat
  BY GoodFacts
<1>2. /\ Window(m.buffer, m.head, m.tail - m.head) \in Seq(Bytes)
      /\ Len(Window(m.buffer, m.head, m.tail - m.head)) = m.tail - m.head
  BY <1>1, GoodFacts, WindowTyped
<1> QED BY <1>2, GoodFacts

\* A good buffer stays good with its head and tail moved inside the vector and
\* its cells rewritten; its bytes are the new window.
LEMMA WithGood ==
  ASSUME NEW m, Good(m), NEW h \in Nat, NEW t \in Nat, NEW b \in Cells(m.size),
         h <= t, t <= m.size
  PROVE  /\ Good(With(m, h, t, b))
         /\ Peek(With(m, h, t, b)) = Window(b, h, t - h)
         /\ With(m, h, t, b).head = h /\ With(m, h, t, b).tail = t
         /\ With(m, h, t, b).size = m.size
<1> DEFINE p == With(m, h, t, b)
<1>1. /\ p.head = h /\ p.tail = t /\ p.size = m.size /\ p.initCap = m.initCap /\ p.buffer = b
  BY DEF With
<1> HIDE DEF p
<1>2. Good(p)
  BY <1>1, GoodFacts DEF Good
<1>3. Peek(p) = Window(b, h, t - h)
  BY <1>1, <1>2, GoodCells
<1> QED BY <1>1, <1>2, <1>3 DEF p

\* append() where there is room.
LEMMA PutGood ==
  ASSUME NEW m, Good(m), NEW s \in Seq(Bytes), Len(s) <= WritableBytes(m)
  PROVE  /\ Good(Put(m, s)) /\ Peek(Put(m, s)) = Peek(m) \o s
         /\ Put(m, s).size = m.size /\ Put(m, s).head = m.head
         /\ Put(m, s).tail = m.tail + Len(s)
<1> DEFINE b == Written(m.buffer, m.tail, s)  r == m.tail - m.head
<1>1. /\ m.head \in Nat /\ m.tail \in Nat /\ m.size \in Nat /\ Len(s) \in Nat
      /\ m.head <= m.tail /\ m.tail + Len(s) <= m.size /\ m.tail + Len(s) \in Nat
      /\ m.head <= m.tail + Len(s) /\ r \in Nat /\ m.head + r = m.tail /\ m.head + r <= m.size
      /\ (m.tail + Len(s)) - m.head = r + Len(s) /\ m.head + r + Len(s) <= m.size
  <2> DEFINE k == Len(s)
  <2>1. /\ m.head \in Nat /\ m.tail \in Nat /\ m.size \in Nat /\ m.head <= m.tail
        /\ m.tail <= m.size /\ WritableBytes(m) = m.size - m.tail
    BY GoodNumbers
  <2>2. k \in Nat /\ k <= WritableBytes(m)
    OBVIOUS
  <2> HIDE DEF k
  <2>3. m.tail + k <= m.size /\ m.tail + k \in Nat /\ m.head <= m.tail + k
    BY <2>1, <2>2
  <2>4. r \in Nat /\ m.head + r = m.tail /\ m.head + r <= m.size
    BY <2>1
  <2> HIDE DEF r
  <2>5. (m.tail + k) - m.head = r + k /\ m.head + r + k <= m.size
    BY <2>1, <2>2, <2>3, <2>4
  <2> QED BY <2>1, <2>2, <2>3, <2>4, <2>5 DEF k
<1>a. m.buffer \in Cells(m.size) /\ Peek(m) = Window(m.buffer, m.head, r)
  BY GoodCells
<1> HIDE DEF r
<1>2. b \in Cells(m.size)
  BY <1>1, <1>a, WrittenTyped
<1>3. Window(b, m.tail, Len(s)) = s
  BY <1>1, <1>a, WindowOnWritten
<1>4. Window(b, m.head, r) = Window(m.buffer, m.head, r)
  <2>1. /\ m.size \in Nat /\ m.tail \in Nat /\ m.head \in Nat /\ r \in Nat
        /\ m.head + r <= m.size /\ m.head + r <= m.tail
        /\ m.buffer \in Cells(m.size) /\ s \in Seq(Bytes)
    BY <1>1, <1>a
  <2> QED BY <2>1, WindowBesideWritten
<1> HIDE DEF b
<1>5. Window(b, m.head, r + Len(s)) = Peek(m) \o s
  <2>1. Peek(m) \in Seq(Bytes) /\ Len(Peek(m)) = r
    <3>1. Peek(m) \in Seq(Bytes) /\ Len(Peek(m)) = ReadableBytes(m)
      BY PeekTyped
    <3>2. ReadableBytes(m) = m.tail - m.head
      BY GoodFacts
    <3> QED BY <3>1, <3>2 DEF r
  <2>2. Window(b, m.head, Len(Peek(m))) = Peek(m)
    <3>1. Peek(m) = Window(m.buffer, m.head, r)
      BY <1>a
    <3> QED BY <1>4, <2>1, <3>1, Zenon
  <2>3. Window(b, m.head + Len(Peek(m)), Len(s)) = s
    <3>1. m.head + r = m.tail
      BY <1>1
    <3> QED BY <1>3, <2>1, <3>1, Zenon
  <2>4. Window(b, m.head, Len(Peek(m)) + Len(s)) = Peek(m) \o s
    <3>1. m.head \in Nat
      BY <1>1
    <3> QED BY <2>1, <2>2, <2>3, <3>1, WindowJoin, Zenon
  <2> QED BY <2>1, <2>4
<1>6. Put(m, s) = With(m, m.head, m.tail + Len(s), b)
  BY DEF Put, b
<1>7. /\ Good(Put(m, s)) /\ Peek(Put(m, s)) = Window(b, m.head, (m.tail + Len(s)) - m.head)
      /\ Put(m, s).size = m.size /\ Put(m, s).head = m.head
      /\ Put(m, s).tail = m.tail + Len(s)
  BY <1>1, <1>2, <1>6, WithGood
<1> QED BY <1>1, <1>5, <1>7

\* A new buffer is empty.
LEMMA NewGood ==
  ASSUME NEW len \in Nat, len >= Offset
  PROVE  /\ Good(New(len)) /\ Peek(New(len)) = <<>>
         /\ New(len).size = len + Offset /\ New(len).tail = Offset /\ New(len).head = Offset
<1>1. /\ New(len).head = Offset /\ New(len).tail = Offset /\ New(len).initCap = len
      /\ New(len).size = len + Offset /\ New(len).buffer = [i \in 0..(len + Offset - 1) |-> Zero]
  <2> DEFINE zeroes == [i \in 0..(len + Offset - 1) |-> Zero]
  <2>1. New(len) = [head |-> Offset, tail |-> Offset, initCap |-> len, size |-> len + Offset,
                    buffer |-> zeroes]
    BY DEF New
  <2> HIDE DEF zeroes
  <2>2. New(len).buffer = zeroes
    BY <2>1
  <2> QED BY <2>1, <2>2 DEF zeroes
<1>2. [i \in 0..(len + Offset - 1) |-> Zero] \in Cells(len + Offset)
  <2>1. Zero \in Bytes /\ Offset \in Nat
    BY InputsAreBytes, Numbers
  <2> QED BY <2>1 DEF Cells
<1>3. Good(New(len))
  BY <1>1, <1>2, Numbers DEF Good
<1>4. Peek(New(len)) \in Seq(Bytes) /\ Len(Peek(New(len))) = 0
  BY <1>1, <1>3, PeekTyped, Numbers DEF ReadableBytes
<1>5. Peek(New(len)) = <<>>
  BY <1>4, EmptySeq
<1> QED BY <1>1, <1>3, <1>5

-----------------------------------------------------------------------------
(* Making room *)

\* Moving the bytes back to the offset keeps them.
LEMMA CompactedGood ==
  ASSUME NEW m, Good(m), m.head >= Offset
  PROVE  /\ Good(Compacted(m)) /\ Peek(Compacted(m)) = Peek(m)
         /\ Compacted(m).size = m.size
         /\ WritableBytes(Compacted(m)) = WritableBytes(m) + m.head - Offset
<1> DEFINE b == Written(m.buffer, Offset, Peek(m))  r == m.tail - m.head
<1>1. /\ m.head \in Nat /\ m.tail \in Nat /\ m.size \in Nat /\ r \in Nat
      /\ Offset \in Nat /\ Offset + r \in Nat /\ Offset + r <= m.size /\ Offset <= Offset + r
      /\ (Offset + r) - Offset = r /\ m.buffer \in Cells(m.size)
      /\ ReadableBytes(m) = r /\ WritableBytes(m) = m.size - m.tail
  BY GoodFacts, Numbers
<1>2. Peek(m) \in Seq(Bytes) /\ Len(Peek(m)) = r
  BY <1>1, PeekTyped
<1>3. b \in Cells(m.size)
  BY <1>1, <1>2, WrittenTyped
<1>4. Window(b, Offset, r) = Peek(m)
  BY <1>1, <1>2, WindowOnWritten
<1>5. Compacted(m) = With(m, Offset, Offset + r, b)
  BY <1>1 DEF Compacted
<1> HIDE DEF b
<1>6. /\ Good(Compacted(m)) /\ Peek(Compacted(m)) = Window(b, Offset, (Offset + r) - Offset)
      /\ Compacted(m).tail = Offset + r /\ Compacted(m).size = m.size
  BY <1>1, <1>3, <1>5, WithGood
<1>7. WritableBytes(Compacted(m)) = m.size - (Offset + r)
  BY <1>6 DEF WritableBytes
<1> QED BY <1>1, <1>4, <1>6, <1>7

\* What an operation may do to the size: never less, and more only on demand.
SizeStep(m, e, demand) ==
  /\ e.size \in Nat /\ e.size >= m.size
  /\ e.size = m.size \/ e.size <= 2 * (demand + Offset) + Offset

\* ensureWriteableBytes() makes room and keeps the bytes; it never shrinks the
\* vector, and grows it to at most twice the demand.
LEMMA EnsureGood ==
  ASSUME NEW m, Good(m), NEW len \in Nat
  PROVE  /\ Good(EnsureWriteableBytes(m, len)) /\ Peek(EnsureWriteableBytes(m, len)) = Peek(m)
         /\ WritableBytes(EnsureWriteableBytes(m, len)) >= len
         /\ SizeStep(m, EnsureWriteableBytes(m, len), ReadableBytes(m) + len)
<1> DEFINE e == EnsureWriteableBytes(m, len)
<1>1. /\ m.head \in Nat /\ m.tail \in Nat /\ m.size \in Nat /\ Offset \in Nat
      /\ m.head <= m.tail /\ m.tail <= m.size /\ m.size >= Offset + Offset
      /\ ReadableBytes(m) = m.tail - m.head /\ ReadableBytes(m) \in Nat
      /\ WritableBytes(m) = m.size - m.tail
  BY GoodFacts, Numbers
<1>2. CASE WritableBytes(m) >= len
  <2>1. e = m
    BY <1>2 DEF EnsureWriteableBytes
  <2> QED BY <1>1, <1>2, <2>1 DEF SizeStep
<1>3. CASE ~(WritableBytes(m) >= len) /\ m.head + WritableBytes(m) >= len + Offset
  <2>1. e = Compacted(m) /\ m.head >= Offset
    BY <1>1, <1>3 DEF EnsureWriteableBytes
  <2>2. /\ Good(e) /\ Peek(e) = Peek(m) /\ e.size = m.size
        /\ WritableBytes(e) = WritableBytes(m) + m.head - Offset
    BY <2>1, CompactedGood
  <2> HIDE DEF e
  <2>3. WritableBytes(e) >= len /\ SizeStep(m, e, ReadableBytes(m) + len)
    BY <1>1, <1>3, <2>2 DEF SizeStep
  <2> QED BY <2>2, <2>3 DEF e
<1>4. CASE ~(WritableBytes(m) >= len) /\ ~(m.head + WritableBytes(m) >= len + Offset)
  <2> DEFINE g == GrownLen(m, len)  n == New(g)
  <2>1. /\ g \in Nat /\ g >= m.size /\ g >= Offset /\ g >= Offset + ReadableBytes(m) + len
        /\ g <= 2 * (ReadableBytes(m) + len + Offset)
    BY <1>1, <1>4 DEF GrownLen
  <2>2. e = Put(n, Peek(m))
    BY <1>4 DEF EnsureWriteableBytes, Grown
  <2> HIDE DEF g, e
  <2>3. Good(n) /\ Peek(n) = <<>> /\ n.size = g + Offset /\ n.tail = Offset
    BY <2>1, NewGood
  <2> HIDE DEF n
  <2>4. Peek(m) \in Seq(Bytes) /\ Len(Peek(m)) = ReadableBytes(m)
    BY PeekTyped
  <2>5. WritableBytes(n) = g
    BY <1>1, <2>1, <2>3 DEF WritableBytes
  <2>6. /\ Good(e) /\ Peek(e) = <<>> \o Peek(m) /\ e.size = g + Offset
        /\ e.tail = Offset + ReadableBytes(m)
    <3>1. Len(Peek(m)) <= WritableBytes(n)
      BY <1>1, <2>1, <2>4, <2>5
    <3> QED BY <2>2, <2>3, <2>4, <3>1, PutGood
  <2>7. Peek(e) = Peek(m)
    BY <2>4, <2>6, ConcatEmptySeq
  <2>8. WritableBytes(e) >= len /\ SizeStep(m, e, ReadableBytes(m) + len)
    BY <1>1, <2>1, <2>6 DEF WritableBytes, SizeStep
  <2> QED BY <2>6, <2>7, <2>8 DEF e
<1> QED BY <1>2, <1>3, <1>4

-----------------------------------------------------------------------------
(* The operations *)

\* append() adds s at the back.
LEMMA AppendedGood ==
  ASSUME NEW m, Good(m), NEW s \in Seq(Bytes)
  PROVE  /\ Good(Appended(m, s)) /\ Peek(Appended(m, s)) = Peek(m) \o s
         /\ SizeStep(m, Appended(m, s), ReadableBytes(m) + Len(s))
<1> DEFINE e == EnsureWriteableBytes(m, Len(s))
<1>1. Len(s) \in Nat
  OBVIOUS
<1>2. /\ Good(e) /\ Peek(e) = Peek(m) /\ WritableBytes(e) >= Len(s)
      /\ SizeStep(m, e, ReadableBytes(m) + Len(s))
  BY <1>1, EnsureGood
<1>3. Appended(m, s) = Put(e, s)
  BY DEF Appended
<1> HIDE DEF e
<1>4. Len(s) <= WritableBytes(e)
  BY <1>1, <1>2, GoodFacts
<1>5. Good(Put(e, s)) /\ Peek(Put(e, s)) = Peek(e) \o s /\ Put(e, s).size = e.size
  BY <1>2, <1>4, PutGood
<1> QED BY <1>2, <1>3, <1>5 DEF SizeStep

\* append(*this) doubles the bytes.
LEMMA AppendedToItselfGood ==
  ASSUME NEW m, Good(m)
  PROVE  /\ Good(AppendedToItself(m)) /\ Peek(AppendedToItself(m)) = Peek(m) \o Peek(m)
         /\ SizeStep(m, AppendedToItself(m), ReadableBytes(m) + ReadableBytes(m))
<1> DEFINE e == EnsureWriteableBytes(m, ReadableBytes(m))
<1>1. /\ ReadableBytes(m) \in Nat /\ Peek(m) \in Seq(Bytes) /\ Len(Peek(m)) = ReadableBytes(m)
  BY PeekTyped, GoodFacts
<1>2. /\ Good(e) /\ Peek(e) = Peek(m) /\ WritableBytes(e) >= ReadableBytes(m)
      /\ SizeStep(m, e, ReadableBytes(m) + ReadableBytes(m))
  BY <1>1, EnsureGood
<1>3. AppendedToItself(m) = Put(e, Peek(e))
  BY DEF AppendedToItself
<1> HIDE DEF e
<1>4. Peek(e) \in Seq(Bytes) /\ Len(Peek(e)) <= WritableBytes(e)
  BY <1>1, <1>2, GoodFacts
<1>5. /\ Good(Put(e, Peek(e))) /\ Peek(Put(e, Peek(e))) = Peek(e) \o Peek(e)
      /\ Put(e, Peek(e)).size = e.size
  BY <1>2, <1>4, PutGood
<1> QED BY <1>2, <1>3, <1>5 DEF SizeStep

\* A buffer whose cells hold s and behind it t has them as its bytes.
LEMMA JoinGood ==
  ASSUME NEW m, Good(m), NEW h \in Nat, NEW b \in Cells(m.size),
         NEW s \in Seq(Bytes), NEW t \in Seq(Bytes), h + Len(s) + Len(t) <= m.size,
         Window(b, h, Len(s)) = s, Window(b, h + Len(s), Len(t)) = t
  PROVE  /\ Good(With(m, h, h + Len(s) + Len(t), b))
         /\ Peek(With(m, h, h + Len(s) + Len(t), b)) = s \o t
         /\ SizeStep(m, With(m, h, h + Len(s) + Len(t), b), ReadableBytes(m) + Len(s))
<1> DEFINE e == h + Len(s) + Len(t)  p == With(m, h, e, b)
<1>1. e \in Nat /\ h <= e /\ e - h = Len(s) + Len(t)
  OBVIOUS
<1>2. Window(b, h, Len(s) + Len(t)) = s \o t
  BY WindowJoin, Zenon
<1> HIDE DEF e
<1>3. e <= m.size
  BY DEF e
<1>4. Good(p) /\ Peek(p) = Window(b, h, e - h) /\ p.size = m.size
  BY <1>1, <1>3, WithGood
<1>5. Peek(p) = s \o t
  BY <1>1, <1>2, <1>4, Zenon
<1>6. m.size \in Nat
  BY GoodFacts
<1> HIDE DEF p
<1>7. SizeStep(m, p, ReadableBytes(m) + Len(s))
  BY <1>4, <1>6 DEF SizeStep
<1> QED BY <1>4, <1>5, <1>7 DEF p, e

\* addInFront() into the room in front of head_.
LEMMA PrependedBefore ==
  ASSUME NEW m, Good(m), NEW s \in Seq(Bytes), m.head >= Len(s)
  PROVE  /\ Good(Prepended(m, s)) /\ Peek(Prepended(m, s)) = s \o Peek(m)
         /\ SizeStep(m, Prepended(m, s), ReadableBytes(m) + Len(s))
<1> DEFINE h == m.head - Len(s)  b == Written(m.buffer, h, s)  u == Peek(m)
<1>1. /\ m.head \in Nat /\ m.tail \in Nat /\ m.size \in Nat /\ Len(s) \in Nat /\ h \in Nat
      /\ m.head + (m.tail - m.head) <= m.size /\ m.tail - m.head \in Nat
      /\ h + Len(s) <= m.size /\ m.head >= h + Len(s) /\ h + Len(s) = m.head
      /\ h + Len(s) + (m.tail - m.head) = m.tail /\ m.tail <= m.size
  BY GoodNumbers
<1>2. /\ m.buffer \in Cells(m.size) /\ u \in Seq(Bytes) /\ Len(u) = m.tail - m.head
      /\ Window(m.buffer, m.head, m.tail - m.head) = u
  BY PeekTyped, GoodNumbers, GoodCells
<1> HIDE DEF h, u
<1>3. b \in Cells(m.size) /\ Window(b, h, Len(s)) = s
  BY <1>1, <1>2, WrittenTyped, WindowOnWritten
<1>4. Window(b, m.head, m.tail - m.head) = Window(m.buffer, m.head, m.tail - m.head)
  <2>1. /\ m.size \in Nat /\ h \in Nat /\ m.head \in Nat /\ m.tail - m.head \in Nat
        /\ m.head + (m.tail - m.head) <= m.size /\ m.head >= h + Len(s)
        /\ m.buffer \in Cells(m.size) /\ s \in Seq(Bytes)
    BY <1>1, <1>2
  <2> QED BY <2>1, WindowBesideWritten
<1>5. Prepended(m, s) = With(m, h, m.tail, b)
  BY DEF Prepended, h
<1> HIDE DEF b
<1>6. Window(b, h + Len(s), Len(u)) = u
  BY <1>1, <1>2, <1>4, Zenon
<1>7. h + Len(s) + Len(u) = m.tail
  BY <1>1, <1>2
<1>8. /\ Good(With(m, h, h + Len(s) + Len(u), b))
      /\ Peek(With(m, h, h + Len(s) + Len(u), b)) = s \o u
      /\ SizeStep(m, With(m, h, h + Len(s) + Len(u), b), ReadableBytes(m) + Len(s))
  <2>1. h \in Nat /\ h + Len(s) + Len(u) <= m.size
    BY <1>1, <1>7
  <2>2. u \in Seq(Bytes)
    BY <1>2
  <2> QED BY <1>3, <1>6, <2>1, <2>2, JoinGood, Zenon
<1> QED BY <1>5, <1>7, <1>8, Zenon DEF u

\* addInFront() by moving the bytes back.
LEMMA PrependedMoving ==
  ASSUME NEW m, Good(m), NEW s \in Seq(Bytes), ~(m.head >= Len(s)), Len(s) <= WritableBytes(m)
  PROVE  /\ Good(Prepended(m, s)) /\ Peek(Prepended(m, s)) = s \o Peek(m)
         /\ SizeStep(m, Prepended(m, s), ReadableBytes(m) + Len(s))
<1> DEFINE k == m.head + Len(s)  u == Peek(m)
           c == Written(m.buffer, k, u)  b == Written(c, m.head, s)
<1>1. /\ m.head \in Nat /\ m.tail \in Nat /\ m.size \in Nat /\ Len(s) \in Nat /\ k \in Nat
      /\ m.tail - m.head \in Nat /\ k + (m.tail - m.head) <= m.size /\ k <= m.size
      /\ k + (m.tail - m.head) = m.tail + Len(s) /\ k = m.head + Len(s)
  <2>1. /\ m.head \in Nat /\ m.tail \in Nat /\ m.size \in Nat /\ m.head <= m.tail
        /\ m.tail <= m.size /\ WritableBytes(m) = m.size - m.tail
    BY GoodNumbers
  <2>2. Len(s) \in Nat
    OBVIOUS
  <2> QED BY <2>1, <2>2
<1>2. m.buffer \in Cells(m.size) /\ u \in Seq(Bytes) /\ Len(u) = m.tail - m.head
  BY PeekTyped, GoodNumbers, GoodCells
<1>3. Prepended(m, s) = With(m, m.head, m.tail + Len(s), b)
  BY DEF Prepended
<1> HIDE DEF k, u
<1>4. Len(u) \in Nat /\ k + Len(u) <= m.size /\ k + Len(u) = m.tail + Len(s)
  BY <1>1, <1>2
<1>5. c \in Cells(m.size) /\ Window(c, k, Len(u)) = u
  BY <1>1, <1>2, <1>4, WrittenTyped, WindowOnWritten
<1> HIDE DEF c
<1>6. b \in Cells(m.size) /\ Window(b, m.head, Len(s)) = s
  <2>1. m.size \in Nat /\ m.head \in Nat /\ m.head + Len(s) <= m.size
    BY <1>1
  <2> QED BY <1>5, <2>1, WrittenTyped, WindowOnWritten
<1>7. Window(b, k, Len(u)) = Window(c, k, Len(u))
  <2>1. /\ m.size \in Nat /\ m.head \in Nat /\ k \in Nat /\ Len(u) \in Nat
        /\ k + Len(u) <= m.size /\ k >= m.head + Len(s)
        /\ c \in Cells(m.size) /\ s \in Seq(Bytes)
    BY <1>1, <1>4, <1>5
  <2> QED BY <2>1, WindowBesideWritten
<1> HIDE DEF b
<1>8. Window(b, m.head + Len(s), Len(u)) = u
  <2>1. k = m.head + Len(s)
    BY <1>1
  <2> QED BY <1>5, <1>7, <2>1, Zenon
<1>9. /\ Good(With(m, m.head, m.head + Len(s) + Len(u), b))
      /\ Peek(With(m, m.head, m.head + Len(s) + Len(u), b)) = s \o u
      /\ SizeStep(m, With(m, m.head, m.head + Len(s) + Len(u), b), ReadableBytes(m) + Len(s))
  <2>1. m.head \in Nat /\ m.head + Len(s) + Len(u) <= m.size /\ u \in Seq(Bytes)
    BY <1>1, <1>2, <1>4
  <2> QED BY <1>6, <1>8, <2>1, JoinGood, Zenon
<1>10. m.head + Len(s) + Len(u) = m.tail + Len(s)
  BY <1>1, <1>4
<1> QED BY <1>3, <1>9, <1>10, Zenon DEF u

\* addInFront() into a new buffer.
LEMMA PrependedAnew ==
  ASSUME NEW m, Good(m), NEW s \in Seq(Bytes), ~(m.head >= Len(s)), ~(Len(s) <= WritableBytes(m))
  PROVE  /\ Good(Prepended(m, s)) /\ Peek(Prepended(m, s)) = s \o Peek(m)
         /\ SizeStep(m, Prepended(m, s), ReadableBytes(m) + Len(s))
<1> DEFINE need == Len(s) + ReadableBytes(m)
           g == IF need < m.initCap THEN m.initCap ELSE need
           n == New(g)  q == Put(n, s)  p == Put(q, Peek(m))
<1>1. /\ m.initCap \in Nat /\ m.size = m.initCap + Offset /\ m.initCap >= Offset
      /\ Offset \in Nat /\ m.head \in Nat /\ m.tail \in Nat /\ m.head <= m.tail /\ m.tail <= m.size
      /\ Len(s) \in Nat /\ ReadableBytes(m) \in Nat
      /\ ReadableBytes(m) = m.tail - m.head /\ WritableBytes(m) = m.size - m.tail
  BY GoodFacts, Numbers
<1>2. /\ g \in Nat /\ g >= Offset /\ g >= need /\ g >= m.initCap
      /\ g = m.initCap \/ g <= need
  BY <1>1
<1>3. Prepended(m, s) = p
  BY DEF Prepended
<1> HIDE DEF g
<1>4. Good(n) /\ Peek(n) = <<>> /\ n.size = g + Offset /\ n.tail = Offset
  BY <1>2, NewGood
<1> HIDE DEF n
<1>5. Len(s) <= WritableBytes(n)
  BY <1>1, <1>2, <1>4 DEF WritableBytes
<1>6. /\ Good(q) /\ Peek(q) = <<>> \o s /\ q.size = g + Offset /\ q.tail = Offset + Len(s)
  BY <1>4, <1>5, PutGood
<1> HIDE DEF q
<1>7. Peek(m) \in Seq(Bytes) /\ Len(Peek(m)) = ReadableBytes(m)
  BY PeekTyped
<1>8. Len(Peek(m)) <= WritableBytes(q)
  BY <1>1, <1>2, <1>6, <1>7 DEF WritableBytes
<1>9. Good(p) /\ Peek(p) = Peek(q) \o Peek(m) /\ p.size = g + Offset
  BY <1>6, <1>7, <1>8, PutGood
<1>10. Peek(q) = s
  BY <1>6, ConcatEmptySeq
<1> HIDE DEF p
<1>11. SizeStep(m, p, ReadableBytes(m) + Len(s))
  BY <1>1, <1>2, <1>9 DEF SizeStep
<1> QED BY <1>3, <1>9, <1>10, <1>11

\* addInFront() adds s at the front, in each of its three ways.
LEMMA PrependedGood ==
  ASSUME NEW m, Good(m), NEW s \in Seq(Bytes)
  PROVE  /\ Good(Prepended(m, s)) /\ Peek(Prepended(m, s)) = s \o Peek(m)
         /\ SizeStep(m, Prepended(m, s), ReadableBytes(m) + Len(s))
  BY PrependedBefore, PrependedMoving, PrependedAnew

\* retrieveAll() leaves nothing, and no good buffer is large enough for its
\* resize().
LEMMA RetrievedAllGood ==
  ASSUME NEW m, Good(m)
  PROVE  /\ Good(RetrievedAll(m)) /\ Peek(RetrievedAll(m)) = <<>>
         /\ RetrievedAll(m).size = m.size
<1>1. RetrievedAll(m) = With(m, Offset, Offset, m.buffer)
  <2>1. ~(m.size > 2 * m.initCap)
    BY GoodFacts, Numbers
  <2> QED BY <2>1 DEF RetrievedAll
<1>2. /\ Offset \in Nat /\ Offset <= Offset /\ Offset <= m.size /\ m.buffer \in Cells(m.size)
      /\ Offset - Offset = 0
  BY GoodFacts, Numbers
<1>3. /\ Good(RetrievedAll(m)) /\ RetrievedAll(m).size = m.size
      /\ RetrievedAll(m).head = Offset /\ RetrievedAll(m).tail = Offset
  BY <1>1, <1>2, WithGood
<1>4. Peek(RetrievedAll(m)) \in Seq(Bytes) /\ Len(Peek(RetrievedAll(m))) = 0
  BY <1>2, <1>3, PeekTyped DEF ReadableBytes
<1> QED BY <1>3, <1>4, EmptySeq

\* retrieve() consumes from the front.
LEMMA RetrievedGood ==
  ASSUME NEW m, Good(m), NEW len \in Nat
  PROVE  /\ Good(Retrieved(m, len))
         /\ Peek(Retrieved(m, len)) = SubSeq(Peek(m), len + 1, Len(Peek(m)))
         /\ Retrieved(m, len).size = m.size
<1> DEFINE r == m.tail - m.head
<1>1. /\ m.head \in Nat /\ m.tail \in Nat /\ m.size \in Nat /\ r \in Nat
      /\ m.head <= m.tail /\ m.tail <= m.size /\ ReadableBytes(m) = r
      /\ m.buffer \in Cells(m.size) /\ Peek(m) = Window(m.buffer, m.head, r)
      /\ Peek(m) \in Seq(Bytes) /\ Len(Peek(m)) = r
  BY GoodFacts, PeekTyped
<1>2. CASE len >= r
  <2>1. SubSeq(Peek(m), len + 1, Len(Peek(m))) = <<>>
    BY <1>1, <1>2, SubSeqEmpty
  <2> QED BY <1>1, <1>2, <2>1, RetrievedAllGood DEF Retrieved
<1>3. CASE ~(len >= r)
  <2>1. Retrieved(m, len) = With(m, m.head + len, m.tail, m.buffer)
    BY <1>1, <1>3 DEF Retrieved
  <2>2. /\ m.head + len \in Nat /\ m.head + len <= m.tail /\ len <= r
        /\ m.tail - (m.head + len) = r - len
    BY <1>1, <1>3
  <2>3. /\ Good(Retrieved(m, len)) /\ Retrieved(m, len).size = m.size
        /\ Peek(Retrieved(m, len)) = Window(m.buffer, m.head + len, m.tail - (m.head + len))
    <3>1. /\ m.head + len \in Nat /\ m.tail \in Nat /\ m.buffer \in Cells(m.size)
          /\ m.head + len <= m.tail /\ m.tail <= m.size
      BY <1>1, <2>2
    <3> QED BY <2>1, <3>1, WithGood
  <2> HIDE DEF r
  <2>4. SubSeq(Window(m.buffer, m.head, r), len + 1, r) = Window(m.buffer, m.head + len, r - len)
    <3>1. m.head \in Nat /\ r \in Nat /\ len \in Nat /\ len <= r
      BY <1>1, <2>2
    <3>2. CutFront(m.buffer, m.head, r, len)
      BY <3>1, WindowCutFront
    <3> QED BY <3>2 DEF CutFront
  <2>5. Window(m.buffer, m.head, r) = Peek(m) /\ Len(Peek(m)) = r
    BY <1>1
  <2>6. m.tail - (m.head + len) = r - len
    BY <2>2
  <2> QED BY <2>3, <2>4, <2>5, <2>6, Zenon
<1> QED BY <1>2, <1>3

\* unwrite() cuts at the back.
LEMMA UnwrittenGood ==
  ASSUME NEW m, Good(m), NEW len \in Nat, len <= ReadableBytes(m)
  PROVE  /\ Good(With(m, m.head, m.tail - len, m.buffer))
         /\ Peek(With(m, m.head, m.tail - len, m.buffer)) = SubSeq(Peek(m), 1, Len(Peek(m)) - len)
         /\ With(m, m.head, m.tail - len, m.buffer).size = m.size
<1> DEFINE r == m.tail - m.head  c == With(m, m.head, m.tail - len, m.buffer)
<1>1. /\ m.head \in Nat /\ m.tail \in Nat /\ m.size \in Nat /\ r \in Nat
      /\ m.head <= m.tail /\ m.tail <= m.size /\ ReadableBytes(m) = r
      /\ m.buffer \in Cells(m.size) /\ Peek(m) = Window(m.buffer, m.head, r) /\ Len(Peek(m)) = r
  BY GoodFacts, PeekTyped
<1>2. /\ m.tail - len \in Nat /\ m.head <= m.tail - len /\ m.tail - len <= m.size /\ len <= r
      /\ (m.tail - len) - m.head = r - len
  BY <1>1
<1>3. Good(c) /\ c.size = m.size /\ Peek(c) = Window(m.buffer, m.head, (m.tail - len) - m.head)
  <2>1. /\ m.head \in Nat /\ m.tail - len \in Nat /\ m.buffer \in Cells(m.size)
        /\ m.head <= m.tail - len /\ m.tail - len <= m.size
    BY <1>1, <1>2
  <2> QED BY <2>1, WithGood
<1> HIDE DEF r, c
<1>4. SubSeq(Window(m.buffer, m.head, r), 1, r - len) = Window(m.buffer, m.head, r - len)
  <2> DEFINE l == r - len
  <2>1. m.head \in Nat /\ r \in Nat /\ l \in Nat /\ l <= r
    BY <1>1, <1>2
  <2> HIDE DEF l
  <2>2. SubSeq(Window(m.buffer, m.head, r), 1, l) = Window(m.buffer, m.head, l)
    BY <2>1, WindowCutBack
  <2> QED BY <2>2 DEF l
<1>5. Window(m.buffer, m.head, r) = Peek(m) /\ Len(Peek(m)) = r
  BY <1>1
<1>6. Peek(c) = SubSeq(Peek(m), 1, Len(Peek(m)) - len)
  BY <1>2, <1>3, <1>4, <1>5, Zenon
<1> QED BY <1>3, <1>6 DEF c

\* The first n bytes and the rest of a byte string, in this order, are it.
LEMMA JoinOfCut ==
  ASSUME NEW s \in Seq(Bytes), NEW n \in 0..Len(s),
         NEW a \in Seq(Bytes), Len(a) = n, NEW z \in Seq(Bytes), Len(z) = Len(s) - n,
         \A i \in 1..n : a[i] = s[i], \A i \in 1..(Len(s) - n) : z[i] = s[n + i]
  PROVE  a \o z = s
<1>1. /\ a \o z \in Seq(Bytes) /\ Len(a \o z) = Len(s)
      /\ \A i \in 1..Len(s) : (a \o z)[i] = IF i <= n THEN a[i] ELSE z[i - n]
  <2>1. /\ a \o z \in Seq(Bytes) /\ Len(a \o z) = Len(a) + Len(z)
        /\ \A i \in 1..(Len(a) + Len(z)) : (a \o z)[i] = IF i <= Len(a) THEN a[i] ELSE z[i - Len(a)]
    BY ConcatProperties
  <2>2. Len(a) + Len(z) = Len(s) /\ Len(a) = n
    OBVIOUS
  <2> QED BY <2>1, <2>2
<1>2. ASSUME NEW i \in 1..Len(s) PROVE (a \o z)[i] = s[i]
  BY <1>1
<1> DEFINE c == a \o z
<1>3. c \in Seq(Bytes) /\ Len(c) = Len(s) /\ \A i \in 1..Len(c) : c[i] = s[i]
  BY <1>1, <1>2
<1> HIDE DEF c
<1>4. c = s
  BY <1>3, SeqEqual
<1> QED BY <1>4 DEF c

\* A byte string can be cut after its first n bytes.
LEMMA CutInTwo ==
  ASSUME NEW s \in Seq(Bytes), NEW n \in 0..Len(s)
  PROVE  /\ SubSeq(s, 1, n) \in Seq(Bytes) /\ Len(SubSeq(s, 1, n)) = n
         /\ SubSeq(s, n + 1, Len(s)) \in Seq(Bytes) /\ Len(SubSeq(s, n + 1, Len(s))) = Len(s) - n
         /\ SubSeq(s, 1, n) \o SubSeq(s, n + 1, Len(s)) = s
<1> DEFINE l == Len(s)  a == SubSeq(s, 1, n)  k == n + 1  z == SubSeq(s, k, l)
<1>1. l \in Nat /\ n \in Int /\ k \in Int /\ l \in Int /\ k = n + 1 /\ n >= 0 /\ n <= l
  OBVIOUS
<1>2. \A i \in 1..n : s[i] \in Bytes
  BY <1>1
<1>3. \A i \in k..l : s[i] \in Bytes
  BY <1>1
<1> HIDE DEF k, l
<1>4. /\ a \in Seq(Bytes) /\ Len(a) = (IF 1 <= n THEN n - 1 + 1 ELSE 0)
      /\ \A i \in 1..(n - 1 + 1) : a[i] = s[1 + i - 1]
  BY <1>1, <1>2, SubSeqProperties
<1>5. /\ z \in Seq(Bytes) /\ Len(z) = (IF k <= l THEN l - k + 1 ELSE 0)
      /\ \A i \in 1..(l - k + 1) : z[i] = s[k + i - 1]
  BY <1>1, <1>3, SubSeqProperties
<1> HIDE DEF a, z
<1>6. /\ a \in Seq(Bytes) /\ Len(a) = n /\ z \in Seq(Bytes) /\ Len(z) = l - n
      /\ \A i \in 1..n : a[i] = s[i]
  BY <1>1, <1>4, <1>5
<1>7. ASSUME NEW i \in 1..(l - n) PROVE z[i] = s[n + i]
  BY <1>1, <1>5
<1>8. a \o z = s
  BY <1>1, <1>6, <1>7, JoinOfCut DEF l
<1> QED BY <1>6, <1>8 DEF a, z, k, l

\* readFd() adds what was received, through extBuffer or not.
LEMMA ReceivedAllGood ==
  ASSUME NEW m, Good(m), NEW s \in Seq(Bytes)
  PROVE  /\ Good(ReceivedAll(m, s)) /\ Peek(ReceivedAll(m, s)) = Peek(m) \o s
         /\ SizeStep(m, ReceivedAll(m, s), ReadableBytes(m) + Len(s))
<1> DEFINE n == WritableBytes(m)
<1>1. /\ m.head \in Nat /\ m.tail \in Nat /\ m.size \in Nat /\ Len(s) \in Nat /\ n \in Nat
      /\ m.head <= m.tail /\ m.tail <= m.size
      /\ ReadableBytes(m) = m.tail - m.head /\ n = m.size - m.tail
  BY GoodFacts
<1>2. CASE Len(s) <= n
  <2>1. Good(Put(m, s)) /\ Peek(Put(m, s)) = Peek(m) \o s /\ Put(m, s).size = m.size
    BY <1>2, PutGood
  <2>2. ReceivedAll(m, s) = Put(m, s)
    BY <1>2 DEF ReceivedAll
  <2> QED BY <1>1, <2>1, <2>2 DEF SizeStep
<1>3. CASE ~(Len(s) <= n)
  <2> DEFINE a == SubSeq(s, 1, n)  z == SubSeq(s, n + 1, Len(s))  p == Put(m, a)
  <2>1. ReceivedAll(m, s) = Appended(p, z)
    BY <1>3 DEF ReceivedAll
  <2> HIDE DEF n
  <2>3. /\ a \in Seq(Bytes) /\ Len(a) = n /\ z \in Seq(Bytes) /\ Len(z) = Len(s) - n
        /\ a \o z = s
    <3>1. n \in 0..Len(s)
      BY <1>1, <1>3
    <3> QED BY <3>1, CutInTwo
  <2> HIDE DEF a, z
  <2>6. Len(a) <= WritableBytes(m)
    BY <1>1, <2>3 DEF n
  <2>7. /\ Good(p) /\ Peek(p) = Peek(m) \o a /\ p.size = m.size
        /\ p.head = m.head /\ p.tail = m.tail + Len(a)
    BY <2>3, <2>6, PutGood
  <2> HIDE DEF p
  <2>8. /\ Good(Appended(p, z)) /\ Peek(Appended(p, z)) = Peek(p) \o z
        /\ SizeStep(p, Appended(p, z), ReadableBytes(p) + Len(z))
    BY <2>3, <2>7, AppendedGood
  <2>9. (Peek(m) \o a) \o z = Peek(m) \o (a \o z)
    <3>1. Peek(m) \in Seq(Bytes)
      BY PeekTyped
    <3>2. a \in Seq(Bytes) /\ z \in Seq(Bytes)
      BY <2>3
    <3>3. \A x, y, w \in Seq(Bytes) : (x \o y) \o w = x \o (y \o w)
      BY ConcatAssociative
    <3> QED BY <3>1, <3>2, <3>3
  <2>10. ReadableBytes(p) + Len(z) = ReadableBytes(m) + Len(s)
    BY <1>1, <2>3, <2>7 DEF ReadableBytes
  <2>11. SizeStep(m, Appended(p, z), ReadableBytes(m) + Len(s))
    BY <2>7, <2>8, <2>10 DEF SizeStep
  <2> QED BY <2>1, <2>3, <2>7, <2>8, <2>9, <2>11
<1> QED BY <1>2, <1>3

-----------------------------------------------------------------------------
(* The theorems *)

\* What every member function does to a good buffer.
Kept == Good(buf') /\ SizeStep(buf, buf', MaxReadable)

\* A step that grows the buffer by less than the bound grows it by the bound.
LEMMA SizeWithinBound ==
  ASSUME NEW m, NEW e, NEW d \in Nat, d <= MaxReadable, SizeStep(m, e, d)
  PROVE  SizeStep(m, e, MaxReadable)
  BY Numbers DEF SizeStep

\* Every step keeps the buffer good, never shrinks it, and grows it by demand.
LEMMA StepGood ==
  ASSUME Good(buf), [Next]_buf
  PROVE  Kept
<1>1. ReadableBytes(buf) \in Nat /\ buf.size \in Nat /\ MaxReadable \in Nat
  BY GoodFacts, Numbers
<1>2. ASSUME NEW e, Good(e), e.size = buf.size, buf' = e PROVE Kept
  BY <1>1, <1>2 DEF Kept, SizeStep
<1>3. ASSUME NEW e, NEW d \in Nat, Good(e), SizeStep(buf, e, d), d <= MaxReadable, buf' = e
      PROVE  Kept
  BY <1>3, SizeWithinBound DEF Kept
<1>4. ASSUME NEW s \in Inputs, AppendBytes(s) \/ HasWritten(s) \/ ReadFd(s) \/ AddInFront(s)
      PROVE  Kept
  <2>1. s \in Seq(Bytes) /\ Len(s) \in Nat /\ ReadableBytes(buf) + Len(s) \in Nat
    BY <1>1, InputsAreBytes
  <2>2. CASE AppendBytes(s)
    <3>1. buf' = Appended(buf, s) /\ ReadableBytes(buf) + Len(s) <= MaxReadable
      BY <2>2 DEF AppendBytes, Room
    <3>2. Good(Appended(buf, s)) /\ SizeStep(buf, Appended(buf, s), ReadableBytes(buf) + Len(s))
      BY <2>1, AppendedGood
    <3> QED BY <1>3, <2>1, <3>1, <3>2, Zenon
  <2>3. CASE HasWritten(s)
    <3>1. buf' = Put(buf, s) /\ Len(s) <= WritableBytes(buf)
      BY <2>3 DEF HasWritten
    <3> QED BY <1>2, <2>1, <3>1, PutGood
  <2>4. CASE ReadFd(s)
    <3>1. buf' = ReceivedAll(buf, s) /\ ReadableBytes(buf) + Len(s) <= MaxReadable
      BY <2>4 DEF ReadFd, Room
    <3>2. /\ Good(ReceivedAll(buf, s))
          /\ SizeStep(buf, ReceivedAll(buf, s), ReadableBytes(buf) + Len(s))
      BY <2>1, ReceivedAllGood
    <3> QED BY <1>3, <2>1, <3>1, <3>2, Zenon
  <2>5. CASE AddInFront(s)
    <3>1. buf' = Prepended(buf, s) /\ ReadableBytes(buf) + Len(s) <= MaxReadable
      BY <2>5 DEF AddInFront, Room
    <3>2. /\ Good(Prepended(buf, s))
          /\ SizeStep(buf, Prepended(buf, s), ReadableBytes(buf) + Len(s))
      BY <2>1, PrependedGood
    <3> QED BY <1>3, <2>1, <3>1, <3>2, Zenon
  <2> QED BY <1>4, <2>2, <2>3, <2>4, <2>5
<1>5. ASSUME NEW n \in 1..MaxReadable, EnsureWriteable(n) \/ Retrieve(n) \/ Unwrite(n)
      PROVE  Kept
  <2>1. n \in Nat /\ ReadableBytes(buf) + n \in Nat
    BY <1>1
  <2>2. CASE EnsureWriteable(n)
    <3>1. buf' = EnsureWriteableBytes(buf, n) /\ ReadableBytes(buf) + n <= MaxReadable
      BY <2>2 DEF EnsureWriteable, Room
    <3>2. /\ Good(EnsureWriteableBytes(buf, n))
          /\ SizeStep(buf, EnsureWriteableBytes(buf, n), ReadableBytes(buf) + n)
      BY <2>1, EnsureGood
    <3> QED BY <1>3, <2>1, <3>1, <3>2, Zenon
  <2>3. CASE Retrieve(n)
    <3>1. buf' = Retrieved(buf, n)
      BY <2>3 DEF Retrieve
    <3> QED BY <1>2, <2>1, <3>1, RetrievedGood
  <2>4. CASE Unwrite(n)
    <3>1. n <= ReadableBytes(buf) /\ buf' = With(buf, buf.head, buf.tail - n, buf.buffer)
      BY <2>4 DEF Unwrite
    <3> QED BY <1>2, <2>1, <3>1, UnwrittenGood
  <2> QED BY <1>5, <2>2, <2>3, <2>4
<1>6. CASE AppendSelf
  <2>1. /\ buf' = AppendedToItself(buf) /\ ReadableBytes(buf) + ReadableBytes(buf) \in Nat
        /\ ReadableBytes(buf) + ReadableBytes(buf) <= MaxReadable
    BY <1>1, <1>6 DEF AppendSelf, Room
  <2>2. /\ Good(AppendedToItself(buf))
        /\ SizeStep(buf, AppendedToItself(buf), ReadableBytes(buf) + ReadableBytes(buf))
    BY AppendedToItselfGood
  <2> QED BY <1>3, <2>1, <2>2, Zenon
<1>7. CASE RetrieveAll
  <2>1. buf' = RetrievedAll(buf)
    BY <1>7 DEF RetrieveAll
  <2> QED BY <1>2, <2>1, RetrievedAllGood
<1>8. CASE UNCHANGED buf
  BY <1>2, <1>8
<1> QED BY <1>4, <1>5, <1>6, <1>7, <1>8 DEF Next

\* A new buffer is good, and no larger than the bound.
LEMMA InitGood == ASSUME Init PROVE Good(buf) /\ CapacityBounded
<1>1. InitLen \in Nat /\ InitLen >= Offset
  BY Numbers
<1>2. Good(New(InitLen)) /\ New(InitLen).size = InitLen + Offset
  BY <1>1, NewGood
<1> QED BY <1>2, Numbers DEF Init, CapacityBounded

\* The buffer is good throughout.
LEMMA GoodInvariant == Spec => []Good(buf)
<1>1. Good(buf) /\ [Next]_buf => Good(buf)'
  BY StepGood DEF Kept
<1>2. Init => Good(buf)
  BY InitGood
<1> QED BY <1>1, <1>2, PTL DEF Spec

\* head_ and tail_ stay inside the vector and in order, whatever is called in
\* whatever order: no access of the member functions is out of bounds.
THEOREM TypeCorrect == Spec => []TypeOK
<1>1. Good(buf) => TypeOK
  BY DEF Good, TypeOK
<1> QED BY <1>1, GoodInvariant, PTL

\* The vector never shrinks: the resize() of retrieveAll() is dead code.
THEOREM ResizeIsDead == Spec => NeverShrinks
<1>1. Good(buf) /\ [Next]_buf => [buf'.size >= buf.size]_buf
  BY StepGood DEF Kept, SizeStep
<1> QED BY <1>1, GoodInvariant, PTL DEF Spec, NeverShrinks

\* The vector is at most twice the largest demand, and the offsets.
THEOREM Capacity == Spec => []CapacityBounded
<1>1. Good(buf) /\ CapacityBounded /\ [Next]_buf => CapacityBounded'
  BY StepGood DEF Kept, SizeStep, CapacityBounded
<1>2. Init => CapacityBounded
  BY InitGood
<1> QED BY <1>1, <1>2, GoodInvariant, PTL DEF Spec

\* Every operation does to the readable bytes what a byte queue does.
THEOREM ByteQueueImplemented == Spec => ImplementsByteQueue
<1> DEFINE Step ==
      /\ \A s \in Inputs :
           /\ AppendBytes(s) \/ HasWritten(s) \/ ReadFd(s) => Queue!PutBack(s)
           /\ AddInFront(s) => Queue!PutFront(s)
      /\ \A n \in 1..MaxReadable :
           /\ EnsureWriteable(n) => Queue!Keep
           /\ Retrieve(n) => Queue!Consume(n)
           /\ Unwrite(n) => Queue!Cut(n)
      /\ AppendSelf => Queue!PutBack(Peek(buf))
      /\ RetrieveAll => Queue!Consume(ReadableBytes(buf))
<1>1. Good(buf) /\ [Next]_buf => [Step]_buf
  <2> SUFFICES ASSUME Good(buf) PROVE Step
    OBVIOUS
  <2>1. ASSUME NEW s \in Inputs, AppendBytes(s) \/ HasWritten(s) \/ ReadFd(s) PROVE Queue!PutBack(s)
    <3>1. s \in Seq(Bytes)
      BY InputsAreBytes
    <3>2. CASE AppendBytes(s)
      BY <3>1, <3>2, AppendedGood DEF AppendBytes, Queue!PutBack
    <3>3. CASE HasWritten(s)
      BY <3>1, <3>3, PutGood DEF HasWritten, Queue!PutBack
    <3>4. CASE ReadFd(s)
      BY <3>1, <3>4, ReceivedAllGood DEF ReadFd, Queue!PutBack
    <3> QED BY <2>1, <3>2, <3>3, <3>4
  <2>2. ASSUME NEW s \in Inputs, AddInFront(s) PROVE Queue!PutFront(s)
    <3>1. s \in Seq(Bytes)
      BY InputsAreBytes
    <3> QED BY <2>2, <3>1, PrependedGood DEF AddInFront, Queue!PutFront
  <2>3. ASSUME NEW n \in 1..MaxReadable
        PROVE  /\ EnsureWriteable(n) => Queue!Keep
               /\ Retrieve(n) => Queue!Consume(n)
               /\ Unwrite(n) => Queue!Cut(n)
    <3>1. n \in Nat
      BY Numbers
    <3>2. EnsureWriteable(n) => Queue!Keep
      BY <3>1, EnsureGood DEF EnsureWriteable, Queue!Keep
    <3>3. Retrieve(n) => Queue!Consume(n)
      BY <3>1, RetrievedGood DEF Retrieve, Queue!Consume
    <3>4. Unwrite(n) => Queue!Cut(n)
      BY <3>1, UnwrittenGood DEF Unwrite, Queue!Cut
    <3> QED BY <3>2, <3>3, <3>4
  <2>4. AppendSelf => Queue!PutBack(Peek(buf))
    BY AppendedToItselfGood DEF AppendSelf, Queue!PutBack
  <2>5. RetrieveAll => Queue!Consume(ReadableBytes(buf))
    <3>1. Peek(buf) \in Seq(Bytes) /\ Len(Peek(buf)) = ReadableBytes(buf) /\ ReadableBytes(buf) \in Nat
      BY PeekTyped, GoodFacts
    <3>2. SubSeq(Peek(buf), ReadableBytes(buf) + 1, Len(Peek(buf))) = <<>>
      BY <3>1, SubSeqEmpty
    <3> QED BY <3>2, RetrievedAllGood DEF RetrieveAll, Queue!Consume
  <2> HIDE DEF Queue!PutBack, Queue!PutFront, Queue!Consume, Queue!Cut, Queue!Keep
  <2> QED BY <2>1, <2>2, <2>3, <2>4, <2>5
<1> QED BY <1>1, GoodInvariant, PTL DEF Spec, ImplementsByteQueue

-----------------------------------------------------------------------------
(* Integers *)

\* A byte is a digit of base Base.
LEMMA BaseIsNat == Base \in Nat /\ Base > 0 /\ Bytes = 0..(Base - 1)
  BY BytesAreDigits, BytesAssumption DEF BytesAreDigits, BytesAssumption

\* Products of numbers are numbers.
LEMMA ProductIsNat == ASSUME NEW a \in Nat, NEW b \in Nat PROVE a*b \in Nat
  OBVIOUS

\* A larger factor makes a product larger by the other factor at least.
LEMMA Bigger == ASSUME NEW d \in Nat, NEW a \in Int, NEW b \in Int, a < b PROVE d*a + d <= d*b
<1>1. b - a - 1 \in Nat
  BY SMT
<1>2. d * (b - a - 1) \in Nat
  BY <1>1, ProductIsNat
<1>3. d * (b - a - 1) = d*b - d*a - d
  BY SMT
<1> QED BY <1>2, <1>3, SMT

\* Division with remainder.
LEMMA DivMod ==
  ASSUME NEW n \in Nat, NEW d \in Nat, d > 0
  PROVE  /\ n \div d \in Nat /\ n % d \in 0..(d-1) /\ n = d * (n \div d) + (n % d)
<1>1. n \div d \in Int
  BY SMT
<1>2. n % d \in 0..(d-1)
  BY SMT
<1>3. n = d * (n \div d) + (n % d)
  BY SMT
<1>4. n \div d >= 0
  <2>1. SUFFICES ASSUME n \div d < 0 PROVE FALSE
    BY <1>1, SMT
  <2>2. d * (n \div d) + d <= d * 0
    BY <1>1, <2>1, Bigger
  <2> QED BY <2>2, <1>1, <1>2, <1>3, SMT
<1> QED BY <1>1, <1>2, <1>3, <1>4, SMT

\* There is one quotient and one remainder.
LEMMA DivUnique ==
  ASSUME NEW n \in Nat, NEW d \in Nat, d > 0, NEW t \in Nat, NEW v \in 0..(d-1), n = d*t + v
  PROVE  n \div d = t /\ n % d = v
<1> DEFINE s == n \div d
           u == n % d
<1>1. s \in Nat /\ u \in 0..(d-1) /\ n = d * s + u
  BY DivMod
<1> HIDE DEF s, u
<1>2. ~(s < t)
  <2>1. SUFFICES ASSUME s < t PROVE FALSE
    OBVIOUS
  <2>2. d * s + d <= d * t
    BY <1>1, <2>1, Bigger
  <2> QED BY <2>2, <1>1, SMT
<1>3. ~(t < s)
  <2>1. SUFFICES ASSUME t < s PROVE FALSE
    OBVIOUS
  <2>2. d * t + d <= d * s
    BY <1>1, <2>1, Bigger
  <2> QED BY <2>2, <1>1, SMT
<1>4. s = t
  BY <1>1, <1>2, <1>3
<1>5. u = v
  BY <1>1, <1>4, SMT
<1> QED BY <1>4, <1>5 DEF s, u

\* Dividing by a product is dividing by its factors in turn.
LEMMA DivDiv ==
  ASSUME NEW n \in Nat, NEW b \in Nat, NEW p \in Nat, b > 0, p > 0
  PROVE  n \div (b*p) = (n \div b) \div p
<1> DEFINE q == n \div b
           r == n % b
           t == q \div p
           u == q % p
<1>1. q \in Nat /\ r \in 0..(b-1) /\ n = b * q + r
  BY DivMod
<1> HIDE DEF q, r
<1>2. t \in Nat /\ u \in 0..(p-1) /\ q = p * t + u
  BY <1>1, DivMod
<1> HIDE DEF t, u
<1>3. b*p \in Nat /\ b * u \in Nat /\ b * p > 0
  <2>1. b * 0 + b <= b * p
    BY Bigger
  <2> QED BY <2>1, <1>2, ProductIsNat, SMT
<1>4. b * u + b <= b * p
  BY <1>2, Bigger
<1>5. b*u + r \in 0..(b*p - 1)
  BY <1>1, <1>3, <1>4, SMT
<1>6. n = (b*p) * t + (b*u + r)
  <2>1. b * (p*t + u) = (b*p)*t + b*u
    BY <1>2, SMT
  <2> QED BY <2>1, <1>1, <1>2, <1>3, SMT
<1>7. n \div (b*p) = t
  BY <1>3, <1>5, <1>6, <1>2, DivUnique
<1> QED BY <1>7 DEF t, q

\* A set of numbers that is not empty has a least one.
LEMMA LeastNumber == ASSUME NEW T, T \subseteq Nat, T # {} PROVE \E x \in T : \A y \in T : x <= y
<1> DEFINE R == OpToRel(<, Nat)
<1>1. IsWellFoundedOn(R, Nat)
  BY NatLessThanWellFounded
<1>2. PICK x \in T : \A y \in T : ~ (<<y, x>> \in R)
  <2> HIDE DEF R
  <2> QED
    BY <1>1, WFMin
<1>3. \A y \in T : ~ (y < x)
  BY <1>2 DEF OpToRel
<1> HIDE DEF R
<1>4. \A y \in T : x <= y
  BY <1>3
<1> QED
  BY <1>4

\* Induction: a set with 0 in it, and with every number the next one, has them all.
LEMMA Counting == ASSUME NEW G, 0 \in G, \A n \in Nat : n \in G => n+1 \in G PROVE Nat \subseteq G
<1> DEFINE T == Nat \ G
<1>1. SUFFICES ASSUME T # {} PROVE FALSE
  OBVIOUS
<1>2. PICK x \in T : \A y \in T : x <= y
  BY <1>1, LeastNumber
<1>3. x # 0 /\ x \in Nat
  BY <1>2
<1>4. x - 1 \in Nat /\ (x-1) + 1 = x /\ x - 1 \notin T
  BY <1>3, <1>2
<1> QED
  BY <1>4, <1>2

\* The powers up to the n-th.
Powers(n, g) ==
  /\ g \in [0..n -> Nat] /\ g[0] = 1
  /\ \A k \in 1..n : g[k] = Base * g[k - 1]

\* They exist.
LEMMA PowersExist == \A n \in Nat : \E g : Powers(n, g)
<1> DEFINE G == {n \in Nat : \E g : Powers(n, g)}
<1>1. 0 \in G
  <2>1. Powers(0, [k \in 0..0 |-> 1])
    BY DEF Powers
  <2> QED BY <2>1
<1>2. ASSUME NEW n \in Nat, n \in G PROVE n + 1 \in G
  <2>1. PICK g : Powers(n, g)
    BY <1>2
  <2> DEFINE h == [k \in 0..(n + 1) |-> IF k = n + 1 THEN Base * g[n] ELSE g[k]]
  <2>2. \A k \in 0..n : g[k] \in Nat
    BY <2>1 DEF Powers
  <2>3. Base * g[n] \in Nat
    BY <2>2, BaseIsNat, ProductIsNat
  <2>4. h \in [0..(n + 1) -> Nat]
    BY <2>2, <2>3
  <2>5. h[0] = 1
    BY <2>1 DEF Powers
  <2>6. ASSUME NEW k \in 1..(n + 1) PROVE h[k] = Base * h[k - 1]
    <3>1. CASE k = n + 1
      <4>1. h[k] = Base * g[n] /\ k - 1 = n
        BY <3>1
      <4>2. h[n] = g[n]
        BY <1>2
      <4> HIDE DEF h
      <4> QED BY <4>1, <4>2
    <3>2. CASE k # n + 1
      <4>1. k \in 1..n /\ k - 1 \in 0..n /\ k - 1 # n + 1 /\ k - 1 \in 0..(n + 1)
        BY <3>2
      <4>2. h[k] = g[k] /\ h[k - 1] = g[k - 1]
        BY <3>2, <4>1
      <4>3. g[k] = Base * g[k - 1]
        BY <2>1, <4>1 DEF Powers
      <4> HIDE DEF h
      <4> QED BY <4>2, <4>3
    <3> QED BY <3>1, <3>2
  <2> HIDE DEF h
  <2>7. Powers(n + 1, h)
    BY <2>4, <2>5, <2>6 DEF Powers
  <2> QED BY <2>7
<1> HIDE DEF G
<1>3. Nat \subseteq G
  BY <1>1, <1>2, Counting
<1> QED BY <1>3 DEF G

\* They are determined.
LEMMA PowersAgree ==
  ASSUME NEW n \in Nat, NEW m \in Nat, n <= m, NEW g, NEW h, Powers(n, g), Powers(m, h)
  PROVE \A k \in 0..n : g[k] = h[k]
<1> DEFINE G == {k \in Nat : k <= n => g[k] = h[k]}
<1>1. 0 \in G
  BY DEF Powers
<1>2. ASSUME NEW k \in Nat, k \in G PROVE k + 1 \in G
  <2>1. SUFFICES ASSUME k + 1 <= n PROVE g[k + 1] = h[k + 1]
    OBVIOUS
  <2>2. k + 1 \in 1..n /\ k + 1 \in 1..m /\ (k + 1) - 1 = k
    BY <2>1
  <2>3. g[k + 1] = Base * g[k] /\ h[k + 1] = Base * h[k]
    BY <2>2 DEF Powers
  <2>4. g[k] = h[k]
    BY <1>2, <2>1
  <2> QED BY <2>3, <2>4
<1> HIDE DEF G
<1>3. Nat \subseteq G
  BY <1>1, <1>2, Counting
<1> QED BY <1>3 DEF G

\* The powers are what their definition says.
LEMMA PowerIs ==
  /\ Power[0] = 1
  /\ \A k \in Nat : Power[k] \in Nat /\ Power[k + 1] = Base * Power[k]
<1> DEFINE p == [n \in Nat |-> CHOOSE g : Powers(n, g)]
           f == [n \in Nat |-> p[n][n]]
<1>1. \A n \in Nat : Powers(n, p[n])
  <2>1. \A n \in Nat : Powers(n, CHOOSE g : Powers(n, g))
    BY PowersExist
  <2> QED BY <2>1
<1> HIDE DEF p
<1>2. \A n \in Nat : f[n] = p[n][n]
  OBVIOUS
<1>3. DOMAIN f = Nat /\ f = [n \in Nat |-> f[n]]
  OBVIOUS
<1> HIDE DEF f
<1>4. \A n \in Nat : f[n] \in Nat
  BY <1>1, <1>2 DEF Powers
<1>5. f[0] = 1
  BY <1>1, <1>2 DEF Powers
<1>6. ASSUME NEW n \in Nat PROVE f[n + 1] = Base * f[n]
  <2>1. p[n + 1][n + 1] = Base * p[n + 1][n]
    <3>1. Powers(n + 1, p[n + 1]) /\ n + 1 \in 1..(n + 1) /\ (n + 1) - 1 = n
      BY <1>1
    <3> QED BY <3>1 DEF Powers
  <2>2. p[n][n] = p[n + 1][n]
    <3>1. Powers(n, p[n]) /\ Powers(n + 1, p[n + 1]) /\ n <= n + 1 /\ n \in 0..n
      BY <1>1
    <3> QED BY <3>1, PowersAgree
  <2> QED BY <2>1, <2>2, <1>2
<1>7. \A k \in Nat : f[k] = IF k = 0 THEN 1 ELSE Base * f[k - 1]
  <2>1. TAKE k \in Nat
  <2>2. CASE k = 0
    BY <2>2, <1>5
  <2>3. CASE k # 0
    <3>1. k - 1 \in Nat /\ (k - 1) + 1 = k
      BY <2>3
    <3> QED BY <2>3, <3>1, <1>6
  <2> QED BY <2>2, <2>3
<1>8. f = [k \in Nat |-> IF k = 0 THEN 1 ELSE Base * f[k - 1]]
  BY <1>3, <1>7
<1>9. Power = [k \in Nat |-> IF k = 0 THEN 1 ELSE Base * Power[k - 1]]
  <2> DEFINE Is(g) == g = [k \in Nat |-> IF k = 0 THEN 1 ELSE Base * g[k - 1]]
  <2>1. Is(f)
    BY <1>8
  <2>2. Power = CHOOSE g : Is(g)
    BY DEF Power
  <2> HIDE DEF Is
  <2>3. Is(Power)
    BY <2>1, <2>2
  <2> QED BY <2>3 DEF Is
<1>10. \A k \in Nat : Power[k] = IF k = 0 THEN 1 ELSE Base * Power[k - 1]
  BY <1>9
<1>11. \A k \in Nat : Power[k + 1] = Base * Power[k]
  <2>1. TAKE k \in Nat
  <2>2. k + 1 \in Nat /\ k + 1 # 0 /\ (k + 1) - 1 = k
    OBVIOUS
  <2> QED BY <2>2, <1>10
<1>12. Power[0] = 1
  BY <1>10
<1> DEFINE G == {k \in Nat : Power[k] \in Nat}
<1>13. 0 \in G
  BY <1>12
<1>14. ASSUME NEW k \in Nat, k \in G PROVE k + 1 \in G
  <2>1. Power[k] \in Nat /\ Power[k + 1] = Base * Power[k]
    BY <1>11, <1>14
  <2>2. Base * Power[k] \in Nat
    BY <2>1, BaseIsNat, ProductIsNat
  <2> QED BY <2>1, <2>2
<1> HIDE DEF G
<1>15. Nat \subseteq G
  BY <1>13, <1>14, Counting
<1> QED BY <1>11, <1>12, <1>15 DEF G

\* No power is 0: there is a byte.
LEMMA PowerPositive == \A k \in Nat : Power[k] \in Nat /\ Power[k] > 0
<1> DEFINE G == {k \in Nat : Power[k] > 0}
<1>1. 0 \in G
  BY PowerIs
<1>2. ASSUME NEW k \in Nat, k \in G PROVE k + 1 \in G
  <2>1. Base \in Nat /\ Power[k] \in Nat /\ Power[k] > 0 /\ Power[k + 1] = Base * Power[k]
    BY <1>2, BaseIsNat, PowerIs
  <2>2. Base * 0 + Base <= Base * Power[k]
    BY <2>1, Bigger
  <2> QED BY <2>1, <2>2, BaseIsNat
<1> HIDE DEF G
<1>3. Nat \subseteq G
  BY <1>1, <1>2, Counting
<1> QED BY <1>3, PowerIs DEF G

\* The digits of a number are bytes.
LEMMA DigitsTyped ==
  ASSUME NEW n \in Nat, NEW width \in Nat
  PROVE  BigEndian(n, width) \in [1..width -> Bytes]
<1>1. ASSUME NEW i \in 1..width PROVE (n \div Power[width - i]) % Base \in Bytes
  <2>1. Power[width - i] \in Nat /\ Power[width - i] > 0
    BY PowerPositive
  <2>2. n \div Power[width - i] \in Nat
    BY <2>1, DivMod
  <2> QED BY <2>2, DivMod, BaseIsNat
<1> QED BY <1>1 DEF BigEndian

\* The digits of a number: those of the number without its last, and that.
LEMMA DigitsSplit ==
  ASSUME NEW n \in Nat, NEW width \in Nat
  PROVE  /\ n \div Base \in Nat
         /\ \A i \in 1..width : BigEndian(n, width + 1)[i] = BigEndian(n \div Base, width)[i]
         /\ BigEndian(n, width + 1)[width + 1] = n % Base
<1>1. n \div Base \in Nat
  BY DivMod, BaseIsNat
<1>2. ASSUME NEW i \in 1..width
      PROVE  BigEndian(n, width + 1)[i] = BigEndian(n \div Base, width)[i]
  <2> DEFINE p == Power[width - i]
  <2>1. width - i \in Nat /\ (width - i) + 1 = (width + 1) - i /\ i \in 1..(width + 1)
    OBVIOUS
  <2>2. p \in Nat /\ p > 0 /\ Power[(width + 1) - i] = Base * p
    BY <2>1, PowerIs, PowerPositive
  <2>3. BigEndian(n, width + 1)[i] = (n \div Power[(width + 1) - i]) % Base
    BY <2>1 DEF BigEndian
  <2>4. BigEndian(n \div Base, width)[i] = ((n \div Base) \div p) % Base
    BY DEF BigEndian
  <2> HIDE DEF p
  <2>5. n \div (Base * p) = (n \div Base) \div p
    BY <2>2, BaseIsNat, DivDiv
  <2> QED BY <2>2, <2>3, <2>4, <2>5
<1>3. BigEndian(n, width + 1)[width + 1] = n % Base
  <2>1. width + 1 \in 1..(width + 1) /\ (width + 1) - (width + 1) = 0
    OBVIOUS
  <2>2. BigEndian(n, width + 1)[width + 1] = (n \div Power[0]) % Base
    BY <2>1 DEF BigEndian
  <2>3. n \div 1 = n
    OBVIOUS
  <2> QED BY <2>2, <2>3, PowerIs
<1> QED BY <1>1, <1>2, <1>3

\* Without its last digit a number needs one byte less.
LEMMA ShorterValue ==
  ASSUME NEW width \in Nat, NEW n \in Values(width + 1)
  PROVE  /\ n \in Nat /\ n \div Base \in Values(width)
         /\ n % Base \in Bytes /\ n = Base * (n \div Base) + (n % Base)
<1> DEFINE q == n \div Base
           p == Power[width]
<1>1. p \in Nat /\ Power[width + 1] = Base * p /\ Base * p \in Nat
  BY PowerIs, BaseIsNat, ProductIsNat
<1>2. n \in Nat /\ n < Base * p
  BY <1>1 DEF Values
<1>3. q \in Nat /\ n % Base \in 0..(Base - 1) /\ n = Base * q + (n % Base)
  BY <1>2, DivMod, BaseIsNat
<1> HIDE DEF q, p
<1>4. q < p
  <2>1. SUFFICES ASSUME p < q + 1 PROVE FALSE
    BY <1>1, <1>3
  <2>2. Base * p + Base <= Base * (q + 1)
    BY <1>1, <1>3, <2>1, BaseIsNat, Bigger
  <2>3. Base * (q + 1) = Base * q + Base
    BY <1>3, BaseIsNat
  <2>4. Base * q \in Nat
    BY <1>3, BaseIsNat, ProductIsNat
  <2> QED BY <1>1, <1>2, <1>3, <2>2, <2>3, <2>4, BaseIsNat
<1> QED BY <1>1, <1>2, <1>3, <1>4, BaseIsNat DEF Values, p, q

\* Two numbers of a width have different digits.
LEMMA DigitsTell ==
  \A width \in Nat : \A m, n \in Values(width) :
    BigEndian(m, width) = BigEndian(n, width) => m = n
<1> DEFINE T(width) == \A m, n \in Values(width) :
                         BigEndian(m, width) = BigEndian(n, width) => m = n
           G == {width \in Nat : T(width)}
<1>1. 0 \in G
  BY PowerIs DEF Values
<1>2. ASSUME NEW width \in Nat, width \in G PROVE width + 1 \in G
  <2>1. SUFFICES ASSUME NEW m \in Values(width + 1), NEW n \in Values(width + 1),
                        BigEndian(m, width + 1) = BigEndian(n, width + 1)
                 PROVE  m = n
    OBVIOUS
  <2>2. /\ m \in Nat /\ m \div Base \in Values(width) /\ m = Base * (m \div Base) + (m % Base)
        /\ n \in Nat /\ n \div Base \in Values(width) /\ n = Base * (n \div Base) + (n % Base)
    BY ShorterValue
  <2>3. /\ BigEndian(m, width + 1)[width + 1] = m % Base
        /\ BigEndian(n, width + 1)[width + 1] = n % Base
        /\ \A i \in 1..width : BigEndian(m, width + 1)[i] = BigEndian(m \div Base, width)[i]
        /\ \A i \in 1..width : BigEndian(n, width + 1)[i] = BigEndian(n \div Base, width)[i]
    BY <2>2, DigitsSplit
  <2>4. BigEndian(m \div Base, width) = BigEndian(n \div Base, width)
    <3>1. \A i \in 1..width :
            BigEndian(m \div Base, width)[i] = BigEndian(n \div Base, width)[i]
      BY <2>1, <2>3
    <3>2. m \div Base \in Nat /\ n \div Base \in Nat
      BY <2>2, DigitsSplit
    <3>3. /\ BigEndian(m \div Base, width) \in [1..width -> Bytes]
          /\ BigEndian(n \div Base, width) \in [1..width -> Bytes]
      BY <3>2, DigitsTyped
    <3> QED BY <3>1, <3>3
  <2>5. m \div Base = n \div Base
    BY <1>2, <2>2, <2>4
  <2>6. m % Base = n % Base
    BY <2>1, <2>3
  <2> QED BY <2>2, <2>5, <2>6
<1> HIDE DEF G
<1>3. Nat \subseteq G
  BY <1>1, <1>2, Counting
<1> QED BY <1>3 DEF G

\* Every string of bytes is the digits of a number.
LEMMA DigitsSpell ==
  \A width \in Nat : \A s \in [1..width -> Bytes] :
    \E n \in Values(width) : BigEndian(n, width) = s
<1> DEFINE T(width) == \A s \in [1..width -> Bytes] :
                         \E n \in Values(width) : BigEndian(n, width) = s
           G == {width \in Nat : T(width)}
<1>1. 0 \in G
  <2>1. SUFFICES ASSUME NEW s \in [1..0 -> Bytes]
                 PROVE  \E n \in Values(0) : BigEndian(n, 0) = s
    OBVIOUS
  <2>2. 0 \in Values(0)
    BY PowerIs DEF Values
  <2>3. BigEndian(0, 0) \in [1..0 -> Bytes]
    BY DigitsTyped
  <2>4. BigEndian(0, 0) = s
    BY <2>3
  <2> QED BY <2>2, <2>4
<1>2. ASSUME NEW width \in Nat, width \in G PROVE width + 1 \in G
  <2>1. SUFFICES ASSUME NEW s \in [1..(width + 1) -> Bytes]
                 PROVE  \E n \in Values(width + 1) : BigEndian(n, width + 1) = s
    OBVIOUS
  <2> DEFINE front == [i \in 1..width |-> s[i]]
             last == s[width + 1]
             p == Power[width]
  <2>2. front \in [1..width -> Bytes] /\ last \in 0..(Base - 1)
    BY BaseIsNat
  <2>3. \A i \in 1..width : front[i] = s[i]
    OBVIOUS
  <2>4. PICK q \in Values(width) : BigEndian(q, width) = front
    BY <1>2, <2>2
  <2>5. p \in Nat /\ Power[width + 1] = Base * p /\ Base * p \in Nat
    BY PowerIs, BaseIsNat, ProductIsNat
  <2>6. q \in Nat /\ q < p
    BY <2>5 DEF Values
  <2> DEFINE n == Base * q + last
  <2> HIDE DEF front, p
  <2>7. n \in Nat /\ n < Base * p
    <3>1. Base * q + Base <= Base * p
      BY <2>5, <2>6, BaseIsNat, Bigger
    <3>2. Base * q \in Nat
      BY <2>6, BaseIsNat, ProductIsNat
    <3> HIDE DEF last
    <3> QED BY <2>2, <2>5, <3>1, <3>2, BaseIsNat
  <2>8. n \div Base = q /\ n % Base = last
    <3> HIDE DEF last
    <3> QED BY <2>2, <2>6, <2>7, BaseIsNat, DivUnique
  <2>9. n \in Values(width + 1)
    BY <2>5, <2>7 DEF Values
  <2> HIDE DEF n
  <2>10. \A i \in 1..(width + 1) : BigEndian(n, width + 1)[i] = s[i]
    <3>1. TAKE i \in 1..(width + 1)
    <3>2. CASE i = width + 1
      BY <3>2, <2>7, <2>8, DigitsSplit
    <3>3. CASE i # width + 1
      <4>1. i \in 1..width
        BY <3>3
      <4>2. BigEndian(n, width + 1)[i] = BigEndian(q, width)[i]
        BY <4>1, <2>7, <2>8, DigitsSplit
      <4> QED BY <4>1, <4>2, <2>3, <2>4
    <3> QED BY <3>2, <3>3
  <2>11. BigEndian(n, width + 1) \in [1..(width + 1) -> Bytes]
    BY <2>7, DigitsTyped
  <2> QED BY <2>9, <2>10, <2>11
<1> HIDE DEF G
<1>3. Nat \subseteq G
  BY <1>1, <1>2, Counting
<1> QED BY <1>3 DEF G

-----------------------------------------------------------------------------
(* What a host keeps *)

\* Reversing byte strings, twice.
LEMMA ReverseTwice ==
  ASSUME NEW width \in Nat, NEW s \in [1..width -> Bytes]
  PROVE  /\ Reverse(s) \in [1..width -> Bytes]
         /\ Reverse(Reverse(s)) = s
<1>1. s \in Seq(Bytes) /\ Len(s) = width
  OBVIOUS
<1>2. \A i \in 1..width : (width - i) + 1 \in 1..width /\ (width - ((width - i) + 1)) + 1 = i
  OBVIOUS
<1> DEFINE r == Reverse(s)
<1>3. r = [i \in 1..width |-> s[(width - i) + 1]]
  BY <1>1 DEF Reverse
<1> HIDE DEF r
<1>4. r \in [1..width -> Bytes]
  BY <1>2, <1>3
<1>5. r \in Seq(Bytes) /\ Len(r) = width
  BY <1>4
<1>6. Reverse(r) = [i \in 1..width |-> r[(width - i) + 1]]
  BY <1>5 DEF Reverse
<1>7. \A i \in 1..width : r[(width - i) + 1] = s[i]
  BY <1>2, <1>3
<1>8. Reverse(r) = s
  BY <1>6, <1>7
<1> QED BY <1>4, <1>8 DEF r

\* What a host keeps an integer as is a byte string of its width.
LEMMA StoredTyped ==
  ASSUME NEW little \in BOOLEAN, NEW width \in Nat, NEW n \in Values(width)
  PROVE  /\ n \in Nat /\ BigEndian(n, width) \in [1..width -> Bytes]
         /\ Stored(little, n, width) \in [1..width -> Bytes]
<1>1. n \in Nat
  BY PowerIs DEF Values
<1>2. BigEndian(n, width) \in [1..width -> Bytes]
  BY <1>1, DigitsTyped
<1> QED BY <1>1, <1>2, ReverseTwice DEF Stored

\* Two integers are kept differently.
LEMMA StoredTells ==
  ASSUME NEW little \in BOOLEAN, NEW width \in Nat, NEW m \in Values(width),
         NEW n \in Values(width), Stored(little, m, width) = Stored(little, n, width)
  PROVE  m = n
<1>1. BigEndian(m, width) = BigEndian(n, width)
  <2>1. CASE little
    <3>1. Reverse(BigEndian(m, width)) = Reverse(BigEndian(n, width))
      BY <2>1 DEF Stored
    <3>2. /\ BigEndian(m, width) \in [1..width -> Bytes]
          /\ BigEndian(n, width) \in [1..width -> Bytes]
      BY StoredTyped
    <3>3. /\ Reverse(Reverse(BigEndian(m, width))) = BigEndian(m, width)
          /\ Reverse(Reverse(BigEndian(n, width))) = BigEndian(n, width)
      BY <3>2, ReverseTwice
    <3> QED BY <3>1, <3>3
  <2>2. CASE ~little
    BY <2>2 DEF Stored
  <2> QED BY <2>1, <2>2
<1> QED BY <1>1, DigitsTell

\* Any byte string is what a host keeps some integer as.
LEMMA StoredSpells ==
  ASSUME NEW little \in BOOLEAN, NEW width \in Nat, NEW s \in [1..width -> Bytes]
  PROVE  \E n \in Values(width) : Stored(little, n, width) = s
<1>1. CASE little
  <2>1. Reverse(s) \in [1..width -> Bytes] /\ Reverse(Reverse(s)) = s
    BY ReverseTwice
  <2>2. PICK n \in Values(width) : BigEndian(n, width) = Reverse(s)
    BY <2>1, DigitsSpell
  <2> QED BY <1>1, <2>1, <2>2 DEF Stored
<1>2. CASE ~little
  <2>1. PICK n \in Values(width) : BigEndian(n, width) = s
    BY DigitsSpell
  <2> QED BY <1>2, <2>1 DEF Stored
<1> QED BY <1>1, <1>2

\* A host takes every byte string for the integer it keeps as that string.
LEMMA LoadedStored ==
  ASSUME NEW little \in BOOLEAN, NEW width \in Nat, NEW s \in [1..width -> Bytes]
  PROVE  Loaded(little, s) \in Values(width) /\ Stored(little, Loaded(little, s), width) = s
<1>1. Len(s) = width
  OBVIOUS
<1>2. Loaded(little, s) = CHOOSE n \in Values(width) : Stored(little, n, width) = s
  BY <1>1 DEF Loaded
<1> QED BY <1>2, StoredSpells

\* The byte swap: on a host of either byte order, hton64() of a number is kept
\* as the number's bytes with the high one first, and swapping twice is nothing.
LEMMA Swapped ==
  ASSUME NEW little \in BOOLEAN, NEW width \in Nat, NEW n \in Values(width)
  PROVE  /\ hton(little, n, width) \in Values(width)
         /\ Stored(little, hton(little, n, width), width) = BigEndian(n, width)
         /\ hton(little, hton(little, n, width), width) = n
<1>1. CASE ~little
  BY <1>1 DEF hton, Stored
<1>2. CASE little
  <2> DEFINE swap(k) == Loaded(little, Reverse(Stored(little, k, width)))
  <2>1. ASSUME NEW k \in Values(width)
        PROVE  /\ hton(little, k, width) \in Values(width)
               /\ Stored(little, hton(little, k, width), width) = Reverse(Stored(little, k, width))
    <3>1. Reverse(Stored(little, k, width)) \in [1..width -> Bytes]
      BY StoredTyped, ReverseTwice
    <3>2. hton(little, k, width) = Loaded(little, Reverse(Stored(little, k, width)))
      BY <1>2 DEF hton
    <3> QED BY <3>1, <3>2, LoadedStored
  <2> DEFINE h == hton(little, n, width)
             j == hton(little, h, width)
  <2>2. h \in Values(width) /\ Stored(little, h, width) = Reverse(Stored(little, n, width))
    BY <2>1
  <2>3. j \in Values(width) /\ Stored(little, j, width) = Reverse(Stored(little, h, width))
    BY <2>1, <2>2
  <2>4. Reverse(Reverse(Stored(little, n, width))) = Stored(little, n, width)
    BY StoredTyped, ReverseTwice
  <2>5. Reverse(Reverse(BigEndian(n, width))) = BigEndian(n, width)
    BY StoredTyped, ReverseTwice
  <2>6. Stored(little, n, width) = Reverse(BigEndian(n, width))
    BY <1>2 DEF Stored
  <2> HIDE DEF h, j
  <2>7. j = n
    BY <2>2, <2>3, <2>4, StoredTells
  <2> QED BY <2>2, <2>5, <2>6, <2>7 DEF h, j
<1> QED BY <1>1, <1>2

\* What any host reads from the bytes of a number, the high one first.
LEMMA ReadBack ==
  ASSUME NEW little \in BOOLEAN, NEW width \in Nat, NEW n \in Values(width)
  PROVE  hton(little, Loaded(little, BigEndian(n, width)), width) = n
<1> DEFINE h == hton(little, n, width)
           k == Loaded(little, BigEndian(n, width))
<1>1. h \in Values(width) /\ Stored(little, h, width) = BigEndian(n, width)
  BY Swapped
<1>2. k \in Values(width) /\ Stored(little, k, width) = BigEndian(n, width)
  BY StoredTyped, LoadedStored
<1>3. hton(little, h, width) = n
  BY Swapped
<1> HIDE DEF h, k
<1>4. k = h
  BY <1>1, <1>2, StoredTells
<1> QED BY <1>3, <1>4 DEF k

-----------------------------------------------------------------------------
(* Integers in the buffer *)

\* What is put in front of a byte string, and what is put behind it, is found
\* there again.
LEMMA FoundAgain ==
  ASSUME NEW s \in Seq(Bytes), NEW t \in Seq(Bytes)
  PROVE  /\ SubSeq(s \o t, 1, Len(s)) = s
         /\ SubSeq(s \o t, Len(s) + 1, Len(s \o t)) = t
<1> DEFINE c == s \o t
           n == Len(s)
           a == SubSeq(c, 1, n)
           z == SubSeq(c, n + 1, Len(c))
<1>1. /\ c \in Seq(Bytes) /\ n \in Nat /\ Len(t) \in Nat /\ Len(c) = n + Len(t)
      /\ \A i \in 1..(n + Len(t)) : c[i] = IF i <= n THEN s[i] ELSE t[i - n]
  BY ConcatProperties
<1>2. \A i \in 1..n : c[i] = s[i]
  BY <1>1
<1>3. \A i \in 1..Len(t) : c[n + i] = t[i]
  BY <1>1
<1> HIDE DEF c, n
<1>4. /\ a \in Seq(Bytes) /\ Len(a) = n /\ z \in Seq(Bytes) /\ Len(z) = Len(t)
      /\ a \o z = c
  <2>1. n \in 0..Len(c) /\ Len(c) - n = Len(t)
    BY <1>1
  <2> QED BY <1>1, <2>1, CutInTwo
<1>5. \A i \in 1..(n + Len(t)) : c[i] = IF i <= n THEN a[i] ELSE z[i - n]
  <2> HIDE DEF a, z
  <2>1. \A i \in 1..(Len(a) + Len(z)) : (a \o z)[i] = IF i <= Len(a) THEN a[i] ELSE z[i - Len(a)]
    BY <1>4, ConcatProperties
  <2> QED BY <1>4, <2>1
<1> HIDE DEF a, z
<1>6. \A i \in 1..n : a[i] = s[i]
  <2>1. TAKE i \in 1..n
  <2>2. i \in 1..(n + Len(t)) /\ i <= n
    BY <1>1
  <2>3. c[i] = a[i]
    BY <1>5, <2>2
  <2> QED BY <1>2, <2>3
<1>7. \A i \in 1..Len(t) : z[i] = t[i]
  <2>1. TAKE i \in 1..Len(t)
  <2>2. n + i \in 1..(n + Len(t)) /\ ~(n + i <= n) /\ (n + i) - n = i
    BY <1>1
  <2>3. c[n + i] = z[i]
    BY <1>5, <2>2
  <2> QED BY <1>3, <2>3
<1>8. a = s
  BY <1>4, <1>6, SeqEqual DEF n
<1>9. z = t
  BY <1>4, <1>7, SeqEqual
<1> QED BY <1>8, <1>9 DEF a, z, c, n

\* From a good buffer that begins with the bytes of a number a host of either
\* byte order reads the number.
LEMMA PeekedInt ==
  ASSUME NEW m, NEW little \in BOOLEAN, NEW width \in Nat, NEW n \in Values(width),
         NEW t \in Seq(Bytes), Peek(m) = BigEndian(n, width) \o t
  PROVE  peekInt(little, m, width) = n
<1> DEFINE b == BigEndian(n, width)
<1>1. b \in Seq(Bytes) /\ Len(b) = width
  BY StoredTyped
<1>2. SubSeq(Peek(m), 1, width) = b
  <2> HIDE DEF b
  <2> QED BY <1>1, FoundAgain DEF b
<1>3. peekInt(little, m, width) = hton(little, Loaded(little, b), width)
  BY <1>2 DEF peekInt
<1> QED BY <1>3, ReadBack

\* Integers go into a good buffer and come out of it.
LEMMA GoodCarries == ASSUME Good(buf) PROVE IntegersTravel
<1>1. SUFFICES ASSUME NEW sender \in BOOLEAN, NEW receiver \in BOOLEAN, NEW width \in Widths,
                      NEW n \in Values(width)
               PROVE  LET back == appendInt(sender, buf, n, width)
                          front == addInFrontInt(sender, buf, n, width)
                          read == readInt(receiver, front, width)
                      IN  /\ Peek(back) = Peek(buf) \o BigEndian(n, width)
                          /\ read.value = n /\ Peek(read.rest) = Peek(buf)
                          /\ peekInt(receiver, Retrieved(back, ReadableBytes(buf)), width) = n
  BY DEF IntegersTravel
<1> DEFINE back == appendInt(sender, buf, n, width)
           front == addInFrontInt(sender, buf, n, width)
           read == readInt(receiver, front, width)
           b == BigEndian(n, width)
           p == Peek(buf)
           r == ReadableBytes(buf)
<1>2. width \in Nat
  BY WidthsAssumption DEF WidthsAssumption
<1>3. b \in Seq(Bytes) /\ Len(b) = width
  BY <1>2, StoredTyped
<1>4. p \in Seq(Bytes) /\ Len(p) = r /\ r \in Nat
  BY PeekTyped, GoodFacts
<1>5. Stored(sender, hton(sender, n, width), width) = b
  BY <1>2, Swapped
<1>6. Good(back) /\ Peek(back) = p \o b
  <2>1. back = Appended(buf, b)
    BY <1>5 DEF appendInt
  <2> HIDE DEF back, b, p
  <2> QED BY <1>3, <2>1, AppendedGood DEF p
<1>7. Good(front) /\ Peek(front) = b \o p
  <2>1. front = Prepended(buf, b)
    BY <1>5 DEF addInFrontInt
  <2> HIDE DEF front, b, p
  <2> QED BY <1>3, <2>1, PrependedGood DEF p
<1>8. read.value = n
  <2>1. read.value = peekInt(receiver, front, width)
    BY DEF readInt
  <2> HIDE DEF read, front, p
  <2> QED BY <1>2, <1>4, <1>7, <2>1, PeekedInt
<1>9. Peek(read.rest) = p
  <2>1. read.rest = Retrieved(front, width)
    BY DEF readInt
  <2> HIDE DEF read, front, b, p
  <2>2. Peek(read.rest) = SubSeq(b \o p, width + 1, Len(b \o p))
    BY <1>2, <1>7, <2>1, RetrievedGood
  <2> QED BY <1>3, <1>4, <2>2, FoundAgain
<1>10. peekInt(receiver, Retrieved(back, r), width) = n
  <2> DEFINE m == Retrieved(back, r)
  <2> HIDE DEF back, b, p, r
  <2>1. Peek(m) = SubSeq(p \o b, r + 1, Len(p \o b))
    BY <1>4, <1>6, RetrievedGood
  <2>2. Peek(m) = b
    BY <1>3, <1>4, <2>1, FoundAgain
  <2> HIDE DEF m
  <2>3. Peek(m) = b \o <<>> /\ <<>> \in Seq(Bytes)
    BY <1>3, <2>2, ConcatEmptySeq
  <2>4. peekInt(receiver, m, width) = n
    BY <1>2, <2>3, PeekedInt DEF b
  <2> QED BY <2>4 DEF m
<1> HIDE DEF back, front, read, b, p, r
<1>11. /\ Peek(back) = p \o b /\ read.value = n /\ Peek(read.rest) = p
       /\ peekInt(receiver, Retrieved(back, r), width) = n
  BY <1>6, <1>8, <1>9, <1>10
<1> QED BY <1>11 DEF back, front, read, b, p, r

\* Whatever has been done to the buffer before, and however it makes room, an
\* integer of any width goes into it with the high byte first, in front as at the
\* end, and a host of either byte order reads the number another has written.
THEOREM IntegersAreCarried == Spec => []IntegersTravel
<1>1. Good(buf) => IntegersTravel
  BY GoodCarries
<1> QED BY <1>1, GoodInvariant, PTL
=============================================================================
