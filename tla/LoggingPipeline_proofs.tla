----------------------- MODULE LoggingPipeline_proofs -----------------------
(***************************************************************************)
(* Proofs about AsyncFileLogger and LoggingPipeline, for any buffers,      *)
(* sizes, limits and messages, and any file system.                        *)
(*                                                                         *)
(* The logger.  What is queued is one sequence of buffers whose texts lie  *)
(* end to end in the accepted stream (Chain).  Whatever the callers, the   *)
(* thread and the destructor do to it is one of four things: text grows in *)
(* its last buffer, a fresh buffer is put behind it, its first buffer is   *)
(* written, or an empty last buffer is left out.  A lemma for each says    *)
(* that the texts still lie end to end.                                    *)
(*                                                                         *)
(* The pipeline.  Its LoggerFile makes LoggerFile's steps, so LoggerFile's *)
(* invariant holds of it; its logger makes AsyncFileLogger's, and starts   *)
(* over behind what is written when a process ends.  With what joins the   *)
(* two (Joint) that is enough to follow a message through every step.      *)
(*                                                                         *)
(* Reading the files.  Each chunk tells of the calls from where the chunk  *)
(* before it ended, and what is not written of the rest (ChunksTell); what *)
(* the files keep of a process is a run of chunks without a hole, which    *)
(* retention shortens from its beginning only (KeptRun).                   *)
(***************************************************************************)
EXTENDS LoggingPipeline, SequenceTheorems, TLAPS

-----------------------------------------------------------------------------
(* Texts that lie end to end *)

\* The texts T of the buffers q begin where bg says: the first where the file f
\* ends, each other where the one before it ends, and the last ends with acc.
Chain(q, T, bg, f, acc) ==
  /\ Len(f) <= Len(acc) /\ \A k \in 1..Len(f) : f[k] = acc[k]
  /\ \A i \in 1..Len(q) :
       /\ bg[q[i]] = IF i = 1 THEN Len(f) ELSE bg[q[i - 1]] + Len(T[q[i - 1]])
       /\ bg[q[i]] + Len(T[q[i]]) <= Len(acc)
       /\ \A k \in 1..Len(T[q[i]]) : T[q[i]][k] = acc[bg[q[i]] + k]
  /\ \A i, j \in 1..Len(q) : i < j => bg[q[i]] + Len(T[q[i]]) <= bg[q[j]]
  /\ Len(acc) = IF q = <<>> THEN Len(f) ELSE bg[q[Len(q)]] + Len(T[q[Len(q)]])

Injective(q) == \A i, j \in 1..Len(q) : q[i] = q[j] => i = j

\* What these are.
ChainOf(q, T, bg, f, acc) ==
  /\ q \in Seq(Buffers) /\ f \in Seq(Entries) /\ acc \in Seq(Entries)
  /\ T \in [Buffers -> Seq(Entries)] /\ bg \in [Buffers -> Nat]
  /\ Injective(q) /\ Chain(q, T, bg, f, acc)

\* The types, spelled out.
LEMMA ChainTypes ==
  ASSUME NEW q, NEW T, NEW bg, NEW f, NEW acc, ChainOf(q, T, bg, f, acc)
  PROVE  /\ Len(q) \in Nat /\ \A i \in 1..Len(q) : q[i] \in Buffers
         /\ q = <<>> <=> Len(q) = 0
         /\ Len(f) \in Nat /\ Len(acc) \in Nat
         /\ \A b \in Buffers : T[b] \in Seq(Entries) /\ Len(T[b]) \in Nat /\ bg[b] \in Nat
<1>1. /\ q \in Seq(Buffers) /\ f \in Seq(Entries) /\ acc \in Seq(Entries)
      /\ T \in [Buffers -> Seq(Entries)] /\ bg \in [Buffers -> Nat]
    BY DEF ChainOf
<1>2. Len(q) \in Nat /\ (q = <<>> <=> Len(q) = 0)
    BY <1>1, EmptySeq, LenProperties
<1> QED
    BY <1>1, <1>2, ElementOfSeq, LenProperties

\* The texts end by the end of acc, each before the next begins.
LEMMA ChainEnds ==
  ASSUME NEW q, NEW T, NEW bg, NEW f, NEW acc, ChainOf(q, T, bg, f, acc), NEW i \in 1..Len(q)
  PROVE  /\ bg[q[i]] = IF i = 1 THEN Len(f) ELSE bg[q[i - 1]] + Len(T[q[i - 1]])
         /\ bg[q[i]] + Len(T[q[i]]) <= Len(acc)
         /\ \A k \in 1..Len(T[q[i]]) : T[q[i]][k] = acc[bg[q[i]] + k]
         /\ \A j \in 1..Len(q) : i < j => bg[q[i]] + Len(T[q[i]]) <= bg[q[j]]
         /\ i = Len(q) => Len(acc) = bg[q[i]] + Len(T[q[i]])
<1>1. q # <<>>
    BY ChainTypes
<1> QED
    BY <1>1 DEF ChainOf, Chain

\* T2 has t behind what T has for b, and the texts of T otherwise.
Grown(T, T2, b, t) ==
  /\ t \in Seq(Entries) /\ T2 \in [Buffers -> Seq(Entries)]
  /\ T2[b] = T[b] \o t
  /\ \A x \in Buffers : x # b => T2[x] = T[x]

\* What a concatenation of entries is.
LEMMA Joined ==
  ASSUME NEW s, NEW t, s \in Seq(Entries), t \in Seq(Entries)
  PROVE  /\ Len(s) \in Nat /\ Len(t) \in Nat
         /\ s \o t \in Seq(Entries) /\ Len(s \o t) = Len(s) + Len(t)
         /\ \A k \in 1..Len(s) : (s \o t)[k] = s[k]
         /\ \A k \in 1..(Len(s) + Len(t)) : k > Len(s) => (s \o t)[k] = t[k - Len(s)]
<1>1. Len(s) \in Nat /\ Len(t) \in Nat
    BY LenProperties
<1>2. /\ s \o t \in Seq(Entries) /\ Len(s \o t) = Len(s) + Len(t)
      /\ \A k \in 1..(Len(s) + Len(t)) :
           (s \o t)[k] = IF k <= Len(s) THEN s[k] ELSE t[k - Len(s)]
    BY ConcatProperties
<1> HIDE DEF Entries
<1> QED
    BY <1>1, <1>2

\* Text that is accepted grows in the last buffer.
LEMMA ChainGrows ==
  ASSUME NEW q, q # <<>>, NEW T, NEW T2, NEW bg, NEW f, NEW acc, NEW t, NEW last,
         ChainOf(q, T, bg, f, acc), last = q[Len(q)], Grown(T, T2, last, t)
  PROVE  ChainOf(q, T2, bg, f, acc \o t)
<1> DEFINE n == Len(q)
           acc2 == acc \o t
<1>1. n \in Nat \ {0} /\ (\A i \in 1..n : q[i] \in Buffers) /\ last \in Buffers
    BY ChainTypes
<1>2. /\ Len(acc) \in Nat /\ Len(t) \in Nat
      /\ acc2 \in Seq(Entries) /\ Len(acc2) = Len(acc) + Len(t)
      /\ \A k \in 1..Len(acc) : acc2[k] = acc[k]
      /\ \A k \in 1..(Len(acc) + Len(t)) : k > Len(acc) => acc2[k] = t[k - Len(acc)]
    BY Joined DEF ChainOf, Grown
<1>3. T[last] \in Seq(Entries)
    BY <1>1, ChainTypes
<1>4. /\ Len(T[last]) \in Nat
      /\ Len(T2[last]) = Len(T[last]) + Len(t)
      /\ \A k \in 1..Len(T[last]) : T2[last][k] = T[last][k]
      /\ \A k \in 1..(Len(T[last]) + Len(t)) :
           k > Len(T[last]) => T2[last][k] = t[k - Len(T[last])]
    BY <1>3, Joined DEF Grown
<1>5. \A i \in 1..n : i # n => q[i] # last /\ T2[q[i]] = T[q[i]]
    BY <1>1 DEF ChainOf, Injective, Grown
<1>6. \A b \in Buffers : Len(T[b]) \in Nat /\ bg[b] \in Nat
    BY ChainTypes
<1>7. /\ Len(acc) = bg[last] + Len(T[last])
      /\ \A k \in 1..Len(T[last]) : T[last][k] = acc[bg[last] + k]
  <2>1. n \in 1..n
      BY <1>1
  <2> QED
      BY <2>1, ChainEnds
<1>9. Len(f) \in Nat /\ Len(f) <= Len(acc) /\ \A k \in 1..Len(f) : f[k] = acc[k]
    BY ChainTypes DEF ChainOf, Chain
<1>8. \A i \in 1..n :
        /\ bg[q[i]] = IF i = 1 THEN Len(f) ELSE bg[q[i - 1]] + Len(T[q[i - 1]])
        /\ bg[q[i]] + Len(T[q[i]]) <= Len(acc)
        /\ \A k \in 1..Len(T[q[i]]) : T[q[i]][k] = acc[bg[q[i]] + k]
        /\ \A j \in 1..n : i < j => bg[q[i]] + Len(T[q[i]]) <= bg[q[j]]
    BY ChainEnds
<1> HIDE DEF n, acc2
<1>a. Len(f) <= Len(acc2) /\ \A k \in 1..Len(f) : f[k] = acc2[k]
    BY <1>2, <1>9
<1>b. ASSUME NEW i \in 1..n
      PROVE  /\ bg[q[i]] = IF i = 1 THEN Len(f) ELSE bg[q[i - 1]] + Len(T2[q[i - 1]])
             /\ bg[q[i]] + Len(T2[q[i]]) <= Len(acc2)
             /\ \A k \in 1..Len(T2[q[i]]) : T2[q[i]][k] = acc2[bg[q[i]] + k]
  <2>1. bg[q[i]] = IF i = 1 THEN Len(f) ELSE bg[q[i - 1]] + Len(T2[q[i - 1]])
    <3>1. i # 1 => i - 1 \in 1..n /\ i - 1 # n
        BY <1>1
    <3> QED
        BY <3>1, <1>5, <1>8
  <2>2. CASE i = n
    <3>1. q[i] = last
        BY <2>2 DEF n
    <3>2. /\ bg[last] \in Nat /\ Len(T[last]) \in Nat /\ Len(t) \in Nat /\ Len(acc) \in Nat
          /\ Len(acc) = bg[last] + Len(T[last])
        BY <1>1, <1>2, <1>6, <1>7
    <3>3. ASSUME NEW k \in 1..(Len(T[last]) + Len(t)) PROVE T2[last][k] = acc2[bg[last] + k]
      <4>1. CASE k <= Len(T[last])
        <5>1. k \in 1..Len(T[last]) /\ bg[last] + k \in 1..Len(acc)
            BY <4>1, <3>2
        <5> QED
            BY <5>1, <1>2, <1>4, <1>7
      <4>2. CASE k > Len(T[last])
        <5>0. k \in Nat /\ k <= Len(T[last]) + Len(t)
            BY <3>2
        <5>1. /\ bg[last] + k \in 1..(Len(acc) + Len(t)) /\ bg[last] + k > Len(acc)
              /\ (bg[last] + k) - Len(acc) = k - Len(T[last])
          <6>1. bg[last] + k > bg[last] + Len(T[last])
              BY <4>2, <3>2, <5>0
          <6>2. bg[last] + k <= (bg[last] + Len(T[last])) + Len(t)
              BY <3>2, <5>0
          <6>3. (bg[last] + k) - (bg[last] + Len(T[last])) = k - Len(T[last])
              BY <3>2, <5>0
          <6> QED
              BY <6>1, <6>2, <6>3, <3>2, <5>0
        <5>2. acc2[bg[last] + k] = t[(bg[last] + k) - Len(acc)]
            BY <5>1, <1>2
        <5>3. T2[last][k] = t[k - Len(T[last])]
            BY <4>2, <1>4
        <5> QED
            BY <5>1, <5>2, <5>3
      <4> QED
          BY <4>1, <4>2, <1>4
    <3>4. bg[last] + Len(T2[last]) <= Len(acc2)
        BY <3>2, <1>2, <1>4, <1>7
    <3> QED
        BY <2>1, <3>1, <3>3, <3>4, <1>4
  <2>3. CASE i # n
    <3>1. T2[q[i]] = T[q[i]] /\ q[i] \in Buffers
        BY <2>3, <1>1, <1>5
    <3>2. /\ bg[q[i]] + Len(T[q[i]]) <= Len(acc)
          /\ \A k \in 1..Len(T[q[i]]) : T[q[i]][k] = acc[bg[q[i]] + k]
        BY <1>8
    <3>3. Len(T[q[i]]) \in Nat /\ bg[q[i]] \in Nat
        BY <3>1, <1>6
    <3>4. ASSUME NEW k \in 1..Len(T[q[i]]) PROVE bg[q[i]] + k \in 1..Len(acc)
      <4>1. bg[q[i]] + Len(T[q[i]]) <= Len(acc) /\ Len(acc) \in Nat
          BY <3>2, <1>2
      <4> QED
          BY <4>1, <3>3
    <3>5. bg[q[i]] + Len(T[q[i]]) <= Len(acc2)
        BY <3>2, <3>3, <1>2
    <3> QED
        BY <2>1, <3>1, <3>2, <3>4, <3>5, <1>2
  <2> QED
      BY <2>2, <2>3
<1>c. ASSUME NEW i \in 1..n, NEW j \in 1..n, i < j
      PROVE  bg[q[i]] + Len(T2[q[i]]) <= bg[q[j]]
  <2>1. i # n
      BY <1>1, <1>c
  <2> QED
      BY <2>1, <1>c, <1>5, <1>8
<1>d. Len(acc2) = bg[last] + Len(T2[last])
  <2>1. bg[last] \in Nat
      BY <1>1, <1>6
  <2> QED
      BY <2>1, <1>2, <1>4, <1>7
<1>e. Chain(q, T2, bg, f, acc2)
    BY <1>a, <1>b, <1>c, <1>d DEF Chain, n
<1> QED
    BY <1>e, <1>2 DEF ChainOf, Grown, acc2

\* A buffer without text is put behind the others.
LEMMA ChainPushed ==
  ASSUME NEW q, NEW T, NEW T2, NEW bg, NEW f, NEW acc, NEW b \in Buffers,
         ChainOf(q, T, bg, f, acc), \A i \in 1..Len(q) : q[i] # b,
         T2 = [T EXCEPT ![b] = <<>>]
  PROVE  ChainOf(Append(q, b), T2, [bg EXCEPT ![b] = Len(acc)], f, acc)
<1> DEFINE n == Len(q)
           q2 == Append(q, b)
           bg2 == [bg EXCEPT ![b] = Len(acc)]
<1>1. /\ n \in Nat /\ (\A i \in 1..n : q[i] \in Buffers)
      /\ (q = <<>> <=> n = 0) /\ Len(f) \in Nat /\ Len(acc) \in Nat
    BY ChainTypes
<1>2. /\ q2 \in Seq(Buffers) /\ Len(q2) = n + 1 /\ q2 # <<>> /\ q2[n + 1] = b
      /\ \A i \in 1..n : q2[i] = q[i]
    BY AppendProperties DEF ChainOf
<1>3. /\ T2 \in [Buffers -> Seq(Entries)] /\ bg2 \in [Buffers -> Nat]
      /\ Len(T2[b]) = 0 /\ bg2[b] = Len(acc)
      /\ \A x \in Buffers : x # b => T2[x] = T[x] /\ bg2[x] = bg[x]
    BY <1>1 DEF ChainOf
<1>4. \A i \in 1..n : q2[i] = q[i] /\ T2[q[i]] = T[q[i]] /\ bg2[q[i]] = bg[q[i]]
    BY <1>1, <1>2, <1>3
<1>5. \A i \in 1..n :
        /\ bg[q[i]] = IF i = 1 THEN Len(f) ELSE bg[q[i - 1]] + Len(T[q[i - 1]])
        /\ bg[q[i]] + Len(T[q[i]]) <= Len(acc)
        /\ \A k \in 1..Len(T[q[i]]) : T[q[i]][k] = acc[bg[q[i]] + k]
        /\ \A j \in 1..n : i < j => bg[q[i]] + Len(T[q[i]]) <= bg[q[j]]
        /\ i = n => Len(acc) = bg[q[i]] + Len(T[q[i]])
    BY ChainEnds
<1>6. Len(f) <= Len(acc) /\ (\A k \in 1..Len(f) : f[k] = acc[k]) /\ (n = 0 => Len(acc) = Len(f))
    BY <1>1 DEF ChainOf, Chain
<1>7. Injective(q2)
  <2>1. ASSUME NEW i \in 1..(n + 1), NEW j \in 1..(n + 1), q2[i] = q2[j] PROVE i = j
    <3>1. i \in 1..n \/ i = n + 1
        BY <1>1
    <3>2. j \in 1..n \/ j = n + 1
        BY <1>1
    <3>3. i \in 1..n /\ j \in 1..n => i = j
        BY <2>1, <1>2 DEF ChainOf, Injective
    <3> QED
        BY <3>1, <3>2, <3>3, <2>1, <1>2
  <2> QED
      BY <2>1, <1>2 DEF Injective
<1> HIDE DEF n, q2, bg2
<1>b. ASSUME NEW i \in 1..(n + 1)
      PROVE  /\ bg2[q2[i]] = IF i = 1 THEN Len(f) ELSE bg2[q2[i - 1]] + Len(T2[q2[i - 1]])
             /\ bg2[q2[i]] + Len(T2[q2[i]]) <= Len(acc)
             /\ \A k \in 1..Len(T2[q2[i]]) : T2[q2[i]][k] = acc[bg2[q2[i]] + k]
  <2>1. i # 1 => i - 1 \in 1..n
      BY <1>1
  <2>2. CASE i = n + 1
    <3>1. bg2[b] = IF i = 1 THEN Len(f) ELSE bg2[q2[i - 1]] + Len(T2[q2[i - 1]])
      <4>1. CASE i = 1
          BY <4>1, <2>2, <1>1, <1>3, <1>6
      <4>2. CASE i # 1
        <5>1. i - 1 \in 1..n /\ i - 1 = n
            BY <4>2, <2>1, <2>2, <1>1
        <5> QED
            BY <4>2, <5>1, <1>3, <1>4, <1>5
      <4> QED
          BY <4>1, <4>2
    <3> QED
        BY <2>2, <3>1, <1>1, <1>2, <1>3
  <2>3. CASE i \in 1..n
    <3>1. bg2[q2[i]] = IF i = 1 THEN Len(f) ELSE bg2[q2[i - 1]] + Len(T2[q2[i - 1]])
        BY <2>1, <2>3, <1>4, <1>5
    <3>2. q2[i] = q[i] /\ T2[q[i]] = T[q[i]] /\ bg2[q[i]] = bg[q[i]]
        BY <2>3, <1>4
    <3>3. /\ bg[q[i]] + Len(T[q[i]]) <= Len(acc)
          /\ \A k \in 1..Len(T[q[i]]) : T[q[i]][k] = acc[bg[q[i]] + k]
        BY <2>3, <1>5
    <3> QED
        BY <3>1, <3>2, <3>3
  <2> QED
      BY <2>2, <2>3, <1>1
<1>c. ASSUME NEW i \in 1..(n + 1), NEW j \in 1..(n + 1), i < j
      PROVE  bg2[q2[i]] + Len(T2[q2[i]]) <= bg2[q2[j]]
  <2>1. i \in 1..n /\ (j \in 1..n \/ j = n + 1)
      BY <1>1, <1>c
  <2>2. q2[i] = q[i] /\ T2[q[i]] = T[q[i]] /\ bg2[q[i]] = bg[q[i]]
      BY <2>1, <1>4
  <2>3. CASE j = n + 1
      BY <2>1, <2>2, <2>3, <1>2, <1>3, <1>5
  <2>4. CASE j \in 1..n
      BY <2>1, <2>2, <2>4, <1>c, <1>4, <1>5
  <2> QED
      BY <2>1, <2>3, <2>4
<1>d. Len(acc) = bg2[q2[n + 1]] + Len(T2[q2[n + 1]])
    BY <1>1, <1>2, <1>3
<1>e. Chain(q2, T2, bg2, f, acc)
    BY <1>2, <1>6, <1>b, <1>c, <1>d DEF Chain
<1> QED
    BY <1>2, <1>3, <1>7, <1>e DEF ChainOf, q2, bg2

\* The first buffer is written to the file; what then becomes of its text does
\* not matter.
LEMMA ChainPopped ==
  ASSUME NEW q, q # <<>>, NEW T, NEW T2, NEW bg, NEW f, NEW acc, NEW head, head = q[1],
         ChainOf(q, T, bg, f, acc),
         T2 \in [Buffers -> Seq(Entries)], \A b \in Buffers : b # head => T2[b] = T[b]
  PROVE  /\ ChainOf(Tail(q), T2, bg, f \o T[head], acc)
         /\ \A i \in 1..Len(Tail(q)) : Tail(q)[i] # head
         /\ \A i \in 1..Len(Tail(q)) : i + 1 \in 1..Len(q) /\ Tail(q)[i] = q[i + 1]
<1> DEFINE n == Len(q)
           q2 == Tail(q)
           f2 == f \o T[head]
<1>1. /\ n \in Nat \ {0} /\ (\A i \in 1..n : q[i] \in Buffers)
      /\ Len(f) \in Nat /\ Len(acc) \in Nat
      /\ head \in Buffers /\ T[head] \in Seq(Entries) /\ Len(T[head]) \in Nat
  <2>1. /\ n \in Nat \ {0} /\ (\A i \in 1..n : q[i] \in Buffers)
        /\ Len(f) \in Nat /\ Len(acc) \in Nat
      BY ChainTypes
  <2> QED
      BY <2>1, ChainTypes
<1>2. /\ q2 \in Seq(Buffers) /\ Len(q2) = n - 1
      /\ \A i \in 1..(n - 1) : q2[i] = q[i + 1]
    BY HeadTailProperties DEF ChainOf
<1>3. /\ f2 \in Seq(Entries) /\ Len(f2) = Len(f) + Len(T[head])
      /\ \A k \in 1..Len(f) : f2[k] = f[k]
      /\ \A k \in 1..(Len(f) + Len(T[head])) : k > Len(f) => f2[k] = T[head][k - Len(f)]
    BY <1>1, Joined DEF ChainOf
<1>4. \A i \in 1..n :
        /\ bg[q[i]] = IF i = 1 THEN Len(f) ELSE bg[q[i - 1]] + Len(T[q[i - 1]])
        /\ bg[q[i]] + Len(T[q[i]]) <= Len(acc)
        /\ \A k \in 1..Len(T[q[i]]) : T[q[i]][k] = acc[bg[q[i]] + k]
        /\ \A j \in 1..n : i < j => bg[q[i]] + Len(T[q[i]]) <= bg[q[j]]
        /\ i = n => Len(acc) = bg[q[i]] + Len(T[q[i]])
    BY ChainEnds
<1>5. /\ bg[head] = Len(f) /\ Len(f) + Len(T[head]) <= Len(acc)
      /\ \A k \in 1..Len(T[head]) : T[head][k] = acc[Len(f) + k]
  <2>1. 1 \in 1..n
      BY <1>1
  <2> QED
      BY <2>1, <1>4
<1>6. \A k \in 1..Len(f) : f[k] = acc[k]
    BY DEF ChainOf, Chain
<1>7. ASSUME NEW i \in 1..(n - 1)
      PROVE  /\ i \in 1..n /\ i + 1 \in 1..n /\ i + 1 # 1 /\ q2[i] = q[i + 1]
             /\ q2[i] # head /\ T2[q2[i]] = T[q2[i]]
  <2>1. i \in 1..n /\ i + 1 \in 1..n /\ i + 1 # 1 /\ 1 \in 1..n /\ q2[i] = q[i + 1]
      BY <1>1, <1>2
  <2>2. q[i + 1] # head
      BY <2>1 DEF ChainOf, Injective
  <2> QED
      BY <2>1, <2>2, <1>1
<1>8. Injective(q2)
  <2>1. ASSUME NEW i \in 1..(n - 1), NEW j \in 1..(n - 1), q2[i] = q2[j] PROVE i = j
    <3>1. q[i + 1] = q[j + 1] /\ i + 1 \in 1..n /\ j + 1 \in 1..n
        BY <2>1, <1>7
    <3>2. i + 1 = j + 1
        BY <3>1 DEF ChainOf, Injective
    <3> QED
        BY <3>2
  <2> QED
      BY <2>1, <1>2 DEF Injective
<1> HIDE DEF n, q2, f2
<1>a. Len(f2) <= Len(acc) /\ \A k \in 1..Len(f2) : f2[k] = acc[k]
  <2>1. ASSUME NEW k \in 1..(Len(f) + Len(T[head])) PROVE f2[k] = acc[k]
    <3>1. CASE k <= Len(f)
      <4>1. k \in 1..Len(f)
          BY <3>1, <1>1
      <4> QED
          BY <4>1, <1>3, <1>6
    <3>2. CASE k > Len(f)
      <4>1. k - Len(f) \in 1..Len(T[head]) /\ Len(f) + (k - Len(f)) = k
          BY <3>2, <1>1
      <4>2. f2[k] = T[head][k - Len(f)]
          BY <3>2, <1>3
      <4> QED
          BY <4>1, <4>2, <1>5
    <3> QED
        BY <3>1, <3>2, <1>1
  <2> QED
      BY <2>1, <1>3, <1>5
<1>b. ASSUME NEW i \in 1..(n - 1)
      PROVE  /\ bg[q2[i]] = IF i = 1 THEN Len(f2) ELSE bg[q2[i - 1]] + Len(T2[q2[i - 1]])
             /\ bg[q2[i]] + Len(T2[q2[i]]) <= Len(acc)
             /\ \A k \in 1..Len(T2[q2[i]]) : T2[q2[i]][k] = acc[bg[q2[i]] + k]
  <2>1. /\ i \in 1..n /\ i + 1 \in 1..n /\ i + 1 # 1 /\ q2[i] = q[i + 1]
        /\ T2[q2[i]] = T[q2[i]]
      BY <1>7
  <2>2. (i + 1) - 1 = i
      OBVIOUS
  <2>3. /\ bg[q[i + 1]] = bg[q[i]] + Len(T[q[i]])
        /\ bg[q[i + 1]] + Len(T[q[i + 1]]) <= Len(acc)
        /\ \A k \in 1..Len(T[q[i + 1]]) : T[q[i + 1]][k] = acc[bg[q[i + 1]] + k]
      BY <2>1, <2>2, <1>4
  <2>4. i = 1 => bg[q2[i]] = Len(f2)
      BY <2>1, <2>3, <1>3, <1>5
  <2>5. i # 1 => i - 1 \in 1..(n - 1) /\ (i - 1) + 1 = i
      BY <1>1
  <2>6. i # 1 => q2[i - 1] = q[i] /\ T2[q2[i - 1]] = T[q[i]]
      BY <2>5, <1>7
  <2> QED
      BY <2>1, <2>3, <2>4, <2>6
<1>c. ASSUME NEW i \in 1..(n - 1), NEW j \in 1..(n - 1), i < j
      PROVE  bg[q2[i]] + Len(T2[q2[i]]) <= bg[q2[j]]
  <2>1. i + 1 \in 1..n /\ j + 1 \in 1..n /\ i + 1 < j + 1
      BY <1>c, <1>7
  <2>2. q2[i] = q[i + 1] /\ q2[j] = q[j + 1] /\ T2[q2[i]] = T[q2[i]]
      BY <1>7
  <2> QED
      BY <2>1, <2>2, <1>4
<1>d. Len(acc) = IF q2 = <<>> THEN Len(f2) ELSE bg[q2[n - 1]] + Len(T2[q2[n - 1]])
  <2>1. n \in 1..n /\ (q2 = <<>> <=> n = 1)
      BY <1>1, <1>2, EmptySeq
  <2>2. Len(acc) = bg[q[n]] + Len(T[q[n]])
      BY <2>1, <1>4
  <2>3. CASE n = 1
      BY <2>1, <2>2, <2>3, <1>3, <1>5
  <2>4. CASE n # 1
    <3>1. n - 1 \in 1..(n - 1) /\ (n - 1) + 1 = n
        BY <2>4, <1>1
    <3>2. q2[n - 1] = q[n] /\ T2[q2[n - 1]] = T[q[n]]
        BY <3>1, <1>7
    <3> QED
        BY <2>1, <2>2, <2>4, <3>2
  <2> QED
      BY <2>3, <2>4
<1>e. Chain(q2, T2, bg, f2, acc)
    BY <1>2, <1>a, <1>b, <1>c, <1>d DEF Chain
<1> QED
    BY <1>2, <1>3, <1>7, <1>8, <1>e DEF ChainOf, q2, f2, n

\* A last buffer without text is left out.
LEMMA ChainCut ==
  ASSUME NEW q, NEW q2, NEW b, NEW T, NEW bg, NEW f, NEW acc, q \in Seq(Buffers), b \in Buffers,
         Len(q2) = Len(q) + 1, q2[Len(q) + 1] = b, \A i \in 1..Len(q) : q2[i] = q[i],
         ChainOf(q2, T, bg, f, acc), Len(T[b]) = 0
  PROVE  ChainOf(q, T, bg, f, acc)
<1> DEFINE n == Len(q)
<1>1. /\ n \in Nat /\ Len(q2) = n + 1 /\ q2[n + 1] = b
      /\ \A i \in 1..n : q2[i] = q[i]
    BY LenProperties
<1>0. \A i \in 1..Len(q2) :
        /\ bg[q2[i]] = IF i = 1 THEN Len(f) ELSE bg[q2[i - 1]] + Len(T[q2[i - 1]])
        /\ bg[q2[i]] + Len(T[q2[i]]) <= Len(acc)
        /\ \A k \in 1..Len(T[q2[i]]) : T[q2[i]][k] = acc[bg[q2[i]] + k]
        /\ \A j \in 1..Len(q2) : i < j => bg[q2[i]] + Len(T[q2[i]]) <= bg[q2[j]]
        /\ i = Len(q2) => Len(acc) = bg[q2[i]] + Len(T[q2[i]])
  <2>1. q2 # <<>>
      BY <1>1
  <2> QED
      BY <2>1 DEF ChainOf, Chain
<1>2. ASSUME NEW i \in 1..(n + 1)
      PROVE  /\ bg[q2[i]] = IF i = 1 THEN Len(f) ELSE bg[q2[i - 1]] + Len(T[q2[i - 1]])
             /\ bg[q2[i]] + Len(T[q2[i]]) <= Len(acc)
             /\ \A k \in 1..Len(T[q2[i]]) : T[q2[i]][k] = acc[bg[q2[i]] + k]
             /\ \A j \in 1..(n + 1) : i < j => bg[q2[i]] + Len(T[q2[i]]) <= bg[q2[j]]
             /\ i = n + 1 => Len(acc) = bg[q2[i]] + Len(T[q2[i]])
  <2>1. i \in 1..Len(q2) /\ Len(q2) = n + 1
      BY <1>1
  <2> HIDE DEF n
  <2> QED
      BY <2>1, <1>0
<1>3. q = <<>> <=> n = 0
    BY EmptySeq
<1>4. bg[b] \in Nat
    BY DEF ChainOf
<1>5. ASSUME NEW i \in 1..n
      PROVE  i \in 1..(n + 1) /\ q2[i] = q[i] /\ (i # 1 => i - 1 \in 1..n /\ q2[i - 1] = q[i - 1])
    BY <1>1
<1>6. Injective(q)
  <2>1. \A i, j \in 1..(n + 1) : q2[i] = q2[j] => i = j
      BY <1>1 DEF ChainOf, Injective
  <2> QED
      BY <2>1, <1>5 DEF Injective
<1>7. Len(f) <= Len(acc) /\ \A k \in 1..Len(f) : f[k] = acc[k]
    BY DEF ChainOf, Chain
<1> HIDE DEF n
<1>b. ASSUME NEW i \in 1..n
      PROVE  /\ bg[q[i]] = IF i = 1 THEN Len(f) ELSE bg[q[i - 1]] + Len(T[q[i - 1]])
             /\ bg[q[i]] + Len(T[q[i]]) <= Len(acc)
             /\ \A k \in 1..Len(T[q[i]]) : T[q[i]][k] = acc[bg[q[i]] + k]
             /\ \A j \in 1..n : i < j => bg[q[i]] + Len(T[q[i]]) <= bg[q[j]]
  <2>1. /\ bg[q2[i]] = IF i = 1 THEN Len(f) ELSE bg[q2[i - 1]] + Len(T[q2[i - 1]])
        /\ bg[q2[i]] + Len(T[q2[i]]) <= Len(acc)
        /\ \A k \in 1..Len(T[q2[i]]) : T[q2[i]][k] = acc[bg[q2[i]] + k]
        /\ \A j \in 1..(n + 1) : i < j => bg[q2[i]] + Len(T[q2[i]]) <= bg[q2[j]]
      BY <1>2, <1>5
  <2>2. \A j \in 1..n : j \in 1..(n + 1) /\ q2[j] = q[j]
      BY <1>5
  <2>3. q2[i] = q[i] /\ (i # 1 => q2[i - 1] = q[i - 1])
      BY <1>5
  <2> QED
      BY <2>1, <2>2, <2>3
<1>d. Len(acc) = IF q = <<>> THEN Len(f) ELSE bg[q[n]] + Len(T[q[n]])
  <2>1. n + 1 \in 1..(n + 1) /\ (n + 1) - 1 = n /\ (n = 0 <=> n + 1 = 1)
      BY <1>1
  <2>2. bg[b] = IF n = 0 THEN Len(f) ELSE bg[q2[n]] + Len(T[q2[n]])
      BY <2>1, <1>1, <1>2
  <2>3. n # 0 => q2[n] = q[n]
      BY <1>1
  <2>4. Len(acc) = bg[b]
      BY <2>1, <1>1, <1>2, <1>4
  <2> QED
      BY <2>2, <2>3, <2>4, <1>3
<1>e. Chain(q, T, bg, f, acc)
    BY <1>7, <1>b, <1>d DEF Chain, n
<1> QED
    BY <1>6, <1>e DEF ChainOf

-----------------------------------------------------------------------------
(* The inductive invariant *)

TextsOf(s) == [b \in Buffers |-> s[b].text]
Texts == TextsOf(str)
Gathering == dtor \notin {"write", "done"}

\* A string is empty when its length says so, takes a full message when it is
\* empty, and has grown at most once past what a notice and a message need.
StringsBounded ==
  /\ str \in [Buffers -> Strings]
  /\ \A b \in Buffers :
       /\ str[b].length = 0 <=> str[b].text = <<>>
       /\ BufSize <= str[b].capacity /\ str[b].capacity <= 2 * (BufSize + NoticeLen - 1)

\* The destructor collects when the thread is gone; the thread has buffers only
\* between taking and writing them; a closed file has everything.
PhasesAgree ==
  /\ dtor \in {"collect", "write", "done"} => thread \in {"none", "exited"}
  /\ thread \notin {"drain", "recycle"} => tmpBuffers_ = <<>>
  /\ tmpPtr = NoBuffer <=> thread # "recycle"
  /\ dtor = "done" => writeBuffers_ = <<>> /\ synced = Len(file)

\* Text in the log buffer leaves room for it in the queue, and while messages
\* are being lost the log buffer is empty: the notice always finds it so.
RoomLeft ==
  /\ Len(tmpBuffers_) <= QueueLimit + 1
  /\ Gathering => /\ Len(writeBuffers_) <= QueueLimit + 1
                  /\ LengthOf(logBufferPtr_) > 0 => Len(writeBuffers_) <= QueueLimit
  /\ lostCounter_ > 0 => LengthOf(logBufferPtr_) = 0

\* The next buffer and the one being handed back hold no text for the file.
SparesApart ==
  Gathering =>
    /\ \A i \in 1..Len(Queued) : Queued[i] # tmpPtr /\ Queued[i] # nextBufferPtr_
    /\ tmpPtr = nextBufferPtr_ => tmpPtr = NoBuffer

Chained == ChainOf(Queued, Texts, begin, file, accepted)

IInv == /\ TypeOK /\ StringsBounded /\ PhasesAgree /\ RoomLeft
        /\ SparesApart /\ Chained

-----------------------------------------------------------------------------
(* The queue of all buffers with text *)

\* Moving a buffer from one part of the queue to the next leaves the whole as
\* it is; swapping appends to it, and taking one to write cuts it at the head.
LEMMA QueueAlgebra ==
  ASSUME NEW t \in Seq(Buffers), NEW w \in Seq(Buffers), NEW l \in Buffers, NEW x \in Buffers
  PROVE  /\ t \o Append(w, l) \o <<x>> = Append(t \o w \o <<l>>, x)
         /\ Append(w, l) \o <<>> \o <<x>> = Append(<<>> \o w \o <<l>>, x)
         /\ w \o <<>> \o <<l>> = <<>> \o w \o <<l>>
         /\ <<>> \o Append(w, l) \o <<>> = <<>> \o w \o <<l>>
         /\ <<>> \o w \o <<>> = w /\ <<>> \o w \o <<l>> = Append(w, l)
         /\ t \o w \o <<l>> \in Seq(Buffers)
<1>1. /\ <<l>> \in Seq(Buffers) /\ <<x>> \in Seq(Buffers) /\ <<>> \in Seq(Buffers)
      /\ t \o w \in Seq(Buffers) /\ t \o w \o <<l>> \in Seq(Buffers)
      /\ Append(w, l) \in Seq(Buffers)
    OBVIOUS
<1>2. \A s \in Seq(Buffers) : <<>> \o s = s /\ s \o <<>> = s
    BY ConcatEmptySeq
<1>3. \A s \in Seq(Buffers) : Append(s, l) = s \o <<l>> /\ Append(s, x) = s \o <<x>>
    BY AppendIsConcat
<1>4. t \o (w \o <<l>>) = (t \o w) \o <<l>>
    BY <1>1, ConcatAssociative
<1>5. t \o Append(w, l) \o <<x>> = Append(t \o w \o <<l>>, x)
    BY <1>1, <1>3, <1>4
<1>6. Append(w, l) \o <<>> = Append(w, l) /\ w \o <<>> = w /\ <<>> \o w = w
    BY <1>1, <1>2
<1>7. <<>> \o Append(w, l) = Append(w, l)
    BY <1>1, <1>2
<1> QED
    BY <1>1, <1>3, <1>5, <1>6, <1>7

\* The first buffer of the thread is the first of all.
LEMMA QueueHead ==
  ASSUME NEW t \in Seq(Buffers), t # <<>>, NEW w \in Seq(Buffers), NEW z \in Seq(Buffers)
  PROVE  /\ t \o w \o z # <<>> /\ (t \o w \o z)[1] = Head(t)
         /\ Tail(t \o w \o z) = Tail(t) \o w \o z
<1>1. Tail(t) \in Seq(Buffers) /\ Head(t) \in Buffers /\ t = <<Head(t)>> \o Tail(t)
    OBVIOUS
<1> DEFINE h == Head(t)
           s == Tail(t)
<1> HIDE DEF h, s
<1>2. s \in Seq(Buffers) /\ h \in Buffers /\ t = <<h>> \o s /\ <<h>> \in Seq(Buffers)
    BY <1>1 DEF h, s
<1>3. t \o w \o z = <<h>> \o (s \o w \o z)
  <2>1. (<<h>> \o s) \o w = <<h>> \o (s \o w)
      BY <1>2, ConcatAssociative
  <2>2. (<<h>> \o (s \o w)) \o z = <<h>> \o ((s \o w) \o z)
      BY <1>2, ConcatProperties, ConcatAssociative
  <2> QED
      BY <2>1, <2>2, <1>2
<1>4. s \o w \o z \in Seq(Buffers)
    BY <1>2
<1>5. \A r \in Seq(Buffers) :
        <<h>> \o r # <<>> /\ (<<h>> \o r)[1] = h /\ Tail(<<h>> \o r) = r
    BY <1>2
<1> QED
    BY <1>3, <1>4, <1>5 DEF h, s

\* While the logger lives the queue is made of its three parts.
LEMMA QueueParts ==
  ASSUME TypeOK, Gathering
  PROVE  /\ Queued = tmpBuffers_ \o writeBuffers_ \o <<logBufferPtr_>>
         /\ Queued \in Seq(Buffers) /\ Queued # <<>>
         /\ Len(Queued) = Len(tmpBuffers_) + Len(writeBuffers_) + 1
         /\ \A i \in 1..Len(tmpBuffers_) : Queued[i] = tmpBuffers_[i]
         /\ \A i \in 1..Len(writeBuffers_) : Queued[Len(tmpBuffers_) + i] = writeBuffers_[i]
         /\ Queued[Len(Queued)] = logBufferPtr_
         /\ \A i \in 1..Len(Queued) :
              Queued[i] \in Elements(tmpBuffers_) \cup Elements(writeBuffers_) \cup {logBufferPtr_}
<1> DEFINE t == tmpBuffers_
           w == writeBuffers_
           l == logBufferPtr_
           q == t \o w \o <<l>>
<1>1. t \in Seq(Buffers) /\ w \in Seq(Buffers) /\ l \in Buffers
    BY DEF TypeOK
<1>2. Queued = q
    BY DEF Queued, Gathering
<1>3. Len(t) \in Nat /\ Len(w) \in Nat
    BY <1>1, LenProperties
<1>4. t \o w \in Seq(Buffers) /\ Len(t \o w) = Len(t) + Len(w)
      /\ \A i \in 1..(Len(t) + Len(w)) :
           (t \o w)[i] = IF i <= Len(t) THEN t[i] ELSE w[i - Len(t)]
    BY <1>1, ConcatProperties
<1>5. <<l>> \in Seq(Buffers) /\ Len(<<l>>) = 1 /\ <<l>>[1] = l
    BY <1>1
<1>6. q \in Seq(Buffers) /\ Len(q) = Len(t) + Len(w) + 1
      /\ \A i \in 1..(Len(t) + Len(w) + 1) :
           q[i] = IF i <= Len(t) + Len(w) THEN (t \o w)[i] ELSE <<l>>[i - (Len(t) + Len(w))]
    BY <1>4, <1>5, ConcatProperties
<1>7. q # <<>>
    BY <1>3, <1>6, EmptySeq
<1> HIDE DEF t, w, l, q
<1>a. \A i \in 1..Len(t) : q[i] = t[i]
    BY <1>3, <1>4, <1>6
<1>b. \A i \in 1..Len(w) : q[Len(t) + i] = w[i]
  <2>1. ASSUME NEW i \in 1..Len(w) PROVE q[Len(t) + i] = w[i]
    <3>1. /\ Len(t) + i \in 1..(Len(t) + Len(w)) /\ Len(t) + i \in 1..(Len(t) + Len(w) + 1)
          /\ ~(Len(t) + i <= Len(t)) /\ (Len(t) + i) - Len(t) = i
        BY <1>3
    <3> QED
        BY <3>1, <1>4, <1>6
  <2> QED
      BY <2>1
<1>c. q[Len(q)] = l
  <2>1. /\ Len(q) \in 1..(Len(t) + Len(w) + 1) /\ ~(Len(q) <= Len(t) + Len(w))
        /\ Len(q) - (Len(t) + Len(w)) = 1
      BY <1>3, <1>6
  <2> QED
      BY <2>1, <1>5, <1>6
<1>d. ASSUME NEW i \in 1..Len(q)
      PROVE  q[i] \in Elements(t) \cup Elements(w) \cup {l}
  <2>1. CASE i \in 1..Len(t)
    <3>1. q[i] = t[i] /\ i \in DOMAIN t
        BY <2>1, <1>1, <1>a, LenProperties DEF t
    <3> QED
        BY <3>1 DEF Elements
  <2>2. CASE i = Len(q)
      BY <2>2, <1>c
  <2>3. CASE i \notin 1..Len(t) /\ i # Len(q)
    <3>0. Len(q) = Len(t) + Len(w) + 1
        BY <1>6
    <3>1. i - Len(t) \in 1..Len(w) /\ Len(t) + (i - Len(t)) = i
        BY <2>3, <1>3, <3>0
    <3>2. q[i] = w[i - Len(t)]
        BY <3>1, <1>b
    <3>3. i - Len(t) \in DOMAIN w
        BY <3>1, <1>1, LenProperties DEF w
    <3> QED
        BY <3>2, <3>3 DEF Elements
  <2> QED
      BY <2>1, <2>2, <2>3
<1> QED
    BY <1>2, <1>6, <1>7, <1>a, <1>b, <1>c, <1>d DEF t, w, l, q

\* The buffer that swapBuffer() goes on with is in no other role.
LEMMA NextLogApart ==
  ASSUME IInv, Gathering, nextBufferPtr_ = NoBuffer => Unused # {}
  PROVE  /\ NextLog \in Buffers /\ NextLog # tmpPtr /\ NextLog # logBufferPtr_
         /\ \A i \in 1..Len(Queued) : Queued[i] # NextLog
<1>1. /\ Queued # <<>> /\ Queued[Len(Queued)] = logBufferPtr_
      /\ \A i \in 1..Len(Queued) :
           Queued[i] \in Elements(tmpBuffers_) \cup Elements(writeBuffers_) \cup {logBufferPtr_}
    BY QueueParts DEF IInv
<1>2. Len(Queued) \in 1..Len(Queued)
  <2>1. Queued \in Seq(Buffers) /\ Queued # <<>>
      BY QueueParts DEF IInv
  <2>2. Len(Queued) \in Nat \ {0}
      BY <2>1, EmptySeq
  <2> QED
      BY <2>2
<1>3. CASE nextBufferPtr_ # NoBuffer
  <2>1. NextLog = nextBufferPtr_ /\ nextBufferPtr_ \in Buffers
      BY <1>3 DEF NextLog, IInv, TypeOK
  <2> QED
      BY <1>1, <1>2, <1>3, <2>1 DEF IInv, SparesApart
<1>4. CASE nextBufferPtr_ = NoBuffer
  <2>1. NextLog \in Unused
      BY <1>4 DEF NextLog
  <2> QED
      BY <2>1, <1>1 DEF Unused, Referenced
<1> QED
    BY <1>3, <1>4

\* clear() keeps the memory.
LEMMA ClearedEmpty ==
  ASSUME NEW s \in Strings
  PROVE  /\ Cleared(s) \in Strings /\ Cleared(s).text = <<>> /\ Cleared(s).length = 0
         /\ Cleared(s).capacity = s.capacity
<1> DEFINE Texts_ == Seq(Entries)
<1>1. <<>> \in Texts_
    OBVIOUS
<1> HIDE DEF Texts_
<1>2. s \in [text : Texts_, length : Nat, capacity : Nat]
    BY DEF Strings, Texts_
<1>3. /\ Cleared(s).text = <<>> /\ Cleared(s).length = 0
      /\ Cleared(s).capacity = s.capacity
    BY <1>2 DEF Cleared
<1>4. Cleared(s) \in [text : Texts_, length : Nat, capacity : Nat]
    BY <1>1, <1>2 DEF Cleared
<1> QED
    BY <1>3, <1>4 DEF Strings, Texts_

\* It is given empty and with room for a full message.
LEMMA SwappedEmpty ==
  ASSUME IInv, NextLog \in Buffers
  PROVE  /\ SwappedStr \in [Buffers -> Strings]
         /\ SwappedStr[NextLog].text = <<>> /\ SwappedStr[NextLog].length = 0
         /\ BufSize <= SwappedStr[NextLog].capacity
         /\ SwappedStr[NextLog].capacity <= 2 * (BufSize + NoticeLen - 1)
         /\ \A b \in Buffers : b # NextLog => SwappedStr[b] = str[b]
         /\ TextsOf(SwappedStr) = [Texts EXCEPT ![NextLog] = <<>>]
<1>1. str \in [Buffers -> Strings] /\ str[NextLog] \in Strings
    BY DEF IInv, StringsBounded
<1>2. BufSize \in Nat \ {0} /\ NoticeLen \in 1..BufSize
    BY SizesAssumption
<1>3. /\ Cleared(str[NextLog]) \in Strings /\ Cleared(str[NextLog]).text = <<>>
      /\ Cleared(str[NextLog]).length = 0
      /\ Cleared(str[NextLog]).capacity = str[NextLog].capacity
    BY <1>1, ClearedEmpty
<1>4. /\ Reserved \in Strings /\ Reserved.text = <<>> /\ Reserved.length = 0
      /\ Reserved.capacity = BufSize
    BY <1>2 DEF Reserved, Strings
<1>5. BufSize <= 2 * (BufSize + NoticeLen - 1)
    BY <1>2
<1>6. /\ SwappedStr \in [Buffers -> Strings]
      /\ SwappedStr[NextLog] = IF nextBufferPtr_ # NoBuffer THEN Cleared(str[NextLog]) ELSE Reserved
      /\ \A b \in Buffers : b # NextLog => SwappedStr[b] = str[b]
    BY <1>1, <1>3, <1>4 DEF SwappedStr
<1>7. BufSize <= SwappedStr[NextLog].capacity
      /\ SwappedStr[NextLog].capacity <= 2 * (BufSize + NoticeLen - 1)
    BY <1>2, <1>3, <1>4, <1>5, <1>6 DEF IInv, StringsBounded
<1>8. SwappedStr[NextLog].text = <<>> /\ SwappedStr[NextLog].length = 0
    BY <1>3, <1>4, <1>6
<1>9. TextsOf(SwappedStr) = [Texts EXCEPT ![NextLog] = <<>>]
    BY <1>6, <1>8 DEF TextsOf, Texts
<1> QED
    BY <1>6, <1>7, <1>8, <1>9

\* After swapBuffer() the queue holds what it held and the fresh buffer.
LEMMA SwapChains ==
  ASSUME IInv, Gathering, nextBufferPtr_ = NoBuffer => Unused # {}
  PROVE  ChainOf(Append(Queued, NextLog), TextsOf(SwappedStr),
                 [begin EXCEPT ![NextLog] = Len(accepted)], file, accepted)
<1>1. NextLog \in Buffers /\ \A i \in 1..Len(Queued) : Queued[i] # NextLog
    BY NextLogApart
<1>2. TextsOf(SwappedStr) = [Texts EXCEPT ![NextLog] = <<>>]
    BY <1>1, SwappedEmpty
<1>3. ChainOf(Queued, Texts, begin, file, accepted)
    BY DEF IInv, Chained
<1> QED
    BY <1>1, <1>2, <1>3, ChainPushed

-----------------------------------------------------------------------------
(* output() *)

\* What StringsBounded says of one string.
Bounded(s) ==
  /\ s \in Strings
  /\ s.length = 0 <=> s.text = <<>>
  /\ BufSize <= s.capacity /\ s.capacity <= 2 * (BufSize + NoticeLen - 1)

\* A string that something is appended to stays within its bound where it has
\* the room, or where all of it is a notice and a message.
LEMMA AppendedBounded ==
  ASSUME NEW s, Bounded(s), NEW t \in Seq(Entries), t # <<>>, NEW size \in Nat \ {0},
         NEW cap \in Capacities(s, size),
         s.length + size <= s.capacity \/ s.length + size <= BufSize + NoticeLen
  PROVE  Bounded(Appended(s, t, size, cap)) /\ Appended(s, t, size, cap).text = s.text \o t
<1>1. BufSize \in Nat \ {0} /\ NoticeLen \in Nat \ {0}
    BY SizesAssumption
<1>2. s.text \in Seq(Entries) /\ s.length \in Nat /\ s.capacity \in Nat
    BY DEF Bounded, Strings
<1>3. BufSize <= s.capacity /\ s.capacity <= 2 * (BufSize + NoticeLen - 1)
    BY DEF Bounded
<1>4. cap \in Nat /\ BufSize <= cap /\ cap <= 2 * (BufSize + NoticeLen - 1)
  <2>1. CASE s.length + size <= s.capacity
      BY <2>1, <1>2, <1>3 DEF Capacities
  <2>2. CASE ~(s.length + size <= s.capacity)
    <3>1. cap = s.length + size \/ (cap \in Int /\ s.length + size <= cap /\ cap <= 2 * s.capacity)
        BY <2>2, <1>2 DEF Capacities
    <3>2. s.capacity < s.length + size /\ s.length + size <= BufSize + NoticeLen
        BY <2>2, <1>2
    <3> QED
        BY <3>1, <3>2, <1>1, <1>2, <1>3
  <2> QED
      BY <2>1, <2>2
<1>5. s.text \o t \in Seq(Entries) /\ s.text \o t # <<>>
  <2>1. Len(s.text \o t) = Len(s.text) + Len(t) /\ Len(s.text) \in Nat
        /\ Len(t) \in Nat \ {0} /\ s.text \o t \in Seq(Entries)
      BY <1>2, Joined, EmptySeq
  <2> QED
      BY <2>1, EmptySeq
<1>6. s.length + size \in Nat /\ s.length + size # 0
    BY <1>2
<1> DEFINE r == [text |-> s.text \o t, length |-> s.length + size, capacity |-> cap]
           X == Seq(Entries)
<1>7. s.text \o t \in X
    BY <1>5
<1> HIDE DEF X
<1>8. r \in [text : X, length : Nat, capacity : Nat]
    BY <1>4, <1>6, <1>7
<1>9. Bounded(r)
    BY <1>4, <1>5, <1>6, <1>8 DEF Bounded, Strings, X
<1> QED
    BY <1>9 DEF Appended

\* The notice and the message.
LEMMA TextTyped ==
  ASSUME IInv
  PROVE  /\ LostNotice \o <<Message(calls + 1)>> \in Seq(Entries)
         /\ LostNotice \o <<Message(calls + 1)>> # <<>>
         /\ LostNotice \in Seq(Entries) /\ <<Message(calls + 1)>> \in Seq(Entries)
         /\ Message(calls + 1) \in Entries
<1>1. Message(calls + 1) \in Entries /\ Notice(lostCounter_) \in Entries
  <2>1. calls + 1 \in Nat /\ lostCounter_ \in Nat
      BY DEF IInv, TypeOK
  <2> QED
      BY <2>1 DEF Entries
<1> HIDE DEF Entries
<1>2. LostNotice \in Seq(Entries) /\ <<Message(calls + 1)>> \in Seq(Entries)
    BY <1>1 DEF LostNotice
<1>3. <<Message(calls + 1)>> # <<>>
    OBVIOUS
<1>4. LostNotice \o <<Message(calls + 1)>> \in Seq(Entries)
    BY <1>2, ConcatProperties
<1>5. LostNotice \o <<Message(calls + 1)>> # <<>>
    BY <1>2, <1>3, ConcatEqualIffEmpty
<1> QED
    BY <1>1, <1>2, <1>4, <1>5

\* What output() has when it tests the limit of the queue: a queue that ends
\* with a log buffer that takes the message, and that is empty where the limit
\* is exceeded or messages have been lost.
LEMMA OutputReady ==
  ASSUME IInv, NEW len \in Lens, Output(len), NEW strs,
         strs = IF Full(len) THEN SwappedStr ELSE str
  PROVE  /\ logBufferPtr_' \in Buffers
         /\ strs \in [Buffers -> Strings] /\ \A b \in Buffers : Bounded(strs[b])
         /\ ChainOf(Queued', TextsOf(strs), begin', file, accepted)
         /\ Queued' # <<>> /\ Queued'[Len(Queued')] = logBufferPtr_'
         /\ strs[logBufferPtr_'].length + len <= strs[logBufferPtr_'].capacity
         /\ lostCounter_ > 0 => strs[logBufferPtr_'].length = 0
         /\ Len(writeBuffers_') \in Nat /\ Len(writeBuffers_') <= QueueLimit + 1
         /\ Len(writeBuffers_') > QueueLimit => strs[logBufferPtr_'].length = 0
<1>1. /\ len \in Nat \ {0} /\ len <= BufSize /\ QueueLimit \in Nat /\ BufSize \in Nat
      /\ dtor = "alive" /\ dtor' = dtor /\ tmpBuffers_' = tmpBuffers_ /\ Gathering
    BY SizesAssumption DEF Output, StopVars, ThreadVars, Gathering
<1>2. /\ logBufferPtr_ \in Buffers /\ writeBuffers_ \in Seq(Buffers)
      /\ tmpBuffers_ \in Seq(Buffers) /\ Len(writeBuffers_) \in Nat /\ lostCounter_ \in Nat
    BY LenProperties DEF IInv, TypeOK
<1>3. \A b \in Buffers : Bounded(str[b]) /\ str[b].length \in Nat /\ str[b].capacity \in Nat
    BY DEF IInv, StringsBounded, Bounded, Strings
<1>4. Queued' = tmpBuffers_' \o writeBuffers_' \o <<logBufferPtr_'>>
    BY <1>1 DEF Queued
<1>5. /\ Len(writeBuffers_) <= QueueLimit + 1
      /\ LengthOf(logBufferPtr_) > 0 => Len(writeBuffers_) <= QueueLimit
      /\ lostCounter_ > 0 => LengthOf(logBufferPtr_) = 0
    BY <1>1 DEF IInv, RoomLeft
<1>6. CASE Full(len)
  <2>1. /\ writeBuffers_' = Append(writeBuffers_, logBufferPtr_) /\ logBufferPtr_' = NextLog
        /\ begin' = [begin EXCEPT ![NextLog] = Len(accepted)]
        /\ nextBufferPtr_ = NoBuffer => Unused # {}
      BY <1>6 DEF Output, SwapBuffer, SwapPointers
  <2>2. NextLog \in Buffers
      BY <1>1, <2>1, NextLogApart
  <2>3. Queued' = Append(Queued, NextLog)
    <3>1. Queued' = tmpBuffers_ \o Append(writeBuffers_, logBufferPtr_) \o <<NextLog>>
        BY <1>1, <1>4, <2>1
    <3>2. Queued = tmpBuffers_ \o writeBuffers_ \o <<logBufferPtr_>>
        BY <1>1, QueueParts DEF IInv
    <3>3. tmpBuffers_ \o Append(writeBuffers_, logBufferPtr_) \o <<NextLog>>
            = Append(tmpBuffers_ \o writeBuffers_ \o <<logBufferPtr_>>, NextLog)
        BY <1>2, <2>2, QueueAlgebra
    <3> QED
        BY <3>1, <3>2, <3>3
  <2>4. /\ strs \in [Buffers -> Strings]
        /\ strs[NextLog].text = <<>> /\ strs[NextLog].length = 0
        /\ BufSize <= strs[NextLog].capacity
        /\ strs[NextLog].capacity <= 2 * (BufSize + NoticeLen - 1)
        /\ \A b \in Buffers : b # NextLog => strs[b] = str[b]
      BY <1>6, <2>2, SwappedEmpty
  <2>5. \A b \in Buffers : Bounded(strs[b])
      BY <2>2, <2>4, <1>3 DEF Bounded
  <2>6. ChainOf(Queued', TextsOf(strs), begin', file, accepted)
      BY <1>1, <1>6, <2>1, <2>3, SwapChains
  <2>7. LengthOf(logBufferPtr_) > 0
    <3>1. /\ str[logBufferPtr_].length \in Nat /\ str[logBufferPtr_].capacity \in Nat
          /\ BufSize <= str[logBufferPtr_].capacity
        BY <1>2, <1>3 DEF Bounded
    <3> QED
        BY <3>1, <1>1, <1>6 DEF Full, LengthOf
  <2>8. Len(writeBuffers_') = Len(writeBuffers_) + 1
      BY <1>2, <2>1, AppendProperties
  <2>9. Queued' # <<>> /\ Queued'[Len(Queued')] = NextLog
    <3>1. Queued \in Seq(Buffers)
        BY <1>1, QueueParts DEF IInv
    <3> QED
        BY <2>2, <2>3, <3>1, AppendProperties
  <2>a. strs[NextLog].capacity \in Nat
      BY <2>2, <2>4 DEF Strings
  <2>b. strs[NextLog].length + len <= strs[NextLog].capacity
      BY <2>4, <2>a, <1>1
  <2>c. Len(writeBuffers_') \in Nat /\ Len(writeBuffers_') <= QueueLimit + 1
      BY <2>7, <2>8, <1>1, <1>2, <1>5
  <2> QED
      BY <2>1, <2>2, <2>4, <2>5, <2>6, <2>9, <2>b, <2>c
<1>7. CASE ~Full(len)
  <2>1. /\ writeBuffers_' = writeBuffers_ /\ logBufferPtr_' = logBufferPtr_ /\ begin' = begin
        /\ strs = str
      BY <1>7 DEF Output
  <2>2. Queued' = Queued /\ Queued # <<>> /\ Queued[Len(Queued)] = logBufferPtr_
      BY <1>1, <1>4, <2>1, QueueParts DEF IInv
  <2>3. str[logBufferPtr_].length + len <= str[logBufferPtr_].capacity
      BY <1>1, <1>2, <1>3, <1>7 DEF Full, LengthOf
  <2>4. ChainOf(Queued', TextsOf(strs), begin', file, accepted)
      BY <2>1, <2>2 DEF IInv, Chained, Texts
  <2>5. str \in [Buffers -> Strings]
      BY DEF IInv, StringsBounded
  <2>6. Len(writeBuffers_) > QueueLimit => str[logBufferPtr_].length = 0
      BY <1>1, <1>2, <1>3, <1>5 DEF LengthOf
  <2> QED
      BY <2>1, <2>2, <2>3, <2>4, <2>5, <2>6, <1>2, <1>3, <1>5 DEF LengthOf
<1> QED
    BY <1>6, <1>7

\* The types of the parts of an entry.
LEMMA EntryParts == \A e \in Entries : e.n \in Nat /\ e.kind \in {"message", "lost"}
    BY DEF Entries, Message, Notice

\* CallsUpTo and CallsAccounted for any stream.
UpTo(acc, i) ==
  IF i = 0 THEN 0
  ELSE IF acc[i].kind = "message" THEN acc[i].n
  ELSE acc[i].n + (IF i = 1 THEN 0 ELSE acc[i - 1].n)
Accounted(acc, lost, all) ==
  /\ \A i \in 1..Len(acc) :
       IF acc[i].kind = "message" THEN acc[i].n = UpTo(acc, i - 1) + 1
       ELSE i < Len(acc) /\ acc[i + 1].kind = "message"
  /\ UpTo(acc, Len(acc)) + lost = all

\* A message that is accepted, behind a notice where some were lost, goes on
\* with the count of the calls.
LEMMA AcceptanceAccounted ==
  ASSUME NEW acc, acc \in Seq(Entries), NEW lost, lost \in Nat, NEW all, all \in Nat,
         Accounted(acc, lost, all), NEW t, t \in Seq(Entries),
         t = (IF lost > 0 THEN <<Notice(lost)>> ELSE <<>>) \o <<Message(all + 1)>>
  PROVE  Accounted(acc \o t, 0, all + 1)
<1> DEFINE n == Len(acc)
           k == IF lost > 0 THEN 2 ELSE 1
           acc2 == acc \o t
<1>1. n \in Nat /\ \A i \in 1..n : acc[i] \in Entries
    BY LenProperties, ElementOfSeq
<1>2. /\ k \in 1..2 /\ Len(t) = k /\ t[k] = Message(all + 1)
      /\ k = 2 => t[1] = Notice(lost)
    OBVIOUS
<1>4. /\ Len(acc2) = n + k
      /\ \A i \in 1..n : acc2[i] = acc[i]
      /\ \A i \in 1..(n + k) : i > n => acc2[i] = t[i - n]
  <2>1. /\ Len(acc2) = n + Len(t)
        /\ \A i \in 1..n : acc2[i] = acc[i]
        /\ \A i \in 1..(n + Len(t)) : i > n => acc2[i] = t[i - n]
      BY Joined
  <2> QED
      BY <2>1, <1>2
<1>6. /\ acc2[n + k] = Message(all + 1)
      /\ k = 2 => acc2[n + 1] = Notice(lost)
  <2>1. n + k \in 1..(n + k) /\ n + k > n /\ (n + k) - n = k
      BY <1>1, <1>2
  <2>2. n + 1 \in 1..(n + k) /\ n + 1 > n /\ (n + 1) - n = 1
      BY <1>1, <1>2
  <2> QED
      BY <2>1, <2>2, <1>2, <1>4
<1>7. /\ Message(all + 1).kind = "message" /\ Message(all + 1).n = all + 1
      /\ Notice(lost).kind = "lost" /\ Notice(lost).n = lost
    BY DEF Message, Notice
<1>8. /\ \A i \in 1..n : IF acc[i].kind = "message"
                         THEN acc[i].n = UpTo(acc, i - 1) + 1
                         ELSE i < n /\ acc[i + 1].kind = "message"
      /\ UpTo(acc, n) + lost = all
    BY DEF Accounted
<1>9. lost = 0 <=> k = 1
    OBVIOUS
<1> HIDE DEF n, k, acc2
<1>a. ASSUME NEW i \in 0..n PROVE UpTo(acc2, i) = UpTo(acc, i)
  <2>1. i # 0 => i \in 1..n /\ acc2[i] = acc[i]
      BY <1>1, <1>4
  <2>2. i # 0 /\ i # 1 => i - 1 \in 1..n /\ acc2[i - 1] = acc[i - 1]
      BY <1>1, <1>4
  <2> QED
      BY <2>1, <2>2 DEF UpTo
<1>b. n # 0 => acc[n].kind = "message" /\ UpTo(acc, n) = acc[n].n
  <2>1. n # 0 => n \in 1..n /\ ~(n < n)
      BY <1>1
  <2> QED
      BY <2>1, <1>8 DEF UpTo
<1>c. UpTo(acc, n) \in Nat
  <2>1. CASE n = 0
      BY <2>1 DEF UpTo
  <2>2. CASE n # 0
    <3>1. n \in 1..n
        BY <2>2, <1>1
    <3> QED
        BY <2>2, <3>1, <1>1, <1>b, EntryParts
  <2> QED
      BY <2>1, <2>2
<1>d. UpTo(acc2, (n + k) - 1) = all
  <2>1. CASE k = 1
    <3>1. (n + k) - 1 = n /\ n \in 0..n
        BY <2>1, <1>1
    <3>2. UpTo(acc, n) = all
        BY <2>1, <1>8, <1>9, <1>c
    <3> QED
        BY <3>1, <3>2, <1>a
  <2>2. CASE k = 2
    <3>1. (n + k) - 1 = n + 1 /\ n + 1 # 0 /\ (n + 1 = 1 <=> n = 0) /\ (n + 1) - 1 = n
        BY <2>2, <1>1
    <3>2. UpTo(acc2, n + 1) = lost + (IF n = 0 THEN 0 ELSE acc2[n].n)
        BY <2>2, <3>1, <1>6, <1>7 DEF UpTo
    <3>3. n # 0 => acc2[n].n = UpTo(acc, n)
      <4>1. n # 0 => n \in 1..n
          BY <1>1
      <4> QED
          BY <4>1, <1>4, <1>b
    <3>4. n = 0 => UpTo(acc, n) = 0
        BY DEF UpTo
    <3>5. UpTo(acc2, n + 1) = lost + UpTo(acc, n)
        BY <3>2, <3>3, <3>4
    <3>6. lost + UpTo(acc, n) = all
        BY <1>8, <1>c
    <3> QED
        BY <3>1, <3>5, <3>6
  <2> QED
      BY <2>1, <2>2, <1>2
<1>e. ASSUME NEW i \in 1..(n + k)
      PROVE  IF acc2[i].kind = "message"
             THEN acc2[i].n = UpTo(acc2, i - 1) + 1
             ELSE i < n + k /\ acc2[i + 1].kind = "message"
  <2>1. CASE i \in 1..n
    <3>1. acc2[i] = acc[i] /\ i - 1 \in 0..n
        BY <2>1, <1>1, <1>4
    <3>2. CASE acc[i].kind = "message"
        BY <2>1, <3>1, <3>2, <1>8, <1>a
    <3>3. CASE acc[i].kind # "message"
      <4>1. i < n /\ acc[i + 1].kind = "message"
          BY <2>1, <3>3, <1>8
      <4>2. i + 1 \in 1..n /\ i < n + k
          BY <2>1, <4>1, <1>1, <1>2
      <4> QED
          BY <3>1, <3>3, <4>1, <4>2, <1>4
    <3> QED
        BY <3>2, <3>3
  <2>2. CASE i = n + k
      BY <2>2, <1>6, <1>7, <1>d
  <2>3. CASE i \notin 1..n /\ i # n + k
    <3>1. i = n + 1 /\ k = 2 /\ i + 1 = n + k /\ i < n + k
        BY <2>3, <1>1, <1>2
    <3> QED
        BY <3>1, <1>6, <1>7
  <2> QED
      BY <2>1, <2>2, <2>3
<1>f. UpTo(acc2, n + k) + 0 = all + 1
  <2>1. UpTo(acc2, n + k) = all + 1
    <3>1. n + k # 0
        BY <1>1, <1>2
    <3> QED
        BY <3>1, <1>6, <1>7 DEF UpTo
  <2> QED
      BY <2>1
<1> QED
    BY <1>4, <1>e, <1>f DEF Accounted, acc2

\* CallsAccounted says this of the state.
LEMMA AccountedHere ==
  ASSUME accepted \in Seq(Entries)
  PROVE  CallsAccounted <=> Accounted(accepted, lostCounter_, calls)
<1>1. DOMAIN accepted = 1..Len(accepted)
    BY LenProperties
<1>2. ASSUME NEW i PROVE CallsUpTo(i) = UpTo(accepted, i)
    BY DEF CallsUpTo, UpTo
<1> QED
    BY <1>1, <1>2 DEF CallsAccounted, Accounted
\* The same of the state that a step leads to.
LEMMA AccountedThere ==
  ASSUME accepted' \in Seq(Entries)
  PROVE  CallsAccounted' <=> Accounted(accepted', lostCounter_', calls')
<1>1. DOMAIN accepted' = 1..Len(accepted')
    BY LenProperties
<1>2. ASSUME NEW i PROVE CallsUpTo(i)' = UpTo(accepted', i)
    BY DEF CallsUpTo, UpTo
<1> QED
    BY <1>1, <1>2 DEF CallsAccounted, Accounted

\* Appending to the strings and to what is accepted.
LEMMA EntriesAppended ==
  ASSUME IInv, NEW len \in Lens, Output(len), NEW strs,
         strs = IF Full(len) THEN SwappedStr ELSE str,
         AppendEntries(strs, logBufferPtr_', len)
  PROVE  StringsBounded' /\ Chained'
<1> DEFINE log == logBufferPtr_'
           t == LostNotice \o <<Message(calls + 1)>>
           size == len + (IF lostCounter_ > 0 THEN NoticeLen ELSE 0)
<1>1. /\ log \in Buffers /\ strs \in [Buffers -> Strings]
      /\ \A b \in Buffers : Bounded(strs[b])
      /\ ChainOf(Queued', TextsOf(strs), begin', file, accepted)
      /\ Queued' # <<>> /\ Queued'[Len(Queued')] = log
      /\ strs[log].length + len <= strs[log].capacity
      /\ lostCounter_ > 0 => strs[log].length = 0
    BY OutputReady
<1>2. t \in Seq(Entries) /\ t # <<>>
    BY TextTyped
<1>3. PICK cap \in Capacities(strs[log], size) :
        str' = [strs EXCEPT ![log] = Appended(strs[log], t, size, cap)]
    BY DEF AppendEntries
<1>4. accepted' = accepted \o t /\ file' = file
    BY DEF AppendEntries, Output, ThreadVars
<1>5. /\ len \in Nat \ {0} /\ len <= BufSize /\ lostCounter_ \in Nat
      /\ BufSize \in Nat /\ NoticeLen \in Nat \ {0}
    BY SizesAssumption DEF Output, IInv, TypeOK
<1>6. strs[log].length \in Nat
    BY <1>1 DEF Bounded, Strings
<1> HIDE DEF log, t
<1>7. /\ size \in Nat \ {0}
      /\ \/ strs[log].length + size <= strs[log].capacity
         \/ strs[log].length + size <= BufSize + NoticeLen
  <2>1. CASE lostCounter_ > 0
      BY <2>1, <1>1, <1>5, <1>6
  <2>2. CASE ~(lostCounter_ > 0)
      BY <2>2, <1>1, <1>5, <1>6
  <2> QED
      BY <2>1, <2>2
<1> HIDE DEF size
<1> DEFINE grown == Appended(strs[log], t, size, cap)
<1>8. Bounded(grown) /\ grown.text = strs[log].text \o t
    BY <1>1, <1>2, <1>7, AppendedBounded
<1> HIDE DEF grown
<1>9. /\ str' \in [Buffers -> Strings] /\ str'[log] = grown
      /\ \A b \in Buffers : b # log => str'[b] = strs[b]
  <2>1. str' = [strs EXCEPT ![log] = grown]
      BY <1>3 DEF grown
  <2>2. grown \in Strings
      BY <1>8 DEF Bounded
  <2> QED
      BY <2>1, <2>2, <1>1
<1>a. StringsBounded'
  <2>1. \A b \in Buffers : Bounded(str'[b])
      BY <1>1, <1>8, <1>9
  <2> QED
      BY <2>1, <1>9 DEF StringsBounded, Bounded
<1>b. Grown(TextsOf(strs), TextsOf(str'), log, t)
  <2>1. TextsOf(str') \in [Buffers -> Seq(Entries)]
      BY <1>9 DEF TextsOf, Strings
  <2>2. \A b \in Buffers : TextsOf(str')[b] = str'[b].text /\ TextsOf(strs)[b] = strs[b].text
      BY DEF TextsOf
  <2>3. TextsOf(str')[log] = TextsOf(strs)[log] \o t
      BY <2>2, <1>1, <1>8, <1>9
  <2>4. \A x \in Buffers : x # log => TextsOf(str')[x] = TextsOf(strs)[x]
      BY <2>2, <1>9
  <2> QED
      BY <2>1, <2>3, <2>4, <1>2 DEF Grown
<1>c. ChainOf(Queued', TextsOf(str'), begin', file, accepted \o t)
    BY <1>1, <1>b, ChainGrows
<1> QED
    BY <1>a, <1>c, <1>4 DEF Chained, Texts

-----------------------------------------------------------------------------
(* What the steps do to the buffers *)

\* What the steps of the invariant are about besides phases and types.
DataInv == StringsBounded /\ RoomLeft /\ SparesApart /\ Chained

\* Steps that only move the thread or the destructor on.
ControlStep ==
  StartLogging \/ LoopTest \/ Lock \/ Block \/ Wait \/ SpuriousWake \/ Expire
    \/ SetStop \/ NotifyAll \/ Join

\* They leave the buffers and the stream alone.
LEMMA ControlKeepsData == ASSUME IInv, ControlStep \/ UNCHANGED vars PROVE DataInv'
<1>1. /\ UNCHANGED <<BufferVars, lostCounter_, ThreadVars, calls>>
      /\ dtor' \in {"write", "done"} <=> dtor \in {"write", "done"}
    BY DEF ControlStep, StartLogging, LoopTest, Lock, Block, Wait, SpuriousWake, Expire,
           SetStop, NotifyAll, Join, StopVars, DtorGoes, vars, BufferVars, ThreadVars, historyVars
<1>2. UNCHANGED <<Queued, Texts, Gathering>>
    BY <1>1 DEF Queued, Texts, Gathering, BufferVars, ThreadVars
<1>3. StringsBounded'
    BY <1>1 DEF IInv, StringsBounded, BufferVars
<1>4. RoomLeft'
    BY <1>1, <1>2 DEF IInv, RoomLeft, LengthOf, BufferVars, ThreadVars
<1>5. SparesApart'
    BY <1>1, <1>2 DEF IInv, SparesApart, BufferVars, ThreadVars
<1>6. Chained'
    BY <1>1, <1>2 DEF IInv, Chained, BufferVars, ThreadVars, historyVars
<1> QED
    BY <1>3, <1>4, <1>5, <1>6 DEF DataInv

\* Swapping leaves the spare buffers apart from the queue.
LEMMA SwapKeepsSpares ==
  ASSUME IInv, Gathering, SwapPointers, Queued' = Append(Queued, NextLog), tmpPtr' = tmpPtr
  PROVE  SparesApart'
<1>1. /\ NextLog \in Buffers /\ NextLog # tmpPtr /\ nextBufferPtr_' = NoBuffer
      /\ NoBuffer \notin Buffers
    BY NextLogApart, BuffersAssumption DEF SwapPointers
<1>2. /\ Queued \in Seq(Buffers) /\ Len(Queued) \in Nat
      /\ \A i \in 1..Len(Queued) : Queued[i] \in Buffers /\ Queued[i] # tmpPtr
    BY ElementOfSeq, LenProperties DEF IInv, Chained, ChainOf, SparesApart
<1>3. /\ Len(Queued') = Len(Queued) + 1 /\ Queued'[Len(Queued) + 1] = NextLog
      /\ \A i \in 1..Len(Queued) : Queued'[i] = Queued[i]
    BY <1>1, <1>2, AppendProperties
<1>4. ASSUME NEW i \in 1..Len(Queued') PROVE Queued'[i] # tmpPtr' /\ Queued'[i] # nextBufferPtr_'
  <2>1. CASE i \in 1..Len(Queued)
      BY <2>1, <1>1, <1>2, <1>3
  <2>2. CASE i = Len(Queued) + 1
      BY <2>2, <1>1, <1>3
  <2> QED
      BY <2>1, <2>2, <1>2, <1>3
<1> QED
    BY <1>1, <1>4 DEF SparesApart

\* Swapping without appending, as flush() and the timeout do.
LEMMA SwapKeeps ==
  ASSUME IInv, Gathering, SwapPointers, Queued' = Append(Queued, NextLog),
         str' = SwappedStr, UNCHANGED <<tmpPtr, accepted, file, lostCounter_>>,
         LengthOf(logBufferPtr_) > 0
  PROVE  /\ StringsBounded' /\ SparesApart' /\ Chained'
         /\ str'[logBufferPtr_'].length = 0 /\ lostCounter_' = 0
<1>1. /\ nextBufferPtr_ = NoBuffer => Unused # {}
      /\ logBufferPtr_' = NextLog /\ begin' = [begin EXCEPT ![NextLog] = Len(accepted)]
    BY DEF SwapPointers
<1>2. NextLog \in Buffers
    BY <1>1, NextLogApart
<1>3. /\ str' \in [Buffers -> Strings]
      /\ str'[NextLog].text = <<>> /\ str'[NextLog].length = 0
      /\ BufSize <= str'[NextLog].capacity
      /\ str'[NextLog].capacity <= 2 * (BufSize + NoticeLen - 1)
      /\ \A b \in Buffers : b # NextLog => str'[b] = str[b]
    BY <1>2, SwappedEmpty
<1>4. StringsBounded'
    BY <1>2, <1>3 DEF IInv, StringsBounded
<1>5. Chained'
    BY <1>1, SwapChains DEF Chained, Texts
<1>6. lostCounter_' = 0
    BY DEF IInv, RoomLeft, LengthOf, TypeOK
<1> QED
    BY <1>1, <1>3, <1>4, <1>5, <1>6, SwapKeepsSpares

\* output() appends where there is room, or counts the message as lost.
LEMMA OutputKeepsData == ASSUME IInv, NEW len \in Lens, Output(len) PROVE DataInv'
<1> DEFINE strs == IF Full(len) THEN SwappedStr ELSE str
<1>1. /\ logBufferPtr_' \in Buffers
      /\ strs \in [Buffers -> Strings] /\ \A b \in Buffers : Bounded(strs[b])
      /\ ChainOf(Queued', TextsOf(strs), begin', file, accepted)
      /\ Len(writeBuffers_') \in Nat /\ Len(writeBuffers_') <= QueueLimit + 1
      /\ Len(writeBuffers_') > QueueLimit => strs[logBufferPtr_'].length = 0
    BY OutputReady
<1>2. /\ IF QueueFull(Len(writeBuffers_'))
         THEN lostCounter_' = lostCounter_ + 1 /\ str' = strs /\ accepted' = accepted
         ELSE lostCounter_' = 0 /\ AppendEntries(strs, logBufferPtr_', len)
      /\ calls' = calls + 1 /\ file' = file /\ tmpBuffers_' = tmpBuffers_ /\ tmpPtr' = tmpPtr
      /\ dtor = "alive" /\ dtor' = "alive" /\ Gathering /\ Gathering'
    BY DEF Output, ThreadVars, StopVars, Gathering
<1>3. calls \in Nat /\ lostCounter_ \in Nat /\ QueueLimit \in Nat /\ accepted \in Seq(Entries)
    BY SizesAssumption DEF IInv, TypeOK, Chained, ChainOf
<1>4. StringsBounded' /\ Chained'
  <2>1. CASE QueueFull(Len(writeBuffers_'))
    <3>1. str' = strs /\ accepted' = accepted
        BY <2>1, <1>2
    <3>2. StringsBounded'
        BY <3>1, <1>1 DEF StringsBounded, Bounded
    <3>3. Chained'
        BY <3>1, <1>1, <1>2 DEF Chained, Texts
    <3> QED
        BY <3>2, <3>3
  <2>2. CASE ~QueueFull(Len(writeBuffers_'))
      BY <2>2, <1>2, EntriesAppended
  <2> QED
      BY <2>1, <2>2
<1>5. RoomLeft'
  <2>1. Len(tmpBuffers_') <= QueueLimit + 1
      BY <1>2 DEF IInv, RoomLeft
  <2>2. CASE QueueFull(Len(writeBuffers_'))
    <3>1. str'[logBufferPtr_'].length = 0
        BY <2>2, <1>1, <1>2 DEF QueueFull
    <3> QED
        BY <2>1, <3>1, <1>1 DEF RoomLeft, LengthOf
  <2>3. CASE ~QueueFull(Len(writeBuffers_'))
    <3>1. lostCounter_' = 0 /\ Len(writeBuffers_') <= QueueLimit
        BY <2>3, <1>1, <1>2, <1>3 DEF QueueFull
    <3> QED
        BY <2>1, <3>1, <1>1 DEF RoomLeft
  <2> QED
      BY <2>2, <2>3
<1>6. SparesApart'
  <2>1. CASE Full(len)
    <3>1. SwapPointers /\ writeBuffers_' = Append(writeBuffers_, logBufferPtr_)
        BY <2>1 DEF Output, SwapBuffer
    <3>2. Queued' = tmpBuffers_ \o Append(writeBuffers_, logBufferPtr_) \o <<NextLog>>
        BY <3>1, <1>2 DEF Queued, SwapPointers
    <3>3. Queued = tmpBuffers_ \o writeBuffers_ \o <<logBufferPtr_>>
        BY <1>2, QueueParts DEF IInv
    <3>4. /\ NextLog \in Buffers /\ logBufferPtr_ \in Buffers
          /\ writeBuffers_ \in Seq(Buffers) /\ tmpBuffers_ \in Seq(Buffers)
        BY <1>2, <3>1, NextLogApart DEF SwapPointers, IInv, TypeOK
    <3>5. tmpBuffers_ \o Append(writeBuffers_, logBufferPtr_) \o <<NextLog>>
            = Append(tmpBuffers_ \o writeBuffers_ \o <<logBufferPtr_>>, NextLog)
        BY <3>4, QueueAlgebra
    <3>6. Queued' = Append(Queued, NextLog)
        BY <3>2, <3>3, <3>5
    <3> QED
        BY <3>1, <3>6, <1>2, SwapKeepsSpares
  <2>2. CASE ~Full(len)
    <3>1. UNCHANGED <<logBufferPtr_, nextBufferPtr_, writeBuffers_, tmpBuffers_, tmpPtr, dtor>>
        BY <2>2, <1>2 DEF Output
    <3>2. UNCHANGED <<Queued, Gathering>>
        BY <3>1 DEF Queued, Gathering
    <3> QED
        BY <3>1, <3>2 DEF IInv, SparesApart
  <2> QED
      BY <2>1, <2>2
<1> QED
    BY <1>4, <1>5, <1>6 DEF DataInv

\* flush() queues the log buffer, whatever the limit says, but only one with
\* text in it: that leaves the queue at most one over the limit.
LEMMA FlushKeepsData == ASSUME IInv, Flush PROVE DataInv'
<1>1. /\ dtor = "alive" /\ dtor' = "alive" /\ Gathering /\ Gathering'
      /\ LengthOf(logBufferPtr_) > 0 /\ SwapPointers /\ logBufferPtr_' = NextLog
      /\ writeBuffers_' = Append(writeBuffers_, logBufferPtr_) /\ str' = SwappedStr
      /\ UNCHANGED <<tmpBuffers_, tmpPtr, accepted, file, lostCounter_>>
    BY DEF Flush, SwapBuffer, SwapPointers, ThreadVars, StopVars, Gathering
<1>2. /\ NextLog \in Buffers /\ logBufferPtr_ \in Buffers
      /\ writeBuffers_ \in Seq(Buffers) /\ tmpBuffers_ \in Seq(Buffers)
    BY <1>1, NextLogApart DEF SwapPointers, IInv, TypeOK
<1>3. Queued' = Append(Queued, NextLog)
  <2>1. Queued' = tmpBuffers_ \o Append(writeBuffers_, logBufferPtr_) \o <<NextLog>>
      BY <1>1 DEF Queued
  <2>2. Queued = tmpBuffers_ \o writeBuffers_ \o <<logBufferPtr_>>
      BY <1>1, QueueParts DEF IInv
  <2>3. tmpBuffers_ \o Append(writeBuffers_, logBufferPtr_) \o <<NextLog>>
          = Append(tmpBuffers_ \o writeBuffers_ \o <<logBufferPtr_>>, NextLog)
      BY <1>2, QueueAlgebra
  <2> QED
      BY <2>1, <2>2, <2>3
<1>4. /\ StringsBounded' /\ SparesApart' /\ Chained'
      /\ str'[logBufferPtr_'].length = 0 /\ lostCounter_' = 0
    BY <1>1, <1>3, SwapKeeps
<1>5. RoomLeft'
  <2>1. Len(writeBuffers_') = Len(writeBuffers_) + 1 /\ Len(writeBuffers_) \in Nat
      BY <1>1, <1>2, AppendProperties, LenProperties
  <2>2. Len(writeBuffers_) <= QueueLimit /\ Len(tmpBuffers_) <= QueueLimit + 1
      BY <1>1 DEF IInv, RoomLeft
  <2>3. QueueLimit \in Nat
      BY SizesAssumption
  <2> QED
      BY <2>1, <2>2, <2>3, <1>1, <1>4 DEF RoomLeft, LengthOf
<1> QED
    BY <1>4, <1>5 DEF DataInv

\* The thread takes the queue and, where it has text, the log buffer with it.
LEMMA TimeoutKeepsData == ASSUME IInv, TakeBuffersOnTimeout PROVE DataInv'
<1>1. /\ thread = "expired" /\ tmpBuffers_ = <<>> /\ writeBuffers_' = <<>>
      /\ Gathering /\ Gathering' /\ dtor' = dtor
      /\ UNCHANGED <<tmpPtr, accepted, file, calls, lostCounter_>>
    BY DEF TakeBuffersOnTimeout, ThreadGoes, StopVars, Gathering, IInv, PhasesAgree
<1>2. /\ logBufferPtr_ \in Buffers /\ writeBuffers_ \in Seq(Buffers) /\ Len(writeBuffers_) \in Nat
      /\ Len(<<>>) = 0 /\ QueueLimit \in Nat
    BY LenProperties, SizesAssumption DEF IInv, TypeOK
<1>3. Queued = <<>> \o writeBuffers_ \o <<logBufferPtr_>>
    BY <1>1, QueueParts DEF IInv
<1>4. CASE LengthOf(logBufferPtr_) > 0
  <2>1. /\ tmpBuffers_' = Append(writeBuffers_, logBufferPtr_) /\ SwapPointers
        /\ str' = SwappedStr /\ logBufferPtr_' = NextLog
      BY <1>4 DEF TakeBuffersOnTimeout, SwapPointers
  <2>2. NextLog \in Buffers
      BY <1>1, <2>1, NextLogApart DEF SwapPointers
  <2>3. Queued' = Append(Queued, NextLog)
    <3>1. Queued' = Append(writeBuffers_, logBufferPtr_) \o <<>> \o <<NextLog>>
        BY <1>1, <2>1 DEF Queued, Gathering
    <3>2. Append(writeBuffers_, logBufferPtr_) \o <<>> \o <<NextLog>>
            = Append(<<>> \o writeBuffers_ \o <<logBufferPtr_>>, NextLog)
        BY <1>2, <2>2, QueueAlgebra
    <3> QED
        BY <3>1, <3>2, <1>3
  <2>4. /\ StringsBounded' /\ SparesApart' /\ Chained'
        /\ str'[logBufferPtr_'].length = 0 /\ lostCounter_' = 0
      BY <1>1, <1>4, <2>1, <2>3, SwapKeeps
  <2>5. RoomLeft'
    <3>1. Len(tmpBuffers_') = Len(writeBuffers_) + 1
        BY <1>2, <2>1, AppendProperties
    <3>2. Len(writeBuffers_) <= QueueLimit
        BY <1>1, <1>4 DEF IInv, RoomLeft
    <3> QED
        BY <3>1, <3>2, <2>4, <1>1, <1>2 DEF RoomLeft, LengthOf
  <2> QED
      BY <2>4, <2>5 DEF DataInv
<1>5. CASE ~(LengthOf(logBufferPtr_) > 0)
  <2>1. /\ tmpBuffers_' = writeBuffers_
        /\ UNCHANGED <<logBufferPtr_, nextBufferPtr_, str, begin>>
      BY <1>5 DEF TakeBuffersOnTimeout
  <2>2. UNCHANGED <<Queued, Texts>>
    <3>1. Queued' = writeBuffers_ \o <<>> \o <<logBufferPtr_>>
        BY <1>1, <2>1 DEF Queued, Gathering
    <3>2. writeBuffers_ \o <<>> \o <<logBufferPtr_>> = <<>> \o writeBuffers_ \o <<logBufferPtr_>>
        BY <1>2, QueueAlgebra
    <3> QED
        BY <3>1, <3>2, <1>3, <2>1 DEF Texts
  <2>3. StringsBounded'
      BY <1>1, <2>1 DEF IInv, StringsBounded
  <2>4. SparesApart' /\ Chained'
      BY <1>1, <2>1, <2>2 DEF IInv, SparesApart, Chained
  <2>5. RoomLeft'
      BY <1>1, <1>2, <2>1 DEF IInv, RoomLeft, LengthOf
  <2> QED
      BY <2>3, <2>4, <2>5 DEF DataInv
<1> QED
    BY <1>4, <1>5

\* The thread takes the queue.
LEMMA TakeBuffersKeepsData == ASSUME IInv, TakeBuffers PROVE DataInv'
<1>1. /\ tmpBuffers_ = <<>> /\ writeBuffers_' = <<>> /\ tmpBuffers_' = writeBuffers_
      /\ Gathering /\ Gathering'
      /\ UNCHANGED <<logBufferPtr_, nextBufferPtr_, str, begin, dtor,
                     tmpPtr, accepted, file, calls, lostCounter_>>
    BY DEF TakeBuffers, ThreadGoes, StopVars, historyVars, Gathering, IInv, PhasesAgree
<1>2. /\ logBufferPtr_ \in Buffers /\ writeBuffers_ \in Seq(Buffers) /\ Len(writeBuffers_) \in Nat
      /\ Len(<<>>) = 0 /\ QueueLimit \in Nat
    BY LenProperties, SizesAssumption DEF IInv, TypeOK
<1>3. UNCHANGED <<Queued, Texts>>
  <2>1. Queued = <<>> \o writeBuffers_ \o <<logBufferPtr_>>
      BY <1>1, QueueParts DEF IInv
  <2>2. Queued' = writeBuffers_ \o <<>> \o <<logBufferPtr_>>
      BY <1>1 DEF Queued, Gathering
  <2>3. writeBuffers_ \o <<>> \o <<logBufferPtr_>> = <<>> \o writeBuffers_ \o <<logBufferPtr_>>
      BY <1>2, QueueAlgebra
  <2> QED
      BY <2>1, <2>2, <2>3, <1>1 DEF Texts
<1>4. StringsBounded'
    BY <1>1 DEF IInv, StringsBounded
<1>5. SparesApart' /\ Chained'
    BY <1>1, <1>3 DEF IInv, SparesApart, Chained
<1>6. RoomLeft'
    BY <1>1, <1>2 DEF IInv, RoomLeft, LengthOf
<1> QED
    BY <1>4, <1>5, <1>6 DEF DataInv

\* The thread writes and clears the first buffer of the queue, which then is in
\* its hand only.
LEMMA WriteKeepsData == ASSUME IInv, Write PROVE DataInv'
<1> DEFINE head == Head(tmpBuffers_)
<1>1. /\ thread = "drain" /\ tmpBuffers_ # <<>> /\ Gathering /\ Gathering'
      /\ tmpPtr' = head /\ tmpBuffers_' = Tail(tmpBuffers_) /\ tmpPtr = NoBuffer
      /\ file' = file \o str[head].text /\ str' = [str EXCEPT ![head] = Cleared(@)]
      /\ UNCHANGED <<logBufferPtr_, nextBufferPtr_, writeBuffers_, begin, dtor,
                     accepted, calls, lostCounter_>>
    BY DEF Write, ThreadGoes, StopVars, historyVars, Gathering, IInv, PhasesAgree
<1>2. /\ logBufferPtr_ \in Buffers /\ writeBuffers_ \in Seq(Buffers) /\ tmpBuffers_ \in Seq(Buffers)
      /\ head \in Buffers /\ <<logBufferPtr_>> \in Seq(Buffers)
      /\ Len(tmpBuffers_) \in Nat /\ Len(tmpBuffers_') = Len(tmpBuffers_) - 1
  <2>1. /\ logBufferPtr_ \in Buffers /\ writeBuffers_ \in Seq(Buffers)
        /\ tmpBuffers_ \in Seq(Buffers)
      BY DEF IInv, TypeOK
  <2> QED
      BY <2>1, <1>1, HeadTailProperties, LenProperties
<1>3. /\ Queued # <<>> /\ Queued[1] = head /\ Queued' = Tail(Queued)
  <2>1. Queued = tmpBuffers_ \o writeBuffers_ \o <<logBufferPtr_>>
      BY <1>1, QueueParts DEF IInv
  <2>2. Queued' = Tail(tmpBuffers_) \o writeBuffers_ \o <<logBufferPtr_>>
      BY <1>1 DEF Queued, Gathering
  <2>3. /\ tmpBuffers_ \o writeBuffers_ \o <<logBufferPtr_>> # <<>>
        /\ (tmpBuffers_ \o writeBuffers_ \o <<logBufferPtr_>>)[1] = head
        /\ Tail(tmpBuffers_ \o writeBuffers_ \o <<logBufferPtr_>>)
              = Tail(tmpBuffers_) \o writeBuffers_ \o <<logBufferPtr_>>
      BY <1>1, <1>2, QueueHead
  <2> QED
      BY <2>1, <2>2, <2>3
<1> HIDE DEF head
<1>4. /\ str \in [Buffers -> Strings] /\ str' \in [Buffers -> Strings]
      /\ str'[head] = Cleared(str[head]) /\ \A b \in Buffers : b # head => str'[b] = str[b]
  <2>1. str \in [Buffers -> Strings]
      BY DEF IInv, StringsBounded
  <2>2. Cleared(str[head]) \in Strings
      BY <2>1, <1>2, ClearedEmpty
  <2> QED
      BY <2>1, <2>2, <1>1, <1>2
<1>5. /\ str'[head].text = <<>> /\ str'[head].length = 0
      /\ str'[head].capacity = str[head].capacity
    BY <1>2, <1>4, ClearedEmpty
<1>6. StringsBounded'
    BY <1>4, <1>5 DEF IInv, StringsBounded
<1>7. /\ Chained'
      /\ \A i \in 1..Len(Queued') : Queued'[i] # head
      /\ \A i \in 1..Len(Queued') : i + 1 \in 1..Len(Queued) /\ Queued'[i] = Queued[i + 1]
  <2>1. ChainOf(Queued, Texts, begin, file, accepted)
      BY DEF IInv, Chained
  <2>2. TextsOf(str') \in [Buffers -> Seq(Entries)]
      BY <1>4 DEF TextsOf, Strings
  <2>3. \A b \in Buffers : b # head => TextsOf(str')[b] = Texts[b]
      BY <1>4 DEF TextsOf, Texts
  <2>4. Texts[head] = str[head].text
      BY <1>2 DEF TextsOf, Texts
  <2>5. /\ ChainOf(Tail(Queued), TextsOf(str'), begin, file \o Texts[head], accepted)
        /\ \A i \in 1..Len(Tail(Queued)) : Tail(Queued)[i] # head
        /\ \A i \in 1..Len(Tail(Queued)) :
             i + 1 \in 1..Len(Queued) /\ Tail(Queued)[i] = Queued[i + 1]
      BY <2>1, <2>2, <2>3, <1>3, ChainPopped
  <2> QED
      BY <2>4, <2>5, <1>1, <1>3 DEF Chained, Texts
<1>8. SparesApart'
  <2>1. \A i \in 1..Len(Queued) : Queued[i] # nextBufferPtr_
      BY <1>1 DEF IInv, SparesApart
  <2>2. head # nextBufferPtr_
    <3>1. 1 \in 1..Len(Queued)
      <4>1. Queued \in Seq(Buffers)
          BY DEF IInv, Chained, ChainOf
      <4>2. Len(Queued) \in Nat \ {0}
          BY <4>1, <1>3, EmptySeq
      <4> QED
          BY <4>2
    <3> QED
        BY <3>1, <2>1, <1>3
  <2> QED
      BY <2>1, <2>2, <1>1, <1>7 DEF SparesApart
<1>9. RoomLeft'
  <2>1. LengthOf(logBufferPtr_)' > 0 => LengthOf(logBufferPtr_) > 0
      BY <1>1, <1>2, <1>4, <1>5 DEF LengthOf
  <2>2. LengthOf(logBufferPtr_) = 0 => LengthOf(logBufferPtr_)' = 0
      BY <1>1, <1>2, <1>4, <1>5 DEF LengthOf
  <2>3. Len(tmpBuffers_') <= QueueLimit + 1
      BY <1>2, SizesAssumption DEF IInv, RoomLeft
  <2> QED
      BY <2>1, <2>2, <2>3, <1>1 DEF IInv, RoomLeft
<1> QED
    BY <1>6, <1>7, <1>8, <1>9 DEF DataInv

\* Handing a buffer back and closing the file move no text.
LEMMA RecycleKeepsData == ASSUME IInv, Recycle \/ Fflush \/ Close PROVE DataInv'
<1>1. /\ UNCHANGED <<logBufferPtr_, writeBuffers_, str, begin, accepted, calls, lostCounter_,
                     tmpBuffers_, file>>
      /\ dtor' \in {"write", "done"} <=> dtor \in {"write", "done"}
    BY DEF Recycle, Fflush, Close, ThreadGoes, DtorGoes, StopVars, BufferVars, historyVars
<1>2. UNCHANGED <<Queued, Texts, Gathering>>
    BY <1>1 DEF Queued, Texts, Gathering
<1>3. /\ StringsBounded' /\ RoomLeft' /\ Chained'
    BY <1>1, <1>2 DEF IInv, StringsBounded, RoomLeft, LengthOf, Chained
<1>4. SparesApart'
  <2>1. CASE Recycle
    <3>1. nextBufferPtr_' = tmpPtr /\ tmpPtr' = NoBuffer
        BY <2>1 DEF Recycle
    <3>2. \A i \in 1..Len(Queued) : Queued[i] # NoBuffer
        BY ElementOfSeq, BuffersAssumption DEF IInv, Chained, ChainOf
    <3> QED
        BY <3>1, <3>2, <1>2 DEF IInv, SparesApart
  <2>2. CASE Fflush \/ Close
    <3>1. UNCHANGED <<nextBufferPtr_, tmpPtr>>
        BY <2>2 DEF Fflush, Close, BufferVars
    <3> QED
        BY <3>1, <1>2 DEF IInv, SparesApart
  <2> QED
      BY <2>1, <2>2
<1> QED
    BY <1>3, <1>4 DEF DataInv

\* The destructor queues the log buffer, or leaves it out where it is empty.
LEMMA CollectKeepsData == ASSUME IInv, Collect PROVE DataInv'
<1>1. /\ tmpBuffers_ = <<>> /\ Gathering /\ dtor' = "write" /\ ~Gathering'
      /\ writeBuffers_' = IF LengthOf(logBufferPtr_) > 0
                          THEN Append(writeBuffers_, logBufferPtr_) ELSE writeBuffers_
      /\ UNCHANGED <<logBufferPtr_, str, begin, tmpBuffers_, accepted, file, calls, lostCounter_>>
    BY DEF Collect, DtorGoes, ThreadVars, historyVars, Gathering, IInv, PhasesAgree
<1>2. /\ logBufferPtr_ \in Buffers /\ writeBuffers_ \in Seq(Buffers)
      /\ str[logBufferPtr_].length \in Nat
    BY DEF IInv, TypeOK
<1>3. Queued = <<>> \o writeBuffers_ \o <<logBufferPtr_>>
    BY <1>1, QueueParts DEF IInv
<1>4. Queued' = <<>> \o writeBuffers_' \o <<>>
    BY <1>1 DEF Queued
<1>5. Chained'
  <2>1. ChainOf(Queued, Texts, begin, file, accepted)
      BY DEF IInv, Chained
  <2>2. CASE LengthOf(logBufferPtr_) > 0
    <3>1. Queued' = <<>> \o Append(writeBuffers_, logBufferPtr_) \o <<>>
        BY <2>2, <1>1, <1>4
    <3>2. <<>> \o Append(writeBuffers_, logBufferPtr_) \o <<>>
            = <<>> \o writeBuffers_ \o <<logBufferPtr_>>
        BY <1>2, QueueAlgebra
    <3>3. Queued' = Queued
        BY <3>1, <3>2, <1>3
    <3> QED
        BY <2>1, <3>3, <1>1 DEF Chained, Texts
  <2>3. CASE ~(LengthOf(logBufferPtr_) > 0)
    <3>1. Queued' = writeBuffers_
      <4>1. <<>> \o writeBuffers_ \o <<>> = writeBuffers_
          BY <1>2, QueueAlgebra
      <4>2. writeBuffers_' = writeBuffers_
          BY <2>3, <1>1
      <4> QED
          BY <4>1, <4>2, <1>4
    <3>2. Queued = Append(writeBuffers_, logBufferPtr_)
      <4>1. <<>> \o writeBuffers_ \o <<logBufferPtr_>> = Append(writeBuffers_, logBufferPtr_)
          BY <1>2, QueueAlgebra
      <4> QED
          BY <4>1, <1>3
    <3>3. /\ Len(Queued) = Len(writeBuffers_) + 1
          /\ Queued[Len(writeBuffers_) + 1] = logBufferPtr_
          /\ \A i \in 1..Len(writeBuffers_) : Queued[i] = writeBuffers_[i]
        BY <3>2, <1>2, AppendProperties
    <3>4. Len(Texts[logBufferPtr_]) = 0
      <4>1. str[logBufferPtr_].text = <<>>
          BY <2>3, <1>2 DEF LengthOf, IInv, StringsBounded
      <4> QED
          BY <4>1, <1>2 DEF Texts, TextsOf
    <3>5. ChainOf(writeBuffers_, Texts, begin, file, accepted)
        BY <2>1, <3>3, <3>4, <1>2, ChainCut
    <3> QED
        BY <3>1, <3>5, <1>1 DEF Chained, Texts
  <2> QED
      BY <2>2, <2>3
<1>6. StringsBounded' /\ RoomLeft' /\ SparesApart'
    BY <1>1 DEF IInv, StringsBounded, RoomLeft, LengthOf, SparesApart
<1> QED
    BY <1>5, <1>6 DEF DataInv

\* The destructor writes the first buffer of the queue and drops it.
LEMMA WriteRestKeepsData == ASSUME IInv, WriteRest PROVE DataInv'
<1>1. /\ dtor = "write" /\ tmpBuffers_ = <<>> /\ ~Gathering /\ ~Gathering'
      /\ writeBuffers_ # <<>> /\ writeBuffers_' = Tail(writeBuffers_)
      /\ file' = file \o str[Head(writeBuffers_)].text
      /\ UNCHANGED <<logBufferPtr_, str, begin, tmpBuffers_, accepted, dtor, calls, lostCounter_>>
    BY DEF WriteRest, StopVars, historyVars, Gathering, IInv, PhasesAgree
<1>2. /\ writeBuffers_ \in Seq(Buffers) /\ Head(writeBuffers_) = writeBuffers_[1]
      /\ Head(writeBuffers_) \in Buffers /\ Tail(writeBuffers_) \in Seq(Buffers)
  <2>1. writeBuffers_ \in Seq(Buffers)
      BY DEF IInv, TypeOK
  <2> QED
      BY <2>1, <1>1
<1>3. \A s \in Seq(Buffers) : <<>> \o s \o <<>> = s
  <2>1. \A s \in Seq(Buffers) : <<>> \o s = s /\ s \o <<>> = s
      BY ConcatEmptySeq
  <2> QED
      BY <2>1
<1>4. Queued = writeBuffers_ /\ Queued' = Tail(writeBuffers_)
  <2>1. Queued = <<>> \o writeBuffers_ \o <<>> /\ Queued' = <<>> \o Tail(writeBuffers_) \o <<>>
      BY <1>1 DEF Queued
  <2> QED
      BY <2>1, <1>2, <1>3
<1>5. Chained'
  <2>1. ChainOf(writeBuffers_, Texts, begin, file, accepted)
      BY <1>4 DEF IInv, Chained
  <2>2. Texts \in [Buffers -> Seq(Entries)]
      BY <2>1 DEF ChainOf
  <2>3. Texts[Head(writeBuffers_)] = str[Head(writeBuffers_)].text
      BY <1>2 DEF Texts, TextsOf
  <2>4. ChainOf(Tail(writeBuffers_), Texts, begin,
                file \o Texts[Head(writeBuffers_)], accepted)
      BY <2>1, <2>2, <1>1, <1>2, ChainPopped
  <2> QED
      BY <2>3, <2>4, <1>1, <1>4 DEF Chained, Texts
<1>6. StringsBounded' /\ RoomLeft' /\ SparesApart'
    BY <1>1 DEF IInv, StringsBounded, RoomLeft, LengthOf, SparesApart
<1> QED
    BY <1>5, <1>6 DEF DataInv

-----------------------------------------------------------------------------
(* The invariant *)

\* The types are kept: pointers stay pointers to buffers, and mutex_ is the
\* thread's exactly while it decides whether to wait.
LEMMA TypesStep == ASSUME IInv, [Next]_vars, StringsBounded' PROVE TypeOK'
<1>0. /\ TypeOK
      /\ \A q \in Seq(Buffers) : q # <<>> => Tail(q) \in Seq(Buffers) /\ Head(q) \in Buffers
      /\ \A q \in Seq(Buffers), b \in Buffers : Append(q, b) \in Seq(Buffers)
    BY HeadTailProperties, AppendProperties DEF IInv
<1>1. /\ DOMAIN str' = Buffers
      /\ \A b \in Buffers : str'[b].length \in Nat /\ str'[b].capacity \in Nat
    BY DEF StringsBounded, Strings
<1>2. ASSUME SwapPointers, Gathering
      PROVE  logBufferPtr_' \in Buffers /\ nextBufferPtr_' = NoBuffer
    BY <1>2, NextLogApart DEF SwapPointers
<1>3. Len(file) \in Nat
    BY LenProperties DEF IInv, Chained, ChainOf
<1> USE DEF ThreadVars, StopVars, BufferVars, historyVars, ThreadGoes, DtorGoes, Gathering, Notify
<1>a. ASSUME NEW len \in Lens, Output(len) PROVE TypeOK'
  <2>0. /\ lostCounter_ \in Nat /\ calls \in Nat /\ writeBuffers_ \in Seq(Buffers)
        /\ logBufferPtr_ \in Buffers
      BY <1>0 DEF TypeOK
  <2>1. CASE Full(len)
    <3>1. SwapPointers /\ Gathering /\ writeBuffers_' = Append(writeBuffers_, logBufferPtr_)
        BY <2>1, <1>a DEF Output, SwapBuffer
    <3>2. lostCounter_' \in Nat /\ calls' \in Nat
        BY <1>a, <2>0 DEF Output
    <3>3. /\ thread' = (IF thread = "waiting" THEN "woken" ELSE thread)
          /\ mutex_' = mutex_ /\ mutex_ = "free"
          /\ UNCHANGED <<tmpBuffers_, tmpPtr, synced, stopFlag_, dtor>>
        BY <2>1, <1>a DEF Output
    <3>4. writeBuffers_' \in Seq(Buffers)
        BY <3>1, <2>0, <1>0
    <3>5. logBufferPtr_' \in Buffers /\ nextBufferPtr_' = NoBuffer
        BY <3>1, <1>2
    <3> QED
        BY <3>2, <3>3, <3>4, <3>5, <1>0, <1>1 DEF TypeOK
  <2>2. CASE ~Full(len)
      BY <2>2, <1>a, <1>0, <1>1 DEF Output, TypeOK
  <2> QED
      BY <2>1, <2>2
<1>b. CASE Flush
    BY <1>b, <1>0, <1>1, <1>2 DEF Flush, SwapBuffer, TypeOK
<1>c. CASE StartLogging
    BY <1>c, <1>0 DEF StartLogging, TypeOK
<1>d. CASE LoopTest
    BY <1>d, <1>0 DEF LoopTest, TypeOK
<1>e. CASE Lock
    BY <1>e, <1>0 DEF Lock, TypeOK
<1>f. CASE Block
    BY <1>f, <1>0 DEF Block, TypeOK
<1>g. CASE Wait
    BY <1>g, <1>0 DEF Wait, TypeOK
<1>h. CASE SpuriousWake
    BY <1>h, <1>0 DEF SpuriousWake, TypeOK
<1>i. CASE Expire
    BY <1>i, <1>0 DEF Expire, TypeOK
<1>j. CASE TakeBuffersOnTimeout
  <2>1. CASE LengthOf(logBufferPtr_) > 0
    <3>1. SwapPointers /\ Gathering
        BY <2>1, <1>j DEF TakeBuffersOnTimeout, IInv, PhasesAgree
    <3> QED
        BY <2>1, <3>1, <1>j, <1>0, <1>1, <1>2 DEF TakeBuffersOnTimeout, TypeOK
  <2>2. CASE ~(LengthOf(logBufferPtr_) > 0)
      BY <2>2, <1>j, <1>0 DEF TakeBuffersOnTimeout, TypeOK
  <2> QED
      BY <2>1, <2>2
<1>k. CASE TakeBuffers
    BY <1>k, <1>0 DEF TakeBuffers, TypeOK
<1>l. CASE Write
    BY <1>l, <1>0, <1>1 DEF Write, TypeOK
<1>m. CASE Recycle
    BY <1>m, <1>0 DEF Recycle, TypeOK
<1>n. CASE Fflush
    BY <1>n, <1>0, <1>3 DEF Fflush, TypeOK
<1>o. CASE SetStop
    BY <1>o, <1>0 DEF SetStop, TypeOK
<1>p. CASE NotifyAll
    BY <1>p, <1>0 DEF NotifyAll, TypeOK
<1>q. CASE Join
    BY <1>q, <1>0 DEF Join, TypeOK
<1>r. CASE Collect
    BY <1>r, <1>0 DEF Collect, TypeOK
<1>s. CASE WriteRest
    BY <1>s, <1>0 DEF WriteRest, TypeOK
<1>t. CASE Close
    BY <1>t, <1>0, <1>3 DEF Close, TypeOK
<1>u. CASE UNCHANGED vars
    BY <1>u, <1>0 DEF vars, TypeOK
<1> QED
    BY <1>a, <1>b, <1>c, <1>d, <1>e, <1>f, <1>g, <1>h, <1>i, <1>j, <1>k, <1>l, <1>m, <1>n,
       <1>o, <1>p, <1>q, <1>r, <1>s, <1>t, <1>u DEF Next, LogThread, Destructor

\* The thread and the destructor stay in step.
LEMMA PhasesStep == ASSUME IInv, [Next]_vars PROVE PhasesAgree'
<1>0. PhasesAgree /\ NoBuffer \notin Buffers
    BY BuffersAssumption DEF IInv
<1>1. thread \in {"none", "loop", "lock", "test", "block", "waiting", "woken",
                  "expired", "drain", "recycle", "exited"}
    BY DEF IInv, TypeOK
<1> USE DEF ThreadVars, StopVars, BufferVars, historyVars, ThreadGoes, DtorGoes, Notify, PhasesAgree
<1>a. ASSUME NEW len \in Lens, Output(len) PROVE PhasesAgree'
    BY <1>a, <1>0, <1>1 DEF Output, SwapBuffer
<1>b. CASE Flush
    BY <1>b, <1>0, <1>1 DEF Flush, SwapBuffer
<1>c. CASE StartLogging
    BY <1>c, <1>0 DEF StartLogging
<1>d. CASE LoopTest
    BY <1>d, <1>0 DEF LoopTest
<1>e. CASE Lock \/ Block \/ Wait \/ SpuriousWake \/ Expire
    BY <1>e, <1>0 DEF Lock, Block, Wait, SpuriousWake, Expire
<1>f. CASE TakeBuffersOnTimeout \/ TakeBuffers
    BY <1>f, <1>0 DEF TakeBuffersOnTimeout, TakeBuffers
<1>g. CASE Write
  <2>1. Head(tmpBuffers_) \in Buffers
      BY <1>g, HeadTailProperties DEF Write, IInv, TypeOK
  <2> QED
      BY <2>1, <1>g, <1>0 DEF Write
<1>h. CASE Recycle
    BY <1>h, <1>0 DEF Recycle
<1>i. CASE Fflush
    BY <1>i, <1>0 DEF Fflush
<1>j. CASE SetStop \/ NotifyAll \/ Join
    BY <1>j, <1>0, <1>1 DEF SetStop, NotifyAll, Join
<1>k. CASE Collect \/ WriteRest \/ Close
    BY <1>k, <1>0 DEF Collect, WriteRest, Close
<1>l. CASE UNCHANGED vars
    BY <1>l, <1>0 DEF vars
<1> QED
    BY <1>a, <1>b, <1>c, <1>d, <1>e, <1>f, <1>g, <1>h, <1>i, <1>j, <1>k, <1>l
    DEF Next, LogThread, Destructor

\* Each step of the callers, the thread and the destructor keeps the invariant.
LEMMA InvariantStep == IInv /\ [Next]_vars => IInv'
<1> SUFFICES ASSUME IInv, [Next]_vars PROVE IInv'
    OBVIOUS
<1>1. DataInv'
  <2>1. ASSUME NEW len \in Lens, Output(len) PROVE DataInv'
      BY <2>1, OutputKeepsData
  <2>2. CASE ControlStep \/ UNCHANGED vars
      BY <2>2, ControlKeepsData
  <2>3. CASE Recycle \/ Fflush \/ Close
      BY <2>3, RecycleKeepsData
  <2> QED
      BY <2>1, <2>2, <2>3, FlushKeepsData, TimeoutKeepsData, TakeBuffersKeepsData,
         WriteKeepsData, CollectKeepsData, WriteRestKeepsData
      DEF Next, LogThread, Destructor, ControlStep
<1>2. TypeOK' /\ PhasesAgree'
    BY <1>1, TypesStep, PhasesStep DEF DataInv
<1> QED
    BY <1>1, <1>2 DEF DataInv, IInv

\* What the constructor makes, over what has been written so far.
New ==
  /\ mutex_ = "free" /\ stopFlag_ = FALSE /\ lostCounter_ = 0
  /\ thread = "none" /\ dtor = "alive"
  /\ logBufferPtr_ = CHOOSE b \in Buffers : TRUE
  /\ nextBufferPtr_ = CHOOSE b \in Buffers : b # logBufferPtr_
  /\ writeBuffers_ = <<>> /\ tmpBuffers_ = <<>> /\ tmpPtr = NoBuffer
  /\ str = [b \in Buffers |-> Reserved]
  /\ accepted = file /\ begin = [b \in Buffers |-> Len(file)]
  /\ file \in Seq(Entries) /\ synced \in Nat /\ calls \in Nat

\* A logger is constructed with two empty buffers and nothing queued.
LEMMA InvariantStarts == New => IInv
<1> SUFFICES ASSUME New PROVE IInv
    OBVIOUS
<1>1. /\ logBufferPtr_ \in Buffers /\ nextBufferPtr_ \in Buffers
      /\ nextBufferPtr_ # logBufferPtr_ /\ NoBuffer \notin Buffers
  <2>1. PICK a \in Buffers : \E b \in Buffers : a # b
      BY BuffersAssumption
  <2>2. logBufferPtr_ \in Buffers
      BY <2>1 DEF New
  <2>3. \E b \in Buffers : b # logBufferPtr_
      BY <2>1
  <2>4. nextBufferPtr_ \in Buffers /\ nextBufferPtr_ # logBufferPtr_
      BY <2>3 DEF New
  <2> QED
      BY <2>2, <2>4, BuffersAssumption
<1>2. BufSize \in Nat \ {0} /\ NoticeLen \in 1..BufSize /\ QueueLimit \in Nat
    BY SizesAssumption
<1>3. Reserved \in Strings /\ Reserved.text = <<>> /\ Reserved.length = 0
      /\ Reserved.capacity = BufSize /\ Len(<<>>) = 0
    BY <1>2 DEF Reserved, Strings
<1>4. \A b \in Buffers : str[b] = Reserved
    BY DEF New
<1>5. StringsBounded
  <2>1. str \in [Buffers -> Strings]
      BY <1>3 DEF New
  <2> QED
      BY <2>1, <1>2, <1>3, <1>4 DEF StringsBounded
<1>6. TypeOK
    BY <1>1, <1>2, <1>3, <1>4 DEF New, TypeOK
<1>7. PhasesAgree
    BY DEF New, PhasesAgree
<1>8. Queued = <<logBufferPtr_>> /\ Len(Queued) = 1 /\ Queued[1] = logBufferPtr_
  <2>1. Queued = <<>> \o <<>> \o <<logBufferPtr_>>
      BY DEF New, Queued
  <2> QED
      BY <2>1
<1>9. RoomLeft
    BY <1>1, <1>2, <1>3, <1>4 DEF New, RoomLeft, LengthOf
<1>a. SparesApart
    BY <1>1, <1>8 DEF New, SparesApart
<1>b. Chained
  <2> DEFINE n == Len(file)
  <2>1. /\ Queued \in Seq(Buffers) /\ Queued # <<>>
        /\ accepted = file /\ file \in Seq(Entries)
      BY <1>1, <1>8 DEF New
  <2>2. n \in Nat
      BY <2>1, LenProperties
  <2>3. begin \in [Buffers -> Nat] /\ \A b \in Buffers : begin[b] = n
      BY <2>2 DEF New
  <2>4. Texts \in [Buffers -> Seq(Entries)] /\ \A b \in Buffers : Texts[b] = <<>>
    <3>1. \A b \in Buffers : Texts[b] = <<>>
        BY <1>3, <1>4 DEF Texts, TextsOf
    <3> DEFINE S == Seq(Entries)
    <3>2. <<>> \in S
        OBVIOUS
    <3> HIDE DEF S
    <3>3. [b \in Buffers |-> str[b].text] \in [Buffers -> S]
        BY <3>2, <1>3, <1>4
    <3> QED
        BY <3>1, <3>3 DEF Texts, TextsOf, S
  <2>5. Injective(Queued)
      BY <1>8 DEF Injective
  <2>6. Chain(Queued, Texts, begin, file, file)
    <3>1. Len(Texts[Queued[1]]) = 0 /\ begin[Queued[1]] = n
        BY <2>3, <2>4, <1>1, <1>3, <1>8
    <3> HIDE DEF n
    <3>2. \A i \in 1..1 : i = 1
        OBVIOUS
    <3> QED
        BY <2>1, <2>2, <3>1, <3>2, <1>8 DEF Chain, n
  <2> QED
      BY <2>1, <2>3, <2>4, <2>5, <2>6 DEF Chained, ChainOf
<1> QED
    BY <1>5, <1>6, <1>7, <1>9, <1>a, <1>b DEF IInv

LEMMA InvariantInit == Init => IInv
<1>1. Len(<<>>) = 0 /\ <<>> \in Seq(Entries)
    OBVIOUS
<1>2. Init => New
    BY <1>1 DEF Init, New
<1> QED
    BY <1>2, InvariantStarts

\* The invariant holds throughout.
THEOREM InvariantHolds == Spec => []IInv
    BY InvariantInit, InvariantStep, PTL DEF Spec

\* In particular every variable keeps its type, and logBufferPtr_ is never null.
THEOREM TypeCorrect == Spec => []TypeOK
<1>1. IInv => TypeOK
    BY DEF IInv
<1> QED
    BY <1>1, InvariantHolds, PTL

-----------------------------------------------------------------------------
(* What the invariant says of memory and of buffers *)

\* Queue and strings are bounded however output(), flush() and the timeout
\* interleave.
THEOREM MemoryIsBounded == Spec => []MemoryBounded
<1>1. IInv => MemoryBounded
    BY DEF IInv, StringsBounded, RoomLeft, Gathering, MemoryBounded
<1> QED
    BY <1>1, InvariantHolds, PTL

\* The roles of a buffer: the first ones are the places in the queue in another
\* order, the last two are the spare buffers.
LEMMA RolesApart == IInv => BuffersDistinct
<1> SUFFICES ASSUME IInv, Gathering
             PROVE  LET roles == <<logBufferPtr_>> \o writeBuffers_ \o tmpBuffers_
                                   \o <<tmpPtr, nextBufferPtr_>>
                    IN  \A i, j \in DOMAIN roles :
                          roles[i] = roles[j] /\ i # j => roles[i] = NoBuffer
    BY DEF BuffersDistinct, Gathering
<1> DEFINE w == writeBuffers_
           t == tmpBuffers_
           P == Buffers \cup {NoBuffer}
           a == <<logBufferPtr_>> \o w
           b == a \o t
           roles == b \o <<tmpPtr, nextBufferPtr_>>
           q == Queued
           n == Len(w)
           m == Len(t)
           place(i) == IF i = 1 THEN m + n + 1 ELSE IF i <= 1 + n THEN m + (i - 1) ELSE i - (1 + n)
<1>1. /\ logBufferPtr_ \in P /\ w \in Seq(P) /\ t \in Seq(P) /\ tmpPtr \in P /\ nextBufferPtr_ \in P
      /\ n \in Nat /\ m \in Nat
    BY LenProperties DEF IInv, TypeOK
<1>2. /\ Len(q) = m + n + 1 /\ q[m + n + 1] = logBufferPtr_
      /\ \A i \in 1..m : q[i] = t[i]
      /\ \A i \in 1..n : q[m + i] = w[i]
      /\ \A i, j \in 1..(m + n + 1) : q[i] = q[j] => i = j
      /\ \A i \in 1..(m + n + 1) : q[i] # tmpPtr /\ q[i] # nextBufferPtr_
      /\ tmpPtr = nextBufferPtr_ => tmpPtr = NoBuffer
  <2>1. /\ Len(q) = m + n + 1 /\ q[Len(q)] = logBufferPtr_
        /\ \A i \in 1..m : q[i] = t[i]
        /\ \A i \in 1..n : q[m + i] = w[i]
      BY QueueParts DEF IInv
  <2>2. \A i, j \in 1..Len(q) : q[i] = q[j] => i = j
      BY DEF IInv, Chained, ChainOf, Injective
  <2>3. /\ \A i \in 1..Len(q) : q[i] # tmpPtr /\ q[i] # nextBufferPtr_
        /\ tmpPtr = nextBufferPtr_ => tmpPtr = NoBuffer
      BY DEF IInv, SparesApart
  <2> HIDE DEF q, m, n
  <2> QED
      BY <2>1, <2>2, <2>3
<1> HIDE DEF w, t, P, n, m, q
<1>3. /\ a \in Seq(P) /\ Len(a) = 1 + n /\ a[1] = logBufferPtr_
      /\ \A i \in 1..(1 + n) : i # 1 => a[i] = w[i - 1]
  <2>1. <<logBufferPtr_>> \in Seq(P) /\ Len(<<logBufferPtr_>>) = 1
        /\ <<logBufferPtr_>>[1] = logBufferPtr_
      BY <1>1
  <2>2. /\ a \in Seq(P) /\ Len(a) = 1 + Len(w)
        /\ \A i \in 1..(1 + Len(w)) :
             a[i] = IF i <= 1 THEN <<logBufferPtr_>>[i] ELSE w[i - 1]
      BY <2>1, <1>1, ConcatProperties
  <2> HIDE DEF a
  <2> QED
      BY <2>1, <2>2, <1>1 DEF n
<1> HIDE DEF a
<1>4. /\ b \in Seq(P) /\ Len(b) = 1 + n + m
      /\ \A i \in 1..(1 + n + m) : b[i] = IF i <= 1 + n THEN a[i] ELSE t[i - (1 + n)]
  <2>1. /\ b \in Seq(P) /\ Len(b) = Len(a) + Len(t)
        /\ \A i \in 1..(Len(a) + Len(t)) :
             b[i] = IF i <= Len(a) THEN a[i] ELSE t[i - Len(a)]
      BY <1>1, <1>3, ConcatProperties
  <2>2. Len(a) = 1 + n /\ Len(t) = m
      BY <1>3 DEF m
  <2> HIDE DEF b
  <2> QED
      BY <2>1, <2>2
<1> HIDE DEF b
<1>5. /\ roles \in Seq(P) /\ Len(roles) = 1 + n + m + 2
      /\ \A i \in 1..(1 + n + m) : roles[i] = b[i]
      /\ roles[1 + n + m + 1] = tmpPtr /\ roles[1 + n + m + 2] = nextBufferPtr_
  <2> DEFINE s == <<tmpPtr, nextBufferPtr_>>
  <2>1. s \in Seq(P) /\ Len(s) = 2 /\ s[1] = tmpPtr /\ s[2] = nextBufferPtr_
      BY <1>1
  <2> HIDE DEF s
  <2>2. /\ b \o s \in Seq(P) /\ Len(b \o s) = 1 + n + m + 2
        /\ \A i \in 1..(1 + n + m + 2) :
             (b \o s)[i] = IF i <= 1 + n + m THEN b[i] ELSE s[i - (1 + n + m)]
    <3>1. /\ b \o s \in Seq(P) /\ Len(b \o s) = Len(b) + Len(s)
          /\ \A i \in 1..(Len(b) + Len(s)) :
               (b \o s)[i] = IF i <= Len(b) THEN b[i] ELSE s[i - Len(b)]
        BY <2>1, <1>4, ConcatProperties
    <3> DEFINE c == b \o s
    <3> HIDE DEF c
    <3>2. /\ c \in Seq(P) /\ Len(c) = Len(b) + Len(s)
          /\ \A i \in 1..(Len(b) + Len(s)) :
               c[i] = IF i <= Len(b) THEN b[i] ELSE s[i - Len(b)]
        BY <3>1 DEF c
    <3>3. Len(b) = 1 + n + m /\ Len(s) = 2
        BY <2>1, <1>4
    <3>4. /\ c \in Seq(P) /\ Len(c) = 1 + n + m + 2
          /\ \A i \in 1..(1 + n + m + 2) :
               c[i] = IF i <= 1 + n + m THEN b[i] ELSE s[i - (1 + n + m)]
        BY <3>2, <3>3
    <3> QED
        BY <3>4 DEF c
  <2>3. roles = b \o s
      BY DEF s
  <2> HIDE DEF roles
  <2>4. /\ 1 + n + m + 1 \in 1..(1 + n + m + 2) /\ 1 + n + m + 2 \in 1..(1 + n + m + 2)
        /\ ~(1 + n + m + 1 <= 1 + n + m) /\ ~(1 + n + m + 2 <= 1 + n + m)
        /\ (1 + n + m + 1) - (1 + n + m) = 1 /\ (1 + n + m + 2) - (1 + n + m) = 2
        /\ \A i \in 1..(1 + n + m) : i \in 1..(1 + n + m + 2) /\ i <= 1 + n + m
      BY <1>1
  <2> QED
      BY <2>1, <2>2, <2>3, <2>4
<1> HIDE DEF roles
<1>6. ASSUME NEW i \in 1..(1 + n + m)
      PROVE  place(i) \in 1..(m + n + 1) /\ roles[i] = q[place(i)]
  <2>1. CASE i = 1
      BY <2>1, <1>1, <1>2, <1>3, <1>4, <1>5
  <2>2. CASE i # 1 /\ i <= 1 + n
    <3>1. i - 1 \in 1..n /\ i \in 1..(1 + n) /\ place(i) = m + (i - 1)
          /\ place(i) \in 1..(m + n + 1)
        BY <2>2, <1>1
    <3>2. roles[i] = a[i]
        BY <2>2, <1>4, <1>5
    <3>3. a[i] = w[i - 1]
        BY <2>2, <3>1, <1>3
    <3>4. q[m + (i - 1)] = w[i - 1]
        BY <3>1, <1>2
    <3> QED
        BY <3>1, <3>2, <3>3, <3>4
  <2>3. CASE ~(i <= 1 + n)
    <3>1. i - (1 + n) \in 1..m /\ i # 1 /\ place(i) = i - (1 + n)
          /\ place(i) \in 1..(m + n + 1)
        BY <2>3, <1>1
    <3>2. roles[i] = t[i - (1 + n)]
        BY <2>3, <1>4, <1>5
    <3> QED
        BY <3>1, <3>2, <1>2
  <2> QED
      BY <2>1, <2>2, <2>3
<1>7. ASSUME NEW i \in 1..(1 + n + m), NEW j \in 1..(1 + n + m), place(i) = place(j)
      PROVE  i = j
    BY <1>7, <1>1
<1> HIDE DEF place
<1>8. \A i, j \in 1..(1 + n + m) : roles[i] = roles[j] => i = j
    BY <1>2, <1>6, <1>7
<1>9. \A i \in 1..(1 + n + m) : roles[i] # tmpPtr /\ roles[i] # nextBufferPtr_
    BY <1>2, <1>6
<1>a. ASSUME NEW i \in 1..(1 + n + m + 2), NEW j \in 1..(1 + n + m + 2),
             roles[i] = roles[j], i # j
      PROVE  roles[i] = NoBuffer
  <2>1. i \in 1..(1 + n + m) \/ i = 1 + n + m + 1 \/ i = 1 + n + m + 2
      BY <1>1
  <2>2. j \in 1..(1 + n + m) \/ j = 1 + n + m + 1 \/ j = 1 + n + m + 2
      BY <1>1
  <2> QED
      BY <2>1, <2>2, <1>a, <1>2, <1>5, <1>8, <1>9
<1>b. DOMAIN roles = 1..(1 + n + m + 2)
    BY <1>5, LenProperties
<1> QED
    BY <1>a, <1>b DEF roles, b, a, w, t

\* The thread writes and clears without mutex_ what nobody else can reach.
THEOREM BuffersStayDistinct == Spec => []BuffersDistinct
    BY InvariantHolds, RolesApart, PTL

-----------------------------------------------------------------------------
(* What the invariant says of the stream *)

\* A sequence that agrees with acc from place m on is that part of acc.
LEMMA Slice ==
  ASSUME NEW s, NEW acc, s \in Seq(Entries), acc \in Seq(Entries), NEW m \in Nat,
         m + Len(s) <= Len(acc), \A k \in 1..Len(s) : s[k] = acc[m + k]
  PROVE  s = SubSeq(acc, m + 1, m + Len(s))
<1> DEFINE n == Len(s)
           r == SubSeq(acc, m + 1, m + n)
<1>1. n \in Nat /\ Len(acc) \in Nat /\ \A i \in 1..Len(acc) : acc[i] \in Entries
    BY LenProperties, ElementOfSeq
<1> HIDE DEF Entries, n
<1>2. \A i \in (m + 1)..(m + n) : acc[i] \in Entries
    BY <1>1 DEF n
<1>3. /\ r \in Seq(Entries)
      /\ Len(r) = IF m + 1 <= m + n THEN (m + n) - (m + 1) + 1 ELSE 0
      /\ \A i \in 1..((m + n) - (m + 1) + 1) : r[i] = acc[(m + 1) + i - 1]
    BY <1>1, <1>2, SubSeqProperties
<1> HIDE DEF r
<1>4. Len(r) = n
    BY <1>1, <1>3
<1>5. ASSUME NEW i \in 1..n PROVE s[i] = r[i]
  <2>1. i \in 1..((m + n) - (m + 1) + 1) /\ (m + 1) + i - 1 = m + i
      BY <1>1
  <2> QED
      BY <2>1, <1>3 DEF n
<1>6. s = r
    BY <1>3, <1>4, <1>5, SeqEqual DEF n
<1> QED
    BY <1>6 DEF r, n

\* The file is the beginning of what has been accepted.
LEMMA FileIsPrefix ==
  ASSUME NEW q, NEW T, NEW bg, NEW f, NEW acc, ChainOf(q, T, bg, f, acc)
  PROVE  /\ f = SubSeq(acc, 1, Len(f)) /\ Len(f) <= Len(acc)
         /\ Len(f) \in Nat /\ Len(acc) \in Nat
<1>1. f \in Seq(Entries) /\ acc \in Seq(Entries) /\ Len(f) \in Nat /\ Len(acc) \in Nat
    BY ChainTypes DEF ChainOf
<1>2. 0 + Len(f) <= Len(acc) /\ \A k \in 1..Len(f) : f[k] = acc[0 + k]
  <2>1. Len(f) <= Len(acc) /\ \A k \in 1..Len(f) : f[k] = acc[k]
      BY DEF ChainOf, Chain
  <2> QED
      BY <2>1, <1>1
<1>3. f = SubSeq(acc, 0 + 1, 0 + Len(f))
    BY <1>1, <1>2, Slice
<1> QED
    BY <1>1, <1>2, <1>3

\* File and queue hold what has been accepted, in order.
LEMMA ChainHoldsTheRest == IInv => BuffersHoldTheRest
<1> SUFFICES ASSUME IInv PROVE BuffersHoldTheRest
    OBVIOUS
<1> DEFINE q == Queued
<1>1. ChainOf(q, Texts, begin, file, accepted)
    BY DEF IInv, Chained
<1>2. /\ Len(q) \in Nat /\ \A i \in 1..Len(q) : q[i] \in Buffers
      /\ q = <<>> <=> Len(q) = 0
      /\ \A b \in Buffers : Texts[b] \in Seq(Entries) /\ Len(Texts[b]) \in Nat /\ begin[b] \in Nat
    BY <1>1, ChainTypes
<1>3. \A b \in Buffers : Texts[b] = str[b].text
    BY DEF Texts, TextsOf
<1>4. DOMAIN q = 1..Len(q) /\ accepted \in Seq(Entries)
    BY <1>1, LenProperties DEF ChainOf
<1>5. file = SubSeq(accepted, 1, Len(file))
    BY <1>1, FileIsPrefix
<1> HIDE DEF q
<1>6. ASSUME NEW i \in 1..Len(q)
      PROVE  /\ begin[q[i]] = IF i = 1 THEN Len(file) ELSE End(q[i - 1])
             /\ str[q[i]].text = SubSeq(accepted, begin[q[i]] + 1, End(q[i]))
  <2>1. /\ begin[q[i]] = IF i = 1 THEN Len(file) ELSE begin[q[i - 1]] + Len(Texts[q[i - 1]])
        /\ begin[q[i]] + Len(Texts[q[i]]) <= Len(accepted)
        /\ \A k \in 1..Len(Texts[q[i]]) : Texts[q[i]][k] = accepted[begin[q[i]] + k]
      BY <1>1, ChainEnds
  <2>2. i # 1 => i - 1 \in 1..Len(q)
      BY <1>2
  <2>3. i # 1 => Texts[q[i - 1]] = str[q[i - 1]].text
      BY <2>2, <1>2, <1>3
  <2>4. q[i] \in Buffers /\ Texts[q[i]] = str[q[i]].text /\ Texts[q[i]] \in Seq(Entries)
        /\ begin[q[i]] \in Nat
      BY <1>2, <1>3
  <2>5. Texts[q[i]] = SubSeq(accepted, begin[q[i]] + 1, begin[q[i]] + Len(Texts[q[i]]))
      BY <2>1, <2>4, <1>4, Slice
  <2> QED
      BY <2>1, <2>3, <2>4, <2>5 DEF End
<1>7. Len(accepted) = IF q = <<>> THEN Len(file) ELSE End(Last(q))
  <2>1. CASE q = <<>>
      BY <2>1, <1>1 DEF ChainOf, Chain
  <2>2. CASE q # <<>>
    <3>1. Len(q) \in 1..Len(q)
        BY <2>2, <1>2
    <3>2. Len(accepted) = begin[q[Len(q)]] + Len(Texts[q[Len(q)]])
        BY <3>1, <1>1, ChainEnds
    <3>3. Texts[q[Len(q)]] = str[q[Len(q)]].text
        BY <3>1, <1>2, <1>3
    <3> QED
        BY <2>2, <3>2, <3>3 DEF End, Last
  <2> QED
      BY <2>1, <2>2
<1> QED
    BY <1>4, <1>5, <1>6, <1>7 DEF BuffersHoldTheRest, q

\* Each step accounts for the call it makes, or leaves the account alone.
LEMMA OutputAccounts ==
  ASSUME IInv, IInv', CallsAccounted, NEW len \in Lens, Output(len)
  PROVE  CallsAccounted'
<1>1. /\ calls \in Nat /\ lostCounter_ \in Nat /\ accepted \in Seq(Entries)
      /\ accepted' \in Seq(Entries)
    BY DEF IInv, TypeOK, Chained, ChainOf
<1>2. Accounted(accepted, lostCounter_, calls)
    BY <1>1, AccountedHere
<1>3. calls' = calls + 1
    BY DEF Output
<1>4. CASE QueueFull(Len(writeBuffers_'))
  <2>1. accepted' = accepted /\ lostCounter_' = lostCounter_ + 1
      BY <1>4 DEF Output
  <2>2. UpTo(accepted, Len(accepted)) + lostCounter_ = calls
      BY <1>2 DEF Accounted
  <2>3. UpTo(accepted, Len(accepted)) \in Nat
    <3> DEFINE n == Len(accepted)
    <3>1. n \in Nat /\ (n # 0 => n \in 1..n /\ accepted[n] \in Entries)
        BY <1>1, LenProperties, ElementOfSeq
    <3>2. n # 0 => accepted[n].kind = "message"
        BY <3>1, <1>2 DEF Accounted
    <3> QED
        BY <3>1, <3>2, EntryParts DEF UpTo
  <2>4. UpTo(accepted, Len(accepted)) + (lostCounter_ + 1) = calls + 1
      BY <2>2, <2>3, <1>1
  <2>5. Accounted(accepted', lostCounter_', calls')
      BY <1>2, <2>1, <2>4, <1>3 DEF Accounted
  <2> QED
      BY <1>1, <2>5, AccountedThere
<1>5. CASE ~QueueFull(Len(writeBuffers_'))
  <2>1. /\ lostCounter_' = 0
        /\ accepted' = accepted \o (LostNotice \o <<Message(calls + 1)>>)
      BY <1>5 DEF Output, AppendEntries
  <2>2. LostNotice \o <<Message(calls + 1)>> \in Seq(Entries)
      BY TextTyped
  <2>3. Accounted(accepted', lostCounter_', calls')
      BY <1>1, <1>2, <1>3, <2>1, <2>2, AcceptanceAccounted DEF LostNotice
  <2> QED
      BY <1>1, <2>3, AccountedThere
<1> QED
    BY <1>4, <1>5

\* So does every step.
LEMMA CallsStep == ASSUME IInv, IInv', CallsAccounted, [Next]_vars PROVE CallsAccounted'
<1>1. ASSUME NEW len \in Lens, Output(len) PROVE CallsAccounted'
    BY <1>1, OutputAccounts
<1>2. CASE ControlStep \/ Recycle \/ Fflush \/ Close \/ UNCHANGED vars
  <2>1. UNCHANGED <<accepted, calls, lostCounter_>>
      BY <1>2 DEF ControlStep, StartLogging, LoopTest, Lock, Block, Wait, SpuriousWake, Expire,
         SetStop, NotifyAll, Join, Recycle, Fflush, Close, vars, BufferVars, ThreadVars,
         historyVars, StopVars
  <2> QED
      BY <2>1 DEF CallsAccounted, CallsUpTo
<1>3. CASE Flush \/ TakeBuffersOnTimeout \/ TakeBuffers \/ Write \/ Collect \/ WriteRest
  <2>1. UNCHANGED <<accepted, calls, lostCounter_>>
      BY <1>3 DEF Flush, TakeBuffersOnTimeout, TakeBuffers, Write, Collect, WriteRest,
         historyVars
  <2> QED
      BY <2>1 DEF CallsAccounted, CallsUpTo
<1> QED
    BY <1>1, <1>2, <1>3 DEF Next, LogThread, Destructor, ControlStep

\* Every message is in the file or in one queued buffer, in call order, or
\* counted as lost.
THEOREM StreamIsAccounted == Spec => []StreamAccounting
<1>1. Init => CallsAccounted
  <2>1. Len(<<>>) = 0 /\ DOMAIN <<>> = {}
      OBVIOUS
  <2> QED
      BY <2>1 DEF Init, CallsAccounted, CallsUpTo
<1>2. IInv /\ CallsAccounted => StreamAccounting
    BY ChainHoldsTheRest DEF StreamAccounting
<1>3. IInv /\ IInv' /\ CallsAccounted /\ [Next]_vars => CallsAccounted'
    BY CallsStep
<1> QED
    BY <1>1, <1>2, <1>3, InvariantHolds, PTL DEF Spec

\* When the destructor has returned nothing of the stream is left.
LEMMA AllWritten == ASSUME IInv, dtor = "done" PROVE file = accepted /\ synced = Len(file)
<1>1. tmpBuffers_ = <<>> /\ writeBuffers_ = <<>> /\ synced = Len(file)
    BY DEF IInv, PhasesAgree
<1>2. Queued = <<>>
  <2>1. Queued = <<>> \o <<>> \o <<>>
      BY <1>1 DEF Queued
  <2> QED
      BY <2>1
<1>3. ChainOf(Queued, Texts, begin, file, accepted)
    BY DEF IInv, Chained
<1>4. Len(accepted) = Len(file)
    BY <1>2, <1>3 DEF ChainOf, Chain
<1>5. file = SubSeq(accepted, 1, Len(accepted))
    BY <1>3, <1>4, FileIsPrefix
<1>6. accepted \in Seq(Entries)
    BY <1>3 DEF ChainOf
<1> QED
    BY <1>1, <1>5, <1>6, SubSeqFull

\* When the destructor has returned nothing is left outside the file: what the
\* thread left behind was collected and written.
THEOREM DestructorHasWrittenAll == Spec => []DestructorWritesAll
<1>1. IInv => DestructorWritesAll
    BY AllWritten DEF DestructorWritesAll
<1> QED
    BY <1>1, InvariantHolds, PTL

-----------------------------------------------------------------------------
(* The refinement of MessageLog *)

\* Each call of output() accepts or loses a message.
LEMMA OutputLogs ==
  ASSUME IInv, NEW len \in Lens, Output(len) PROVE Log!Accept \/ Log!Lose
<1>1. calls' = calls + 1 /\ UNCHANGED <<file, synced>>
    BY DEF Output, ThreadVars
<1>2. CASE QueueFull(Len(writeBuffers_'))
    BY <1>1, <1>2 DEF Output, Log!Lose
<1>3. CASE ~QueueFull(Len(writeBuffers_'))
  <2>1. /\ lostCounter_' = 0
        /\ accepted' = accepted \o (LostNotice \o <<Message(calls + 1)>>)
      BY <1>3 DEF Output, AppendEntries
  <2>2. /\ LostNotice \in Seq(Entries) /\ <<Message(calls + 1)>> \in Seq(Entries)
        /\ accepted \in Seq(Entries)
      BY TextTyped DEF IInv, Chained, ChainOf
  <2>3. accepted' = (accepted \o LostNotice) \o <<Message(calls + 1)>>
      BY <2>1, <2>2, ConcatAssociative
  <2>4. LostNotice = Log!LostNotice /\ Message(calls + 1) = Log!Message(calls + 1)
      BY DEF LostNotice, Log!LostNotice, Message, Log!Message, Notice, Log!Notice
  <2> QED
      BY <1>1, <2>1, <2>3, <2>4 DEF Log!Accept
<1> QED
    BY <1>2, <1>3

\* Each buffer that is written carries the file on, or is empty.
LEMMA WritingLogs ==
  ASSUME IInv, IInv', Write \/ WriteRest PROVE Log!Write \/ UNCHANGED Log!vars
<1>1. UNCHANGED <<calls, lostCounter_, accepted, synced>>
    BY DEF Write, WriteRest, historyVars
<1>2. PICK t \in Seq(Entries) : file' = file \o t
  <2>1. \A b \in Buffers : str[b].text \in Seq(Entries)
      BY DEF IInv, StringsBounded, Strings
  <2>2. CASE Write
    <3>1. Head(tmpBuffers_) \in Buffers /\ file' = file \o str[Head(tmpBuffers_)].text
        BY <2>2, HeadTailProperties DEF Write, IInv, TypeOK
    <3> QED
        BY <2>1, <3>1
  <2>3. CASE WriteRest
    <3>1. Head(writeBuffers_) \in Buffers /\ file' = file \o str[Head(writeBuffers_)].text
        BY <2>3, HeadTailProperties DEF WriteRest, IInv, TypeOK
    <3> QED
        BY <2>1, <3>1
  <2> QED
      BY <2>2, <2>3
<1>3. file \in Seq(Entries) /\ Len(file) \in Nat
    BY LenProperties DEF IInv, Chained, ChainOf
<1>4. Len(file') = Len(file) + Len(t) /\ Len(t) \in Nat /\ (t = <<>> => file' = file)
    BY <1>2, <1>3, Joined, ConcatEmptySeq
<1>5. /\ file' = SubSeq(accepted', 1, Len(file')) /\ Len(file') <= Len(accepted')
      /\ Len(accepted') \in Nat
    BY FileIsPrefix DEF IInv, Chained
<1>6. CASE t = <<>>
    BY <1>1, <1>4, <1>6 DEF Log!vars
<1>7. CASE t # <<>>
  <2>1. Len(file') \in (Len(file) + 1)..Len(accepted)
    <3>1. Len(t) # 0
        BY <1>7, EmptySeq
    <3> QED
        BY <3>1, <1>1, <1>3, <1>4, <1>5
  <2> QED
      BY <2>1, <1>1, <1>5 DEF Log!Write
<1> QED
    BY <1>6, <1>7

\* Every step of the callers, the thread and the destructor is a step of the
\* abstract log or changes nothing it speaks about.
THEOREM LogImplemented == Spec => LogSpec
<1>1. Init => Log!Init
    BY DEF Init, Log!Init
<1>2. ASSUME IInv, IInv', [Next]_vars PROVE [Log!Next]_(Log!vars)
  <2>1. ASSUME NEW len \in Lens, Output(len) PROVE Log!Next
      BY <1>2, <2>1, OutputLogs DEF Log!Next
  <2>2. CASE Write \/ WriteRest
      BY <1>2, <2>2, WritingLogs DEF Log!Next
  <2>3. CASE Fflush \/ Close
      BY <2>3 DEF Fflush, Close, BufferVars, historyVars, Log!Next, Log!Sync
  <2>4. CASE ControlStep \/ UNCHANGED vars
      BY <2>4 DEF ControlStep, StartLogging, LoopTest, Lock, Block, Wait, SpuriousWake, Expire,
         SetStop, NotifyAll, Join, vars, BufferVars, ThreadVars, historyVars, Log!vars
  <2>5. CASE Flush \/ TakeBuffersOnTimeout \/ TakeBuffers \/ Recycle \/ Collect
      BY <2>5 DEF Flush, TakeBuffersOnTimeout, TakeBuffers, Recycle, Collect,
         ThreadVars, historyVars, Log!vars
  <2> QED
      BY <1>2, <2>1, <2>2, <2>3, <2>4, <2>5 DEF Next, LogThread, Destructor, ControlStep
<1> QED
    BY <1>1, <1>2, InvariantHolds, PTL DEF Spec, LogSpec, Log!Spec

-----------------------------------------------------------------------------
(* The LoggerFile in the pipeline *)

FilesProofs == INSTANCE LoggerFile_proofs

\* LoggerFile is the module whose proofs are cited.
LEMMA FilesAgree ==
  /\ Files!Init <=> FilesProofs!Init
  /\ Files!Next <=> FilesProofs!Next
  /\ Files!Write <=> FilesProofs!Write
  /\ Files!Flush <=> FilesProofs!Flush
  /\ Files!Close <=> FilesProofs!Close
  /\ Files!Restart <=> FilesProofs!Restart
  /\ Files!Rename <=> FilesProofs!Rename
  /\ Files!DeleteOldFile <=> FilesProofs!DeleteOldFile
  /\ Files!RotatedName = FilesProofs!RotatedName
  /\ Files!vars = FilesProofs!vars /\ Files!vars' = FilesProofs!vars'
<1> USE DEF Files!loggerVars, FilesProofs!loggerVars, Files!otherVars, FilesProofs!otherVars,
            Files!countVars, FilesProofs!countVars, Files!Outcome, FilesProofs!Outcome,
            Files!LoggerUnchanged, FilesProofs!LoggerUnchanged, Files!Stdio, FilesProofs!Stdio,
            Files!Passed, FilesProofs!Passed
<1>1. Files!Init <=> FilesProofs!Init
    BY DEF Files!Init, FilesProofs!Init
<1>2. Files!vars = FilesProofs!vars /\ Files!vars' = FilesProofs!vars'
    BY DEF Files!vars, FilesProofs!vars
<1>3. Files!RotatedName = FilesProofs!RotatedName
    BY DEF Files!RotatedName, FilesProofs!RotatedName
<1>4. Files!Construct <=> FilesProofs!Construct
    BY DEF Files!Construct, FilesProofs!Construct
<1>5. (Files!CannotRead <=> FilesProofs!CannotRead) /\ (Files!ScanDone <=> FilesProofs!ScanDone)
    BY DEF Files!CannotRead, FilesProofs!CannotRead, Files!ScanDone, FilesProofs!ScanDone
<1>6. ASSUME NEW s, NEW n PROVE Files!Without(s, n) = FilesProofs!Without(s, n)
    BY DEF Files!Without, FilesProofs!Without
<1>7. Files!Scan <=> FilesProofs!Scan
  <2>1. ASSUME NEW s
        PROVE  /\ Files!Cardinality(s) = FilesProofs!Cardinality(s)
               /\ Files!ToSet(s) = FilesProofs!ToSet(s)
      BY DEF Files!Cardinality, FilesProofs!Cardinality, Files!ToSet, FilesProofs!ToSet
  <2>2. ASSUME NEW s PROVE Files!Sorted(s) = FilesProofs!Sorted(s)
      BY DEF Files!Sorted, FilesProofs!Sorted, Files!Before, FilesProofs!Before,
             Files!Cardinality, FilesProofs!Cardinality
  <2>3. ASSUME NEW s PROVE Files!Earliest(s) = FilesProofs!Earliest(s)
      BY DEF Files!Earliest, FilesProofs!Earliest, Files!Before, FilesProofs!Before
  <2> QED
      BY <1>6, <2>1, <2>2, <2>3 DEF Files!Scan, FilesProofs!Scan
<1>8. Files!Write <=> FilesProofs!Write
    BY DEF Files!Write, FilesProofs!Write
<1>9. (Files!Flush <=> FilesProofs!Flush) /\ (Files!Reopen <=> FilesProofs!Reopen)
    BY DEF Files!Flush, FilesProofs!Flush, Files!Reopen, FilesProofs!Reopen
<1>f. Files!Close <=> FilesProofs!Close
    BY DEF Files!Close, FilesProofs!Close
<1>a. Files!Rename <=> FilesProofs!Rename
    BY <1>3 DEF Files!Rename, FilesProofs!Rename, Files!TooMany, FilesProofs!TooMany,
       Files!AfterSwitch, FilesProofs!AfterSwitch
<1>b. Files!DeleteOldFile <=> FilesProofs!DeleteOldFile
    BY <1>6 DEF Files!DeleteOldFile, FilesProofs!DeleteOldFile, Files!TooMany,
       FilesProofs!TooMany, Files!AfterSwitch, FilesProofs!AfterSwitch
<1>c. /\ Files!OtherLoads <=> FilesProofs!OtherLoads
      /\ Files!OtherStores <=> FilesProofs!OtherStores
    BY DEF Files!OtherLoads, FilesProofs!OtherLoads, Files!OtherStores, FilesProofs!OtherStores
<1>d. (Files!Destroy <=> FilesProofs!Destroy) /\ (Files!Restart <=> FilesProofs!Restart)
    BY DEF Files!Destroy, FilesProofs!Destroy, Files!Restart, FilesProofs!Restart
<1>e. Files!Next <=> FilesProofs!Next
    BY <1>4, <1>5, <1>7, <1>8, <1>9, <1>a, <1>b, <1>c, <1>d, <1>f DEF Files!Next, FilesProofs!Next
<1> QED
    BY <1>1, <1>2, <1>3, <1>8, <1>9, <1>a, <1>b, <1>d, <1>e, <1>f

\* A step of the pipeline is one of its LoggerFile, or leaves it alone.
LEMMA FilesStep == ASSUME [PipelineNext]_pipelineVars PROVE [Files!Next]_(Files!vars)
<1>1. ASSUME UNCHANGED loggerFileVars PROVE UNCHANGED Files!vars
    BY <1>1 DEF loggerFileVars, Files!vars, Files!loggerVars, Files!otherVars, Files!countVars
<1>2. CASE CallStep \/ InMemoryStep \/ RecycleWritten \/ CloseDestroyed \/ UNCHANGED pipelineVars
  <2>1. UNCHANGED loggerFileVars
      BY <1>2 DEF CallStep, InMemoryStep, RecycleWritten, CloseDestroyed, OnlyLogger, pipelineVars
  <2> QED
      BY <2>1, <1>1
<1>3. CASE Construct \/ WriteLog \/ FileWork \/ DestroyFile \/ Restart
    BY <1>3 DEF Construct, WriteLog, FileWork, DestroyFile, Restart, Files!Next
<1>4. CASE FlushFile
    BY <1>4, <1>1 DEF FlushFile, Files!Next
<1> QED
    BY <1>2, <1>3, <1>4 DEF PipelineNext

\* What is proved of a LoggerFile holds of the one in the pipeline: writing,
\* flushing and destroying it are its own steps, and a process that ends takes
\* it along.
THEOREM LoggerFileImplemented == PipelineSpec => Files!Spec
<1>1. PipelineInit => Files!Init
    BY DEF PipelineInit
<1>2. [PipelineNext]_pipelineVars => [Files!Next]_(Files!vars)
    BY FilesStep
<1> QED
    BY <1>1, <1>2, PTL DEF PipelineSpec, Files!Spec

\* So what is proved of that module can be cited.
LEMMA FilesSpecsAgree == Files!Spec <=> FilesProofs!Spec
<1>1. [Files!Next]_(Files!vars) <=> [FilesProofs!Next]_(FilesProofs!vars)
    BY FilesAgree
<1> QED
    BY <1>1, FilesAgree, PTL DEF Files!Spec, FilesProofs!Spec

LEMMA FilesInvariantHolds == PipelineSpec => []FilesProofs!IInv
  BY FilesSpecsAgree, LoggerFileImplemented, FilesProofs!InvariantHolds, FilesAssumption, PTL

\* What the pipeline needs of it.
LEMMA FilesTyped ==
  ASSUME FilesProofs!IInv
  PROVE  /\ current \in Seq(Nat) /\ Len(current) \in Nat /\ unflushed \in 0..Len(current)
         /\ ~fp_ => unflushed = 0
         /\ pc \in {"scan", "delete"} => maxFiles_ > 0
         /\ written \in Nat /\ restarts \in Nat /\ failures \in Nat
         /\ fp_ \in BOOLEAN
         /\ pc \in {"none", "scan", "write", "ready", "close", "rename", "delete", "reopen"}
         /\ pc = "close" => fp_
         /\ pc \in {"none", "rename", "delete", "reopen"} => ~fp_
         /\ \A i \in DOMAIN current : current[i] \in 1..written
         /\ \A m \in DOMAIN rotated : \A i \in DOMAIN rotated[m] : rotated[m][i] \in 1..written
  BY LenProperties DEF FilesProofs!IInv, FilesProofs!TypeOK, FilesProofs!Kept, FilesProofs!Chunks

-----------------------------------------------------------------------------
(* The invariant of the pipeline *)

\* One chunk for each call of writeLog(); only a failed call of this process
\* leaves a LoggerFile without a file between its calls; and there is no
\* LoggerFile when the destructor has returned.
Joint ==
  /\ chunks \in Seq(Seq(Entries)) /\ Len(chunks) = written
  /\ before.failures \in Nat /\ before.failures <= failures
  /\ ~fp_ /\ pc \in {"scan", "write", "ready"} => failures > before.failures
  /\ dtor = "done" => pc = "none"

PipelineInv == IInv /\ FilesProofs!IInv /\ Joint

\* The logger makes its own steps until the process ends.
LEMMA LoggerSteps == ASSUME [PipelineNext]_pipelineVars, ~Restart PROVE [Next]_vars
<1>1. CASE CallStep \/ InMemoryStep \/ RecycleWritten \/ CloseDestroyed
    BY <1>1 DEF CallStep, Calls, InMemoryStep, ThreadInMemory, DestructorInMemory, RecycleWritten,
       CloseDestroyed, Next, LogThread, Destructor
<1>2. CASE Construct \/ FileWork \/ DestroyFile \/ UNCHANGED pipelineVars
    BY <1>2 DEF Construct, FileWork, DestroyFile, pipelineVars
<1>3. CASE WriteLog \/ FlushFile
    BY <1>3 DEF WriteLog, FlushFile, Next, LogThread, Destructor
<1> QED
    BY <1>1, <1>2, <1>3 DEF PipelineNext

\* The next process starts with a new logger behind what has been written.
LEMMA NewStarts == New' => IInv'
    BY InvariantStarts, PTL

LEMMA LoggerInvariantStep == ASSUME IInv, [PipelineNext]_pipelineVars PROVE IInv'
<1>1. CASE Restart
  <2>1. file \in Seq(Entries) /\ synced \in Nat /\ calls \in Nat
      BY DEF IInv, TypeOK, Chained, ChainOf
  <2>2. NewLogger /\ file' = file /\ synced' = synced /\ calls' = calls
      BY <1>1 DEF Restart
  <2>3. New'
      BY <2>1, <2>2 DEF New, NewLogger
  <2> QED
      BY <2>3, NewStarts
<1>2. CASE ~Restart
    BY <1>2, LoggerSteps, InvariantStep
<1> QED
    BY <1>1, <1>2

\* Calls of stdio only add to the failures.
LEMMA FailuresGrow ==
  ASSUME FilesProofs!IInv, Files!Write \/ Files!Flush \/ Files!Close
  PROVE  failures' \in Nat /\ failures' >= failures
<1>1. FilesProofs!TypeOK /\ failures \in Nat
    BY DEF FilesProofs!IInv, FilesProofs!TypeOK
<1>2. CASE Files!Write /\ fp_
    BY <1>1, <1>2, FilesAgree, FilesProofs!WriteEffect, FilesAssumption
<1>3. CASE Files!Write /\ ~fp_
    BY <1>1, <1>3 DEF Files!Write
<1>4. CASE Files!Flush \/ Files!Close
    BY <1>1, <1>4, FilesAgree, FilesProofs!FlushEffect, FilesAssumption
<1> QED
    BY <1>2, <1>3, <1>4

\* The chunk of a call of writeLog() is text.
LEMMA PartTyped ==
  ASSUME NEW s, s \in Seq(Entries), NEW m, m \in Nat
  PROVE  /\ SubSeq(s, m + 1, Len(s)) \in Seq(Entries)
         /\ m <= Len(s) =>
              /\ Len(SubSeq(s, m + 1, Len(s))) = Len(s) - m
              /\ \A i \in 1..(Len(s) - m) : SubSeq(s, m + 1, Len(s))[i] = s[m + i]
<1> DEFINE n == Len(s)
<1>1. n \in Nat /\ \A i \in 1..n : s[i] \in Entries
    BY LenProperties, ElementOfSeq
<1> HIDE DEF Entries, n
<1>2. \A i \in (m + 1)..n : s[i] \in Entries
    BY <1>1
<1>3. /\ SubSeq(s, m + 1, n) \in Seq(Entries)
      /\ Len(SubSeq(s, m + 1, n)) = IF m + 1 <= n THEN n - (m + 1) + 1 ELSE 0
      /\ \A i \in 1..(n - (m + 1) + 1) : SubSeq(s, m + 1, n)[i] = s[(m + 1) + i - 1]
    BY <1>1, <1>2, SubSeqProperties
<1>4. \A i \in 1..(n - m) : i \in 1..(n - (m + 1) + 1) /\ (m + 1) + i - 1 = m + i
    BY <1>1
<1>5. m <= n => (IF m + 1 <= n THEN n - (m + 1) + 1 ELSE 0) = n - m
    BY <1>1
<1> QED
    BY <1>3, <1>4, <1>5 DEF n

LEMMA JointStep ==
  ASSUME PipelineInv, IInv', FilesProofs!IInv', [PipelineNext]_pipelineVars PROVE Joint'
<1>0. Joint /\ IInv /\ written \in Nat /\ failures \in Nat /\ fp_ \in BOOLEAN
    BY FilesTyped DEF PipelineInv
<1>1. CASE CallStep \/ InMemoryStep \/ RecycleWritten \/ CloseDestroyed \/ UNCHANGED pipelineVars
  <2>1. UNCHANGED <<loggerFileVars, chunks, before>>
      BY <1>1 DEF CallStep, InMemoryStep, RecycleWritten, CloseDestroyed, OnlyLogger, pipelineVars
  <2>2. dtor' = "done" => dtor = "done" \/ pc = "none"
    <3>1. CASE CallStep
        BY <3>1 DEF CallStep, Calls, Output, Flush, StartLogging, SpuriousWake, Expire, SetStop,
           DtorGoes, StopVars
    <3>2. CASE InMemoryStep
        BY <3>2 DEF InMemoryStep, ThreadInMemory, DestructorInMemory, LoopTest, Lock, Block, Wait,
           TakeBuffersOnTimeout, TakeBuffers, NotifyAll, Join, Collect, DtorGoes, StopVars
    <3>3. CASE RecycleWritten \/ CloseDestroyed \/ UNCHANGED pipelineVars
        BY <3>3 DEF RecycleWritten, Recycle, CloseDestroyed, StopVars, pipelineVars, vars
    <3> QED
        BY <1>1, <3>1, <3>2, <3>3
  <2> QED
      BY <1>0, <2>1, <2>2 DEF Joint, loggerFileVars
<1>2. CASE Construct
  <2>1. /\ pc = "none" /\ UNCHANGED <<chunks, before, dtor, written>>
        /\ failures' = IF fp_' THEN failures ELSE failures + 1
      BY <1>2 DEF Construct, Files!Construct, Files!Outcome, vars
  <2>2. dtor # "done"
      BY <1>0, <1>2 DEF Construct, ThreadWrites, DestructorWrites, IInv, PhasesAgree
  <2> QED
      BY <1>0, <2>1, <2>2 DEF Joint
<1>3. CASE WriteLog
  <2>1. /\ written' = written + 1 /\ UNCHANGED <<before, fp_>>
        /\ pc \in {"write", "ready"} /\ (~fp_ => failures' = failures)
        /\ chunks' = Append(chunks, SubSeq(file', Len(file) + 1, Len(file')))
      BY <1>3 DEF WriteLog, Files!Write
  <2>6. failures' \in Nat /\ failures' >= failures
      BY <1>0, <1>3, <2>1, FailuresGrow DEF PipelineInv, WriteLog
  <2>2. dtor' # "done"
      BY <1>0, <1>3 DEF WriteLog, Write, WriteRest, ThreadGoes, StopVars, IInv, PhasesAgree
  <2>3. SubSeq(file', Len(file) + 1, Len(file')) \in Seq(Entries)
    <3>1. file' \in Seq(Entries) /\ file \in Seq(Entries)
        BY <1>0 DEF IInv, Chained, ChainOf
    <3>2. Len(file) \in Nat
        BY <3>1, LenProperties
    <3> QED
        BY <3>1, <3>2, PartTyped
  <2>4. chunks' \in Seq(Seq(Entries)) /\ Len(chunks') = written'
    <3> DEFINE S == Seq(Entries)
               c == SubSeq(file', Len(file) + 1, Len(file'))
    <3>1. chunks \in Seq(S) /\ c \in S /\ chunks' = Append(chunks, c)
        BY <1>0, <2>1, <2>3 DEF Joint
    <3> HIDE DEF S, c
    <3>2. Append(chunks, c) \in Seq(S) /\ Len(Append(chunks, c)) = Len(chunks) + 1
        BY <3>1, AppendProperties
    <3> QED
        BY <1>0, <2>1, <3>1, <3>2 DEF Joint, S
  <2>5. ~fp_ => failures > before.failures
      BY <1>0, <2>1 DEF Joint
  <2> QED
      BY <1>0, <2>1, <2>2, <2>4, <2>5, <2>6 DEF Joint
<1>4. CASE FileWork
  <2>0. UNCHANGED <<dtor, chunks, before>> /\ dtor # "done"
    <3>1. pc # "none"
        BY <1>4 DEF FileWork, Files!CannotRead, Files!Scan, Files!ScanDone, Files!Rename,
           Files!Close, Files!DeleteOldFile, Files!Reopen
    <3> QED
        BY <3>1, <1>0, <1>4 DEF FileWork, vars, Joint
  <2>1. CASE Files!CannotRead
      BY <1>0, <2>0, <2>1 DEF Joint, Files!CannotRead, Files!Outcome
  <2>2. CASE Files!Scan
    <3>1. /\ pc = "scan" /\ UNCHANGED <<fp_, pc, written>> /\ failures' \in {failures, failures + 1}
        BY <2>2 DEF Files!Scan, Files!Outcome
    <3> QED
        BY <1>0, <2>0, <3>1 DEF Joint
  <2>3. CASE Files!ScanDone
      BY <1>0, <2>0, <2>3 DEF Joint, Files!ScanDone, Files!countVars
  <2>4. CASE Files!Rename \/ Files!DeleteOldFile
    <3>1. /\ written' = written /\ failures' \in {failures, failures + 1}
          /\ pc' \in {"delete", "none", "reopen"}
        BY <2>4 DEF Files!Rename, Files!DeleteOldFile, Files!Outcome, Files!AfterSwitch
    <3> QED
        BY <1>0, <2>0, <3>1 DEF Joint
  <2>5. CASE Files!Reopen
    <3>1. written' = written /\ failures' = IF fp_' THEN failures ELSE failures + 1
        BY <2>5 DEF Files!Reopen, Files!Outcome
    <3> QED
        BY <1>0, <2>0, <3>1 DEF Joint
  <2>6. CASE Files!Close
    <3>1. written' = written /\ pc' \in {"none", "rename"}
        BY <2>6 DEF Files!Close
    <3>2. failures' \in Nat /\ failures' >= failures
        BY <1>0, <2>6, FailuresGrow DEF PipelineInv
    <3> QED
        BY <1>0, <2>0, <3>1, <3>2 DEF Joint
  <2> QED
      BY <1>4, <2>1, <2>2, <2>3, <2>4, <2>5, <2>6 DEF FileWork
<1>5. CASE FlushFile
  <2>1. UNCHANGED <<chunks, before, dtor, written, fp_, pc>>
      BY <1>5 DEF FlushFile, Fflush, StopVars, Files!Flush, loggerFileVars
  <2>2. failures' \in Nat /\ failures' >= failures
      BY <1>0, <1>5, FailuresGrow DEF PipelineInv, FlushFile, loggerFileVars
  <2> QED
      BY <1>0, <2>1, <2>2 DEF Joint
<1>6. CASE DestroyFile
  <2>1. /\ UNCHANGED <<chunks, before, dtor, written, failures>> /\ dtor = "write"
        /\ pc' \in {"close", "none"}
      BY <1>6 DEF DestroyFile, Files!Destroy, Files!countVars, vars
  <2> QED
      BY <1>0, <2>1 DEF Joint
<1>7. CASE Restart
  <2>1. /\ UNCHANGED <<chunks, written, failures>> /\ pc' = "none" /\ before'.failures = failures
      BY <1>7 DEF Restart, Files!Restart
  <2> QED
      BY <1>0, <2>1 DEF Joint
<1> QED
    BY <1>1, <1>2, <1>3, <1>4, <1>5, <1>6, <1>7 DEF PipelineNext

LEMMA PipelineInvariantHolds == PipelineSpec => []PipelineInv
<1>1. PipelineInit => IInv
    BY InvariantInit DEF PipelineInit
<1>2. IInv /\ [PipelineNext]_pipelineVars => IInv'
    BY LoggerInvariantStep
<1>3. PipelineSpec => []IInv
    BY <1>1, <1>2, PTL DEF PipelineSpec
<1>4. PipelineInit => Joint
  <2>1. <<>> \in Seq(Seq(Entries)) /\ Len(<<>>) = 0
      OBVIOUS
  <2> QED
      BY <2>1 DEF PipelineInit, Files!Init, Init, Joint
<1>5. IInv /\ FilesProofs!IInv /\ Joint /\ IInv' /\ FilesProofs!IInv'
        /\ [PipelineNext]_pipelineVars => Joint'
  <2> SUFFICES ASSUME IInv, FilesProofs!IInv, Joint, IInv', FilesProofs!IInv',
                      [PipelineNext]_pipelineVars
               PROVE  Joint'
      OBVIOUS
  <2>1. PipelineInv
      BY DEF PipelineInv
  <2> QED
      BY <2>1, JointStep
<1> QED
    BY <1>3, <1>4, <1>5, FilesInvariantHolds, PTL DEF PipelineSpec, PipelineInv

-----------------------------------------------------------------------------
(* What becomes of accepted messages *)

\* A text tells of message n; chunk c is in a file; an accepted entry that is
\* not in the file yet tells of n.
Tells(s, n) == \E k \in DOMAIN s : s[k].kind = "message" /\ s[k].n = n
OnDisk(cur, rot, c) ==
  \/ \E i \in DOMAIN cur : cur[i] = c
  \/ \E m \in DOMAIN rot : \E i \in DOMAIN rot[m] : rot[m][i] = c
Waiting(f, acc, n) ==
  \E k \in (Len(f) + 1)..Len(acc) : acc[k].kind = "message" /\ acc[k].n = n
Holds(cur, rot, ch, f, acc, n) ==
  (\E c : OnDisk(cur, rot, c) /\ Tells(ch[c], n)) \/ Waiting(f, acc, n)

Extends(s, t) == Len(s) <= Len(t) /\ \A k \in 1..Len(s) : t[k] = s[k]

\* What MessagesIn collects.
LEMMA MessagesTold == \A s, n : n \in MessagesIn(s) <=> Tells(s, n)
  BY DEF MessagesIn, Elements, Tells

\* What of a stream is behind what is written.
LEMMA PartWaits ==
  ASSUME NEW f, NEW acc, f \in Seq(Entries), acc \in Seq(Entries), Len(f) <= Len(acc), NEW n
  PROVE  n \in MessagesIn(SubSeq(acc, Len(f) + 1, Len(acc))) <=> Waiting(f, acc, n)
<1> DEFINE m == Len(f)
           part == SubSeq(acc, m + 1, Len(acc))
<1>1. m \in Nat /\ Len(acc) \in Nat
    BY LenProperties
<1>2. /\ part \in Seq(Entries) /\ Len(part) = Len(acc) - m
      /\ \A i \in 1..(Len(acc) - m) : part[i] = acc[m + i]
    BY <1>1, PartTyped
<1>3. DOMAIN part = 1..(Len(acc) - m)
    BY <1>2, LenProperties
<1> HIDE DEF part, m
<1>4. ASSUME Tells(part, n)
      PROVE  \E k \in (m + 1)..Len(acc) : acc[k].kind = "message" /\ acc[k].n = n
  <2>1. PICK i \in 1..(Len(acc) - m) : part[i].kind = "message" /\ part[i].n = n
      BY <1>3, <1>4 DEF Tells
  <2>2. m + i \in (m + 1)..Len(acc) /\ part[i] = acc[m + i]
      BY <1>1, <1>2
  <2> QED
      BY <2>1, <2>2
<1>5. ASSUME NEW k \in (m + 1)..Len(acc), acc[k].kind = "message", acc[k].n = n
      PROVE  Tells(part, n)
  <2>1. k - m \in 1..(Len(acc) - m) /\ m + (k - m) = k
      BY <1>1
  <2>2. part[k - m] = acc[k]
      BY <2>1, <1>2
  <2> QED
      BY <1>3, <1>5, <2>1, <2>2 DEF Tells
<1>6. Tells(part, n) <=> Waiting(f, acc, n)
    BY <1>4, <1>5 DEF Waiting, m
<1> QED
    BY <1>6, MessagesTold DEF part, m

\* Held, spelled out.
LEMMA HeldIs ==
  /\ IInv => \A n : n \in Held <=> Holds(current, rotated, chunks, file, accepted, n)
  /\ IInv' => \A n : n \in Held' <=> Holds(current', rotated', chunks', file', accepted', n)
<1>1. ASSUME NEW n
      PROVE  /\ n \in Read(ChunksOnDisk)
                  <=> \E c : OnDisk(current, rotated, c) /\ Tells(chunks[c], n)
             /\ n \in Read(ChunksOnDisk)'
                  <=> \E c : OnDisk(current', rotated', c) /\ Tells(chunks'[c], n)
    BY MessagesTold DEF Read, ChunksOnDisk, InFiles, Elements, OnDisk
<1>2. ASSUME IInv
      PROVE  file \in Seq(Entries) /\ accepted \in Seq(Entries) /\ Len(file) <= Len(accepted)
    BY <1>2 DEF IInv, Chained, ChainOf, Chain
<1>3. ASSUME IInv'
      PROVE  file' \in Seq(Entries) /\ accepted' \in Seq(Entries) /\ Len(file') <= Len(accepted')
    BY <1>3 DEF IInv, Chained, ChainOf, Chain
<1>4. ASSUME IInv, NEW n PROVE n \in Held <=> Holds(current, rotated, chunks, file, accepted, n)
  <2>1. n \in MessagesIn(SubSeq(accepted, Len(file) + 1, Len(accepted)))
          <=> Waiting(file, accepted, n)
      BY <1>2, <1>4, PartWaits
  <2> QED
      BY <1>1, <2>1 DEF Held, Holds
<1>5. ASSUME IInv', NEW n
      PROVE  n \in Held' <=> Holds(current', rotated', chunks', file', accepted', n)
  <2>1. n \in MessagesIn(SubSeq(accepted', Len(file') + 1, Len(accepted')))
          <=> Waiting(file', accepted', n)
      BY <1>3, <1>5, PartWaits
  <2> QED
      BY <1>1, <2>1 DEF Held, Holds
<1> QED
    BY <1>4, <1>5

\* The stream only grows while the process lives.
LEMMA AcceptedGrows == ASSUME IInv, [Next]_vars PROVE Extends(accepted, accepted')
<1>1. accepted \in Seq(Entries) /\ Len(accepted) \in Nat
    BY LenProperties DEF IInv, Chained, ChainOf
<1>2. CASE accepted' = accepted
    BY <1>1, <1>2 DEF Extends
<1>3. ASSUME NEW len \in Lens, Output(len), accepted' # accepted PROVE Extends(accepted, accepted')
  <2>1. accepted' = accepted \o (LostNotice \o <<Message(calls + 1)>>)
      BY <1>3 DEF Output, AppendEntries
  <2>2. LostNotice \o <<Message(calls + 1)>> \in Seq(Entries)
      BY <1>3, TextTyped
  <2>3. /\ Len(accepted') = Len(accepted) + Len(LostNotice \o <<Message(calls + 1)>>)
        /\ \A k \in 1..Len(accepted) : accepted'[k] = accepted[k]
        /\ Len(LostNotice \o <<Message(calls + 1)>>) \in Nat
      BY <1>1, <2>1, <2>2, Joined
  <2> QED
      BY <1>1, <2>3 DEF Extends
<1>4. CASE ~\E len \in Lens : Output(len)
    BY <1>4, <1>2 DEF Next, LogThread, Destructor, Flush, StartLogging, LoopTest, Lock, Block, Wait,
       TakeBuffersOnTimeout, TakeBuffers, Write, Recycle, Fflush, SpuriousWake, Expire, SetStop,
       NotifyAll, Join, Collect, WriteRest, Close, vars, BufferVars, historyVars
<1> QED
    BY <1>2, <1>3, <1>4

\* Unless it fails a call of stdio loses nothing.
LEMMA StdioWorks ==
  ASSUME FilesProofs!IInv, fp_, ~(failures' > failures)
  PROVE  /\ Files!Write => current' = Append(current, written')
         /\ Files!Flush \/ Files!Close => current' = current
<1>1. FilesProofs!TypeOK
    BY DEF FilesProofs!IInv
<1>2. CASE Files!Write
  <2>1. FilesProofs!Write
      BY <1>2, FilesAgree
  <2>2. written' = written + 1 /\ current' = Append(current, written + 1)
      BY <1>1, <2>1, FilesProofs!WriteEffect, FilesAssumption
  <2>3. ~Files!Flush /\ ~Files!Close
    <3>1. CASE Files!Flush \/ Files!Close
      <4>1. written' = written /\ written \in Nat
          BY <1>1, <3>1 DEF Files!Flush, Files!Close, FilesProofs!TypeOK
      <4> QED
          BY <2>2, <4>1
    <3> QED
        BY <3>1
  <2> QED
      BY <2>2, <2>3
<1>3. CASE ~Files!Write
    BY <1>1, <1>3, FilesAgree, FilesProofs!FlushEffect, FilesAssumption
<1> QED
    BY <1>2, <1>3

\* Nothing leaves the files but by retention, by names that collide, by failed
\* calls of stdio and when the process ends.
LEMMA DiskStays ==
  ASSUME PipelineInv, [PipelineNext]_pipelineVars, ~Restart, orderly',
         ~(maxFiles_ > 0 /\ pc \in {"scan", "delete"}), ~(fp_ /\ failures' > failures)
  PROVE  \A c : OnDisk(current, rotated, c) => OnDisk(current', rotated', c)
<1>0. /\ current \in Seq(Nat) /\ Len(current) \in Nat /\ written \in Nat
      /\ pc \in {"scan", "delete"} => maxFiles_ > 0
    BY FilesTyped DEF PipelineInv
<1>1. CASE UNCHANGED <<current, rotated>>
    BY <1>1 DEF OnDisk
<1>2. CASE WriteLog /\ fp_
  <2>1. current' = Append(current, written') /\ rotated' = rotated /\ written' \in Nat
    <3>1. Files!Write /\ FilesProofs!IInv /\ ~(failures' > failures)
        BY <1>2 DEF PipelineInv, WriteLog
    <3>2. current' = Append(current, written')
        BY <1>2, <3>1, StdioWorks
    <3> QED
        BY <1>0, <3>1, <3>2 DEF Files!Write
  <2>2. /\ Len(current') = Len(current) + 1 /\ current' \in Seq(Nat)
        /\ \A i \in 1..Len(current) : current'[i] = current[i]
      BY <1>0, <2>1, AppendProperties
  <2>3. DOMAIN current = 1..Len(current) /\ DOMAIN current' = 1..(Len(current) + 1)
      BY <1>0, <2>2, LenProperties
  <2>4. \A i \in 1..Len(current) : i \in 1..(Len(current) + 1)
      BY <1>0
  <2> QED
      BY <2>1, <2>2, <2>3, <2>4 DEF OnDisk
<1>3. CASE Files!Rename
  <2>1. FilesProofs!Rename /\ FilesProofs!IInv /\ Files!RotatedName = FilesProofs!RotatedName
      BY <1>3, FilesAgree DEF PipelineInv
  <2>2. FilesProofs!RotatedName \notin DOMAIN rotated
      BY <2>1, FilesProofs!NewNameIsLast, FilesAssumption DEF FilesProofs!Given, FilesProofs!Renamed
  <2>3. CASE UNCHANGED <<current, rotated>>
      BY <2>3, <1>1
  <2>4. CASE rotated' = [m \in DOMAIN rotated \cup {Files!RotatedName} |->
                            IF m = Files!RotatedName THEN current ELSE rotated[m]]
    <3>1. /\ \A m \in DOMAIN rotated : m \in DOMAIN rotated' /\ rotated'[m] = rotated[m]
          /\ Files!RotatedName \in DOMAIN rotated' /\ rotated'[Files!RotatedName] = current
        BY <2>1, <2>2, <2>4
    <3> QED
        BY <3>1 DEF OnDisk
  <2> QED
      BY <1>3, <2>3, <2>4 DEF Files!Rename
<1>4. CASE Files!Flush \/ Files!Close
  <2>1. fp_ /\ rotated' = rotated
      BY <1>4, FilesTyped DEF PipelineInv, Files!Flush, Files!Close
  <2> QED
      BY <1>4, <1>1, <2>1, StdioWorks DEF PipelineInv
<1>5. CASE ~(WriteLog /\ fp_) /\ ~Files!Rename /\ ~Files!Flush /\ ~Files!Close
  <2>1. ~Files!Scan /\ ~Files!DeleteOldFile
      BY <1>0 DEF Files!Scan, Files!DeleteOldFile
  <2>2. UNCHANGED <<current, rotated>>
    <3>1. CASE CallStep \/ InMemoryStep \/ RecycleWritten \/ CloseDestroyed \/ UNCHANGED pipelineVars
        BY <3>1 DEF CallStep, InMemoryStep, RecycleWritten, CloseDestroyed, OnlyLogger,
           pipelineVars, loggerFileVars
    <3>2. CASE Construct \/ DestroyFile \/ FlushFile
        BY <3>2, <1>5 DEF Construct, Files!Construct, DestroyFile, Files!Destroy, FlushFile,
           loggerFileVars
    <3>3. CASE WriteLog
        BY <3>3, <1>5 DEF WriteLog, Files!Write
    <3>4. CASE FileWork
        BY <3>4, <1>5, <2>1 DEF FileWork, Files!CannotRead, Files!ScanDone, Files!Reopen
    <3> QED
        BY <3>1, <3>2, <3>3, <3>4 DEF PipelineNext
  <2> QED
      BY <2>2, <1>1
<1> QED
    BY <1>2, <1>3, <1>4, <1>5

\* What is not lost when the process lives on: a text that is written is on the
\* disk when there is a file.
LEMMA LivingKeeps ==
  ASSUME PipelineInv, PipelineInv', [PipelineNext]_pipelineVars, ~Restart, orderly',
         ~(maxFiles_ > 0 /\ pc \in {"scan", "delete"}), ~(WriteLog /\ ~fp_),
         ~(fp_ /\ failures' > failures),
         NEW n, Holds(current, rotated, chunks, file, accepted, n)
  PROVE  Holds(current', rotated', chunks', file', accepted', n)
<1>0. /\ IInv /\ IInv' /\ Joint /\ FilesProofs!IInv
      /\ \A c : OnDisk(current, rotated, c) => OnDisk(current', rotated', c)
      /\ Extends(accepted, accepted')
  <2>1. IInv /\ IInv' /\ Joint /\ FilesProofs!IInv
      BY DEF PipelineInv
  <2> QED
      BY <2>1, DiskStays, LoggerSteps, AcceptedGrows
<1>1. /\ Len(file) \in Nat /\ Len(accepted) \in Nat /\ Len(accepted') \in Nat
      /\ file \in Seq(Entries) /\ file' \in Seq(Entries)
      /\ Len(accepted) <= Len(accepted')
      /\ \A k \in 1..Len(accepted) : accepted'[k] = accepted[k]
      /\ Len(file') \in Nat /\ Len(file') <= Len(accepted')
      /\ \A k \in 1..Len(file') : file'[k] = accepted'[k]
    BY <1>0, LenProperties DEF IInv, Chained, ChainOf, Chain, Extends
<1>2. CASE WriteLog
  <2> DEFINE part == SubSeq(file', Len(file) + 1, Len(file'))
  <2>1. /\ chunks' = Append(chunks, part) /\ fp_ /\ written' = written + 1
        /\ current' = Append(current, written')
      BY <1>0, <1>2, StdioWorks DEF WriteLog, Files!Write
  <2>2. /\ current \in Seq(Nat) /\ written \in Nat /\ Len(chunks) = written
        /\ chunks \in Seq(Seq(Entries))
        /\ \A c : OnDisk(current, rotated, c) => c \in 1..written
      BY <1>0, FilesTyped DEF OnDisk, Joint
  <2>3. /\ part \in Seq(Entries)
        /\ Len(file) <= Len(file') =>
             /\ Len(part) = Len(file') - Len(file)
             /\ \A i \in 1..(Len(file') - Len(file)) : part[i] = file'[Len(file) + i]
      BY <1>1, PartTyped
  <2>4. /\ \A c \in 1..written : chunks'[c] = chunks[c]
        /\ chunks'[written + 1] = part
    <3> DEFINE S == Seq(Entries)
    <3>1. chunks \in Seq(S) /\ part \in S
        BY <2>2, <2>3
    <3> HIDE DEF S, part
    <3> QED
        BY <3>1, <2>1, <2>2, AppendProperties
  <2>5. OnDisk(current', rotated', written + 1)
    <3>1. /\ written' \in Nat /\ Append(current, written') \in Seq(Nat)
          /\ Len(Append(current, written')) = Len(current) + 1
          /\ Append(current, written')[Len(current) + 1] = written'
        BY <2>1, <2>2, AppendProperties
    <3>2. DOMAIN current' = 1..(Len(current) + 1) /\ Len(current) \in Nat
        BY <2>1, <2>2, <3>1, LenProperties
    <3>3. Len(current) + 1 \in DOMAIN current'
        BY <3>2
    <3>4. current'[Len(current) + 1] = written + 1
        BY <2>1, <3>1
    <3> QED
        BY <3>3, <3>4 DEF OnDisk
  <2> HIDE DEF part
  <2>6. ASSUME NEW c, OnDisk(current, rotated, c), Tells(chunks[c], n)
        PROVE  \E d : OnDisk(current', rotated', d) /\ Tells(chunks'[d], n)
    <3>1. OnDisk(current', rotated', c) /\ chunks'[c] = chunks[c]
        BY <1>0, <2>2, <2>4, <2>6
    <3> QED
        BY <3>1, <2>6
  <2>7. ASSUME NEW k \in (Len(file) + 1)..Len(accepted),
               accepted[k].kind = "message", accepted[k].n = n
        PROVE  Holds(current', rotated', chunks', file', accepted', n)
    <3>1. k \in 1..Len(accepted) /\ accepted'[k] = accepted[k]
        BY <1>1
    <3>2. CASE k > Len(file')
      <4>1. k \in (Len(file') + 1)..Len(accepted')
          BY <1>1, <3>1, <3>2
      <4> QED
          BY <2>7, <3>1, <4>1 DEF Holds, Waiting
    <3>3. CASE ~(k > Len(file'))
      <4> DEFINE i == k - Len(file)
      <4>1. /\ Len(file) <= Len(file') /\ i \in 1..(Len(file') - Len(file))
            /\ Len(file) + i = k /\ k \in 1..Len(file')
          BY <1>1, <3>3
      <4>2. part[i] = accepted[k]
          BY <1>1, <2>3, <3>1, <4>1
      <4>3. i \in DOMAIN part
          BY <2>3, <4>1, LenProperties
      <4>4. Tells(chunks'[written + 1], n)
          BY <2>4, <2>7, <4>2, <4>3 DEF Tells
      <4> QED
          BY <2>5, <4>4 DEF Holds
    <3> QED
        BY <3>2, <3>3
  <2> QED
      BY <2>6, <2>7 DEF Holds, Waiting
<1>3. CASE ~WriteLog
  <2>1. chunks' = chunks /\ file' = file
    <3>1. CASE CallStep
        BY <3>1 DEF CallStep, OnlyLogger, Calls, Output, Flush, StartLogging, SpuriousWake, Expire,
           SetStop, ThreadVars
    <3>2. CASE InMemoryStep
        BY <3>2 DEF InMemoryStep, OnlyLogger, ThreadInMemory, DestructorInMemory, LoopTest, Lock,
           Block, Wait, TakeBuffersOnTimeout, TakeBuffers, NotifyAll, Join, Collect, ThreadVars
    <3>3. CASE RecycleWritten \/ CloseDestroyed \/ FlushFile \/ UNCHANGED pipelineVars
        BY <3>3 DEF RecycleWritten, Recycle, CloseDestroyed, Close, FlushFile, Fflush, OnlyLogger,
           pipelineVars, vars
    <3>4. CASE Construct \/ FileWork \/ DestroyFile
        BY <3>4 DEF Construct, FileWork, DestroyFile, vars
    <3> QED
        BY <1>3, <3>1, <3>2, <3>3, <3>4 DEF PipelineNext
  <2>2. \A k \in (Len(file) + 1)..Len(accepted) :
          k \in (Len(file) + 1)..Len(accepted') /\ accepted'[k] = accepted[k]
      BY <1>1
  <2>3. Waiting(file, accepted, n) => Waiting(file', accepted', n)
      BY <2>1, <2>2 DEF Waiting
  <2> QED
      BY <1>0, <2>1, <2>3 DEF Holds
<1> QED
    BY <1>2, <1>3

\* What a chunk is does not change.
LEMMA ChunksStand ==
  ASSUME Joint, [PipelineNext]_pipelineVars
  PROVE  \A c \in 1..written : chunks'[c] = chunks[c]
<1>1. chunks \in Seq(Seq(Entries)) /\ Len(chunks) = written
    BY DEF Joint
<1>2. CASE WriteLog
  <2>1. chunks' = Append(chunks, SubSeq(file', Len(file) + 1, Len(file')))
      BY <1>2 DEF WriteLog
  <2> QED
      BY <1>1, <2>1
<1>3. CASE ~WriteLog
  <2>1. chunks' = chunks
      BY <1>3 DEF PipelineNext, CallStep, InMemoryStep, RecycleWritten, CloseDestroyed, OnlyLogger,
         Construct, FileWork, FlushFile, DestroyFile, Restart, pipelineVars
  <2> QED
      BY <2>1
<1> QED
    BY <1>2, <1>3

\* Retention and renames are over while the file is open.
LEMMA RenamedStay ==
  ASSUME FilesProofs!IInv, [PipelineNext]_pipelineVars, fp_,
         ~(maxFiles_ > 0 /\ pc \in {"scan", "delete"})
  PROVE  rotated' = rotated
<1>1. /\ pc \in {"scan", "delete"} => maxFiles_ > 0
      /\ pc \notin {"none", "rename", "delete", "reopen"}
    BY FilesTyped
<1>2. CASE CallStep \/ InMemoryStep \/ RecycleWritten \/ CloseDestroyed \/ UNCHANGED pipelineVars
    BY <1>2 DEF CallStep, InMemoryStep, RecycleWritten, CloseDestroyed, OnlyLogger,
       pipelineVars, loggerFileVars
<1>3. CASE Construct \/ DestroyFile \/ FlushFile \/ WriteLog \/ Restart
    BY <1>3 DEF Construct, Files!Construct, DestroyFile, Files!Destroy, FlushFile, Files!Flush,
       WriteLog, Files!Write, Restart, Files!Restart, loggerFileVars
<1>4. CASE FileWork
    BY <1>1, <1>4 DEF FileWork, Files!CannotRead, Files!Scan, Files!ScanDone, Files!Close,
       Files!Rename, Files!DeleteOldFile, Files!Reopen
<1> QED
    BY <1>2, <1>3, <1>4 DEF PipelineNext

\* What stdio has passed on stays where it is, unless the renamed files change.
LEMMA DurableKeeps ==
  ASSUME PipelineInv, PipelineInv', [PipelineNext]_pipelineVars, rotated' = rotated,
         NEW n \in Read(Files!Durable)
  PROVE  Holds(current', rotated', chunks', file', accepted', n)
<1>0. Joint /\ FilesProofs!IInv
    BY DEF PipelineInv
<1>1. PICK c \in Files!Durable : Tells(chunks[c], n)
    BY MessagesTold DEF Read
<1>2. Files!Durable = FilesProofs!Durable
    BY DEF Files!Durable, FilesProofs!Durable, Files!InCurrent, FilesProofs!InCurrent,
       Files!InFile, FilesProofs!InFile, Files!Passed, FilesProofs!Passed
<1>3. c \in FilesProofs!Durable'
  <2>1. [FilesProofs!Next]_(FilesProofs!vars)
      BY FilesStep, FilesAgree
  <2>2. CASE c \in FilesProofs!InCurrent
      BY <1>0, <2>1, <2>2, FilesProofs!CurrentIsKept, FilesAssumption DEF FilesProofs!InCurrent
  <2>3. CASE \E m \in DOMAIN rotated : c \in FilesProofs!InFile(m)
      BY <1>0, <2>3 DEF FilesProofs!Durable, FilesProofs!InFile
  <2> QED
      BY <1>1, <1>2, <2>2, <2>3 DEF FilesProofs!Durable
<1>4. OnDisk(current', rotated', c)
  <2>1. current' \in Seq(Nat) /\ Len(current') \in Nat /\ unflushed' \in 0..Len(current')
      BY LenProperties DEF PipelineInv, FilesProofs!IInv, FilesProofs!TypeOK
  <2>2. /\ DOMAIN current' = 1..Len(current')
        /\ \A i \in 1..(Len(current') - unflushed') : i \in 1..Len(current')
      BY <2>1, LenProperties
  <2> QED
      BY <1>3, <2>2 DEF OnDisk, FilesProofs!Durable, FilesProofs!InCurrent, FilesProofs!InFile,
         FilesProofs!Passed
<1>5. c \in 1..written
  <2>1. /\ current \in Seq(Nat) /\ Len(current) \in Nat /\ unflushed \in 0..Len(current)
        /\ \A i \in DOMAIN current : current[i] \in 1..written
        /\ \A m \in DOMAIN rotated : \A i \in DOMAIN rotated[m] : rotated[m][i] \in 1..written
      BY <1>0, FilesTyped
  <2>2. \A i \in 1..(Len(current) - unflushed) : i \in DOMAIN current
      BY <2>1, LenProperties
  <2> QED
      BY <1>1, <1>2, <2>1, <2>2 DEF FilesProofs!Durable, FilesProofs!InCurrent,
         FilesProofs!InFile, FilesProofs!Passed
<1>6. chunks'[c] = chunks[c]
    BY <1>0, <1>5, ChunksStand
<1> QED
    BY <1>1, <1>4, <1>6 DEF Holds

\* A process that ends when its destructor has returned loses nothing; another
\* one only what has not left stdio.
LEMMA EndingKeeps ==
  ASSUME PipelineInv, PipelineInv', Restart, NEW n,
         n \in Read(Files!Durable) \/ (dtor = "done" /\ n \in Held)
  PROVE  Holds(current', rotated', chunks', file', accepted', n)
<1>0. /\ IInv /\ Joint /\ FilesProofs!IInv
      /\ chunks' = chunks /\ rotated' = rotated
    BY DEF PipelineInv, Restart, Files!Restart
<1>1. CASE n \in Read(Files!Durable)
    BY <1>0, <1>1, DurableKeeps DEF PipelineNext
<1>2. CASE dtor = "done" /\ n \in Held
  <2>1. current' = current
    <3>1. /\ current \in Seq(Nat) /\ Len(current) \in Nat /\ unflushed = 0
        BY <1>0, <1>2, FilesTyped DEF Joint
    <3>2. PICK k \in Files!Passed..Len(current) : current' = SubSeq(current, 1, k)
        BY DEF Restart, Files!Restart
    <3>3. k = Len(current)
        BY <3>1, <3>2 DEF Files!Passed
    <3>4. SubSeq(current, 1, Len(current)) = current
        BY <3>1, SubSeqFull
    <3> QED
        BY <3>2, <3>3, <3>4
  <2>2. ~Waiting(file, accepted, n)
    <3>1. file = accepted /\ Len(accepted) \in Nat
        BY <1>0, <1>2, AllWritten, LenProperties DEF IInv, Chained, ChainOf
    <3>2. (Len(accepted) + 1)..Len(accepted) = {}
        BY <3>1
    <3> QED
        BY <3>1, <3>2 DEF Waiting
  <2>3. Holds(current, rotated, chunks, file, accepted, n)
      BY <1>0, <1>2, HeldIs
  <2> QED
      BY <1>0, <2>1, <2>2, <2>3 DEF Holds
<1> QED
    BY <1>1, <1>2

\* Accepted messages are lost in the five ways that LossExplained names.
THEOREM LossIsExplained == PipelineSpec => LossExplained
<1>1. ASSUME PipelineInv, PipelineInv', [PipelineNext]_pipelineVars,
             NEW n \in Held \ Held', orderly', ~(maxFiles_ > 0 /\ pc \in {"scan", "delete"})
      PROVE  \/ restarts' > restarts /\ dtor # "done" /\ n \notin Read(Files!Durable)
             \/ ~fp_ /\ pc \in {"write", "ready"} /\ failures > before.failures
             \/ fp_ /\ failures' > failures /\ n \notin Read(Files!Durable)
  <2>0. IInv /\ IInv' /\ Joint /\ FilesProofs!IInv
      BY <1>1 DEF PipelineInv
  <2>1. /\ Holds(current, rotated, chunks, file, accepted, n)
        /\ ~Holds(current', rotated', chunks', file', accepted', n)
      BY <1>1, <2>0, HeldIs
  <2>2. CASE Restart
    <3>1. restarts' = restarts + 1 /\ restarts \in Nat
        BY <2>0, <2>2, FilesTyped DEF Restart, Files!Restart
    <3>2. n \notin Read(Files!Durable) /\ dtor # "done"
        BY <1>1, <2>1, <2>2, EndingKeeps
    <3> QED
        BY <3>1, <3>2
  <2>4. CASE ~Restart /\ fp_ /\ failures' > failures
    <3>1. rotated' = rotated
        BY <1>1, <2>0, <2>4, RenamedStay
    <3>2. n \notin Read(Files!Durable)
        BY <1>1, <2>1, <3>1, DurableKeeps
    <3> QED
        BY <2>4, <3>2
  <2>3. CASE ~Restart /\ ~(fp_ /\ failures' > failures)
    <3>1. WriteLog /\ ~fp_
        BY <1>1, <2>1, <2>3, LivingKeeps
    <3>2. pc \in {"write", "ready"}
        BY <3>1 DEF WriteLog, Files!Write
    <3> QED
        BY <2>0, <3>1, <3>2 DEF Joint
  <2> QED
      BY <2>2, <2>3, <2>4
<1>2. PipelineInv /\ PipelineInv' /\ [PipelineNext]_pipelineVars =>
        [\A n \in Held \ Held' :
           \/ restarts' > restarts /\ dtor # "done" /\ n \notin Read(Files!Durable)
           \/ ~fp_ /\ pc \in {"write", "ready"} /\ failures > before.failures
           \/ fp_ /\ failures' > failures /\ n \notin Read(Files!Durable)
           \/ maxFiles_ > 0 /\ pc \in {"scan", "delete"}
           \/ ~orderly']_pipelineVars
    BY <1>1
<1> QED
    BY <1>2, PipelineInvariantHolds, PTL DEF PipelineSpec, LossExplained

\* Whatever process is running, over whatever earlier ones have left, what is
\* proved of one logger holds of it: memory is bounded, buffers have one role,
\* files and buffers hold what was accepted, and a destructor that has returned
\* has written it all.
THEOREM LoggerSafeThroughRestarts ==
  PipelineSpec =>
    [](TypeOK /\ MemoryBounded /\ BuffersDistinct /\ BuffersHoldTheRest /\ DestructorWritesAll)
<1>1. IInv => TypeOK /\ MemoryBounded
    BY DEF IInv, StringsBounded, RoomLeft, Gathering, MemoryBounded
<1>2. IInv => DestructorWritesAll
    BY AllWritten DEF DestructorWritesAll
<1> QED
    BY <1>1, <1>2, RolesApart, ChainHoldsTheRest, PipelineInvariantHolds, PTL DEF PipelineInv

\* And what is proved of a LoggerFile holds of the one that the log thread and
\* the destructor write to.
THEOREM FilesSafeInPipeline ==
  PipelineSpec =>
    [](FilesProofs!NameOrder /\ FilesProofs!RetentionBound) /\ FilesProofs!OnlyRetentionLoses
<1>1. PipelineSpec => FilesProofs!Spec
    BY LoggerFileImplemented, FilesSpecsAgree
<1> QED
    BY <1>1, FilesProofs!NamesInOrder, FilesProofs!RetentionHolds,
       FilesProofs!OnlyRetentionLosesChunks, FilesAssumption, PTL

-----------------------------------------------------------------------------
(* What texts tell of the calls *)

\* An entry of s tells of call n; each notice has its message behind it; and
\* what an entry tells of comes before what the next ones do.
TellsOf(s, n) == \E k \in 1..Len(s) : n \in ToldBy(s, k)
Closed(s) ==
  \A k \in 1..Len(s) : s[k].kind = "message" \/ (k < Len(s) /\ s[k + 1].kind = "message")
Ranged(s) == \A i, j \in 1..Len(s) : i < j => AllBefore(ToldBy(s, i), ToldBy(s, j))

\* s tells of the calls from u + 1 to v, in their order, each once.
Account(s, u, v) == Closed(s) /\ Ranged(s) /\ \A n : TellsOf(s, n) <=> n \in (u + 1)..v

\* s is p and then r.
Halves(s, p, r) ==
  /\ s \in Seq(Entries) /\ p \in Seq(Entries) /\ r \in Seq(Entries)
  /\ Len(s) = Len(p) + Len(r)
  /\ \A k \in 1..Len(p) : p[k] = s[k]
  /\ \A k \in 1..Len(r) : r[k] = s[Len(p) + k]

\* The halves tell of the same as the whole.
LEMMA HalvesTell ==
  ASSUME NEW s, NEW p, NEW r, Halves(s, p, r), Closed(p), Closed(r) \/ Closed(s)
  PROVE  /\ Len(p) \in Nat /\ Len(r) \in Nat /\ Len(s) = Len(p) + Len(r)
         /\ \A k \in 1..Len(p) : ToldBy(p, k) = ToldBy(s, k)
         /\ \A k \in 1..Len(r) : ToldBy(r, k) = ToldBy(s, Len(p) + k)
         /\ \A k \in 1..Len(s) : ToldBy(s, k) \in SUBSET Int
         /\ Closed(s) /\ Closed(r)
<1>1. Len(p) \in Nat /\ Len(r) \in Nat /\ Len(s) = Len(p) + Len(r)
    BY LenProperties DEF Halves
<1> DEFINE a == Len(p)
           b == Len(r)
<1>2. /\ \A k \in 1..a : p[k] = s[k]
      /\ \A k \in 1..b : r[k] = s[a + k]
    BY DEF Halves
<1>3. \A k \in 1..(a + b) : s[k] \in Entries
    BY <1>1, ElementOfSeq DEF Halves
<1>4. \A k \in 1..(a + b) : s[k].n \in Nat /\ s[k].kind \in {"message", "lost"}
    BY <1>3, EntryParts
<1>5. \A k \in 1..a : p[k].kind = "message" \/ (k < a /\ p[k + 1].kind = "message")
    BY DEF Closed
<1>6. \/ \A k \in 1..b : r[k].kind = "message" \/ (k < b /\ r[k + 1].kind = "message")
      \/ \A k \in 1..(a + b) : s[k].kind = "message" \/ (k < a + b /\ s[k + 1].kind = "message")
    BY <1>1 DEF Closed
<1> HIDE DEF a, b
<1>t. a \in Nat /\ b \in Nat
    BY <1>1 DEF a, b
<1>7. \A k \in 1..b : r[k].kind = "message" \/ (k < b /\ r[k + 1].kind = "message")
  <2> SUFFICES ASSUME NEW k \in 1..b,
                      \A i \in 1..(a + b) :
                        s[i].kind = "message" \/ (i < a + b /\ s[i + 1].kind = "message")
               PROVE  r[k].kind = "message" \/ (k < b /\ r[k + 1].kind = "message")
      BY <1>6
  <2>1. /\ a + k \in 1..(a + b)
        /\ a + k < a + b => k < b /\ k + 1 \in 1..b /\ (a + k) + 1 = a + (k + 1)
      BY <1>t
  <2>2. s[a + k].kind = "message" \/ (a + k < a + b /\ s[(a + k) + 1].kind = "message")
      BY <2>1
  <2> QED
      BY <2>1, <2>2, <1>2
<1>8. ASSUME NEW k \in 1..(a + b)
      PROVE  s[k].kind = "message" \/ (k < a + b /\ s[k + 1].kind = "message")
  <2>1. CASE k <= a
    <3>1. k \in 1..a /\ k < a + b + 1 /\ (k < a => k + 1 \in 1..a /\ k < a + b)
        BY <2>1, <1>t
    <3> QED
        BY <3>1, <1>2, <1>5
  <2>2. CASE ~(k <= a)
    <3> DEFINE i == k - a
    <3>1. i \in 1..b /\ k = a + i /\ (i < b => i + 1 \in 1..b /\ k < a + b /\ k + 1 = a + (i + 1))
        BY <2>2, <1>t
    <3> HIDE DEF i
    <3>2. r[i].kind = "message" \/ (i < b /\ r[i + 1].kind = "message")
        BY <3>1, <1>7
    <3> QED
        BY <3>1, <3>2, <1>2
  <2> QED
      BY <2>1, <2>2
<1>9. ASSUME NEW k \in 1..a PROVE ToldBy(p, k) = ToldBy(s, k)
  <2>1. p[k].kind # "message" => k + 1 \in 1..a
      BY <1>5, <1>t
  <2> QED
      BY <2>1, <1>2 DEF ToldBy
<1>a. ASSUME NEW k \in 1..b PROVE ToldBy(r, k) = ToldBy(s, a + k)
  <2>1. r[k].kind # "message" => k + 1 \in 1..b /\ (a + k) + 1 = a + (k + 1)
      BY <1>7, <1>t
  <2> QED
      BY <2>1, <1>2 DEF ToldBy
<1>b. ASSUME NEW k \in 1..(a + b) PROVE ToldBy(s, k) \in SUBSET Int
  <2>1. s[k].n \in Nat
      BY <1>4
  <2>2. CASE s[k].kind = "message"
      BY <2>1, <2>2 DEF ToldBy
  <2>3. CASE s[k].kind # "message"
      BY <2>3 DEF ToldBy
  <2> QED
      BY <2>2, <2>3
<1> QED
    BY <1>1, <1>7, <1>8, <1>9, <1>a, <1>b DEF Closed, a, b

\* A text is cut behind a message into two that tell of the same calls.
LEMMA AccountCut ==
  ASSUME NEW s, NEW p, NEW r, Halves(s, p, r), Closed(p),
         NEW u \in Nat, NEW v \in Nat, u <= v, Account(s, u, v)
  PROVE  \E x \in Nat : u <= x /\ x <= v /\ Account(p, u, x) /\ Account(r, x, v)
<1> DEFINE a == Len(p)
           b == Len(r)
           x == IF a = 0 THEN u ELSE p[a].n
<1>1. /\ a \in Nat /\ b \in Nat /\ Len(s) = a + b
      /\ \A k \in 1..a : ToldBy(p, k) = ToldBy(s, k)
      /\ \A k \in 1..b : ToldBy(r, k) = ToldBy(s, a + k)
      /\ \A k \in 1..(a + b) : ToldBy(s, k) \in SUBSET Int
      /\ Closed(r)
    BY HalvesTell DEF Account
<1>2. \A i, j \in 1..(a + b) : i < j => \A m \in ToldBy(s, i), n \in ToldBy(s, j) : m < n
    BY <1>1 DEF Account, Ranged, AllBefore
<1>3. \A n : (\E k \in 1..(a + b) : n \in ToldBy(s, k)) <=> n \in (u + 1)..v
    BY <1>1 DEF Account, TellsOf
<1>4. a # 0 => ToldBy(s, a) = {x}
  <2> HAVE a # 0
  <2>1. a \in 1..a /\ ~(a < a)
      BY <1>1
  <2>2. p[a].kind = "message"
      BY <2>1 DEF Closed
  <2>3. ToldBy(p, a) = {p[a].n}
      BY <2>2 DEF ToldBy
  <2> QED
      BY <2>1, <2>3, <1>1
<1>x. a = 0 => x = u
    OBVIOUS
<1>d. /\ Len(p) = a /\ Len(r) = b /\ Len(s) = a + b
    BY <1>1
<1> HIDE DEF a, b, x
<1>5. x \in Nat /\ u <= x /\ x <= v
  <2>1. CASE a = 0
      BY <2>1, <1>x
  <2>2. CASE a # 0
    <3>1. a \in 1..(a + b) /\ x \in ToldBy(s, a)
        BY <2>2, <1>1, <1>4
    <3>2. x \in (u + 1)..v
        BY <3>1, <1>3
    <3> QED
        BY <3>2
  <2> QED
      BY <2>1, <2>2
<1>6. ASSUME NEW k \in 1..a, NEW n \in ToldBy(s, k) PROVE n \in (u + 1)..x
  <2>1. k \in 1..(a + b) /\ a \in 1..(a + b) /\ a # 0 /\ (k = a \/ k < a)
      BY <1>1
  <2>2. n \in (u + 1)..v
      BY <2>1, <1>3
  <2>3. n = x \/ n < x
      BY <2>1, <1>2, <1>4
  <2> QED
      BY <2>2, <2>3, <1>5
<1>7. ASSUME NEW k \in 1..b, NEW n \in ToldBy(s, a + k) PROVE n \in (x + 1)..v
  <2>1. a + k \in 1..(a + b) /\ (a # 0 => a \in 1..(a + b) /\ a < a + k)
      BY <1>1
  <2>2. n \in (u + 1)..v
      BY <2>1, <1>3
  <2>3. a # 0 => x < n
      BY <2>1, <1>2, <1>4
  <2> QED
      BY <2>2, <2>3, <1>5, <1>x
<1>8. \A n : TellsOf(p, n) <=> n \in (u + 1)..x
  <2>1. ASSUME NEW n, NEW k \in 1..a, n \in ToldBy(p, k) PROVE n \in (u + 1)..x
      BY <2>1, <1>1, <1>6
  <2>2. ASSUME NEW n \in (u + 1)..x PROVE \E k \in 1..a : n \in ToldBy(p, k)
    <3>1. n \in (u + 1)..v /\ ~(x < n)
        BY <1>5
    <3>2. PICK k \in 1..(a + b) : n \in ToldBy(s, k)
        BY <3>1, <1>3
    <3>3. ~(k > a)
      <4> SUFFICES ASSUME k > a PROVE FALSE
          OBVIOUS
      <4>1. k - a \in 1..b /\ a + (k - a) = k
          BY <1>1
      <4>2. n \in (x + 1)..v
          BY <4>1, <3>2, <1>7
      <4> QED
          BY <4>2, <3>1, <1>5
    <3>4. k \in 1..a
        BY <3>3, <1>1
    <3> QED
        BY <3>2, <3>4, <1>1
  <2> QED
      BY <2>1, <2>2, <1>d DEF TellsOf
<1>9. \A n : TellsOf(r, n) <=> n \in (x + 1)..v
  <2>1. ASSUME NEW n, NEW k \in 1..b, n \in ToldBy(r, k) PROVE n \in (x + 1)..v
      BY <2>1, <1>1, <1>7
  <2>2. ASSUME NEW n \in (x + 1)..v PROVE \E k \in 1..b : n \in ToldBy(r, k)
    <3>1. n \in (u + 1)..v /\ ~(n <= x)
        BY <1>5
    <3>2. PICK k \in 1..(a + b) : n \in ToldBy(s, k)
        BY <3>1, <1>3
    <3>3. ~(k <= a)
      <4> SUFFICES ASSUME k <= a PROVE FALSE
          OBVIOUS
      <4>1. k \in 1..a
          BY <1>1
      <4>2. n \in (u + 1)..x
          BY <4>1, <3>2, <1>6
      <4> QED
          BY <4>2, <3>1, <1>5
    <3>4. k - a \in 1..b /\ a + (k - a) = k
        BY <3>3, <1>1
    <3> QED
        BY <3>2, <3>4, <1>1
  <2> QED
      BY <2>1, <2>2, <1>d DEF TellsOf
<1>a. Ranged(p)
  <2>1. \A i \in 1..a : i \in 1..(a + b)
      BY <1>1
  <2> QED
      BY <2>1, <1>1, <1>2, <1>d DEF Ranged, AllBefore
<1>b. Ranged(r)
  <2>1. \A i, j \in 1..b : a + i \in 1..(a + b) /\ (i < j => a + i < a + j)
      BY <1>1
  <2> QED
      BY <2>1, <1>1, <1>2, <1>d DEF Ranged, AllBefore
<1> QED
    BY <1>1, <1>5, <1>8, <1>9, <1>a, <1>b DEF Account

\* Two accounts, the second going on where the first ends, are one.
LEMMA AccountJoined ==
  ASSUME NEW s, NEW p, NEW r, Halves(s, p, r),
         NEW u \in Nat, NEW x \in Nat, NEW v \in Nat, u <= x, x <= v,
         Account(p, u, x), Account(r, x, v)
  PROVE  Account(s, u, v)
<1> DEFINE a == Len(p)
           b == Len(r)
<1>1. /\ a \in Nat /\ b \in Nat /\ Len(s) = a + b
      /\ \A k \in 1..a : ToldBy(p, k) = ToldBy(s, k)
      /\ \A k \in 1..b : ToldBy(r, k) = ToldBy(s, a + k)
      /\ Closed(s)
    BY HalvesTell DEF Account
<1>2. /\ \A i, j \in 1..a : i < j => \A m \in ToldBy(p, i), n \in ToldBy(p, j) : m < n
      /\ \A i, j \in 1..b : i < j => \A m \in ToldBy(r, i), n \in ToldBy(r, j) : m < n
    BY DEF Account, Ranged, AllBefore
<1>3. /\ \A n : (\E k \in 1..a : n \in ToldBy(p, k)) <=> n \in (u + 1)..x
      /\ \A n : (\E k \in 1..b : n \in ToldBy(r, k)) <=> n \in (x + 1)..v
    BY DEF Account, TellsOf
<1>d. Len(s) = a + b
    BY <1>1
<1> HIDE DEF a, b
<1>4. ASSUME NEW k \in 1..(a + b), k > a PROVE k - a \in 1..b /\ a + (k - a) = k
    BY <1>1, <1>4
<1>5. \A n : TellsOf(s, n) <=> n \in (u + 1)..v
  <2>1. ASSUME NEW n, NEW k \in 1..(a + b), n \in ToldBy(s, k) PROVE n \in (u + 1)..v
    <3>1. CASE k > a
      <4>1. n \in (x + 1)..v
          BY <2>1, <3>1, <1>1, <1>3, <1>4
      <4> QED
          BY <4>1
    <3>2. CASE ~(k > a)
      <4>1. k \in 1..a
          BY <3>2, <1>1
      <4>2. n \in (u + 1)..x
          BY <4>1, <2>1, <1>1, <1>3
      <4> QED
          BY <4>2
    <3> QED
        BY <3>1, <3>2
  <2>2. ASSUME NEW n \in (u + 1)..v PROVE \E k \in 1..(a + b) : n \in ToldBy(s, k)
    <3>1. CASE n <= x
      <4>1. n \in (u + 1)..x
          BY <3>1
      <4>2. PICK k \in 1..a : n \in ToldBy(p, k)
          BY <4>1, <1>3
      <4>3. k \in 1..(a + b)
          BY <1>1
      <4> QED
          BY <4>2, <4>3, <1>1
    <3>2. CASE ~(n <= x)
      <4>1. n \in (x + 1)..v
          BY <3>2
      <4>2. PICK k \in 1..b : n \in ToldBy(r, k)
          BY <4>1, <1>3
      <4>3. a + k \in 1..(a + b)
          BY <1>1
      <4> QED
          BY <4>2, <4>3, <1>1
    <3> QED
        BY <3>1, <3>2
  <2> QED
      BY <2>1, <2>2, <1>d DEF TellsOf
<1>6. ASSUME NEW i \in 1..(a + b), NEW j \in 1..(a + b), i < j,
             NEW m \in ToldBy(s, i), NEW n \in ToldBy(s, j)
      PROVE  m < n
  <2>1. CASE j <= a
    <3>1. i \in 1..a /\ j \in 1..a
        BY <2>1, <1>1, <1>6
    <3> QED
        BY <3>1, <1>1, <1>2, <1>6
  <2>2. CASE i > a
    <3>1. /\ i - a \in 1..b /\ a + (i - a) = i /\ j - a \in 1..b /\ a + (j - a) = j
          /\ i - a < j - a
        BY <2>2, <1>1, <1>6
    <3>2. m \in ToldBy(r, i - a) /\ n \in ToldBy(r, j - a)
        BY <3>1, <1>1
    <3> QED
        BY <3>1, <3>2, <1>2
  <2>3. CASE i <= a /\ j > a
    <3>1. i \in 1..a /\ j - a \in 1..b /\ a + (j - a) = j
        BY <2>3, <1>1
    <3>2. m \in (u + 1)..x
        BY <3>1, <1>1, <1>3
    <3>3. n \in (x + 1)..v
        BY <3>1, <1>1, <1>3
    <3> QED
        BY <3>2, <3>3
  <2> QED
      BY <2>1, <2>2, <2>3, <1>1
<1>7. Ranged(s)
    BY <1>6, <1>d DEF Ranged, AllBefore
<1> QED
    BY <1>1, <1>5, <1>7 DEF Account

\* Nothing tells of nothing.
LEMMA EmptyAccount == ASSUME NEW u \in Nat PROVE Account(<<>>, u, u) /\ Closed(<<>>)
<1>1. 1..Len(<<>>) = {} /\ (u + 1)..u = {}
    OBVIOUS
<1> QED
    BY <1>1 DEF Account, Closed, Ranged, TellsOf

\* A concatenation is its two halves.
LEMMA ConcatHalves ==
  ASSUME NEW p, NEW r, p \in Seq(Entries), r \in Seq(Entries) PROVE Halves(p \o r, p, r)
<1>1. /\ Len(p) \in Nat /\ Len(r) \in Nat
      /\ p \o r \in Seq(Entries) /\ Len(p \o r) = Len(p) + Len(r)
      /\ \A k \in 1..Len(p) : (p \o r)[k] = p[k]
      /\ \A k \in 1..(Len(p) + Len(r)) : k > Len(p) => (p \o r)[k] = r[k - Len(p)]
    BY Joined
<1>2. ASSUME NEW k \in 1..Len(r) PROVE r[k] = (p \o r)[Len(p) + k]
  <2>1. /\ Len(p) + k \in 1..(Len(p) + Len(r)) /\ Len(p) + k > Len(p)
        /\ (Len(p) + k) - Len(p) = k
      BY <1>1
  <2> QED
      BY <2>1, <1>1
<1> QED
    BY <1>1, <1>2 DEF Halves

\* A message tells of its call, a notice and its message of those before it too.
LEMMA NewTextAccount ==
  ASSUME IInv, lostCounter_ <= calls
  PROVE  /\ Account(LostNotice \o <<Message(calls + 1)>>, calls - lostCounter_, calls + 1)
         /\ LostNotice \o <<Message(calls + 1)>> \in Seq(Entries)
<1> DEFINE t == LostNotice \o <<Message(calls + 1)>>
<1>1. /\ calls \in Nat /\ lostCounter_ \in Nat /\ calls + 1 \in Nat
      /\ t \in Seq(Entries)
    BY TextTyped DEF IInv, TypeOK
<1>2. CASE lostCounter_ > 0
  <2>1. /\ LostNotice = <<Notice(lostCounter_)>> /\ Len(LostNotice) = 1
        /\ Len(<<Message(calls + 1)>>) = 1
      BY <1>2 DEF LostNotice
  <2>h. Halves(t, LostNotice, <<Message(calls + 1)>>)
      BY TextTyped, ConcatHalves
  <2>e. Len(t) = 2 /\ t[1] = LostNotice[1] /\ t[2] = <<Message(calls + 1)>>[1]
    <3> HIDE DEF t
    <3> QED
        BY <2>1, <2>h DEF Halves
  <2>2. /\ Len(t) = 2
        /\ t[1].kind = "lost" /\ t[1].n = lostCounter_
        /\ t[2].kind = "message" /\ t[2].n = calls + 1
    <3> HIDE DEF t
    <3> QED
        BY <2>1, <2>e DEF Notice, Message
  <2> HIDE DEF t
  <2>3. /\ ToldBy(t, 1) = ((calls + 1) - lostCounter_)..((calls + 1) - 1)
        /\ ToldBy(t, 2) = {calls + 1}
      BY <2>2 DEF ToldBy
  <2>4. 1..2 = {1, 2} /\ (calls + 1) - 1 = calls
      BY <1>1
  <2>5. Closed(t)
      BY <2>2, <2>4 DEF Closed
  <2>6. Ranged(t)
    <3>1. \A m \in ToldBy(t, 1), n \in ToldBy(t, 2) : m < n
        BY <2>3, <1>1
    <3>2. \A i, j \in 1..2 : i < j => i = 1 /\ j = 2
        OBVIOUS
    <3> QED
        BY <3>1, <3>2, <2>2 DEF Ranged, AllBefore
  <2>7. ASSUME NEW n PROVE TellsOf(t, n) <=> n \in ((calls - lostCounter_) + 1)..(calls + 1)
    <3>1. TellsOf(t, n) <=> n \in ToldBy(t, 1) \/ n \in ToldBy(t, 2)
        BY <2>2, <2>4 DEF TellsOf
    <3>2. n \in ((calls + 1) - lostCounter_)..calls \/ n = calls + 1
            <=> n \in ((calls - lostCounter_) + 1)..(calls + 1)
        BY <1>1
    <3> QED
        BY <3>1, <3>2, <2>3, <2>4
  <2> QED
      BY <1>1, <2>5, <2>6, <2>7 DEF Account, t
<1>3. CASE ~(lostCounter_ > 0)
  <2>1. lostCounter_ = 0 /\ t = <<Message(calls + 1)>>
    <3>1. LostNotice = <<>>
        BY <1>3 DEF LostNotice
    <3>2. <<Message(calls + 1)>> \in Seq(Entries)
        BY TextTyped
    <3> QED
        BY <3>1, <3>2, <1>1, <1>3, ConcatEmptySeq
  <2>2. Len(t) = 1 /\ t[1].kind = "message" /\ t[1].n = calls + 1
      BY <2>1 DEF Message
  <2> HIDE DEF t
  <2>3. ToldBy(t, 1) = {calls + 1} /\ 1..1 = {1}
      BY <2>2 DEF ToldBy
  <2>4. Closed(t) /\ Ranged(t)
      BY <2>2, <2>3 DEF Closed, Ranged
  <2>5. ASSUME NEW n PROVE TellsOf(t, n) <=> n \in ((calls - lostCounter_) + 1)..(calls + 1)
    <3>1. TellsOf(t, n) <=> n = calls + 1
        BY <2>2, <2>3 DEF TellsOf
    <3>2. n = calls + 1 <=> n \in ((calls - lostCounter_) + 1)..(calls + 1)
        BY <1>1, <2>1
    <3> QED
        BY <3>1, <3>2
  <2> QED
      BY <1>1, <2>4, <2>5 DEF Account, t
<1> QED
    BY <1>1, <1>2, <1>3

-----------------------------------------------------------------------------
(* What the chunks tell of *)

\* A notice is in the buffer that has its message.
TextsClosed == \A b \in Buffers : Closed(str[b].text)

\* A buffer that text is appended to, and one that is cleared.
LEMMA TextsClosedStep ==
  ASSUME IInv, TextsClosed, lostCounter_ <= calls, [PipelineNext]_pipelineVars
  PROVE  TextsClosed'
<1>0. str \in [Buffers -> Strings] /\ Closed(<<>>)
    BY EmptyAccount DEF IInv, StringsBounded
<1>s. NextLog \in Buffers => \A b \in Buffers : Closed(SwappedStr[b].text)
    BY <1>0, SwappedEmpty DEF TextsClosed
<1>u. str' = str => TextsClosed'
    BY DEF TextsClosed
<1>1. ASSUME NEW len \in Lens, Output(len) PROVE TextsClosed'
  <2> DEFINE strs == IF Full(len) THEN SwappedStr ELSE str
             t == LostNotice \o <<Message(calls + 1)>>
             size == len + (IF lostCounter_ > 0 THEN NoticeLen ELSE 0)
             log == logBufferPtr_'
  <2>1. log \in Buffers /\ strs \in [Buffers -> Strings]
      BY <1>1, OutputReady
  <2>2. \A b \in Buffers : Closed(strs[b].text)
    <3>1. CASE Full(len)
      <4>1. /\ nextBufferPtr_ = NoBuffer => Unused # {}
            /\ Gathering
          BY <1>1, <3>1 DEF Output, SwapBuffer, SwapPointers, Gathering
      <4> QED
          BY <4>1, <3>1, <1>s, NextLogApart
    <3>2. CASE ~Full(len)
        BY <3>2 DEF TextsClosed
    <3> QED
        BY <3>1, <3>2
  <2>3. CASE QueueFull(Len(writeBuffers_'))
    <3>1. str' = strs
        BY <1>1, <2>3 DEF Output
    <3> QED
        BY <3>1, <2>2 DEF TextsClosed
  <2>4. CASE ~QueueFull(Len(writeBuffers_'))
    <3>1. AppendEntries(strs, log, len)
        BY <1>1, <2>4 DEF Output
    <3>2. PICK cap : str' = [strs EXCEPT ![log] = Appended(strs[log], t, size, cap)]
        BY <3>1 DEF AppendEntries
    <3>3. t \in Seq(Entries) /\ Closed(t)
        BY NewTextAccount DEF Account
    <3>4. strs[log].text \in Seq(Entries) /\ Closed(strs[log].text)
        BY <2>1, <2>2 DEF Strings
    <3> HIDE DEF t, strs, log, size
    <3>5. Closed(strs[log].text \o t)
        BY <3>3, <3>4, ConcatHalves, HalvesTell
    <3>6. Appended(strs[log], t, size, cap).text = strs[log].text \o t
        BY DEF Appended
    <3>7. /\ str'[log] = Appended(strs[log], t, size, cap)
          /\ \A b \in Buffers : b # log => str'[b] = strs[b]
        BY <2>1, <3>2
    <3> QED
        BY <2>2, <3>5, <3>6, <3>7 DEF TextsClosed
  <2> QED
      BY <2>3, <2>4
<1>2. CASE Flush \/ TakeBuffersOnTimeout
  <2>1. CASE str' = str
      BY <2>1, <1>u
  <2>2. CASE str' # str
    <3>1. /\ str' = SwappedStr /\ SwapPointers
          /\ Gathering
      <4>1. Gathering
        <5>1. CASE Flush
            BY <5>1 DEF Flush, Gathering
        <5>2. CASE TakeBuffersOnTimeout
            BY <5>2 DEF TakeBuffersOnTimeout, ThreadGoes, Gathering, IInv, PhasesAgree
        <5> QED
            BY <1>2, <5>1, <5>2
      <4> QED
          BY <4>1, <1>2, <2>2 DEF Flush, SwapBuffer, TakeBuffersOnTimeout
    <3>2. NextLog \in Buffers
        BY <3>1, NextLogApart DEF SwapPointers
    <3> QED
        BY <3>1, <3>2, <1>s DEF TextsClosed
  <2> QED
      BY <2>1, <2>2
<1>3. CASE Write
  <2>1. str' = [str EXCEPT ![tmpPtr'] = Cleared(@)]
      BY <1>3 DEF Write
  <2>2. \A b \in Buffers : str'[b] = str[b] \/ str'[b] = Cleared(str[b])
      BY <1>0, <2>1
  <2>3. \A b \in Buffers : Cleared(str[b]).text = <<>>
      BY <1>0, ClearedEmpty
  <2> QED
      BY <1>0, <2>2, <2>3 DEF TextsClosed
<1>4. CASE Restart
  <2>1. str' = [b \in Buffers |-> Reserved]
      BY <1>4 DEF Restart, NewLogger
  <2> QED
      BY <1>0, <2>1 DEF TextsClosed, Reserved
<1>5. CASE ~(\E len \in Lens : Output(len)) /\ ~Flush /\ ~TakeBuffersOnTimeout /\ ~Write /\ ~Restart
  <2>1. str' = str
    <3>1. CASE CallStep
        BY <1>5, <3>1 DEF CallStep, Calls, StartLogging, SpuriousWake, Expire, SetStop, BufferVars
    <3>2. CASE InMemoryStep
        BY <1>5, <3>2 DEF InMemoryStep, ThreadInMemory, DestructorInMemory, LoopTest, Lock,
           Block, Wait, TakeBuffers, NotifyAll, Join, Collect, BufferVars
    <3>3. CASE RecycleWritten \/ CloseDestroyed \/ FlushFile \/ WriteLog
        BY <1>5, <3>3 DEF RecycleWritten, Recycle, CloseDestroyed, Close, FlushFile, Fflush,
           WriteLog, WriteRest, BufferVars
    <3>4. CASE Construct \/ FileWork \/ DestroyFile \/ UNCHANGED pipelineVars
        BY <3>4 DEF Construct, FileWork, DestroyFile, pipelineVars, vars
    <3> QED
        BY <1>5, <3>1, <3>2, <3>3, <3>4 DEF PipelineNext
  <2> QED
      BY <2>1, <1>u
<1> QED
    BY <1>1, <1>2, <1>3, <1>4, <1>5

\* What is accepted and not written.
Rest == SubSeq(accepted, Len(file) + 1, Len(accepted))

RestIs ==
  /\ Rest \in Seq(Entries) /\ Len(Rest) = Len(accepted) - Len(file)
  /\ \A i \in 1..(Len(accepted) - Len(file)) : Rest[i] = accepted[Len(file) + i]
  /\ file \in Seq(Entries) /\ accepted \in Seq(Entries)
  /\ Len(file) \in Nat /\ Len(accepted) \in Nat /\ Len(file) <= Len(accepted)
  /\ \A k \in 1..Len(file) : file[k] = accepted[k]

\* It is a text, entry by entry.
LEMMA RestTyped == IInv => RestIs
<1> SUFFICES ASSUME IInv PROVE RestIs
    OBVIOUS
<1>1. /\ file \in Seq(Entries) /\ accepted \in Seq(Entries)
      /\ Len(file) <= Len(accepted) /\ \A k \in 1..Len(file) : file[k] = accepted[k]
    BY DEF IInv, Chained, ChainOf, Chain
<1>2. Len(file) \in Nat /\ Len(accepted) \in Nat
    BY <1>1, LenProperties
<1> QED
    BY <1>1, <1>2, PartTyped DEF Rest, RestIs

\* Chunk c tells of calls from upto[c - 1] + 1 to upto[c] only.
Within(c, upto) == \A n : TellsOf(chunks[c], n) => n \in (upto[c - 1] + 1)..upto[c]

\* The chunks of this process tell of all those, one after the other, and what
\* is accepted and not written goes on to the last call but the losses.
ToldUpTo(upto) ==
  /\ \A c \in 0..written : upto[c] \in Nat
  /\ upto[before.chunks] = before.calls
  /\ \A c, d \in 0..written : c <= d => upto[c] <= upto[d]
  /\ \A c \in 1..written :
       /\ Ranged(chunks[c]) /\ Within(c, upto)
       /\ c > before.chunks => \A n \in (upto[c - 1] + 1)..upto[c] : TellsOf(chunks[c], n)
  /\ \A n \in (before.calls + 1)..upto[written] :
       \E c \in 1..written : c > before.chunks /\ n \in (upto[c - 1] + 1)..upto[c]
  /\ upto[written] <= calls - lostCounter_
  /\ Account(Rest, upto[written], calls - lostCounter_)

\* The chunks of each process, from what was called before it, in this way.
ChunksTell ==
  /\ before.chunks \in 0..written /\ before.calls \in Nat
  /\ \E upto : ToldUpTo(upto)

\* The numbers that the steps count with.
LEMMA TellTyped ==
  ASSUME IInv, FilesProofs!IInv, ChunksTell
  PROVE  /\ written \in Nat /\ calls \in Nat /\ lostCounter_ \in Nat /\ lostCounter_ <= calls
         /\ before.chunks \in 0..written /\ before.calls \in Nat
<1>1. written \in Nat /\ calls \in Nat /\ lostCounter_ \in Nat
    BY FilesTyped DEF IInv, TypeOK
<1>2. PICK upto : ToldUpTo(upto)
    BY DEF ChunksTell
<1>3. upto[written] \in Nat /\ upto[written] <= calls - lostCounter_
  <2>1. written \in 0..written
      BY <1>1
  <2> QED
      BY <2>1, <1>2 DEF ToldUpTo
<1> QED
    BY <1>1, <1>3 DEF ChunksTell

\* Only output(), writeLog() and the start of a process change the text.
TextStands ==
  UNCHANGED <<chunks, before, written, file, accepted, calls, lostCounter_>>

\* The other steps leave it alone.
LEMMA WhoWrites ==
  ASSUME [PipelineNext]_pipelineVars, ~Restart, ~WriteLog,
         ~\E len \in Lens : Output(len) /\ CallStep
  PROVE  TextStands
<1>1. CASE CallStep
  <2>1. UNCHANGED <<chunks, before, written>>
      BY <1>1 DEF CallStep, OnlyLogger, loggerFileVars
  <2>2. Flush \/ StartLogging \/ SpuriousWake \/ Expire \/ SetStop
      BY <1>1 DEF CallStep, Calls
  <2>3. UNCHANGED <<file, accepted, calls, lostCounter_>>
      BY <2>2 DEF Flush, StartLogging, SpuriousWake, Expire, SetStop, ThreadVars, BufferVars,
         historyVars
  <2> QED
      BY <2>1, <2>3 DEF TextStands
<1>2. CASE InMemoryStep \/ RecycleWritten \/ CloseDestroyed
  <2>1. UNCHANGED <<chunks, before, written>>
      BY <1>2 DEF InMemoryStep, RecycleWritten, CloseDestroyed, OnlyLogger, loggerFileVars
  <2>2. UNCHANGED <<file, accepted, calls, lostCounter_>>
      BY <1>2 DEF InMemoryStep, ThreadInMemory, DestructorInMemory, LoopTest, Lock, Block, Wait,
         TakeBuffersOnTimeout, TakeBuffers, NotifyAll, Join, Collect, RecycleWritten, Recycle,
         CloseDestroyed, Close, ThreadVars, BufferVars, historyVars
  <2> QED
      BY <2>1, <2>2 DEF TextStands
<1>3. CASE Construct \/ FileWork \/ DestroyFile \/ UNCHANGED pipelineVars
  <2>1. UNCHANGED <<chunks, before, file, accepted, calls, lostCounter_>>
      BY <1>3 DEF Construct, FileWork, DestroyFile, pipelineVars, vars, historyVars
  <2>2. written' = written
      BY <1>3 DEF Construct, Files!Construct, FileWork, Files!CannotRead, Files!Scan,
         Files!ScanDone, Files!Close, Files!Rename, Files!DeleteOldFile, Files!Reopen,
         Files!countVars, DestroyFile, Files!Destroy, pipelineVars, loggerFileVars
  <2> QED
      BY <2>1, <2>2 DEF TextStands
<1>4. CASE FlushFile
    BY <1>4 DEF FlushFile, Fflush, BufferVars, historyVars, Files!Flush, loggerFileVars, TextStands
<1> QED
    BY <1>1, <1>2, <1>3, <1>4 DEF PipelineNext

\* A call is accepted behind the others, with the losses before it, or lost.
LEMMA OutputTells ==
  ASSUME IInv, IInv', FilesProofs!IInv, ChunksTell, NEW len \in Lens, Output(len), CallStep
  PROVE  ChunksTell'
<1>1. PICK upto : ToldUpTo(upto)
    BY DEF ChunksTell
<1>2. /\ written \in Nat /\ calls \in Nat /\ lostCounter_ \in Nat /\ lostCounter_ <= calls
      /\ before.chunks \in 0..written /\ before.calls \in Nat
    BY TellTyped
<1>3. /\ UNCHANGED <<chunks, before, written, file>> /\ calls' = calls + 1
    BY DEF Output, ThreadVars, CallStep, OnlyLogger, loggerFileVars
<1>4. upto[written] \in Nat /\ upto[written] <= calls - lostCounter_
  <2>1. written \in 0..written
      BY <1>2
  <2> QED
      BY <2>1, <1>1 DEF ToldUpTo
<1>5. /\ upto[written] <= calls' - lostCounter_'
      /\ Account(Rest', upto[written], calls' - lostCounter_')
  <2>1. CASE QueueFull(Len(writeBuffers_'))
    <3>1. accepted' = accepted /\ lostCounter_' = lostCounter_ + 1
        BY <2>1 DEF Output
    <3>2. calls' - lostCounter_' = calls - lostCounter_ /\ Rest' = Rest
        BY <3>1, <1>2, <1>3 DEF Rest
    <3> QED
        BY <3>2, <1>1 DEF ToldUpTo
  <2>2. CASE ~QueueFull(Len(writeBuffers_'))
    <3> DEFINE t == LostNotice \o <<Message(calls + 1)>>
    <3>1. accepted' = accepted \o t /\ lostCounter_' = 0
        BY <2>2 DEF Output, AppendEntries
    <3>2. Account(t, calls - lostCounter_, calls + 1) /\ t \in Seq(Entries)
        BY <1>2, NewTextAccount
    <3>3. /\ Rest \in Seq(Entries) /\ Len(Rest) = Len(accepted) - Len(file)
          /\ \A i \in 1..(Len(accepted) - Len(file)) : Rest[i] = accepted[Len(file) + i]
          /\ accepted \in Seq(Entries)
          /\ Len(file) \in Nat /\ Len(accepted) \in Nat /\ Len(file) <= Len(accepted)
        BY RestTyped DEF RestIs
    <3>4. /\ Rest' \in Seq(Entries) /\ Len(Rest') = Len(accepted') - Len(file')
          /\ \A i \in 1..(Len(accepted') - Len(file')) : Rest'[i] = accepted'[Len(file') + i]
      <4>1. RestIs'
          BY RestTyped, PTL
      <4> QED
          BY <4>1 DEF RestIs
    <3> HIDE DEF t
    <3>5. /\ Len(t) \in Nat /\ Len(accepted') = Len(accepted) + Len(t)
          /\ \A k \in 1..Len(accepted) : accepted'[k] = accepted[k]
          /\ \A k \in 1..(Len(accepted) + Len(t)) :
               k > Len(accepted) => accepted'[k] = t[k - Len(accepted)]
        BY <3>1, <3>2, <3>3, Joined
    <3>6. Halves(Rest', Rest, t)
      <4>0. /\ Len(Rest') = Len(Rest) + Len(t)
            /\ Len(file') = Len(file)
          BY <1>3, <3>3, <3>4, <3>5
      <4>1. ASSUME NEW k \in 1..Len(Rest) PROVE Rest[k] = Rest'[k]
        <5>1. /\ k \in 1..(Len(accepted) - Len(file)) /\ Len(file) + k \in 1..Len(accepted)
              /\ k \in 1..(Len(accepted') - Len(file))
            BY <3>3, <3>5
        <5> QED
            BY <5>1, <4>0, <3>3, <3>4, <3>5
      <4>2. ASSUME NEW k \in 1..Len(t) PROVE t[k] = Rest'[Len(Rest) + k]
        <5> DEFINE i == Len(Rest) + k
        <5>1. /\ i \in 1..(Len(accepted') - Len(file)) /\ Len(file) + i = Len(accepted) + k
              /\ Len(accepted) + k \in 1..(Len(accepted) + Len(t))
              /\ Len(accepted) + k > Len(accepted) /\ (Len(accepted) + k) - Len(accepted) = k
            BY <3>3, <3>5
        <5> HIDE DEF i
        <5>2. Rest'[i] = accepted'[Len(accepted) + k]
            BY <5>1, <4>0, <3>4
        <5> QED
            BY <5>1, <5>2, <3>5 DEF i
      <4> QED
          BY <3>2, <3>3, <3>4, <4>0, <4>1, <4>2 DEF Halves
    <3>7. calls' - lostCounter_' = calls + 1 /\ calls - lostCounter_ \in Nat
          /\ calls - lostCounter_ <= calls + 1 /\ upto[written] <= calls + 1 /\ calls + 1 \in Nat
        BY <1>2, <1>3, <1>4, <3>1
    <3>8. Account(Rest, upto[written], calls - lostCounter_)
        BY <1>1 DEF ToldUpTo
    <3>9. Account(Rest', upto[written], calls + 1)
        BY <3>2, <3>6, <3>7, <3>8, <1>4, AccountJoined
    <3> QED
        BY <3>7, <3>9
  <2> QED
      BY <2>1, <2>2
<1>6. ToldUpTo(upto)'
    BY <1>1, <1>3, <1>5 DEF ToldUpTo, Within
<1> QED
    BY <1>2, <1>3, <1>6 DEF ChunksTell

\* A new process has nothing accepted, and calls that are not told of yet.
LEMMA RestartTells ==
  ASSUME IInv, FilesProofs!IInv, ChunksTell, Restart
  PROVE  ChunksTell'
<1>1. PICK upto : ToldUpTo(upto)
    BY DEF ChunksTell
<1>2. /\ written \in Nat /\ calls \in Nat /\ lostCounter_ \in Nat /\ lostCounter_ <= calls
      /\ before.chunks \in 0..written /\ before.calls \in Nat
    BY TellTyped
<1>3. /\ UNCHANGED <<file, calls, chunks, written>> /\ accepted' = file /\ lostCounter_' = 0
      /\ before'.calls = calls /\ before'.chunks = written
    BY DEF Restart, NewLogger, Files!Restart
<1>4. upto[written] \in Nat /\ upto[written] <= calls
  <2>1. written \in 0..written
      BY <1>2
  <2>2. upto[written] \in Nat /\ upto[written] <= calls - lostCounter_
      BY <2>1, <1>1 DEF ToldUpTo
  <2> QED
      BY <2>2, <1>2
<1>p. PICK next : next = [c \in 0..written |-> IF c = written THEN calls ELSE upto[c]]
    OBVIOUS
<1>5. /\ \A c \in 0..written : upto[c] \in Nat /\ upto[c] <= calls
      /\ \A c, d \in 0..written : c <= d => upto[c] <= upto[d]
  <2>1. ASSUME NEW c \in 0..written PROVE upto[c] \in Nat /\ upto[c] <= upto[written]
    <3>1. written \in 0..written /\ c <= written
        BY <1>2
    <3> QED
        BY <3>1, <1>1 DEF ToldUpTo
  <2> QED
      BY <2>1, <1>1, <1>2, <1>4 DEF ToldUpTo
<1>6. next[written] = calls /\ \A c \in 0..written : c # written => next[c] = upto[c]
    BY <1>2, <1>p
<1>7. Rest' = <<>>
  <2>1. Len(file) \in Nat
      BY RestTyped DEF RestIs
  <2>2. Rest' = SubSeq(file, Len(file) + 1, Len(file))
      BY <1>3 DEF Rest
  <2> QED
      BY <2>1, <2>2
<1>8. \A c \in 0..written : next[c] \in Nat
    BY <1>2, <1>5, <1>6
<1>9. ASSUME NEW c \in 0..written, NEW d \in 0..written, c <= d PROVE next[c] <= next[d]
  <2>1. d = written \/ (c # written /\ d # written)
      BY <1>2, <1>9
  <2> QED
      BY <2>1, <1>2, <1>5, <1>6, <1>9
<1>a. ASSUME NEW c \in 1..written PROVE Ranged(chunks[c]) /\ Within(c, next)
  <2>1. c \in 0..written /\ c - 1 \in 0..written /\ c - 1 # written
      BY <1>2
  <2>2. Ranged(chunks[c]) /\ Within(c, upto)
      BY <1>1 DEF ToldUpTo
  <2>3. /\ next[c - 1] = upto[c - 1] /\ upto[c] <= next[c] /\ next[c] \in Nat
        /\ upto[c - 1] \in Nat /\ upto[c] \in Nat
      BY <2>1, <1>2, <1>5, <1>6
  <2>4. ASSUME NEW n, TellsOf(chunks[c], n) PROVE n \in (next[c - 1] + 1)..next[c]
    <3>1. n \in (upto[c - 1] + 1)..upto[c]
        BY <2>2, <2>4 DEF Within
    <3> QED
        BY <3>1, <2>3
  <2> QED
      BY <2>2, <2>4 DEF Within
<1>b. ToldUpTo(next)'
  <2>1. Account(<<>>, calls, calls) /\ calls - 0 = calls /\ (calls + 1)..calls = {}
      BY <1>2, EmptyAccount
  <2>2. \A c \in 1..written : ~(c > written)
      BY <1>2
  <2>3. calls <= calls
      BY <1>2
  <2> QED
      BY <2>1, <2>2, <2>3, <1>3, <1>6, <1>7, <1>8, <1>9, <1>a DEF ToldUpTo, Within
<1>c. written \in 0..written
    BY <1>2
<1> QED
    BY <1>2, <1>3, <1>b, <1>c DEF ChunksTell

\* What writeLog() gets is the text of a buffer, which is what was accepted first.
LEMMA PartIs ==
  ASSUME IInv, IInv', FilesProofs!IInv, Joint, TextsClosed, WriteLog,
         NEW part, part = SubSeq(file', Len(file) + 1, Len(file'))
  PROVE  /\ Halves(Rest, part, Rest') /\ Closed(part)
         /\ UNCHANGED <<accepted, calls, lostCounter_, before>>
         /\ written' = written + 1
         /\ \A c \in 1..written : chunks'[c] = chunks[c]
         /\ chunks'[written + 1] = part
<1>1. PICK b \in Buffers : file' = file \o str[b].text
  <2>1. CASE Write
    <3>1. tmpBuffers_ # <<>> /\ file' = file \o str[Head(tmpBuffers_)].text
        BY <2>1 DEF Write
    <3>2. Head(tmpBuffers_) \in Buffers
        BY <3>1, HeadTailProperties DEF IInv, TypeOK
    <3> QED
        BY <3>1, <3>2
  <2>2. CASE WriteRest
    <3>1. writeBuffers_ # <<>> /\ file' = file \o str[Head(writeBuffers_)].text
        BY <2>2 DEF WriteRest
    <3>2. Head(writeBuffers_) \in Buffers
        BY <3>1, HeadTailProperties DEF IInv, TypeOK
    <3> QED
        BY <3>1, <3>2
  <2> QED
      BY <2>1, <2>2 DEF WriteLog
<1> DEFINE t == str[b].text
<1>2. t \in Seq(Entries) /\ Closed(t)
    BY DEF IInv, StringsBounded, Strings, TextsClosed
<1>3. /\ UNCHANGED <<accepted, calls, lostCounter_, before>> /\ written' = written + 1
      /\ chunks' = Append(chunks, part)
  <2>1. UNCHANGED <<accepted, calls, lostCounter_>>
      BY DEF WriteLog, Write, WriteRest, historyVars
  <2> QED
      BY <2>1 DEF WriteLog, Files!Write
<1>4. /\ Rest \in Seq(Entries) /\ Len(Rest) = Len(accepted) - Len(file)
      /\ \A i \in 1..(Len(accepted) - Len(file)) : Rest[i] = accepted[Len(file) + i]
      /\ file \in Seq(Entries) /\ Len(file) \in Nat /\ Len(accepted) \in Nat
    BY RestTyped DEF RestIs
<1>5. /\ Rest' \in Seq(Entries) /\ Len(Rest') = Len(accepted) - Len(file')
      /\ \A i \in 1..(Len(accepted) - Len(file')) : Rest'[i] = accepted[Len(file') + i]
      /\ file' \in Seq(Entries) /\ Len(file') \in Nat /\ Len(file') <= Len(accepted)
      /\ \A k \in 1..Len(file') : file'[k] = accepted[k]
  <2>1. RestIs'
      BY RestTyped, PTL
  <2> QED
      BY <2>1, <1>3 DEF RestIs
<1>6. /\ Len(t) \in Nat /\ Len(file') = Len(file) + Len(t)
      /\ \A k \in 1..(Len(file) + Len(t)) : k > Len(file) => file'[k] = t[k - Len(file)]
  <2> HIDE DEF t
  <2> QED
      BY <1>1, <1>2, <1>4, Joined DEF t
<1>7. /\ part \in Seq(Entries) /\ Len(part) = Len(file') - Len(file)
      /\ \A i \in 1..(Len(file') - Len(file)) : part[i] = file'[Len(file) + i]
  <2>1. Len(file) <= Len(file')
      BY <1>4, <1>6
  <2> QED
      BY <2>1, <1>4, <1>5, PartTyped
<1> HIDE DEF t
<1>8. Len(part) = Len(t) /\ \A i \in 1..Len(t) : part[i] = t[i]
  <2>1. Len(part) = Len(t)
      BY <1>4, <1>6, <1>7
  <2>2. ASSUME NEW i \in 1..Len(t) PROVE part[i] = t[i]
    <3>1. /\ i \in 1..(Len(file') - Len(file))
          /\ Len(file) + i \in 1..(Len(file) + Len(t)) /\ Len(file) + i > Len(file)
          /\ (Len(file) + i) - Len(file) = i
        BY <1>4, <1>6
    <3> QED
        BY <3>1, <1>6, <1>7
  <2> QED
      BY <2>1, <2>2
<1>9. Closed(part)
  <2>1. \A k \in 1..Len(t) : k < Len(t) => k + 1 \in 1..Len(t)
      BY <1>6
  <2> QED
      BY <2>1, <1>2, <1>8 DEF Closed
<1>a. Halves(Rest, part, Rest')
  <2>n. /\ Len(Rest) = Len(accepted) - Len(file) /\ Len(part) = Len(file') - Len(file)
        /\ Len(Rest') = Len(accepted) - Len(file')
        /\ Len(accepted) \in Nat /\ Len(file) \in Nat /\ Len(file') \in Nat
      BY <1>4, <1>5, <1>7
  <2>1. Len(Rest) = Len(part) + Len(Rest')
      BY <2>n
  <2>2. ASSUME NEW k \in 1..Len(part) PROVE part[k] = Rest[k]
    <3>1. /\ k \in 1..(Len(file') - Len(file)) /\ Len(file) + k \in 1..Len(file')
          /\ k \in 1..(Len(accepted) - Len(file))
        BY <1>4, <1>5, <1>7
    <3> QED
        BY <3>1, <1>4, <1>5, <1>7
  <2>3. ASSUME NEW k \in 1..Len(Rest') PROVE Rest'[k] = Rest[Len(part) + k]
    <3>1. /\ k \in 1..(Len(accepted) - Len(file'))
          /\ Len(part) + k \in 1..(Len(accepted) - Len(file))
          /\ Len(file) + (Len(part) + k) = Len(file') + k
      <4>1. k \in Nat /\ 1 <= k /\ k <= Len(Rest') /\ Len(file) <= Len(file')
          BY <2>n, <1>4, <1>6
      <4> QED
          BY <4>1, <2>n
    <3> DEFINE i == Len(part) + k
    <3>2. Rest'[k] = accepted[Len(file') + k]
        BY <3>1, <1>5
    <3> HIDE DEF i
    <3>3. Rest[i] = accepted[Len(file) + i]
        BY <3>1, <1>4 DEF i
    <3> QED
        BY <3>1, <3>2, <3>3 DEF i
  <2> QED
      BY <2>1, <2>2, <2>3, <1>4, <1>5, <1>7 DEF Halves
<1>b. /\ \A c \in 1..written : chunks'[c] = chunks[c]
      /\ chunks'[written + 1] = part
  <2> DEFINE S == Seq(Entries)
  <2>1. chunks \in Seq(S) /\ part \in S /\ Len(chunks) = written
      BY <1>7 DEF Joint
  <2> HIDE DEF S
  <2> QED
      BY <2>1, <1>3, AppendProperties
<1> QED
    BY <1>3, <1>9, <1>a, <1>b

\* A chunk takes what is accepted up to one of its messages.
LEMMA WriteTells ==
  ASSUME IInv, IInv', FilesProofs!IInv, Joint, TextsClosed, ChunksTell, WriteLog
  PROVE  ChunksTell'
<1>1. PICK upto : ToldUpTo(upto)
    BY DEF ChunksTell
<1>2. /\ written \in Nat /\ calls \in Nat /\ lostCounter_ \in Nat /\ lostCounter_ <= calls
      /\ before.chunks \in 0..written /\ before.calls \in Nat
    BY TellTyped
<1>p. PICK part : part = SubSeq(file', Len(file) + 1, Len(file'))
    OBVIOUS
<1>3. /\ Halves(Rest, part, Rest') /\ Closed(part)
      /\ UNCHANGED <<accepted, calls, lostCounter_, before>>
      /\ written' = written + 1
      /\ \A c \in 1..written : chunks'[c] = chunks[c]
      /\ chunks'[written + 1] = part
    BY <1>p, PartIs
<1> DEFINE w == written
           u == upto[written]
           v == calls - lostCounter_
<1>4. u \in Nat /\ v \in Nat /\ u <= v /\ Account(Rest, u, v)
  <2>1. w \in 0..w
      BY <1>2
  <2> QED
      BY <2>1, <1>1, <1>2 DEF ToldUpTo
<1>5. PICK x \in Nat : u <= x /\ x <= v /\ Account(part, u, x) /\ Account(Rest', x, v)
  <2> HIDE DEF u, v
  <2> QED
      BY <1>3, <1>4, AccountCut
<1>6. PICK next : next = [c \in 0..(w + 1) |-> IF c = w + 1 THEN x ELSE upto[c]]
    OBVIOUS
<1>7. next[w + 1] = x /\ (\A c \in 0..w : next[c] = upto[c])
    BY <1>2, <1>6
<1>8. /\ \A c \in 0..w : upto[c] \in Nat /\ upto[c] <= u
      /\ \A c, d \in 0..w : c <= d => upto[c] <= upto[d]
  <2>1. \A c \in 0..w : c <= w /\ w \in 0..w
      BY <1>2
  <2> QED
      BY <2>1, <1>1 DEF ToldUpTo
<1>9. /\ written' = w + 1 /\ before.chunks \in 0..w /\ before.calls = upto[before.chunks]
      /\ next[before.chunks] = before.calls
    BY <1>1, <1>2, <1>3, <1>7 DEF ToldUpTo
<1>a. \A c \in 0..(w + 1) : c \in 0..w \/ c = w + 1
    BY <1>2
<1>b. \A c \in 0..(w + 1) : next[c] \in Nat
    BY <1>5, <1>7, <1>8, <1>a
<1>c. ASSUME NEW c \in 0..(w + 1), NEW d \in 0..(w + 1), c <= d PROVE next[c] <= next[d]
  <2>1. CASE d = w + 1
    <3>1. x <= x /\ \A i \in 0..w : upto[i] <= x
        BY <1>4, <1>5, <1>8
    <3> QED
        BY <2>1, <3>1, <1>7, <1>a
  <2>2. CASE d # w + 1
    <3>1. c \in 0..w /\ d \in 0..w
        BY <2>2, <1>2, <1>c
    <3> QED
        BY <3>1, <1>7, <1>8, <1>c
  <2> QED
      BY <2>1, <2>2
<1>d. ASSUME NEW c \in 1..(w + 1)
      PROVE  /\ Ranged(chunks'[c])
             /\ \A n : TellsOf(chunks'[c], n) => n \in (next[c - 1] + 1)..next[c]
             /\ c > before.chunks =>
                  \A n \in (next[c - 1] + 1)..next[c] : TellsOf(chunks'[c], n)
  <2>1. CASE c = w + 1
    <3>1. c - 1 = w /\ w \in 0..w
        BY <2>1, <1>2
    <3>2. chunks'[c] = part /\ next[c] = x /\ next[c - 1] = u
        BY <2>1, <3>1, <1>3, <1>7
    <3> HIDE DEF w, u
    <3> QED
        BY <3>2, <1>5 DEF Account
  <2>2. CASE c # w + 1
    <3>1. c \in 1..w /\ c \in 0..w /\ c - 1 \in 0..w
        BY <2>2, <1>2
    <3>2. chunks'[c] = chunks[c] /\ next[c] = upto[c] /\ next[c - 1] = upto[c - 1]
        BY <3>1, <1>3, <1>7
    <3> QED
        BY <3>1, <3>2, <1>1 DEF ToldUpTo, Within
  <2> QED
      BY <2>1, <2>2
<1>e. ASSUME NEW n \in (before.calls + 1)..x
      PROVE  \E c \in 1..(w + 1) : c > before.chunks /\ n \in (next[c - 1] + 1)..next[c]
  <2>1. CASE n <= u
    <3>1. n \in (before.calls + 1)..u
        BY <2>1, <1>2, <1>4
    <3>2. PICK c \in 1..w : c > before.chunks /\ n \in (upto[c - 1] + 1)..upto[c]
        BY <3>1, <1>1 DEF ToldUpTo
    <3>3. c \in 1..(w + 1) /\ c \in 0..w /\ c - 1 \in 0..w
        BY <1>2
    <3>4. next[c] = upto[c] /\ next[c - 1] = upto[c - 1]
        BY <3>3, <1>7
    <3> QED
        BY <3>2, <3>3, <3>4
  <2>2. CASE ~(n <= u)
    <3>1. n \in (u + 1)..x
        BY <2>2, <1>2, <1>4, <1>5
    <3>2. /\ w + 1 \in 1..(w + 1) /\ (w + 1) - 1 = w /\ w \in 0..w /\ w + 1 > before.chunks
        BY <1>2
    <3>3. next[w + 1] = x /\ next[(w + 1) - 1] = u
        BY <3>2, <1>7
    <3> HIDE DEF w, u
    <3> QED
        BY <3>1, <3>2, <3>3
  <2> QED
      BY <2>1, <2>2
<1>f. x <= v /\ Account(Rest', x, v)
    BY <1>5
<1>g. ToldUpTo(next)'
    BY <1>3, <1>7, <1>9, <1>b, <1>c, <1>d, <1>e, <1>f DEF ToldUpTo, Within
<1>h. before.chunks \in 0..(w + 1)
    BY <1>2
<1> QED
    BY <1>2, <1>3, <1>g, <1>h DEF ChunksTell

\* Every step keeps the chunks and what is not written telling of the calls.
LEMMA ChunksTellStep ==
  ASSUME IInv, IInv', FilesProofs!IInv, Joint, TextsClosed, ChunksTell,
         [PipelineNext]_pipelineVars
  PROVE  ChunksTell'
<1>1. CASE Restart
    BY <1>1, RestartTells
<1>2. CASE WriteLog
    BY <1>2, WriteTells
<1>3. CASE \E len \in Lens : Output(len) /\ CallStep
    BY <1>3, OutputTells
<1>4. CASE ~Restart /\ ~WriteLog /\ ~\E len \in Lens : Output(len) /\ CallStep
  <2>1. UNCHANGED <<chunks, before, written, file, accepted, calls, lostCounter_>>
      BY <1>4, WhoWrites DEF TextStands
  <2> QED
      BY <2>1 DEF ChunksTell, ToldUpTo, Within, Rest
<1> QED
    BY <1>1, <1>2, <1>3, <1>4

-----------------------------------------------------------------------------
(* Which chunks are in the files *)

\* The destructor has no more to write.
Finished == dtor \in {"write", "done"} /\ writeBuffers_ = <<>>

\* A process makes one LoggerFile, before its first chunk, and has none after
\* the last one; switchLog() runs in the destructor when all is written.
OneLoggerFile ==
  /\ pc \in {"scan", "write"} => written = before.chunks
  /\ (pc = "none" /\ written # before.chunks) \/ closing => Finished

\* It never has more again.
LEMMA FinishedStays == ASSUME IInv, [Next]_vars, Finished PROVE Finished'
<1>1. /\ thread \in {"none", "exited"} /\ dtor \in {"write", "done"}
      /\ writeBuffers_ = <<>>
    BY DEF Finished, IInv, PhasesAgree
<1>2. ~(\E len \in Lens : Output(len)) /\ ~Flush /\ ~StartLogging /\ ~SetStop /\ ~NotifyAll
        /\ ~Join /\ ~Collect /\ ~WriteRest
    BY <1>1 DEF Output, Flush, StartLogging, SetStop, NotifyAll, Join, Collect, WriteRest, DtorGoes
<1>3. ~LogThread /\ ~SpuriousWake /\ ~Expire
    BY <1>1 DEF LogThread, LoopTest, Lock, Block, Wait, TakeBuffersOnTimeout, TakeBuffers, Write,
       Recycle, Fflush, SpuriousWake, Expire, ThreadGoes
<1>4. Close \/ UNCHANGED vars
    BY <1>2, <1>3 DEF Next, Destructor
<1> QED
    BY <1>1, <1>4 DEF Close, DtorGoes, BufferVars, vars, Finished

\* Every step keeps this.
LEMMA OneLoggerFileStep ==
  ASSUME IInv, OneLoggerFile, [PipelineNext]_pipelineVars PROVE OneLoggerFile'
<1>1. CASE Restart
    BY <1>1 DEF Restart, Files!Restart, OneLoggerFile
<1>2. ASSUME ~Restart, Finished PROVE Finished'
    BY <1>2, LoggerSteps, FinishedStays
<1>3. CASE /\ CallStep \/ InMemoryStep \/ RecycleWritten \/ CloseDestroyed \/ UNCHANGED pipelineVars
           /\ ~Restart
  <2>1. UNCHANGED <<pc, written, before, closing>>
      BY <1>3 DEF CallStep, InMemoryStep, RecycleWritten, CloseDestroyed, OnlyLogger,
         loggerFileVars, pipelineVars
  <2> QED
      BY <1>2, <1>3, <2>1 DEF OneLoggerFile
<1>4. CASE Construct /\ ~Restart
  <2>1. ~Finished
      BY <1>4 DEF Construct, ThreadWrites, DestructorWrites, Finished, IInv, PhasesAgree
  <2>2. pc = "none" /\ UNCHANGED <<written, before>> /\ pc' # "none" /\ ~closing'
      BY <1>4 DEF Construct, Files!Construct
  <2> QED
      BY <2>1, <2>2 DEF OneLoggerFile
<1>5. CASE WriteLog /\ ~Restart
  <2>1. pc' \in {"close", "ready"} /\ closing' = closing
      BY <1>5 DEF WriteLog, Files!Write
  <2> QED
      BY <1>2, <1>5, <2>1 DEF OneLoggerFile
<1>6. CASE FileWork /\ ~Restart
  <2>1. UNCHANGED <<before, written, closing>>
      BY <1>6 DEF FileWork, Files!CannotRead, Files!Scan, Files!ScanDone, Files!Close,
         Files!Rename, Files!DeleteOldFile, Files!Reopen, Files!countVars
  <2>2. /\ pc' \in {"scan", "write"} => pc = "scan"
        /\ pc' = "none" => closing
      BY <1>6 DEF FileWork, Files!CannotRead, Files!Scan, Files!ScanDone, Files!Close,
         Files!Rename, Files!DeleteOldFile, Files!Reopen, Files!AfterSwitch
  <2> QED
      BY <1>2, <1>6, <2>1, <2>2 DEF OneLoggerFile
<1>7. CASE FlushFile /\ ~Restart
  <2>1. UNCHANGED <<pc, written, before, closing>>
      BY <1>7 DEF FlushFile, Files!Flush, loggerFileVars
  <2> QED
      BY <1>2, <1>7, <2>1 DEF OneLoggerFile
<1>8. CASE DestroyFile /\ ~Restart
  <2>1. Finished /\ pc' \in {"close", "none"}
      BY <1>8 DEF DestroyFile, Files!Destroy, Finished
  <2> QED
      BY <1>2, <1>8, <2>1 DEF OneLoggerFile
<1> QED
    BY <1>1, <1>3, <1>4, <1>5, <1>6, <1>7, <1>8 DEF PipelineNext

\* K has no hole but in D and, where chunks go on to be written behind it, goes
\* up to w.
Run(K, D, w, live) ==
  /\ \A a, b \in K, c \in Nat : a < c /\ c < b => c \in K \cup D
  /\ live => \A a \in K, c \in Nat : a <= c /\ c <= w => c \in K \cup D

\* Taking away the first ones or ones that get into D, or not going on, leaves
\* no other hole.
LEMMA RunDrops ==
  ASSUME NEW K, NEW K2, NEW D, NEW D2, NEW w \in Nat, NEW live, NEW live2,
         K \subseteq 1..w, K2 \subseteq K, D \subseteq D2, live2 => live, Run(K, D, w, live),
         \A a \in K2, c \in K : a < c => c \in K2 \cup D2
  PROVE  Run(K2, D2, w, live2)
<1>1. ASSUME NEW a \in K2, NEW b \in K2, NEW c \in Nat, a < c, c < b PROVE c \in K2 \cup D2
    BY <1>1 DEF Run
<1>2. ASSUME live2, NEW a \in K2, NEW c \in Nat, a <= c, c <= w PROVE c \in K2 \cup D2
  <2>1. c \in K \cup D /\ a \in Nat
      BY <1>2 DEF Run
  <2>2. a = c \/ a < c
      BY <2>1, <1>2
  <2> QED
      BY <2>1, <2>2
<1> QED
    BY <1>1, <1>2 DEF Run

\* Nor does going on where it ends.
LEMMA RunGrows ==
  ASSUME NEW K, NEW K2, NEW D, NEW D2, NEW w \in Nat, NEW live, NEW live2,
         K \subseteq 1..w, K2 \subseteq K \cup {w + 1}, K \cup {w + 1} \subseteq K2 \cup D2,
         D \subseteq D2, live, Run(K, D, w, live)
  PROVE  Run(K2, D2, w + 1, live2)
<1>1. ASSUME NEW a \in K2, NEW c \in Nat, a <= c, c <= w + 1
      PROVE  c \in K2 \cup D2
  <2>1. a \in Nat /\ (c = w + 1 \/ (c <= w /\ a # w + 1))
      BY <1>1
  <2>2. CASE c <= w /\ a # w + 1
    <3>1. a \in K
        BY <2>2
    <3> QED
        BY <3>1, <2>2, <1>1 DEF Run
  <2> QED
      BY <2>1, <2>2
<1>2. \A a \in K2 : a \in Nat /\ a <= w + 1
    OBVIOUS
<1>3. ASSUME NEW a \in K2, NEW b \in K2, NEW c \in Nat, a < c, c < b
      PROVE  c \in K2 \cup D2
  <2>1. a <= c /\ c <= w + 1
      BY <1>2, <1>3
  <2> QED
      BY <2>1, <1>1
<1> QED
    BY <1>1, <1>3 DEF Run

\* Whether the chunks of this process still get into the file.
Live == fp_ \/ pc \in {"rename", "delete", "reopen"}

\* What is kept of this process has no hole but what calls of stdio lost.
KeptRun == orderly => Run(Kept, dropped, written, Live)

\* Nothing is missing where nothing failed and nothing is removed.
AllOnDisk ==
  orderly /\ maxFiles_ = 0 /\ failures = before.failures =>
    \A c \in 1..written : c > before.chunks => OnDisk(current, rotated, c)

\* Which chunks are kept, place by place.
KeptIn(cur, rot, left, base, c) ==
  /\ c > base
  /\ \/ \E i \in DOMAIN cur : cur[i] = c
     \/ \E m \in DOMAIN rot \ left : \E i \in DOMAIN rot[m] : rot[m][i] = c

LEMMA KeptIs ==
  /\ \A c : c \in Kept <=> KeptIn(current, rotated, leftovers, before.chunks, c)
  /\ \A c : c \in Kept' <=> KeptIn(current', rotated', leftovers', before'.chunks, c)
  BY DEF Kept, OfThisProcess, InFiles, Elements, KeptIn

\* They are chunks that this process has written.
LEMMA KeptBounded ==
  ASSUME FilesProofs!IInv, before.chunks \in Nat
  PROVE  /\ Kept \subseteq 1..written /\ \A c \in Kept : c > before.chunks
         /\ written = before.chunks => Kept = {}
<1>1. \A c \in Kept : c \in 1..written /\ c > before.chunks
    BY FilesTyped, KeptIs DEF KeptIn
<1>2. written \in Nat
    BY FilesTyped
<1> QED
    BY <1>1, <1>2

\* deleteOldFiles() takes the file with the first of them, if any.
LEMMA KeptDeleted ==
  ASSUME FilesProofs!IInv, Files!DeleteOldFile, UNCHANGED before, orderly, before.chunks \in Nat
  PROVE  /\ Kept' \subseteq Kept
         /\ \A a \in Kept', c \in Kept : a < c => c \in Kept'
<1> DEFINE head == Head(filenameQueue_)
<1>1. /\ FilesProofs!DeleteOldFile /\ pc = "delete" /\ UNCHANGED <<current, before>>
  <2>1. pc = "delete" /\ UNCHANGED current
      BY DEF Files!DeleteOldFile
  <2> QED
      BY <2>1, FilesAgree
<1>2. /\ FilesProofs!Removal(head)
      /\ filenameQueue_ # <<>> /\ filenameQueue_ \in Seq(FilesProofs!Names)
      /\ filenameQueue_' = Tail(filenameQueue_)
      /\ FilesProofs!QueueNamed = {head} \cup FilesProofs!QueueNamed'
      /\ maxFiles_ > 0
    BY <1>1, FilesProofs!DeleteEffect, FilesAssumption
<1> HIDE DEF head
<1>3. DOMAIN rotated' \ leftovers' = (DOMAIN rotated \ leftovers) \ {head}
      /\ \A m \in DOMAIN rotated' : rotated'[m] = rotated[m]
  <2>1. CASE rotated' = FilesProofs!Without(rotated, head) /\ leftovers' = leftovers
      BY <2>1 DEF FilesProofs!Without
  <2>2. CASE rotated' = rotated /\ leftovers' = leftovers \cup {head}
      BY <2>2
  <2> QED
      BY <1>2, <2>1, <2>2 DEF FilesProofs!Removal
<1>4. Kept' \subseteq Kept
    BY <1>1, <1>3, KeptIs DEF KeptIn
<1>5. ASSUME NEW a \in Kept', NEW c \in Kept, a < c, c \notin Kept' PROVE FALSE
  <2>0. a \in Nat /\ c \in Nat
      BY <1>4, KeptBounded, FilesTyped
  <2>1. PICK k \in DOMAIN rotated[head] :
          head \in DOMAIN rotated \ leftovers /\ rotated[head][k] = c
      BY <1>1, <1>3, <1>5, KeptIs DEF KeptIn
  <2>2. CASE \E i \in DOMAIN current : current[i] = a
    <3>1. FilesProofs!AllLess(rotated[head], current)
        BY <2>1 DEF FilesProofs!IInv, FilesProofs!NameOrder
    <3> QED
        BY <2>0, <2>1, <2>2, <3>1, <1>5 DEF FilesProofs!AllLess
  <2>3. CASE ~\E i \in DOMAIN current : current[i] = a
    <3>1. PICK m \in (DOMAIN rotated \ leftovers) \ {head} :
            \E i \in DOMAIN rotated[m] : rotated[m][i] = a
      <4>1. KeptIn(current', rotated', leftovers', before'.chunks, a) /\ current' = current
          BY <1>1, KeptIs
      <4>2. PICK m \in DOMAIN rotated' \ leftovers' :
              \E i \in DOMAIN rotated'[m] : rotated'[m][i] = a
          BY <4>1, <2>3 DEF KeptIn
      <4> QED
          BY <4>2, <1>3
    <3>2. m \in FilesProofs!QueueNamed'
      <4>1. DOMAIN rotated \subseteq FilesProofs!QueueNamed \cup leftovers
          BY <1>1, <1>2 DEF FilesProofs!IInv, FilesProofs!Kept, FilesProofs!Started,
             FilesProofs!Renamed
      <4> QED
          BY <4>1, <3>1, <1>2
    <3>3. FilesProofs!Before(head, m)
      <4>1. FilesProofs!InOrder(filenameQueue_)
          BY DEF FilesProofs!IInv, FilesProofs!Ordered
      <4>2. \A n \in FilesProofs!ToSet(Tail(filenameQueue_)) : FilesProofs!Before(head, n)
          BY <4>1, <1>2, FilesProofs!InOrderTail, FilesAssumption DEF head
      <4> QED
          BY <4>2, <3>2, <1>2 DEF FilesProofs!QueueNamed
    <3>4. FilesProofs!AllLess(rotated[head], rotated[m])
        BY <2>1, <3>1, <3>3 DEF FilesProofs!IInv, FilesProofs!NameOrder
    <3> QED
        BY <2>0, <2>1, <3>1, <3>4, <1>5 DEF FilesProofs!AllLess
  <2> QED
      BY <2>2, <2>3
<1> QED
    BY <1>4, <1>5

\* A process that has written nothing has nothing in the files.
NoChunkYet == FilesProofs!IInv /\ before.chunks \in Nat /\ written = before.chunks

LEMMA KeptRunStarts == NoChunkYet => KeptRun
<1> SUFFICES ASSUME NoChunkYet PROVE KeptRun
    OBVIOUS
<1>1. Kept = {}
    BY KeptBounded DEF NoChunkYet
<1> QED
    BY <1>1 DEF KeptRun, Run

\* The same of the next state.
LEMMA KeptRunStartsAgain == NoChunkYet' => KeptRun'
    BY KeptRunStarts, PTL

\* Only what changes the files changes what is kept.
LEMMA SameKept == UNCHANGED <<current, rotated, leftovers, before>> => Kept' = Kept
    BY DEF Kept, OfThisProcess, InFiles, Elements

\* A chunk that is written gets behind the others of the current file, or is
\* lost, perhaps with others that stdio held.
LEMMA AppendedKept ==
  ASSUME FilesProofs!IInv, Files!Write, fp_, UNCHANGED before, before.chunks \in 0..written
  PROVE  /\ Kept' \subseteq Kept \cup {written + 1}
         /\ Kept \cup {written + 1} \subseteq Kept' \cup dropped' /\ dropped \subseteq dropped'
         /\ ~(failures' > failures) => OnDisk(current', rotated', written + 1)
<1>0. FilesProofs!TypeOK /\ FilesProofs!Write
    BY FilesAgree DEF FilesProofs!IInv
<1>1. /\ current' \in Seq(Nat) /\ Len(current') \in Nat /\ Len(current) \in Nat
      /\ Len(current') <= Len(current) + 1
      /\ \A i \in 1..Len(current') :
           IF i = Len(current) + 1 THEN current'[i] = written + 1
           ELSE i \in 1..Len(current) /\ current'[i] = current[i]
      /\ \A i \in 1..Len(current) : i \notin 1..Len(current') => current[i] \in dropped'
      /\ Len(current') # Len(current) + 1 => written + 1 \in dropped'
      /\ dropped \subseteq dropped'
      /\ current' = Append(current, written + 1) \/ failures' > failures
    BY <1>0, FilesProofs!WriteEffect, FilesAssumption
<1>2. /\ current \in Seq(Nat) /\ written \in Nat
      /\ DOMAIN current = 1..Len(current) /\ DOMAIN current' = 1..Len(current')
      /\ UNCHANGED <<rotated, leftovers, before>>
    BY <1>1, FilesTyped, LenProperties DEF Files!Write
<1>3. ASSUME NEW c, c \in Kept' PROVE c \in Kept \cup {written + 1}
  <2>1. KeptIn(current', rotated, leftovers, before.chunks, c)
      BY <1>2, <1>3, KeptIs
  <2>2. \A i \in DOMAIN current' :
          current'[i] = written + 1 \/ (i \in DOMAIN current /\ current'[i] = current[i])
      BY <1>1, <1>2
  <2> QED
      BY <2>1, <2>2, KeptIs DEF KeptIn
<1>4. \A i \in DOMAIN current : (i \in DOMAIN current' /\ current'[i] = current[i])
                                 \/ current[i] \in dropped'
  <2>1. \A i \in 1..Len(current) : i # Len(current) + 1
      BY <1>1
  <2> QED
      BY <2>1, <1>1, <1>2
<1>5. ASSUME NEW c, c \in Kept PROVE c \in Kept' \cup dropped'
    BY <1>2, <1>4, <1>5, KeptIs DEF KeptIn
<1>6. CASE Len(current') = Len(current) + 1
  <2>1. Len(current) + 1 \in DOMAIN current' /\ written + 1 > before.chunks
      BY <1>1, <1>2, <1>6
  <2>2. current'[Len(current) + 1] = written + 1
      BY <2>1, <1>1, <1>2
  <2>3. written + 1 \in Kept' /\ OnDisk(current', rotated', written + 1)
      BY <2>1, <2>2, <1>2, KeptIs DEF KeptIn, OnDisk
  <2> QED
      BY <2>3, <1>1, <1>3, <1>5
<1>7. CASE Len(current') # Len(current) + 1
  <2>1. Len(Append(current, written + 1)) = Len(current) + 1
    <3>1. written + 1 \in Nat
        BY <1>2
    <3> QED
        BY <3>1, <1>2, AppendProperties
  <2> QED
      BY <2>1, <1>1, <1>3, <1>5, <1>7
<1> QED
    BY <1>6, <1>7

\* fflush() and fclose() only lose what they have failed to pass on.
LEMMA FlushedKept ==
  ASSUME FilesProofs!IInv, Files!Flush \/ Files!Close, UNCHANGED before
  PROVE  Kept' \subseteq Kept /\ Kept \subseteq Kept' \cup dropped' /\ dropped \subseteq dropped'
<1>0. FilesProofs!TypeOK /\ (FilesProofs!Flush \/ FilesProofs!Close)
    BY FilesAgree DEF FilesProofs!IInv
<1>1. /\ current' \in Seq(Nat)
      /\ \A i \in 1..Len(current') : i \in 1..Len(current) /\ current'[i] = current[i]
      /\ \A i \in 1..Len(current) : i \notin 1..Len(current') => current[i] \in dropped'
      /\ dropped \subseteq dropped'
    BY <1>0, FilesProofs!FlushEffect, FilesAssumption
<1>2. /\ DOMAIN current = 1..Len(current) /\ DOMAIN current' = 1..Len(current')
      /\ UNCHANGED <<rotated, leftovers, before>>
    BY <1>1, FilesTyped, LenProperties DEF Files!Flush, Files!Close
<1>3. /\ \A i \in DOMAIN current' : i \in DOMAIN current /\ current'[i] = current[i]
      /\ \A i \in DOMAIN current : (i \in DOMAIN current' /\ current'[i] = current[i])
                                      \/ current[i] \in dropped'
    BY <1>1, <1>2
<1>4. ASSUME NEW c, c \in Kept' PROVE c \in Kept
    BY <1>2, <1>3, <1>4, KeptIs DEF KeptIn
<1>5. ASSUME NEW c, c \in Kept PROVE c \in Kept' \cup dropped'
    BY <1>2, <1>3, <1>5, KeptIs DEF KeptIn
<1> QED
    BY <1>1, <1>4, <1>5

\* switchLog() takes the current file to a name that is new also to retention.
LEMMA RenamedKept ==
  ASSUME FilesProofs!IInv, Files!Rename, orderly', UNCHANGED before
  PROVE  Kept' = Kept
<1>1. FilesProofs!Rename /\ Files!RotatedName = FilesProofs!RotatedName
    BY FilesAgree
<1> DEFINE name == FilesProofs!RotatedName
<1>2. name \notin DOMAIN rotated /\ name \notin leftovers
    BY <1>1, FilesProofs!NewNameIsLast, FilesAssumption DEF FilesProofs!Given, FilesProofs!Renamed
<1>3. leftovers' = leftovers
    BY DEF Files!Rename
<1>4. CASE UNCHANGED <<current, rotated>>
    BY <1>3, <1>4, SameKept
<1>5. CASE /\ rotated' = [m \in DOMAIN rotated \cup {name} |->
                            IF m = name THEN current ELSE rotated[m]]
           /\ current' = <<>>
  <2> HIDE DEF name
  <2>1. /\ DOMAIN rotated' \ leftovers' = (DOMAIN rotated \ leftovers) \cup {name}
        /\ \A m \in DOMAIN rotated \ leftovers : rotated'[m] = rotated[m]
        /\ rotated'[name] = current /\ DOMAIN current' = {}
      BY <1>2, <1>3, <1>5
  <2>2. \A c : (\E m \in DOMAIN rotated' \ leftovers' :
                 \E i \in DOMAIN rotated'[m] : rotated'[m][i] = c)
                 <=> \/ \E i \in DOMAIN current : current[i] = c
                     \/ \E m \in DOMAIN rotated \ leftovers :
                          \E i \in DOMAIN rotated[m] : rotated[m][i] = c
      BY <2>1
  <2>3. \A c : c \in Kept' <=> c \in Kept
      BY <2>1, <2>2, KeptIs DEF KeptIn
  <2> QED
      BY <2>3
<1> QED
    BY <1>1, <1>4, <1>5 DEF Files!Rename

\* So every step leaves what is kept without another hole.
LEMMA KeptRunStep ==
  ASSUME PipelineInv, FilesProofs!IInv', before.chunks \in 0..written, OneLoggerFile, KeptRun,
         [PipelineNext]_pipelineVars
  PROVE  KeptRun'
<1>0. /\ IInv /\ FilesProofs!IInv /\ written \in Nat /\ before.chunks \in Nat
      /\ Kept \subseteq 1..written
  <2>1. IInv /\ FilesProofs!IInv
      BY DEF PipelineInv
  <2>2. written \in Nat
      BY <2>1, FilesTyped
  <2>3. before.chunks \in Nat
      BY <2>2
  <2> QED
      BY <2>1, <2>2, <2>3, KeptBounded
<1> SUFFICES ASSUME orderly' PROVE Run(Kept', dropped', written', Live')
    BY DEF KeptRun
<1>1. orderly /\ Run(Kept, dropped, written, Live)
  <2>1. [FilesProofs!Next]_(FilesProofs!vars)
      BY FilesStep, FilesAgree
  <2>2. orderly
      BY <2>1, FilesProofs!OrderlyWas, FilesAssumption
  <2> QED
      BY <2>2 DEF KeptRun
<1>2. ASSUME written' = before'.chunks, before'.chunks \in Nat
      PROVE  Run(Kept', dropped', written', Live')
  <2>1. NoChunkYet'
      BY <1>2 DEF NoChunkYet
  <2> QED
      BY <2>1, KeptRunStartsAgain DEF KeptRun
<1>3. ASSUME Kept' = Kept, dropped' = dropped, written' = written, Live' => Live
      PROVE  Run(Kept', dropped', written', Live')
    BY <1>1, <1>3 DEF Run
<1>b. ASSUME Files!Flush \/ Files!Close, UNCHANGED before
      PROVE  Run(Kept', dropped', written', Live')
  <2>1. Kept' \subseteq Kept /\ Kept \subseteq Kept' \cup dropped' /\ dropped \subseteq dropped'
      BY <1>0, <1>b, FlushedKept
  <2>2. Live /\ written' = written
      BY <1>0, <1>b, FilesTyped DEF Files!Flush, Files!Close, Live
  <2>3. \A a \in Kept', c \in Kept : a < c => c \in Kept' \cup dropped'
      BY <2>1
  <2>4. Run(Kept', dropped', written, Live')
      BY <1>0, <1>1, <2>1, <2>2, <2>3, RunDrops
  <2> QED
      BY <2>2, <2>4
<1>4. CASE Restart
  <2>1. before'.chunks = written /\ written' = written
      BY <1>4 DEF Restart, Files!Restart
  <2> QED
      BY <2>1, <1>0, <1>2
<1>5. CASE CallStep \/ InMemoryStep \/ RecycleWritten \/ CloseDestroyed \/ UNCHANGED pipelineVars
  <2>1. UNCHANGED <<current, rotated, leftovers, before, dropped, written, fp_, pc>>
      BY <1>5 DEF CallStep, InMemoryStep, RecycleWritten, CloseDestroyed, OnlyLogger,
         loggerFileVars, pipelineVars
  <2> QED
      BY <2>1, <1>3, SameKept DEF Live
<1>6. CASE Construct
  <2>1. ~Finished
      BY <1>0, <1>6 DEF Construct, ThreadWrites, DestructorWrites, Finished, IInv, PhasesAgree
  <2>2. pc = "none" /\ UNCHANGED <<written, before>>
      BY <1>6 DEF Construct, Files!Construct
  <2> QED
      BY <2>1, <2>2, <1>0, <1>2 DEF OneLoggerFile
<1>7. CASE WriteLog
  <2>1. Files!Write /\ UNCHANGED before
      BY <1>7 DEF WriteLog
  <2>2. CASE fp_
    <3>1. /\ Kept' \subseteq Kept \cup {written + 1}
          /\ Kept \cup {written + 1} \subseteq Kept' \cup dropped' /\ dropped \subseteq dropped'
        BY <2>1, <2>2, <1>0, AppendedKept
    <3>2. written' = written + 1 /\ Live
        BY <2>1, <2>2 DEF Files!Write, Live
    <3>3. Run(Kept', dropped', written + 1, Live')
        BY <1>0, <1>1, <3>1, <3>2, RunGrows
    <3> QED
        BY <3>2, <3>3
  <2>3. CASE ~fp_
    <3>1. UNCHANGED <<current, rotated, leftovers, before, dropped>> /\ ~Live'
        BY <2>1, <2>3 DEF Files!Write, Live
    <3> QED
        BY <3>1, <1>1, SameKept DEF Run
  <2> QED
      BY <2>2, <2>3
<1>8. CASE FileWork
  <2>0. UNCHANGED before
      BY <1>8 DEF FileWork
  <2>1. CASE Files!CannotRead \/ Files!Scan \/ Files!ScanDone
    <3>1. pc = "scan" /\ written' = written
        BY <2>1 DEF Files!CannotRead, Files!Scan, Files!ScanDone, Files!countVars
    <3> QED
        BY <3>1, <2>0, <1>0, <1>2 DEF OneLoggerFile
  <2>2. CASE Files!Rename
    <3>1. pc = "rename" /\ written' = written /\ dropped' = dropped
        BY <2>2 DEF Files!Rename
    <3>2. Live
        BY <3>1 DEF Live
    <3> QED
        BY <3>1, <3>2, <2>0, <2>2, <1>0, <1>3, RenamedKept
  <2>3. CASE Files!DeleteOldFile
    <3>1. /\ Kept' \subseteq Kept
          /\ \A a \in Kept', c \in Kept : a < c => c \in Kept'
        BY <1>0, <1>1, <2>0, <2>3, KeptDeleted
    <3>2. Live /\ written' = written /\ dropped' = dropped
        BY <2>3 DEF Files!DeleteOldFile, Live
    <3>3. Run(Kept', dropped', written, Live')
      <4>1. \A a \in Kept', c \in Kept : a < c => c \in Kept' \cup dropped'
          BY <3>1
      <4> QED
          BY <1>0, <1>1, <3>1, <3>2, <4>1, RunDrops
    <3> QED
        BY <3>2, <3>3
  <2>4. CASE Files!Reopen
    <3>1. UNCHANGED <<current, rotated, leftovers, before, dropped, written>> /\ Live
        BY <2>0, <2>4 DEF Files!Reopen, Live
    <3> QED
        BY <3>1, <1>3, SameKept
  <2>5. CASE Files!Close
      BY <2>0, <2>5, <1>b
  <2> QED
      BY <1>8, <2>1, <2>2, <2>3, <2>4, <2>5 DEF FileWork
<1>9. CASE FlushFile
  <2>1. CASE Files!Flush
      BY <1>9, <2>1, <1>b DEF FlushFile
  <2>2. CASE UNCHANGED loggerFileVars
    <3>1. UNCHANGED <<current, rotated, leftovers, before, dropped, written, fp_, pc>>
        BY <1>9, <2>2 DEF FlushFile, loggerFileVars
    <3> QED
        BY <3>1, <1>3, SameKept DEF Live
  <2> QED
      BY <1>9, <2>1, <2>2 DEF FlushFile
<1>a. CASE DestroyFile
  <2>1. UNCHANGED <<current, rotated, leftovers, before, dropped, written>>
      BY <1>a DEF DestroyFile, Files!Destroy, Files!countVars
  <2>2. Live' => Live
      BY <1>a DEF DestroyFile, Files!Destroy, Live
  <2> QED
      BY <2>1, <2>2, <1>3, SameKept
<1> QED
    BY <1>4, <1>5, <1>6, <1>7, <1>8, <1>9, <1>a DEF PipelineNext

\* Only the first writeLog() of a process sets the retention, and failures add up.
LEMMA WhatStays ==
  ASSUME FilesProofs!IInv, [PipelineNext]_pipelineVars, ~Restart, ~Construct
  PROVE  /\ UNCHANGED <<before, maxFiles_>> /\ failures' >= failures
         /\ ~WriteLog => written' = written
<1>0. failures \in Nat
    BY FilesTyped
<1>1. CASE CallStep \/ InMemoryStep \/ RecycleWritten \/ CloseDestroyed \/ UNCHANGED pipelineVars
  <2>1. UNCHANGED <<before, maxFiles_, failures, written>>
      BY <1>1 DEF CallStep, InMemoryStep, RecycleWritten, CloseDestroyed, OnlyLogger,
         loggerFileVars, pipelineVars
  <2> QED
      BY <2>1, <1>0
<1>2. CASE WriteLog
  <2>1. UNCHANGED <<before, maxFiles_>>
      BY <1>2 DEF WriteLog, Files!Write, Files!loggerVars
  <2> QED
      BY <1>2, <2>1, FailuresGrow DEF WriteLog
<1>3. CASE FileWork
  <2>1. UNCHANGED <<before, maxFiles_, written>>
      BY <1>3 DEF FileWork, Files!CannotRead, Files!Scan, Files!ScanDone, Files!Close,
         Files!Rename, Files!DeleteOldFile, Files!Reopen, Files!loggerVars, Files!countVars
  <2>2. CASE Files!Close
      BY <2>1, <2>2, FailuresGrow
  <2>3. CASE ~Files!Close
    <3>1. failures' \in {failures, failures + 1}
        BY <1>3, <2>3 DEF FileWork, Files!CannotRead, Files!Scan, Files!ScanDone, Files!Rename,
           Files!DeleteOldFile, Files!Reopen, Files!Outcome, Files!countVars
    <3> QED
        BY <1>0, <2>1, <3>1
  <2> QED
      BY <2>2, <2>3
<1>4. CASE FlushFile \/ DestroyFile
  <2>1. UNCHANGED <<before, maxFiles_, written>>
      BY <1>4 DEF FlushFile, Files!Flush, DestroyFile, Files!Destroy, Files!loggerVars,
         Files!countVars, loggerFileVars
  <2>2. failures' = failures \/ Files!Flush
      BY <1>4 DEF FlushFile, DestroyFile, Files!Destroy, Files!countVars, loggerFileVars
  <2>3. failures' >= failures
      BY <2>2, <1>0, FailuresGrow
  <2> QED
      BY <1>4, <2>1, <2>3 DEF FlushFile, DestroyFile
<1> QED
    BY <1>1, <1>2, <1>3, <1>4 DEF PipelineNext

\* Where nothing fails and nothing is removed, every chunk written stays.
LEMMA AllOnDiskStep ==
  ASSUME PipelineInv, before.chunks \in 0..written, OneLoggerFile, AllOnDisk,
         [PipelineNext]_pipelineVars
  PROVE  AllOnDisk'
<1>0. IInv /\ Joint /\ FilesProofs!IInv /\ written \in Nat /\ failures \in Nat
    BY FilesTyped DEF PipelineInv
<1>1. ASSUME written' = written, before'.chunks = written PROVE AllOnDisk'
  <2>1. \A c \in 1..written : ~(c > written)
      BY <1>0
  <2> QED
      BY <1>1, <2>1 DEF AllOnDisk
<1>2. CASE Restart
    BY <1>1, <1>2 DEF Restart, Files!Restart
<1>3. CASE Construct
  <2>1. ~Finished
      BY <1>0, <1>3 DEF Construct, ThreadWrites, DestructorWrites, Finished, IInv, PhasesAgree
  <2>2. pc = "none" /\ UNCHANGED <<written, before>>
      BY <1>3 DEF Construct, Files!Construct
  <2> QED
      BY <2>1, <2>2, <1>1 DEF OneLoggerFile
<1>4. CASE ~Restart /\ ~Construct
  <2> SUFFICES ASSUME orderly', maxFiles_' = 0, failures' = before'.failures,
                      NEW c \in 1..written', c > before'.chunks
               PROVE  OnDisk(current', rotated', c)
      BY DEF AllOnDisk
  <2>1. /\ UNCHANGED <<before, maxFiles_>> /\ failures' >= failures
        /\ ~WriteLog => written' = written
      BY <1>0, <1>4, WhatStays
  <2>2. failures = before.failures
      BY <1>0, <2>1 DEF Joint
  <2>3. orderly
    <3>1. [FilesProofs!Next]_(FilesProofs!vars)
        BY FilesStep, FilesAgree
    <3> QED
        BY <3>1, FilesProofs!OrderlyWas, FilesAssumption
  <2>4. ASSUME c \in 1..written PROVE OnDisk(current', rotated', c)
    <3>1. OnDisk(current, rotated, c)
        BY <2>1, <2>2, <2>3, <2>4 DEF AllOnDisk
    <3>2. ~(maxFiles_ > 0 /\ pc \in {"scan", "delete"}) /\ ~(failures' > failures)
        BY <2>1, <2>2, <1>0
    <3> QED
        BY <3>1, <3>2, <1>4, DiskStays
  <2>5. CASE WriteLog
    <3>1. Files!Write /\ UNCHANGED before /\ written' = written + 1
        BY <2>5 DEF WriteLog, Files!Write
    <3>2. fp_
      <4>1. pc \in {"write", "ready"}
          BY <3>1 DEF Files!Write
      <4>2. ~(failures > before.failures)
          BY <1>0, <2>2
      <4> QED
          BY <1>0, <4>1, <4>2 DEF Joint
    <3>3. OnDisk(current', rotated', written + 1)
      <4>1. ~(failures' > failures)
          BY <1>0, <2>1, <2>2
      <4> QED
          BY <1>0, <3>1, <3>2, <4>1, AppendedKept
    <3>4. c = written + 1 \/ c \in 1..written
        BY <1>0, <3>1
    <3> QED
        BY <2>4, <3>3, <3>4
  <2> QED
      BY <2>1, <2>4, <2>5
<1> QED
    BY <1>2, <1>3, <1>4

-----------------------------------------------------------------------------
(* Reading the files *)

\* What is known of the text, of the chunks and of the files together.
ReadingInv ==
  TextsClosed /\ ChunksTell /\ OneLoggerFile /\ KeptRun /\ AllOnDisk

\* It holds when the first process starts, after every step, and so always.
LEMMA ReadingInit == ASSUME PipelineInit PROVE ReadingInv
<1>0. /\ chunks = <<>> /\ written = 0 /\ before = [calls |-> 0, chunks |-> 0, failures |-> 0]
      /\ file = <<>> /\ accepted = <<>> /\ calls = 0 /\ lostCounter_ = 0
      /\ current = <<>> /\ rotated = <<>> /\ pc = "none" /\ closing = FALSE
    BY DEF PipelineInit, Init, Files!Init
<1>1. TextsClosed
  <2>1. \A b \in Buffers : str[b].text = <<>>
      BY DEF PipelineInit, Init, Reserved
  <2> QED
      BY <2>1 DEF TextsClosed, Closed
<1>2. ChunksTell
  <2>1. PICK upto : upto = [c \in {0} |-> 0]
      OBVIOUS
  <2>2. Rest = <<>>
      BY <1>0 DEF Rest
  <2>3. Account(<<>>, 0, 0)
      BY EmptyAccount
  <2>4. /\ 0..0 = {0} /\ 1..0 = {} /\ (0 + 1)..0 = {} /\ 0 - 0 = 0 /\ upto[0] = 0
        /\ 0 \in Nat /\ 0 <= 0
      BY <2>1
  <2>5. ToldUpTo(upto)
      BY <1>0, <2>2, <2>3, <2>4 DEF ToldUpTo
  <2> QED
      BY <1>0, <2>4, <2>5 DEF ChunksTell
<1>3. OneLoggerFile
    BY <1>0 DEF OneLoggerFile
<1>4. KeptRun
  <2>1. Kept = {}
      BY <1>0 DEF Kept, OfThisProcess, InFiles, Elements
  <2> QED
      BY <2>1 DEF KeptRun, Run
<1>5. AllOnDisk
    BY <1>0 DEF AllOnDisk
<1> QED
    BY <1>1, <1>2, <1>3, <1>4, <1>5 DEF ReadingInv

LEMMA ReadingStep ==
  ASSUME PipelineInv, PipelineInv', ReadingInv, [PipelineNext]_pipelineVars PROVE ReadingInv'
<1>0. /\ IInv /\ IInv' /\ FilesProofs!IInv /\ FilesProofs!IInv' /\ Joint
      /\ TextsClosed /\ ChunksTell /\ OneLoggerFile /\ KeptRun /\ AllOnDisk
      /\ before.chunks \in 0..written
    BY DEF PipelineInv, ReadingInv, ChunksTell
<1>1. TextsClosed'
  <2>1. lostCounter_ <= calls
      BY <1>0, TellTyped
  <2> QED
      BY <1>0, <2>1, TextsClosedStep
<1>2. ChunksTell'
    BY <1>0, ChunksTellStep
<1>3. OneLoggerFile'
    BY <1>0, OneLoggerFileStep
<1>4. KeptRun'
    BY <1>0, KeptRunStep
<1>5. AllOnDisk'
    BY <1>0, AllOnDiskStep
<1> QED
    BY <1>1, <1>2, <1>3, <1>4, <1>5 DEF ReadingInv

LEMMA ReadingHolds == PipelineSpec => [](PipelineInv /\ ReadingInv)
<1>1. PipelineInit => ReadingInv
    BY ReadingInit
<1>2. PipelineInv /\ PipelineInv' /\ ReadingInv /\ [PipelineNext]_pipelineVars => ReadingInv'
    BY ReadingStep
<1> QED
    BY <1>1, <1>2, PipelineInvariantHolds, PTL DEF PipelineSpec

\* A chunk tells of the calls that its entries tell of.
LEMMA ToldIs ==
  ASSUME Joint, FilesProofs!IInv, NEW c \in 1..written
  PROVE  /\ DOMAIN chunks[c] = 1..Len(chunks[c])
         /\ \A n : n \in Told(c) <=> TellsOf(chunks[c], n)
<1>1. chunks[c] \in Seq(Entries)
  <2> DEFINE S == Seq(Entries)
  <2>1. chunks \in Seq(S) /\ Len(chunks) = written
      BY DEF Joint
  <2> HIDE DEF S
  <2>2. chunks[c] \in S
      BY <2>1, ElementOfSeq
  <2> QED
      BY <2>2 DEF S
<1>2. DOMAIN chunks[c] = 1..Len(chunks[c])
  <2> DEFINE s == chunks[c]
  <2> HIDE DEF s
  <2>1. s \in Seq(Entries)
      BY <1>1 DEF s
  <2> QED
      BY <2>1, LenProperties DEF s
<1> QED
    BY <1>2 DEF Told, TellsOf

\* The names of the files put the chunks in the order they were written.
LEMMA ReadInOrder ==
  ASSUME FilesProofs!IInv, orderly, NEW c, NEW d, ReadBefore(c, d)
  PROVE  c \in 1..written /\ d \in 1..written /\ c < d
<1>1. /\ FilesProofs!Increasing(current)
      /\ \A m \in DOMAIN rotated : FilesProofs!Increasing(rotated[m])
      /\ \A m \in DOMAIN rotated : FilesProofs!AllLess(rotated[m], current)
      /\ \A m, n \in DOMAIN rotated :
           FilesProofs!Before(m, n) => FilesProofs!AllLess(rotated[m], rotated[n])
    BY DEF FilesProofs!IInv, FilesProofs!NameOrder
<1>2. /\ \A i \in DOMAIN current : current[i] \in 1..written
      /\ \A m \in DOMAIN rotated : \A i \in DOMAIN rotated[m] : rotated[m][i] \in 1..written
    BY FilesTyped
<1>3. CASE \E i, j \in DOMAIN current : i < j /\ current[i] = c /\ current[j] = d
    BY <1>1, <1>2, <1>3 DEF FilesProofs!Increasing
<1>4. ASSUME NEW m \in DOMAIN rotated,
             \E i, j \in DOMAIN rotated[m] : i < j /\ rotated[m][i] = c /\ rotated[m][j] = d
      PROVE  c \in 1..written /\ d \in 1..written /\ c < d
  <2>1. FilesProofs!Increasing(rotated[m])
      BY <1>1
  <2> QED
      BY <2>1, <1>2, <1>4 DEF FilesProofs!Increasing
<1>5. ASSUME NEW m \in DOMAIN rotated, NEW i \in DOMAIN rotated[m], rotated[m][i] = c,
             NEW j \in DOMAIN current, current[j] = d
      PROVE  c \in 1..written /\ d \in 1..written /\ c < d
  <2>1. FilesProofs!AllLess(rotated[m], current)
      BY <1>1
  <2> QED
      BY <2>1, <1>2, <1>5 DEF FilesProofs!AllLess
<1>6. ASSUME NEW m \in DOMAIN rotated, NEW i \in DOMAIN rotated[m], rotated[m][i] = c,
             NEW n \in DOMAIN rotated, Files!Before(m, n),
             NEW j \in DOMAIN rotated[n], rotated[n][j] = d
      PROVE  c \in 1..written /\ d \in 1..written /\ c < d
  <2>1. FilesProofs!AllLess(rotated[m], rotated[n])
      BY <1>1, <1>6 DEF Files!Before, FilesProofs!Before
  <2> QED
      BY <2>1, <1>2, <1>6 DEF FilesProofs!AllLess
<1> QED
    BY <1>3, <1>4, <1>5, <1>6 DEF ReadBefore, Elements

\* The chunk that tells of a call between two others is between their chunks.
LEMMA ToldBetween ==
  ASSUME NEW upto, ToldUpTo(upto), written \in Nat, before.chunks \in 0..written,
         NEW a \in 1..written, NEW b \in 1..written, a > before.chunks,
         NEW m \in (upto[a - 1] + 1)..upto[a], NEW n \in (upto[b - 1] + 1)..upto[b],
         NEW x \in m..n
  PROVE  \E c \in 1..written :
           /\ a <= c /\ c <= b /\ c > before.chunks
           /\ x \in (upto[c - 1] + 1)..upto[c]
<1>1. /\ \A c \in 0..written : upto[c] \in Nat
      /\ upto[before.chunks] = before.calls
      /\ \A c, d \in 0..written : c <= d => upto[c] <= upto[d]
      /\ \A y \in (before.calls + 1)..upto[written] :
           \E c \in 1..written : c > before.chunks /\ y \in (upto[c - 1] + 1)..upto[c]
    BY DEF ToldUpTo
<1>2. /\ a - 1 \in 0..written /\ a \in 0..written /\ b - 1 \in 0..written /\ b \in 0..written
      /\ written \in 0..written /\ before.chunks <= a - 1 /\ b <= written
    OBVIOUS
<1>3. /\ upto[a - 1] \in Nat /\ upto[b] \in Nat /\ upto[written] \in Nat
      /\ upto[a] \in Nat /\ upto[b - 1] \in Nat
      /\ before.calls \in Nat /\ before.calls <= upto[a - 1] /\ upto[b] <= upto[written]
    BY <1>1, <1>2
<1>4. x \in Int /\ upto[a - 1] < x /\ x <= upto[b]
    BY <1>3
<1>5. x \in (before.calls + 1)..upto[written]
    BY <1>3, <1>4
<1>6. PICK c \in 1..written : c > before.chunks /\ x \in (upto[c - 1] + 1)..upto[c]
    BY <1>1, <1>5
<1>7. c \in 0..written /\ c - 1 \in 0..written
    OBVIOUS
<1>8. upto[c] \in Nat /\ upto[c - 1] \in Nat /\ upto[c - 1] < x /\ x <= upto[c]
    BY <1>1, <1>6, <1>7
<1>9. ~(c <= a - 1)
  <2> SUFFICES ASSUME c <= a - 1 PROVE FALSE
      OBVIOUS
  <2>1. upto[c] <= upto[a - 1]
      BY <1>1, <1>2, <1>7
  <2> QED
      BY <2>1, <1>3, <1>4, <1>8
<1>a. ~(b <= c - 1)
  <2> SUFFICES ASSUME b <= c - 1 PROVE FALSE
      OBVIOUS
  <2>1. upto[b] <= upto[c - 1]
      BY <1>1, <1>2, <1>7
  <2> QED
      BY <2>1, <1>3, <1>4, <1>8
<1>b. a <= c /\ c <= b
    BY <1>9, <1>a
<1> QED
    BY <1>6, <1>b

\* Chunks that tell of calls have told of those before.
LEMMA OrderTold ==
  ASSUME NEW upto, ToldUpTo(upto), written \in Nat,
         NEW c \in 1..written, NEW d \in 1..written, c < d,
         NEW m \in (upto[c - 1] + 1)..upto[c], NEW n \in (upto[d - 1] + 1)..upto[d]
  PROVE  m < n
<1>1. /\ c \in 0..written /\ c - 1 \in 0..written /\ d \in 0..written /\ d - 1 \in 0..written
      /\ c <= d - 1
    OBVIOUS
<1>2. /\ upto[c] \in Nat /\ upto[c - 1] \in Nat /\ upto[d] \in Nat /\ upto[d - 1] \in Nat
      /\ upto[c] <= upto[d - 1]
    BY <1>1 DEF ToldUpTo
<1> QED
    BY <1>2

\* The files, read in the order of their names, tell of the calls in their
\* order, and what is kept of a process has no hole but the chunks that failed
\* calls of stdio lost: each chunk tells of the calls from where the one before
\* it ended, and what is kept is, with those chunks, a run.
THEOREM FilesReadInOrder == PipelineSpec => []FilesReadAsLog
<1> SUFFICES ASSUME PipelineInv, ReadingInv PROVE FilesReadAsLog
    BY ReadingHolds, PTL
<1> SUFFICES ASSUME orderly
             PROVE  /\ \A c \in ChunksOnDisk : \A i, j \in DOMAIN chunks[c] :
                         i < j => AllBefore(ToldBy(chunks[c], i), ToldBy(chunks[c], j))
                    /\ \A c, d \in ChunksOnDisk : ReadBefore(c, d) => AllBefore(Told(c), Told(d))
                    /\ \A m, n \in ToldOf(Kept) :
                         m..n \subseteq ToldOf(Kept) \cup ToldOf(dropped)
    BY DEF FilesReadAsLog
<1>0. /\ IInv /\ FilesProofs!IInv /\ Joint /\ ChunksTell /\ KeptRun
      /\ written \in Nat /\ before.chunks \in 0..written
    BY FilesTyped DEF PipelineInv, ReadingInv, ChunksTell
<1>1. PICK upto : ToldUpTo(upto)
    BY <1>0 DEF ChunksTell
<1>2. ASSUME NEW c \in 1..written
      PROVE  /\ Ranged(chunks[c]) /\ DOMAIN chunks[c] = 1..Len(chunks[c])
             /\ \A n : n \in Told(c) => n \in (upto[c - 1] + 1)..upto[c]
             /\ c > before.chunks => \A n \in (upto[c - 1] + 1)..upto[c] : n \in Told(c)
  <2>1. DOMAIN chunks[c] = 1..Len(chunks[c]) /\ \A n : n \in Told(c) <=> TellsOf(chunks[c], n)
      BY <1>0, ToldIs
  <2> QED
      BY <2>1, <1>1 DEF ToldUpTo, Within
<1>3. ASSUME NEW c \in ChunksOnDisk PROVE c \in 1..written
    BY <1>0, FilesTyped DEF ChunksOnDisk, InFiles, Elements
<1>4. ASSUME NEW c \in ChunksOnDisk, NEW i \in DOMAIN chunks[c], NEW j \in DOMAIN chunks[c], i < j
      PROVE  AllBefore(ToldBy(chunks[c], i), ToldBy(chunks[c], j))
    BY <1>2, <1>3, <1>4 DEF Ranged
<1>5. ASSUME NEW c, NEW d, ReadBefore(c, d) PROVE AllBefore(Told(c), Told(d))
  <2>1. c \in 1..written /\ d \in 1..written /\ c < d
      BY <1>0, <1>5, ReadInOrder
  <2>2. ASSUME NEW m \in Told(c), NEW n \in Told(d) PROVE m < n
    <3>1. m \in (upto[c - 1] + 1)..upto[c] /\ n \in (upto[d - 1] + 1)..upto[d]
        BY <2>1, <1>2
    <3> QED
        BY <3>1, <2>1, <1>0, <1>1, OrderTold
  <2> QED
      BY <2>2 DEF AllBefore
<1>6. ASSUME NEW m \in ToldOf(Kept), NEW n \in ToldOf(Kept), NEW x \in m..n
      PROVE  x \in ToldOf(Kept) \cup ToldOf(dropped)
  <2>1. Kept \subseteq 1..written /\ \A c \in Kept : c > before.chunks
      BY <1>0, KeptBounded
  <2>2. PICK a \in Kept : m \in Told(a)
      BY DEF ToldOf
  <2>3. PICK b \in Kept : n \in Told(b)
      BY DEF ToldOf
  <2>4. /\ a \in 1..written /\ b \in 1..written /\ a > before.chunks
        /\ m \in (upto[a - 1] + 1)..upto[a] /\ n \in (upto[b - 1] + 1)..upto[b]
      BY <2>1, <2>2, <2>3, <1>2
  <2>5. PICK c \in 1..written : /\ a <= c /\ c <= b /\ c > before.chunks
                                /\ x \in (upto[c - 1] + 1)..upto[c]
      BY <2>4, <1>0, <1>1, ToldBetween
  <2>6. c \in Kept \cup dropped
    <3>1. c = a \/ c = b \/ (a < c /\ c < b)
        BY <2>4, <2>5
    <3>2. c \in Nat /\ Run(Kept, dropped, written, Live)
        BY <1>0 DEF KeptRun
    <3> QED
        BY <3>1, <3>2, <2>2, <2>3 DEF Run
  <2>7. x \in Told(c)
      BY <2>5, <1>2
  <2> QED
      BY <2>6, <2>7 DEF ToldOf
<1> QED
    BY <1>4, <1>5, <1>6

\* When the destructor has returned and nothing failed, nothing is removed and
\* the names are in order, the files tell of just the calls of the process, but
\* for the losses since the last notice: nothing accepted is unwritten, and all
\* that is written is in a file.
THEOREM ShutdownTellsAll == PipelineSpec => []ShutdownIsComplete
<1> SUFFICES ASSUME PipelineInv, ReadingInv PROVE ShutdownIsComplete
    BY ReadingHolds, PTL
<1> SUFFICES ASSUME dtor = "done", failures = before.failures, maxFiles_ = 0, orderly
             PROVE  ToldOf(OfThisProcess(ChunksOnDisk)) = (before.calls + 1)..(calls - lostCounter_)
    BY DEF ShutdownIsComplete
<1>0. IInv /\ FilesProofs!IInv /\ Joint /\ ChunksTell /\ AllOnDisk
    BY DEF PipelineInv, ReadingInv
<1>t. /\ written \in Nat /\ calls \in Nat /\ lostCounter_ \in Nat /\ lostCounter_ <= calls
      /\ before.chunks \in 0..written /\ before.calls \in Nat
    BY <1>0, TellTyped
<1>1. PICK upto : ToldUpTo(upto)
    BY <1>0 DEF ChunksTell
<1> DEFINE v == calls - lostCounter_
<1>2. upto[written] = v
  <2>1. Rest = <<>>
    <3>1. file = accepted /\ Len(accepted) \in Nat
        BY <1>0, AllWritten, RestTyped DEF RestIs
    <3>2. SubSeq(accepted, Len(accepted) + 1, Len(accepted)) = <<>>
        BY <3>1
    <3> QED
        BY <3>1, <3>2 DEF Rest
  <2>2. upto[written] \in Nat /\ upto[written] <= v /\ v \in Nat
        /\ Account(<<>>, upto[written], v)
    <3>1. written \in 0..written
        BY <1>t
    <3> QED
        BY <3>1, <2>1, <1>t, <1>1 DEF ToldUpTo
  <2>3. ~TellsOf(<<>>, v)
      BY DEF TellsOf
  <2>4. v \notin (upto[written] + 1)..v
      BY <2>2, <2>3 DEF Account
  <2> HIDE DEF v
  <2> QED
      BY <2>2, <2>4
<1>3. ASSUME NEW c \in 1..written
      PROVE  /\ \A n : n \in Told(c) => n \in (upto[c - 1] + 1)..upto[c]
             /\ c > before.chunks => \A n \in (upto[c - 1] + 1)..upto[c] : n \in Told(c)
  <2>1. \A n : n \in Told(c) <=> TellsOf(chunks[c], n)
      BY <1>0, ToldIs
  <2> QED
      BY <2>1, <1>1 DEF ToldUpTo, Within
<1>4. ASSUME NEW c
      PROVE  c \in OfThisProcess(ChunksOnDisk) <=> c \in 1..written /\ c > before.chunks
  <2>1. c \in ChunksOnDisk <=> OnDisk(current, rotated, c)
      BY DEF ChunksOnDisk, InFiles, Elements, OnDisk
  <2>2. OnDisk(current, rotated, c) => c \in 1..written
      BY <1>0, FilesTyped DEF OnDisk
  <2>3. c \in 1..written /\ c > before.chunks => OnDisk(current, rotated, c)
      BY <1>0 DEF AllOnDisk
  <2> QED
      BY <2>1, <2>2, <2>3 DEF OfThisProcess
<1>5. ASSUME NEW n \in ToldOf(OfThisProcess(ChunksOnDisk)) PROVE n \in (before.calls + 1)..v
  <2>1. PICK c \in 1..written : c > before.chunks /\ n \in Told(c)
      BY <1>4 DEF ToldOf
  <2>2. n \in (upto[c - 1] + 1)..upto[c]
      BY <2>1, <1>3
  <2>3. /\ before.chunks \in 0..written /\ c - 1 \in 0..written /\ c \in 0..written
        /\ written \in 0..written /\ before.chunks <= c - 1 /\ c <= written
      BY <2>1, <1>t
  <2>4. /\ upto[before.chunks] = before.calls
        /\ upto[before.chunks] <= upto[c - 1] /\ upto[c] <= upto[written]
        /\ upto[c - 1] \in Nat /\ upto[c] \in Nat
      BY <2>3, <1>1 DEF ToldUpTo
  <2>5. before.calls \in Nat /\ v \in Nat /\ before.calls <= upto[c - 1] /\ upto[c] <= v
      BY <2>4, <1>2, <1>t
  <2> HIDE DEF v
  <2> QED
      BY <2>2, <2>4, <2>5
<1>6. ASSUME NEW n \in (before.calls + 1)..v PROVE n \in ToldOf(OfThisProcess(ChunksOnDisk))
  <2>1. PICK c \in 1..written : c > before.chunks /\ n \in (upto[c - 1] + 1)..upto[c]
      BY <1>1, <1>2 DEF ToldUpTo
  <2>2. n \in Told(c) /\ c \in OfThisProcess(ChunksOnDisk)
      BY <2>1, <1>3, <1>4
  <2> QED
      BY <2>2 DEF ToldOf
<1> QED
    BY <1>5, <1>6

=============================================================================
