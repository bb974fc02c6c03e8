-------------------------- MODULE LoggerFile_proofs --------------------------
(***************************************************************************)
(* Proofs about LoggerFile, for any dates, limits, retentions and bounds.  *)
(* Three things are kept by every step: filenameQueue_ tells of all the    *)
(* renamed files that retention has to see to (Kept); as long as names     *)
(* come in order, each name is earlier than the next one to be given and   *)
(* the queue is sorted (Ordered); and a chunk in a file is one that has    *)
(* been written (Chunks).                                                  *)
(***************************************************************************)
EXTENDS LoggerFile, SequenceTheorems, FiniteSetTheorems, TLAPS

-----------------------------------------------------------------------------
(* The order of names *)

\* Dates and sequence numbers compare like numbers.
LEMMA NamesAreOrdered ==
  /\ \A n \in Names : ~Before(n, n)
  /\ \A m, n \in Names : m = n \/ Before(m, n) \/ Before(n, m)
  /\ \A l, m, n \in Names : Before(l, m) /\ Before(m, n) => Before(l, n)
<1>1. \A n \in Names : n[1] \in Nat /\ n[2] \in Nat /\ n = <<n[1], n[2]>>
  <2> DEFINE T == 0..(MaxSeq - 1)
  <2>1. T \subseteq Nat
      BY LimitsAssumption
  <2> HIDE DEF T
  <2>2. \A n \in Dates \X T : n[1] \in Dates /\ n[2] \in T /\ n = <<n[1], n[2]>>
      OBVIOUS
  <2> QED
      BY <2>1, <2>2, DatesAssumption DEF Names, T
<1> QED
    BY <1>1 DEF Before

\* How many names of S come before n.
Rank(S, n) == Cardinality({m \in S : Before(m, n)})

\* No two names have the same number of names before them, and each number
\* below the size of the set is that of a name.
LEMMA Ranks ==
  ASSUME NEW S \in SUBSET Names, IsFiniteSet(S)
  PROVE  /\ Cardinality(S) \in Nat
         /\ \A n \in S : Rank(S, n) \in 0..(Cardinality(S) - 1)
         /\ \A m, n \in S : Before(m, n) => Rank(S, m) < Rank(S, n)
         /\ \A m, n \in S : Rank(S, m) = Rank(S, n) => m = n
         /\ \A i \in 0..(Cardinality(S) - 1) : \E n \in S : Rank(S, n) = i
<1> DEFINE N == Cardinality(S)
           below(n) == {m \in S : Before(m, n)}
<1>1. N \in Nat
    BY FS_CardinalityType
<1>2. ASSUME NEW n \in S
      PROVE  IsFiniteSet(below(n)) /\ Rank(S, n) \in Nat
    BY FS_Subset, FS_CardinalityType DEF Rank
<1>3. ASSUME NEW n \in S PROVE Rank(S, n) \in 0..(N - 1)
  <2>1. below(n) \subseteq S \ {n}
      BY NamesAreOrdered
  <2>2. IsFiniteSet(S \ {n}) /\ Cardinality(S \ {n}) = N - 1
      BY FS_RemoveElement
  <2>3. Cardinality(below(n)) <= N - 1
      BY <2>1, <2>2, FS_Subset
  <2> QED
      BY <2>3, <1>1, <1>2 DEF Rank
<1>4. ASSUME NEW m \in S, NEW n \in S, Before(m, n) PROVE Rank(S, m) < Rank(S, n)
  <2>1. below(m) \subseteq below(n)
      BY <1>4, NamesAreOrdered
  <2>2. m \in below(n) /\ m \notin below(m)
      BY <1>4, NamesAreOrdered
  <2>3. IsFiniteSet(below(n)) /\ Rank(S, m) \in Nat /\ Rank(S, n) \in Nat
      BY <1>2
  <2>4. Cardinality(below(m)) <= Cardinality(below(n))
      BY <2>1, <2>3, FS_Subset
  <2>5. Cardinality(below(n)) # Cardinality(below(m))
      BY <2>1, <2>2, <2>3, FS_Subset
  <2> QED
      BY <2>3, <2>4, <2>5 DEF Rank
<1>5. ASSUME NEW m \in S, NEW n \in S, Rank(S, m) = Rank(S, n) PROVE m = n
  <2>1. Rank(S, m) \in Nat /\ Rank(S, n) \in Nat
      BY <1>2
  <2> QED
      BY <2>1, <1>4, <1>5, NamesAreOrdered
<1>6. ASSUME NEW i \in 0..(N - 1) PROVE \E n \in S : Rank(S, n) = i
  <2> DEFINE T == 0..(N - 1)
             rank == [n \in S |-> Rank(S, n)]
  <2>1. IsFiniteSet(T) /\ Cardinality(T) = N
      BY <1>1, FS_Interval
  <2>2. rank \in [S -> T] /\ \A n \in S : rank[n] = Rank(S, n)
      BY <1>3
  <2>3. rank \in Injection(S, T)
      BY <2>2, <1>5 DEF Injection, IsInjective
  <2>4. rank \in Surjection(S, T)
      BY <2>1, <2>3, FS_Injection
  <2> QED
      BY <2>2, <2>4 DEF Surjection
<1> QED
    BY <1>1, <1>3, <1>4, <1>5, <1>6

\* Sorting keeps the names, each once, and puts them in order.
LEMMA SortedNames ==
  ASSUME NEW S \in SUBSET Names, IsFiniteSet(S)
  PROVE  /\ Sorted(S) \in Seq(Names) /\ Len(Sorted(S)) = Cardinality(S)
         /\ ToSet(Sorted(S)) = S
         /\ \A i, j \in 1..Cardinality(S) : i < j => Before(Sorted(S)[i], Sorted(S)[j])
<1> DEFINE N == Cardinality(S)
           s == Sorted(S)
<1>1. /\ N \in Nat
      /\ \A n \in S : Rank(S, n) \in 0..(N - 1)
      /\ \A m, n \in S : Before(m, n) => Rank(S, m) < Rank(S, n)
      /\ \A m, n \in S : Rank(S, m) = Rank(S, n) => m = n
      /\ \A i \in 0..(N - 1) : \E n \in S : Rank(S, n) = i
    BY Ranks
<1>2. s = [i \in 1..N |-> CHOOSE n \in S : Rank(S, n) = i - 1]
    BY DEF Sorted, Rank
<1>3. ASSUME NEW i \in 1..N PROVE s[i] \in S /\ Rank(S, s[i]) = i - 1
  <2>1. i - 1 \in 0..(N - 1)
      BY <1>1
  <2>2. \E n \in S : Rank(S, n) = i - 1
      BY <2>1, <1>1
  <2>3. s[i] = CHOOSE n \in S : Rank(S, n) = i - 1
      BY <1>2
  <2> QED
      BY <2>2, <2>3
<1>4. s \in [1..N -> Names]
    BY <1>2, <1>3
<1> HIDE DEF s
<1>5. s \in Seq(Names) /\ Len(s) = N /\ DOMAIN s = 1..N
    BY <1>1, <1>4, LenProperties
<1>6. ToSet(s) = S
  <2>1. ToSet(s) \subseteq S
      BY <1>3, <1>5 DEF ToSet
  <2>2. ASSUME NEW n \in S PROVE n \in ToSet(s)
    <3>1. Rank(S, n) + 1 \in 1..N /\ (Rank(S, n) + 1) - 1 = Rank(S, n)
        BY <1>1
    <3>2. s[Rank(S, n) + 1] = n
        BY <3>1, <1>1, <1>3
    <3> QED
        BY <3>1, <3>2, <1>5 DEF ToSet
  <2> QED
      BY <2>1, <2>2
<1>7. ASSUME NEW i \in 1..N, NEW j \in 1..N, i < j PROVE Before(s[i], s[j])
  <2>1. s[i] \in S /\ s[j] \in S /\ Rank(S, s[i]) = i - 1 /\ Rank(S, s[j]) = j - 1
      BY <1>3
  <2>2. s[i] # s[j] /\ ~Before(s[j], s[i])
      BY <2>1, <1>1, <1>7
  <2> QED
      BY <2>1, <2>2, NamesAreOrdered
<1> QED
    BY <1>5, <1>6, <1>7 DEF s

\* The earliest of some names is one of them, before all others.
LEMMA EarliestName ==
  ASSUME NEW S \in SUBSET Names, IsFiniteSet(S), S # {}
  PROVE  /\ Earliest(S) \in S
         /\ \A m \in S : m = Earliest(S) \/ Before(Earliest(S), m)
<1>1. Cardinality(S) \in Nat \ {0}
    BY FS_CardinalityType, FS_EmptySet
<1>2. PICK n \in S : Rank(S, n) = 0
  <2>1. 0 \in 0..(Cardinality(S) - 1)
      BY <1>1
  <2> QED
      BY <2>1, Ranks
<1>3. ASSUME NEW m \in S PROVE n = m \/ Before(n, m)
  <2>1. ~Before(m, n)
    <3>1. Before(m, n) => Rank(S, m) < 0
        BY <1>2, Ranks
    <3>2. Rank(S, m) \in 0..(Cardinality(S) - 1)
        BY Ranks
    <3> QED
        BY <3>1, <3>2, <1>1
  <2> QED
      BY <2>1, NamesAreOrdered
<1> QED
    BY <1>3 DEF Earliest

\* The names in a queue when one is put behind it or the first is taken.
LEMMA QueueNames ==
  ASSUME NEW s \in Seq(Names)
  PROVE  /\ DOMAIN s = 1..Len(s) /\ Len(s) \in Nat
         /\ ToSet(s) \subseteq Names /\ IsFiniteSet(ToSet(s)) /\ Cardinality(ToSet(s)) <= Len(s)
         /\ \A n \in Names : ToSet(Append(s, n)) = ToSet(s) \cup {n}
         /\ s # <<>> => Head(s) = s[1] /\ ToSet(s) = {Head(s)} \cup ToSet(Tail(s))
<1>1. DOMAIN s = 1..Len(s) /\ Len(s) \in Nat /\ \A i \in 1..Len(s) : s[i] \in Names
    BY LenProperties, ElementOfSeq
<1>2. ToSet(s) \subseteq Names
    BY <1>1 DEF ToSet
<1>3. IsFiniteSet(ToSet(s)) /\ Cardinality(ToSet(s)) <= Len(s)
  <2>1. s \in Surjection(1..Len(s), ToSet(s))
      BY <1>1 DEF Surjection, ToSet
  <2>2. IsFiniteSet(1..Len(s)) /\ Cardinality(1..Len(s)) = Len(s)
    <3>1. ASSUME NEW k \in Nat PROVE IsFiniteSet(1..k) /\ Cardinality(1..k) = k
        BY FS_Interval
    <3> QED
        BY <3>1, <1>1
  <2> QED
      BY <2>1, <2>2, FS_Surjection
<1>4. ASSUME NEW n \in Names PROVE ToSet(Append(s, n)) = ToSet(s) \cup {n}
  <2> DEFINE t == Append(s, n)
  <2>1. /\ Len(t) = Len(s) + 1 /\ t[Len(s) + 1] = n /\ \A i \in 1..Len(s) : t[i] = s[i]
        /\ t \in Seq(Names)
      BY AppendProperties
  <2>2. DOMAIN t = 1..(Len(s) + 1)
      BY <2>1, LenProperties
  <2> HIDE DEF t
  <2>3. \A i : i \in 1..(Len(s) + 1) <=> i \in 1..Len(s) \/ i = Len(s) + 1
      BY <1>1
  <2>4. {t[i] : i \in DOMAIN t} = {s[i] : i \in DOMAIN s} \cup {n}
      BY <2>1, <2>2, <2>3, <1>1
  <2> QED
      BY <2>4 DEF ToSet, t
<1>5. ASSUME s # <<>> PROVE Head(s) = s[1] /\ ToSet(s) = {Head(s)} \cup ToSet(Tail(s))
  <2> DEFINE t == Tail(s)
  <2>1. /\ t \in Seq(Names) /\ Len(t) = Len(s) - 1 /\ \A i \in 1..(Len(s) - 1) : t[i] = s[i + 1]
        /\ Len(s) # 0
      BY <1>5, HeadTailProperties, EmptySeq
  <2>2. DOMAIN t = 1..(Len(s) - 1)
      BY <2>1, LenProperties
  <2>3. Head(s) = s[1]
      OBVIOUS
  <2> HIDE DEF t
  <2>4. \A i \in 1..Len(s) : i = 1 \/ (i - 1 \in 1..(Len(s) - 1) /\ (i - 1) + 1 = i)
      BY <1>1
  <2>5. \A i \in 1..(Len(s) - 1) : i + 1 \in 1..Len(s)
      BY <1>1
  <2>6. 1 \in 1..Len(s)
      BY <1>1, <2>1
  <2>7. {s[i] : i \in DOMAIN s} \subseteq {s[1]} \cup {t[i] : i \in DOMAIN t}
    <3>1. ASSUME NEW i \in 1..Len(s) PROVE s[i] = s[1] \/ \E k \in DOMAIN t : s[i] = t[k]
      <4>1. CASE i - 1 \in 1..(Len(s) - 1) /\ (i - 1) + 1 = i
          BY <4>1, <2>1, <2>2
      <4> QED
          BY <4>1, <2>4
    <3> QED
        BY <3>1, <1>1
  <2>8. {s[1]} \cup {t[i] : i \in DOMAIN t} \subseteq {s[i] : i \in DOMAIN s}
      BY <2>1, <2>2, <2>5, <2>6, <1>1
  <2> QED
      BY <2>3, <2>7, <2>8 DEF ToSet, t
<1> QED
    BY <1>1, <1>2, <1>3, <1>4, <1>5

-----------------------------------------------------------------------------
(* The inductive invariant *)

Renamed == DOMAIN rotated
QueueNamed == ToSet(filenameQueue_)

\* Only a logger has a queue, and only its constructor reads the directory.
Started ==
  /\ pc # "none" => ~fresh
  /\ ~fresh => creationDate_ \in Dates
  /\ fresh => filenameQueue_ = <<>>
  /\ pc # "scan" => unread = {}

\* A logger that keeps some of the renamed files has them all in its queue, but
\* those it has not read yet and those it could not read or remove, and between
\* its calls the queue is within the limit.
Kept ==
  /\ IsFiniteSet(Renamed)
  /\ pc = "scan" =>
       maxFiles_ > 0 /\ unread \subseteq Renamed /\ QueueNamed \subseteq Renamed \ unread
  /\ pc = "delete" => maxFiles_ > 0 /\ Len(filenameQueue_) = maxFiles_ + 1
  /\ pc \notin {"none", "delete"} /\ maxFiles_ > 0 => Len(filenameQueue_) <= maxFiles_
  /\ pc # "none" /\ maxFiles_ > 0 => Renamed \subseteq QueueNamed \cup leftovers \cup unread

\* A name is past when the next one to be given is later.
Past(n) == n[1] < creationDate_ \/ (n[1] = creationDate_ /\ (fresh \/ n[2] < fileSeq_))

InOrder(q) == \A i, j \in DOMAIN q : i < j => Before(q[i], q[j])

\* The names of files, also of those that retention has lost track of.
Given == Renamed \cup QueueNamed \cup leftovers

\* As long as names come in order all those given are past, the queue is
\* sorted, and it names no more missing files than renames have failed.
Ordered ==
  orderly => /\ \A n \in Given : Past(n)
             /\ InOrder(filenameQueue_)
             /\ Cardinality(QueueNamed \ Renamed) <= phantoms

\* The chunks in the files have been written.
Chunks ==
  /\ \A i \in DOMAIN current : current[i] \in 1..written
  /\ \A n \in DOMAIN rotated : \A i \in DOMAIN rotated[n] : rotated[n][i] \in 1..written

IInv == TypeOK /\ Started /\ Kept /\ Ordered /\ Chunks /\ NameOrder

-----------------------------------------------------------------------------
(* Helpers of the steps *)

\* Without takes one file away.
LEMMA WithoutFile ==
  ASSUME NEW files, NEW n
  PROVE  /\ DOMAIN Without(files, n) = DOMAIN files \ {n}
         /\ \A m \in DOMAIN files \ {n} : Without(files, n)[m] = files[m]
    BY DEF Without

\* The name that switchLog() gives is a name.
LEMMA RotatedNameIsName == ASSUME TypeOK, creationDate_ \in Dates PROVE RotatedName \in Names
<1>1. fileSeq_ % MaxSeq \in 0..(MaxSeq - 1)
    BY LimitsAssumption DEF TypeOK
<1> QED
    BY <1>1 DEF RotatedName, Names

\* What the scan does with a file of the directory.
LEMMA ScanNames ==
  ASSUME TypeOK, NEW n \in unread
  PROVE  LET names == QueueNamed \cup {n}
         IN  /\ names \subseteq Names /\ IsFiniteSet(names) /\ names # {}
             /\ Cardinality(names) \in Nat /\ Cardinality(names) <= Len(filenameQueue_) + 1
             /\ Earliest(names) \in names
             /\ \A m \in names \ {Earliest(names)} : Before(Earliest(names), m)
             /\ IsFiniteSet(names \ {Earliest(names)})
             /\ Cardinality(names \ {Earliest(names)}) = Cardinality(names) - 1
<1> DEFINE names == QueueNamed \cup {n}
<1>1. /\ QueueNamed \subseteq Names /\ IsFiniteSet(QueueNamed)
      /\ Cardinality(QueueNamed) <= Len(filenameQueue_) /\ Len(filenameQueue_) \in Nat
    BY QueueNames DEF TypeOK, QueueNamed
<1>2. Cardinality(QueueNamed) \in Nat
    BY <1>1, FS_CardinalityType
<1>3. /\ IsFiniteSet(names)
      /\ Cardinality(names) = IF n \in QueueNamed THEN Cardinality(QueueNamed)
                              ELSE Cardinality(QueueNamed) + 1
    BY <1>1, FS_AddElement
<1>4. names \subseteq Names /\ names # {}
    BY <1>1 DEF TypeOK
<1>5. Cardinality(names) \in Nat /\ Cardinality(names) <= Len(filenameQueue_) + 1
    BY <1>1, <1>2, <1>3
<1>6. /\ Earliest(names) \in names
      /\ \A m \in names : m = Earliest(names) \/ Before(Earliest(names), m)
    BY <1>3, <1>4, EarliestName
<1>7. /\ IsFiniteSet(names \ {Earliest(names)})
      /\ Cardinality(names \ {Earliest(names)}) = Cardinality(names) - 1
    BY <1>3, <1>6, FS_RemoveElement
<1> QED
    BY <1>3, <1>4, <1>5, <1>6, <1>7

-----------------------------------------------------------------------------
(* stdio *)

\* The first k elements of a sequence.
LEMMA FirstOf ==
  ASSUME NEW s \in Seq(Nat), NEW k \in 0..Len(s)
  PROVE  /\ SubSeq(s, 1, k) \in Seq(Nat) /\ Len(SubSeq(s, 1, k)) = k
         /\ \A i \in 1..k : i \in 1..Len(s) /\ SubSeq(s, 1, k)[i] = s[i]
         /\ SubSeq(s, 1, Len(s)) = s
<1>1. Len(s) \in Nat /\ DOMAIN s = 1..Len(s)
    BY LenProperties
<1>2. \A i \in 1..k : i \in 1..Len(s) /\ s[i] \in Nat
    BY <1>1, ElementOfSeq
<1>3. SubSeq(s, 1, k) = [i \in 1..k |-> s[i]]
    BY <1>1, <1>2
<1>4. SubSeq(s, 1, k) \in Seq(Nat) /\ Len(SubSeq(s, 1, k)) = k
    BY <1>1, <1>2, <1>3
<1>5. \A i \in 1..k : SubSeq(s, 1, k)[i] = s[i]
    BY <1>3
<1>6. SubSeq(s, 1, Len(s)) = s
  <2>1. SubSeq(s, 1, Len(s)) = [i \in 1..Len(s) |-> s[i]]
      BY <1>1
  <2> QED
      BY <2>1, <1>1
<1> QED
    BY <1>2, <1>4, <1>5, <1>6

\* A call of stdio leaves a beginning of the file, all of it when it works and
\* in any case what had been passed on, and loses no more than the rest.
LEMMA StdioEffect ==
  ASSUME NEW s \in Seq(Nat), NEW held \in 0..Len(s), NEW ok \in BOOLEAN, Stdio(ok, s, held),
         failures \in Nat
  PROVE  /\ current' \in Seq(Nat) /\ Len(current') \in Nat
         /\ Len(s) - held <= Len(current') /\ Len(current') <= Len(s)
         /\ \A i \in 1..Len(current') : i \in 1..Len(s) /\ current'[i] = s[i]
         /\ dropped' = dropped \cup {s[i] : i \in (Len(current') + 1)..Len(s)}
         /\ ok => current' = s /\ dropped' = dropped /\ failures' = failures
         /\ ~ok => failures' = failures + 1
         /\ failures' \in Nat
<1>0. Len(s) \in Nat
    BY LenProperties
<1>1. PICK k \in (IF ok THEN Len(s) ELSE Len(s) - held)..Len(s) :
        /\ current' = SubSeq(s, 1, k)
        /\ dropped' = dropped \cup {s[i] : i \in (k + 1)..Len(s)}
    BY DEF Stdio
<1>2. k \in 0..Len(s) /\ Len(s) - held <= k /\ (ok => k = Len(s))
    BY <1>0
<1>3. /\ current' \in Seq(Nat) /\ Len(current') = k
      /\ \A i \in 1..k : i \in 1..Len(s) /\ current'[i] = s[i]
    BY <1>1, <1>2, FirstOf
<1>4. ok => current' = s /\ dropped' = dropped
  <2> SUFFICES ASSUME ok PROVE current' = s /\ dropped' = dropped
      OBVIOUS
  <2>1. current' = s
      BY <1>1, <1>2, FirstOf
  <2>2. (k + 1)..Len(s) = {}
      BY <1>0, <1>2
  <2> QED
      BY <2>1, <2>2, <1>1
<1>5. (ok => failures' = failures) /\ (~ok => failures' = failures + 1) /\ failures' \in Nat
    BY DEF Stdio, Outcome
<1> QED
    BY <1>1, <1>2, <1>3, <1>4, <1>5

\* What the writing calls of the log thread do to the current file.
LEMMA WriteEffect ==
  ASSUME TypeOK, Write, fp_
  PROVE  /\ current' \in Seq(Nat) /\ Len(current') \in Nat /\ Len(current) \in Nat
         /\ written + 1 \in Nat /\ written' = written + 1
         /\ Passed \in 0..Len(current) /\ Passed <= Len(current')
         /\ unflushed' = Len(current') - Passed
         /\ Len(current') <= Len(current) + 1
         /\ \A i \in 1..Len(current') :
              IF i = Len(current) + 1 THEN current'[i] = written + 1
              ELSE i \in 1..Len(current) /\ current'[i] = current[i]
         /\ \A i \in 1..Len(current) : i \notin 1..Len(current') => current[i] \in dropped'
         /\ Len(current') # Len(current) + 1 => written + 1 \in dropped'
         /\ dropped \subseteq dropped'
         /\ dropped' \subseteq dropped \cup ToSet(current) \cup {written + 1}
         /\ \/ current' = Append(current, written + 1) /\ dropped' = dropped
            \/ failures' > failures
         /\ failures' \in Nat /\ failures' >= failures /\ pc' \in {"close", "ready"}
<1> DEFINE s == Append(current, written + 1)
<1>0. current \in Seq(Nat) /\ unflushed \in 0..Len(current) /\ written \in Nat /\ failures \in Nat
    BY DEF TypeOK
<1>1. Len(current) \in Nat /\ DOMAIN current = 1..Len(current)
    BY <1>0, LenProperties
<1>2. /\ s \in Seq(Nat) /\ Len(s) = Len(current) + 1 /\ s[Len(current) + 1] = written + 1
      /\ \A i \in 1..Len(current) : s[i] = current[i]
    BY <1>0, AppendProperties
<1>3. PICK ok \in BOOLEAN :
        /\ Stdio(ok, s, unflushed + 1)
        /\ unflushed' = Len(current') - Passed
    BY DEF Write
<1> HIDE DEF s
<1>4. unflushed + 1 \in 0..Len(s)
    BY <1>0, <1>1, <1>2
<1>5. /\ current' \in Seq(Nat) /\ Len(current') \in Nat
      /\ Len(s) - (unflushed + 1) <= Len(current') /\ Len(current') <= Len(s)
      /\ \A i \in 1..Len(current') : i \in 1..Len(s) /\ current'[i] = s[i]
      /\ dropped' = dropped \cup {s[i] : i \in (Len(current') + 1)..Len(s)}
      /\ ok => current' = s /\ dropped' = dropped /\ failures' = failures
      /\ ~ok => failures' = failures + 1
      /\ failures' \in Nat
    BY <1>0, <1>2, <1>3, <1>4, StdioEffect
<1>6. Passed \in 0..Len(current) /\ Passed <= Len(current')
    BY <1>0, <1>1, <1>2, <1>5 DEF Passed
<1>7. \A i \in 1..Len(current') :
        IF i = Len(current) + 1 THEN current'[i] = written + 1
        ELSE i \in 1..Len(current) /\ current'[i] = current[i]
    BY <1>1, <1>2, <1>5
<1>8. \A i \in 1..Len(s) : i \notin 1..Len(current') => s[i] \in dropped'
  <2>1. \A i \in 1..Len(s) : i \notin 1..Len(current') => i \in (Len(current') + 1)..Len(s)
      BY <1>1, <1>2, <1>5
  <2> QED
      BY <2>1, <1>5
<1>9. \A i \in 1..Len(current) : i \in 1..Len(s) /\ s[i] = current[i]
    BY <1>1, <1>2
<1>10. Len(current') # Len(current) + 1 => written + 1 \in dropped'
  <2>1. Len(current) + 1 \in 1..Len(s)
      BY <1>1, <1>2
  <2>2. Len(current') # Len(current) + 1 => Len(current) + 1 \notin 1..Len(current')
      BY <1>1, <1>2, <1>5
  <2> QED
      BY <2>1, <2>2, <1>2, <1>8
<1>11. dropped' \subseteq dropped \cup ToSet(current) \cup {written + 1}
  <2>1. \A i \in (Len(current') + 1)..Len(s) : i \in 1..Len(current) \/ i = Len(current) + 1
      BY <1>1, <1>2, <1>5
  <2> QED
      BY <2>1, <1>1, <1>2, <1>5 DEF ToSet
<1>12. \/ current' = Append(current, written + 1) /\ dropped' = dropped
       \/ failures' > failures
    BY <1>0, <1>5 DEF s
<1>13. written' = written + 1 /\ written + 1 \in Nat /\ pc' \in {"close", "ready"}
    BY <1>0 DEF Write
<1>14. /\ Len(current') <= Len(current) + 1 /\ dropped \subseteq dropped'
       /\ failures' \in Nat /\ failures' >= failures
    BY <1>0, <1>2, <1>5
<1> QED
    BY <1>1, <1>3, <1>5, <1>6, <1>7, <1>8, <1>9, <1>10, <1>11, <1>12, <1>13, <1>14

\* fflush() and fclose() write what stdio holds, or lose an end of it.
LEMMA FlushEffect ==
  ASSUME TypeOK, Flush \/ Close
  PROVE  /\ current' \in Seq(Nat) /\ Len(current') \in Nat /\ Len(current) \in Nat
         /\ Passed \in 0..Len(current) /\ Passed <= Len(current') /\ Len(current') <= Len(current)
         /\ unflushed' \in {0, Len(current') - Passed}
         /\ \A i \in 1..Len(current') : i \in 1..Len(current) /\ current'[i] = current[i]
         /\ \A i \in 1..Len(current) : i \notin 1..Len(current') => current[i] \in dropped'
         /\ dropped \subseteq dropped' /\ dropped' \subseteq dropped \cup ToSet(current)
         /\ (current' = current /\ dropped' = dropped) \/ failures' > failures
         /\ failures' \in Nat /\ failures' >= failures
<1>0. current \in Seq(Nat) /\ unflushed \in 0..Len(current) /\ failures \in Nat
    BY DEF TypeOK
<1>1. Len(current) \in Nat /\ DOMAIN current = 1..Len(current)
    BY <1>0, LenProperties
<1>2. PICK ok \in BOOLEAN :
        Stdio(ok, current, unflushed) /\ unflushed' \in {0, Len(current') - Passed}
    BY DEF Flush, Close
<1>3. /\ current' \in Seq(Nat) /\ Len(current') \in Nat
      /\ Len(current) - unflushed <= Len(current') /\ Len(current') <= Len(current)
      /\ \A i \in 1..Len(current') : i \in 1..Len(current) /\ current'[i] = current[i]
      /\ dropped' = dropped \cup {current[i] : i \in (Len(current') + 1)..Len(current)}
      /\ ok => current' = current /\ dropped' = dropped /\ failures' = failures
      /\ ~ok => failures' = failures + 1
      /\ failures' \in Nat
    BY <1>0, <1>2, StdioEffect
<1>4. Passed \in 0..Len(current) /\ Passed <= Len(current')
    BY <1>0, <1>1, <1>3 DEF Passed
<1>5. \A i \in 1..Len(current) : i \notin 1..Len(current') => current[i] \in dropped'
  <2>1. \A i \in 1..Len(current) :
          i \notin 1..Len(current') => i \in (Len(current') + 1)..Len(current)
      BY <1>1, <1>3
  <2> QED
      BY <2>1, <1>3
<1>6. dropped' \subseteq dropped \cup ToSet(current)
  <2>1. \A i \in (Len(current') + 1)..Len(current) : i \in DOMAIN current
      BY <1>1, <1>3
  <2> QED
      BY <2>1, <1>3 DEF ToSet
<1>7. /\ (current' = current /\ dropped' = dropped) \/ failures' > failures
      /\ failures' >= failures
    BY <1>0, <1>3
<1> QED
    BY <1>1, <1>2, <1>3, <1>4, <1>5, <1>6, <1>7

\* A restart leaves what stdio had passed on, and perhaps more.
LEMMA RestartEffect ==
  ASSUME TypeOK, Restart
  PROVE  /\ current' \in Seq(Nat) /\ Len(current') \in Nat /\ Len(current) \in Nat
         /\ Passed \in 0..Len(current) /\ Passed <= Len(current') /\ Len(current') <= Len(current)
         /\ unflushed' = 0
         /\ \A i \in 1..Len(current') : i \in 1..Len(current) /\ current'[i] = current[i]
<1>0. current \in Seq(Nat) /\ unflushed \in 0..Len(current)
    BY DEF TypeOK
<1>1. Len(current) \in Nat
    BY <1>0, LenProperties
<1>2. PICK k \in Passed..Len(current) : current' = SubSeq(current, 1, k)
    BY DEF Restart
<1>3. Passed \in 0..Len(current) /\ k \in 0..Len(current) /\ Passed <= k
    BY <1>0, <1>1 DEF Passed
<1>4. /\ current' \in Seq(Nat) /\ Len(current') = k
      /\ \A i \in 1..k : i \in 1..Len(current) /\ current'[i] = current[i]
    BY <1>0, <1>2, <1>3, FirstOf
<1>5. unflushed' = 0
    BY DEF Restart
<1> QED
    BY <1>1, <1>3, <1>4, <1>5

-----------------------------------------------------------------------------
(* Types *)

\* Every step keeps the types: what is renamed has a name, stdio holds no more
\* than the file has, and a file that is renamed was open.
LEMMA TypesStep == ASSUME IInv, [Next]_vars PROVE TypeOK'
<1>0. TypeOK /\ Started
    BY DEF IInv
<1> USE DEF loggerVars, otherVars, countVars, Outcome
<1>1. CASE Construct
  <2>1. /\ creationDate_' \in Dates /\ maxFiles_' \in Nat /\ switchOnLimitOnly_' \in BOOLEAN
        /\ fp_' \in BOOLEAN /\ failures' \in Nat /\ orderly' \in BOOLEAN
        /\ unread' \subseteq Names /\ pc' \in {"scan", "write"}
      BY <1>1, <1>0, LimitsAssumption DEF Construct, TypeOK
  <2>2. filenameQueue_' \in Seq(Names) /\ unflushed = 0
      BY <1>1, <1>0 DEF Construct, TypeOK
  <2> QED
      BY <1>1, <2>1, <2>2, <1>0 DEF Construct, TypeOK
<1>2. CASE CannotRead
    BY <1>2, <1>0 DEF CannotRead, TypeOK
<1>3. CASE Scan
  <2>1. PICK n \in unread :
          LET names == QueueNamed \cup {n}
              first == Earliest(names)
          IN  /\ unread' = unread \ {n}
              /\ IF Cardinality(names) <= maxFiles_
                 THEN filenameQueue_' = Sorted(names) /\ UNCHANGED <<rotated, leftovers, failures>>
                 ELSE /\ filenameQueue_' = Sorted(names \ {first})
                      /\ \E ok \in BOOLEAN :
                           /\ Outcome(ok)
                           /\ rotated' = IF ok THEN Without(rotated, first) ELSE rotated
                           /\ leftovers' = IF ok THEN leftovers ELSE leftovers \cup {first}
      BY <1>3 DEF Scan, QueueNamed
  <2> DEFINE names == QueueNamed \cup {n}
             first == Earliest(names)
  <2>2. /\ names \subseteq Names /\ IsFiniteSet(names)
        /\ first \in names /\ IsFiniteSet(names \ {first})
      BY <1>0, ScanNames
  <2>3. Sorted(names) \in Seq(Names) /\ Sorted(names \ {first}) \in Seq(Names)
      BY <2>2, SortedNames
  <2> HIDE DEF first, names
  <2>4. filenameQueue_' \in Seq(Names) /\ unread' \subseteq Names
      BY <2>1, <2>3, <1>0 DEF TypeOK, first, names
  <2>5. rotated' = rotated \/ rotated' = Without(rotated, first)
      BY <2>1 DEF first, names
  <2>6. DOMAIN rotated' \subseteq Names /\ \A m \in DOMAIN rotated' : rotated'[m] \in Seq(Nat)
    <3>1. CASE rotated' = rotated
        BY <3>1, <1>0 DEF TypeOK
    <3>2. CASE rotated' = Without(rotated, first)
        BY <3>2, <1>0 DEF TypeOK, Without
    <3> QED
        BY <2>5, <3>1, <3>2
  <2>7. leftovers' \subseteq Names /\ failures' \in Nat
      BY <2>1, <2>2, <1>0 DEF TypeOK, first, names
  <2> QED
      BY <1>3, <1>0, <2>4, <2>6, <2>7 DEF Scan, TypeOK
<1>4. CASE ScanDone
    BY <1>4, <1>0 DEF ScanDone, TypeOK
<1>5. CASE Write
  <2>1. CASE fp_
    <3>1. /\ current' \in Seq(Nat) /\ written' \in Nat /\ Len(current') \in Nat
          /\ Passed \in 0..Len(current) /\ Len(current) \in Nat
          /\ Passed <= Len(current') /\ unflushed' = Len(current') - Passed
          /\ dropped' \subseteq dropped \cup ToSet(current) \cup {written + 1}
          /\ written + 1 \in Nat
          /\ failures' \in Nat /\ pc' \in {"close", "ready"}
        BY <1>5, <2>1, <1>0, WriteEffect
    <3>2. unflushed' \in 0..Len(current')
        BY <3>1
    <3>3. dropped' \subseteq Nat
      <4>1. ToSet(current) \subseteq Nat
          BY <1>0, ElementOfSeq, LenProperties DEF ToSet, TypeOK
      <4> QED
          BY <4>1, <3>1, <1>0 DEF TypeOK
    <3> QED
        BY <1>5, <2>1, <1>0, <3>1, <3>2, <3>3 DEF Write, TypeOK
  <2>2. CASE ~fp_
    <3>1. /\ pc' = "ready" /\ UNCHANGED <<current, unflushed, dropped, failures>>
          /\ written' = written + 1
        BY <1>5, <2>2 DEF Write
    <3> QED
        BY <1>5, <3>1, <1>0 DEF Write, TypeOK
  <2> QED
      BY <2>1, <2>2
<1>6. CASE Flush \/ Close
  <2>1. /\ current' \in Seq(Nat) /\ Len(current') \in Nat /\ Len(current) \in Nat
        /\ Passed \in 0..Len(current) /\ Passed <= Len(current')
        /\ unflushed' \in {0, Len(current') - Passed}
        /\ dropped' \subseteq dropped \cup ToSet(current) /\ failures' \in Nat
      BY <1>6, <1>0, FlushEffect
  <2>2. unflushed' \in 0..Len(current')
      BY <2>1
  <2>3. dropped' \subseteq Nat
    <3>1. ToSet(current) \subseteq Nat
        BY <1>0, ElementOfSeq, LenProperties DEF ToSet, TypeOK
    <3> QED
        BY <3>1, <2>1, <1>0 DEF TypeOK
  <2>4. CASE Flush
      BY <2>1, <2>2, <2>3, <2>4, <1>0 DEF Flush, TypeOK
  <2>5. CASE Close
    <3>1. fp_' = FALSE /\ unflushed' = 0 /\ pc' \in {"none", "rename"}
        BY <2>5 DEF Close
    <3> QED
        BY <2>1, <2>2, <2>3, <2>5, <3>1, <1>0 DEF Close, TypeOK
  <2> QED
      BY <1>6, <2>4, <2>5
<1>7. CASE Rename
  <2>1. RotatedName \in Names
      BY <1>7, <1>0, RotatedNameIsName DEF Rename, Started
  <2>2. filenameQueue_' \in Seq(Names)
      BY <1>7, <2>1, <1>0, AppendProperties DEF Rename, TypeOK
  <2>3. fp_' = FALSE /\ unflushed' = 0 /\ fileSeq_' \in Nat /\ dropped' \subseteq Nat
      BY <1>7, <1>0 DEF Rename, TypeOK
  <2>9. failures' \in Nat
    <3>1. failures' = failures \/ failures' = failures + 1
        BY <1>7 DEF Rename
    <3> QED
        BY <3>1, <1>0 DEF TypeOK
  <2>8. orderly' \in BOOLEAN
    <3>1. orderly' = (orderly /\ fileSeq_ < MaxSeq)
        BY <1>7 DEF Rename
    <3> QED
        BY <3>1
  <2>7. phantoms' \in Nat
      BY <1>7, <1>0 DEF Rename, TypeOK
  <2>4. /\ DOMAIN rotated' \subseteq Names /\ \A m \in DOMAIN rotated' : rotated'[m] \in Seq(Nat)
        /\ current' \in Seq(Nat)
    <3>1. CASE /\ rotated' = [n \in DOMAIN rotated \cup {RotatedName} |->
                                IF n = RotatedName THEN current ELSE rotated[n]]
               /\ current' = <<>>
        BY <3>1, <2>1, <1>0 DEF TypeOK
    <3>2. CASE UNCHANGED <<rotated, current>>
        BY <3>2, <1>0 DEF TypeOK
    <3> QED
        BY <1>7, <3>1, <3>2 DEF Rename
  <2>5. unflushed' \in 0..Len(current')
      BY <2>3, <2>4, LenProperties
  <2>6. pc' \in {"none", "delete", "reopen"}
      BY <1>7 DEF Rename, AfterSwitch
  <2> QED
      BY <1>7, <1>0, <2>2, <2>3, <2>4, <2>5, <2>6, <2>7, <2>8, <2>9 DEF Rename, TypeOK
<1>8. CASE DeleteOldFile
  <2>1. filenameQueue_ \in Seq(Names) /\ filenameQueue_ # <<>>
    <3>1. pc = "delete" /\ maxFiles_ \in Nat /\ Len(filenameQueue_) = maxFiles_ + 1
        BY <1>8, <1>0 DEF DeleteOldFile, IInv, Kept, TypeOK
    <3> QED
        BY <3>1, <1>0 DEF TypeOK
  <2>2. Head(filenameQueue_) \in Names /\ filenameQueue_' \in Seq(Names)
      BY <1>8, <2>1, HeadTailProperties DEF DeleteOldFile
  <2>3. rotated' = rotated \/ rotated' = Without(rotated, Head(filenameQueue_))
      BY <1>8 DEF DeleteOldFile
  <2>4. DOMAIN rotated' \subseteq Names /\ \A m \in DOMAIN rotated' : rotated'[m] \in Seq(Nat)
    <3>1. CASE rotated' = rotated
        BY <3>1, <1>0 DEF TypeOK
    <3>2. CASE rotated' = Without(rotated, Head(filenameQueue_))
        BY <3>2, <1>0 DEF TypeOK, Without
    <3> QED
        BY <2>3, <3>1, <3>2
  <2>5. leftovers' \subseteq Names /\ failures' \in Nat
      BY <1>8, <2>2, <1>0 DEF DeleteOldFile, TypeOK
  <2>6. pc' \in {"none", "delete", "reopen"} /\ ~fp_
      BY <1>8, <1>0 DEF DeleteOldFile, AfterSwitch, TypeOK
  <2> QED
      BY <1>8, <1>0, <2>2, <2>4, <2>5, <2>6 DEF DeleteOldFile, TypeOK
<1>9. CASE Reopen
  <2>1. fp_' \in BOOLEAN /\ failures' \in Nat /\ unflushed = 0 /\ pc' = "ready"
      BY <1>9, <1>0 DEF Reopen, TypeOK
  <2> QED
      BY <1>9, <2>1, <1>0 DEF Reopen, TypeOK
<1>a. CASE OtherLoads
    BY <1>a, <1>0 DEF OtherLoads, LoggerUnchanged, TypeOK
<1>b. CASE OtherStores
    BY <1>b, <1>0 DEF OtherStores, LoggerUnchanged, TypeOK
<1>c. CASE Destroy
  <2>1. pc' \in {"none", "close"} /\ (pc' = "close" <=> fp_) /\ closing' \in BOOLEAN
      BY <1>c DEF Destroy
  <2> QED
      BY <1>c, <2>1, <1>0 DEF Destroy, TypeOK
<1>d. CASE Restart
  <2>1. /\ current' \in Seq(Nat) /\ Len(current') \in Nat /\ unflushed' = 0
      BY <1>d, <1>0, RestartEffect
  <2>2. unflushed' \in 0..Len(current')
      BY <2>1
  <2>3. filenameQueue_' \in Seq(Names) /\ restarts' \in Nat /\ maxFiles_' \in Nat
      BY <1>d, <1>0 DEF Restart, TypeOK
  <2>4. /\ switchOnLimitOnly_' \in BOOLEAN /\ dropped' \subseteq Nat /\ phantoms' \in Nat
        /\ leftovers' \subseteq Names /\ unread' \subseteq Names /\ others' \subseteq Nat
      BY <1>d, <1>0 DEF Restart, TypeOK
  <2> QED
      BY <1>d, <1>0, <2>1, <2>2, <2>3, <2>4 DEF Restart, TypeOK
<1>e. CASE UNCHANGED vars
    BY <1>e, <1>0 DEF vars, TypeOK
<1> QED
    BY <1>1, <1>2, <1>3, <1>4, <1>5, <1>6, <1>7, <1>8, <1>9, <1>a, <1>b, <1>c, <1>d, <1>e DEF Next

\* Every step keeps the phases of a logger.
LEMMA StartedStep == ASSUME IInv, [Next]_vars PROVE Started'
<1>0. TypeOK /\ Started
    BY DEF IInv
<1> USE DEF loggerVars, otherVars, countVars, Started, TypeOK
<1>1. CASE Construct
    BY <1>1, <1>0 DEF Construct
<1>7. CASE CannotRead
    BY <1>7, <1>0 DEF CannotRead
<1>8. CASE Scan \/ ScanDone
  <2>1. /\ pc = "scan"
        /\ pc' = "scan" \/ unread' = {}
        /\ UNCHANGED <<fresh, creationDate_>>
      BY <1>8 DEF Scan, ScanDone
  <2> QED
      BY <2>1, <1>0
<1>2. CASE Write \/ Flush \/ Close \/ Reopen \/ Destroy
    BY <1>2, <1>0 DEF Write, Flush, Close, Reopen, Destroy
<1>3. CASE Rename \/ DeleteOldFile
    BY <1>3, <1>0 DEF Rename, DeleteOldFile, AfterSwitch
<1>4. CASE OtherLoads \/ OtherStores
    BY <1>4, <1>0 DEF OtherLoads, OtherStores, LoggerUnchanged
<1>5. CASE Restart
    BY <1>5, <1>0 DEF Restart
<1>6. CASE UNCHANGED vars
    BY <1>6, <1>0 DEF vars
<1> QED
    BY <1>1, <1>2, <1>3, <1>4, <1>5, <1>6, <1>7, <1>8 DEF Next

-----------------------------------------------------------------------------
(* What the steps do to the queue and the files *)

\* remove() of a file works or fails.
Removal(n) ==
  \/ rotated' = Without(rotated, n) /\ leftovers' = leftovers
  \/ rotated' = rotated /\ leftovers' = leftovers \cup {n}

\* The scan puts a name into the queue and, where that is one too many, removes
\* the earliest and its file.
LEMMA ScanEffect ==
  ASSUME IInv, Scan
  PROVE  \E n \in unread, S \in SUBSET Names :
           /\ unread' = unread \ {n} /\ Cardinality(S) <= maxFiles_
           /\ Len(filenameQueue_') = Cardinality(S) /\ QueueNamed' = S
           /\ InOrder(filenameQueue_')
           /\ \/ S = QueueNamed \cup {n} /\ UNCHANGED <<rotated, leftovers>>
              \/ \E first \in QueueNamed \cup {n} :
                   /\ S = (QueueNamed \cup {n}) \ {first} /\ Cardinality(S) = maxFiles_
                   /\ \A m \in S : Before(first, m)
                   /\ Removal(first)
<1>1. PICK n \in unread :
        LET names == QueueNamed \cup {n}
            first == Earliest(names)
        IN  /\ unread' = unread \ {n}
            /\ IF Cardinality(names) <= maxFiles_
               THEN filenameQueue_' = Sorted(names) /\ UNCHANGED <<rotated, leftovers, failures>>
               ELSE /\ filenameQueue_' = Sorted(names \ {first})
                    /\ \E ok \in BOOLEAN :
                         /\ Outcome(ok)
                         /\ rotated' = IF ok THEN Without(rotated, first) ELSE rotated
                         /\ leftovers' = IF ok THEN leftovers ELSE leftovers \cup {first}
    BY DEF Scan, QueueNamed
<1> DEFINE names == QueueNamed \cup {n}
           first == Earliest(names)
<1>2. /\ names \subseteq Names /\ IsFiniteSet(names)
      /\ Cardinality(names) \in Nat /\ Cardinality(names) <= Len(filenameQueue_) + 1
      /\ first \in names /\ \A m \in names \ {first} : Before(first, m)
      /\ IsFiniteSet(names \ {first})
      /\ Cardinality(names \ {first}) = Cardinality(names) - 1
    BY ScanNames DEF IInv
<1>3. Len(filenameQueue_) <= maxFiles_ /\ Len(filenameQueue_) \in Nat /\ maxFiles_ \in Nat
    BY QueueNames DEF Scan, IInv, Kept, TypeOK
<1>4. ASSUME NEW S \in SUBSET Names, IsFiniteSet(S), filenameQueue_' = Sorted(S)
      PROVE  /\ Len(filenameQueue_') = Cardinality(S) /\ QueueNamed' = S
             /\ InOrder(filenameQueue_')
  <2>1. /\ Sorted(S) \in Seq(Names) /\ Len(Sorted(S)) = Cardinality(S) /\ ToSet(Sorted(S)) = S
        /\ \A i, j \in 1..Cardinality(S) : i < j => Before(Sorted(S)[i], Sorted(S)[j])
      BY <1>4, SortedNames
  <2>2. DOMAIN Sorted(S) = 1..Cardinality(S)
      BY <2>1, QueueNames
  <2> QED
      BY <2>1, <2>2, <1>4 DEF InOrder, QueueNamed
<1>5. CASE Cardinality(names) <= maxFiles_
    BY <1>1, <1>2, <1>4, <1>5
<1>6. CASE ~(Cardinality(names) <= maxFiles_)
  <2> DEFINE S == names \ {first}
  <2>1. S \subseteq Names /\ IsFiniteSet(S) /\ \A m \in S : Before(first, m)
      BY <1>2
  <2>2. filenameQueue_' = Sorted(S) /\ unread' = unread \ {n}
      BY <1>1, <1>6
  <2>3. Cardinality(S) = maxFiles_
      BY <1>2, <1>3, <1>6
  <2>4. Removal(first)
      BY <1>1, <1>6 DEF Removal
  <2>5. /\ Len(filenameQueue_') = Cardinality(S) /\ QueueNamed' = S
        /\ InOrder(filenameQueue_')
      BY <2>1, <2>2, <1>4
  <2>6. \E f \in names : S = names \ {f} /\ Cardinality(S) = maxFiles_
                          /\ (\A m \in S : Before(f, m)) /\ Removal(f)
      BY <2>1, <2>3, <2>4, <1>2
  <2>7. Cardinality(S) <= maxFiles_
      BY <2>3, <1>3
  <2> HIDE DEF S
  <2> QED
      BY <2>1, <2>2, <2>5, <2>6, <2>7
<1> QED
    BY <1>5, <1>6

\* A round of deleteOldFiles() takes the first name and its file; one is enough.
LEMMA DeleteEffect ==
  ASSUME IInv, DeleteOldFile
  PROVE  /\ filenameQueue_ # <<>> /\ filenameQueue_ \in Seq(Names)
         /\ Head(filenameQueue_) \in Names /\ filenameQueue_' = Tail(filenameQueue_)
         /\ QueueNamed = {Head(filenameQueue_)} \cup QueueNamed'
         /\ maxFiles_ > 0 /\ Len(filenameQueue_) = maxFiles_ + 1
         /\ Len(filenameQueue_') = maxFiles_ /\ pc' \in {"none", "reopen"}
         /\ Removal(Head(filenameQueue_))
<1>1. /\ filenameQueue_ \in Seq(Names) /\ Len(filenameQueue_) = maxFiles_ + 1
      /\ maxFiles_ \in Nat /\ maxFiles_ > 0 /\ filenameQueue_' = Tail(filenameQueue_)
    BY DEF DeleteOldFile, IInv, Kept, TypeOK
<1>2. filenameQueue_ # <<>>
    BY <1>1
<1>3. Head(filenameQueue_) \in Names /\ Len(filenameQueue_') = maxFiles_
    BY <1>1, <1>2, HeadTailProperties
<1>4. QueueNamed = {Head(filenameQueue_)} \cup QueueNamed'
    BY <1>1, <1>2, QueueNames DEF QueueNamed
<1>5. pc' \in {"none", "reopen"}
    BY <1>1, <1>3 DEF DeleteOldFile, TooMany, AfterSwitch
<1>6. Removal(Head(filenameQueue_))
    BY DEF DeleteOldFile, Removal
<1> QED
    BY <1>1, <1>2, <1>3, <1>4, <1>5, <1>6

\* switchLog() renames the current file or fails to, and queues the name where
\* retention is on.
LEMMA RenameEffect ==
  ASSUME IInv, Rename
  PROVE  /\ RotatedName \in Names /\ ~fresh /\ fileSeq_ \in Nat /\ filenameQueue_ \in Seq(Names)
         /\ IF maxFiles_ > 0
            THEN /\ filenameQueue_' = Append(filenameQueue_, RotatedName)
                 /\ QueueNamed' = QueueNamed \cup {RotatedName}
            ELSE filenameQueue_' = filenameQueue_ /\ QueueNamed' = QueueNamed
         /\ \/ /\ DOMAIN rotated' = DOMAIN rotated \cup {RotatedName}
               /\ \A n \in DOMAIN rotated : n # RotatedName => rotated'[n] = rotated[n]
               /\ rotated'[RotatedName] = current /\ current' = <<>> /\ phantoms' = phantoms
            \/ UNCHANGED <<rotated, current>> /\ phantoms' = phantoms + 1
         /\ leftovers' = leftovers /\ fileSeq_' = fileSeq_ + 1
<1>1. RotatedName \in Names /\ ~fresh
    BY RotatedNameIsName DEF IInv, Started, Rename
<1>2. filenameQueue_ \in Seq(Names) /\ fileSeq_ \in Nat
    BY DEF IInv, TypeOK
<1>3. IF maxFiles_ > 0
      THEN /\ filenameQueue_' = Append(filenameQueue_, RotatedName)
           /\ QueueNamed' = QueueNamed \cup {RotatedName}
      ELSE filenameQueue_' = filenameQueue_ /\ QueueNamed' = QueueNamed
    BY <1>1, <1>2, QueueNames DEF Rename, QueueNamed
<1>4. \/ /\ rotated' = [n \in DOMAIN rotated \cup {RotatedName} |->
                          IF n = RotatedName THEN current ELSE rotated[n]]
         /\ current' = <<>> /\ phantoms' = phantoms
      \/ UNCHANGED <<rotated, current>> /\ phantoms' = phantoms + 1
    BY DEF Rename
<1> QED
    BY <1>1, <1>2, <1>3, <1>4 DEF Rename

\* Steps that leave the queue, the renamed files and the counts alone.
LEMMA QuietSteps ==
  ASSUME CannotRead \/ ScanDone \/ Write \/ Flush \/ Close \/ Reopen \/ OtherLoads \/ OtherStores
           \/ Destroy \/ UNCHANGED vars
  PROVE  UNCHANGED <<rotated, filenameQueue_, maxFiles_, phantoms, creationDate_, fresh>>
    BY DEF CannotRead, ScanDone, Write, Flush, Close, Reopen, OtherLoads, OtherStores,
           Destroy, vars, loggerVars, LoggerUnchanged

-----------------------------------------------------------------------------
(* Retention *)

\* Every step keeps the queue complete.
LEMMA KeptStep == ASSUME IInv, [Next]_vars PROVE Kept'
<1>0. Kept /\ Started /\ TypeOK
    BY DEF IInv
<1>1. CASE Construct
  <2>1. /\ UNCHANGED rotated /\ filenameQueue_' = <<>> /\ maxFiles_' \in Nat
        /\ \/ pc' = "scan" /\ maxFiles_' > 0 /\ unread' = Renamed
           \/ pc' = "write" /\ maxFiles_' = 0
      BY <1>1, LimitsAssumption DEF Construct, Renamed
  <2>2. QueueNamed' = {} /\ Len(filenameQueue_') = 0
      BY <2>1 DEF QueueNamed, ToSet
  <2> QED
    <3>1. Renamed' = Renamed /\ IsFiniteSet(Renamed)
        BY <2>1, <1>0 DEF Kept, Renamed
    <3>2. \/ pc' = "scan" /\ maxFiles_' > 0 /\ unread' = Renamed
          \/ pc' = "write" /\ ~(maxFiles_' > 0)
        BY <2>1
    <3>3. Len(filenameQueue_') <= maxFiles_'
        BY <2>1, <2>2
    <3> QED
        BY <2>2, <3>1, <3>2, <3>3 DEF Kept
<1>2. CASE CannotRead
  <2>1. PICK names : unread' = unread \ names /\ leftovers' = leftovers \cup names
      BY <1>2 DEF CannotRead
  <2>2. pc = "scan" /\ pc' = "scan" /\ UNCHANGED <<rotated, filenameQueue_, maxFiles_>>
      BY <1>2, QuietSteps DEF CannotRead
  <2> QED
      BY <2>1, <2>2, <1>0 DEF Kept, Renamed, QueueNamed
<1>3. CASE Scan
  <2>1. PICK n \in unread, S \in SUBSET Names :
          /\ unread' = unread \ {n} /\ Cardinality(S) <= maxFiles_
          /\ Len(filenameQueue_') = Cardinality(S) /\ QueueNamed' = S
          /\ \/ S = QueueNamed \cup {n} /\ UNCHANGED <<rotated, leftovers>>
             \/ \E first \in QueueNamed \cup {n} :
                  /\ S = (QueueNamed \cup {n}) \ {first}
                  /\ Removal(first)
      BY <1>3, ScanEffect
  <2>2. pc = "scan" /\ pc' = "scan" /\ maxFiles_' = maxFiles_
      BY <1>3 DEF Scan, loggerVars
  <2>3. CASE S = QueueNamed \cup {n} /\ UNCHANGED <<rotated, leftovers>>
      BY <2>1, <2>2, <2>3, <1>0 DEF Kept, Renamed
  <2>4. ASSUME NEW first \in QueueNamed \cup {n}, S = (QueueNamed \cup {n}) \ {first},
               Removal(first)
        PROVE  Kept'
    <3>1. CASE rotated' = Without(rotated, first) /\ leftovers' = leftovers
      <4>1. Renamed' = Renamed \ {first}
          BY <3>1, WithoutFile DEF Renamed
      <4>2. IsFiniteSet(Renamed')
          BY <4>1, <1>0, FS_RemoveElement DEF Kept
      <4> QED
        <5>1. /\ Renamed \subseteq QueueNamed \cup leftovers \cup unread /\ maxFiles_ > 0
              /\ unread \subseteq Renamed /\ QueueNamed \subseteq Renamed \ unread
            BY <2>2, <1>0 DEF Kept
        <5>2. QueueNamed' \subseteq Renamed' \ unread'
            BY <2>1, <2>4, <4>1, <5>1
        <5>3. unread' \subseteq Renamed'
          <6>1. first = n \/ first \notin unread
              BY <5>1
          <6> QED
              BY <6>1, <2>1, <4>1, <5>1
        <5>4. Renamed' \subseteq QueueNamed' \cup leftovers' \cup unread'
            BY <2>1, <2>4, <3>1, <4>1, <5>1
        <5> QED
            BY <2>1, <2>2, <4>2, <5>1, <5>2, <5>3, <5>4 DEF Kept
    <3>2. CASE rotated' = rotated /\ leftovers' = leftovers \cup {first}
        BY <2>1, <2>2, <2>4, <3>2, <1>0 DEF Kept, Renamed
    <3> QED
        BY <2>4, <3>1, <3>2 DEF Removal
  <2> QED
      BY <2>1, <2>3, <2>4
<1>4. CASE ScanDone \/ Write \/ Flush \/ Reopen \/ OtherLoads \/ OtherStores \/ UNCHANGED vars
  <2>1. /\ UNCHANGED <<rotated, filenameQueue_, leftovers, maxFiles_, unread>>
        /\ pc' = pc \/ (pc' # "delete" /\ pc' # "scan" /\ pc \notin {"none", "delete"})
      BY <1>4 DEF ScanDone, Write, Flush, Reopen, OtherLoads, OtherStores, LoggerUnchanged,
         vars, loggerVars
  <2> QED
      BY <2>1, <1>0 DEF Kept, Renamed, QueueNamed
<1>5. CASE Rename
  <2>1. /\ IF maxFiles_ > 0
           THEN /\ filenameQueue_' = Append(filenameQueue_, RotatedName)
                /\ QueueNamed' = QueueNamed \cup {RotatedName}
           ELSE filenameQueue_' = filenameQueue_ /\ QueueNamed' = QueueNamed
        /\ Renamed' = Renamed \cup {RotatedName} \/ Renamed' = Renamed
        /\ leftovers' = leftovers /\ filenameQueue_ \in Seq(Names) /\ RotatedName \in Names
      BY <1>5, RenameEffect DEF Renamed
  <2>2. IsFiniteSet(Renamed')
    <3>1. IsFiniteSet(Renamed) /\ IsFiniteSet(Renamed \cup {RotatedName})
        BY <1>0, FS_AddElement DEF Kept
    <3> QED
        BY <2>1, <3>1
  <2>3. /\ pc = "rename" /\ UNCHANGED <<maxFiles_, unread>> /\ maxFiles_ \in Nat
        /\ pc' = IF maxFiles_ > 0 /\ Len(filenameQueue_') > maxFiles_ THEN "delete" ELSE AfterSwitch
        /\ AfterSwitch \in {"none", "reopen"}
      BY <1>5, <1>0 DEF Rename, loggerVars, TooMany, AfterSwitch, TypeOK
  <2>4. CASE maxFiles_ > 0
    <3>1. /\ Len(filenameQueue_') = Len(filenameQueue_) + 1 /\ Len(filenameQueue_) \in Nat
          /\ Len(filenameQueue_) <= maxFiles_
        BY <2>1, <2>3, <2>4, <1>0, AppendProperties, LenProperties DEF Kept
    <3>2. Renamed' \subseteq QueueNamed' \cup leftovers' \cup unread'
        BY <2>1, <2>3, <2>4, <1>0 DEF Kept
    <3>3. pc' = "delete" => Len(filenameQueue_') = maxFiles_ + 1
        BY <2>3, <3>1
    <3>4. pc' # "delete" => Len(filenameQueue_') <= maxFiles_
        BY <2>3, <2>4, <3>1
    <3> QED
        BY <2>2, <2>3, <2>4, <3>2, <3>3, <3>4 DEF Kept
  <2>5. CASE ~(maxFiles_ > 0)
      BY <2>2, <2>3, <2>5 DEF Kept
  <2> QED
      BY <2>4, <2>5
<1>6. CASE DeleteOldFile
  <2> DEFINE head == Head(filenameQueue_)
  <2>1. /\ QueueNamed = {head} \cup QueueNamed' /\ maxFiles_ > 0
        /\ Len(filenameQueue_') = maxFiles_ /\ pc' \in {"none", "reopen"} /\ Removal(head)
      BY <1>6, DeleteEffect
  <2>2. UNCHANGED <<maxFiles_, unread>> /\ pc = "delete" /\ maxFiles_ \in Nat
      BY <1>6, <1>0 DEF DeleteOldFile, loggerVars, TypeOK
  <2> HIDE DEF head
  <2>3. Renamed \subseteq {head} \cup QueueNamed' \cup leftovers \cup unread
      BY <2>1, <2>2, <1>0 DEF Kept
  <2>4. CASE rotated' = Without(rotated, head) /\ leftovers' = leftovers
    <3>1. Renamed' = Renamed \ {head}
        BY <2>4, WithoutFile DEF Renamed
    <3>2. IsFiniteSet(Renamed')
        BY <3>1, <1>0, FS_RemoveElement DEF Kept
    <3>3. Renamed' \subseteq QueueNamed' \cup leftovers' \cup unread'
        BY <2>2, <2>3, <2>4, <3>1
    <3> QED
        BY <2>1, <2>2, <3>2, <3>3 DEF Kept
  <2>5. CASE rotated' = rotated /\ leftovers' = leftovers \cup {head}
    <3>1. Renamed' = Renamed /\ IsFiniteSet(Renamed)
        BY <2>5, <1>0 DEF Renamed, Kept
    <3>2. Renamed' \subseteq QueueNamed' \cup leftovers' \cup unread'
        BY <2>2, <2>3, <2>5, <3>1
    <3> QED
        BY <2>1, <2>2, <3>1, <3>2 DEF Kept
  <2> QED
      BY <2>1, <2>4, <2>5 DEF Removal
<1>7. CASE Close \/ Destroy
  <2>1. /\ UNCHANGED <<rotated, filenameQueue_, leftovers, maxFiles_, unread>>
        /\ pc \in {"ready", "close"} /\ pc' \in {"close", "rename", "none"}
      BY <1>7 DEF Close, Destroy, loggerVars
  <2> QED
      BY <2>1, <1>0 DEF Kept, Renamed, QueueNamed
<1>8. CASE Restart
  <2>1. pc' = "none" /\ rotated' = rotated
      BY <1>8 DEF Restart
  <2> QED
      BY <2>1, <1>0 DEF Kept, Renamed
<1> QED
    BY <1>1, <1>2, <1>3, <1>4, <1>5, <1>6, <1>7, <1>8 DEF Next

-----------------------------------------------------------------------------
(* The order of names *)

\* A past name is earlier than the next one to be given.
LEMMA PastIsBefore ==
  ASSUME TypeOK, ~fresh, fileSeq_ < MaxSeq, NEW n \in Names
  PROVE  Past(n) <=> Before(n, RotatedName)
<1>1. fileSeq_ % MaxSeq = fileSeq_
    BY LimitsAssumption DEF TypeOK
<1> QED
    BY <1>1 DEF Past, Before, RotatedName

\* A sorted queue stays sorted when its first name is taken, which then is in
\* it no more and was before all others.
LEMMA InOrderTail ==
  ASSUME NEW q \in Seq(Names), q # <<>>, InOrder(q)
  PROVE  /\ InOrder(Tail(q))
         /\ \A n \in ToSet(Tail(q)) : Before(Head(q), n)
         /\ Cardinality(ToSet(Tail(q))) = Len(Tail(q))
<1> DEFINE t == Tail(q)
<1>1. /\ t \in Seq(Names) /\ Len(t) = Len(q) - 1 /\ \A i \in 1..(Len(q) - 1) : t[i] = q[i + 1]
      /\ DOMAIN t = 1..(Len(q) - 1) /\ DOMAIN q = 1..Len(q) /\ Len(q) \in Nat \ {0}
      /\ Head(q) = q[1]
  <2>1. /\ t \in Seq(Names) /\ Len(t) = Len(q) - 1 /\ \A i \in 1..(Len(q) - 1) : t[i] = q[i + 1]
        /\ Len(q) # 0 /\ Len(q) \in Nat
      BY HeadTailProperties, EmptySeq, LenProperties
  <2> QED
      BY <2>1, QueueNames
<1> HIDE DEF t
<1>2. \A i \in 1..(Len(q) - 1) : i + 1 \in 1..Len(q) /\ 1 < i + 1 /\ 1 \in 1..Len(q)
    BY <1>1
<1>3. InOrder(t)
  <2>1. ASSUME NEW i \in 1..(Len(q) - 1), NEW j \in 1..(Len(q) - 1), i < j
        PROVE  Before(t[i], t[j])
    <3>1. i + 1 \in DOMAIN q /\ j + 1 \in DOMAIN q /\ i + 1 < j + 1
        BY <2>1, <1>1, <1>2
    <3>2. Before(q[i + 1], q[j + 1])
        BY <3>1 DEF InOrder
    <3> QED
        BY <3>2, <1>1
  <2> QED
      BY <2>1, <1>1 DEF InOrder
<1>4. ASSUME NEW n \in ToSet(t) PROVE Before(Head(q), n)
  <2>1. PICK i \in 1..(Len(q) - 1) : n = t[i]
      BY <1>1 DEF ToSet
  <2>2. Before(q[1], q[i + 1])
      BY <1>1, <1>2 DEF InOrder
  <2> QED
      BY <2>1, <2>2, <1>1
<1>5. Cardinality(ToSet(t)) = Len(t)
  <2>1. t \in Surjection(1..Len(t), ToSet(t))
      BY <1>1 DEF Surjection, ToSet
  <2>2. \A i \in 1..Len(t) : t[i] \in Names
      BY <1>1, ElementOfSeq
  <2>3. ASSUME NEW i \in 1..Len(t), NEW j \in 1..Len(t), t[i] = t[j] PROVE i = j
    <3>1. ~(i < j) /\ ~(j < i)
        BY <2>2, <2>3, <1>1, <1>3, NamesAreOrdered DEF InOrder
    <3> QED
        BY <3>1
  <2>4. t \in Injection(1..Len(t), ToSet(t))
      BY <2>1, <2>3 DEF Surjection, Injection, IsInjective
  <2>5. Len(t) \in Nat
      BY <1>1
  <2>6. IsFiniteSet(1..Len(t)) /\ Cardinality(1..Len(t)) = Len(t)
    <3>1. ASSUME NEW k \in Nat PROVE IsFiniteSet(1..k) /\ Cardinality(1..k) = k
        BY FS_Interval
    <3> QED
        BY <3>1, <2>5
  <2> QED
      BY <2>1, <2>4, <2>6, FS_Surjection
<1> QED
    BY <1>3, <1>4, <1>5 DEF t

\* It also stays sorted when a later name is put behind it.
LEMMA InOrderAppend ==
  ASSUME NEW q \in Seq(Names), InOrder(q), NEW n \in Names, \A m \in ToSet(q) : Before(m, n)
  PROVE  InOrder(Append(q, n))
<1> DEFINE t == Append(q, n)
<1>1. /\ DOMAIN t = 1..(Len(q) + 1) /\ DOMAIN q = 1..Len(q) /\ Len(q) \in Nat
      /\ t[Len(q) + 1] = n /\ \A i \in 1..Len(q) : t[i] = q[i]
  <2>1. t \in Seq(Names) /\ Len(t) = Len(q) + 1
      BY AppendProperties
  <2> QED
      BY <2>1, AppendProperties, QueueNames
<1> HIDE DEF t
<1>2. \A i \in 1..Len(q) : Before(q[i], n)
    BY <1>1 DEF ToSet
<1>3. ASSUME NEW i \in 1..(Len(q) + 1), NEW j \in 1..(Len(q) + 1), i < j
      PROVE  Before(t[i], t[j])
  <2>1. i \in 1..Len(q) /\ (j \in 1..Len(q) \/ j = Len(q) + 1)
      BY <1>1, <1>3
  <2> QED
      BY <2>1, <1>1, <1>2, <1>3 DEF InOrder
<1> QED
    BY <1>1, <1>3 DEF InOrder, t

\* A new name is later than all those in files and in the queue.
LEMMA NewNameIsLast ==
  ASSUME IInv, Rename, orderly'
  PROVE  /\ orderly /\ \A n \in Given : n \in Names /\ Before(n, RotatedName)
         /\ RotatedName \notin Given
         /\ RotatedName = <<creationDate_, fileSeq_>>
<1>1. /\ orderly /\ fileSeq_ < MaxSeq /\ ~fresh /\ RotatedName \in Names
      /\ \A n \in Given : Past(n)
    BY RenameEffect DEF Rename, IInv, Ordered
<1>2. \A n \in Given : n \in Names
    BY QueueNames DEF IInv, TypeOK, Given, Renamed, QueueNamed
<1>3. \A n \in Given : Before(n, RotatedName)
    BY <1>1, <1>2, PastIsBefore DEF IInv
<1>4. RotatedName = <<creationDate_, fileSeq_>>
  <2>1. fileSeq_ \in Nat /\ fileSeq_ < MaxSeq
      BY <1>1 DEF IInv, TypeOK
  <2>2. fileSeq_ % MaxSeq = fileSeq_
      BY <2>1, LimitsAssumption
  <2> QED
      BY <2>2 DEF RotatedName
<1> QED
    BY <1>1, <1>2, <1>3, <1>4, NamesAreOrdered

\* Every step keeps the names in order, or notes that they are not.
LEMMA OrderedStep == ASSUME IInv, [Next]_vars PROVE Ordered'
<1> SUFFICES ASSUME orderly' PROVE Ordered'
    BY DEF Ordered
<1>0. /\ Started /\ TypeOK /\ Kept
      /\ orderly => /\ \A n \in Given : Past(n)
                    /\ InOrder(filenameQueue_)
                    /\ Cardinality(QueueNamed \ Renamed) <= phantoms
    BY DEF IInv, Ordered
<1>n. /\ \A n \in Given : n \in Names /\ n[1] \in Nat /\ n[2] \in Nat
      /\ creationDate_ \in Nat /\ fileSeq_ \in Nat
      /\ IsFiniteSet(QueueNamed) /\ IsFiniteSet(QueueNamed \ Renamed) /\ phantoms \in Nat
  <2>1. \A n \in Names : n[1] \in Nat /\ n[2] \in Nat
    <3> DEFINE T == 0..(MaxSeq - 1)
    <3>1. T \subseteq Nat
        BY LimitsAssumption
    <3> HIDE DEF T
    <3>2. \A n \in Dates \X T : n[1] \in Dates /\ n[2] \in T
        OBVIOUS
    <3> QED
        BY <3>1, <3>2, DatesAssumption DEF Names, T
  <2>2. /\ \A n \in Given : n \in Names
        /\ IsFiniteSet(QueueNamed)
      BY <1>0, QueueNames DEF TypeOK, Given, Renamed, QueueNamed
  <2>3. IsFiniteSet(QueueNamed \ Renamed)
      BY <2>2, FS_Difference
  <2>4. creationDate_ \in Nat /\ fileSeq_ \in Nat /\ phantoms \in Nat
      BY <1>0, DatesAssumption DEF TypeOK
  <2> QED
      BY <2>1, <2>2, <2>3, <2>4
\* What is left of the names, their order and the files stays as it was.
<1>k. ASSUME orderly, Given' \subseteq Given, phantoms' = phantoms,
             QueueNamed' \ Renamed' \subseteq QueueNamed \ Renamed, InOrder(filenameQueue_'),
             UNCHANGED <<creationDate_, fileSeq_, fresh>>
      PROVE  Ordered'
  <2>1. \A n \in Given' : Past(n)
      BY <1>k, <1>0
  <2>2. \A n \in Given' : Past(n)'
      BY <2>1, <1>k DEF Past
  <2>3. Cardinality(QueueNamed' \ Renamed') <= Cardinality(QueueNamed \ Renamed)
      BY <1>k, <1>n, FS_Subset
  <2>4. /\ Cardinality(QueueNamed' \ Renamed') \in Nat
        /\ Cardinality(QueueNamed \ Renamed) \in Nat
      BY <1>k, <1>n, FS_Subset, FS_CardinalityType
  <2>5. Cardinality(QueueNamed' \ Renamed') <= phantoms'
      BY <2>3, <2>4, <1>k, <1>0, <1>n
  <2> QED
      BY <2>2, <2>5, <1>k DEF Ordered
<1>1. CASE Construct
  <2>1. /\ orderly /\ ~fresh' /\ fileSeq_' = fileSeq_ /\ Renamed' = Renamed /\ phantoms' = 0
        /\ filenameQueue_' = <<>> /\ leftovers' = {} /\ creationDate_' \in Dates
        /\ IF fresh THEN creationDate_' > creationDate_ ELSE creationDate_' >= creationDate_
      BY <1>1 DEF Construct, Renamed
  <2>2. QueueNamed' = {} /\ InOrder(filenameQueue_')
      BY <2>1 DEF QueueNamed, ToSet, InOrder
  <2>3. ASSUME NEW n \in Given' PROVE Past(n)'
    <3>0. n \in Given
        BY <2>1, <2>2 DEF Given
    <3>1. creationDate_' \in Nat
        BY <2>1, DatesAssumption
    <3>2. Past(n) /\ n[1] \in Nat
        BY <2>1, <3>0, <1>0, <1>n
    <3> QED
        BY <2>1, <3>0, <3>1, <3>2, <1>n DEF Past
  <2>4. Cardinality(QueueNamed' \ Renamed') = 0
      BY <2>2, FS_EmptySet
  <2> QED
      BY <2>1, <2>2, <2>3, <2>4 DEF Ordered
<1>2. CASE Scan
  <2>1. PICK n \in unread, S \in SUBSET Names :
          /\ unread' = unread \ {n} /\ QueueNamed' = S /\ InOrder(filenameQueue_')
          /\ \/ S = QueueNamed \cup {n} /\ UNCHANGED <<rotated, leftovers>>
             \/ \E first \in QueueNamed \cup {n} :
                  S = (QueueNamed \cup {n}) \ {first} /\ Removal(first)
      BY <1>2, ScanEffect
  <2>2. /\ orderly /\ UNCHANGED <<creationDate_, fileSeq_, fresh, phantoms>>
        /\ unread \subseteq Renamed /\ QueueNamed \subseteq Renamed
      BY <1>2, <1>0 DEF Scan, loggerVars, Kept
  <2>3. /\ Renamed' \subseteq Renamed /\ QueueNamed' \subseteq Renamed'
        /\ leftovers' \subseteq leftovers \cup Renamed
    <3>1. CASE S = QueueNamed \cup {n} /\ UNCHANGED <<rotated, leftovers>>
        BY <2>1, <2>2, <3>1 DEF Renamed
    <3>2. ASSUME NEW first \in QueueNamed \cup {n},
                 S = (QueueNamed \cup {n}) \ {first}, Removal(first)
          PROVE  /\ Renamed' \subseteq Renamed /\ QueueNamed' \subseteq Renamed'
                 /\ leftovers' \subseteq leftovers \cup Renamed
      <4>0. first \in Renamed /\ leftovers' \subseteq leftovers \cup {first}
          BY <2>2, <3>2 DEF Removal
      <4>1. Renamed' = Renamed \ {first} \/ Renamed' = Renamed
          BY <3>2, WithoutFile DEF Removal, Renamed
      <4> QED
          BY <2>1, <2>2, <3>2, <4>0, <4>1
    <3> QED
        BY <2>1, <3>1, <3>2
  <2>4. \A m \in Given' : Past(m)'
    <3>1. Given' \subseteq Given
        BY <2>3 DEF Given
    <3> QED
        BY <2>2, <3>1, <1>0 DEF Past
  <2>5. Cardinality(QueueNamed' \ Renamed') <= phantoms'
    <3>1. QueueNamed' \ Renamed' = {}
        BY <2>3
    <3>2. Cardinality(QueueNamed' \ Renamed') = 0
        BY <3>1, FS_EmptySet
    <3> QED
        BY <3>2, <2>2, <1>n
  <2> QED
      BY <2>1, <2>2, <2>4, <2>5 DEF Ordered
<1>3. CASE CannotRead \/ ScanDone \/ Write \/ Flush \/ Close \/ Reopen \/ Destroy \/ OtherLoads
             \/ UNCHANGED vars
  <2>1. UNCHANGED <<rotated, filenameQueue_, phantoms, creationDate_, fresh, fileSeq_, orderly>>
      BY <1>3 DEF CannotRead, ScanDone, Write, Flush, Close, Reopen, OtherLoads, Destroy, vars,
         loggerVars, LoggerUnchanged
  <2>2. UNCHANGED <<Renamed, QueueNamed>>
      BY <2>1 DEF Renamed, QueueNamed
  <2>3. leftovers' \subseteq leftovers \cup Renamed
    <3>1. CASE CannotRead
      <4>1. \E names : leftovers' = leftovers \cup names /\ names \subseteq unread
          BY <3>1 DEF CannotRead
      <4> QED
          BY <3>1, <4>1, <1>0 DEF CannotRead, Kept
    <3>2. CASE ~CannotRead
        BY <1>3, <3>2 DEF ScanDone, Write, Flush, Close, Reopen, OtherLoads, Destroy, vars,
           LoggerUnchanged
    <3> QED
        BY <3>1, <3>2
  <2>4. Given' \subseteq Given
      BY <2>2, <2>3 DEF Given
  <2> QED
      BY <2>1, <2>2, <2>4, <1>0, <1>k
<1>4. CASE OtherStores
  <2>1. /\ orderly /\ fileSeq_' >= fileSeq_ /\ fileSeq_' \in Int
        /\ UNCHANGED <<rotated, filenameQueue_, phantoms, creationDate_, fresh, leftovers>>
    <3>1. PICK s \in others : fileSeq_' = s + 1 /\ orderly' = (orderly /\ s + 1 >= fileSeq_)
        BY <1>4 DEF OtherStores
    <3>2. s \in Nat
        BY <3>1, <1>0 DEF TypeOK
    <3>3. orderly /\ s + 1 >= fileSeq_
        BY <3>1
    <3>4. UNCHANGED <<rotated, filenameQueue_, phantoms, creationDate_, fresh, leftovers>>
        BY <1>4 DEF OtherStores, LoggerUnchanged, loggerVars
    <3>5. fileSeq_' >= fileSeq_ /\ fileSeq_' \in Int
        BY <3>1, <3>2, <3>3
    <3> QED
        BY <3>3, <3>4, <3>5
  <2>2. UNCHANGED <<Renamed, QueueNamed, Given>>
      BY <2>1 DEF Renamed, QueueNamed, Given
  <2>3. ASSUME NEW n \in Given PROVE Past(n)'
      BY <2>1, <1>0, <1>n DEF Past
  <2> QED
      BY <2>1, <2>2, <2>3, <1>0 DEF Ordered
<1>5. CASE Rename
  <2>1. /\ orderly /\ \A n \in QueueNamed : Before(n, RotatedName)
        /\ RotatedName = <<creationDate_, fileSeq_>> /\ RotatedName \in Names
      BY <1>5, NewNameIsLast, RenameEffect DEF Given
  <2>2. /\ ~fresh /\ filenameQueue_ \in Seq(Names)
        /\ IF maxFiles_ > 0
           THEN /\ filenameQueue_' = Append(filenameQueue_, RotatedName)
                /\ QueueNamed' = QueueNamed \cup {RotatedName}
           ELSE filenameQueue_' = filenameQueue_ /\ QueueNamed' = QueueNamed
        /\ \/ Renamed' = Renamed \cup {RotatedName} /\ phantoms' = phantoms
           \/ Renamed' = Renamed /\ phantoms' = phantoms + 1
        /\ fileSeq_' = fileSeq_ + 1
      BY <1>5, RenameEffect DEF Renamed
  <2>3. UNCHANGED <<creationDate_, fresh, leftovers>>
      BY <1>5 DEF Rename, loggerVars
  <2>4. ASSUME NEW n \in Given' PROVE Past(n)'
    <3>1. CASE n = RotatedName
      <4>1. n[1] = creationDate_ /\ n[2] = fileSeq_
          BY <2>1, <3>1
      <4> QED
          BY <4>1, <2>2, <2>3, <1>n DEF Past
    <3>2. CASE n # RotatedName
      <4>1. n \in Given
          BY <2>2, <2>3, <3>2 DEF Given
      <4> QED
          BY <4>1, <2>1, <2>2, <2>3, <1>0, <1>n DEF Past
    <3> QED
        BY <3>1, <3>2
  <2>5. InOrder(filenameQueue_')
      BY <2>1, <2>2, <1>0, InOrderAppend DEF QueueNamed
  <2>6. Cardinality(QueueNamed' \ Renamed') <= phantoms'
    <3> DEFINE D == QueueNamed \ Renamed
    <3>1. IsFiniteSet(D) /\ Cardinality(D) \in Nat /\ Cardinality(D) <= phantoms
        BY <2>1, <1>0, <1>n, FS_CardinalityType
    <3>2. /\ IsFiniteSet(D \cup {RotatedName}) /\ Cardinality(D \cup {RotatedName}) \in Nat
          /\ Cardinality(D \cup {RotatedName}) <= Cardinality(D) + 1
      <4>1. /\ IsFiniteSet(D \cup {RotatedName})
            /\ \/ Cardinality(D \cup {RotatedName}) = Cardinality(D) + 1
               \/ Cardinality(D \cup {RotatedName}) = Cardinality(D)
          BY <3>1, FS_AddElement
      <4> QED
          BY <3>1, <4>1
    <3>3. CASE Renamed' = Renamed \cup {RotatedName} /\ phantoms' = phantoms
      <4>1. QueueNamed' \ Renamed' \subseteq D
          BY <2>2, <3>3
      <4>2. Cardinality(QueueNamed' \ Renamed') <= Cardinality(D)
          BY <4>1, <3>1, FS_Subset
      <4>3. Cardinality(QueueNamed' \ Renamed') \in Nat
          BY <4>1, <3>1, FS_Subset, FS_CardinalityType
      <4> QED
          BY <4>2, <4>3, <3>1, <3>3, <1>n
    <3>4. CASE Renamed' = Renamed /\ phantoms' = phantoms + 1
      <4>1. QueueNamed' \ Renamed' \subseteq D \cup {RotatedName}
          BY <2>2, <3>4
      <4>2. Cardinality(QueueNamed' \ Renamed') <= Cardinality(D \cup {RotatedName})
          BY <4>1, <3>2, FS_Subset
      <4>3. Cardinality(QueueNamed' \ Renamed') \in Nat
          BY <4>1, <3>2, FS_Subset, FS_CardinalityType
      <4> HIDE DEF D
      <4> QED
          BY <4>2, <4>3, <3>1, <3>2, <3>4, <1>n
    <3> QED
        BY <2>2, <3>3, <3>4
  <2> QED
      BY <2>4, <2>5, <2>6 DEF Ordered
<1>6. CASE DeleteOldFile
  <2> DEFINE head == Head(filenameQueue_)
  <2>1. /\ filenameQueue_ # <<>> /\ filenameQueue_ \in Seq(Names)
        /\ filenameQueue_' = Tail(filenameQueue_)
        /\ QueueNamed = {head} \cup QueueNamed' /\ Removal(head)
      BY <1>6, DeleteEffect
  <2>2. /\ orderly /\ UNCHANGED <<phantoms, creationDate_, fresh, fileSeq_>>
      BY <1>6 DEF DeleteOldFile, loggerVars
  <2>3. InOrder(filenameQueue_') /\ \A n \in QueueNamed' : Before(head, n)
      BY <2>1, <2>2, <1>0, InOrderTail DEF QueueNamed
  <2>4. head \notin QueueNamed'
      BY <2>1, <2>3, <1>n, NamesAreOrdered
  <2>5. Renamed' = Renamed \ {head} \/ Renamed' = Renamed
      BY <2>1, WithoutFile DEF Removal, Renamed
  <2> HIDE DEF head
  <2>6. /\ Renamed' \subseteq Renamed /\ QueueNamed' \subseteq QueueNamed
        /\ QueueNamed' \ Renamed' \subseteq QueueNamed \ Renamed
      BY <2>1, <2>4, <2>5
  <2>7. Given' \subseteq Given
    <3>1. leftovers' \subseteq leftovers \cup QueueNamed
        BY <2>1 DEF Removal
    <3> QED
        BY <2>6, <3>1 DEF Given
  <2> QED
      BY <2>2, <2>3, <2>6, <2>7, <1>k
<1>7. CASE Restart
  <2>1. /\ fresh' /\ UNCHANGED <<rotated, creationDate_, orderly>> /\ phantoms' = 0
        /\ filenameQueue_' = <<>> /\ leftovers' = {}
      BY <1>7 DEF Restart
  <2>2. Renamed' = Renamed /\ QueueNamed' = {} /\ InOrder(filenameQueue_')
      BY <2>1 DEF Renamed, QueueNamed, ToSet, InOrder
  <2>3. \A n \in Given' : Past(n)'
    <3>1. Given' \subseteq Given
        BY <2>1, <2>2 DEF Given
    <3> QED
        BY <2>1, <3>1, <1>0, <1>n DEF Past
  <2>4. Cardinality(QueueNamed' \ Renamed') = 0
      BY <2>2, FS_EmptySet
  <2> QED
      BY <2>1, <2>2, <2>3, <2>4, <1>n DEF Ordered
<1> QED
    BY <1>1, <1>2, <1>3, <1>4, <1>5, <1>6, <1>7 DEF Next

-----------------------------------------------------------------------------
(* The chunks and the files *)

\* Names come in order in the past of a state where they come in order.
LEMMA OrderlyWas == ASSUME [Next]_vars, orderly' PROVE orderly
<1>1. CASE Construct \/ Rename \/ OtherStores
    BY <1>1 DEF Construct, Rename, OtherStores
<1>2. CASE CannotRead \/ Scan \/ ScanDone \/ Write \/ Flush \/ Close \/ DeleteOldFile \/ Reopen
             \/ OtherLoads \/ Destroy \/ Restart \/ UNCHANGED vars
    BY <1>2 DEF CannotRead, Scan, ScanDone, Write, Flush, Close, DeleteOldFile, Reopen, OtherLoads,
       Destroy, Restart, vars
<1> QED
    BY <1>1, <1>2 DEF Next

\* s is empty or begins as t does.
Begins(s, t) == \A i \in DOMAIN s : i \in DOMAIN t /\ s[i] = t[i]

\* Only the rename adds to the renamed files.
LEMMA RotatedStep ==
  ASSUME IInv, [Next]_vars, ~Rename
  PROVE  \A n \in DOMAIN rotated' : n \in DOMAIN rotated /\ rotated'[n] = rotated[n]
<1>1. CASE Scan
  <2>1. rotated' = rotated \/ \E first : rotated' = Without(rotated, first)
      BY <1>1, ScanEffect DEF Removal
  <2> QED
      BY <2>1 DEF Without
<1>2. CASE DeleteOldFile
  <2>1. rotated' = rotated \/ \E first : rotated' = Without(rotated, first)
      BY <1>2, DeleteEffect DEF Removal
  <2> QED
      BY <2>1 DEF Without
<1>3. CASE ~Scan /\ ~DeleteOldFile
  <2>1. rotated' = rotated
      BY <1>3 DEF Next, Construct, CannotRead, ScanDone, Write, Flush, Close, Reopen, OtherLoads,
         OtherStores, LoggerUnchanged, Destroy, Restart, vars
  <2> QED
      BY <2>1
<1> QED
    BY <1>1, <1>2, <1>3

\* The current file grows by the chunk that is written; what a restart or a
\* failed call of stdio leaves is a beginning of it.
LEMMA CurrentStep ==
  ASSUME IInv, [Next]_vars, ~Rename
  PROVE  /\ Begins(current', current) \/ (Write /\ fp_)
         /\ Write /\ fp_ =>
              /\ DOMAIN current = 1..Len(current) /\ Len(current) \in Nat
              /\ \A i \in DOMAIN current' :
                   \/ i \in DOMAIN current /\ current'[i] = current[i]
                   \/ i = Len(current) + 1 /\ current'[i] = written + 1
              /\ written' = written + 1
<1>0. TypeOK /\ current \in Seq(Nat)
    BY DEF IInv, TypeOK
<1>1. DOMAIN current = 1..Len(current) /\ Len(current) \in Nat
    BY <1>0, LenProperties
<1>2. ASSUME Write, fp_
      PROVE  /\ \A i \in DOMAIN current' :
                   \/ i \in DOMAIN current /\ current'[i] = current[i]
                   \/ i = Len(current) + 1 /\ current'[i] = written + 1
             /\ written' = written + 1
  <2>1. /\ current' \in Seq(Nat) /\ written' = written + 1
        /\ \A i \in 1..Len(current') :
             IF i = Len(current) + 1 THEN current'[i] = written + 1
             ELSE i \in 1..Len(current) /\ current'[i] = current[i]
      BY <1>0, <1>2, WriteEffect
  <2>2. DOMAIN current' = 1..Len(current')
      BY <2>1, LenProperties
  <2> QED
      BY <1>1, <2>1, <2>2
<1>3. CASE Flush \/ Close \/ Restart
  <2>1. /\ current' \in Seq(Nat)
        /\ \A i \in 1..Len(current') : i \in 1..Len(current) /\ current'[i] = current[i]
      BY <1>0, <1>3, FlushEffect, RestartEffect
  <2>2. DOMAIN current' = 1..Len(current')
      BY <2>1, LenProperties
  <2>3. Begins(current', current)
      BY <1>1, <2>1, <2>2 DEF Begins
  <2> QED
      BY <1>1, <1>2, <2>3
<1>4. CASE ~Flush /\ ~Close /\ ~Restart /\ ~(Write /\ fp_)
  <2>1. current' = current
      BY <1>4 DEF Next, Construct, CannotRead, Scan, ScanDone, Write, DeleteOldFile, Reopen,
         OtherLoads, OtherStores, LoggerUnchanged, Destroy, vars
  <2> QED
      BY <2>1, <1>4 DEF Begins
<1> QED
    BY <1>1, <1>2, <1>3, <1>4

\* Every step keeps chunks that have been written.
LEMMA ChunksStep == ASSUME IInv, [Next]_vars PROVE Chunks'
<1>0. /\ Chunks /\ written \in Nat /\ current \in Seq(Nat)
      /\ \A n \in DOMAIN rotated : rotated[n] \in Seq(Nat)
    BY DEF IInv, TypeOK
<1>1. CASE Rename
  <2>1. written' = written
      BY <1>1 DEF Rename
  <2>2. CASE UNCHANGED <<rotated, current>>
      BY <2>1, <2>2, <1>0 DEF Chunks
  <2>3. CASE /\ DOMAIN rotated' = DOMAIN rotated \cup {RotatedName}
             /\ \A n \in DOMAIN rotated : n # RotatedName => rotated'[n] = rotated[n]
             /\ rotated'[RotatedName] = current /\ current' = <<>>
      BY <2>1, <2>3, <1>0 DEF Chunks
  <2> QED
      BY <2>2, <2>3, <1>1, RenameEffect
<1>2. CASE ~Rename
  <2>1. written' \in {written, written + 1}
      BY <1>2 DEF Next, Construct, CannotRead, Scan, ScanDone, Write, Flush, Close, DeleteOldFile,
         Reopen, OtherLoads, OtherStores, LoggerUnchanged, Destroy, Restart, vars, countVars
  <2>2. \A c \in 1..written : c \in 1..written'
      BY <2>1, <1>0
  <2>3. ASSUME NEW n \in DOMAIN rotated', NEW i \in DOMAIN rotated'[n]
        PROVE  rotated'[n][i] \in 1..written'
    <3>1. n \in DOMAIN rotated /\ rotated'[n] = rotated[n]
        BY <1>2, RotatedStep
    <3>2. rotated[n][i] \in 1..written
        BY <3>1, <2>3, <1>0 DEF Chunks
    <3> QED
        BY <3>1, <3>2, <2>2
  <2>4. ASSUME NEW i \in DOMAIN current PROVE current[i] \in 1..written'
      BY <2>2, <1>0 DEF Chunks
  <2>5. ASSUME NEW i \in DOMAIN current' PROVE current'[i] \in 1..written'
    <3>1. CASE Begins(current', current)
        BY <3>1, <2>4 DEF Begins
    <3>2. CASE Write /\ fp_
      <4>1. /\ written' = written + 1
            /\ \/ i \in DOMAIN current /\ current'[i] = current[i]
               \/ i = Len(current) + 1 /\ current'[i] = written + 1
          BY <3>2, <1>2, CurrentStep
      <4> QED
          BY <4>1, <2>4, <1>0
    <3> QED
        BY <3>1, <3>2, <1>2, CurrentStep
  <2> QED
      BY <2>3, <2>5 DEF Chunks
<1> QED
    BY <1>1, <1>2

\* Every step keeps the chunks in order: the new one is the last, and the file
\* that is renamed has the latest name.
LEMMA NameOrderStep == ASSUME IInv, [Next]_vars PROVE NameOrder'
<1>0. /\ Chunks /\ written \in Nat /\ current \in Seq(Nat)
      /\ \A n \in DOMAIN rotated : rotated[n] \in Seq(Nat)
      /\ Increasing(current) /\ \A n \in DOMAIN rotated : Increasing(rotated[n])
      /\ orderly => /\ \A n \in DOMAIN rotated : AllLess(rotated[n], current)
                    /\ \A m, n \in DOMAIN rotated : Before(m, n) => AllLess(rotated[m], rotated[n])
    BY DEF IInv, TypeOK, NameOrder
<1>1. orderly' => orderly
    BY OrderlyWas
<1>2. CASE Rename
  <2>1. CASE UNCHANGED <<rotated, current>>
      BY <2>1, <1>0, <1>1 DEF NameOrder
  <2>2. CASE /\ DOMAIN rotated' = DOMAIN rotated \cup {RotatedName}
             /\ \A n \in DOMAIN rotated : n # RotatedName => rotated'[n] = rotated[n]
             /\ rotated'[RotatedName] = current /\ current' = <<>>
    <3>1. ASSUME NEW n \in DOMAIN rotated'
          PROVE  \/ n = RotatedName /\ rotated'[n] = current
                 \/ n # RotatedName /\ n \in DOMAIN rotated /\ rotated'[n] = rotated[n]
        BY <2>2
    <3>2. Increasing(current') /\ \A n \in DOMAIN rotated' : Increasing(rotated'[n])
      <4>1. Increasing(current')
          BY <2>2 DEF Increasing
      <4>2. ASSUME NEW n \in DOMAIN rotated' PROVE Increasing(rotated'[n])
          BY <3>1, <1>0
      <4> QED
          BY <4>1, <4>2
    <3>3. \A n \in DOMAIN rotated' : AllLess(rotated'[n], current')
        BY <2>2 DEF AllLess
    <3>4. ASSUME orderly', NEW m \in DOMAIN rotated', NEW n \in DOMAIN rotated', Before(m, n)
          PROVE  AllLess(rotated'[m], rotated'[n])
      <4>1. /\ \A k \in DOMAIN rotated : k \in Names /\ Before(k, RotatedName)
            /\ RotatedName \in Names
          BY <1>2, <3>4, NewNameIsLast, RenameEffect DEF Given, Renamed
      <4>2. m # RotatedName
        <5>1. ~Before(RotatedName, RotatedName)
            BY <4>1, NamesAreOrdered
        <5>2. \A k \in DOMAIN rotated : ~Before(RotatedName, k)
            BY <4>1, <5>1, NamesAreOrdered
        <5> QED
            BY <3>1, <3>4, <5>1, <5>2
      <4>3. m \in DOMAIN rotated /\ rotated'[m] = rotated[m]
          BY <3>1, <4>2
      <4>4. CASE n = RotatedName
        <5>1. rotated'[n] = current
            BY <2>2, <4>4
        <5> QED
            BY <5>1, <4>3, <1>0, <1>1, <3>4
      <4>5. CASE n # RotatedName
        <5>1. n \in DOMAIN rotated /\ rotated'[n] = rotated[n]
            BY <3>1, <4>5
        <5> QED
            BY <5>1, <4>3, <1>0, <1>1, <3>4
      <4> QED
          BY <4>4, <4>5
    <3> QED
        BY <3>2, <3>3, <3>4 DEF NameOrder
  <2> QED
      BY <2>1, <2>2, <1>2, RenameEffect
<1>3. CASE ~Rename
  <2>1. \A n \in DOMAIN rotated' : n \in DOMAIN rotated /\ rotated'[n] = rotated[n]
      BY <1>3, RotatedStep
  <2>2. CASE Begins(current', current)
    <3>1. Increasing(current')
        BY <2>2, <1>0 DEF Increasing, Begins
    <3>2. ASSUME orderly', NEW n \in DOMAIN rotated' PROVE AllLess(rotated'[n], current')
      <4>1. AllLess(rotated[n], current) /\ rotated'[n] = rotated[n]
          BY <3>2, <2>1, <1>0, <1>1
      <4> QED
          BY <4>1, <2>2 DEF AllLess, Begins
    <3> QED
        BY <3>1, <3>2, <2>1, <1>0, <1>1 DEF NameOrder
  <2>3. CASE Write /\ fp_
    <3>1. /\ DOMAIN current = 1..Len(current) /\ Len(current) \in Nat
          /\ \A i \in DOMAIN current' :
               \/ i \in DOMAIN current /\ current'[i] = current[i]
               \/ i = Len(current) + 1 /\ current'[i] = written + 1
        BY <2>3, <1>3, CurrentStep
    <3>3. ASSUME NEW s \in Seq(Nat), NEW i \in DOMAIN s, s[i] <= written
          PROVE  s[i] < written + 1
      <4>1. s[i] \in Nat
          BY ElementOfSeq, LenProperties
      <4> QED
          BY <4>1, <3>3, <1>0
    <3>4. ASSUME NEW i \in DOMAIN current', NEW j \in DOMAIN current', i < j
          PROVE  current'[i] < current'[j]
      <4>1. i \in DOMAIN current /\ current'[i] = current[i]
          BY <3>1, <3>4
      <4>2. current[i] <= written
          BY <4>1, <1>0 DEF Chunks
      <4>3. CASE j \in DOMAIN current /\ current'[j] = current[j]
          BY <4>1, <4>3, <3>4, <1>0 DEF Increasing
      <4>4. CASE j = Len(current) + 1 /\ current'[j] = written + 1
          BY <4>1, <4>2, <4>4, <3>3, <1>0
      <4> QED
          BY <4>3, <4>4, <3>1
    <3>5. ASSUME orderly', NEW n \in DOMAIN rotated',
                 NEW i \in DOMAIN rotated'[n], NEW j \in DOMAIN current'
          PROVE  rotated'[n][i] < current'[j]
      <4>1. /\ n \in DOMAIN rotated /\ rotated'[n] = rotated[n] /\ i \in DOMAIN rotated[n]
            /\ rotated[n][i] <= written /\ AllLess(rotated[n], current)
            /\ rotated[n] \in Seq(Nat)
          BY <3>5, <2>1, <1>0, <1>1 DEF Chunks
      <4>2. CASE j \in DOMAIN current /\ current'[j] = current[j]
          BY <4>1, <4>2 DEF AllLess
      <4>3. CASE j = Len(current) + 1 /\ current'[j] = written + 1
          BY <4>1, <4>3, <3>3
      <4> QED
          BY <4>2, <4>3, <3>1
    <3>6. Increasing(current')
        BY <3>4 DEF Increasing
    <3>7. orderly' => \A n \in DOMAIN rotated' : AllLess(rotated'[n], current')
        BY <3>5 DEF AllLess
    <3> QED
        BY <3>6, <3>7, <2>1, <1>0, <1>1 DEF NameOrder
  <2> QED
      BY <2>2, <2>3, <1>3, CurrentStep
<1> QED
    BY <1>2, <1>3

-----------------------------------------------------------------------------
(* The theorems *)

\* At first there is nothing.
LEMMA InvariantInit == ASSUME Init PROVE IInv
<1> USE DEF Init
<1>1. TypeOK
  <2>1. current \in Seq(Nat) /\ filenameQueue_ \in Seq(Names) /\ unflushed \in 0..Len(current)
      OBVIOUS
  <2>2. DOMAIN rotated = {}
      OBVIOUS
  <2> QED
      BY <2>1, <2>2 DEF TypeOK
<1>2. Started
    BY DEF Started
<1>3. Renamed = {} /\ QueueNamed = {} /\ Given = {}
    BY DEF Renamed, QueueNamed, Given, ToSet
<1>4. Kept
    BY <1>3, FS_EmptySet DEF Kept
<1>5. Ordered
    BY <1>3, FS_EmptySet DEF Ordered, InOrder
<1>6. Chunks /\ NameOrder
    BY DEF Chunks, NameOrder, Increasing, AllLess
<1> QED
    BY <1>1, <1>2, <1>4, <1>5, <1>6 DEF IInv

\* What every step keeps holds always.
THEOREM InvariantHolds == Spec => []IInv
<1>1. IInv /\ [Next]_vars => IInv'
    BY TypesStep, StartedStep, KeptStep, OrderedStep, ChunksStep, NameOrderStep DEF IInv
<1> QED
    BY <1>1, InvariantInit, PTL DEF Spec

\* Every variable keeps its type: the file is closed before it is renamed or
\* opened again, stdio never holds more than the file has, and what is queued
\* are names.
THEOREM TypeCorrect == Spec => []TypeOK
<1>1. IInv => TypeOK
    BY DEF IInv
<1> QED
    BY <1>1, InvariantHolds, PTL

\* Reading the renamed files in the order of their names and then the current
\* one gives the chunks in the order they were written, none twice, as long as
\* names come in order, for any number of processes, rotations and failures.
THEOREM NamesInOrder == Spec => []NameOrder
<1>1. IInv => NameOrder
    BY DEF IInv
<1> QED
    BY <1>1, InvariantHolds, PTL

\* Between calls of a logger there are no more than maxFiles_ renamed files,
\* but those that could not be read or removed, also after a start over the
\* files of other processes.
THEOREM RetentionHolds == Spec => []RetentionBound
<1>1. ASSUME IInv PROVE RetentionBound
  <2> SUFFICES ASSUME pc \in {"write", "ready"}, maxFiles_ > 0
               PROVE  Cardinality(DOMAIN rotated \ leftovers) <= maxFiles_
      BY DEF RetentionBound
  <2>1. /\ Renamed \subseteq QueueNamed \cup leftovers /\ Len(filenameQueue_) <= maxFiles_
        /\ filenameQueue_ \in Seq(Names) /\ maxFiles_ \in Nat
      BY <1>1 DEF IInv, Kept, Started, TypeOK
  <2>2. /\ IsFiniteSet(QueueNamed) /\ Cardinality(QueueNamed) <= Len(filenameQueue_)
        /\ Len(filenameQueue_) \in Nat
      BY <2>1, QueueNames DEF QueueNamed
  <2>3. Renamed \ leftovers \subseteq QueueNamed
      BY <2>1
  <2>4. /\ Cardinality(Renamed \ leftovers) <= Cardinality(QueueNamed)
        /\ Cardinality(Renamed \ leftovers) \in Nat /\ Cardinality(QueueNamed) \in Nat
      BY <2>2, <2>3, FS_Subset, FS_CardinalityType
  <2> QED
      BY <2>1, <2>2, <2>4 DEF Renamed
<1> QED
    BY <1>1, InvariantHolds, PTL

-----------------------------------------------------------------------------
(* What becomes of durable chunks *)

\* Whether a chunk is among the first k of a file or in a renamed one.
Held(file, k, files, c) ==
  \/ \E i \in 1..k : c = file[i]
  \/ \E n \in DOMAIN files : \E i \in DOMAIN files[n] : c = files[n][i]

\* A durable chunk has left stdio, or is in a renamed file.
LEMMA DurableIsHeld ==
  /\ \A c : c \in Durable <=> Held(current, Passed, rotated, c)
  /\ \A c : c \in Durable' <=> Held(current', Passed', rotated', c)
<1>1. \A c : c \in Durable <=> Held(current, Passed, rotated, c)
    BY DEF Durable, InCurrent, InFile, Held
<1>2. \A c : c \in Durable' <=> Held(current', Passed', rotated', c)
    BY DEF Durable, InCurrent, InFile, Held
<1> QED
    BY <1>1, <1>2

\* What has left stdio stays, in the current file or in the renamed one.
LEMMA CurrentIsKept ==
  ASSUME IInv, [Next]_vars, NEW c, \E i \in 1..Passed : c = current[i]
  PROVE  c \in Durable'
<1>1. PICK i \in 1..Passed : c = current[i]
    OBVIOUS
<1>2. /\ TypeOK /\ current \in Seq(Nat) /\ Len(current) \in Nat /\ unflushed \in 0..Len(current)
      /\ DOMAIN current = 1..Len(current) /\ Passed \in 0..Len(current)
  <2>1. TypeOK /\ current \in Seq(Nat) /\ unflushed \in 0..Len(current)
      BY DEF IInv, TypeOK
  <2> QED
      BY <2>1, LenProperties DEF Passed
<1>3. i \in 1..Len(current)
    BY <1>1, <1>2
<1> SUFFICES \/ i \in 1..Passed' /\ current'[i] = current[i]
             \/ \E n \in DOMAIN rotated' : i \in DOMAIN rotated'[n] /\ rotated'[n][i] = current[i]
    BY <1>1, DurableIsHeld DEF Held
\* What stdio has passed on stays so.
<1>p. ASSUME Passed <= Passed', Passed' \in Nat, Passed' <= Len(current'), Len(current') \in Nat,
             \A j \in 1..Len(current') : j \in 1..Len(current) => current'[j] = current[j]
      PROVE  i \in 1..Passed' /\ current'[i] = current[i]
    BY <1>p, <1>1, <1>2, <1>3
<1>4. CASE Rename
  <2>1. CASE UNCHANGED <<rotated, current>>
    <3>1. unflushed' = unflushed
        BY <1>4 DEF Rename
    <3> QED
        BY <2>1, <3>1, <1>1 DEF Passed
  <2>2. CASE /\ DOMAIN rotated' = DOMAIN rotated \cup {RotatedName}
             /\ rotated'[RotatedName] = current
      BY <2>2, <1>2, <1>3
  <2> QED
      BY <2>1, <2>2, <1>4, RenameEffect
<1>5. CASE Write /\ fp_
  <2>1. /\ Len(current') \in Nat /\ Passed <= Len(current') /\ unflushed' = Len(current') - Passed
        /\ \A j \in 1..Len(current') :
             IF j = Len(current) + 1 THEN current'[j] = written + 1
             ELSE j \in 1..Len(current) /\ current'[j] = current[j]
      BY <1>2, <1>5, WriteEffect
  <2>2. Passed' = Passed
      BY <2>1, <1>2 DEF Passed
  <2>3. \A j \in 1..Len(current') : j \in 1..Len(current) => current'[j] = current[j]
      BY <2>1, <1>2
  <2> QED
      BY <2>1, <2>2, <2>3, <1>2, <1>p
<1>6. CASE Flush \/ Close \/ Restart
  <2>1. /\ Len(current') \in Nat /\ Passed <= Len(current')
        /\ unflushed' \in {0, Len(current') - Passed}
        /\ \A j \in 1..Len(current') : j \in 1..Len(current) /\ current'[j] = current[j]
      BY <1>2, <1>6, FlushEffect, RestartEffect
  <2>2. Passed' \in {Passed, Len(current')}
      BY <2>1, <1>2 DEF Passed
  <2> QED
      BY <2>1, <2>2, <1>2, <1>p
<1>7. CASE ~Rename /\ ~(Write /\ fp_) /\ ~Flush /\ ~Close /\ ~Restart
  <2>1. current' = current /\ unflushed' = unflushed
      BY <1>7 DEF Next, Construct, CannotRead, Scan, ScanDone, Write, DeleteOldFile, Reopen,
         OtherLoads, OtherStores, LoggerUnchanged, Destroy, vars
  <2> QED
      BY <2>1, <1>1 DEF Passed
<1> QED
    BY <1>4, <1>5, <1>6, <1>7

\* What makes up for a file that retention removes.
Later(n) == {m \in DOMAIN rotated : Before(n, m)}

\* A renamed file goes only when maxFiles_ later ones are there or should be.
LEMMA FileIsKept ==
  ASSUME IInv, [Next]_vars, orderly', NEW n \in DOMAIN rotated,
         ~(n \in DOMAIN rotated' /\ rotated'[n] = rotated[n])
  PROVE  maxFiles_ > 0 /\ Cardinality(Later(n)) + phantoms >= maxFiles_
<1>0. /\ orderly /\ maxFiles_ \in Nat /\ phantoms \in Nat
      /\ Kept /\ IsFiniteSet(Renamed)
      /\ InOrder(filenameQueue_) /\ Cardinality(QueueNamed \ Renamed) <= phantoms
    BY OrderlyWas DEF IInv, TypeOK, Kept, Ordered
<1>l. IsFiniteSet(Later(n)) /\ Cardinality(Later(n)) \in Nat
    BY <1>0, FS_Subset, FS_CardinalityType DEF Later, Renamed
\* The later names of a full queue, but for those that name no file.
<1>1. ASSUME NEW S, IsFiniteSet(S), Cardinality(S) = maxFiles_, \A m \in S : Before(n, m),
             S \ Renamed \subseteq QueueNamed \ Renamed
      PROVE  Cardinality(Later(n)) + phantoms >= maxFiles_
  <2> DEFINE A == S \cap Renamed
             B == S \ Renamed
  <2>1. IsFiniteSet(A) /\ IsFiniteSet(B) /\ S = A \cup B /\ A \cap B = {}
      BY <1>1, FS_Subset
  <2>2. IsFiniteSet(QueueNamed \ Renamed)
    <3>1. IsFiniteSet(QueueNamed)
        BY QueueNames DEF QueueNamed, IInv, TypeOK
    <3> QED
        BY <3>1, FS_Difference
  <2>3. A \subseteq Later(n)
      BY <1>1 DEF Later, Renamed
  <2> HIDE DEF A, B
  <2>4. /\ Cardinality(A) \in Nat /\ Cardinality(B) \in Nat
        /\ Cardinality(QueueNamed \ Renamed) \in Nat
      BY <2>1, <2>2, FS_CardinalityType
  <2>5. Cardinality(S) = Cardinality(A) + Cardinality(B)
    <3>1. Cardinality(A \cup B) = Cardinality(A) + Cardinality(B) - Cardinality(A \cap B)
        BY <2>1, FS_Union
    <3>2. Cardinality(A \cap B) = 0
        BY <2>1, FS_EmptySet
    <3> QED
        BY <2>1, <2>4, <3>1, <3>2
  <2>6. Cardinality(A) <= Cardinality(Later(n))
      BY <2>3, <1>l, FS_Subset
  <2>7. Cardinality(B) <= Cardinality(QueueNamed \ Renamed)
    <3>1. B \subseteq QueueNamed \ Renamed
        BY <1>1 DEF B
    <3> QED
        BY <3>1, <2>2, FS_Subset
  <2> QED
      BY <2>4, <2>5, <2>6, <2>7, <1>0, <1>1, <1>l
<1>2. CASE Scan
  <2>1. PICK k \in unread, S \in SUBSET Names :
          \/ S = QueueNamed \cup {k} /\ UNCHANGED <<rotated, leftovers>>
          \/ \E first \in QueueNamed \cup {k} :
               /\ S = (QueueNamed \cup {k}) \ {first} /\ Cardinality(S) = maxFiles_
               /\ \A m \in S : Before(first, m)
               /\ Removal(first)
      BY <1>2, ScanEffect
  <2>2. ~UNCHANGED rotated
      OBVIOUS
  <2>3. PICK first \in QueueNamed \cup {k} :
          /\ S = (QueueNamed \cup {k}) \ {first} /\ Cardinality(S) = maxFiles_
          /\ \A m \in S : Before(first, m)
          /\ rotated' = Without(rotated, first)
      BY <2>1, <2>2 DEF Removal
  <2>4. n = first
      BY <2>3 DEF Without
  <2>5. maxFiles_ > 0 /\ S \subseteq Renamed
      BY <1>2, <2>1, <2>3, <1>0 DEF Scan, Kept
  <2>6. IsFiniteSet(S)
      BY <2>5, <1>0, FS_Subset
  <2> QED
      BY <2>3, <2>4, <2>5, <2>6, <1>1
<1>3. CASE DeleteOldFile
  <2> DEFINE head == Head(filenameQueue_)
  <2>1. /\ filenameQueue_ # <<>> /\ filenameQueue_ \in Seq(Names)
        /\ filenameQueue_' = Tail(filenameQueue_)
        /\ QueueNamed = {head} \cup QueueNamed' /\ maxFiles_ > 0
        /\ Len(filenameQueue_') = maxFiles_ /\ Removal(head)
      BY <1>3, DeleteEffect
  <2>2. /\ \A m \in QueueNamed' : Before(head, m)
        /\ Cardinality(QueueNamed') = maxFiles_
      BY <2>1, <1>0, InOrderTail DEF QueueNamed
  <2>3. IsFiniteSet(QueueNamed')
    <3>1. IsFiniteSet(QueueNamed)
        BY <2>1, QueueNames DEF QueueNamed
    <3> QED
        BY <2>1, <3>1, FS_Subset
  <2> HIDE DEF head
  <2>4. n = head
    <3>1. ~UNCHANGED rotated
        OBVIOUS
    <3>2. rotated' = Without(rotated, head)
        BY <2>1, <3>1 DEF Removal
    <3> QED
        BY <3>2 DEF Without
  <2> QED
      BY <2>1, <2>2, <2>3, <2>4, <1>1
<1>4. CASE Rename
  <2>1. RotatedName # n
      BY <1>4, NewNameIsLast DEF Given, Renamed
  <2> QED
      BY <2>1, <1>4, RenameEffect
<1>5. CASE ~Scan /\ ~DeleteOldFile /\ ~Rename
  <2>1. rotated' = rotated
      BY <1>5 DEF Next, Construct, CannotRead, ScanDone, Write, Flush, Close, Reopen, OtherLoads,
         OtherStores, LoggerUnchanged, Destroy, Restart, vars
  <2> QED
      BY <2>1
<1> QED
    BY <1>2, <1>3, <1>4, <1>5

\* A chunk that stdio has passed on goes only with a file that retention removes,
\* and then maxFiles_ later files are there or should be: no rotation, crash,
\* start or failed call, of stdio too, loses one, as long as names come in order.
THEOREM OnlyRetentionLosesChunks == Spec => OnlyRetentionLoses
<1> DEFINE Excused(c) ==
      \E n \in DOMAIN rotated :
        /\ c \in InFile(n) /\ maxFiles_ > 0
        /\ Cardinality({m \in DOMAIN rotated : Before(n, m)}) + phantoms >= maxFiles_
<1>1. ASSUME IInv, [Next]_vars
      PROVE  [orderly' => \A c \in Durable \ Durable' : Excused(c)]_vars
  <2> SUFFICES ASSUME orderly', NEW c \in Durable \ Durable' PROVE Excused(c)
      OBVIOUS
  <2>1. ~\E i \in 1..Passed : c = current[i]
      BY <1>1, CurrentIsKept
  <2>2. PICK n \in DOMAIN rotated : \E i \in DOMAIN rotated[n] : c = rotated[n][i]
      BY <2>1, DurableIsHeld DEF Held
  <2>3. ~(n \in DOMAIN rotated' /\ rotated'[n] = rotated[n])
      BY <2>2, DurableIsHeld DEF Held
  <2>4. maxFiles_ > 0 /\ Cardinality(Later(n)) + phantoms >= maxFiles_
      BY <1>1, <2>3, FileIsKept
  <2>5. c \in InFile(n)
      BY <2>2 DEF InFile
  <2> QED
      BY <2>4, <2>5 DEF Later
<1>2. IInv /\ [Next]_vars => [orderly' => \A c \in Durable \ Durable' : Excused(c)]_vars
    BY <1>1
<1> QED
    BY <1>2, InvariantHolds, PTL DEF Spec, OnlyRetentionLoses
=============================================================================
