------------------------- MODULE ObjectPool_proofs --------------------------
(***************************************************************************)
(* Proofs about ObjectPool, for any number of threads and objects.  An     *)
(* object is in exactly one place: every step moves one from a set to      *)
(* another, or a whole set, so lemmas say what taking an object in hand,   *)
(* laying it down, and losing the pool do to the sets.                     *)
(***************************************************************************)
EXTENDS ObjectPool, FiniteSetTheorems, SequenceTheorems, TLAPS

\* The parts of OnePlace: the places are apart, as sets; an object is once in
\* the pool; and in the hands of one thread.
PlacesApart ==
  /\ allocated = Pooled \cup InHand \cup Held \cup leaked
  /\ Pooled \cap (InHand \cup Held \cup leaked) = {}
  /\ InHand \cap (Held \cup leaked) = {}
  /\ Held \cap leaked = {}
PooledOnce == \A i, j \in DOMAIN objs_ : objs_[i] = objs_[j] => i = j
OneHand == \A t, u \in Threads : p[t] = p[u] /\ p[t] # NoObject => t = u

\* Objects are left to themselves only when the pool goes, and it keeps none.
LeftBehind == (alive => leaked = {}) /\ (~alive => objs_ = <<>>)

Inv ==
  /\ TypeOK /\ PlacesApart /\ PooledOnce /\ OneHand
  /\ PoolOutlivesItsUse /\ LeftBehind /\ ReusesBeforeAllocating

-----------------------------------------------------------------------------
(* Sequences and sets *)

\* A sequence without its last element.
LEMMA FrontAndLast ==
  ASSUME NEW S, NEW s \in Seq(S), s # <<>>
  PROVE  /\ Len(s) \in Nat \ {0} /\ Last(s) = s[Len(s)] /\ Last(s) \in S
         /\ Front(s) \in Seq(S) /\ Len(Front(s)) = Len(s) - 1
         /\ \A i \in 1..(Len(s) - 1) : Front(s)[i] = s[i]
<1>1. Len(s) \in Nat /\ Len(s) > 0
  OBVIOUS
<1>2. Last(s) = s[Len(s)] /\ Front(s) = SubSeq(s, 1, Len(s) - 1)
  BY DEF Last, Front
<1>3. \A i \in 1..Len(s) : s[i] \in S
  OBVIOUS
<1>4. s[Len(s)] \in S
  BY <1>1, <1>3
<1> DEFINE n == Len(s) - 1
<1>6. n \in Nat /\ n \in Int /\ \A i \in 1..n : s[i] \in S
  BY <1>1, <1>3
<1>7. /\ SubSeq(s, 1, n) \in Seq(S)
      /\ Len(SubSeq(s, 1, n)) = IF 1 <= n THEN n - 1 + 1 ELSE 0
      /\ \A i \in 1..(n - 1 + 1) : SubSeq(s, 1, n)[i] = s[1 + i - 1]
  BY <1>6, SubSeqProperties
<1> HIDE DEF n
<1>8. Len(SubSeq(s, 1, n)) = n /\ \A i \in 1..n : SubSeq(s, 1, n)[i] = s[i]
  BY <1>6, <1>7
<1> QED BY <1>1, <1>2, <1>4, <1>7, <1>8 DEF n

\* The places hold objects, and are finite.
LEMMA PlacesFinite ==
  ASSUME TypeOK
  PROVE  /\ Pooled \subseteq Objects /\ InHand \subseteq Objects /\ Held \subseteq Objects
         /\ IsFiniteSet(Held \cup InHand) /\ IsFiniteSet(allocated)
         /\ \A places : IsFiniteSet(At(places)) /\ At(places) \subseteq Threads
         /\ Demand \in Nat
<1>1. Pooled \subseteq Objects
  BY DEF TypeOK, Pooled, ToSet
<1>2. InHand \subseteq Objects /\ Held \subseteq Objects
  BY DEF TypeOK, InHand, Held
<1>3. IsFiniteSet(Held \cup InHand) /\ IsFiniteSet(allocated)
  BY <1>2, ObjectsAssumption, FS_Subset DEF ObjectsAssumption, TypeOK
<1>4. \A places : At(places) \subseteq Threads
  BY DEF At
<1>5. \A places : IsFiniteSet(At(places))
  BY <1>4, ThreadsAssumption, FS_Subset DEF ThreadsAssumption
<1>6. Demand \in Nat
  BY <1>3, <1>5, FS_CardinalityType DEF Demand
<1> QED BY <1>1, <1>2, <1>3, <1>4, <1>5, <1>6

\* A thread with empty hands takes an object.
LEMMA TakesInHand ==
  ASSUME TypeOK, OneHand, NEW t \in Threads, NEW o \in Objects,
         p[t] = NoObject, p' = [p EXCEPT ![t] = o]
  PROVE  InHand' = InHand \cup {o} /\ (o \notin InHand => OneHand')
<1>1. /\ p'[t] = o /\ \A u \in Threads : u # t => p'[u] = p[u]
      /\ p \in [Threads -> Objects \cup {NoObject}] /\ o # NoObject
  BY ObjectsAssumption DEF TypeOK, ObjectsAssumption
<1>2. InHand' = InHand \cup {o}
  BY <1>1 DEF InHand
<1>3. ASSUME o \notin InHand PROVE OneHand'
  <2>1. \A u \in Threads : p[u] # o
    BY <1>1, <1>3 DEF InHand
  <2> QED BY <1>1, <2>1 DEF OneHand
<1> QED BY <1>2, <1>3

\* A thread lays down the object in its hand.
LEMMA LaysDown ==
  ASSUME TypeOK, OneHand, NEW t \in Threads,
         p[t] # NoObject, p' = [p EXCEPT ![t] = NoObject]
  PROVE  /\ p[t] \in Objects /\ p[t] \in InHand /\ InHand' = InHand \ {p[t]} /\ OneHand'
<1>1. /\ p'[t] = NoObject /\ \A u \in Threads : u # t => p'[u] = p[u]
      /\ p \in [Threads -> Objects \cup {NoObject}]
  BY DEF TypeOK
<1>2. p[t] \in Objects /\ p[t] \in InHand
  BY <1>1 DEF InHand
<1>3. InHand' = InHand \ {p[t]}
  BY <1>1 DEF InHand, OneHand
<1>4. OneHand'
  BY <1>1 DEF OneHand
<1> QED BY <1>2, <1>3, <1>4

\* The peak is a number that never falls and is at least the demand.
LEMMA Measured ==
  ASSUME TypeOK, Demand' \in Nat, Measure
  PROVE  peak' \in Nat /\ peak' >= peak /\ peak' >= Demand'
  BY DEF TypeOK, Measure
\* The last object leaves the pool.
LEMMA Popped ==
  ASSUME objs_ \in Seq(Objects), PooledOnce, objs_ # <<>>, objs_' = Front(objs_)
  PROVE  /\ objs_' \in Seq(Objects) /\ Last(objs_) \in Pooled /\ Last(objs_) \in Objects
         /\ Pooled' = Pooled \ {Last(objs_)} /\ PooledOnce'
<1>1. /\ Len(objs_) \in Nat \ {0} /\ Last(objs_) = objs_[Len(objs_)] /\ Last(objs_) \in Objects
      /\ objs_' \in Seq(Objects) /\ Len(objs_') = Len(objs_) - 1
      /\ \A i \in 1..(Len(objs_) - 1) : objs_'[i] = objs_[i]
  BY FrontAndLast
<1>2. DOMAIN objs_ = 1..Len(objs_) /\ DOMAIN objs_' = 1..(Len(objs_) - 1)
  BY <1>1
<1>3. /\ \A i \in 1..(Len(objs_) - 1) : i \in 1..Len(objs_) /\ i # Len(objs_)
      /\ Len(objs_) \in 1..Len(objs_)
      /\ \A i \in 1..Len(objs_) : i # Len(objs_) => i \in 1..(Len(objs_) - 1)
  BY <1>1
<1>4. Pooled' = Pooled \ {Last(objs_)} /\ Last(objs_) \in Pooled
  <2>1. \A o : o \in Pooled <=> \E i \in 1..Len(objs_) : objs_[i] = o
    BY <1>2 DEF Pooled, ToSet
  <2>2. \A o : o \in Pooled' <=> \E i \in 1..(Len(objs_) - 1) : objs_'[i] = o
    BY <1>2 DEF Pooled, ToSet
  <2>3. \A i \in 1..Len(objs_) : objs_[i] = Last(objs_) <=> i = Len(objs_)
    BY <1>1, <1>2, <1>3 DEF PooledOnce
  <2>4. ASSUME NEW o PROVE o \in Pooled' <=> o \in Pooled /\ o # Last(objs_)
    BY <1>1, <1>3, <2>1, <2>2, <2>3
  <2> QED BY <1>1, <1>3, <2>1, <2>4
<1>5. PooledOnce'
  BY <1>1, <1>2, <1>3 DEF PooledOnce
<1> QED BY <1>1, <1>4, <1>5

\* An object joins the pool.
LEMMA Pushed ==
  ASSUME objs_ \in Seq(Objects), PooledOnce, NEW o \in Objects, o \notin Pooled,
         objs_' = Append(objs_, o)
  PROVE  objs_' \in Seq(Objects) /\ Pooled' = Pooled \cup {o} /\ PooledOnce'
<1> DEFINE n == Len(objs_)
<1>1. /\ n \in Nat /\ objs_' \in Seq(Objects) /\ Len(objs_') = n + 1
      /\ objs_'[n + 1] = o /\ \A i \in 1..n : objs_'[i] = objs_[i]
  BY AppendProperties
<1>2. DOMAIN objs_ = 1..n /\ DOMAIN objs_' = 1..(n + 1)
  BY <1>1
<1> HIDE DEF n
<1>3. /\ n + 1 \in 1..(n + 1) /\ \A i \in 1..n : i \in 1..(n + 1)
      /\ \A i \in 1..(n + 1) : i \in 1..n \/ i = n + 1
  BY <1>1
<1>4. Pooled' = Pooled \cup {o}
  BY <1>1, <1>2, <1>3 DEF Pooled, ToSet
<1>5. PooledOnce'
  BY <1>1, <1>2, <1>3 DEF PooledOnce, Pooled, ToSet
<1> QED BY <1>1, <1>4, <1>5

\* Where nothing is allocated or about to be, the bound stays.
LEMMA NothingAllocated ==
  ASSUME TypeOK, ReusesBeforeAllocating, peak' \in Nat, peak' >= peak,
         allocated' = allocated, At({"new"})' = At({"new"})
  PROVE  ReusesBeforeAllocating'
<1>1. Cardinality(allocated) \in Nat /\ Cardinality(At({"new"})) \in Nat /\ peak \in Nat
  BY PlacesFinite, FS_CardinalityType DEF TypeOK
<1> QED BY <1>1 DEF ReusesBeforeAllocating

-----------------------------------------------------------------------------
LEMMA InitInv == Init => Inv
<1> SUFFICES ASSUME Init PROVE Inv
  OBVIOUS
<1>1. TypeOK
  BY DEF Init, TypeOK
<1>2. Pooled = {} /\ InHand = {} /\ Held = {} /\ \A places : "idle" \notin places => At(places) = {}
  BY DEF Init, Pooled, ToSet, InHand, Held, At
<1>3. PlacesApart /\ PooledOnce /\ OneHand /\ LeftBehind
  BY <1>2 DEF Init, PlacesApart, PooledOnce, OneHand, LeftBehind
<1>4. PoolOutlivesItsUse
  BY <1>2 DEF Init, PoolOutlivesItsUse
<1>5. ReusesBeforeAllocating
  <2>1. At({"new"}) = {} /\ allocated = {} /\ peak = 0
    BY <1>2 DEF Init
  <2> QED BY <2>1, FS_EmptySet DEF ReusesBeforeAllocating
<1> QED BY <1>1, <1>3, <1>4, <1>5 DEF Inv
\* An object is put into somebody's hand for the first time while another is
\* wanted: what is allocated or about to be was in demand at that moment.
LEMMA PopInv ==
  ASSUME Inv, NEW t \in Threads, Pop(t)
  PROVE  Inv'
<1>1. /\ TypeOK /\ t \in owners /\ pc[t] = "idle" /\ p[t] = NoObject /\ Measure /\ alive
      /\ UNCHANGED <<alive, owners, allocated, holders, leaked>> /\ Held' = Held
  BY DEF Inv, TypeOK, Pop, Go, Held, PoolOutlivesItsUse
<1>2. leaked = {}
  BY <1>1 DEF Inv, LeftBehind
<1>3. CASE objs_ = <<>>
  <2>1. pc' = [pc EXCEPT ![t] = "new"] /\ p' = p /\ objs_' = objs_
    BY <1>1, <1>3 DEF Pop, Go, TypeOK
  <2>2. InHand' = InHand /\ Pooled' = Pooled /\ Pooled = {}
    BY <1>3, <2>1 DEF InHand, Pooled, ToSet
  <2>3. At({"push", "unlock"})' = At({"push", "unlock"}) /\ At({"new", "wrap"})' = At({"new", "wrap"}) \cup {t}
        /\ At({"new"})' \subseteq Threads
    BY <1>1, <2>1 DEF At, TypeOK
  <2>4. /\ IsFiniteSet(At({"new"})') /\ IsFiniteSet(allocated) /\ IsFiniteSet(Held \cup InHand)
    BY <1>1, <2>3, PlacesFinite, ThreadsAssumption, FS_Subset DEF ThreadsAssumption
  <2>5. Demand' \in Nat /\ Cardinality(At({"new"})') \in Nat /\ Cardinality(allocated) \in Nat
        /\ Demand' = Cardinality(Held \cup InHand) + Cardinality(At({"new"})')
    BY <1>1, <2>2, <2>4, FS_CardinalityType DEF Demand
  <2>6. peak' \in Nat /\ peak' >= peak /\ peak' >= Demand'
    BY <1>1, <2>5, Measured
  <2>7. TypeOK'
    BY <1>1, <2>1, <2>6 DEF TypeOK
  <2>8. PlacesApart' /\ PooledOnce' /\ OneHand' /\ LeftBehind'
    BY <1>1, <2>1, <2>2 DEF Inv, PlacesApart, PooledOnce, OneHand, LeftBehind
  <2>9. PoolOutlivesItsUse'
    BY <1>1, <2>3 DEF Inv, PoolOutlivesItsUse
  <2>10. allocated = Held \cup InHand
    BY <1>2, <2>2 DEF Inv, PlacesApart
  <2>11. ReusesBeforeAllocating'
    BY <1>1, <2>5, <2>6, <2>10 DEF ReusesBeforeAllocating
  <2> QED BY <2>7, <2>8, <2>9, <2>11 DEF Inv
<1>4. CASE objs_ # <<>>
  <2> DEFINE o == Last(objs_)
  <2>1. /\ pc' = [pc EXCEPT ![t] = "wrap"] /\ p' = [p EXCEPT ![t] = o] /\ objs_' = Front(objs_)
    BY <1>4 DEF Pop, Go
  <2>2. /\ objs_' \in Seq(Objects) /\ o \in Pooled /\ o \in Objects
        /\ Pooled' = Pooled \ {o} /\ PooledOnce'
    BY <1>1, <1>4, <2>1, Popped DEF Inv, TypeOK
  <2> HIDE DEF o
  <2>3. o \notin InHand /\ OneHand
    BY <2>2 DEF Inv, PlacesApart
  <2>4. InHand' = InHand \cup {o} /\ OneHand'
    BY <1>1, <2>1, <2>2, <2>3, TakesInHand
  <2>5. At({"push", "unlock"})' = At({"push", "unlock"}) /\ At({"new", "wrap"})' = At({"new", "wrap"}) \cup {t}
        /\ At({"new"})' = At({"new"})
    BY <1>1, <2>1 DEF At, TypeOK
  <2>6. o # NoObject
    BY <2>2, ObjectsAssumption DEF ObjectsAssumption
  <2>7. Demand' \in Nat
    <3>1. Held' \cup InHand' \subseteq Objects
      BY <1>1, <2>2, <2>4, PlacesFinite
    <3>2. IsFiniteSet(Held' \cup InHand') /\ IsFiniteSet(At({"new"})')
      BY <1>1, <2>5, <3>1, PlacesFinite, ObjectsAssumption, FS_Subset DEF ObjectsAssumption
    <3> QED BY <3>2, FS_CardinalityType DEF Demand
  <2>8. peak' \in Nat /\ peak' >= peak
    BY <1>1, <2>7, Measured
  <2>9. TypeOK'
    BY <1>1, <2>1, <2>2, <2>6, <2>8 DEF TypeOK
  <2>10. PlacesApart'
    BY <1>1, <2>2, <2>4 DEF Inv, PlacesApart
  <2>11. PoolOutlivesItsUse' /\ LeftBehind'
    BY <1>1, <2>5 DEF Inv, PoolOutlivesItsUse, LeftBehind
  <2>12. ReusesBeforeAllocating'
    BY <1>1, <2>5, <2>8, NothingAllocated DEF Inv
  <2> QED BY <2>2, <2>4, <2>9, <2>10, <2>11, <2>12 DEF Inv
<1> QED BY <1>3, <1>4

LEMMA AllocateInv ==
  ASSUME Inv, NEW t \in Threads, Allocate(t)
  PROVE  Inv'
<1>1. PICK o \in Objects \ allocated : Go(t, "new", "wrap", o) /\ allocated' = allocated \cup {o}
  BY DEF Allocate
<1>2. /\ TypeOK /\ OneHand /\ pc[t] = "new" /\ p[t] = NoObject /\ Measure
      /\ UNCHANGED <<alive, owners, objs_, holders, leaked>>
      /\ pc' = [pc EXCEPT ![t] = "wrap"] /\ p' = [p EXCEPT ![t] = o]
      /\ Held' = Held /\ Pooled' = Pooled
  BY <1>1 DEF Inv, TypeOK, Allocate, Go, Held, Pooled
<1>3. o \notin InHand /\ o \notin Pooled /\ o \notin Held /\ o \notin leaked
  BY <1>1 DEF Inv, PlacesApart
<1>4. InHand' = InHand \cup {o} /\ OneHand'
  BY <1>1, <1>2, <1>3, TakesInHand
<1>5. /\ At({"push", "unlock"})' = At({"push", "unlock"}) /\ At({"new", "wrap"})' = At({"new", "wrap"})
      /\ At({"new"})' = At({"new"}) \ {t} /\ t \in At({"new"})
  BY <1>2 DEF At, TypeOK
<1>6. o # NoObject
  BY <1>1, ObjectsAssumption DEF ObjectsAssumption
<1>7. IsFiniteSet(Held' \cup InHand') /\ IsFiniteSet(At({"new"})) /\ IsFiniteSet(allocated)
      /\ IsFiniteSet(At({"new"})')
  <2>1. Held' \cup InHand' \subseteq Objects
    BY <1>1, <1>2, <1>4, PlacesFinite
  <2> QED BY <1>2, <1>5, <2>1, PlacesFinite, ObjectsAssumption, FS_Subset, FS_RemoveElement
             DEF ObjectsAssumption
<1>8. peak' \in Nat /\ peak' >= peak
  <2>1. Demand' \in Nat
    BY <1>7, FS_CardinalityType DEF Demand
  <2> QED BY <1>2, <2>1, Measured
<1>9. TypeOK'
  BY <1>1, <1>2, <1>6, <1>8 DEF TypeOK
<1>10. PlacesApart' /\ PooledOnce'
  BY <1>1, <1>2, <1>3, <1>4 DEF Inv, PlacesApart, PooledOnce
<1>11. PoolOutlivesItsUse' /\ LeftBehind'
  BY <1>2, <1>5 DEF Inv, PoolOutlivesItsUse, LeftBehind
<1>12. ReusesBeforeAllocating'
  <2>1. Cardinality(allocated') = Cardinality(allocated) + 1
    BY <1>1, <1>7, FS_AddElement
  <2>2. Cardinality(At({"new"})') = Cardinality(At({"new"})) - 1
    BY <1>5, <1>7, FS_RemoveElement
  <2>3. Cardinality(allocated) \in Nat /\ Cardinality(At({"new"})) \in Nat /\ peak \in Nat
    BY <1>2, <1>7, FS_CardinalityType DEF TypeOK
  <2> QED BY <1>8, <2>1, <2>2, <2>3 DEF Inv, ReusesBeforeAllocating
<1> QED BY <1>4, <1>9, <1>10, <1>11, <1>12 DEF Inv

LEMMA WrapInv ==
  ASSUME Inv, NEW t \in Threads, Wrap(t)
  PROVE  Inv'
<1>1. /\ TypeOK /\ OneHand /\ pc[t] = "wrap" /\ p[t] # NoObject /\ Measure
      /\ UNCHANGED <<alive, owners, objs_, allocated, leaked>> /\ Pooled' = Pooled
      /\ pc' = [pc EXCEPT ![t] = "idle"] /\ p' = [p EXCEPT ![t] = NoObject]
      /\ holders' = [holders EXCEPT ![p[t]] = {t}]
  BY DEF Inv, TypeOK, Wrap, Go, Pooled
<1>2. /\ p[t] \in Objects /\ p[t] \in InHand /\ InHand' = InHand \ {p[t]} /\ OneHand'
  BY <1>1, LaysDown
<1>3. Held' = Held \cup {p[t]}
  BY <1>1, <1>2 DEF Held, TypeOK
<1>4. /\ At({"push", "unlock"})' = At({"push", "unlock"})
      /\ At({"new", "wrap"})' \subseteq At({"new", "wrap"}) /\ At({"new"})' = At({"new"})
  BY <1>1 DEF At, TypeOK
<1>5. peak' \in Nat /\ peak' >= peak
  <2>1. Held' \cup InHand' = Held \cup InHand
    BY <1>2, <1>3
  <2>2. Demand' = Demand
    BY <1>4, <2>1 DEF Demand
  <2> QED BY <1>1, <2>2, PlacesFinite, Measured
<1>6. TypeOK'
  BY <1>1, <1>2, <1>5 DEF TypeOK
<1>7. PlacesApart' /\ PooledOnce'
  BY <1>1, <1>2, <1>3 DEF Inv, PlacesApart, PooledOnce
<1>8. PoolOutlivesItsUse' /\ LeftBehind'
  BY <1>1, <1>4 DEF Inv, PoolOutlivesItsUse, LeftBehind
<1>9. ReusesBeforeAllocating'
  BY <1>1, <1>4, <1>5, NothingAllocated DEF Inv
<1> QED BY <1>2, <1>6, <1>7, <1>8, <1>9 DEF Inv
LEMMA DropObjectInv ==
  ASSUME Inv, NEW t \in Threads, NEW o \in Objects, DropObject(t, o)
  PROVE  Inv'
<1>1. /\ TypeOK /\ OneHand /\ pc[t] = "idle" /\ p[t] = NoObject /\ t \in holders[o] /\ Measure
      /\ UNCHANGED <<alive, owners, objs_, allocated, leaked>> /\ Pooled' = Pooled
      /\ holders' = [holders EXCEPT ![o] = @ \ {t}]
      /\ IF holders[o] = {t} THEN Go(t, "idle", "release", o) ELSE UNCHANGED <<pc, p>>
  BY DEF Inv, TypeOK, DropObject, Pooled
<1>2. o \in Held /\ o \notin InHand
  BY <1>1 DEF Inv, PlacesApart, Held
<1>3. CASE holders[o] = {t}
  <2>1. pc' = [pc EXCEPT ![t] = "release"] /\ p' = [p EXCEPT ![t] = o]
    BY <1>1, <1>3 DEF Go
  <2>2. InHand' = InHand \cup {o} /\ OneHand'
    BY <1>1, <1>2, <2>1, TakesInHand
  <2>3. Held' = Held \ {o}
    BY <1>1, <1>3 DEF Held, TypeOK
  <2>4. /\ At({"push", "unlock"})' = At({"push", "unlock"})
        /\ At({"new", "wrap"})' = At({"new", "wrap"}) /\ At({"new"})' = At({"new"})
    BY <1>1, <2>1 DEF At, TypeOK
  <2>5. peak' \in Nat /\ peak' >= peak
    <3>1. Held' \cup InHand' = Held \cup InHand
      BY <1>2, <2>2, <2>3
    <3>2. Demand' = Demand
      BY <2>4, <3>1 DEF Demand
    <3> QED BY <1>1, <3>2, PlacesFinite, Measured
  <2>6. TypeOK'
    <3>1. o # NoObject
      BY ObjectsAssumption DEF ObjectsAssumption
    <3> QED BY <1>1, <2>1, <2>5, <3>1 DEF TypeOK
  <2>7. PlacesApart' /\ PooledOnce'
    BY <1>1, <1>2, <2>2, <2>3 DEF Inv, PlacesApart, PooledOnce
  <2>8. PoolOutlivesItsUse' /\ LeftBehind'
    BY <1>1, <2>4 DEF Inv, PoolOutlivesItsUse, LeftBehind
  <2>9. ReusesBeforeAllocating'
    BY <1>1, <2>4, <2>5, NothingAllocated DEF Inv
  <2> QED BY <2>2, <2>6, <2>7, <2>8, <2>9 DEF Inv
<1>4. CASE holders[o] # {t}
  <2>1. UNCHANGED <<pc, p>>
    BY <1>1, <1>4
  <2>2. InHand' = InHand /\ OneHand' /\ \A places : At(places)' = At(places)
    BY <1>1, <2>1 DEF InHand, OneHand, At
  <2>3. Held' = Held
    <3>1. holders[o] \ {t} # {}
      BY <1>1, <1>4
    <3> QED BY <1>1, <3>1 DEF Held, TypeOK
  <2>4. peak' \in Nat /\ peak' >= peak
    <3>1. Demand' = Demand
      BY <2>2, <2>3 DEF Demand
    <3> QED BY <1>1, <3>1, PlacesFinite, Measured
  <2>5. TypeOK'
    BY <1>1, <2>1, <2>4 DEF TypeOK
  <2>6. PlacesApart' /\ PooledOnce'
    BY <1>1, <2>2, <2>3 DEF Inv, PlacesApart, PooledOnce
  <2>7. PoolOutlivesItsUse' /\ LeftBehind'
    BY <1>1, <2>2 DEF Inv, PoolOutlivesItsUse, LeftBehind
  <2>8. ReusesBeforeAllocating'
    BY <1>1, <2>2, <2>4, NothingAllocated DEF Inv
  <2> QED BY <2>2, <2>5, <2>6, <2>7, <2>8 DEF Inv
<1> QED BY <1>3, <1>4

LEMMA ShareInv ==
  ASSUME Inv, NEW t \in Threads, NEW u \in Threads,
         SharePool(t, u) \/ \E o \in Objects : ShareObject(t, u, o)
  PROVE  Inv'
<1>1. TypeOK /\ UNCHANGED <<alive, objs_, allocated, pc, p, leaked, peak>>
  BY DEF Inv, SharePool, ShareObject
<1>2. owners' \subseteq Threads /\ owners \subseteq owners' /\ (owners = {} => owners' = {})
  BY <1>1 DEF SharePool, ShareObject, TypeOK
<1>3. holders' \in [Objects -> SUBSET Threads] /\ Held' = Held
  BY <1>1 DEF SharePool, ShareObject, TypeOK, Held
<1>4. InHand' = InHand /\ Pooled' = Pooled /\ \A places : At(places)' = At(places)
  BY <1>1 DEF InHand, Pooled, At
<1>5. TypeOK'
  BY <1>1, <1>2, <1>3 DEF TypeOK
<1>6. PlacesApart' /\ PooledOnce' /\ OneHand'
  BY <1>1, <1>3, <1>4 DEF Inv, PlacesApart, PooledOnce, OneHand
<1>7. PoolOutlivesItsUse' /\ LeftBehind' /\ ReusesBeforeAllocating'
  BY <1>1, <1>2, <1>4 DEF Inv, PoolOutlivesItsUse, LeftBehind, ReusesBeforeAllocating
<1> QED BY <1>5, <1>6, <1>7 DEF Inv

\* A reference to the pool goes, the last one or not, and nothing else moves.
LEMMA LetGoInv ==
  ASSUME Inv, NEW keepers, alive, LetGo(keepers), UNCHANGED <<allocated, holders, peak>>,
         InHand' = InHand
  PROVE  /\ PlacesApart' /\ PooledOnce' /\ LeftBehind' /\ (alive' <=> keepers # {})
         /\ alive' \in BOOLEAN /\ objs_' \in Seq(Objects) /\ leaked' \subseteq Objects
<1>1. TypeOK /\ Held' = Held /\ Pooled \subseteq Objects
  BY PlacesFinite DEF Inv, Held
<1>2. CASE keepers = {}
  <2>1. alive' = FALSE /\ objs_' = <<>> /\ leaked' = leaked \cup Pooled
    BY <1>2 DEF LetGo
  <2>2. Pooled' = {}
    BY <2>1 DEF Pooled, ToSet
  <2>3. PlacesApart'
    BY <1>1, <2>1, <2>2 DEF Inv, PlacesApart
  <2>4. objs_' \in Seq(Objects) /\ DOMAIN objs_' = {}
    BY <2>1
  <2>5. PooledOnce' /\ LeftBehind'
    BY <2>1, <2>4 DEF PooledOnce, LeftBehind
  <2> QED BY <1>1, <1>2, <2>1, <2>3, <2>4, <2>5 DEF TypeOK
<1>3. CASE keepers # {}
  <2>1. UNCHANGED <<alive, objs_, leaked>> /\ Pooled' = Pooled
    BY <1>3 DEF LetGo, Pooled
  <2> QED BY <1>1, <1>3, <2>1 DEF Inv, TypeOK, PlacesApart, PooledOnce, LeftBehind
<1> QED BY <1>2, <1>3

LEMMA DropPoolInv ==
  ASSUME Inv, NEW t \in Threads, DropPool(t)
  PROVE  Inv'
<1>1. /\ TypeOK /\ pc[t] = "idle" /\ t \in owners /\ owners' = owners \ {t}
      /\ LetGo(owners' \cup At({"push", "unlock"}))
      /\ UNCHANGED <<allocated, holders, pc, p, peak>>
  BY DEF Inv, DropPool
<1>2. alive /\ InHand' = InHand /\ \A places : At(places)' = At(places)
  BY <1>1 DEF Inv, PoolOutlivesItsUse, InHand, At
<1>3. /\ PlacesApart' /\ PooledOnce' /\ LeftBehind'
      /\ (alive' <=> owners' \cup At({"push", "unlock"}) # {})
      /\ alive' \in BOOLEAN /\ objs_' \in Seq(Objects) /\ leaked' \subseteq Objects
  BY <1>1, <1>2, LetGoInv
<1>4. TypeOK'
  BY <1>1, <1>3 DEF TypeOK
<1>5. PoolOutlivesItsUse'
  BY <1>1, <1>2, <1>3 DEF Inv, PoolOutlivesItsUse, At
<1>6. OneHand' /\ ReusesBeforeAllocating'
  BY <1>1, <1>2 DEF Inv, OneHand, ReusesBeforeAllocating
<1> QED BY <1>3, <1>4, <1>5, <1>6 DEF Inv

LEMMA LockWeakPtrInv ==
  ASSUME Inv, NEW t \in Threads, LockWeakPtr(t)
  PROVE  Inv'
<1>1. /\ TypeOK /\ pc[t] = "release" /\ p' = p
      /\ pc' = [pc EXCEPT ![t] = IF alive THEN "push" ELSE "delete"]
      /\ UNCHANGED <<alive, owners, objs_, allocated, holders, leaked, peak>>
  BY DEF Inv, TypeOK, LockWeakPtr, Go
<1>2. InHand' = InHand /\ Pooled' = Pooled /\ Held' = Held
  BY <1>1 DEF InHand, Pooled, Held
<1>3. /\ At({"push", "unlock"})' = IF alive THEN At({"push", "unlock"}) \cup {t} ELSE At({"push", "unlock"})
      /\ At({"new", "wrap"})' = At({"new", "wrap"}) /\ At({"new"})' = At({"new"})
  BY <1>1 DEF At, TypeOK
<1>4. TypeOK'
  BY <1>1 DEF TypeOK
<1>5. PlacesApart' /\ PooledOnce' /\ OneHand'
  BY <1>1, <1>2 DEF Inv, PlacesApart, PooledOnce, OneHand
<1>6. PoolOutlivesItsUse' /\ LeftBehind' /\ ReusesBeforeAllocating'
  BY <1>1, <1>3 DEF Inv, PoolOutlivesItsUse, LeftBehind, ReusesBeforeAllocating
<1> QED BY <1>4, <1>5, <1>6 DEF Inv

LEMMA PushBackInv ==
  ASSUME Inv, NEW t \in Threads, PushBack(t)
  PROVE  Inv'
<1>1. /\ TypeOK /\ OneHand /\ pc[t] = "push" /\ p[t] # NoObject /\ Measure
      /\ UNCHANGED <<alive, owners, allocated, holders, leaked>> /\ Held' = Held
      /\ pc' = [pc EXCEPT ![t] = "unlock"] /\ p' = [p EXCEPT ![t] = NoObject]
      /\ objs_' = Append(objs_, p[t])
  BY DEF Inv, TypeOK, PushBack, Go, Held
<1>2. /\ p[t] \in Objects /\ p[t] \in InHand /\ InHand' = InHand \ {p[t]} /\ OneHand'
  BY <1>1, LaysDown
<1>3. p[t] \notin Pooled
  BY <1>2 DEF Inv, PlacesApart
<1>4. objs_' \in Seq(Objects) /\ Pooled' = Pooled \cup {p[t]} /\ PooledOnce'
  BY <1>1, <1>2, <1>3, Pushed DEF Inv, TypeOK
<1>5. /\ At({"push", "unlock"})' = At({"push", "unlock"}) /\ t \in At({"push", "unlock"})
      /\ At({"new", "wrap"})' = At({"new", "wrap"}) /\ At({"new"})' = At({"new"})
  BY <1>1 DEF At, TypeOK
<1>6. peak' \in Nat /\ peak' >= peak
  <2>1. Held' \cup InHand' \subseteq Objects
    BY <1>1, <1>2, PlacesFinite
  <2>2. IsFiniteSet(Held' \cup InHand') /\ IsFiniteSet(At({"new"})')
    BY <1>1, <1>5, <2>1, PlacesFinite, ObjectsAssumption, FS_Subset DEF ObjectsAssumption
  <2>3. Demand' \in Nat
    BY <2>2, FS_CardinalityType DEF Demand
  <2> QED BY <1>1, <2>3, Measured
<1>7. TypeOK'
  BY <1>1, <1>4, <1>6 DEF TypeOK
<1>8. PlacesApart'
  BY <1>1, <1>2, <1>4 DEF Inv, PlacesApart
<1>9. PoolOutlivesItsUse' /\ LeftBehind'
  BY <1>1, <1>5 DEF Inv, PoolOutlivesItsUse, LeftBehind
<1>10. ReusesBeforeAllocating'
  BY <1>1, <1>5, <1>6, NothingAllocated DEF Inv
<1> QED BY <1>2, <1>4, <1>7, <1>8, <1>9, <1>10 DEF Inv

LEMMA ReleaseSelfInv ==
  ASSUME Inv, NEW t \in Threads, ReleaseSelf(t)
  PROVE  Inv'
<1>1. /\ TypeOK /\ pc[t] = "unlock" /\ p[t] = NoObject
      /\ pc' = [pc EXCEPT ![t] = "idle"] /\ p' = [p EXCEPT ![t] = NoObject]
      /\ LetGo(owners \cup (At({"push", "unlock"}) \ {t}))
      /\ UNCHANGED <<owners, allocated, holders, peak>>
  BY DEF Inv, TypeOK, ReleaseSelf, Go
<1>2. p' = p /\ InHand' = InHand
  BY <1>1 DEF TypeOK, InHand
<1>3. /\ At({"push", "unlock"})' = At({"push", "unlock"}) \ {t} /\ t \in At({"push", "unlock"})
      /\ At({"new", "wrap"})' = At({"new", "wrap"}) /\ At({"new"})' = At({"new"})
  BY <1>1 DEF At, TypeOK
<1>4. alive
  BY <1>3 DEF Inv, PoolOutlivesItsUse
<1>5. /\ PlacesApart' /\ PooledOnce' /\ LeftBehind'
      /\ (alive' <=> owners \cup (At({"push", "unlock"}) \ {t}) # {})
      /\ alive' \in BOOLEAN /\ objs_' \in Seq(Objects) /\ leaked' \subseteq Objects
  BY <1>1, <1>2, <1>4, LetGoInv
<1>6. TypeOK'
  BY <1>1, <1>5 DEF TypeOK
<1>7. PoolOutlivesItsUse' /\ OneHand' /\ ReusesBeforeAllocating'
  BY <1>1, <1>2, <1>3, <1>5 DEF Inv, PoolOutlivesItsUse, OneHand, ReusesBeforeAllocating
<1> QED BY <1>5, <1>6, <1>7 DEF Inv

LEMMA DeleteInv ==
  ASSUME Inv, NEW t \in Threads, Delete(t)
  PROVE  Inv'
<1>1. /\ TypeOK /\ OneHand /\ pc[t] = "delete" /\ p[t] # NoObject /\ Measure
      /\ UNCHANGED <<alive, owners, objs_, holders, leaked>> /\ Held' = Held /\ Pooled' = Pooled
      /\ pc' = [pc EXCEPT ![t] = "idle"] /\ p' = [p EXCEPT ![t] = NoObject]
      /\ allocated' = allocated \ {p[t]}
  BY DEF Inv, TypeOK, Delete, Go, Held, Pooled
<1>2. /\ p[t] \in Objects /\ p[t] \in InHand /\ InHand' = InHand \ {p[t]} /\ OneHand'
  BY <1>1, LaysDown
<1>3. /\ At({"push", "unlock"})' = At({"push", "unlock"})
      /\ At({"new", "wrap"})' = At({"new", "wrap"}) /\ At({"new"})' = At({"new"})
  BY <1>1 DEF At, TypeOK
<1>4. peak' \in Nat /\ peak' >= peak
  <2>1. Held' \cup InHand' \subseteq Objects
    BY <1>1, <1>2, PlacesFinite
  <2>2. IsFiniteSet(Held' \cup InHand') /\ IsFiniteSet(At({"new"})')
    BY <1>1, <1>3, <2>1, PlacesFinite, ObjectsAssumption, FS_Subset DEF ObjectsAssumption
  <2>3. Demand' \in Nat
    BY <2>2, FS_CardinalityType DEF Demand
  <2> QED BY <1>1, <2>3, Measured
<1>5. TypeOK'
  BY <1>1, <1>4 DEF TypeOK
<1>6. PlacesApart' /\ PooledOnce'
  BY <1>1, <1>2 DEF Inv, PlacesApart, PooledOnce
<1>7. PoolOutlivesItsUse' /\ LeftBehind'
  BY <1>1, <1>3 DEF Inv, PoolOutlivesItsUse, LeftBehind
<1>8. ReusesBeforeAllocating'
  <2>1. /\ Cardinality(allocated') <= Cardinality(allocated) /\ Cardinality(allocated') \in Nat
        /\ Cardinality(allocated) \in Nat /\ Cardinality(At({"new"})) \in Nat /\ peak \in Nat
    BY <1>1, PlacesFinite, FS_Subset, FS_CardinalityType DEF TypeOK
  <2> QED BY <1>3, <1>4, <2>1 DEF Inv, ReusesBeforeAllocating
<1> QED BY <1>2, <1>5, <1>6, <1>7, <1>8 DEF Inv

-----------------------------------------------------------------------------
LEMMA NextInv == Inv /\ [Next]_vars => Inv'
<1> SUFFICES ASSUME Inv, [Next]_vars PROVE Inv'
  OBVIOUS
<1>1. CASE Next
  BY <1>1, PopInv, AllocateInv, WrapInv, DropObjectInv, ShareInv, DropPoolInv, LockWeakPtrInv,
     PushBackInv, ReleaseSelfInv, DeleteInv DEF Next
<1>2. CASE UNCHANGED vars
  <2>1. InHand' = InHand /\ Pooled' = Pooled /\ Held' = Held /\ \A places : At(places)' = At(places)
    BY <1>2 DEF vars, InHand, Pooled, Held, At
  <2> QED BY <1>2, <2>1 DEF vars, Inv, TypeOK, PlacesApart, PooledOnce, OneHand, PoolOutlivesItsUse,
                            LeftBehind, ReusesBeforeAllocating
<1> QED BY <1>1, <1>2

\* The invariant holds throughout.
LEMMA Invariant == Spec => []Inv
  BY InitInv, NextInv, PTL DEF Spec

-----------------------------------------------------------------------------
\* Every variable keeps its type, and a thread has an object in hand exactly where
\* the code uses its pointer.
THEOREM TypeCorrect == Spec => []TypeOK
  BY Invariant, PTL DEF Inv

\* No object is handed out twice, used after it was deleted or put back, or deleted
\* twice, for any number of threads and objects, also after the pool has gone.
THEOREM InOnePlace == Spec => []OnePlace
<1>1. Inv => OnePlace
  BY DEF Inv, PlacesApart, PooledOnce, OneHand, OnePlace
<1> QED BY <1>1, Invariant, PTL

\* Whoever works on the pool keeps it alive.
THEOREM PoolAlive == Spec => []PoolOutlivesItsUse
  BY Invariant, PTL DEF Inv

\* The pool never has more objects than were in demand at one moment.
THEOREM NoMoreThanDemand == Spec => []ReusesBeforeAllocating
  BY Invariant, PTL DEF Inv
=============================================================================
