--------------------------- MODULE Logger_proofs ----------------------------
(***************************************************************************)
(* Proofs about Logger, for any number of threads, destinations, indexes   *)
(* and seconds.  The invariant has three parts besides the types: what the *)
(* time a thread keeps can be, how the two tables of functions agree, and  *)
(* what a destructor knows between its steps.                              *)
(***************************************************************************)
EXTENDS Logger, TLAPS

\* The time a thread keeps was formatted as displayLocalTime says now, or before
\* it was switched; a statement that waits for its label shows that time.
TimeKept ==
  \A t \in Threads :
    /\ lastTime[t] = NoTime \/ lastTime[t].local = displayLocalTime \/ t \in switched
    /\ pc[t] = "label" => /\ ~stmt[t].raw /\ stmt[t].second \in Seconds
                          /\ stmt[t].time = lastTime[t]
                          /\ stmt[t].time.second = stmt[t].second

\* The functions of one index are of one destination, where only the output
\* function is fixed with the flush function it will get, but for late indexes.
TablesAgree ==
  /\ outputFunc = flushFunc
  /\ \A i \in 1..Len(outputFuncs) :
       i - 1 \in late \/ outputFuncs[i] = IF i <= Len(flushFuncs) THEN flushFuncs[i] ELSE flushFunc

\* The entries a destructor goes on to use are in their tables from its look-ups
\* on, whoever fills the tables meanwhile.
EntriesThere ==
  \A t \in Threads :
    /\ pc[t] \in {"call", "flush", "flushing"} => stmt[t].index < Len(outputFuncs)
    /\ pc[t] = "flushing" => stmt[t].index < Len(flushFuncs)

\* A destructor that is to flush wrote where the table says.
InDestructor ==
  /\ EntriesThere
  /\ \A t \in Threads : pc[t] \in {"flush", "flushing"} =>
       t \in dangling \/ stmt[t].wrote = OutputOf(stmt[t].index)

Inv == TypeOK /\ TimeKept /\ TimeIsOwn /\ TablesAgree /\ InDestructor /\ FlushesWhereItWrites

-----------------------------------------------------------------------------
\* The bounds are numbers and the seconds of the clock are not that of NoTime.
LEMMA Bounds ==
  /\ MaxIndex \in Nat /\ MaxStatements \in Nat /\ MaxSettings \in Nat
  /\ Seconds \subseteq Nat /\ 0 \notin Seconds
  BY BoundsAssumption DEF BoundsAssumption

\* Filling a table leaves the entries it had, gives the new ones the default and
\* goes no further than the index.
LEMMA FilledTable ==
  ASSUME NEW table \in Seq(Functions), NEW index \in Indexes, NEW default \in Functions
  PROVE  /\ Filled(table, index, default) \in Seq(Functions)
         /\ Len(Filled(table, index, default)) = IF index < Len(table)
              THEN Len(table) ELSE index + 1
         /\ \A i \in 1..Len(table) : Filled(table, index, default)[i] = table[i]
         /\ \A i \in 1..(index + 1) : i > Len(table) => Filled(table, index, default)[i] = default
         /\ index < Len(table) => Filled(table, index, default) = table
<1> DEFINE n == IF index < Len(table) THEN Len(table) ELSE index + 1
           entry(i) == IF i <= Len(table) THEN table[i] ELSE default
           filled == [i \in 1..n |-> entry(i)]
<1>1. Len(table) \in Nat /\ index \in Int /\ index >= -1 /\ n \in Nat
      /\ Len(table) <= n /\ index < n
  BY Bounds DEF Indexes
<1>2. \A i \in 1..n : entry(i) \in Functions
  BY <1>1
<1>3. filled \in Seq(Functions) /\ Len(filled) = n
  BY <1>1, <1>2
<1>4. \A i \in 1..n : filled[i] = entry(i)
  OBVIOUS
<1>5. index < Len(table) => filled = table
  <2>1. SUFFICES ASSUME index < Len(table) PROVE filled = table
    OBVIOUS
  <2>2. n = Len(table) /\ \A i \in 1..n : filled[i] = table[i]
    BY <1>1, <2>1
  <2> QED BY <1>1, <1>3, <2>2
<1>6. Filled(table, index, default) = filled
  BY DEF Filled
<1> QED BY <1>1, <1>3, <1>4, <1>5, <1>6

\* A statement and a thread's time are records of their types.
LEMMA StatementTyped == NoStatement \in Statement /\ NoTime \in Times
  BY Bounds DEF NoStatement, NoTime, Statement, Times, Indexes, Levels, xInfo, xError, Functions

-----------------------------------------------------------------------------
LEMMA InitInv == Init => Inv
<1> SUFFICES ASSUME Init PROVE Inv
  OBVIOUS
<1>1. TypeOK
  <2>1. logLevel \in Levels /\ outputFunc \in Functions /\ flushFunc \in Functions
    BY FunctionsAssumption DEF Init, FunctionsAssumption, Functions, Levels, xInfo, xError
  <2>2. /\ outputFuncs \in Seq(Functions) /\ flushFuncs \in Seq(Functions)
        /\ Len(outputFuncs) = 0 /\ Len(flushFuncs) = 0
    BY DEF Init
  <2>3. lastTime \in [Threads -> Times] /\ stmt \in [Threads -> Statement]
    BY StatementTyped DEF Init
  <2>4. /\ Len(outputFuncs) <= MaxIndex + 1 /\ Len(flushFuncs) <= Len(outputFuncs)
        /\ statements \in 0..MaxStatements /\ settings \in 0..MaxSettings
    BY <2>2, Bounds DEF Init
  <2>5. pc \in [Threads -> {"idle", "label", "destroy", "call", "flush", "flushing", "end",
                         "terminated"}]
    BY DEF Init
  <2> QED BY <2>1, <2>2, <2>3, <2>4, <2>5 DEF Init, TypeOK
<1>2. TimeKept /\ TimeIsOwn
  BY DEF Init, TimeKept, TimeIsOwn
<1>3. TablesAgree /\ InDestructor /\ FlushesWhereItWrites
  BY DEF Init, TablesAgree, InDestructor, EntriesThere, FlushesWhereItWrites
<1> QED BY <1>1, <1>2, <1>3 DEF Inv

\* What the constructor keeps for its thread is of the present second.
LEMMA FormattedTime ==
  ASSUME TypeOK, TimeKept, NEW t \in Threads
  PROVE  /\ Formatted(t) \in Times /\ Formatted(t).second = clock /\ Formatted(t) # NoTime
         /\ lastTime[t].second # clock => Formatted(t).local = displayLocalTime
         /\ lastTime[t].second = clock => Formatted(t) = lastTime[t]
  BY Bounds DEF TypeOK, TimeKept, Formatted, Times, NoTime

LEMMA ConstructInv ==
  ASSUME Inv, NEW t \in Threads, NEW index \in Indexes, NEW level \in Levels,
         Construct(t, index, level)
  PROVE  Inv'
<1> DEFINE made == [NoStatement EXCEPT
       !.index = index, !.level = level, !.second = clock, !.time = Formatted(t)]
<1>1. TypeOK /\ TimeKept /\ pc[t] = "idle" /\ statements < MaxStatements
      /\ clock \in Seconds /\ statements \in Nat
  BY DEF Inv, TypeOK, Construct
<1>2. /\ made.index = index /\ made.level = level /\ made.second = clock
      /\ made.time = Formatted(t) /\ made.raw = FALSE /\ made \in Statement
  BY <1>1, FormattedTime, Bounds
     DEF NoStatement, Statement, Functions
<1>3. /\ stmt' = [stmt EXCEPT ![t] = made] /\ pc' = [pc EXCEPT ![t] = "label"]
      /\ lastTime' = [lastTime EXCEPT ![t] = Formatted(t)]
      /\ switched' = IF lastTime[t].second = clock THEN switched ELSE switched \ {t}
      /\ statements' = statements + 1
      /\ UNCHANGED <<outputFunc, flushFunc, tables, displayLocalTime, logLevel, clock,
                     dead, settings, late>>
  BY DEF Construct, Goto
<1> HIDE DEF made
<1>4. TypeOK'
  BY <1>1, <1>2, <1>3, FormattedTime, Bounds DEF TypeOK, tables, dead
<1>5. TimeKept'
  BY <1>1, <1>2, <1>3, FormattedTime DEF TypeOK, TimeKept, tables, dead
<1>6. TimeIsOwn'
  BY <1>1, <1>2, <1>3 DEF Inv, TypeOK, TimeIsOwn, tables, dead
<1>7. TablesAgree' /\ InDestructor' /\ FlushesWhereItWrites'
  BY <1>1, <1>2, <1>3
     DEF Inv, TypeOK, TablesAgree, InDestructor, EntriesThere, FlushesWhereItWrites, OutputOf,
         tables, dead
<1> QED BY <1>4, <1>5, <1>6, <1>7 DEF Inv

LEMMA LabelInv ==
  ASSUME Inv, NEW t \in Threads, Label(t)
  PROVE  Inv'
<1>1. TypeOK /\ TimeKept /\ pc[t] = "label" /\ stmt[t] \in Statement
  BY DEF Inv, TypeOK, Label
<1>2. /\ stmt' = [stmt EXCEPT ![t].label = displayLocalTime] /\ pc' = [pc EXCEPT ![t] = "destroy"]
      /\ UNCHANGED <<config, tables, lastTime, dead, statements, late>>
  BY DEF Label, Goto
<1>3. TypeOK'
  BY <1>1, <1>2 DEF TypeOK, config, tables, dead, Statement
<1>4. TimeKept'
  BY <1>1, <1>2 DEF TypeOK, TimeKept, config, tables, dead
<1>5. TimeIsOwn'
  <2>1. stmt[t].time.second \in Seconds /\ stmt[t].time = lastTime[t] /\ stmt[t].time # NoTime
    BY <1>1, Bounds DEF TimeKept, NoTime
  <2>2. stmt[t].time.second = stmt[t].second
        /\ (stmt[t].time.local = displayLocalTime \/ t \in switched)
    BY <1>1, <2>1 DEF TimeKept
  <2>3. stmt'[t].label = displayLocalTime /\ stmt'[t].time = stmt[t].time
        /\ stmt'[t].second = stmt[t].second
    BY <1>1, <1>2 DEF TypeOK, Statement
  <2> QED BY <1>1, <1>2, <2>2, <2>3 DEF Inv, TypeOK, TimeIsOwn, config
<1>6. TablesAgree' /\ InDestructor' /\ FlushesWhereItWrites'
  BY <1>1, <1>2
     DEF Inv, TypeOK, TablesAgree, InDestructor, EntriesThere, FlushesWhereItWrites, OutputOf,
         config, tables, dead
<1> QED BY <1>3, <1>4, <1>5, <1>6 DEF Inv

LEMMA ConstructRawInv ==
  ASSUME Inv, NEW t \in Threads, NEW index \in Indexes, ConstructRaw(t, index)
  PROVE  Inv'
<1> DEFINE made == [NoStatement EXCEPT !.index = index, !.raw = TRUE]
<1>1. TypeOK /\ TimeKept /\ pc[t] = "idle" /\ statements < MaxStatements /\ statements \in Nat
  BY DEF Inv, TypeOK, ConstructRaw
<1>2. made.raw = TRUE /\ made \in Statement
  BY StatementTyped DEF NoStatement, Statement
<1>3. /\ stmt' = [stmt EXCEPT ![t] = made] /\ pc' = [pc EXCEPT ![t] = "destroy"]
      /\ statements' = statements + 1
      /\ UNCHANGED <<config, tables, lastTime, dead, late>>
  BY DEF ConstructRaw, Goto
<1> HIDE DEF made
<1>4. TypeOK'
  BY <1>1, <1>2, <1>3, Bounds DEF TypeOK, config, tables, dead
<1>5. TimeKept' /\ TimeIsOwn'
  BY <1>1, <1>2, <1>3 DEF Inv, TypeOK, TimeKept, TimeIsOwn, config
<1>6. TablesAgree' /\ InDestructor' /\ FlushesWhereItWrites'
  BY <1>1, <1>2, <1>3
     DEF Inv, TypeOK, TablesAgree, InDestructor, EntriesThere, FlushesWhereItWrites, OutputOf,
         config, tables, dead
<1> QED BY <1>4, <1>5, <1>6 DEF Inv
\* What a look-up of an output function does to the tables, whether the function
\* is empty or not: the entries there were stay, the new ones are the default.
LookedUp(index) ==
  /\ outputFuncs' = Filled(outputFuncs, index, outputFunc)
  /\ dangling \subseteq dangling' /\ dangling' \subseteq Threads
  /\ UNCHANGED <<config, flushFuncs, lastTime, danglingFlush, statements, late>>

\* Looking up keeps the tables' types and their agreement.
LEMMA LookedUpTables ==
  ASSUME TypeOK, TablesAgree, NEW index \in Indexes, LookedUp(index)
  PROVE  /\ outputFuncs' \in Seq(Functions) /\ Len(outputFuncs') <= MaxIndex + 1
         /\ Len(outputFuncs) <= Len(outputFuncs') /\ index < Len(outputFuncs')
         /\ \A i \in Indexes : i < Len(outputFuncs) => OutputOf(i)' = OutputOf(i)
         /\ TablesAgree'
<1>1. /\ outputFuncs \in Seq(Functions) /\ outputFunc \in Functions
      /\ Len(outputFuncs) \in Nat /\ Len(flushFuncs) \in Nat
      /\ Len(flushFuncs) <= Len(outputFuncs) /\ Len(outputFuncs) <= MaxIndex + 1
      /\ index \in Int /\ index <= MaxIndex /\ MaxIndex \in Nat /\ index >= -1
  BY Bounds DEF TypeOK, Indexes
<1>2. /\ outputFuncs' \in Seq(Functions)
      /\ Len(outputFuncs') = IF index < Len(outputFuncs) THEN Len(outputFuncs) ELSE index + 1
      /\ \A i \in 1..Len(outputFuncs) : outputFuncs'[i] = outputFuncs[i]
      /\ \A i \in 1..(index + 1) : i > Len(outputFuncs) => outputFuncs'[i] = outputFunc
  <2> DEFINE table == Filled(outputFuncs, index, outputFunc)
  <2>1. /\ table \in Seq(Functions)
        /\ Len(table) = IF index < Len(outputFuncs) THEN Len(outputFuncs) ELSE index + 1
        /\ \A i \in 1..Len(outputFuncs) : table[i] = outputFuncs[i]
        /\ \A i \in 1..(index + 1) : i > Len(outputFuncs) => table[i] = outputFunc
    BY <1>1, FilledTable
  <2>2. outputFuncs' = table
    BY DEF LookedUp
  <2> QED BY <2>1, <2>2
<1>3. /\ Len(outputFuncs') \in Nat /\ Len(outputFuncs') <= MaxIndex + 1
      /\ Len(outputFuncs) <= Len(outputFuncs') /\ index < Len(outputFuncs')
  BY <1>1, <1>2
<1>4. TablesAgree'
  <2>1. UNCHANGED <<outputFunc, flushFunc, flushFuncs, late>> /\ outputFunc = flushFunc
    BY DEF LookedUp, config, TablesAgree
  <2>2. SUFFICES ASSUME NEW i \in 1..Len(outputFuncs')
                 PROVE  \/ i - 1 \in late
                        \/ outputFuncs'[i] = IF i <= Len(flushFuncs) THEN flushFuncs[i]
                                                                    ELSE flushFunc
    BY <2>1 DEF TablesAgree
  <2>3. CASE i <= Len(outputFuncs)
    <3>1. i \in 1..Len(outputFuncs)
      BY <1>1, <1>3, <2>3
    <3>2. outputFuncs'[i] = outputFuncs[i]
      BY <1>2, <3>1
    <3> QED BY <3>1, <3>2 DEF TablesAgree
  <2>4. CASE i > Len(outputFuncs)
    <3>1. i \in 1..(index + 1) /\ ~(i <= Len(flushFuncs))
      BY <1>1, <1>2, <2>4
    <3> QED BY <1>2, <2>1, <2>4, <3>1
  <2> QED BY <1>1, <1>3, <2>3, <2>4
<1>5. ASSUME NEW i \in Indexes, i < Len(outputFuncs) PROVE OutputOf(i)' = OutputOf(i)
  <2>1. CASE i < 0
    BY <2>1 DEF OutputOf, LookedUp, config
  <2>2. CASE i >= 0
    <3>1. i + 1 \in 1..Len(outputFuncs) /\ ~(i < 0)
      BY <1>1, <1>5, <2>2 DEF Indexes
    <3> QED BY <1>2, <3>1 DEF OutputOf
  <2> QED BY <2>1, <2>2 DEF Indexes
<1> QED BY <1>2, <1>3, <1>4, <1>5

\* Both ways the look-up can go are look-ups.
LEMMA LookUpLooksUp ==
  ASSUME TypeOK, NEW t \in Threads, LookUp(t) \/ LookUpEmpty(t)
  PROVE  LookedUp(stmt[t].index) /\ stmt[t] \in Statement /\ stmt[t].index \in Indexes
<1>1. stmt[t] \in Statement /\ dangling \subseteq Threads /\ Holders \subseteq Threads
  BY DEF TypeOK, Holders
<1>2. dangling' \in {dangling, dangling \cup Holders}
  BY DEF LookUp, LookUpEmpty
<1> QED BY <1>1, <1>2 DEF LookUp, LookUpEmpty, LookedUp, Statement

LEMMA LookUpInv ==
  ASSUME Inv, NEW t \in Threads, LookUp(t)
  PROVE  Inv'
<1>1. TypeOK /\ TablesAgree /\ pc[t] = "destroy" /\ stmt[t] \in Statement
      /\ stmt[t].index \in Indexes /\ LookedUp(stmt[t].index)
  BY LookUpLooksUp DEF Inv, LookUp
<1>2. /\ outputFuncs' \in Seq(Functions) /\ Len(outputFuncs') <= MaxIndex + 1
      /\ Len(outputFuncs) <= Len(outputFuncs') /\ stmt[t].index < Len(outputFuncs')
      /\ \A i \in Indexes : i < Len(outputFuncs) => OutputOf(i)' = OutputOf(i)
      /\ TablesAgree'
  BY <1>1, LookedUpTables
<1>3. /\ pc' = [pc EXCEPT ![t] = "call"] /\ stmt' = stmt
      /\ dangling \subseteq dangling' /\ dangling' \subseteq Threads
      /\ UNCHANGED <<config, flushFuncs, lastTime, danglingFlush, statements, late>>
  BY <1>1 DEF LookUp, Goto, LookedUp
<1>4. Len(outputFuncs) \in Nat /\ Len(outputFuncs') \in Nat /\ Len(flushFuncs) \in Nat
      /\ MaxIndex \in Nat
  BY <1>1, <1>2, Bounds DEF TypeOK
<1>5. TypeOK'
  <2>1. Len(flushFuncs') <= Len(outputFuncs')
    BY <1>1, <1>2, <1>3, <1>4 DEF TypeOK
  <2> QED BY <1>1, <1>2, <1>3, <2>1 DEF TypeOK, config
<1>6. TimeKept' /\ TimeIsOwn'
  BY <1>1, <1>3 DEF Inv, TypeOK, TimeKept, TimeIsOwn, config
<1>7. InDestructor'
  <2>1. ASSUME NEW u \in Threads, u # t, pc[u] \in {"call", "flush", "flushing"}
        PROVE  /\ stmt[u].index < Len(outputFuncs')
               /\ OutputOf(stmt[u].index)' = OutputOf(stmt[u].index)
    <3>1. stmt[u].index \in Indexes /\ stmt[u].index \in Int /\ stmt[u].index < Len(outputFuncs)
      BY <1>1, <1>4, <2>1, Bounds DEF Inv, TypeOK, InDestructor, EntriesThere, Statement, Indexes
    <3> QED BY <1>2, <1>3, <1>4, <3>1
  <2> QED BY <1>1, <1>2, <1>3, <2>1 DEF Inv, TypeOK, InDestructor, EntriesThere
<1>8. FlushesWhereItWrites'
  BY <1>1, <1>3 DEF Inv, TypeOK, FlushesWhereItWrites
<1> QED BY <1>2, <1>5, <1>6, <1>7, <1>8 DEF Inv
LEMMA LookUpEmptyInv ==
  ASSUME Inv, NEW t \in Threads, LookUpEmpty(t)
  PROVE  Inv'
<1>1. TypeOK /\ TablesAgree /\ pc[t] = "destroy"
      /\ stmt[t].index \in Indexes /\ LookedUp(stmt[t].index)
  BY LookUpLooksUp DEF Inv, LookUpEmpty
<1>2. /\ outputFuncs' \in Seq(Functions) /\ Len(outputFuncs') <= MaxIndex + 1
      /\ Len(outputFuncs) <= Len(outputFuncs')
      /\ \A i \in Indexes : i < Len(outputFuncs) => OutputOf(i)' = OutputOf(i)
      /\ TablesAgree'
  BY <1>1, LookedUpTables
<1>3. /\ pc' = [pc EXCEPT ![t] = "idle"] /\ stmt' = [stmt EXCEPT ![t] = NoStatement]
      /\ dangling \subseteq dangling' /\ dangling' \subseteq Threads
      /\ UNCHANGED <<config, flushFuncs, lastTime, danglingFlush, statements, late>>
  BY <1>1 DEF LookUpEmpty, Goto, LookedUp
<1>4. Len(outputFuncs) \in Nat /\ Len(outputFuncs') \in Nat /\ Len(flushFuncs) \in Nat
      /\ MaxIndex \in Nat
  BY <1>1, <1>2, Bounds DEF TypeOK
<1>5. TypeOK'
  <2>1. Len(flushFuncs') <= Len(outputFuncs')
    BY <1>1, <1>2, <1>3, <1>4 DEF TypeOK
  <2> QED BY <1>1, <1>2, <1>3, <2>1, StatementTyped DEF TypeOK, config
<1>6. TimeKept' /\ TimeIsOwn'
  BY <1>1, <1>3 DEF Inv, TypeOK, TimeKept, TimeIsOwn, config
<1>7. InDestructor'
  <2>1. ASSUME NEW u \in Threads, u # t, pc[u] \in {"call", "flush", "flushing"}
        PROVE  /\ stmt'[u].index < Len(outputFuncs')
               /\ OutputOf(stmt[u].index)' = OutputOf(stmt[u].index)
    <3>1. stmt[u].index \in Indexes /\ stmt[u].index \in Int /\ stmt[u].index < Len(outputFuncs)
      BY <1>1, <1>4, <2>1, Bounds DEF Inv, TypeOK, InDestructor, EntriesThere, Statement, Indexes
    <3>2. stmt'[u] = stmt[u]
      BY <1>1, <1>3, <2>1 DEF TypeOK
    <3> QED BY <1>2, <1>4, <3>1, <3>2
  <2> QED BY <1>1, <1>3, <2>1 DEF Inv, TypeOK, InDestructor, EntriesThere
<1>8. FlushesWhereItWrites'
  BY <1>1, <1>3 DEF Inv, TypeOK, FlushesWhereItWrites
<1> QED BY <1>2, <1>5, <1>6, <1>7, <1>8 DEF Inv

LEMMA CallInv ==
  ASSUME Inv, NEW t \in Threads, Call(t)
  PROVE  Inv'
<1>1. TypeOK /\ TimeKept /\ pc[t] = "call" /\ stmt[t] \in Statement
      /\ stmt[t].index < Len(outputFuncs)
  BY DEF Inv, TypeOK, InDestructor, EntriesThere, Call
<1>2. PICK d \in IF t \in dangling THEN Destinations ELSE {OutputOf(stmt[t].index)} :
        stmt' = [stmt EXCEPT ![t].wrote = d]
  BY DEF Call
<1>3. /\ pc' = [pc EXCEPT ![t] = IF stmt[t].level >= xError THEN "flush" ELSE "end"]
      /\ UNCHANGED <<config, tables, lastTime, dead, statements, late>>
  BY DEF Call, Goto
<1>4. OutputOf(stmt[t].index) \in Functions
  <2>1. stmt[t].index \in Int /\ stmt[t].index >= -1 /\ Len(outputFuncs) \in Nat
    BY <1>1, Bounds DEF TypeOK, Statement, Indexes
  <2>2. CASE stmt[t].index < 0
    BY <1>1, <2>2 DEF TypeOK, OutputOf
  <2>3. CASE stmt[t].index >= 0
    <3>1. stmt[t].index + 1 \in 1..Len(outputFuncs) /\ ~(stmt[t].index < 0)
      BY <1>1, <2>1, <2>3
    <3> QED BY <1>1, <3>1 DEF TypeOK, OutputOf
  <2> QED BY <2>1, <2>2, <2>3
<1>5. d \in Functions
  BY <1>2, <1>4 DEF Functions
<1>6. /\ stmt'[t].wrote = d /\ stmt'[t].level = stmt[t].level /\ stmt'[t].index = stmt[t].index
      /\ stmt'[t].raw = stmt[t].raw /\ stmt'[t].time = stmt[t].time
      /\ stmt'[t].second = stmt[t].second /\ stmt'[t].label = stmt[t].label
      /\ stmt' \in [Threads -> Statement]
      /\ \A u \in Threads : u # t => stmt'[u] = stmt[u]
  BY <1>1, <1>2, <1>5 DEF TypeOK, Statement
<1>7. TypeOK'
  BY <1>1, <1>3, <1>6 DEF TypeOK, config, tables, dead
<1>8. TimeKept' /\ TimeIsOwn'
  BY <1>1, <1>3, <1>6 DEF Inv, TypeOK, TimeKept, TimeIsOwn, config
<1>9. TablesAgree'
  BY <1>3 DEF Inv, TablesAgree, config, tables, dead
<1>10. InDestructor'
  BY <1>1, <1>2, <1>3, <1>6 DEF Inv, TypeOK, InDestructor, EntriesThere, OutputOf, config,
                                tables, dead
<1>11. FlushesWhereItWrites'
  BY <1>1, <1>3, <1>6 DEF Inv, TypeOK, FlushesWhereItWrites, xError, dead
<1> QED BY <1>7, <1>8, <1>9, <1>10, <1>11 DEF Inv

LEMMA EndInv ==
  ASSUME Inv, NEW t \in Threads, End(t)
  PROVE  Inv'
<1>1. TypeOK /\ pc[t] = "end"
  BY DEF Inv, End
<1>2. /\ pc' = [pc EXCEPT ![t] = "idle"] /\ stmt' = [stmt EXCEPT ![t] = NoStatement]
      /\ dangling' = dangling \ {t} /\ danglingFlush' = danglingFlush \ {t}
      /\ UNCHANGED <<config, tables, lastTime, statements, late>>
  BY DEF End, Goto
<1>3. TypeOK'
  BY <1>1, <1>2, StatementTyped DEF TypeOK, config, tables, dead
<1>4. TimeKept' /\ TimeIsOwn'
  BY <1>1, <1>2 DEF Inv, TypeOK, TimeKept, TimeIsOwn, config
<1>5. TablesAgree'
  BY <1>2 DEF Inv, TablesAgree, config, tables, dead
<1>6. InDestructor' /\ FlushesWhereItWrites'
  BY <1>1, <1>2 DEF Inv, TypeOK, InDestructor, EntriesThere, FlushesWhereItWrites, OutputOf,
                    config, tables, dead
<1> QED BY <1>3, <1>4, <1>5, <1>6 DEF Inv
\* The flush table catches up with the output table as far as the index, with
\* the default that the entries there were waiting for.
LEMMA LookUpFlushInv ==
  ASSUME Inv, NEW t \in Threads, LookUpFlush(t)
  PROVE  Inv'
<1> DEFINE index == stmt[t].index
           table == Filled(flushFuncs, index, flushFunc)
<1>1. TypeOK /\ TablesAgree /\ pc[t] = "flush" /\ stmt[t] \in Statement
      /\ index < Len(outputFuncs) /\ index \in Indexes
  BY DEF Inv, TypeOK, InDestructor, EntriesThere, LookUpFlush, Statement
<1>2. /\ outputFuncs \in Seq(Functions) /\ flushFuncs \in Seq(Functions) /\ flushFunc \in Functions
      /\ Len(outputFuncs) \in Nat /\ Len(flushFuncs) \in Nat
      /\ Len(flushFuncs) <= Len(outputFuncs) /\ index \in Int /\ index >= -1
  BY <1>1, Bounds DEF TypeOK, Indexes
<1>3. /\ table \in Seq(Functions)
      /\ Len(table) = IF index < Len(flushFuncs) THEN Len(flushFuncs) ELSE index + 1
      /\ \A i \in 1..Len(flushFuncs) : table[i] = flushFuncs[i]
      /\ \A i \in 1..(index + 1) : i > Len(flushFuncs) => table[i] = flushFunc
  <2>1. flushFuncs \in Seq(Functions) /\ index \in Indexes /\ flushFunc \in Functions
    BY <1>1, <1>2
  <2> QED BY <2>1, FilledTable
<1>4. /\ flushFuncs' = table /\ pc' = [pc EXCEPT ![t] = "flushing"]
      /\ UNCHANGED <<config, outputFuncs, lastTime, stmt, dangling, statements, late>>
  BY DEF LookUpFlush, Goto
<1>5. danglingFlush \subseteq danglingFlush' /\ danglingFlush' \subseteq Threads
  <2>1. danglingFlush' \in {danglingFlush, danglingFlush \cup FlushHolders}
    BY DEF LookUpFlush
  <2>2. danglingFlush \subseteq Threads /\ FlushHolders \subseteq Threads
    BY <1>1 DEF TypeOK, FlushHolders
  <2> QED BY <2>1, <2>2
<1> HIDE DEF index, table
<1>6. Len(flushFuncs') \in Nat /\ Len(flushFuncs') <= Len(outputFuncs) /\ index < Len(flushFuncs')
      /\ Len(flushFuncs) <= Len(flushFuncs') /\ flushFuncs' \in Seq(Functions)
  BY <1>1, <1>2, <1>3, <1>4
<1>7. pc'[t] = "flushing" /\ (\A u \in Threads : u # t => pc'[u] = pc[u])
      /\ pc' \in [Threads -> {"idle", "label", "destroy", "call", "flush", "flushing", "end",
                              "terminated"}]
  BY <1>1, <1>4 DEF TypeOK
<1>8. TypeOK'
  BY <1>1, <1>4, <1>5, <1>6, <1>7 DEF TypeOK, config
<1>9. TimeKept' /\ TimeIsOwn'
  BY <1>1, <1>4, <1>7 DEF Inv, TimeKept, TimeIsOwn, config
<1>10. TablesAgree'
  <2>1. UNCHANGED <<outputFunc, flushFunc, outputFuncs, late>> /\ outputFunc = flushFunc
    BY <1>1, <1>4 DEF config, TablesAgree
  <2>2. SUFFICES ASSUME NEW i \in 1..Len(outputFuncs), i - 1 \notin late
                 PROVE  outputFuncs[i] = IF i <= Len(flushFuncs') THEN flushFuncs'[i] ELSE flushFunc
    BY <2>1 DEF TablesAgree
  <2>3. outputFuncs[i] = IF i <= Len(flushFuncs) THEN flushFuncs[i] ELSE flushFunc
    BY <1>1, <2>2 DEF TablesAgree
  <2>4. CASE i <= Len(flushFuncs)
    <3>1. i \in 1..Len(flushFuncs) /\ i <= Len(flushFuncs')
      BY <1>2, <1>3, <1>4, <2>4
    <3> QED BY <1>3, <1>4, <2>3, <2>4, <3>1
  <2>5. CASE i > Len(flushFuncs) /\ i <= Len(flushFuncs')
    <3>1. i \in 1..(index + 1) /\ ~(i <= Len(flushFuncs))
      BY <1>2, <1>3, <1>4, <2>5
    <3> QED BY <1>3, <1>4, <2>3, <2>5, <3>1
  <2>6. CASE i > Len(flushFuncs')
    <3>1. ~(i <= Len(flushFuncs)) /\ ~(i <= Len(flushFuncs'))
      BY <1>2, <1>3, <1>4, <2>6
    <3> QED BY <2>3, <3>1
  <2> QED BY <1>2, <1>6, <2>4, <2>5, <2>6
<1>11. InDestructor'
  <2>1. ASSUME NEW u \in Threads, u # t, pc[u] = "flushing"
        PROVE  stmt[u].index < Len(flushFuncs')
    <3>1. stmt[u].index \in Int /\ stmt[u].index < Len(flushFuncs)
      BY <1>1, <2>1, Bounds DEF Inv, TypeOK, InDestructor, EntriesThere, Statement, Indexes
    <3> QED BY <1>2, <1>6, <3>1
  <2>2. EntriesThere'
    BY <1>1, <1>4, <1>6, <1>7, <2>1 DEF Inv, InDestructor, EntriesThere, index
  <2>3. \A i \in Indexes : OutputOf(i)' = OutputOf(i)
    BY <1>4 DEF OutputOf, config
  <2>4. \A u \in Threads : stmt[u].index \in Indexes
    BY <1>1 DEF TypeOK, Statement
  <2> QED BY <1>1, <1>4, <1>7, <2>2, <2>3, <2>4 DEF Inv, InDestructor
<1>12. FlushesWhereItWrites'
  BY <1>4, <1>5, <1>7 DEF Inv, FlushesWhereItWrites
<1> QED BY <1>8, <1>9, <1>10, <1>11, <1>12 DEF Inv

\* What is called is the entry that was looked up, where TablesAgree says what
\* the line was written to, or anything through a dead reference.
LEMMA CallFlushInv ==
  ASSUME Inv, NEW t \in Threads, CallFlush(t)
  PROVE  Inv'
<1> DEFINE index == stmt[t].index
<1>1. TypeOK /\ TablesAgree /\ TimeKept /\ pc[t] = "flushing" /\ stmt[t] \in Statement
      /\ index < Len(outputFuncs) /\ index < Len(flushFuncs) /\ index \in Indexes
      /\ (t \in dangling \/ stmt[t].wrote = OutputOf(index))
  BY DEF Inv, TypeOK, InDestructor, EntriesThere, CallFlush, Statement
<1>2. /\ outputFuncs \in Seq(Functions) /\ flushFuncs \in Seq(Functions) /\ flushFunc \in Functions
      /\ Len(outputFuncs) \in Nat /\ Len(flushFuncs) \in Nat /\ index \in Int /\ index >= -1
  BY <1>1, Bounds DEF TypeOK, Indexes
<1>3. PICK d \in IF t \in danglingFlush THEN Functions ELSE {FlushOf(index)} :
        /\ stmt' = [stmt EXCEPT ![t].flushed = d]
        /\ pc' = [pc EXCEPT ![t] = IF d = NoFunc THEN "terminated" ELSE "end"]
  BY DEF CallFlush, Goto
<1>4. UNCHANGED <<config, tables, lastTime, dead, statements, late>>
  BY DEF CallFlush
<1> HIDE DEF index
<1>5. index >= 0 => /\ index + 1 \in 1..Len(outputFuncs) /\ index + 1 \in 1..Len(flushFuncs)
                    /\ ~(index < 0) /\ (index + 1) - 1 = index
  BY <1>1, <1>2
<1>6. FlushOf(index) \in Functions
  BY <1>2, <1>5 DEF FlushOf
<1>7. d \in Functions
  BY <1>3, <1>6
<1>8. /\ stmt'[t].flushed = d
      /\ stmt'[t].wrote = stmt[t].wrote /\ stmt'[t].index = index
      /\ stmt'[t].raw = stmt[t].raw /\ stmt'[t].time = stmt[t].time
      /\ stmt'[t].second = stmt[t].second /\ stmt'[t].label = stmt[t].label
      /\ stmt' \in [Threads -> Statement]
      /\ \A u \in Threads : u # t => stmt'[u] = stmt[u]
  BY <1>1, <1>3, <1>7 DEF TypeOK, Statement, index
<1>9. pc'[t] \in {"end", "terminated"} /\ (\A u \in Threads : u # t => pc'[u] = pc[u])
      /\ pc' \in [Threads -> {"idle", "label", "destroy", "call", "flush", "flushing", "end",
                              "terminated"}]
  BY <1>1, <1>3 DEF TypeOK
<1>10. TypeOK'
  BY <1>1, <1>4, <1>8, <1>9 DEF TypeOK, config, tables, dead
<1>11. TimeKept' /\ TimeIsOwn'
  BY <1>1, <1>4, <1>8, <1>9 DEF Inv, TimeKept, TimeIsOwn, config
<1>12. TablesAgree'
  BY <1>1, <1>4 DEF TablesAgree, config, tables
<1>13. InDestructor'
  BY <1>1, <1>4, <1>8, <1>9 DEF Inv, InDestructor, EntriesThere, OutputOf, config, tables, dead
<1>14. d = stmt[t].wrote \/ index \in late \/ t \in dangling \/ t \in danglingFlush
  <2>1. SUFFICES ASSUME t \notin danglingFlush, t \notin dangling, index \notin late
                 PROVE  d = stmt[t].wrote
    OBVIOUS
  <2>2. d = FlushOf(index) /\ stmt[t].wrote = OutputOf(index)
    BY <1>1, <1>3, <2>1
  <2>3. CASE index < 0
    BY <1>1, <2>2, <2>3 DEF OutputOf, FlushOf, TablesAgree
  <2>4. CASE index >= 0
    <3>1. outputFuncs[index + 1] = flushFuncs[index + 1]
      BY <1>1, <1>2, <1>5, <2>1, <2>4 DEF TablesAgree
    <3> QED BY <1>5, <2>2, <2>4, <3>1 DEF OutputOf, FlushOf
  <2> QED BY <1>2, <2>3, <2>4
<1>15. FlushesWhereItWrites'
  BY <1>4, <1>8, <1>9, <1>14 DEF Inv, FlushesWhereItWrites, dead
<1> QED BY <1>10, <1>11, <1>12, <1>13, <1>15 DEF Inv

-----------------------------------------------------------------------------
(* The setters *)

\* New defaults: the entries that wait for the old one become late.
LEMMA SetDefaultInv ==
  ASSUME Inv, NEW d \in Functions, SetDefault(d)
  PROVE  Inv'
<1>1. TypeOK /\ settings' = settings + 1 /\ settings < MaxSettings /\ NobodyWrites
      /\ outputFunc' = d /\ flushFunc' = d
      /\ late' = late \cup Len(flushFuncs)..(Len(outputFuncs) - 1)
      /\ UNCHANGED <<tables, displayLocalTime, logLevel, clock, lastTime, pc, stmt, dead,
                     statements, switched>>
  BY DEF Inv, SetDefault, Setting
<1>2. Len(outputFuncs) \in Nat /\ Len(flushFuncs) \in Nat /\ Len(outputFuncs) <= MaxIndex + 1
      /\ MaxIndex \in Nat /\ settings \in Nat /\ MaxSettings \in Nat
  BY <1>1, Bounds DEF TypeOK
<1>3. Len(flushFuncs)..(Len(outputFuncs) - 1) \subseteq 0..MaxIndex /\ settings' \in 0..MaxSettings
  BY <1>1, <1>2
<1>4. TypeOK'
  BY <1>1, <1>3 DEF TypeOK, tables, dead
<1>5. TimeKept' /\ TimeIsOwn'
  BY <1>1 DEF Inv, TimeKept, TimeIsOwn
<1>6. TablesAgree'
  <2>1. SUFFICES ASSUME NEW i \in 1..Len(outputFuncs), i - 1 \notin late'
                 PROVE  outputFuncs[i] = IF i <= Len(flushFuncs) THEN flushFuncs[i] ELSE d
    BY <1>1 DEF TablesAgree, tables, dead
  <2>2. i <= Len(flushFuncs) /\ i - 1 \notin late
    BY <1>1, <1>2, <2>1
  <2> QED BY <2>2 DEF Inv, TablesAgree
<1>7. InDestructor' /\ FlushesWhereItWrites'
  BY <1>1 DEF Inv, InDestructor, EntriesThere, FlushesWhereItWrites, NobodyWrites, tables, dead
<1> QED BY <1>4, <1>5, <1>6, <1>7 DEF Inv

\* Functions for an index: both tables are filled that far, with one default.
LEMMA SetFunctionInv ==
  ASSUME Inv, Running, NEW d \in Functions, NEW index \in 0..MaxIndex, SetFunction(index, d)
  PROVE  Inv'
<1> DEFINE outputs == Filled(outputFuncs, index, outputFunc)
           flushes == Filled(flushFuncs, index, flushFunc)
<1>1. TypeOK /\ TablesAgree /\ settings' = settings + 1 /\ settings < MaxSettings /\ NobodyWrites
      /\ outputFuncs' = [outputs EXCEPT ![index + 1] = d]
      /\ flushFuncs' = [flushes EXCEPT ![index + 1] = d]
      /\ late' = late \ {index}
      /\ UNCHANGED <<outputFunc, flushFunc, displayLocalTime, logLevel, clock, lastTime, pc,
                     stmt, dead, statements, switched>>
  BY DEF Inv, SetFunction, Setting
<1>2. /\ Len(outputFuncs) \in Nat /\ Len(flushFuncs) \in Nat /\ Len(outputFuncs) <= MaxIndex + 1
      /\ Len(flushFuncs) <= Len(outputFuncs) /\ index \in Nat /\ index <= MaxIndex
      /\ MaxIndex \in Nat /\ settings \in Nat /\ MaxSettings \in Nat /\ index \in Indexes
      /\ outputFuncs \in Seq(Functions) /\ flushFuncs \in Seq(Functions)
      /\ outputFunc \in Functions /\ flushFunc \in Functions /\ outputFunc = flushFunc
  BY <1>1, Bounds DEF TypeOK, Indexes, TablesAgree
<1>3. /\ outputs \in Seq(Functions)
      /\ Len(outputs) = IF index < Len(outputFuncs) THEN Len(outputFuncs) ELSE index + 1
      /\ \A i \in 1..Len(outputFuncs) : outputs[i] = outputFuncs[i]
      /\ \A i \in 1..(index + 1) : i > Len(outputFuncs) => outputs[i] = outputFunc
  <2>1. outputFuncs \in Seq(Functions) /\ index \in Indexes /\ outputFunc \in Functions
    BY <1>2
  <2> QED BY <2>1, FilledTable
<1>4. /\ flushes \in Seq(Functions)
      /\ Len(flushes) = IF index < Len(flushFuncs) THEN Len(flushFuncs) ELSE index + 1
      /\ \A i \in 1..Len(flushFuncs) : flushes[i] = flushFuncs[i]
      /\ \A i \in 1..(index + 1) : i > Len(flushFuncs) => flushes[i] = flushFunc
  <2>1. flushFuncs \in Seq(Functions) /\ index \in Indexes /\ flushFunc \in Functions
    BY <1>2
  <2> QED BY <2>1, FilledTable
<1> HIDE DEF outputs, flushes
<1>5. Len(outputs) \in Nat /\ Len(flushes) \in Nat /\ Len(flushes) <= Len(outputs)
      /\ Len(outputs) <= MaxIndex + 1 /\ index + 1 \in 1..Len(flushes)
      /\ index + 1 \in 1..Len(outputs)
  BY <1>2, <1>3, <1>4
<1>6. /\ outputFuncs' \in Seq(Functions) /\ Len(outputFuncs') = Len(outputs)
      /\ flushFuncs' \in Seq(Functions) /\ Len(flushFuncs') = Len(flushes)
  BY <1>1, <1>3, <1>4, <1>5
<1>7. TypeOK'
  <2>1. settings' \in 0..MaxSettings /\ late' \subseteq 0..MaxIndex
    BY <1>1, <1>2 DEF TypeOK
  <2> QED BY <1>1, <1>5, <1>6, <2>1 DEF TypeOK, dead
<1>8. TimeKept' /\ TimeIsOwn'
  BY <1>1 DEF Inv, TimeKept, TimeIsOwn
<1>9. TablesAgree'
  <2>1. SUFFICES ASSUME NEW i \in 1..Len(outputs), i - 1 \notin late'
                 PROVE  outputFuncs'[i] = IF i <= Len(flushes) THEN flushFuncs'[i] ELSE flushFunc
    BY <1>1, <1>2, <1>6 DEF TablesAgree
  <2>2. CASE i = index + 1
    BY <1>1, <1>3, <1>4, <1>5, <2>2
  <2>3. CASE i # index + 1
    <3>1. i - 1 \notin late /\ i \in Nat /\ i >= 1
      BY <1>1, <1>2, <2>1, <2>3
    <3>2. outputFuncs'[i] = outputs[i] /\ (i <= Len(flushes) => flushFuncs'[i] = flushes[i])
      BY <1>1, <1>3, <1>4, <1>5, <2>3, <3>1
    <3>3. outputs[i] = IF i <= Len(flushes) THEN flushes[i] ELSE flushFunc
      <4>1. CASE i <= Len(flushFuncs)
        <5>1. i \in 1..Len(flushFuncs) /\ i \in 1..Len(outputFuncs) /\ i <= Len(flushes)
          BY <1>2, <1>4, <3>1, <4>1
        <5> QED BY <1>1, <1>3, <1>4, <3>1, <4>1, <5>1 DEF TablesAgree
      <4>2. CASE i > Len(flushFuncs) /\ i <= Len(outputFuncs)
        <5>1. i \in 1..Len(outputFuncs) /\ ~(i <= Len(flushFuncs))
              /\ (i <= Len(flushes) => i \in 1..(index + 1))
          BY <1>2, <1>4, <3>1, <4>2
        <5>2. outputs[i] = flushFunc
          BY <1>1, <1>3, <3>1, <5>1 DEF TablesAgree
        <5> QED BY <1>4, <4>2, <5>1, <5>2
      <4>3. CASE i > Len(outputFuncs)
        <5>1. i \in 1..(index + 1) /\ i > Len(flushFuncs)
          BY <1>2, <1>3, <2>1, <3>1, <4>3
        <5> QED BY <1>2, <1>3, <1>4, <4>3, <5>1
      <4> QED BY <1>2, <3>1, <4>1, <4>2, <4>3
    <3> QED BY <3>2, <3>3
  <2> QED BY <2>2, <2>3
<1>10. InDestructor' /\ FlushesWhereItWrites'
  BY <1>1 DEF InDestructor, EntriesThere, FlushesWhereItWrites, NobodyWrites, Running
<1> QED BY <1>7, <1>8, <1>9, <1>10 DEF Inv

\* The settings of the time, the level and the clock touch no table.
LEMMA SettingInv ==
  ASSUME Inv, SetDisplayLocalTime \/ Clock \/ \E l \in Levels : SetLogLevel(l)
  PROVE  Inv'
<1>1. /\ settings' = settings + 1 /\ settings < MaxSettings
      /\ displayLocalTime' \in BOOLEAN /\ logLevel' \in Levels /\ clock' \in Seconds
      /\ \/ displayLocalTime' = displayLocalTime /\ switched' = switched
         \/ switched' = Threads
      /\ UNCHANGED <<outputFunc, flushFunc, tables, lastTime, pc, stmt, dead, statements, late>>
  BY DEF SetDisplayLocalTime, Clock, SetLogLevel, Setting, Inv, TypeOK
<1>2. TypeOK'
  <2>1. settings' \in 0..MaxSettings
    BY <1>1, Bounds DEF Inv, TypeOK
  <2> QED BY <1>1, <2>1 DEF Inv, TypeOK, tables, dead
<1>3. TimeKept' /\ TimeIsOwn'
  BY <1>1 DEF Inv, TimeKept, TimeIsOwn
<1>4. TablesAgree' /\ InDestructor' /\ FlushesWhereItWrites'
  BY <1>1 DEF Inv, TablesAgree, InDestructor, EntriesThere, FlushesWhereItWrites, OutputOf,
              tables, dead
<1> QED BY <1>2, <1>3, <1>4 DEF Inv

-----------------------------------------------------------------------------
LEMMA NextInv == Inv /\ [Next]_vars => Inv'
<1> SUFFICES ASSUME Inv, [Next]_vars PROVE Inv'
  OBVIOUS
<1>1. CASE Next
  BY <1>1, ConstructInv, LabelInv, ConstructRawInv, LookUpInv, LookUpEmptyInv, CallInv,
     LookUpFlushInv, CallFlushInv, EndInv, SetDefaultInv, SetFunctionInv, SettingInv DEF Next
<1>2. CASE UNCHANGED vars
  BY <1>2 DEF vars, tables, dead, Inv, TypeOK, TimeKept, TimeIsOwn, TablesAgree, InDestructor,
              EntriesThere,
              FlushesWhereItWrites, OutputOf
<1> QED BY <1>1, <1>2

\* The invariant holds throughout.
LEMMA Invariant == Spec => []Inv
  BY InitInv, NextInv, PTL DEF Spec

-----------------------------------------------------------------------------
\* Every variable keeps its type, and the flush table never gets ahead of the
\* output table.
THEOREM TypeCorrect == Spec => []TypeOK
  BY Invariant, PTL DEF Inv

\* What ~Logger does without a test: the entry it calls by index is in its table,
\* however many other threads fill the two tables between its look-ups and its
\* calls, and the flush table, filled later, has the entry as well.
THEOREM EntriesAreThere == Spec => []EntriesThere
  BY Invariant, PTL DEF Inv, InDestructor

\* An error is flushed where it was written, for any number of threads and
\* indexes, with three exceptions: an index whose default was replaced between
\* its first line and its first error; a reference into the table of output
\* functions, and one into the table of flush functions, that was moved away.
THEOREM FlushedWhereWritten == Spec => []FlushesWhereItWrites
  BY Invariant, PTL DEF Inv

\* A line shows the second of its own statement, labelled as it was formatted but
\* for a switch of displayLocalTime since, however the clock goes.
THEOREM TimeOfItsOwn == Spec => []TimeIsOwn
  BY Invariant, PTL DEF Inv
=============================================================================
