------------------------------ MODULE Logger --------------------------------
(***************************************************************************)
(* The front end of the log (utils/Logger.h, utils/Logger.cpp): statements *)
(* of several threads, the two tables of functions by index that are       *)
(* filled when an index is first used, and the time of day, which every    *)
(* thread formats once a second.  Built without XIAO_SPDLOG_SUPPORT.       *)
(*                                                                         *)
(* A statement LOG_... is a temporary object: its constructor formats the  *)
(* time, its destructor hands the line to an output function and, from     *)
(* xError on, calls a flush function.  A function is named by the          *)
(* destination it writes to or flushes; callers set the two of one         *)
(* destination together.                                                   *)
(***************************************************************************)
EXTENDS Integers, Sequences

CONSTANTS
  Threads,
  Destinations, Stdout, \* what output functions write to
  NoFunc,               \* the empty std::function
  MaxIndex,             \* bound: indexes of LOG_..._TO are 0 .. MaxIndex
  Seconds,              \* the seconds of the clock
  MaxStatements,        \* bound: statements executed
  MaxSettings           \* bound: calls of the setters and changes of the clock

ASSUME FunctionsAssumption == Stdout \in Destinations /\ NoFunc \notin Destinations
ASSUME BoundsAssumption ==
  /\ MaxIndex \in Nat /\ MaxStatements \in Nat /\ MaxSettings \in Nat
  /\ Seconds \subseteq Nat \ {0}

\* Logger::LogLevel, those below xInfo left out: they differ from it in nothing.
xInfo == 2
xWarn == 3
xError == 4
Levels == xInfo..xError

Functions == Destinations \cup {NoFunc}
\* index_ is -1 in a statement without an index.
Indexes == -1..MaxIndex
NoTime == [second |-> 0, local |-> FALSE]
Times == [second: Seconds, local: BOOLEAN] \cup {NoTime}

VARIABLES
  outputFunc, flushFunc,   \* the functions of statements without an index
  outputFuncs, flushFuncs, \* the tables: entry i + 1 is index i
  displayLocalTime, logLevel,
  clock,                   \* the second Date::now() lies in
  lastTime,                \* lastSecond_ and lastTimeString_ of each thread
  pc,                      \* what a thread does next in its statement
  stmt,                    \* the Logger object of each thread
  dangling, danglingFlush, \* threads whose reference to an entry of outputFuncs,
                           \* of flushFuncs, is dead
  statements, settings,    \* count against the bounds
  late,                    \* history: see SetDefault
  switched                 \* history: threads with a time of before the last
                           \* change of displayLocalTime

tables == <<outputFuncs, flushFuncs>>
dead == <<dangling, danglingFlush>>
config == <<outputFunc, flushFunc, displayLocalTime, logLevel, clock, settings, switched>>
vars == <<outputFunc, flushFunc, outputFuncs, flushFuncs, displayLocalTime, logLevel,
          clock, lastTime, pc, stmt, dead, statements, settings, late, switched>>

NoStatement == [index |-> -1, level |-> xInfo, raw |-> FALSE, second |-> 0,
                time |-> NoTime, label |-> FALSE, wrote |-> NoFunc, flushed |-> NoFunc]

Init ==
  /\ outputFunc = Stdout /\ flushFunc = Stdout
  /\ outputFuncs = <<>> /\ flushFuncs = <<>>
  /\ displayLocalTime = FALSE /\ logLevel = xInfo
  /\ clock \in Seconds
  /\ lastTime = [t \in Threads |-> NoTime]
  /\ pc = [t \in Threads |-> "idle"]
  /\ stmt = [t \in Threads |-> NoStatement]
  /\ dangling = {} /\ danglingFlush = {} /\ late = {} /\ switched = {}
  /\ statements = 0 /\ settings = 0

Goto(t, next) == pc' = [pc EXCEPT ![t] = next]

-----------------------------------------------------------------------------
(* Statements                                                              *)

\* A mutated form of Formatted.
FormattedForEver(t) ==
  IF lastTime[t] = NoTime THEN [second |-> clock, local |-> displayLocalTime] ELSE lastTime[t]

\* What formatTime() keeps for the thread: formatted anew when the second is
\* not the one of lastSecond_.
Formatted(t) ==
  IF lastTime[t].second = clock THEN lastTime[t]
  ELSE [second |-> clock, local |-> displayLocalTime]

\* The macros LOG_... of a build without NDEBUG test the level below xWarn only.
Passes(level) == level >= xWarn \/ logLevel <= level

\* The constructor, up to the digits of the time.
Construct(t, index, level) ==
  /\ pc[t] = "idle" /\ statements < MaxStatements
  /\ Passes(level)
  /\ statements' = statements + 1
  /\ lastTime' = [lastTime EXCEPT ![t] = Formatted(t)]
  /\ switched' = IF lastTime[t].second = clock THEN switched ELSE switched \ {t}
  /\ stmt' = [stmt EXCEPT ![t] = [NoStatement EXCEPT
       !.index = index, !.level = level, !.second = clock, !.time = Formatted(t)]]
  /\ Goto(t, "label")
  /\ UNCHANGED <<outputFunc, flushFunc, tables, displayLocalTime, logLevel, clock,
                 dead, settings, late>>

\* formatTime() tests displayLocalTime again for the label after the digits.
Label(t) ==
  /\ pc[t] = "label"
  /\ stmt' = [stmt EXCEPT ![t].label = displayLocalTime]
  /\ Goto(t, "destroy")
  /\ UNCHANGED <<config, tables, lastTime, dead, statements, late>>

\* LOG_RAW: a RawLogger has neither time nor level.
ConstructRaw(t, index) ==
  /\ pc[t] = "idle" /\ statements < MaxStatements
  /\ statements' = statements + 1
  /\ stmt' = [stmt EXCEPT ![t] = [NoStatement EXCEPT !.index = index, !.raw = TRUE]]
  /\ Goto(t, "destroy")
  /\ UNCHANGED <<config, tables, lastTime, dead, late>>

\* A table after the look-up of an index: filled up to it with the default of now.
Filled(table, index, default) ==
  [i \in 1..(IF index < Len(table) THEN Len(table) ELSE index + 1) |->
     IF i <= Len(table) THEN table[i] ELSE default]

\* Threads that hold a reference to an entry of outputFuncs.
Holders == {t \in Threads : pc[t] = "call" /\ stmt[t].index >= 0}

OutputOf(index) == IF index < 0 THEN outputFunc ELSE outputFuncs[index + 1]

\* The destructor looks its output function up and returns when it is empty.
\* Growing the vector may move it away under another thread's reference.
LookUp(t) ==
  LET index == stmt[t].index IN
  /\ pc[t] = "destroy"
  /\ outputFuncs' = Filled(outputFuncs, index, outputFunc)
  /\ dangling' \in IF outputFuncs' = outputFuncs THEN {dangling}
                   ELSE {dangling, dangling \cup Holders}
  /\ IF index < 0 THEN outputFunc # NoFunc ELSE outputFuncs'[index + 1] # NoFunc
  /\ Goto(t, "call")
  /\ UNCHANGED <<config, flushFuncs, lastTime, stmt, danglingFlush, statements, late>>

LookUpEmpty(t) ==
  LET index == stmt[t].index IN
  /\ pc[t] = "destroy"
  /\ outputFuncs' = Filled(outputFuncs, index, outputFunc)
  /\ dangling' \in IF outputFuncs' = outputFuncs THEN {dangling}
                   ELSE {dangling, dangling \cup Holders}
  /\ IF index < 0 THEN outputFunc = NoFunc ELSE outputFuncs'[index + 1] = NoFunc
  /\ stmt' = [stmt EXCEPT ![t] = NoStatement]
  /\ Goto(t, "idle")
  /\ UNCHANGED <<config, flushFuncs, lastTime, danglingFlush, statements, late>>

\* oFunc(...). Through a dead reference anything may be called.
Call(t) ==
  /\ pc[t] = "call"
  /\ \E d \in IF t \in dangling THEN Destinations ELSE {OutputOf(stmt[t].index)} :
       stmt' = [stmt EXCEPT ![t].wrote = d]
  /\ Goto(t, IF stmt[t].level >= xError THEN "flush" ELSE "end")
  /\ UNCHANGED <<config, tables, lastTime, dead, statements, late>>

FlushOf(index) == IF index < 0 THEN flushFunc ELSE flushFuncs[index + 1]

\* Threads that hold a reference to an entry of flushFuncs.
FlushHolders == {t \in Threads : pc[t] = "flushing" /\ stmt[t].index >= 0}

\* The flush function is looked up in a table of its own, which may move too.
LookUpFlush(t) ==
  /\ pc[t] = "flush"
  /\ flushFuncs' = Filled(flushFuncs, stmt[t].index, flushFunc)
  /\ danglingFlush' \in IF flushFuncs' = flushFuncs THEN {danglingFlush}
                        ELSE {danglingFlush, danglingFlush \cup FlushHolders}
  /\ Goto(t, "flushing")
  /\ UNCHANGED <<config, outputFuncs, lastTime, stmt, dangling, statements, late>>

\* flushFunc_(...)(). To call an empty function throws in a destructor, which
\* ends the process; through a dead reference anything may be called.
CallFlush(t) ==
  /\ pc[t] = "flushing"
  /\ \E d \in IF t \in danglingFlush THEN Functions ELSE {FlushOf(stmt[t].index)} :
       /\ stmt' = [stmt EXCEPT ![t].flushed = d]
       /\ Goto(t, IF d = NoFunc THEN "terminated" ELSE "end")
  /\ UNCHANGED <<config, tables, lastTime, dead, statements, late>>

End(t) ==
  /\ pc[t] = "end"
  /\ stmt' = [stmt EXCEPT ![t] = NoStatement]
  /\ dangling' = dangling \ {t} /\ danglingFlush' = danglingFlush \ {t}
  /\ Goto(t, "idle")
  /\ UNCHANGED <<config, tables, lastTime, statements, late>>

-----------------------------------------------------------------------------
(* The setters. Those of functions are called while no destructor is under *)
(* way: std::function cannot be assigned while another thread calls it.    *)

NobodyWrites == \A t \in Threads : pc[t] \notin {"call", "flush", "flushing", "end"}
Setting == settings < MaxSettings /\ settings' = settings + 1

\* A mutated form of SetDefault.
SetDefaultOutputOnly(d) ==
  /\ Setting /\ NobodyWrites
  /\ outputFunc' = d /\ UNCHANGED flushFunc
  /\ UNCHANGED late
  /\ UNCHANGED <<tables, displayLocalTime, logLevel, clock, lastTime, pc, stmt, dead,
                 statements, switched>>

\* setOutputFunction(). late are the indexes whose output function is fixed
\* already and whose flush function is not.
SetDefault(d) ==
  /\ Setting /\ NobodyWrites
  /\ outputFunc' = d /\ flushFunc' = d
  /\ late' = late \cup Len(flushFuncs)..(Len(outputFuncs) - 1)
  /\ UNCHANGED <<tables, displayLocalTime, logLevel, clock, lastTime, pc, stmt, dead,
                 statements, switched>>

\* setOutputFunction() with an index.
SetFunction(index, d) ==
  /\ Setting /\ NobodyWrites
  /\ outputFuncs' = [Filled(outputFuncs, index, outputFunc) EXCEPT ![index + 1] = d]
  /\ flushFuncs' = [Filled(flushFuncs, index, flushFunc) EXCEPT ![index + 1] = d]
  /\ late' = late \ {index}
  /\ UNCHANGED <<outputFunc, flushFunc, displayLocalTime, logLevel, clock, lastTime, pc,
                 stmt, dead, statements, switched>>

SetDisplayLocalTime ==
  /\ Setting
  /\ displayLocalTime' = ~displayLocalTime
  /\ switched' = Threads
  /\ UNCHANGED <<outputFunc, flushFunc, tables, logLevel, clock, lastTime, pc, stmt,
                 dead, statements, late>>

SetLogLevel(level) ==
  /\ Setting
  /\ logLevel' = level
  /\ UNCHANGED <<outputFunc, flushFunc, tables, displayLocalTime, clock, lastTime, pc,
                 stmt, dead, statements, late, switched>>

\* The system's clock, which may be set back.
Clock ==
  /\ Setting
  /\ clock' \in Seconds \ {clock}
  /\ UNCHANGED <<outputFunc, flushFunc, tables, displayLocalTime, logLevel, lastTime, pc,
                 stmt, dead, statements, late, switched>>

Running == \A t \in Threads : pc[t] # "terminated"

Next ==
  /\ Running
  /\ \/ \E t \in Threads :
          \/ \E index \in Indexes : ConstructRaw(t, index) \/ \E l \in Levels : Construct(t, index, l)
          \/ Label(t) \/ LookUp(t) \/ LookUpEmpty(t) \/ Call(t)
          \/ LookUpFlush(t) \/ CallFlush(t) \/ End(t)
     \/ \E d \in Functions : SetDefault(d) \/ \E index \in 0..MaxIndex : SetFunction(index, d)
     \/ SetDisplayLocalTime \/ Clock \/ \E l \in Levels : SetLogLevel(l)

Spec == Init /\ [][Next]_vars
-----------------------------------------------------------------------------
Statement ==
  [index: Indexes, level: Levels, raw: BOOLEAN, second: Seconds \cup {0}, time: Times,
   label: BOOLEAN, wrote: Functions, flushed: Functions]

\* Type invariant; no table has more entries than there are indexes.
TypeOK ==
  /\ outputFunc \in Functions /\ flushFunc \in Functions
  /\ outputFuncs \in Seq(Functions) /\ flushFuncs \in Seq(Functions)
  /\ Len(outputFuncs) <= MaxIndex + 1 /\ Len(flushFuncs) <= Len(outputFuncs)
  /\ displayLocalTime \in BOOLEAN /\ logLevel \in Levels /\ clock \in Seconds
  /\ lastTime \in [Threads -> Times]
  /\ pc \in [Threads -> {"idle", "label", "destroy", "call", "flush", "flushing", "end",
                         "terminated"}]
  /\ stmt \in [Threads -> Statement]
  /\ dangling \subseteq Threads /\ danglingFlush \subseteq Threads /\ switched \subseteq Threads
  /\ late \subseteq 0..MaxIndex
  /\ statements \in 0..MaxStatements /\ settings \in 0..MaxSettings

\* An error is flushed at the destination it was written to, and ends the process
\* for want of a flush function only when it was written to none, unless the
\* default functions were replaced between the first line of an index and its
\* first error: ~Logger fills its two tables at different times. Or unless the
\* output function, or the flush function, was called through a reference that
\* its table, growing for another thread's index, had left behind.
FlushesWhereItWrites ==
  \A t \in Threads :
    /\ pc[t] \in {"end", "terminated"}
    /\ stmt[t].level >= xError
    /\ stmt[t].flushed # stmt[t].wrote
    => stmt[t].index \in late \/ t \in dangling \/ t \in danglingFlush

\* A line shows the second in which its statement was made, whatever the thread
\* logged before and however the clock went; and local time is labelled local,
\* UTC is labelled UTC, unless setDisplayLocalTime() was called after the
\* thread had formatted that second: formatTime() does not look at it again.
TimeIsOwn ==
  \A t \in Threads :
    pc[t] \notin {"idle", "label"} /\ ~stmt[t].raw =>
      /\ stmt[t].time.second = stmt[t].second
      /\ stmt[t].time.local # stmt[t].label => t \in switched
=============================================================================
