--------------------------- MODULE LoggingPipeline ---------------------------
(***************************************************************************)
(* AsyncFileLogger and LoggerFile together, as writeLogToFile() joins      *)
(* them: the buffer that the log thread or the destructor takes is one     *)
(* chunk of the LoggerFile, which rotates, deletes and opens files before  *)
(* the call returns.  Processes come and go over one directory, and calls  *)
(* of output() are numbered through all of them.                           *)
(*                                                                         *)
(* file is here everything given to writeLog(); what has become of it is   *)
(* in current and rotated.                                                 *)
(***************************************************************************)
EXTENDS AsyncFileLogger

CONSTANTS Dates, MaxSeq, SizeLimit, Retentions, MaxChunks, MaxRestarts, MaxFailures, MaxOthers

\* As in LoggerFile.
ASSUME FilesAssumption ==
  /\ Dates \subseteq Nat /\ MaxSeq \in Nat \ {0} /\ SizeLimit \in Nat /\ Retentions \subseteq Nat
  /\ MaxChunks \in Nat /\ MaxRestarts \in Nat /\ MaxFailures \in Nat /\ MaxOthers \in Nat

VARIABLES
  current, rotated, unflushed, dropped, fp_, fileSeq_, creationDate_, maxFiles_,
  switchOnLimitOnly_, filenameQueue_, unread, pc, closing, fresh, others,
  written, restarts, failures, rotations, orderly, phantoms, leftovers,
  chunks,    \* history: the text of each call of writeLog()
  before     \* history: calls, chunks and failures before this process

loggerFileVars ==
  <<current, rotated, unflushed, dropped, fp_, fileSeq_, creationDate_, maxFiles_,
    switchOnLimitOnly_, filenameQueue_, unread, pc, closing, fresh, others,
    written, restarts, failures, rotations, orderly, phantoms, leftovers>>
pipelineVars == <<vars, loggerFileVars, chunks, before>>

Files == INSTANCE LoggerFile

PipelineInit ==
  /\ Init /\ Files!Init
  /\ chunks = <<>> /\ before = [calls |-> 0, chunks |-> 0, failures |-> 0]

-----------------------------------------------------------------------------
(* What leaves the LoggerFile alone. *)

OnlyLogger == UNCHANGED <<loggerFileVars, chunks, before>>

Calls == \/ \E len \in Lens : Output(len)
         \/ Flush \/ StartLogging \/ SpuriousWake \/ Expire \/ SetStop
CallStep == Calls /\ OnlyLogger

ThreadInMemory ==
  LoopTest \/ Lock \/ Block \/ Wait \/ TakeBuffersOnTimeout \/ TakeBuffers
DestructorInMemory == NotifyAll \/ Join \/ Collect
InMemoryStep == (ThreadInMemory \/ DestructorInMemory) /\ OnlyLogger

\* writeLogToFile() has returned before the thread hands the buffer back.
RecycleWritten ==
  /\ pc = "ready" /\ Recycle
  /\ OnlyLogger

-----------------------------------------------------------------------------
(* writeLogToFile() *)

ThreadWrites == thread = "drain" /\ tmpBuffers_ # <<>>
DestructorWrites == dtor = "write" /\ writeBuffers_ # <<>>

\* The first call makes the LoggerFile.
Construct ==
  /\ ThreadWrites \/ DestructorWrites
  /\ Files!Construct
  /\ UNCHANGED <<vars, chunks, before>>

WriteLog ==
  /\ Write \/ WriteRest
  /\ Files!Write
  /\ chunks' = Append(chunks, SubSeq(file', Len(file) + 1, Len(file')))
  /\ UNCHANGED before

\* The rest of the constructor, of switchLog() and of ~LoggerFile().
FileWork ==
  /\ \/ Files!CannotRead \/ Files!Scan \/ Files!ScanDone
     \/ Files!Close \/ Files!Rename \/ Files!DeleteOldFile \/ Files!Reopen
  /\ UNCHANGED <<vars, chunks, before>>

\* The end of a round of the thread: flush() of the LoggerFile, if there is one.
FlushFile ==
  /\ Fflush
  /\ Files!Flush \/ (~fp_ /\ UNCHANGED loggerFileVars)
  /\ UNCHANGED <<chunks, before>>

\* ~LoggerFile(), when the destructor of AsyncFileLogger has written the rest.
DestroyFile ==
  /\ dtor = "write" /\ writeBuffers_ = <<>>
  /\ Files!Destroy
  /\ UNCHANGED <<vars, chunks, before>>

CloseDestroyed ==
  /\ pc = "none" /\ Close
  /\ OnlyLogger

-----------------------------------------------------------------------------
\* What AsyncFileLogger() makes; str and begin are those of buffers without text.
NewLogger ==
  /\ mutex_' = "free" /\ stopFlag_' = FALSE /\ lostCounter_' = 0
  /\ thread' = "none" /\ dtor' = "alive"
  /\ logBufferPtr_' = CHOOSE b \in Buffers : TRUE
  /\ nextBufferPtr_' = CHOOSE b \in Buffers : b # logBufferPtr_'
  /\ writeBuffers_' = <<>> /\ tmpBuffers_' = <<>> /\ tmpPtr' = NoBuffer
  /\ str' = [b \in Buffers |-> Reserved]
  /\ accepted' = file /\ begin' = [b \in Buffers |-> Len(file)]

\* The process ends, after the destructor or at any moment, and another starts.
Restart ==
  /\ Files!Restart /\ NewLogger
  /\ UNCHANGED <<file, synced, calls, chunks>>
  /\ before' = [calls |-> calls, chunks |-> written, failures |-> failures]

PipelineNext ==
  \/ CallStep \/ InMemoryStep \/ RecycleWritten \/ Construct \/ WriteLog \/ FileWork
  \/ FlushFile \/ DestroyFile \/ CloseDestroyed \/ Restart

PipelineSpec == PipelineInit /\ [][PipelineNext]_pipelineVars

\* The log thread and the destructor run on, also inside LoggerFile; which of
\* them is there dtor tells.  The timer is strongly fair as in AsyncFileLogger.
ThreadWork ==
  dtor # "write" /\ \/ ThreadInMemory /\ OnlyLogger
                    \/ RecycleWritten \/ Construct \/ WriteLog \/ FileWork \/ FlushFile
DestructorWork ==
  \/ DestructorInMemory /\ OnlyLogger
  \/ dtor = "write" /\ (Construct \/ WriteLog \/ FileWork \/ DestroyFile \/ CloseDestroyed)
FairPipelineSpec ==
  PipelineSpec /\ WF_pipelineVars(ThreadWork) /\ WF_pipelineVars(DestructorWork)
               /\ SF_pipelineVars(Expire /\ OnlyLogger)

-----------------------------------------------------------------------------
(* Properties *)

InFiles(names) == UNION {Elements(rotated[n]) : n \in names}
ChunksOnDisk == Elements(current) \cup InFiles(DOMAIN rotated)

\* The calls that an entry of a text tells of: that of its message or, if it is
\* a notice, as many as it says before the message behind it.
ToldBy(s, k) ==
  IF s[k].kind = "message" THEN {s[k].n} ELSE (s[k + 1].n - s[k].n)..(s[k + 1].n - 1)
Told(c) == UNION {ToldBy(chunks[c], k) : k \in DOMAIN chunks[c]}
ToldOf(cs) == UNION {Told(c) : c \in cs}
AllBefore(S, T) == \A m \in S, n \in T : m < n

\* Chunk c comes before d where the files are read in the order of their names,
\* the current one last.
ReadBefore(c, d) ==
  LET inOrder(s) == \E i, j \in DOMAIN s : i < j /\ s[i] = c /\ s[j] = d
  IN  \/ inOrder(current)
      \/ \E m \in DOMAIN rotated :
           \/ inOrder(rotated[m])
           \/ /\ c \in Elements(rotated[m])
              /\ \/ d \in Elements(current)
                 \/ \E n \in DOMAIN rotated : Files!Before(m, n) /\ d \in Elements(rotated[n])

\* What this process wrote, but for files that retention has lost track of.
OfThisProcess(cs) == {c \in cs : c > before.chunks}
Kept == OfThisProcess(Elements(current) \cup InFiles(DOMAIN rotated \ leftovers))

\* Reading the files in the order of their names tells of the calls in their
\* order, each at most once.  Between two calls that what a process wrote tells
\* of, each is told of too, by its message or by a notice, but for the chunks
\* of which a failed fwrite(), fflush() or fclose() lost a part: nobody looks at
\* what these return, and the log goes on behind the hole.  A file that cannot
\* be opened, retention and a crash only cut off the beginning or the end.  As
\* long as the names of the files come in order (NameOrder), and but for a file
\* that retention failed to remove, after which it goes on with the next.
FilesReadAsLog ==
  orderly =>
    /\ \A c \in ChunksOnDisk : \A i, j \in DOMAIN chunks[c] :
         i < j => AllBefore(ToldBy(chunks[c], i), ToldBy(chunks[c], j))
    /\ \A c, d \in ChunksOnDisk : ReadBefore(c, d) => AllBefore(Told(c), Told(d))
    /\ LET told == ToldOf(Kept) IN \A m, n \in told : m..n \subseteq told \cup ToldOf(dropped)

\* When the destructor has returned the files tell of every call of the
\* process and of no other, but for the losses since the last notice, unless a
\* call to the file system failed, retention removes files, or names collide.
ShutdownIsComplete ==
  dtor = "done" /\ failures = before.failures /\ maxFiles_ = 0 /\ orderly =>
    ToldOf(OfThisProcess(ChunksOnDisk)) = (before.calls + 1)..(calls - lostCounter_)

Read(cs) == UNION {MessagesIn(chunks[c]) : c \in cs}
Held == Read(ChunksOnDisk) \cup MessagesIn(SubSeq(accepted, Len(file) + 1, Len(accepted)))

\* An accepted message is lost in five ways only: the process ends before its
\* destructor has and the message had not been flushed; it is written while no
\* file could be opened; fwrite(), fflush() or fclose() fails before it is on
\* the disk; retention removes its file; or names collide.
LossExplained ==
  [][\A n \in Held \ Held' :
       \/ restarts' > restarts /\ dtor # "done" /\ n \notin Read(Files!Durable)
       \/ ~fp_ /\ pc \in {"write", "ready"} /\ failures > before.failures
       \/ fp_ /\ failures' > failures /\ n \notin Read(Files!Durable)
       \/ maxFiles_ > 0 /\ pc \in {"scan", "delete"}
       \/ ~orderly']_pipelineVars

\* Accepted messages that are in memory or that only stdio may hold.
Underway == Held \ Read(Files!Durable)

\* While the log thread runs an accepted message is on its way: it gets to the
\* disk, or is lost as above, but does not stay in memory or in stdio for ever.
\* Messages are numbered as they come: it is enough that, for ever, none is
\* under way or the earliest of them leaves; then each does in its turn.
AcceptedReachesDisk ==
  \/ []<>(Underway = {} \/ thread = "none")
  \/ []<><<Underway # {} /\ Min(Underway) \notin Underway'>>_pipelineVars
=============================================================================
