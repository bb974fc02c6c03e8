-------------------------- MODULE AsyncFileLogger ---------------------------
(***************************************************************************)
(* xiao::AsyncFileLogger: callers append messages to a log buffer in       *)
(* memory, full buffers queue up for a background thread, and the thread   *)
(* writes them to a file and hands the emptied buffer back for reuse.      *)
(*                                                                         *)
(* Buffers have an identity (they are shared_ptr<string>), and str[b] is   *)
(* what the string of b holds.  A text is a sequence of entries: a message,*)
(* named by the number of the call of output() that brought it, or the     *)
(* notice that some messages were lost.  The file is one growing text:     *)
(* LoggerFile says how it is cut into files, LoggingPipeline puts the two  *)
(* together.                                                               *)
(*                                                                         *)
(* stopFlag_ is a plain bool that the destructor stores without mutex_     *)
(* while the thread reads it; it is modelled as memory that either side    *)
(* may access at any moment, which is what the builds produce.             *)
(***************************************************************************)
EXTENDS Integers, FiniteSets, SequencesExt

CONSTANTS
  Buffers,      \* buffer identities; an unreferenced one may be allocated
  NoBuffer,     \* the null pointer
  BufSize,      \* xMemBufferSize
  QueueLimit,   \* the 25 of output()
  NoticeLen,    \* length of "... log information is lost\n"
  Lens,         \* lengths of the messages; an empty one leaves no trace in a file
  MaxCalls      \* bound on the calls of output()

ASSUME BuffersAssumption == NoBuffer \notin Buffers /\ \E a, b \in Buffers : a # b
ASSUME SizesAssumption ==
  /\ BufSize \in Nat \ {0} /\ QueueLimit \in Nat /\ MaxCalls \in Nat
  /\ NoticeLen \in 1..BufSize
  /\ Lens \subseteq Nat \ {0}

VARIABLES
  mutex_,          \* "free", or "thread" while logThreadFunc holds it across steps
  logBufferPtr_, nextBufferPtr_, writeBuffers_,
  lostCounter_,
  tmpBuffers_,     \* buffers the thread took for writing
  tmpPtr,          \* the buffer the thread has written and not handed back yet
  str,
  stopFlag_,
  thread,          \* where logThreadFunc is
  dtor,            \* where ~AsyncFileLogger is
  file,            \* everything given to fwrite
  synced,          \* how many entries of file were fflush-ed or fclose-d
  calls,           \* calls of output() with a message that fits a buffer
  accepted,        \* history: everything appended to a log buffer, in order
  begin            \* history: where in accepted the text of a buffer begins

historyVars == <<accepted, begin>>
vars == <<mutex_, logBufferPtr_, nextBufferPtr_, writeBuffers_, lostCounter_,
          tmpBuffers_, tmpPtr, str, stopFlag_, thread, dtor, file, synced, calls,
          historyVars>>

Message(n) == [kind |-> "message", n |-> n]
Notice(k)  == [kind |-> "lost", n |-> k]
Entries == {Message(n) : n \in Nat} \cup {Notice(k) : k \in Nat}

Strings == [text : Seq(Entries), length : Nat, capacity : Nat]
Reserved == [text |-> <<>>, length |-> 0, capacity |-> BufSize]
Cleared(s) == [s EXCEPT !.text = <<>>, !.length = 0]

Elements(q) == {q[i] : i \in DOMAIN q}
Referenced == {logBufferPtr_, nextBufferPtr_, tmpPtr}
                 \cup Elements(writeBuffers_) \cup Elements(tmpBuffers_)
Unused == Buffers \ Referenced

Init ==
  /\ mutex_ = "free"
  /\ logBufferPtr_ = CHOOSE b \in Buffers : TRUE
  /\ nextBufferPtr_ = CHOOSE b \in Buffers : b # logBufferPtr_
  /\ writeBuffers_ = <<>> /\ tmpBuffers_ = <<>> /\ tmpPtr = NoBuffer
  /\ str = [b \in Buffers |-> Reserved]
  /\ lostCounter_ = 0
  /\ stopFlag_ = FALSE
  /\ thread = "none" /\ dtor = "alive"
  /\ file = <<>> /\ synced = 0 /\ calls = 0
  /\ accepted = <<>> /\ begin = [b \in Buffers |-> 0]

ThreadVars == <<tmpBuffers_, tmpPtr, file, synced>>
StopVars == <<stopFlag_, dtor>>
BufferVars == <<logBufferPtr_, nextBufferPtr_, writeBuffers_, str, historyVars>>

-----------------------------------------------------------------------------
(* swapBuffer(): queue the log buffer; go on with the next buffer, or with *)
(* a new one, cleared or reserved (SwappedStr).                            *)

NextLog == IF nextBufferPtr_ # NoBuffer THEN nextBufferPtr_
           ELSE CHOOSE b \in Unused : TRUE

SwappedStr ==
  [str EXCEPT ![NextLog] = IF nextBufferPtr_ # NoBuffer THEN Cleared(@) ELSE Reserved]

KeepNextBuffer ==
  /\ nextBufferPtr_ = NoBuffer => Unused # {}
  /\ logBufferPtr_' = NextLog
  /\ begin' = [begin EXCEPT ![NextLog] = Len(accepted)]
  /\ UNCHANGED nextBufferPtr_

SwapPointers ==
  /\ nextBufferPtr_ = NoBuffer => Unused # {}
  /\ logBufferPtr_' = NextLog
  /\ nextBufferPtr_' = NoBuffer
  /\ begin' = [begin EXCEPT ![NextLog] = Len(accepted)]

SwapBuffer ==
  /\ writeBuffers_' = Append(writeBuffers_, logBufferPtr_)
  /\ SwapPointers

\* cond_.notify_one() and notify_all(): only the thread waits on cond_.
Notify == thread' = IF thread = "waiting" THEN "woken" ELSE thread

-----------------------------------------------------------------------------
(* output() and flush(), on the callers' threads.  Both hold mutex_        *)
(* throughout and neither reads stopFlag_, so each call is one step.       *)

LengthOf(s) == str[s].length
Full(len) == str[logBufferPtr_].capacity - LengthOf(logBufferPtr_) < len

\* basic_string::append past the capacity reallocates: at least what is
\* needed and at most twice the old capacity.
Appended(s, text, len, cap) ==
  [text |-> s.text \o text, length |-> s.length + len, capacity |-> cap]
Capacities(s, len) ==
  IF s.length + len <= s.capacity THEN {s.capacity}
  ELSE {s.length + len} \cup (s.length + len)..(2 * s.capacity)

LostNoticeLate == IF lostCounter_ > 1 THEN <<Notice(lostCounter_)>> ELSE <<>>

LostNotice == IF lostCounter_ > 0 THEN <<Notice(lostCounter_)>> ELSE <<>>

\* The end of output(): append the notice, if any, and the message.
AppendEntries(before, log, len) ==
  LET text == LostNotice \o <<Message(calls + 1)>>
      size == len + (IF lostCounter_ > 0 THEN NoticeLen ELSE 0)
  IN  /\ \E cap \in Capacities(before[log], size) :
           str' = [before EXCEPT ![log] = Appended(@, text, size, cap)]
      /\ accepted' = accepted \o text

QueueFullLate(n) == n > QueueLimit + 1

QueueFull(n) == n > QueueLimit

\* A message longer than BufSize is dropped by the early return: output()
\* then changes nothing, not even lostCounter_.
Output(len) ==
  /\ dtor = "alive" /\ mutex_ = "free" /\ calls < MaxCalls
  /\ len <= BufSize
  /\ IF Full(len) THEN SwapBuffer /\ Notify
     ELSE UNCHANGED <<logBufferPtr_, nextBufferPtr_, writeBuffers_, thread, begin>>
  /\ LET before == IF Full(len) THEN SwappedStr ELSE str
     IN  IF QueueFull(Len(writeBuffers_'))
         THEN lostCounter_' = lostCounter_ + 1 /\ str' = before /\ UNCHANGED accepted
         ELSE lostCounter_' = 0 /\ AppendEntries(before, logBufferPtr_', len)
  /\ calls' = calls + 1
  /\ UNCHANGED <<mutex_, ThreadVars, StopVars>>

Flush ==
  /\ dtor = "alive" /\ mutex_ = "free"
  /\ LengthOf(logBufferPtr_) > 0
  /\ SwapBuffer /\ Notify
  /\ str' = SwappedStr
  /\ UNCHANGED <<mutex_, lostCounter_, ThreadVars, StopVars, calls, accepted>>

StartLogging ==
  /\ dtor = "alive" /\ thread = "none"
  /\ thread' = "loop"
  /\ UNCHANGED <<mutex_, BufferVars, lostCounter_, ThreadVars, StopVars, calls>>

-----------------------------------------------------------------------------
(* logThreadFunc() *)

ThreadGoes(from, to) == thread = from /\ thread' = to

LoopTest ==
  /\ ThreadGoes("loop", IF stopFlag_ THEN "exited" ELSE "lock")
  /\ UNCHANGED <<mutex_, BufferVars, lostCounter_, ThreadVars, StopVars, calls>>

\* Constructing the unique_lock, or taking it back when cond_ woke us up.
Lock ==
  /\ ThreadGoes("lock", "test") \/ ThreadGoes("woken", "test")
  /\ mutex_ = "free" /\ mutex_' = "thread"
  /\ UNCHANGED <<BufferVars, lostCounter_, ThreadVars, StopVars, calls>>

Block ==
  /\ ThreadGoes("test", "block")
  /\ writeBuffers_ = <<>> /\ ~stopFlag_
  /\ UNCHANGED <<mutex_, BufferVars, lostCounter_, ThreadVars, StopVars, calls>>

Wait ==
  /\ ThreadGoes("block", "waiting")
  /\ mutex_' = "free"
  /\ UNCHANGED <<BufferVars, lostCounter_, ThreadVars, StopVars, calls>>

SpuriousWake ==
  /\ ThreadGoes("waiting", "woken")
  /\ UNCHANGED <<mutex_, BufferVars, lostCounter_, ThreadVars, StopVars, calls>>

ExpireNever == FALSE /\ UNCHANGED vars

\* xLogFlushTimeout has passed; also when a notification came just before.
Expire ==
  /\ ThreadGoes("waiting", "expired") \/ ThreadGoes("woken", "expired")
  /\ UNCHANGED <<mutex_, BufferVars, lostCounter_, ThreadVars, StopVars, calls>>

TakeBuffersOnTimeoutWithoutSwap ==
  /\ ThreadGoes("expired", "drain") /\ mutex_ = "free"
  /\ tmpBuffers_' = writeBuffers_ /\ writeBuffers_' = <<>>
  /\ UNCHANGED <<mutex_, historyVars, logBufferPtr_, nextBufferPtr_, str, lostCounter_, tmpPtr,
                 file, synced, StopVars, calls>>

\* wait_for() returned timeout: queue the log buffer too, leave the inner
\* loop and swap tmpBuffers_ (which is empty here) with writeBuffers_.
TakeBuffersOnTimeout ==
  /\ ThreadGoes("expired", "drain") /\ mutex_ = "free"
  /\ IF LengthOf(logBufferPtr_) > 0
     THEN /\ tmpBuffers_' = Append(writeBuffers_, logBufferPtr_)
          /\ SwapPointers /\ str' = SwappedStr
     ELSE /\ tmpBuffers_' = writeBuffers_
          /\ UNCHANGED <<logBufferPtr_, nextBufferPtr_, str, begin>>
  /\ writeBuffers_' = tmpBuffers_
  /\ UNCHANGED <<mutex_, lostCounter_, tmpPtr, file, synced, StopVars, calls, accepted>>

TakeBuffers ==
  /\ ThreadGoes("test", "drain")
  /\ writeBuffers_ # <<>> \/ stopFlag_
  /\ tmpBuffers_' = writeBuffers_ /\ writeBuffers_' = tmpBuffers_
  /\ mutex_' = "free"
  /\ UNCHANGED <<historyVars, logBufferPtr_, nextBufferPtr_, str, lostCounter_, tmpPtr, file,
                 synced, StopVars, calls>>

WriteNewest ==
  /\ ThreadGoes("drain", "recycle")
  /\ tmpBuffers_ # <<>>
  /\ tmpPtr' = Last(tmpBuffers_) /\ tmpBuffers_' = Front(tmpBuffers_)
  /\ file' = file \o str[tmpPtr'].text
  /\ str' = [str EXCEPT ![tmpPtr'] = Cleared(@)]
  /\ UNCHANGED <<mutex_, historyVars, logBufferPtr_, nextBufferPtr_, writeBuffers_,
                 lostCounter_, synced, StopVars, calls>>

\* Pop a buffer, write it, clear it: all outside mutex_.
Write ==
  /\ ThreadGoes("drain", "recycle")
  /\ tmpBuffers_ # <<>>
  /\ tmpPtr' = Head(tmpBuffers_) /\ tmpBuffers_' = Tail(tmpBuffers_)
  /\ file' = file \o str[tmpPtr'].text
  /\ str' = [str EXCEPT ![tmpPtr'] = Cleared(@)]
  /\ UNCHANGED <<mutex_, historyVars, logBufferPtr_, nextBufferPtr_, writeBuffers_,
                 lostCounter_, synced, StopVars, calls>>

\* The emptied buffer becomes the next buffer; the one it replaces is freed.
Recycle ==
  /\ ThreadGoes("recycle", "drain") /\ mutex_ = "free"
  /\ nextBufferPtr_' = tmpPtr
  /\ tmpPtr' = NoBuffer
  /\ UNCHANGED <<mutex_, historyVars, logBufferPtr_, writeBuffers_, str, lostCounter_,
                 tmpBuffers_, file, synced, StopVars, calls>>

Fflush ==
  /\ ThreadGoes("drain", "loop")
  /\ tmpBuffers_ = <<>>
  /\ synced' = Len(file)
  /\ UNCHANGED <<mutex_, BufferVars, lostCounter_, tmpBuffers_, tmpPtr, file,
                 StopVars, calls>>

LogThread == \/ LoopTest \/ Lock \/ Block \/ Wait \/ TakeBuffersOnTimeout
             \/ TakeBuffers \/ Write \/ Recycle \/ Fflush

-----------------------------------------------------------------------------
(* ~AsyncFileLogger() *)

DtorGoes(from, to) == dtor = from /\ dtor' = to

SetStop ==
  /\ DtorGoes("alive", IF thread = "none" THEN "collect" ELSE "notify")
  /\ stopFlag_' = TRUE
  /\ UNCHANGED <<mutex_, BufferVars, lostCounter_, ThreadVars, thread, calls>>

NotifyAll ==
  /\ DtorGoes("notify", "join")
  /\ Notify
  /\ UNCHANGED <<mutex_, BufferVars, lostCounter_, ThreadVars, stopFlag_, calls>>

Join ==
  /\ DtorGoes("join", "collect")
  /\ thread = "exited"
  /\ UNCHANGED <<mutex_, BufferVars, lostCounter_, ThreadVars, stopFlag_, thread, calls>>

CollectQueuedOnly ==
  /\ DtorGoes("collect", "write") /\ mutex_ = "free"
  /\ UNCHANGED <<mutex_, BufferVars, lostCounter_, ThreadVars, stopFlag_, thread, calls>>

Collect ==
  /\ DtorGoes("collect", "write") /\ mutex_ = "free"
  /\ writeBuffers_' = IF LengthOf(logBufferPtr_) > 0
                      THEN Append(writeBuffers_, logBufferPtr_) ELSE writeBuffers_
  /\ UNCHANGED <<mutex_, historyVars, logBufferPtr_, nextBufferPtr_, str, lostCounter_,
                 ThreadVars, stopFlag_, thread, calls>>

WriteRest ==
  /\ dtor = "write" /\ writeBuffers_ # <<>>
  /\ file' = file \o str[Head(writeBuffers_)].text
  /\ writeBuffers_' = Tail(writeBuffers_)
  /\ UNCHANGED <<mutex_, historyVars, logBufferPtr_, nextBufferPtr_, str, lostCounter_,
                 tmpBuffers_, tmpPtr, synced, StopVars, thread, calls>>

\* Destroying loggerFilePtr_ closes the file.
Close ==
  /\ DtorGoes("write", "done") /\ writeBuffers_ = <<>>
  /\ synced' = Len(file)
  /\ UNCHANGED <<mutex_, BufferVars, lostCounter_, tmpBuffers_, tmpPtr, file,
                 stopFlag_, thread, calls>>

Destructor == NotifyAll \/ Join \/ Collect \/ WriteRest \/ Close

Next ==
  \/ \E len \in Lens : Output(len)
  \/ Flush \/ StartLogging
  \/ LogThread \/ SpuriousWake \/ Expire
  \/ SetStop \/ Destructor

Spec == Init /\ [][Next]_vars

\* The thread and the destructor run on.  The timer of wait_for is strongly
\* fair: spurious wake-ups do not come more than once a second for ever.
Fairness == WF_vars(LogThread) /\ WF_vars(Destructor) /\ SF_vars(Expire)
FairSpec == Spec /\ Fairness

-----------------------------------------------------------------------------
(* Properties *)

\* Every variable keeps its type.  In particular logBufferPtr_ is never null:
\* the test for that in output() is never true.  The thread holds mutex_
\* exactly while it decides whether to wait.
TypeOK ==
  /\ mutex_ = IF thread \in {"test", "block"} THEN "thread" ELSE "free"
  /\ logBufferPtr_ \in Buffers
  /\ nextBufferPtr_ \in Buffers \cup {NoBuffer}
  /\ tmpPtr \in Buffers \cup {NoBuffer}
  /\ writeBuffers_ \in Seq(Buffers)
  /\ tmpBuffers_ \in Seq(Buffers)
  /\ DOMAIN str = Buffers
  /\ \A b \in Buffers : str[b].length \in Nat /\ str[b].capacity \in Nat
  /\ lostCounter_ \in Nat /\ calls \in Nat /\ synced \in Nat
  /\ stopFlag_ \in BOOLEAN
  /\ thread \in {"none", "loop", "lock", "test", "block", "waiting", "woken",
                 "expired", "drain", "recycle", "exited"}
  /\ dtor \in {"alive", "notify", "join", "collect", "write", "done"}

\* What entry i of accepted and those before it tell of the calls: up to the
\* call of the message, or by as many more as the notice says.
CallsUpTo(i) ==
  IF i = 0 THEN 0
  ELSE IF accepted[i].kind = "message" THEN accepted[i].n
  ELSE accepted[i].n + (IF i = 1 THEN 0 ELSE accepted[i - 1].n)

\* Every call of output() is accepted once and in order, or it was lost and a
\* notice at that very place counts it: a message is that of the first call the
\* entries before it do not tell of.
CallsAccounted ==
  /\ \A i \in DOMAIN accepted :
       IF accepted[i].kind = "message"
       THEN accepted[i].n = CallsUpTo(i - 1) + 1
       ELSE i < Len(accepted) /\ accepted[i + 1].kind = "message"
  /\ CallsUpTo(Len(accepted)) + lostCounter_ = calls

\* The buffers that hold text for the file, in the order they are written in.
Queued == tmpBuffers_ \o writeBuffers_
            \o (IF dtor \in {"write", "done"} THEN <<>> ELSE <<logBufferPtr_>>)
End(b) == begin[b] + Len(str[b].text)

\* The file and the queued buffers hold what has been accepted: each begins
\* where the one before it ends.
BuffersHoldTheRest ==
  LET q == Queued IN
  /\ file = SubSeq(accepted, 1, Len(file))
  /\ \A i \in DOMAIN q :
       /\ begin[q[i]] = IF i = 1 THEN Len(file) ELSE End(q[i - 1])
       /\ str[q[i]].text = SubSeq(accepted, begin[q[i]] + 1, End(q[i]))
  /\ Len(accepted) = IF q = <<>> THEN Len(file) ELSE End(Last(q))

\* Every message given to output() is in the file or in one queued buffer, in
\* call order, or counted in a notice or in lostCounter_.  Swapping, recycling
\* and draining buffers lose, duplicate and reorder nothing.
StreamAccounting == CallsAccounted /\ BuffersHoldTheRest

\* When the destructor has returned, everything accepted was given to fwrite()
\* and the file was closed: also what the thread had left behind when it saw
\* stopFlag_.  What calls of stdio do that fail is LoggerFile's.
DestructorWritesAll == dtor = "done" => file = accepted /\ synced = Len(file)

\* The callers, the thread and the destructor together do what MessageLog
\* promises: each step is one of its steps or changes nothing it speaks about.
Log == INSTANCE MessageLog WITH lost <- lostCounter_
LogSpec == Log!Spec

\* No buffer plays two roles at once: the one callers append to, the one kept
\* for them, the ones queued, and those the thread writes and clears without
\* holding mutex_.
BuffersDistinct ==
  LET roles == <<logBufferPtr_>> \o writeBuffers_ \o tmpBuffers_ \o <<tmpPtr, nextBufferPtr_>>
  IN  dtor \notin {"write", "done"} =>
        \A i, j \in DOMAIN roles : roles[i] = roles[j] /\ i # j => roles[i] = NoBuffer

\* The memory for logs is bounded: at most QueueLimit + 1 buffers are queued
\* (output, flush and the timeout all queue, only output tests the limit), as
\* many are being written.  A string grows only where it is too small for a notice
\* and a message, although the notice is appended without a test of the capacity,
\* and then at most to twice what it had.
MemoryBounded ==
  /\ dtor = "alive" => Len(writeBuffers_) <= QueueLimit + 1
  /\ Len(tmpBuffers_) <= QueueLimit + 1
  /\ \A b \in Buffers : str[b].capacity <= 2 * (BufSize + NoticeLen - 1)

MessagesIn(s) == {e.n : e \in {x \in Elements(s) : x.kind = "message"}}
Durable == MessagesIn(SubSeq(file, 1, synced))
InMemory == MessagesIn(accepted) \ Durable

\* Once the thread runs, an accepted message gets through fwrite() and fflush(),
\* also when no further message arrives and nobody calls flush(): the timeout of
\* wait_for sees to it.
AcceptedIsWritten ==
  \A n \in 1..MaxCalls : (n \in InMemory /\ thread # "none") ~> n \in Durable

\* The destructor returns although it stores stopFlag_ and notifies without
\* mutex_ and the thread may miss both: the timeout ends the wait.
DestructorEnds == dtor = "notify" ~> dtor = "done"

\* "Flush data from memory buffer to the log file.": when flush() returns,
\* what was in the log buffer is in the file.
FlushReachesFile ==
  [][Flush /\ thread # "none" =>
              \A i \in DOMAIN str[logBufferPtr_].text :
                \E k \in DOMAIN file' : file'[k] = str[logBufferPtr_].text[i]]_vars
=============================================================================
