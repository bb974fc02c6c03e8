----------------------------- MODULE LoggerFile -----------------------------
(***************************************************************************)
(* xiao::AsyncFileLogger::LoggerFile: the log thread appends chunks to one *)
(* file; when that is too long it is renamed to a name made of the second  *)
(* the logger was created and a sequence number, and a new one is opened.  *)
(* Of the renamed files the newest maxFiles_ are kept.  Processes come and *)
(* go, or crash, over the same directory; calls to the file system fail.   *)
(*                                                                         *)
(* A chunk, one buffer given to writeLog(), is the number of that call.    *)
(* The clock is whatever Date::date() returns when a logger is created.    *)
(* A chunk of which a failed call of stdio has lost a part counts as lost, *)
(* whatever the file has of it.                                            *)
(*                                                                         *)
(* fileSeq_ is static: every logger of the process counts on with it, each *)
(* on its own thread and without a lock.                                   *)
(***************************************************************************)
EXTENDS Integers, FiniteSets, SequencesExt

CONSTANTS
  Dates,        \* seconds, as they stand in a file name: with two digits of
                \* the year, they start again when the century does
  MaxSeq,       \* the 1000000 of switchLog()
  SizeLimit,    \* sizeLimit_, in chunks
  Retentions,   \* values of maxFiles_; 0 keeps every file
  MaxChunks,    \* bound on the calls of writeLog()
  MaxRestarts,  \* bound on the starts of further processes
  MaxFailures,  \* bound on the failures of the file system
  MaxOthers     \* bound on the rotations of other loggers of the process

ASSUME DatesAssumption == Dates \subseteq Nat
ASSUME LimitsAssumption ==
  /\ MaxSeq \in Nat \ {0} /\ SizeLimit \in Nat /\ Retentions \subseteq Nat
  /\ MaxChunks \in Nat /\ MaxRestarts \in Nat /\ MaxFailures \in Nat /\ MaxOthers \in Nat

VARIABLES
  current,          \* the chunks in the file <base><ext>
  rotated,          \* the renamed files: chunks by name
  unflushed,        \* chunks at the end of current that only stdio may hold
  fp_,              \* whether the log file is open
  fileSeq_, creationDate_, maxFiles_, switchOnLimitOnly_,
  filenameQueue_,
  unread,           \* names initFilenameQueue() has not read yet
  dropped,          \* history: chunks that failed calls of stdio lost, of this process
  pc,               \* what the log thread does next; "none" without a logger
  closing,          \* whether the destructor has been called
  fresh,            \* whether this process has had no logger yet
  others,           \* values of fileSeq_ that other loggers' threads have loaded for ++
  written, restarts, failures, rotations,
  orderly,          \* whether every name given so far is later than the last
  phantoms,         \* names in filenameQueue_ of renames that failed
  leftovers         \* renamed files that filenameQueue_ has lost track of

loggerVars == <<creationDate_, maxFiles_, switchOnLimitOnly_>>
otherVars == <<others, rotations>>
countVars == <<written, restarts, failures>>
vars == <<current, rotated, unflushed, dropped, fp_, fileSeq_, loggerVars, filenameQueue_,
          unread, pc, closing, fresh, otherVars, countVars, orderly, phantoms, leftovers>>

\* A name is <<date, sequence number>>; both have a fixed width in the file
\* name, so the order of the names as strings is this one.
Names == Dates \X (0..(MaxSeq - 1))
Before(m, n) == m[1] < n[1] \/ (m[1] = n[1] /\ m[2] < n[2])
RotatedName == <<creationDate_, fileSeq_ % MaxSeq>>

Init ==
  /\ current = <<>> /\ rotated = <<>> /\ unflushed = 0 /\ dropped = {}
  /\ fp_ = FALSE /\ fileSeq_ = 0
  /\ creationDate_ = 0 /\ maxFiles_ = 0 /\ switchOnLimitOnly_ = FALSE
  /\ filenameQueue_ = <<>> /\ unread = {}
  /\ pc = "none" /\ closing = FALSE /\ fresh = TRUE
  /\ others = {} /\ rotations = 0
  /\ written = 0 /\ restarts = 0 /\ failures = 0
  /\ orderly = TRUE /\ phantoms = 0 /\ leftovers = {}

\* A call to the file system works, or fails while failures are left.
Outcome(ok) ==
  /\ ok \/ failures < MaxFailures
  /\ failures' = IF ok THEN failures ELSE failures + 1

-----------------------------------------------------------------------------
(* The constructor, which writeLogToFile() calls for the first chunk.      *)

ConstructNumbering ==
  /\ pc = "none" /\ written < MaxChunks
  /\ \E d \in Dates, k \in Retentions, b \in BOOLEAN, ok \in BOOLEAN :
       /\ creationDate_' = d /\ maxFiles_' = k /\ switchOnLimitOnly_' = b
       /\ Outcome(ok) /\ fp_' = ok
       /\ orderly' = (orderly /\ IF fresh THEN d > creationDate_ ELSE d >= creationDate_)
       /\ unread' = IF k > 0 THEN DOMAIN rotated ELSE {}
       /\ pc' = IF k > 0 THEN "scan" ELSE "write"
  /\ filenameQueue_' = <<>> /\ phantoms' = 0 /\ leftovers' = {}
  /\ closing' = FALSE /\ fresh' = FALSE /\ fileSeq_' = 0
  /\ UNCHANGED <<otherVars, current, rotated, unflushed, dropped, written, restarts>>

\* Read the date and open(): a failure leaves fp_ null.
Construct ==
  /\ pc = "none" /\ written < MaxChunks
  /\ \E d \in Dates, k \in Retentions, b \in BOOLEAN, ok \in BOOLEAN :
       /\ creationDate_' = d /\ maxFiles_' = k /\ switchOnLimitOnly_' = b
       /\ Outcome(ok) /\ fp_' = ok
       /\ orderly' = (orderly /\ IF fresh THEN d > creationDate_ ELSE d >= creationDate_)
       /\ unread' = IF k > 0 THEN DOMAIN rotated ELSE {}
       /\ pc' = IF k > 0 THEN "scan" ELSE "write"
  /\ filenameQueue_' = <<>> /\ phantoms' = 0 /\ leftovers' = {}
  /\ closing' = FALSE /\ fresh' = FALSE
  /\ UNCHANGED <<otherVars, current, rotated, unflushed, dropped, fileSeq_, written, restarts>>

\* The one that i - 1 others come before is the i-th.
Sorted(names) ==
  [i \in 1..Cardinality(names) |->
     CHOOSE n \in names : Cardinality({m \in names : Before(m, n)}) = i - 1]
Earliest(names) == CHOOSE n \in names : \A m \in names : m = n \/ Before(n, m)
Without(files, n) == [m \in DOMAIN files \ {n} |-> files[m]]

\* opendir() fails, or stat() of one file.
CannotRead ==
  /\ pc = "scan" /\ unread # {}
  /\ \E names \in {{n} : n \in unread} \cup (IF unread = DOMAIN rotated THEN {unread} ELSE {}) :
       unread' = unread \ names /\ leftovers' = leftovers \cup names
  /\ Outcome(FALSE)
  /\ UNCHANGED <<otherVars, current, rotated, unflushed, dropped, fp_, fileSeq_, loggerVars,
                 filenameQueue_, pc, closing, fresh, written, restarts, orderly, phantoms>>

\* One file of the directory, in any order.  The heap keeps the latest
\* maxFiles_ names; sorting it at the end is done here all along.
Scan ==
  /\ pc = "scan"
  /\ \E n \in unread :
       LET names == ToSet(filenameQueue_) \cup {n}
           first == Earliest(names)
       IN  /\ unread' = unread \ {n}
           /\ IF Cardinality(names) <= maxFiles_
              THEN filenameQueue_' = Sorted(names) /\ UNCHANGED <<rotated, leftovers, failures>>
              ELSE /\ filenameQueue_' = Sorted(names \ {first})
                   /\ \E ok \in BOOLEAN :
                        /\ Outcome(ok)
                        /\ rotated' = IF ok THEN Without(rotated, first) ELSE rotated
                        /\ leftovers' = IF ok THEN leftovers ELSE leftovers \cup {first}
  /\ UNCHANGED <<otherVars, current, unflushed, dropped, fp_, fileSeq_, loggerVars, pc, closing,
                 fresh, written, restarts, orderly, phantoms>>

ScanDone ==
  /\ pc = "scan" /\ unread = {}
  /\ pc' = "write"
  /\ UNCHANGED <<otherVars, current, rotated, unflushed, dropped, fp_, fileSeq_, loggerVars,
                 filenameQueue_, unread, closing, fresh, countVars, orderly, phantoms, leftovers>>

-----------------------------------------------------------------------------
(* writeLogToFile() with a logger, flush() and switchLog() *)

\* The chunks of the current file that stdio has passed on for certain.
Passed == Len(current) - unflushed

\* A call of stdio that may have to pass the last held chunks of s on to the
\* file.  One that fails may lose some last ones of these; of the others it has
\* passed some on, and may hold the rest still.
Stdio(ok, s, held) ==
  /\ Outcome(ok)
  /\ \E k \in (IF ok THEN Len(s) ELSE Len(s) - held)..Len(s) :
       /\ current' = SubSeq(s, 1, k)
       /\ dropped' = dropped \cup {s[i] : i \in (k + 1)..Len(s)}

\* Without a file the chunk is dropped.  Nobody looks at what fwrite() returns.
\* When ftell() fails, the number it returns is beyond every limit, and a chunk
\* that was lost may have left a part that counts.
Write ==
  /\ pc \in {"write", "ready"} /\ written < MaxChunks
  /\ written' = written + 1
  /\ IF fp_
     THEN \E ok \in BOOLEAN :
            /\ Stdio(ok, Append(current, written'), unflushed + 1)
            /\ unflushed' = Len(current') - Passed
            /\ \/ pc' = IF Len(current') > SizeLimit THEN "close" ELSE "ready"
               \/ ~ok /\ pc' = "close"
     ELSE pc' = "ready" /\ UNCHANGED <<current, unflushed, dropped, failures>>
  /\ UNCHANGED <<otherVars, rotated, fp_, fileSeq_, loggerVars, filenameQueue_, unread, closing,
                 fresh, restarts, orderly, phantoms, leftovers>>

\* fflush(), whose result is not looked at either.
Flush ==
  /\ pc = "ready" /\ fp_
  /\ \E ok \in BOOLEAN :
       /\ Stdio(ok, current, unflushed)
       /\ unflushed' = IF ok THEN 0 ELSE Len(current') - Passed
  /\ UNCHANGED <<otherVars, rotated, fp_, fileSeq_, loggerVars, filenameQueue_, unread, pc, closing,
                 fresh, written, restarts, orderly, phantoms, leftovers>>

\* fclose() in switchLog() or, for a file that stays as it is, in ~LoggerFile().
Close ==
  /\ pc = "close"
  /\ \E ok \in BOOLEAN : Stdio(ok, current, unflushed)
  /\ fp_' = FALSE /\ unflushed' = 0
  /\ pc' = IF closing /\ switchOnLimitOnly_ THEN "none" ELSE "rename"
  /\ UNCHANGED <<otherVars, rotated, fileSeq_, loggerVars, filenameQueue_, unread, closing, fresh,
                 written, restarts, orderly, phantoms, leftovers>>

AfterSwitch == IF closing THEN "none" ELSE "reopen"
TooManyByOne(queue) == Len(queue) > maxFiles_ + 1
TooMany(queue) == Len(queue) > maxFiles_

\* rename(), which replaces a file of that name.  Its result is not looked at:
\* the name is queued.
Rename ==
  /\ pc = "rename"
  /\ fileSeq_' = fileSeq_ + 1
  /\ orderly' = (orderly /\ fileSeq_ < MaxSeq)
  /\ \E ok \in BOOLEAN :
       /\ Outcome(ok)
       /\ IF ok
          THEN /\ rotated' = [n \in DOMAIN rotated \cup {RotatedName} |->
                                IF n = RotatedName THEN current ELSE rotated[n]]
               /\ current' = <<>> /\ UNCHANGED phantoms
          ELSE phantoms' = phantoms + 1 /\ UNCHANGED <<rotated, current>>
  /\ filenameQueue_' = IF maxFiles_ > 0 THEN Append(filenameQueue_, RotatedName)
                       ELSE filenameQueue_
  /\ pc' = IF maxFiles_ > 0 /\ TooMany(filenameQueue_') THEN "delete" ELSE AfterSwitch
  /\ UNCHANGED <<otherVars, unflushed, dropped, fp_, loggerVars, unread, closing, fresh, written,
                 restarts, leftovers>>

DeleteNewFile ==
  /\ pc = "delete"
  /\ filenameQueue_' = Front(filenameQueue_)
  /\ rotated' = Without(rotated, Last(filenameQueue_))
  /\ pc' = IF TooMany(filenameQueue_') THEN "delete" ELSE AfterSwitch
  /\ UNCHANGED <<otherVars, current, unflushed, dropped, fp_, fileSeq_, loggerVars, unread, closing,
                 fresh, written, restarts, failures, orderly, phantoms, leftovers>>

\* The loop of deleteOldFiles(); removing a file that is not there fails too.
DeleteOldFile ==
  /\ pc = "delete"
  /\ filenameQueue_' = Tail(filenameQueue_)
  /\ \E ok \in BOOLEAN :
       /\ Outcome(ok)
       /\ rotated' = IF ok THEN Without(rotated, Head(filenameQueue_)) ELSE rotated
       /\ leftovers' = IF ok THEN leftovers ELSE leftovers \cup {Head(filenameQueue_)}
  /\ pc' = IF TooMany(filenameQueue_') THEN "delete" ELSE AfterSwitch
  /\ UNCHANGED <<otherVars, current, unflushed, dropped, fp_, fileSeq_, loggerVars, unread, closing,
                 fresh, written, restarts, orderly, phantoms>>

ReopenTruncating ==
  /\ pc = "reopen" /\ pc' = "ready"
  /\ \E ok \in BOOLEAN : Outcome(ok) /\ fp_' = ok
  /\ current' = <<>>
  /\ UNCHANGED <<otherVars, rotated, unflushed, dropped, fileSeq_, loggerVars, filenameQueue_,
                 unread, closing, fresh, written, restarts, orderly, phantoms, leftovers>>

Reopen ==
  /\ pc = "reopen" /\ pc' = "ready"
  /\ \E ok \in BOOLEAN : Outcome(ok) /\ fp_' = ok
  /\ UNCHANGED <<otherVars, current, rotated, unflushed, dropped, fileSeq_, loggerVars,
                 filenameQueue_, unread, closing, fresh, written, restarts, orderly, phantoms,
                 leftovers>>

-----------------------------------------------------------------------------
(* ++fileSeq_ in the switchLog() of another logger of the process, as the  *)
(* load and the store it is: one that comes late sets fileSeq_ back.       *)

LoggerUnchanged ==
  UNCHANGED <<current, rotated, unflushed, dropped, fp_, loggerVars, filenameQueue_, unread, pc,
              closing, fresh, countVars, phantoms, leftovers>>

OtherLoads ==
  /\ rotations < MaxOthers /\ rotations' = rotations + 1
  /\ others' = others \cup {fileSeq_}
  /\ UNCHANGED <<fileSeq_, orderly>> /\ LoggerUnchanged

OtherStores ==
  \E s \in others :
    /\ fileSeq_' = s + 1 /\ others' = others \ {s}
    /\ orderly' = (orderly /\ s + 1 >= fileSeq_)
    /\ UNCHANGED rotations /\ LoggerUnchanged

-----------------------------------------------------------------------------
(* ~LoggerFile() and the end of the process *)

\* Unless switchOnLimitOnly_, the file gets a name of its own.
Destroy ==
  /\ pc = "ready"
  /\ closing' = TRUE
  /\ pc' = IF fp_ THEN "close" ELSE "none"
  /\ UNCHANGED <<otherVars, current, rotated, unflushed, dropped, fp_, fileSeq_, loggerVars,
                 filenameQueue_, unread, fresh, countVars, orderly, phantoms, leftovers>>

\* The process ends, orderly or not, and the next one starts: what stdio has
\* not written yet is lost.
Restart ==
  /\ restarts < MaxRestarts
  /\ restarts' = restarts + 1
  /\ \E k \in Passed..Len(current) : current' = SubSeq(current, 1, k)
  /\ unflushed' = 0 /\ dropped' = {} /\ fp_' = FALSE /\ fileSeq_' = 0
  /\ maxFiles_' = 0 /\ switchOnLimitOnly_' = FALSE
  /\ filenameQueue_' = <<>> /\ unread' = {} /\ phantoms' = 0 /\ leftovers' = {}
  /\ pc' = "none" /\ closing' = FALSE /\ fresh' = TRUE /\ others' = {}
  /\ UNCHANGED <<rotations, rotated, creationDate_, written, failures, orderly>>

Next ==
  \/ Construct \/ CannotRead \/ Scan \/ ScanDone
  \/ Write \/ Flush \/ Close \/ Rename \/ DeleteOldFile \/ Reopen
  \/ OtherLoads \/ OtherStores
  \/ Destroy \/ Restart

Spec == Init /\ [][Next]_vars

-----------------------------------------------------------------------------
(* Properties *)

\* Every variable keeps its type.  switchLog() closes the file before the
\* names are looked at, and stdio never holds more than the file has.
TypeOK ==
  /\ current \in Seq(Nat) /\ unflushed \in 0..Len(current)
  /\ DOMAIN rotated \subseteq Names
  /\ \A n \in DOMAIN rotated : rotated[n] \in Seq(Nat)
  /\ dropped \subseteq Nat /\ fp_ \in BOOLEAN
  /\ ~fp_ => unflushed = 0
  /\ fileSeq_ \in Nat /\ creationDate_ \in Dates \cup {0} /\ maxFiles_ \in Nat
  /\ switchOnLimitOnly_ \in BOOLEAN /\ closing \in BOOLEAN /\ fresh \in BOOLEAN
  /\ filenameQueue_ \in Seq(Names) /\ unread \subseteq Names
  /\ pc \in {"none", "scan", "write", "ready", "close", "rename", "delete", "reopen"}
  /\ pc = "close" => fp_
  /\ pc \in {"none", "rename", "delete", "reopen"} => ~fp_
  /\ others \subseteq Nat /\ rotations \in Nat
  /\ written \in Nat /\ restarts \in Nat /\ failures \in Nat
  /\ orderly \in BOOLEAN /\ phantoms \in Nat /\ leftovers \subseteq Names

Increasing(s) == \A i, j \in DOMAIN s : i < j => s[i] < s[j]
AllLess(s, t) == \A i \in DOMAIN s, j \in DOMAIN t : s[i] < t[j]

\* Reading the renamed files in the order of their names and then the current
\* one gives the chunks in the order they were written, none twice, through
\* rotations, crashes, restarts and failed calls.  This is as long as names
\* come in order: no process starts in the second of an earlier one, the clock
\* is not set back, the two digits of the year do not start again, no process
\* rotates MaxSeq times, and no other logger's increment of fileSeq_ sets it
\* back.
NameOrder ==
  /\ Increasing(current)
  /\ \A n \in DOMAIN rotated : Increasing(rotated[n])
  /\ orderly =>
       /\ \A n \in DOMAIN rotated : AllLess(rotated[n], current)
       /\ \A m, n \in DOMAIN rotated : Before(m, n) => AllLess(rotated[m], rotated[n])

InCurrent == {current[i] : i \in 1..Passed}
InFile(n) == {rotated[n][i] : i \in DOMAIN rotated[n]}
Durable == InCurrent \cup UNION {InFile(n) : n \in DOMAIN rotated}

\* A chunk that stdio has passed on disappears in one way only, not by calls of
\* stdio that fail later either: retention removes the file it is in, and then
\* maxFiles_ later files have been there or should have been, their renames
\* having failed.  Again as long as names come in order; otherwise a rename may
\* replace an earlier file.
OnlyRetentionLoses ==
  [][orderly' => \A c \in Durable \ Durable' :
        \E n \in DOMAIN rotated :
          /\ c \in InFile(n) /\ maxFiles_ > 0
          /\ Cardinality({m \in DOMAIN rotated : Before(n, m)}) + phantoms >= maxFiles_]_vars

\* Between calls of the logger there are at most maxFiles_ renamed files,
\* not counting those that could not be read or removed.
RetentionBound ==
  pc \in {"write", "ready"} /\ maxFiles_ > 0 =>
    Cardinality(DOMAIN rotated \ leftovers) <= maxFiles_
=============================================================================
