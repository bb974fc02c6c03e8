# xiao: specifications, model checking and proofs

`xiao` is a C++ utility library in the style of trantor: a thread pool, an
asynchronous logger, a lock-free queue, a message buffer, and a set of pure
helpers (dates, strings, hashes). This directory holds TLA+ modules that model
its stateful parts, TLC configurations that check them on small instances, and
theorems about them that TLAPS checks for every value of the constants.

Check one model with `tlc -config AsyncFileLogger.cfg MCAsyncFileLogger`, and the
proofs of a module with `tlapm ConcurrentTaskQueue_proofs.tla`. `PROJECT.json`
maps every definition to the lines it models, and lists the runs, the mutants
that show each property can fail, the hazards and the theorems.

## 1. Inventory

| Component | Source (`src/xiao/`) | State | Operations | Concurrency |
|---|---|---|---|---|
| Task pool | `utils/ConcurrentTaskQueue.*`, `utils/TaskQueue.h` | `taskQueue_`, `stop_`, `taskMutex_`, `taskCond_`, `threads_` | `runTaskInQueue`, `syncTaskInQueue`, `stop`, `queueFunc`, `getTaskCount` | any callers, a pool of workers, one stopper |
| Log writer | `utils/AsyncFileLogger.*` | `logBufferPtr_`, `nextBufferPtr_`, `writeBuffers_`, `tmpBuffers_`, `lostCounter_`, `stopFlag_` | `output`, `flush`, `startLogging`, `logThreadFunc`, destructor | any callers, one thread, the destructor |
| Log files | `AsyncFileLogger::LoggerFile` | `fp_`, the directory, `filenameQueue_`, the static `fileSeq_` | open, `writeLog`, `switchLog`, `deleteOldFiles`, `initFilenameQueue`, destructor | one log thread each, but `fileSeq_` is that of all loggers; process restarts |
| MPSC queue | `utils/LockFreeQueue.h` | `head_`, `tail_`, the linked nodes | `enqueue`, `dequeue`, `empty`, destructor | any producers, one consumer |
| Message buffer | `utils/MsgBuffer.*` | `head_`, `tail_`, `initCap_`, `buffer_` | append, prepend, retrieve, unwrite, `readFd`, ... | none: one owner |
| Object pool | `utils/ObjectPool.h` | `objs_` | `getObject`, the deleter | any threads; the pool may die first |
| Log front end | `utils/Logger.*` | level, default functions, two tables of functions by index, `displayLocalTime`, per-thread time cache | `Logger`, `RawLogger`, their destructors, the setters | any threads |
| spdlog registry | `utils/Logger.cpp` | the map of loggers | registration, lookup | does not compile |
| Log formatting | `utils/LogStream.*` | fixed buffer, overflow string | `append`, `<<` | none: one statement |
| Dates, strings | `utils/Date.*`, `Utilities.*`, `Funcs.h` | a number of microseconds; none | arithmetic, reading and writing, UTF-8, `splitString` | none |
| Hashes | `utils/crypto/*` | one context: buffer, count, chaining value | `init`, `update`, `final` | none |

How they interact: a `Logger` object formats one statement through a
`LogStream` and hands the text to an output function, usually
`AsyncFileLogger::output`; `~Logger` calls `flush` for errors. `output` appends
to a buffer in memory; the log thread writes full buffers to a `LoggerFile`,
which rotates. `TaskQueue::syncTaskInQueue` wraps a task around a promise and
submits it to any queue, here `ConcurrentTaskQueue`. `MpscQueue` and
`MsgBuffer` are used by the network code, of which this repository holds an
interface (`AsyncStream.h`) and empty files (`EventLoop.cpp`, `TimingWheel.*`).

What is hard, and what makes each part correct:

- **Task pool.** Workers test, sleep and wake while clients push; a task may
  submit to its own pool and wait; `stop()` stores its flag and notifies without
  the mutex. Correct: no task lost or run twice, FIFO start, no lost wake-up, a
  synchronous call returns only after its task ran, `stop()` ends the workers.
- **Log writer.** A message travels through three kinds of buffers under four
  actors, partly outside the mutex; buffers are recycled; the queue is bounded
  and counts what it drops. Correct: every call is accounted for, in order; no
  buffer has two roles; memory is bounded; accepted messages reach the disk; the
  destructor writes the rest and returns.
- **MPSC queue.** Publication in two steps against a consumer that deletes.
  Correct: order, no loss, no access to a deleted node, no leak.
- **Message buffer.** Offsets, compaction, growth and prepending in every order.
  Correct: offsets in bounds, a byte queue as seen from outside, bounded memory,
  integers that hosts of either byte order read alike.
- **Log files.** Names by second and sequence number, a number that several
  loggers count without a lock, restarts, failures of the file system, of which the
  code looks at few. Correct: no text that has reached the disk is lost but by
  retention, and that takes the oldest.
- **Writer and files together.** A process ends at any moment, between buffers,
  stdio and files. Correct: the files, read in the order of their names, are the
  log, with holes only where a call of stdio failed, complete after an orderly end;
  every loss has a named cause.
- **Object pool.** A deleter that outlives the pool. Correct: no object is
  handed out twice, none is freed twice.
- **Log front end.** Two tables filled at different times, a time kept per
  thread, settings changed by other threads in the middle of a statement.
  Correct: an error is flushed where it was written, a line shows its own time.
- **Log formatting and text.** Two places for one text, and room tested for
  before the length is known; the least number of a type; characters of one, two
  and three bytes. Correct: the text is what was streamed, numbers and characters
  read back, nothing is written past the buffer.
- **Hashes.** A message in pieces of any length, blocks that end where a piece
  ends, counters that carry; words, lanes and variables that are overwritten in
  place. Correct: the digest depends on the message alone and is the standard's.
- **Dates.** A text is taken apart twice, and log files are named and sorted by one.
  Correct: it reads back, tells its date, and sorts as dates do, but where the clocks
  are put back or two digits of the year start again.

## 2. Modules

| Module | Role |
|---|---|
| `TaskPool` | abstract: tasks accepted, started in order, finished once |
| `ConcurrentTaskQueue` | the pool, at the grain of lock, test, sleep and notify; refines `TaskPool` |
| `ConcurrentTaskQueue_proofs` | its six theorems |
| `MessageLog` | abstract: messages accepted or lost, written in order and without gaps |
| `AsyncFileLogger` | the log writer with the identity of its buffers; refines `MessageLog` |
| `LoggingPipeline`, `LoggingPipeline_proofs` | `AsyncFileLogger` composed with `LoggerFile`, over restarts; six theorems about the writer, six about the composition |
| `MpscQueue`, `MpscQueue_proofs` | the queue at the grain of single atomic accesses; five theorems |
| `ByteQueue` | abstract: what a message buffer does to the readable bytes, a log statement to its text |
| `MsgBuffer`, `MsgBuffer_proofs` | the buffer as functions from buffer to buffer and a machine that calls them in any order |
| `NetworkBytes` | the integers put into a buffer and taken out, on hosts of either byte order; with `MsgBuffer` five theorems, in `MsgBuffer_proofs` |
| `LoggerFile`, `LoggerFile_proofs` | rotation and retention of the log files, over crashes, restarts, failing calls and other loggers; four theorems |
| `ObjectPool`, `ObjectPool_proofs` | getting, sharing and dropping objects and the pool, on several threads; four theorems |
| `Logger`, `Logger_proofs` | log statements of several threads: which functions they call, which time they show; four theorems |
| `NumberFormat` | how the log stream formats integers and addresses, as operators |
| `Utf` | the conversions between UTF-8 and UTF-16, as operators |
| `LogStream` | the text of one statement, which refines `ByteQueue` too |
| `Texts_proofs` | about `NumberFormat`, `Utf` and `LogStream`; five theorems |
| `Hashing` | five hash functions, from pieces of a message to compressed blocks |
| `Compression` | the compression functions of SHA-1 and SHA-3 beside those of their standards |
| `DateText` | a date and its texts, as operators |
| `Dates` | the text of a date for databases read back, over rounding and adding |
| `MC...` | the instances for TLC; `MCSequential` puts the sequential modules side by side |

Definitions placed just before the one they resemble (`TakeNewest` before
`Take`, `QueueFullLate` before `QueueFull`, ...) are mutated forms: nothing
refers to them, and `PROJECT.json` pairs each with the property it breaks.

### ConcurrentTaskQueue

`pc[w]` is where a worker is in `queueFunc`: `loop` (the test of `stop_`),
`lock`, `test` (the while condition, holding the mutex), `block` (about to
sleep), `wait`, `run` (in `r()`), `get` and `body` (a body that itself called
`syncTaskInQueue`), `set` (between a task's return and `set_value`), `exit`.
`waiters` are the threads asleep on `taskCond_`; a worker at `wait` outside this
set was notified, or woke without reason, and competes for the mutex. Critical
sections that read nothing another thread changes without the mutex are one
action (`Push`); the worker's is split at `block` because `stop_` changes
without the mutex. `Child` says which task's body submits which other task and
waits for it.

### AsyncFileLogger

`output` and `flush` hold `mutex_` throughout and do not look at `stopFlag_`:
one action each. `logThreadFunc` is split at each point where it takes or
leaves the mutex and at the test of the plain `stopFlag_`. A buffer is an
identity with a string; `NextLog` and `SwappedStr` are `swapBuffer()`. A text is
a sequence of entries, a message (named by the number of its call) or a notice
of `k` lost ones. `xLogFlushTimeout` is `Expire`; `wait_for` may report a
timeout when a notification has just come, so it is enabled at `woken` too.
`file` is what was given to `fwrite`, `synced` how much of it `fflush` or `fclose`
was called for; what stdio makes of that is `LoggerFile`'s.
`LogSpec` maps `accepted`, `file` and `synced` to those of `MessageLog`: `output`
is its `Accept` or `Lose`, the write of a buffer its `Write`, the `fflush` its
`Sync`, and every hand-over of buffers a step that leaves it alone.

### MpscQueue

One action per atomic access, with the thread-local work around it: `Exchange`,
`Link`, `LoadNext`, `Take`. Nodes are addresses that are allocated, deleted and
allocated again. `head_` and `next_` are treated as sequentially consistent: the
consumer reads only `next_`, whose release store publishes the node's contents,
and no step depends on the order of accesses to two of them.

### MsgBuffer

A buffer is a record `head, tail, initCap, size, buffer`, and each member
function an operator on it. Readers and writers of integers are `append`,
`addInFront`, `peek` and `retrieve` with 1 to 8 bytes. The machine calls every
function with every input, within `MaxReadable`. `NetworkBytes` says what the
integer functions do around that: which bytes a host of either order hands to
`append` and `addInFront`, and which number it makes of those at `peek`.

### LoggerFile

`pc` is what the log thread does next: `none` (no `LoggerFile` object), `scan`
(in `initFilenameQueue`), `write` and `ready` (between two calls, the first of
them still owed to the constructor), `close`, `rename`, `delete` and `reopen` (the
four parts of `switchLog`). The directory is `current` and `rotated`, a function from
names to the chunks in the file; a name is a date and a sequence number, compared
as the fixed-width strings of the code are. `unflushed` counts the chunks only
stdio may hold: `Restart` loses any part of them. Every call of the file system
may fail (`Outcome`). A call of stdio that fails (`Stdio`) may lose any last ones
of the chunks stdio holds, and `fwrite` the new one; it may have passed any first
ones on. A chunk of which only a part is lost counts as lost, whatever the file has
of it, so the chunks in a file are those that are whole there. A process may make
one `LoggerFile` after another: `Destroy` sets `closing`, `Construct` resets it.
`dropped`, `orderly`, `phantoms` and `leftovers` are history variables: the chunks
that failed calls of stdio lost in this process, whether names have come in order,
how many queued names no file has, and which files the queue has lost track of. What
the code does with them:

- The results of `fwrite`, `fflush` and `fclose` are not looked at
  (`AsyncFileLogger.cpp:196`, `:204`, `:219`): while the disk is full chunks are
  lost with the file open, and the log goes on behind the hole. `ftell`, when it
  fails, returns a number beyond every limit, and the file is rotated.

- The result of `rename` is not looked at (`AsyncFileLogger.cpp:233`): the name
  is queued all the same, and a real file is removed for it later. Hence
  `phantoms` in `OnlyRetentionLoses`.
- After a failed `fopen` everything is dropped without notice, and `switchLog`,
  the only place that opens the file again, is no longer called.
- The destructor may rotate an empty file, which takes a place of retention.
- The scan takes any file whose name has the right length, prefix and extension
  for one of its own. The model has no foreign files.
- `fileSeq_` is static and incremented without a lock (`AsyncFileLogger.cpp:227`).
  Another logger of the process, with files of another name, is modelled as what
  it does to `fileSeq_`: `OtherLoads` and, any time later, `OtherStores`. A late
  store sets the number back; `orderly` then becomes false and a rename may replace
  an earlier file.
- The date in a name has two digits of the year: the names of a new century come
  before those of the old one, which is a `Construct` with an earlier date.

### LoggingPipeline

One buffer written by `writeLogToFile` is one chunk of the `LoggerFile`, and all
work in the `LoggerFile` happens before that call returns: the step of the log
thread (or of the destructor) that writes a buffer is joined with `Write` of
`LoggerFile`, and its next step waits for `pc = "ready"`. `Restart` ends the
process anywhere and makes a new logger over the same directory. Calls are
numbered through all processes, so that text of an earlier one is told from that
of a later one. What the composition shows and neither part does:

- A file that retention could not remove stays, while later ones are removed: the
  files on disk then have a hole in the middle. `FilesReadAsLog` leaves such
  `leftovers` out of what must be without gaps, not out of what must be in order.
- An orderly end loses nothing, but for messages counted since the last notice:
  `lostCounter_` is never written out by the destructor. `ShutdownIsComplete` adds
  it.

### ObjectPool

`getObject` is split at the mutex: `Pop`, `Allocate` or nothing, `Wrap`. The
deleter, which runs on the thread that drops the last share of an object, is
`LockWeakPtr` and then `PushBack` and `ReleaseSelf`, or `Delete`. `holders` and
`owners` are the threads that have a `std::shared_ptr` to an object or to the
pool; the pool dies when its last owner or the last deleter with a reference of
its own lets go. It has no destructor: the objects in `objs_` are then never
deleted, and the model keeps them as `leaked`.

### Logger

A statement is the temporary of a `LOG_...` macro: `Construct` (which formats the
digits of the time), `Label` (which tests `displayLocalTime` a second time),
`LookUp` and `Call` of the output function, `LookUpFlush` and `CallFlush` for errors,
`End`. The level
is tested by the macro, so the guard is in `Construct`; the levels below `xInfo`
behave like it and are left out. Functions are named by where they write, and one
destination's two functions are set together, as `setOutputFunction` does.
`dangling` and `danglingFlush` are the threads whose reference into the vector of
output or of flush functions has died because another thread's look-up made it grow
(`Logger.h:164`, `:174`, without a lock); `Call` and `CallFlush` then call anything.
`late` are the indexes used before and not
yet flushed when the defaults were replaced; `switched` the threads that keep a
time formatted before the last `setDisplayLocalTime`. Both properties name their
exceptions with these, and each exception happens in the run:

- `~Logger` fills the output table at the first line of an index and the flush
  table at its first error. A default set in between is flushed and not the one
  written to; when it is empty, calling it throws in a destructor.
- `formatTime()` keeps the text of the second per thread and does not renew it
  when `displayLocalTime` changes: local digits are labelled UTC.

### NumberFormat, Utf and LogStream

`NumberFormat` gives `convert` and `convertHex` for one width: digits by repeated
C++ division (which truncates, so remainders may be negative), a sign, reversed.
`Utf` gives `utf16Toutf8` and `utf8Toutf16`; characters above 0xFFFF lose bits on
the way out, and on the way in one of four bytes empties the string.
`LogStream` takes a number as its text with the room its operator asks for, which
`NumbersReadBack` shows to suffice, and models where the text goes: `buffer_`, or
from the first piece that does not fit `exBuffer_`.

### Hashing

One context from `init` over calls of `update` with any number of bytes to
`final`. A byte of the message is named by its place, so that any byte lost,
doubled, moved or left over from before shows; the chaining value is the sequence
of the blocks compressed, the state of SHA-3 says of each place which bytes were
xored into it. `Reference` is what the standards say is compressed, computed from
the whole message. MD5 and SHA-256 share the operators of the one loop both have.

### Compression

What `Hashing` leaves abstract, for the two functions whose loop is not the one of
the standard. A word is the set of the positions of its ones. `Step` is one of the
80 calls of `R0` to `R4`, on sixteen words that are overwritten and variables that
trade names; `KeccakRound` is one turn of the loop, with the tables of the code.
In the same step the standard goes on: FIPS 180 with 80 words and variables that
move, FIPS 202 with rotations summed along the walk, places by coordinates, and
constants from the shift register.

### DateText and Dates

The units of time are constants, since microseconds do not fit TLC's integers.
In `DateText` a text is the sequence of its characters, for its order and width; in
`Dates` it is a sequence of separators and runs of digits. `gmtime`, `mktime` and
`localtime` are the C library's, on the calendar as it is, with a distance from UTC
that summer time adds to between two moments; `mktime` goes by `tm_isdst`, which
`roundDay` leaves as it was at the time of day. Before 1970 C++ rounds towards zero:
two seconds share one text, and the fraction has a sign. `TextsTellDates` says which
texts that concerns, and where texts do not sort as their dates do: those of local
time go back when the clocks are put back, and the names of rotated files, with
`%y` (`AsyncFileLogger.cpp:230`), at the turn of a century.

## 3. Runs

| Run | Shows | Bounds |
|---|---|---|
| `task_queue` | `TaskConservation`, `WakeupPerTask`, `AtMostOneMissesStop`, `SyncAfterExecution`, and that the pool implements `TaskPool` (`PoolSpec`). `Serviced`: a submitted task runs unless the pool is stopped or every worker is blocked on a task nobody can run. `StopOutcome`: after `notify_all` every worker ends, or is stuck in one of the two ways named | three workers (so that one sleeps, one is on its way, one is blocked), two clients, five tasks of which three wait for another one of them, one spurious wake-up |
| `async_file_logger` | `StreamAccounting`, `DestructorWritesAll`, `BuffersDistinct`, `MemoryBounded`, `LogSpec` (it implements `MessageLog`), `AcceptedIsWritten`, `DestructorEnds` | six calls against a queue limit of one: the queue fills, messages are lost, a notice follows, buffers are recycled and freed |
| `logger_flush` | a counterexample: `flush()` returns and the file has nothing of it | two calls |
| `mpsc` | `NoUseAfterFree`, `FifoNoLoss`, `EmptyOnlyBehindLink`, `NoLeak`, `Delivered` | three producers, four items, five addresses: addresses are reused while two producers are between their steps |
| `mpsc_lock_free` | a counterexample: a stopped producer hides a completed `enqueue` | two producers |
| `msg_buffer` | `ImplementsByteQueue`, `CapacityBounded`, `IntegersTravel` | inputs of one to three bytes of two values, offset and initial length two, five readable bytes: every branch of every function is taken; integers of one, two and four bytes, every value, from every buffer |
| `pipeline` | `FilesReadAsLog`, `ShutdownIsComplete`, `LossExplained`, `AcceptedReachesDisk` | three calls against a queue limit of zero, rotation after every chunk, two seconds, retention of none or one file, one restart at any moment, one failure, of stdio or another call |
| `logger_file` | `NameOrder`, `OnlyRetentionLoses`, `RetentionBound` | two seconds, sequence numbers that wrap at two, rotation after two chunks, five chunks, retention of none or two files, one restart, any number of loggers in a process, one failure, of stdio or another call, one rotation of another logger: names collide, wrap and come late, and a logger starts over the files of a process and of an earlier logger |
| `object_pool` | `OnePlace`, `PoolOutlivesItsUse`, `ReusesBeforeAllocating` | three threads and three objects: the pool dies while one object is out, one in its deleter and one in the pool; both sets are symmetric |
| `logger` | `FlushesWhereItWrites`, `TimeIsOwn` | two threads, two indexes and none, three statements, two changes of a setting or the clock: one statement runs between another's two look-ups, one setting comes between those, and either table grows between a look-up and its call |
| `sequential` | `ImplementsByteQueue` of the log stream; `NumbersReadBack`, `Utf16RoundTrip`, `TextsTellDates`; `DigestOfMessage`; `AsStandardised` | a buffer of four, texts and numbers of up to two characters, statements of up to six; every signed number of 16 bits, the least one included, addresses up to the greatest, every character of 16 bits, every date of 16 bits with days of twelve seconds (years around 1970, a leap day, all ends of months, both signs, one summer time) and three weeks around the turns of the centuries 2000 and 2100; blocks of 8, 6 and 5 bytes, lengths of two bytes and counters of 4 bits, messages of up to 70 bytes: several blocks and every rest of one, counters that carry, every way to cut the message; one or two blocks, each one of two, for the compression functions, in full width, on hosts of either byte order |
| `dates` | a counterexample: `fromDbStringLocal` reads no text | four days of the first year |

`Buffers` of the logger has `2 * (QueueLimit + 1) + 3` members: the queue, the
same again being written and three single roles, which `MemoryBounded` shows to
be all. `MaxSpurious`, `MaxCalls`, `MaxItems`, `MaxReadable`, `MaxStatements`,
`MaxSettings`, `MaxOthers`, `MaxBlocks` and `MaxBytes` bound what the environment
may do and appear in the guard of its action, no other. The four sequential
machines of `MCSequential` move one at a time, since nothing joins them. The type
invariants are no properties of runs: they are proved.
`ReadableView` lets TLC identify buffers that differ only in cells outside
`head_..tail_`, which no function reads. `CHECK_DEADLOCK FALSE` stands where the
system may really stop: nobody has to submit, and workers may block for ever.

**Fairness.** Weak fairness of each worker, of the log thread, of the
destructor and of the stopper: a thread that can run does. Clients need not
submit, and nobody need call `stop()`, `flush()` or wake up without reason. The
timer of `wait_for` is strongly fair: weak fairness would let spurious wake-ups
disable it again and again in the very instants it matters, which takes more
than one a second for ever. In the MPSC queue the consumer polls, and a producer
that is in `enqueue` goes on. In the pipeline the work inside `LoggerFile` belongs to
the thread that called it.

**Disagreements with the comments.** `AsyncFileLogger.h:40` says that `flush()`
flushes "from memory buffer to the log file"; it queues the buffer
(`logger_flush`). `LockFreeQueue.h:15` calls the queue lock-free; a producer
suspended between its exchange and its store hides every later item
(`mpsc_lock_free`). `EmptyOnlyBehindLink` says that this is the only such case.
`Date.h:51` reads the third day of 1970 through `fromDbStringLocal()`, which tests
for the three parts of a date in the list that has just been found to have two
(`Date.cpp:226`) and reads nothing (`dates`). With the test on the list `date`
the property holds.

What no comment of the code speaks about stands as a named exception in the
property it would break: the time and flush cases of `Logger` above, the chunks that
failed calls of stdio lose, texts of dates that go back, and SHA-1,
whose count of bits is two words meant to have 32 bits and declared `size_t`
(`sha1.cc:261`): where `size_t` is wider the carry is lost for messages of 2^29
bytes and more that come in several calls. `DigestOfMessage` says that there is
no other case, and with `SizeBits` equal to the width of the words there is none.

## 4. Proofs

The theorems hold for any number of workers, clients, tasks, producers, nodes,
bytes, any offset, length and bound, under the `ASSUME`s of the modules.

**ConcurrentTaskQueue_proofs.** The inductive invariant is `TypeOK` with:
`LockInv` (the mutex is held by the worker at `test` or `block` and by no
other); `PromiseAfterTask` (a promise with a value belongs to an executed task);
the conservation of tasks in the form that says which pc holds a task; and the
wake-up count. `WakeupPerTask` is an inequality of cardinalities: the proof
shows for each action that the set `Awake` gains or loses at most one worker,
and that the queue changes with it. `AtMostOneMissesStop` needs `LockInv`: the
only worker that can still fall asleep after `notify_all` is the one that holds
the mutex at `block`. `SyncAfterExecution` and `Refinement` follow from the same
invariant, step by step.

**MpscQueue_proofs.** The strengthening is in terms of items: the live nodes
carry the items `delivered .. arrived`, each once (`Items`); a link leads from an
item to the next (`Links`); every missing link belongs to exactly one producer
between its steps (`Owners`, `MissingLinks`); the consumer's `next` is the
successor of `tail_` (`Consumer`); and the live nodes are counted (`Count`).
Memory safety, order and the explanation of the false empty are corollaries.

**MsgBuffer_proofs.** The invariant `Good` is the buffer's type with
`size = initCap + Offset`; the lemmas on `Window` say what part of the cells a
write leaves alone and what it replaces. From them every member function is
shown to keep `Good` and to have the effect on the readable bytes that
`ByteQueue` gives it. `size = initCap + Offset` with an initial length of at
least the offset makes `size > 2 * initCap` impossible: `ResizeIsDead`.
For `IntegersTravel` (`NetworkBytes`): every sequence of bytes is what the bytes of
just one number below a power of the base say, by induction over its length, so the
`CHOOSE` of `Loaded` finds the number stored; swapping on one host and back on
another gives it again; and what was put in front or behind is found there, by the
lemmas on the readable bytes. `^` of the base is the recursive function `Power`,
since the provers know nothing of the operator.

**Texts_proofs.** The numbers: a digit the conversion takes off (`Smaller`) leaves a
number nearer to zero, so the digits of every number have the value, the last digit
and the length they should (`LsdsTold`, `HexLsdsTold`, by induction over the
value); reversing turns the order of digits into that of positions
(`PositionalMore`). `DigitsAssumption` says what `digits10` and the size of an
address mean: the types' numbers have at most one digit more than `Digits10`, which
is what the room must suffice for. UTF: a character is encoded by as many bytes as
its first one says, and decoded from them (`EncodedDecodes`); then by induction from
the end of the string, from the byte behind those of the first `i` characters on
the other ones are decoded (`DecodedBehind`). The stream: the type invariant says
that the buffer is never full (`Len(buffer_) < Size`), which needs that a number's
text is shorter than the room asked for (`NumbersAssumption`) and that `append` wants
more than its length. With it every step is a step of `ByteQueue`, by cases on whether the
string is in use: once it is, it is not empty and stays in use.

**Logger_proofs.** `TablesAgree`: the default functions are one destination's,
and an entry of the output table is that of the flush table, or of the default the
flush table will get, unless its index is late. `EntriesThere`: a destructor past
its look-ups has its entries in the tables, so that the flush table never grows past
the output table; it is a theorem too. `InDestructor` adds that it wrote where the
table says, unless its reference had died. `TimeKept`: the time of a thread was
formatted as `displayLocalTime` says, or the thread is in `switched`; between the
digits and the label the statement shows that time. One lemma says what filling a
table does, one that a look-up keeps `TablesAgree`.

**ObjectPool_proofs.** `OnePlace` is taken apart into places that are disjoint
sets, an order without repetition and hands without sharing. Five lemmas say what
taking in hand, laying down, popping, pushing and losing the pool do to these;
each action is one or two of them. `LeftBehind` (nothing is leaked while the pool
lives, it is empty afterwards) makes the objects allocated at a look-up of an
empty pool exactly those in demand, which is what `ReusesBeforeAllocating` needs;
every other step leaves its left side or lowers it.

**LoggingPipeline_proofs, the writer.** The buffers with text, from what the thread is
writing over `writeBuffers_` to the log buffer, form one queue (`Queued`), and
`Chained` says that their texts lie end to end in `accepted`, behind `file`: each
begins where the one before it ends (`begin`). All hand-overs of buffers leave
this queue alone, extend it or cut it at the head, and a new text goes to its end:
`ChainGrows`, `ChainPushed`, `ChainPopped` and `ChainCut` say it of any such queue. Around it
stand `StringsBounded`, `PhasesAgree` (who has buffers when), `SparesApart` (the
next buffer and the one being handed back are not in the queue and not the same)
and `RoomLeft`: text in the log buffer leaves room for it in the queue, and while
messages are being lost the log buffer is empty, without which the notice could
fill a buffer again and again. This invariant holds of any new logger, whatever
file it finds. `CallsAccounted`, that each call's text is there once, in order, or
counted, does not outlive a crash; it is proved apart, of one process. The proof showed that `2 * BufSize` bounds a
string only when notices have one byte: a longer one may make it grow by less than
the notice, and the next one to twice that, hence `2 * (BufSize + NoticeLen - 1)`.
TLC finds the counterexample to the smaller bound with a capacity of 3 and notices
of 2; in the run the two are equal.

**LoggerFile_proofs.** `Kept`: every renamed file is in `filenameQueue_`, not yet
read, or one of the `leftovers`, and the queue is within the limit but in the
middle of `switchLog`. `Ordered`: while names come in order, all names in the
directory and the queue are earlier than the next one to be given (`Past`), the
queue is sorted, and it names at most `phantoms` missing files. With both, the
file at the head of the queue is the earliest there is, so that what it takes with
it is followed by `maxFiles_` later names. `NameOrder` is then inductive: the name
a rename gives is the last. The files in the order of their names are told by rank
(`Sorted[i]` is the name with `i - 1` earlier ones), because a sort that recurs
over the set is out of the provers' reach; that there is one name of each rank is
proved from the order of names. A call of stdio, failed or not, leaves of the current
file all that was passed on and perhaps more, so that it cuts the file at its end, and
none of these three parts is about the end.

**LoggingPipeline_proofs, the composition.** `LoggerFileImplemented`: each step of
the pipeline is one of `LoggerFile`'s or leaves it alone, so its invariant and
theorems hold here without another proof. The writer makes its own steps until the
process ends and then starts as a new logger behind `file` (`InvariantStarts`), so
its invariant holds through all processes. `Joint` is what neither part knows:
there is one text in `chunks` for each call of `writeLog()`; a `LoggerFile` without
a file between its calls has seen a failure in this process; and none is left when
the destructor has returned. `LossIsExplained` then follows a message through every
step. It is in a chunk on the disk or in the accepted stream behind `file`. Writing
moves it from there to the new chunk, if there is a file and `fwrite` takes it; a
chunk leaves the disk by a failed call of stdio, which counts in `failures` and takes
none that was passed on before (`WriteEffect`, `FlushEffect` of `LoggerFile_proofs`),
by retention, or with a name given twice, which `NewNameIsLast` rules out while names
come in order; at a restart what is durable stays, and after the destructor there is
nothing in memory or in stdio to lose.

**LoggingPipeline_proofs, reading the files.** `FilesReadAsLog` and
`ShutdownIsComplete` say of which calls the entries of a text tell: a message of its
own, a notice of as many as it says before the message behind it (`ToldBy`). A text
is an `Account` of the calls from `u + 1` to `v` when its entries tell of just those,
in their order. Appending to an account gives one, and cutting it behind a message
gives two (`AccountJoined`, `AccountCut`); a notice and its message go into one
buffer (`TextsClosed`), so buffers are cut there. `ChunksTell` is inductive: there is
a sequence `upto` such that chunk `c` tells of the calls from `upto[c - 1] + 1` to
`upto[c]`, with nothing left out between the chunks of this process, and what is
accepted and not written tells of those from there to `calls - lostCounter_`. The
other half is about files. `KeptRun`: the chunks that the files keep of this process
have no hole but those in `dropped` and, while there is a file to write to, go up to
the last one written that is not in `dropped`; a failed call of stdio moves the last
chunks of the file from the one set to the other. For that the name of a new file must not be one of the `leftovers` either, which
`Ordered` of `LoggerFile_proofs` says of all names ever given, and `deleteOldFiles()`
must take the earliest file. `OneLoggerFile`: a process makes one `LoggerFile`, before
its first chunk, and `switchLog()` of its destructor runs when all is written.
`AllOnDisk`: where nothing fails, no call of stdio either, and nothing is removed every chunk is in a file.
`FilesReadInOrder` follows with `NameOrder`, and `ShutdownTellsAll` with
`DestructorWritesAll`: nothing accepted is left, so `upto` has come to the last call
but the losses.

Induction over data, here and in `MsgBuffer_proofs`: the library's theorems take the
statement as an operator, which none of the provers can instantiate. `Counting`
takes the set of the numbers with the property instead, and follows from
`NatLessThanWellFounded` and `WFMin`, which take sets. What a recursive function
`f[n] == ... f[...]` says of itself holds only where such a function exists, so that
is proved first, from `Recursion` for values of a function on numbers.

Only model-checked: the texts of `DateText`, where a proof would be about the calendar
of the C library more than about this code; the hash functions of `Hashing`, folds
over calls of `update` that cut the message anywhere, with counters that carry;
`Compression`, words of 32 and 64 bits bit by bit; and all liveness, which the prover
does not reach (`ENABLED`, fairness).

## 5. Not modelled

- `getTaskCount`, `name` and the other pure readers.
- Tasks that throw, two threads in `stop()` at once, a second `startLogging`,
  `output` during the destructor: no document says that they work.
- `output` with an empty text (`Lens`): there is nothing of it to lose or to write.
- In `output` a message longer than `xMemBufferSize` returns early and is not
  even counted as lost; the model has the guard and no action for it.
- `MsgBuffer` with an initial length below `xBufferOffset`: then the `resize`
  in `retrieveAll` is reachable and leaves the offsets behind the end. The
  assumption is named `SizesAssumption`.
- Code that no platform but Windows compiles is read for what it means:
  `PR_SET_NAEM` (`AsyncFileLogger.cpp:114`), `::PRECTL`
  (`ConcurrentTaskQueue.cpp:44`), `gmtime_t` (`Date.cpp:95`), `std; :memory_order`
  (`LockFreeQueue.h:45`), and the two result types of `readFd`.
- The spdlog registry: with `XIAO_SPDLOG_SUPPORT` the file does not compile, its
  constructor at `Logger.cpp:203` initialises a member that does not exist.
- `setOutputFunction` while another thread is in `~Logger`: assigning a
  `std::function` that is being called has no meaning the model could give it.
- The compression functions of MD5, SHA-256 and BLAKE2b: they are the formulas and
  tables of their standards line by line, so that a model would be compared with
  itself. SHAKE (nothing calls it). Messages of 2^32 bytes: `sha256.cc:107` counts
  them with 32 bits and does not end, with more text than any test has.
- Calls into OpenSSL and Botan, certificate name matching, random numbers, file
  names of Windows: pure, or not this code.
- The comparisons of `Date`; `>=` and `<=` (`Date.h:84`, `:89`) are strict.
  `timezoneOffset`, `toDbString` and `fromDbString` are made of
  `fromDbStringLocal`, which reads nothing.
- `readv` on Windows, a loop over `recv`: `ReadFd` takes any number of bytes from
  it. `findCRLF`, which is `std::search`. The spelling of floating point numbers.

## 6. Plan

The order was: what runs concurrently first (`ConcurrentTaskQueue`,
`AsyncFileLogger`, `MpscQueue`, `ObjectPool`), then what keeps state over long
sequences of calls (`MsgBuffer`, `LoggerFile`, `Logger`, `LogStream`), then the
pure functions (`NumberFormat`, `Utf`, `Hashing`, `Dates`), then what joins the parts
and what they promise together (`MessageLog`, `LoggingPipeline`), then texts, byte
order and compression (`DateText`, `NetworkBytes`, `Compression`), and last
`FilesReadAsLog` told by the calls that entries tell of instead of a joined text,
which brought it within reach of the prover, and
`NetworkBytes`, `NumberFormat` and `Utf` by recursive functions in place of folds
and powers. Left: two threads in `stop()` of the
pool, if the class comes to promise something for the second.
