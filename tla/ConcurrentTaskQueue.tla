------------------------ MODULE ConcurrentTaskQueue -------------------------
(***************************************************************************)
(* xiao::ConcurrentTaskQueue, a pool of threads fed by one queue, with     *)
(* TaskQueue::syncTaskInQueue on top of it.                                *)
(*                                                                         *)
(* One action per stretch of code between two points where another thread  *)
(* can interfere.  taskCond_ is the set of workers asleep on it; a worker  *)
(* whose pc is "wait" and who left that set was notified and is on its way *)
(* to take taskMutex_ again.  The code stores stop_ and notifies without   *)
(* holding taskMutex_, so the test of stop_ in a worker and its falling    *)
(* asleep are separate steps here.                                         *)
(***************************************************************************)
EXTENDS Integers, FiniteSets, Sequences

CONSTANTS
  Workers,      \* threads_, the threads that run queueFunc
  Clients,      \* threads that submit tasks
  Stopper,      \* the client that calls stop() or destroys the queue
  Tasks,
  NoTask,
  Child,        \* the task a task's body submits with syncTaskInQueue
  Free,         \* taskMutex_ when nobody holds it
  MaxSpurious   \* bound on spurious wake-ups of taskCond_.wait

ASSUME ThreadsAssumption ==
  /\ IsFiniteSet(Workers) /\ Workers # {}
  /\ Workers \cap Clients = {}
  /\ Stopper \in Clients
  /\ Free \notin Workers
ASSUME TasksAssumption ==
  /\ NoTask \notin Tasks
  /\ Child \in [Tasks -> Tasks \cup {NoTask}]
  /\ \A t, u \in Tasks : Child[t] = Child[u] /\ Child[t] # NoTask => t = u
ASSUME SpuriousAssumption == MaxSpurious \in Nat

VARIABLES
  stop_,        \* the atomic flag
  taskQueue_,
  taskMutex_,   \* the worker holding it across steps, or Free
  waiters,      \* workers asleep on taskCond_
  pc,
  task,         \* r, the task a worker has taken
  awaited,      \* the task whose future a thread is blocked on
  executed,     \* tasks whose body has returned
  promised,     \* tasks whose promise holds a value
  submitted,    \* tasks that were ever pushed
  spurious      \* spurious wake-ups so far

vars == <<stop_, taskQueue_, taskMutex_, waiters, pc, task, awaited,
          executed, promised, submitted, spurious>>

Threads == Workers \cup Clients
WorkerPC == {"loop", "lock", "test", "block", "wait", "run", "get", "body", "set", "exit"}
ClientPC == {"idle", "get", "set_stop", "notify", "join", "stopped"}

Init ==
  /\ stop_ = FALSE
  /\ taskQueue_ = <<>>
  /\ taskMutex_ = Free
  /\ waiters = {}
  /\ pc = [x \in Threads |-> IF x \in Workers THEN "loop" ELSE "idle"]
  /\ task = [w \in Workers |-> NoTask]
  /\ awaited = [x \in Threads |-> NoTask]
  /\ executed = {}
  /\ promised = {}
  /\ submitted = {}
  /\ spurious = 0

Go(x, from, to) == pc[x] = from /\ pc' = [pc EXCEPT ![x] = to]

ResultVars == <<awaited, executed, promised, submitted>>
QueueVars  == <<taskQueue_, submitted>>

-----------------------------------------------------------------------------
(* Submitting.  The lock_guard of runTaskInQueue covers the push and the   *)
(* notify_one and reads nothing else, so the call is one step.             *)

NotifyOneMissing == UNCHANGED waiters

NotifyOne == IF waiters = {} THEN UNCHANGED waiters
             ELSE \E w \in waiters : waiters' = waiters \ {w}

Push(t) ==
  /\ taskMutex_ = Free
  /\ t \notin submitted
  /\ taskQueue_' = Append(taskQueue_, t)
  /\ submitted' = submitted \cup {t}
  /\ NotifyOne
  /\ UNCHANGED <<stop_, taskMutex_, task, executed, promised, spurious>>

Roots == {t \in Tasks : \A u \in Tasks : Child[u] # t}

RunTask(c, t) ==
  /\ pc[c] = "idle" /\ t \in Roots
  /\ Push(t)
  /\ UNCHANGED <<pc, awaited>>

\* The first half of syncTaskInQueue: push the wrapper, then fut.get().
Await(x, t) == awaited' = [awaited EXCEPT ![x] = t]

SyncTask(c, t) ==
  /\ Go(c, "idle", "get") /\ t \in Roots
  /\ Push(t)
  /\ Await(c, t)

\* A task's body calls syncTaskInQueue on the queue that runs it.
NestedSync(w) ==
  /\ Go(w, "run", "get")
  /\ Child[task[w]] # NoTask
  /\ Push(Child[task[w]])
  /\ Await(w, Child[task[w]])

FutureGet(x, back) ==
  /\ Go(x, "get", back)
  /\ awaited[x] \in promised
  /\ Await(x, NoTask)
  /\ UNCHANGED <<stop_, taskQueue_, taskMutex_, waiters, task, executed,
                 promised, submitted, spurious>>

-----------------------------------------------------------------------------
(* queueFunc *)

LoopForEver(w) ==
  /\ Go(w, "loop", "lock")
  /\ UNCHANGED <<stop_, taskQueue_, taskMutex_, waiters, task, ResultVars, spurious>>

LoopTest(w) ==
  /\ Go(w, "loop", IF stop_ THEN "exit" ELSE "lock")
  /\ UNCHANGED <<stop_, taskQueue_, taskMutex_, waiters, task, ResultVars, spurious>>

\* Constructing the unique_lock, or taking it back inside wait().
Lock(w) ==
  /\ Go(w, "lock", "test") \/ (w \notin waiters /\ Go(w, "wait", "test"))
  /\ taskMutex_ = Free
  /\ taskMutex_' = w
  /\ UNCHANGED <<stop_, taskQueue_, waiters, task, ResultVars, spurious>>

\* The while condition holds; the thread still has to fall asleep.
Block(w) ==
  /\ Go(w, "test", "block")
  /\ taskQueue_ = <<>> /\ ~stop_
  /\ UNCHANGED <<stop_, taskQueue_, taskMutex_, waiters, task, ResultVars, spurious>>

Wait(w) ==
  /\ Go(w, "block", "wait")
  /\ taskMutex_' = Free
  /\ waiters' = waiters \cup {w}
  /\ UNCHANGED <<stop_, taskQueue_, task, ResultVars, spurious>>

SpuriousWake(w) ==
  /\ w \in waiters /\ spurious < MaxSpurious
  /\ waiters' = waiters \ {w}
  /\ spurious' = spurious + 1
  /\ UNCHANGED <<stop_, taskQueue_, taskMutex_, pc, task, ResultVars>>

\* Nothing to take but stop_ is set: continue, which unlocks.
Leave(w) ==
  /\ Go(w, "test", "loop")
  /\ taskQueue_ = <<>> /\ stop_
  /\ taskMutex_' = Free
  /\ UNCHANGED <<stop_, taskQueue_, waiters, task, ResultVars, spurious>>

TakeNewest(w) ==
  /\ Go(w, "test", "run")
  /\ taskQueue_ # <<>>
  /\ task' = [task EXCEPT ![w] = taskQueue_[Len(taskQueue_)]]
  /\ taskQueue_' = SubSeq(taskQueue_, 1, Len(taskQueue_) - 1)
  /\ taskMutex_' = Free
  /\ UNCHANGED <<stop_, waiters, ResultVars, spurious>>

TakeWithoutPop(w) ==
  /\ Go(w, "test", "run")
  /\ taskQueue_ # <<>>
  /\ task' = [task EXCEPT ![w] = Head(taskQueue_)]
  /\ taskMutex_' = Free
  /\ UNCHANGED <<stop_, taskQueue_, waiters, ResultVars, spurious>>

Take(w) ==
  /\ Go(w, "test", "run")
  /\ taskQueue_ # <<>>
  /\ task' = [task EXCEPT ![w] = Head(taskQueue_)]
  /\ taskQueue_' = Tail(taskQueue_)
  /\ taskMutex_' = Free
  /\ UNCHANGED <<stop_, waiters, ResultVars, spurious>>

\* r() of a task pushed by syncTaskInQueue also sets the promise.
IsSync(t) == \E x \in Threads : awaited[x] = t

\* The body returns; r, a local of the loop, dies unless the wrapper goes on.
Execute(w) ==
  /\ pc[w] = "body" \/ (pc[w] = "run" /\ Child[task[w]] = NoTask)
  /\ executed' = executed \cup {task[w]}
  /\ IF IsSync(task[w])
     THEN pc' = [pc EXCEPT ![w] = "set"] /\ UNCHANGED task
     ELSE pc' = [pc EXCEPT ![w] = "loop"] /\ task' = [task EXCEPT ![w] = NoTask]
  /\ UNCHANGED <<stop_, taskQueue_, taskMutex_, waiters, awaited, promised,
                 submitted, spurious>>

SetValueFirst(w) ==
  /\ pc[w] = "run" /\ IsSync(task[w])
  /\ promised' = promised \cup {task[w]}
  /\ UNCHANGED <<stop_, taskQueue_, taskMutex_, waiters, pc, task, awaited,
                 executed, submitted, spurious>>

SetValue(w) ==
  /\ Go(w, "set", "loop")
  /\ promised' = promised \cup {task[w]}
  /\ task' = [task EXCEPT ![w] = NoTask]
  /\ UNCHANGED <<stop_, taskQueue_, taskMutex_, waiters, awaited, executed,
                 submitted, spurious>>

Worker(w) ==
  \/ LoopTest(w) \/ Lock(w) \/ Block(w) \/ Wait(w) \/ Leave(w) \/ Take(w)
  \/ NestedSync(w) \/ FutureGet(w, "body") \/ Execute(w) \/ SetValue(w)

-----------------------------------------------------------------------------
(* stop(), called once by Stopper.  The destructor calls it too and finds  *)
(* stop_ set, so a second call changes nothing.                            *)

StopTest ==
  /\ ~stop_
  /\ Go(Stopper, "idle", "set_stop")
  /\ UNCHANGED <<stop_, taskQueue_, taskMutex_, waiters, task, ResultVars, spurious>>

StopSet ==
  /\ Go(Stopper, "set_stop", "notify")
  /\ stop_' = TRUE
  /\ UNCHANGED <<taskQueue_, taskMutex_, waiters, task, ResultVars, spurious>>

StopNotifyOne ==
  /\ Go(Stopper, "notify", "join")
  /\ NotifyOne
  /\ UNCHANGED <<stop_, taskQueue_, taskMutex_, task, ResultVars, spurious>>

StopNotify ==
  /\ Go(Stopper, "notify", "join")
  /\ waiters' = {}
  /\ UNCHANGED <<stop_, taskQueue_, taskMutex_, task, ResultVars, spurious>>

StopJoin ==
  /\ Go(Stopper, "join", "stopped")
  /\ \A w \in Workers : pc[w] = "exit"
  /\ UNCHANGED <<stop_, taskQueue_, taskMutex_, waiters, task, ResultVars, spurious>>

Stop == StopSet \/ StopNotify \/ StopJoin

Client(c) ==
  \/ \E t \in Tasks : RunTask(c, t) \/ SyncTask(c, t)
  \/ FutureGet(c, "idle")

Next ==
  \/ \E w \in Workers : Worker(w) \/ SpuriousWake(w)
  \/ \E c \in Clients : Client(c)
  \/ StopTest \/ Stop

Spec == Init /\ [][Next]_vars

\* A thread that can go on does so; nobody has to submit, to call stop() or
\* to wake up without a reason.
Fairness ==
  /\ \A w \in Workers : WF_vars(Worker(w))
  /\ \A c \in Clients : WF_vars(FutureGet(c, "idle"))
  /\ WF_vars(Stop)

FairSpec == Spec /\ Fairness

-----------------------------------------------------------------------------
(* Properties *)

\* Every variable keeps its type (the fields of ConcurrentTaskQueue and the
\* locals of queueFunc, syncTaskInQueue and stop); no empty std::function is
\* ever queued or taken.
TypeOK ==
  /\ stop_ \in BOOLEAN
  /\ taskQueue_ \in Seq(Tasks)
  /\ taskMutex_ \in Workers \cup {Free}
  /\ waiters \subseteq Workers
  /\ pc \in [Threads -> WorkerPC \cup ClientPC]
  /\ task \in [Workers -> Tasks \cup {NoTask}]
  /\ awaited \in [Threads -> Tasks \cup {NoTask}]
  /\ executed \subseteq Tasks
  /\ promised \subseteq Tasks
  /\ submitted \subseteq Tasks
  /\ spurious \in Nat

InHand == {task[w] : w \in Workers} \ {NoTask}
Held == {task[w] : w \in {v \in Workers : pc[v] \in {"run", "get", "body"}}}
Queued == {taskQueue_[i] : i \in 1..Len(taskQueue_)}

\* A submitted task is in exactly one place: queued, in the hands of one
\* worker that has not yet run it, or executed.  The move from the queue to
\* the worker in queueFunc loses none and hands none out twice.
TaskConservation ==
  /\ submitted = Queued \cup Held \cup executed
  /\ Queued \cap Held = {} /\ Queued \cap executed = {} /\ Held \cap executed = {}
  /\ \A i, j \in 1..Len(taskQueue_) : taskQueue_[i] = taskQueue_[j] => i = j
  /\ \A v, w \in Workers : task[v] # NoTask /\ task[v] = task[w] => v = w

\* Workers that look at taskQueue_ once more before they can fall asleep.
Awake == {w \in Workers : pc[w] \in {"loop", "lock", "test"}
                          \/ (pc[w] = "wait" /\ w \notin waiters)}

\* As long as the pool runs, either nobody sleeps on taskCond_ or every
\* queued task has an awake worker of its own: the one notify_one per push
\* in runTaskInQueue loses no wake-up, however pushes, wake-ups and workers
\* that block inside a nested syncTaskInQueue interleave.
WakeupPerTask ==
  stop_ \/ waiters = {} \/ Len(taskQueue_) <= Cardinality(Awake)

\* stop() stores stop_ without taskMutex_, so a worker that tested stop_ just
\* before can fall asleep after notify_all and keep join() waiting.  At most
\* one worker can: the one that held the mutex at that moment.
AtMostOneMissesStop ==
  pc[Stopper] \in {"join", "stopped"} =>
    \A v, w \in waiters \cup {u \in Workers : pc[u] = "block"} : v = w

\* syncTaskInQueue returns only after the task it was given has been
\* executed, whoever calls it, a client or a task on a worker.
SyncAfterExecution ==
  [][\A x \in Threads : pc[x] = "get" /\ pc'[x] # "get" => awaited[x] \in executed]_vars

\* The pool implements TaskPool: tasks start in the order they were pushed,
\* each is run once.
Pool == INSTANCE TaskPool WITH
          pending <- taskQueue_, running <- Held, finished <- executed
PoolSpec == Pool!PoolSpec

\* A submitted task is executed, unless the pool is stopped or every worker
\* is blocked in a nested syncTaskInQueue whose task nobody is left to run:
\* the only two ways in which this pool forgets a task.
Starved == \A w \in Workers : pc[w] = "get" /\ awaited[w] \notin executed
Serviced == \A t \in Tasks : t \in submitted ~> (t \in executed \/ stop_ \/ Starved)

\* Once notify_all was called each worker ends, save the ones stop() leaves
\* behind for good: asleep because it missed the notification, or blocked in
\* a nested syncTaskInQueue on a task that is never executed.
Over(w) == pc[w] = "exit" \/ w \in waiters \/ (pc[w] = "get" /\ awaited[w] \notin executed)
StopOutcome == pc[Stopper] = "join" ~> [](\A w \in Workers : Over(w))
=============================================================================
