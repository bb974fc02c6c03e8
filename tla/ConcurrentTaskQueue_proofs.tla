--------------------- MODULE ConcurrentTaskQueue_proofs ---------------------
(***************************************************************************)
(* Proofs about ConcurrentTaskQueue, for any number of workers, clients    *)
(* and tasks.                                                              *)
(***************************************************************************)
EXTENDS ConcurrentTaskQueue, FiniteSetTheorems, TLAPS

-----------------------------------------------------------------------------
(* The inductive invariant *)

\* Workers and clients are at places of their own code, only a worker at
\* wait() sleeps, and a worker that runs a task has one.
Places ==
  /\ \A w \in Workers : pc[w] \in WorkerPC
  /\ \A c \in Clients : pc[c] \in ClientPC
  /\ \A w \in waiters : pc[w] = "wait"
  /\ \A w \in Workers : pc[w] \in {"run", "get", "body", "set"} => task[w] \in Tasks

\* taskMutex_ is held by the worker between its lock and its unlock.
MutexHeld == \A w \in Workers : pc[w] \in {"test", "block"} <=> taskMutex_ = w

\* The queue stays empty from the test until the worker sleeps.
BlockMeansEmpty == \A w \in Workers : pc[w] = "block" => taskQueue_ = <<>>

StopFlagged == pc[Stopper] \in {"notify", "join", "stopped"} => stop_

PromiseAfterTask ==
  /\ promised \subseteq executed
  /\ \A w \in Workers : pc[w] = "set" => task[w] \in executed

TypeInv == TypeOK /\ Places
LockInv == MutexHeld /\ BlockMeansEmpty /\ StopFlagged

-----------------------------------------------------------------------------
\* A push keeps the types: what every way of submitting a task has in common.
LEMMA PushType ==
  ASSUME TypeOK, NEW t \in Tasks, Push(t)
  PROVE  /\ taskQueue_' \in Seq(Tasks) /\ submitted' \subseteq Tasks
         /\ waiters' \subseteq waiters
         /\ UNCHANGED <<stop_, taskMutex_, task, executed, promised, spurious>>
  BY DEF Push, NotifyOne, TypeOK

\* Every thread is at a place of its own code, with values of the right kind.
LEMMA TypeInvariant == Spec => []TypeInv
<1> USE ThreadsAssumption, TasksAssumption, SpuriousAssumption
    DEF ThreadsAssumption, TasksAssumption, SpuriousAssumption
<1>1. Init => TypeInv
  <2> SUFFICES ASSUME Init PROVE TypeInv
    OBVIOUS
  <2> DEFINE start == [x \in Threads |-> IF x \in Workers THEN "loop" ELSE "idle"]
  <2>0. /\ start \in [Threads -> WorkerPC \cup ClientPC]
        /\ [x \in Threads |-> NoTask] \in [Threads -> Tasks \cup {NoTask}]
        /\ <<>> \in Seq(Tasks)
    BY DEF WorkerPC, ClientPC
  <2>1. TypeOK
    BY <2>0 DEF Init, TypeOK
  <2>2. Places
    BY DEF Init, Places, Threads, WorkerPC, ClientPC
  <2> QED BY <2>1, <2>2 DEF TypeInv
<1>2. TypeInv /\ [Next]_vars => TypeInv'
  <2> SUFFICES ASSUME TypeInv, [Next]_vars PROVE TypeInv'
    OBVIOUS
  <2> USE DEF TypeInv, TypeOK, Places, Threads, WorkerPC, ClientPC, ResultVars
  <2>1. ASSUME NEW w \in Workers, LoopTest(w) PROVE TypeInv'
    BY <2>1 DEF LoopTest, Go
  <2>2. ASSUME NEW w \in Workers, Lock(w) PROVE TypeInv'
    BY <2>2 DEF Lock, Go
  <2>3. ASSUME NEW w \in Workers, Block(w) PROVE TypeInv'
    BY <2>3 DEF Block, Go
  <2>4. ASSUME NEW w \in Workers, Wait(w) PROVE TypeInv'
    BY <2>4 DEF Wait, Go
  <2>5. ASSUME NEW w \in Workers, Leave(w) PROVE TypeInv'
    BY <2>5 DEF Leave, Go
  <2>6. ASSUME NEW w \in Workers, Take(w) PROVE TypeInv'
    <3>1. Head(taskQueue_) \in Tasks /\ Tail(taskQueue_) \in Seq(Tasks)
      BY <2>6 DEF Take
    <3> QED BY <2>6, <3>1 DEF Take, Go
  <2>7. ASSUME NEW w \in Workers, NestedSync(w) PROVE TypeInv'
    <3>1. Child[task[w]] \in Tasks
      BY <2>7 DEF NestedSync, Go
    <3>2. Push(Child[task[w]])
      BY <2>7 DEF NestedSync
    <3>3. /\ taskQueue_' \in Seq(Tasks) /\ submitted' \subseteq Tasks
          /\ waiters' \subseteq waiters
          /\ UNCHANGED <<stop_, taskMutex_, task, executed, promised, spurious>>
      BY <3>1, <3>2, PushType
    <3> QED BY <2>7, <3>1, <3>3 DEF NestedSync, Go, Await
  <2>8. ASSUME NEW w \in Workers, FutureGet(w, "body") PROVE TypeInv'
    BY <2>8 DEF FutureGet, Go, Await
  <2>9. ASSUME NEW w \in Workers, Execute(w) PROVE TypeInv'
    BY <2>9 DEF Execute
  <2>10. ASSUME NEW w \in Workers, SetValue(w) PROVE TypeInv'
    BY <2>10 DEF SetValue, Go
  <2>11. ASSUME NEW w \in Workers, SpuriousWake(w) PROVE TypeInv'
    BY <2>11 DEF SpuriousWake
  <2>12. ASSUME NEW c \in Clients, NEW t \in Tasks, RunTask(c, t) PROVE TypeInv'
    <3>1. /\ taskQueue_' \in Seq(Tasks) /\ submitted' \subseteq Tasks
          /\ waiters' \subseteq waiters
          /\ UNCHANGED <<stop_, taskMutex_, task, executed, promised, spurious>>
      BY <2>12, PushType DEF RunTask
    <3> QED BY <2>12, <3>1 DEF RunTask
  <2>13. ASSUME NEW c \in Clients, NEW t \in Tasks, SyncTask(c, t) PROVE TypeInv'
    <3>1. /\ taskQueue_' \in Seq(Tasks) /\ submitted' \subseteq Tasks
          /\ waiters' \subseteq waiters
          /\ UNCHANGED <<stop_, taskMutex_, task, executed, promised, spurious>>
      BY <2>13, PushType DEF SyncTask
    <3> QED BY <2>13, <3>1 DEF SyncTask, Go, Await
  <2>14. ASSUME NEW c \in Clients, FutureGet(c, "idle") PROVE TypeInv'
    BY <2>14 DEF FutureGet, Go, Await
  <2>15. CASE StopTest BY <2>15 DEF StopTest, Go
  <2>16. CASE StopSet BY <2>16 DEF StopSet, Go
  <2>17. CASE StopNotify BY <2>17 DEF StopNotify, Go
  <2>18. CASE StopJoin BY <2>18 DEF StopJoin, Go
  <2>19. CASE UNCHANGED vars BY <2>19 DEF vars
  <2> QED
    BY <2>1, <2>2, <2>3, <2>4, <2>5, <2>6, <2>7, <2>8, <2>9, <2>10, <2>11, <2>12,
       <2>13, <2>14, <2>15, <2>16, <2>17, <2>18, <2>19
    DEF Next, Worker, Client, Stop
<1> QED BY <1>1, <1>2, PTL DEF Spec

\* Every variable keeps its type, and no empty task is ever queued or taken
\* (runTaskInQueue, queueFunc, syncTaskInQueue, stop).
THEOREM TypeCorrect == Spec => []TypeOK
  BY TypeInvariant, PTL DEF TypeInv

-----------------------------------------------------------------------------
(* Who holds the mutex, and what is known of the queue and of stop_ *)

\* No step lets two workers hold taskMutex_, fills the queue between a worker's
\* test and its sleep, or lets stop() notify before it sets stop_.
LEMMA LockStep == TypeInv /\ LockInv /\ [Next]_vars => LockInv'
<1> USE ThreadsAssumption, TasksAssumption
    DEF ThreadsAssumption, TasksAssumption, Threads
<1> SUFFICES ASSUME TypeInv, LockInv, [Next]_vars PROVE LockInv'
  OBVIOUS
<1> QED
  <2> USE DEF TypeInv, TypeOK, Places, LockInv, MutexHeld, BlockMeansEmpty, StopFlagged,
              WorkerPC, ClientPC, ResultVars
  <2>1. ASSUME NEW w \in Workers, LoopTest(w) PROVE LockInv'
    BY <2>1 DEF LoopTest, Go
  <2>2. ASSUME NEW w \in Workers, Lock(w) PROVE LockInv'
    BY <2>2 DEF Lock, Go
  <2>3. ASSUME NEW w \in Workers, Block(w) PROVE LockInv'
    BY <2>3 DEF Block, Go
  <2>4. ASSUME NEW w \in Workers, Wait(w) PROVE LockInv'
    BY <2>4 DEF Wait, Go
  <2>5. ASSUME NEW w \in Workers, Leave(w) PROVE LockInv'
    BY <2>5 DEF Leave, Go
  <2>6. ASSUME NEW w \in Workers, Take(w) PROVE LockInv'
    BY <2>6 DEF Take, Go
  <2>7. ASSUME NEW w \in Workers, NestedSync(w) PROVE LockInv'
    BY <2>7 DEF NestedSync, Go, Push, NotifyOne, Await
  <2>8. ASSUME NEW w \in Workers, FutureGet(w, "body") PROVE LockInv'
    BY <2>8 DEF FutureGet, Go, Await
  <2>9. ASSUME NEW w \in Workers, Execute(w) PROVE LockInv'
    BY <2>9 DEF Execute
  <2>10. ASSUME NEW w \in Workers, SetValue(w) PROVE LockInv'
    BY <2>10 DEF SetValue, Go
  <2>11. ASSUME NEW w \in Workers, SpuriousWake(w) PROVE LockInv'
    BY <2>11 DEF SpuriousWake
  <2>12. ASSUME NEW c \in Clients, NEW t \in Tasks, RunTask(c, t) PROVE LockInv'
    BY <2>12 DEF RunTask, Push, NotifyOne
  <2>13. ASSUME NEW c \in Clients, NEW t \in Tasks, SyncTask(c, t) PROVE LockInv'
    BY <2>13 DEF SyncTask, Go, Push, NotifyOne, Await
  <2>14. ASSUME NEW c \in Clients, FutureGet(c, "idle") PROVE LockInv'
    BY <2>14 DEF FutureGet, Go, Await
  <2>15. CASE StopTest BY <2>15 DEF StopTest, Go
  <2>16. CASE StopSet BY <2>16 DEF StopSet, Go
  <2>17. CASE StopNotify BY <2>17 DEF StopNotify, Go
  <2>18. CASE StopJoin BY <2>18 DEF StopJoin, Go
  <2>19. CASE UNCHANGED vars BY <2>19 DEF vars
  <2> QED
    BY <2>1, <2>2, <2>3, <2>4, <2>5, <2>6, <2>7, <2>8, <2>9, <2>10, <2>11, <2>12,
       <2>13, <2>14, <2>15, <2>16, <2>17, <2>18, <2>19
    DEF Next, Worker, Client, Stop

\* taskMutex_ excludes, and what a worker tested under it still holds.
LEMMA LockInvariant == Spec => []LockInv
<1>1. Init => LockInv
  BY ThreadsAssumption
  DEF Init, LockInv, MutexHeld, BlockMeansEmpty, StopFlagged, ThreadsAssumption, Threads
<1>2. TypeInv /\ LockInv /\ [Next]_vars => LockInv'
  BY LockStep
<1> QED BY <1>1, <1>2, TypeInvariant, PTL DEF Spec

-----------------------------------------------------------------------------
\* After stop() has called notify_all, at most one worker can be asleep or
\* falling asleep, for any number of workers: the lost wake-up of stop() never
\* costs more than one.
THEOREM StopMissesAtMostOne == Spec => []AtMostOneMissesStop
<1> USE ThreadsAssumption, TasksAssumption
    DEF ThreadsAssumption, TasksAssumption, Threads
<1>1. Init => AtMostOneMissesStop
  BY DEF Init, AtMostOneMissesStop
<1>2. TypeInv /\ LockInv /\ AtMostOneMissesStop /\ [Next]_vars => AtMostOneMissesStop'
  <2> SUFFICES ASSUME TypeInv, LockInv, AtMostOneMissesStop, [Next]_vars
               PROVE AtMostOneMissesStop'
    OBVIOUS
  <2> USE DEF TypeInv, TypeOK, Places, LockInv, MutexHeld, BlockMeansEmpty, StopFlagged,
              AtMostOneMissesStop, WorkerPC, ClientPC, ResultVars
  <2>1. ASSUME NEW w \in Workers, LoopTest(w) PROVE AtMostOneMissesStop'
    BY <2>1 DEF LoopTest, Go
  <2>2. ASSUME NEW w \in Workers, Lock(w) PROVE AtMostOneMissesStop'
    BY <2>2 DEF Lock, Go
  <2>3. ASSUME NEW w \in Workers, Block(w) PROVE AtMostOneMissesStop'
    BY <2>3 DEF Block, Go
  <2>4. ASSUME NEW w \in Workers, Wait(w) PROVE AtMostOneMissesStop'
    BY <2>4 DEF Wait, Go
  <2>5. ASSUME NEW w \in Workers, Leave(w) PROVE AtMostOneMissesStop'
    BY <2>5 DEF Leave, Go
  <2>6. ASSUME NEW w \in Workers, Take(w) PROVE AtMostOneMissesStop'
    BY <2>6 DEF Take, Go
  <2>7. ASSUME NEW w \in Workers, NestedSync(w) PROVE AtMostOneMissesStop'
    BY <2>7 DEF NestedSync, Go, Push, NotifyOne, Await
  <2>8. ASSUME NEW w \in Workers, FutureGet(w, "body") PROVE AtMostOneMissesStop'
    BY <2>8 DEF FutureGet, Go, Await
  <2>9. ASSUME NEW w \in Workers, Execute(w) PROVE AtMostOneMissesStop'
    BY <2>9 DEF Execute
  <2>10. ASSUME NEW w \in Workers, SetValue(w) PROVE AtMostOneMissesStop'
    BY <2>10 DEF SetValue, Go
  <2>11. ASSUME NEW w \in Workers, SpuriousWake(w) PROVE AtMostOneMissesStop'
    BY <2>11 DEF SpuriousWake
  <2>12. ASSUME NEW c \in Clients, NEW t \in Tasks, RunTask(c, t) PROVE AtMostOneMissesStop'
    BY <2>12 DEF RunTask, Push, NotifyOne
  <2>13. ASSUME NEW c \in Clients, NEW t \in Tasks, SyncTask(c, t) PROVE AtMostOneMissesStop'
    BY <2>13 DEF SyncTask, Go, Push, NotifyOne, Await
  <2>14. ASSUME NEW c \in Clients, FutureGet(c, "idle") PROVE AtMostOneMissesStop'
    BY <2>14 DEF FutureGet, Go, Await
  <2>15. CASE StopTest BY <2>15 DEF StopTest, Go
  <2>16. CASE StopSet BY <2>16 DEF StopSet, Go
  <2>17. CASE StopNotify BY <2>17 DEF StopNotify, Go
  <2>18. CASE StopJoin BY <2>18 DEF StopJoin, Go
  <2>19. CASE UNCHANGED vars BY <2>19 DEF vars
  <2> QED
    BY <2>1, <2>2, <2>3, <2>4, <2>5, <2>6, <2>7, <2>8, <2>9, <2>10, <2>11, <2>12,
       <2>13, <2>14, <2>15, <2>16, <2>17, <2>18, <2>19
    DEF Next, Worker, Client, Stop
<1> QED BY <1>1, <1>2, TypeInvariant, LockInvariant, PTL DEF Spec

-----------------------------------------------------------------------------
\* A promise is fulfilled only after its task was executed.
LEMMA PromiseInvariant == Spec => []PromiseAfterTask
<1> USE ThreadsAssumption, TasksAssumption
    DEF ThreadsAssumption, TasksAssumption, Threads
<1>1. Init => PromiseAfterTask
  BY DEF Init, PromiseAfterTask
<1>2. TypeInv /\ PromiseAfterTask /\ [Next]_vars => PromiseAfterTask'
  <2> SUFFICES ASSUME TypeInv, PromiseAfterTask, [Next]_vars PROVE PromiseAfterTask'
    OBVIOUS
  <2> USE DEF TypeInv, TypeOK, Places, PromiseAfterTask, WorkerPC, ClientPC, ResultVars
  <2>1. ASSUME NEW w \in Workers, LoopTest(w) PROVE PromiseAfterTask'
    BY <2>1 DEF LoopTest, Go
  <2>2. ASSUME NEW w \in Workers, Lock(w) PROVE PromiseAfterTask'
    BY <2>2 DEF Lock, Go
  <2>3. ASSUME NEW w \in Workers, Block(w) PROVE PromiseAfterTask'
    BY <2>3 DEF Block, Go
  <2>4. ASSUME NEW w \in Workers, Wait(w) PROVE PromiseAfterTask'
    BY <2>4 DEF Wait, Go
  <2>5. ASSUME NEW w \in Workers, Leave(w) PROVE PromiseAfterTask'
    BY <2>5 DEF Leave, Go
  <2>6. ASSUME NEW w \in Workers, Take(w) PROVE PromiseAfterTask'
    BY <2>6 DEF Take, Go
  <2>7. ASSUME NEW w \in Workers, NestedSync(w) PROVE PromiseAfterTask'
    BY <2>7 DEF NestedSync, Go, Push, NotifyOne, Await
  <2>8. ASSUME NEW w \in Workers, FutureGet(w, "body") PROVE PromiseAfterTask'
    BY <2>8 DEF FutureGet, Go, Await
  <2>9. ASSUME NEW w \in Workers, Execute(w) PROVE PromiseAfterTask'
    BY <2>9 DEF Execute
  <2>10. ASSUME NEW w \in Workers, SetValue(w) PROVE PromiseAfterTask'
    BY <2>10 DEF SetValue, Go
  <2>11. ASSUME NEW w \in Workers, SpuriousWake(w) PROVE PromiseAfterTask'
    BY <2>11 DEF SpuriousWake
  <2>12. ASSUME NEW c \in Clients, NEW t \in Tasks, RunTask(c, t) PROVE PromiseAfterTask'
    BY <2>12 DEF RunTask, Push, NotifyOne
  <2>13. ASSUME NEW c \in Clients, NEW t \in Tasks, SyncTask(c, t) PROVE PromiseAfterTask'
    BY <2>13 DEF SyncTask, Go, Push, NotifyOne, Await
  <2>14. ASSUME NEW c \in Clients, FutureGet(c, "idle") PROVE PromiseAfterTask'
    BY <2>14 DEF FutureGet, Go, Await
  <2>15. CASE StopTest BY <2>15 DEF StopTest, Go
  <2>16. CASE StopSet BY <2>16 DEF StopSet, Go
  <2>17. CASE StopNotify BY <2>17 DEF StopNotify, Go
  <2>18. CASE StopJoin BY <2>18 DEF StopJoin, Go
  <2>19. CASE UNCHANGED vars BY <2>19 DEF vars
  <2> QED
    BY <2>1, <2>2, <2>3, <2>4, <2>5, <2>6, <2>7, <2>8, <2>9, <2>10, <2>11, <2>12,
       <2>13, <2>14, <2>15, <2>16, <2>17, <2>18, <2>19
    DEF Next, Worker, Client, Stop
<1> QED BY <1>1, <1>2, TypeInvariant, PTL DEF Spec

\* syncTaskInQueue returns only after its task was executed, for any pool and
\* any nesting of synchronous tasks.
THEOREM SyncTheorem == Spec => SyncAfterExecution
<1> DEFINE Step == \A x \in Threads : pc[x] = "get" /\ pc'[x] # "get" => awaited[x] \in executed
<1> USE ThreadsAssumption, TasksAssumption
    DEF ThreadsAssumption, TasksAssumption, Threads
<1>1. TypeInv /\ PromiseAfterTask /\ [Next]_vars => [Step]_vars
  <2> SUFFICES ASSUME TypeInv, PromiseAfterTask, [Next]_vars PROVE Step \/ UNCHANGED vars
    OBVIOUS
  <2> USE DEF TypeInv, TypeOK, Places, PromiseAfterTask, WorkerPC, ClientPC, ResultVars
  <2>1. ASSUME NEW w \in Workers, LoopTest(w) PROVE Step
    BY <2>1 DEF LoopTest, Go
  <2>2. ASSUME NEW w \in Workers, Lock(w) PROVE Step
    BY <2>2 DEF Lock, Go
  <2>3. ASSUME NEW w \in Workers, Block(w) PROVE Step
    BY <2>3 DEF Block, Go
  <2>4. ASSUME NEW w \in Workers, Wait(w) PROVE Step
    BY <2>4 DEF Wait, Go
  <2>5. ASSUME NEW w \in Workers, Leave(w) PROVE Step
    BY <2>5 DEF Leave, Go
  <2>6. ASSUME NEW w \in Workers, Take(w) PROVE Step
    BY <2>6 DEF Take, Go
  <2>7. ASSUME NEW w \in Workers, NestedSync(w) PROVE Step
    BY <2>7 DEF NestedSync, Go, Push, NotifyOne, Await
  <2>8. ASSUME NEW w \in Workers, FutureGet(w, "body") PROVE Step
    BY <2>8 DEF FutureGet, Go, Await
  <2>9. ASSUME NEW w \in Workers, Execute(w) PROVE Step
    BY <2>9 DEF Execute
  <2>10. ASSUME NEW w \in Workers, SetValue(w) PROVE Step
    BY <2>10 DEF SetValue, Go
  <2>11. ASSUME NEW w \in Workers, SpuriousWake(w) PROVE Step
    BY <2>11 DEF SpuriousWake
  <2>12. ASSUME NEW c \in Clients, NEW t \in Tasks, RunTask(c, t) PROVE Step
    BY <2>12 DEF RunTask, Push, NotifyOne
  <2>13. ASSUME NEW c \in Clients, NEW t \in Tasks, SyncTask(c, t) PROVE Step
    BY <2>13 DEF SyncTask, Go, Push, NotifyOne, Await
  <2>14. ASSUME NEW c \in Clients, FutureGet(c, "idle") PROVE Step
    BY <2>14 DEF FutureGet, Go, Await
  <2>15. CASE StopTest BY <2>15 DEF StopTest, Go
  <2>16. CASE StopSet BY <2>16 DEF StopSet, Go
  <2>17. CASE StopNotify BY <2>17 DEF StopNotify, Go
  <2>18. CASE StopJoin BY <2>18 DEF StopJoin, Go
  <2>19. CASE UNCHANGED vars BY <2>19
  <2> QED
    BY <2>1, <2>2, <2>3, <2>4, <2>5, <2>6, <2>7, <2>8, <2>9, <2>10, <2>11, <2>12,
       <2>13, <2>14, <2>15, <2>16, <2>17, <2>18, <2>19
    DEF Next, Worker, Client, Stop
<1> QED BY <1>1, TypeInvariant, PromiseInvariant, PTL DEF Spec, SyncAfterExecution

-----------------------------------------------------------------------------
(* No wake-up is lost.  Awake is compared before and after each step: a    *)
(* worker leaves it only by taking a task off the queue, by finding the    *)
(* queue empty, or when the pool stops; a push that finds a sleeper adds   *)
(* that sleeper.                                                           *)

\* The workers awake are finitely many, before and after a step.
LEMMA AwakeFinite ==
  /\ IsFiniteSet(Awake) /\ IsFiniteSet(Awake')
  /\ Cardinality(Awake) \in Nat /\ Cardinality(Awake') \in Nat
  /\ Awake \subseteq Awake' => Cardinality(Awake) <= Cardinality(Awake')
<1>1. Awake \subseteq Workers /\ Awake' \subseteq Workers
  BY DEF Awake
<1>2. IsFiniteSet(Awake) /\ IsFiniteSet(Awake')
  BY <1>1, ThreadsAssumption, FS_Subset DEF ThreadsAssumption
<1> QED BY <1>2, FS_CardinalityType, FS_Subset

\* A step that leaves the queue alone and puts no awake worker to sleep keeps a
\* worker per task.
LEMMA SameWorkers ==
  ASSUME WakeupPerTask, Awake \subseteq Awake', taskQueue_ \in Seq(Tasks),
         UNCHANGED taskQueue_, stop_ => stop_', waiters' \subseteq waiters
  PROVE  WakeupPerTask'
<1> Len(taskQueue_) \in Nat
  OBVIOUS
<1> QED BY AwakeFinite DEF WakeupPerTask

\* A push adds a task and, if anybody sleeps, an awake worker for it.
LEMMA PushWakes ==
  ASSUME TypeInv, WakeupPerTask, NEW t \in Tasks, Push(t),
         \A w \in Workers : pc'[w] = pc[w] \/ (pc[w] = "run" /\ pc'[w] = "get")
  PROVE  WakeupPerTask'
<1>1. Len(taskQueue_') = Len(taskQueue_) + 1 /\ stop_' = stop_ /\ Len(taskQueue_) \in Nat
  BY DEF Push, TypeInv, TypeOK
<1>2. CASE waiters = {}
  BY <1>2 DEF Push, NotifyOne, WakeupPerTask
<1>3. CASE waiters # {}
  <2>1. PICK w \in waiters : waiters' = waiters \ {w}
    BY <1>3 DEF Push, NotifyOne
  <2>2. w \in Workers /\ pc[w] = "wait" /\ w \notin Awake
    BY <2>1 DEF TypeInv, TypeOK, Places, Awake
  <2>3. Awake \cup {w} \subseteq Awake'
    BY <2>1, <2>2 DEF Awake
  <2>4. Cardinality(Awake \cup {w}) = Cardinality(Awake) + 1
    BY <2>2, AwakeFinite, FS_AddElement
  <2>5. Cardinality(Awake) + 1 <= Cardinality(Awake')
    BY <2>3, <2>4, AwakeFinite, FS_Subset
  <2> QED BY <1>1, <1>3, <2>5, AwakeFinite DEF WakeupPerTask
<1> QED BY <1>2, <1>3

\* As long as the pool runs, either nobody sleeps or every queued task has an
\* awake worker of its own: notify_one per push is enough, for any number of
\* workers, clients and tasks, spurious wake-ups and nested synchronous tasks.
THEOREM NoLostWakeup == Spec => []WakeupPerTask
<1> USE ThreadsAssumption, TasksAssumption
    DEF ThreadsAssumption, TasksAssumption, Threads
<1>1. Init => WakeupPerTask
  BY DEF Init, WakeupPerTask
<1>2. TypeInv /\ LockInv /\ WakeupPerTask /\ [Next]_vars => WakeupPerTask'
  <2> SUFFICES ASSUME TypeInv, LockInv, WakeupPerTask, [Next]_vars PROVE WakeupPerTask'
    OBVIOUS
  <2>0. taskQueue_ \in Seq(Tasks) /\ Len(taskQueue_) \in Nat /\ pc \in [Threads -> WorkerPC \cup ClientPC]
    BY DEF TypeInv, TypeOK
  <2>1. ASSUME NEW w \in Workers, LoopTest(w) PROVE WakeupPerTask'
    <3>1. CASE stop_ BY <2>1, <3>1 DEF LoopTest, WakeupPerTask
    <3>2. CASE ~stop_
      <4>1. Awake \subseteq Awake'
        BY <2>0, <2>1, <3>2 DEF LoopTest, Go, Awake
      <4> QED BY <2>0, <2>1, <4>1, SameWorkers DEF LoopTest
    <3> QED BY <3>1, <3>2
  <2>2. ASSUME NEW w \in Workers, Lock(w) PROVE WakeupPerTask'
    <3>1. Awake \subseteq Awake'
      BY <2>0, <2>2 DEF Lock, Go, Awake
    <3> QED BY <2>0, <2>2, <3>1, SameWorkers DEF Lock
  <2>3. ASSUME NEW w \in Workers, Block(w) PROVE WakeupPerTask'
    <3>1. Len(taskQueue_') = 0
      BY <2>3 DEF Block
    <3> QED BY <3>1, AwakeFinite DEF WakeupPerTask
  <2>4. ASSUME NEW w \in Workers, Wait(w) PROVE WakeupPerTask'
    <3>1. Len(taskQueue_') = 0
      BY <2>4 DEF Wait, Go, LockInv, BlockMeansEmpty
    <3> QED BY <3>1, AwakeFinite DEF WakeupPerTask
  <2>5. ASSUME NEW w \in Workers, Leave(w) PROVE WakeupPerTask'
    BY <2>5 DEF Leave, WakeupPerTask
  <2>6. ASSUME NEW w \in Workers, Take(w) PROVE WakeupPerTask'
    <3>1. Len(taskQueue_') = Len(taskQueue_) - 1 /\ UNCHANGED <<stop_, waiters>>
      BY <2>0, <2>6 DEF Take
    <3>2. w \in Awake /\ Awake' = Awake \ {w}
      BY <2>0, <2>6 DEF Take, Go, Awake
    <3>3. Cardinality(Awake') = Cardinality(Awake) - 1
      BY <3>2, AwakeFinite, FS_RemoveElement
    <3> QED BY <2>0, <3>1, <3>3, AwakeFinite DEF WakeupPerTask
  <2>7. ASSUME NEW w \in Workers, NestedSync(w) PROVE WakeupPerTask'
    <3>1. Child[task[w]] \in Tasks
      BY <2>7 DEF NestedSync, Go, TypeInv, Places
    <3>2. \A v \in Workers : pc'[v] = pc[v] \/ (pc[v] = "run" /\ pc'[v] = "get")
      BY <2>0, <2>7 DEF NestedSync, Go
    <3> QED BY <2>7, <3>1, <3>2, PushWakes DEF NestedSync
  <2>8. ASSUME NEW x \in Threads, NEW back, FutureGet(x, back) PROVE WakeupPerTask'
    <3>1. Awake \subseteq Awake'
      BY <2>0, <2>8 DEF FutureGet, Go, Awake
    <3> QED BY <2>0, <2>8, <3>1, SameWorkers DEF FutureGet
  <2>9. ASSUME NEW w \in Workers, Execute(w) PROVE WakeupPerTask'
    <3>1. Awake \subseteq Awake'
      BY <2>0, <2>9 DEF Execute, Awake
    <3> QED BY <2>0, <2>9, <3>1, SameWorkers DEF Execute
  <2>10. ASSUME NEW w \in Workers, SetValue(w) PROVE WakeupPerTask'
    <3>1. Awake \subseteq Awake'
      BY <2>0, <2>10 DEF SetValue, Go, Awake
    <3> QED BY <2>0, <2>10, <3>1, SameWorkers DEF SetValue
  <2>11. ASSUME NEW w \in Workers, SpuriousWake(w) PROVE WakeupPerTask'
    <3>1. Awake \subseteq Awake'
      BY <2>0, <2>11 DEF SpuriousWake, Awake
    <3> QED BY <2>0, <2>11, <3>1, SameWorkers DEF SpuriousWake
  <2>12. ASSUME NEW c \in Clients, NEW t \in Tasks, RunTask(c, t) PROVE WakeupPerTask'
    <3>1. \A v \in Workers : pc'[v] = pc[v]
      BY <2>12 DEF RunTask
    <3> QED BY <2>12, <3>1, PushWakes DEF RunTask
  <2>13. ASSUME NEW c \in Clients, NEW t \in Tasks, SyncTask(c, t) PROVE WakeupPerTask'
    <3>1. \A v \in Workers : pc'[v] = pc[v]
      BY <2>0, <2>13 DEF SyncTask, Go
    <3> QED BY <2>13, <3>1, PushWakes DEF SyncTask
  <2>14. ASSUME StopTest \/ StopJoin PROVE WakeupPerTask'
    <3>1. Awake \subseteq Awake'
      BY <2>0, <2>14 DEF StopTest, StopJoin, Go, Awake
    <3> QED BY <2>0, <2>14, <3>1, SameWorkers DEF StopTest, StopJoin
  <2>15. CASE StopSet BY <2>15 DEF StopSet, WakeupPerTask
  <2>16. CASE StopNotify BY <2>16 DEF StopNotify, WakeupPerTask
  <2>17. CASE UNCHANGED vars BY <2>17 DEF vars, WakeupPerTask, Awake
  <2> QED
    BY <2>1, <2>2, <2>3, <2>4, <2>5, <2>6, <2>7, <2>8, <2>9, <2>10, <2>11, <2>12,
       <2>13, <2>14, <2>15, <2>16, <2>17
    DEF Next, Worker, Client, Stop
<1> QED BY <1>1, <1>2, TypeInvariant, LockInvariant, PTL DEF Spec

-----------------------------------------------------------------------------
(* Every task is in one place, and the pool implements TaskPool *)

\* The elements of a queue, and that none is in it twice.
Elems(q) == {q[i] : i \in 1..Len(q)}
Distinct(q) == \A i, j \in 1..Len(q) : q[i] = q[j] => i = j

\* Appending a new element adds it and repeats none.
LEMMA AppendElems ==
  ASSUME NEW q \in Seq(Tasks), NEW t \in Tasks
  PROVE  /\ Elems(Append(q, t)) = Elems(q) \cup {t}
         /\ Distinct(q) /\ t \notin Elems(q) => Distinct(Append(q, t))
<1>1. /\ Append(q, t) \in Seq(Tasks) /\ Len(Append(q, t)) = Len(q) + 1 /\ Len(q) \in Nat
      /\ \A i \in 1..Len(q) : Append(q, t)[i] = q[i]
      /\ Append(q, t)[Len(q) + 1] = t
  OBVIOUS
<1>2. Elems(Append(q, t)) = Elems(q) \cup {t}
  <2>1. ASSUME NEW i \in 1..(Len(q) + 1) PROVE i \in 1..Len(q) \/ i = Len(q) + 1
    BY <1>1
  <2> QED BY <1>1, <2>1 DEF Elems
<1>3. ASSUME Distinct(q), t \notin Elems(q) PROVE Distinct(Append(q, t))
  BY <1>1, <1>3 DEF Distinct, Elems
<1> QED BY <1>2, <1>3

\* Removing the head removes it and no other element.
LEMMA TailElems ==
  ASSUME NEW q \in Seq(Tasks), q # <<>>, Distinct(q)
  PROVE  /\ Head(q) \in Elems(q)
         /\ Elems(Tail(q)) = Elems(q) \ {Head(q)}
         /\ Distinct(Tail(q))
<1>1. /\ Tail(q) \in Seq(Tasks) /\ Len(Tail(q)) = Len(q) - 1 /\ Len(q) \in Nat \ {0}
      /\ \A i \in 1..(Len(q) - 1) : Tail(q)[i] = q[i + 1]
      /\ Head(q) = q[1]
  OBVIOUS
<1>2. Head(q) \in Elems(q)
  BY <1>1 DEF Elems
<1>3. Distinct(Tail(q))
  BY <1>1 DEF Distinct
<1>4. Elems(Tail(q)) \subseteq Elems(q) \ {Head(q)}
  BY <1>1 DEF Elems, Distinct
<1>5. Elems(q) \ {Head(q)} \subseteq Elems(Tail(q))
  <2> SUFFICES ASSUME NEW i \in 1..Len(q), i # 1 PROVE q[i] \in Elems(Tail(q))
    BY <1>1 DEF Elems
  <2>1. i - 1 \in 1..Len(Tail(q)) /\ Tail(q)[i - 1] = q[i]
    BY <1>1
  <2> QED BY <2>1 DEF Elems
<1> QED BY <1>2, <1>3, <1>4, <1>5

\* A worker between tasks holds none.
HandsEmpty == \A w \in Workers : task[w] = NoTask <=> pc[w] \notin {"run", "get", "body", "set"}

ConserveInv == TaskConservation /\ HandsEmpty

\* A push puts the new task into the queue and nowhere else.
LEMMA PushConserves ==
  ASSUME TypeInv, ConserveInv, NEW t \in Tasks, Push(t),
         \A w \in Workers : pc'[w] = pc[w] \/ (pc[w] = "run" /\ pc'[w] = "get")
  PROVE  ConserveInv'
<1>1. /\ taskQueue_' = Append(taskQueue_, t) /\ taskQueue_ \in Seq(Tasks)
      /\ submitted' = submitted \cup {t} /\ t \notin submitted
      /\ UNCHANGED <<task, executed>>
  BY DEF Push, TypeInv, TypeOK
<1>2. Queued = Elems(taskQueue_) /\ Queued' = Elems(taskQueue_')
  BY DEF Queued, Elems
<1>3. Held' = Held
  BY <1>1 DEF Held
<1>4. Distinct(taskQueue_) /\ t \notin Elems(taskQueue_)
  BY <1>1, <1>2 DEF ConserveInv, TaskConservation, Distinct
<1>5. Queued' = Queued \cup {t} /\ Distinct(taskQueue_')
  BY <1>1, <1>2, <1>4, AppendElems
<1>6. TaskConservation'
  BY <1>1, <1>3, <1>5 DEF ConserveInv, TaskConservation, Distinct
<1>7. HandsEmpty'
  BY <1>1 DEF ConserveInv, HandsEmpty
<1> QED BY <1>6, <1>7 DEF ConserveInv

\* The taker moves the head of the queue into its hands.
LEMMA TakeConserves ==
  ASSUME TypeInv, PromiseAfterTask, ConserveInv, NEW w \in Workers, Take(w)
  PROVE  /\ ConserveInv'
         /\ Held' = Held \cup {Head(taskQueue_)}
<1> DEFINE h == Head(taskQueue_)
<1>1. /\ taskQueue_ \in Seq(Tasks) /\ taskQueue_ # <<>> /\ h \in Tasks
      /\ taskQueue_' = Tail(taskQueue_)
      /\ task' = [task EXCEPT ![w] = h] /\ task \in [Workers -> Tasks \cup {NoTask}]
      /\ pc[w] = "test" /\ pc' = [pc EXCEPT ![w] = "run"]
      /\ pc \in [Threads -> WorkerPC \cup ClientPC] /\ Workers \subseteq Threads
      /\ UNCHANGED <<executed, submitted>> /\ NoTask \notin Tasks
  BY TasksAssumption DEF Take, Go, TypeInv, TypeOK, ResultVars, Threads, TasksAssumption
<1>2. Queued = Elems(taskQueue_) /\ Queued' = Elems(taskQueue_')
  BY DEF Queued, Elems
<1>3. Distinct(taskQueue_)
  BY DEF ConserveInv, TaskConservation, Distinct
<1>4. h \in Queued /\ Queued' = Queued \ {h} /\ Distinct(taskQueue_')
  BY <1>1, <1>2, <1>3, TailElems
<1>5. Held' = Held \cup {h}
  BY <1>1 DEF Held
<1>6. \A v \in Workers : task[v] # h
  <2> SUFFICES ASSUME NEW v \in Workers, task[v] = h PROVE FALSE
    OBVIOUS
  <2>1. pc[v] \in {"run", "get", "body", "set"}
    BY <1>1 DEF ConserveInv, HandsEmpty
  <2>2. h \in Held \cup executed
    BY <2>1 DEF Held, PromiseAfterTask
  <2> QED BY <1>4, <2>2 DEF ConserveInv, TaskConservation
<1>7. TaskConservation'
  <2>1. /\ submitted' = (Queued \cup Held \cup executed)'
        /\ (Queued \cap Held = {})' /\ (Queued \cap executed = {})' /\ (Held \cap executed = {})'
    BY <1>1, <1>4, <1>5 DEF ConserveInv, TaskConservation
  <2>2. (\A u, v \in Workers : task[u] # NoTask /\ task[u] = task[v] => u = v)'
    BY <1>1, <1>6 DEF ConserveInv, TaskConservation
  <2> QED BY <1>4, <2>1, <2>2 DEF TaskConservation, Distinct
<1>8. HandsEmpty'
  BY <1>1 DEF ConserveInv, HandsEmpty
<1> QED BY <1>5, <1>7, <1>8 DEF ConserveInv

\* A task that ends leaves its worker's hands for the executed ones.
LEMMA ExecuteConserves ==
  ASSUME TypeInv, ConserveInv, NEW w \in Workers, Execute(w)
  PROVE  /\ ConserveInv'
         /\ task[w] \in Held /\ Held' = Held \ {task[w]}
<1> DEFINE t == task[w]
<1>1. /\ pc[w] \in {"run", "body"} /\ pc \in [Threads -> WorkerPC \cup ClientPC]
      /\ Workers \subseteq Threads
      /\ task \in [Workers -> Tasks \cup {NoTask}] /\ t \in Tasks /\ NoTask \notin Tasks
      /\ executed' = executed \cup {t} /\ UNCHANGED <<taskQueue_, submitted>>
      /\ \/ pc' = [pc EXCEPT ![w] = "set"] /\ task' = task
         \/ pc' = [pc EXCEPT ![w] = "loop"] /\ task' = [task EXCEPT ![w] = NoTask]
  BY TasksAssumption DEF Execute, TypeInv, TypeOK, Places, Threads, TasksAssumption
<1>2. Queued' = Queued
  BY <1>1 DEF Queued
<1>3. t \in Held
  BY <1>1 DEF Held
<1>4. \A v \in Workers : v # w => task[v] # t
  BY <1>1 DEF ConserveInv, TaskConservation
<1>5. Held' = Held \ {t}
  <2>1. \A v \in Workers : v # w => task'[v] = task[v] /\ pc'[v] = pc[v]
    BY <1>1
  <2>2. pc'[w] \notin {"run", "get", "body"}
    BY <1>1
  <2>3. Held' \subseteq Held \ {t}
    BY <1>4, <2>1, <2>2 DEF Held
  <2>4. Held \ {t} \subseteq Held'
    BY <2>1 DEF Held
  <2> QED BY <2>3, <2>4
<1>6. TaskConservation'
  <2>1. /\ submitted' = (Queued \cup Held \cup executed)'
        /\ (Queued \cap Held = {})' /\ (Queued \cap executed = {})' /\ (Held \cap executed = {})'
    BY <1>1, <1>2, <1>3, <1>5 DEF ConserveInv, TaskConservation
  <2>2. (\A u, v \in Workers : task[u] # NoTask /\ task[u] = task[v] => u = v)'
    BY <1>1 DEF ConserveInv, TaskConservation
  <2> QED BY <1>1, <2>1, <2>2 DEF ConserveInv, TaskConservation
<1>7. HandsEmpty'
  BY <1>1 DEF ConserveInv, HandsEmpty
<1> QED BY <1>3, <1>5, <1>6, <1>7 DEF ConserveInv

\* The steps that neither push, nor take, nor finish a task.
OtherStep ==
  \/ \E w \in Workers : LoopTest(w) \/ Lock(w) \/ Block(w) \/ Wait(w) \/ Leave(w)
                          \/ SetValue(w) \/ SpuriousWake(w)
  \/ \E x \in Workers : FutureGet(x, "body")
  \/ \E c \in Clients : FutureGet(c, "idle")
  \/ StopTest \/ Stop \/ UNCHANGED vars

\* No other step moves a task.
LEMMA OthersConserve ==
  ASSUME TypeInv, PromiseAfterTask, ConserveInv, OtherStep
  PROVE  ConserveInv' /\ Held' = Held /\ UNCHANGED <<taskQueue_, executed>>
<1> USE ThreadsAssumption, TasksAssumption
    DEF ThreadsAssumption, TasksAssumption, Threads, WorkerPC, ClientPC, ResultVars
<1>1. UNCHANGED <<taskQueue_, executed, submitted>>
  BY DEF OtherStep, LoopTest, Lock, Block, Wait, Leave, SetValue, SpuriousWake, FutureGet,
         StopTest, Stop, StopSet, StopNotify, StopJoin, vars
<1>2. /\ \A w \in Workers : (pc'[w] \in {"run", "get", "body"}) = (pc[w] \in {"run", "get", "body"})
      /\ \A w \in Workers : task'[w] = task[w] \/ (pc[w] = "set" /\ task'[w] = NoTask)
      /\ HandsEmpty'
  <2> USE DEF TypeInv, TypeOK, Places, ConserveInv, HandsEmpty
  <2>1. ASSUME NEW w \in Workers, LoopTest(w) \/ Lock(w) \/ Block(w) PROVE <1>2!1 /\ <1>2!2 /\ <1>2!3
    BY <2>1 DEF LoopTest, Lock, Block, Go
  <2>2. ASSUME NEW w \in Workers, Wait(w) \/ Leave(w) \/ SpuriousWake(w) PROVE <1>2!1 /\ <1>2!2 /\ <1>2!3
    BY <2>2 DEF Wait, Leave, SpuriousWake, Go
  <2>3. ASSUME NEW w \in Workers, SetValue(w) PROVE <1>2!1 /\ <1>2!2 /\ <1>2!3
    BY <2>3 DEF SetValue, Go
  <2>4. ASSUME NEW w \in Workers, FutureGet(w, "body") PROVE <1>2!1 /\ <1>2!2 /\ <1>2!3
    BY <2>4 DEF FutureGet, Go
  <2>5. ASSUME NEW c \in Clients, FutureGet(c, "idle") PROVE <1>2!1 /\ <1>2!2 /\ <1>2!3
    BY <2>5 DEF FutureGet, Go
  <2>6. ASSUME StopTest \/ Stop PROVE <1>2!1 /\ <1>2!2 /\ <1>2!3
    BY <2>6 DEF StopTest, Stop, StopSet, StopNotify, StopJoin, Go
  <2>7. CASE UNCHANGED vars
    BY <2>7 DEF vars
  <2> QED BY <2>1, <2>2, <2>3, <2>4, <2>5, <2>6, <2>7 DEF OtherStep
<1>3. Held' = Held
  BY <1>2 DEF Held
<1>4. Queued' = Queued
  BY <1>1 DEF Queued
<1>5. TaskConservation'
  BY <1>1, <1>2, <1>3, <1>4 DEF ConserveInv, TaskConservation
<1> QED BY <1>1, <1>2, <1>3, <1>5 DEF ConserveInv

\* A push is made by a client, or by a worker inside its task.
LEMMA PushedBy ==
  ASSUME TypeInv, \/ \E w \in Workers : NestedSync(w)
                  \/ \E c \in Clients, t \in Tasks : RunTask(c, t) \/ SyncTask(c, t)
  PROVE  /\ \E t \in Tasks : Push(t)
         /\ \A w \in Workers : pc'[w] = pc[w] \/ (pc[w] = "run" /\ pc'[w] = "get")
<1> USE ThreadsAssumption DEF ThreadsAssumption, Threads, TypeInv, TypeOK, Places
<1>1. ASSUME NEW w \in Workers, NestedSync(w)
      PROVE  /\ \E t \in Tasks : Push(t)
             /\ \A v \in Workers : pc'[v] = pc[v] \/ (pc[v] = "run" /\ pc'[v] = "get")
  <2>1. Child[task[w]] \in Tasks /\ Push(Child[task[w]])
    BY <1>1, TasksAssumption DEF NestedSync, Go, TasksAssumption
  <2>2. pc' = [pc EXCEPT ![w] = "get"] /\ pc[w] = "run"
    BY <1>1 DEF NestedSync, Go
  <2> QED BY <2>1, <2>2
<1>2. ASSUME NEW c \in Clients, NEW t \in Tasks, RunTask(c, t) \/ SyncTask(c, t)
      PROVE  /\ \E u \in Tasks : Push(u)
             /\ \A v \in Workers : pc'[v] = pc[v]
  <2>1. Push(t)
    BY <1>2 DEF RunTask, SyncTask
  <2>2. \A v \in Workers : pc'[v] = pc[v]
    BY <1>2 DEF RunTask, SyncTask, Go
  <2> QED BY <2>1, <2>2
<1> QED BY <1>1, <1>2

\* Every step is of one of these kinds.
LEMMA StepKinds ==
  [Next]_vars => \/ OtherStep
                 \/ \E w \in Workers : Take(w) \/ Execute(w) \/ NestedSync(w)
                 \/ \E c \in Clients, t \in Tasks : RunTask(c, t) \/ SyncTask(c, t)
  BY DEF Next, Worker, Client, Stop, OtherStep

\* Every task is in one place, and a worker between tasks holds none.
LEMMA ConserveInvariant == Spec => []ConserveInv
<1>1. Init => ConserveInv
  <2> SUFFICES ASSUME Init PROVE ConserveInv
    OBVIOUS
  <2>1. /\ \A w \in Workers : pc[w] = "loop" /\ task[w] = NoTask
        /\ Len(taskQueue_) = 0 /\ submitted = {} /\ executed = {}
    BY DEF Init, Threads
  <2>2. Held = {} /\ Queued = {}
    BY <2>1 DEF Held, Queued
  <2>3. TaskConservation
    BY <2>1, <2>2 DEF TaskConservation
  <2>4. HandsEmpty
    BY <2>1 DEF HandsEmpty
  <2> QED BY <2>3, <2>4 DEF ConserveInv
<1>2. TypeInv /\ PromiseAfterTask /\ ConserveInv /\ [Next]_vars => ConserveInv'
  BY StepKinds, PushedBy, PushConserves, TakeConserves, ExecuteConserves, OthersConserve
<1> QED BY <1>1, <1>2, TypeInvariant, PromiseInvariant, PTL DEF Spec

\* A submitted task is queued, in one worker's hands, or executed, and in one
\* of these places only: queueFunc loses no task and runs none twice.
THEOREM TasksConserved == Spec => []TaskConservation
  BY ConserveInvariant, PTL DEF ConserveInv

\* The pool implements TaskPool: tasks start in the order of their submission.
THEOREM Refinement == Spec => PoolSpec
<1>1. Init => Pool!PoolInit
  BY ThreadsAssumption DEF Init, Pool!PoolInit, Held, Threads, ThreadsAssumption
<1>2. TypeInv /\ PromiseAfterTask /\ ConserveInv /\ [Next]_vars => [Pool!PoolNext]_Pool!poolVars
  <2> SUFFICES ASSUME TypeInv, PromiseAfterTask, ConserveInv, [Next]_vars
               PROVE  [Pool!PoolNext]_Pool!poolVars
    OBVIOUS
  <2>1. CASE OtherStep
    BY <2>1, OthersConserve DEF Pool!poolVars
  <2>2. ASSUME NEW w \in Workers, Take(w) PROVE Pool!PoolNext
    <3>1. Held' = Held \cup {Head(taskQueue_)}
      BY <2>2, TakeConserves
    <3>2. taskQueue_ # <<>> /\ taskQueue_' = Tail(taskQueue_) /\ UNCHANGED executed
      BY <2>2 DEF Take, ResultVars
    <3> QED BY <3>1, <3>2 DEF Pool!PoolNext, Pool!Start
  <2>3. ASSUME NEW w \in Workers, Execute(w) PROVE Pool!PoolNext
    <3>1. task[w] \in Held /\ Held' = Held \ {task[w]} /\ task[w] \in Tasks
      BY <2>3, ExecuteConserves DEF Execute, TypeInv, Places
    <3>2. executed' = executed \cup {task[w]} /\ UNCHANGED taskQueue_
      BY <2>3 DEF Execute
    <3> QED BY <3>1, <3>2 DEF Pool!PoolNext, Pool!Finish
  <2>4. ASSUME NEW t \in Tasks, Push(t),
               \A w \in Workers : pc'[w] = pc[w] \/ (pc[w] = "run" /\ pc'[w] = "get")
        PROVE  Pool!PoolNext
    <3>1. /\ taskQueue_' = Append(taskQueue_, t) /\ t \notin submitted
          /\ UNCHANGED <<task, executed>>
      BY <2>4 DEF Push
    <3>2. Held' = Held
      BY <2>4, <3>1 DEF Held
    <3>3. ~Pool!Known(t)
      <4>1. t \notin Held \cup executed /\ t \notin Queued
        BY <3>1 DEF ConserveInv, TaskConservation
      <4>2. DOMAIN taskQueue_ = 1..Len(taskQueue_)
        BY DEF TypeInv, TypeOK
      <4> QED BY <4>1, <4>2 DEF Pool!Known, Queued
    <3> QED BY <3>1, <3>2, <3>3 DEF Pool!PoolNext, Pool!Accept
  <2> QED BY <2>1, <2>2, <2>3, <2>4, StepKinds, PushedBy
<1> QED BY <1>1, <1>2, TypeInvariant, PromiseInvariant, ConserveInvariant, PTL
        DEF Spec, PoolSpec, Pool!PoolSpec
=============================================================================
