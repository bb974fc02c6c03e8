------------------------------ MODULE TaskPool ------------------------------
(***************************************************************************)
(* What a task queue promises its users: a task is accepted once, tasks    *)
(* are started in the order they were accepted, and a task finishes only   *)
(* after it was started, once.  Nothing is said of how many threads run    *)
(* tasks, of locks, or of waking anybody up.                               *)
(***************************************************************************)
EXTENDS Sequences

CONSTANTS Tasks

VARIABLES pending, running, finished

poolVars == <<pending, running, finished>>

PoolInit ==
  /\ pending = <<>>
  /\ running = {}
  /\ finished = {}

Known(t) == t \in running \cup finished \/ \E i \in DOMAIN pending : pending[i] = t

Accept(t) ==
  /\ ~Known(t)
  /\ pending' = Append(pending, t)
  /\ UNCHANGED <<running, finished>>

Start ==
  /\ pending # <<>>
  /\ running' = running \cup {Head(pending)}
  /\ pending' = Tail(pending)
  /\ UNCHANGED finished

Finish(t) ==
  /\ t \in running
  /\ running' = running \ {t}
  /\ finished' = finished \cup {t}
  /\ UNCHANGED pending

PoolNext == Start \/ \E t \in Tasks : Accept(t) \/ Finish(t)

PoolSpec == PoolInit /\ [][PoolNext]_poolVars
=============================================================================
