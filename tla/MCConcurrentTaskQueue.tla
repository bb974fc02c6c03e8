----------------------- MODULE MCConcurrentTaskQueue ------------------------
(* Small instances of ConcurrentTaskQueue for TLC. *)
EXTENDS ConcurrentTaskQueue, TLC

CONSTANTS w1, w2, w3, c1, c2, t1, t2, t3, t4, t5

\* The bodies of t1, t2 and t4 run t2, t3 and t5 with syncTaskInQueue: enough
\* to block three workers.
Nested == (t1 :> t2) @@ (t2 :> t3) @@ (t3 :> NoTask) @@ (t4 :> t5) @@ (t5 :> NoTask)
=============================================================================
