---------------------------- MODULE MCObjectPool ----------------------------
(* Small instances of ObjectPool for TLC. *)
EXTENDS ObjectPool, TLC

\* Threads are all alike, and so are addresses of objects.
ThreadAndObjectSymmetry == Permutations(Threads) \cup Permutations(Objects)
=============================================================================
