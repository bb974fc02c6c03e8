----------------------------- MODULE MCLogger -------------------------------
(* A small instance of Logger for TLC. *)
EXTENDS Logger, TLC

CONSTANTS thread1, thread2, terminal, file

ThreadSymmetry == Permutations(Threads)
=============================================================================
