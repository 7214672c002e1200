------------------------------ MODULE MCSched ------------------------------
(* Small instances of Sched for TLC. *)
EXTENDS Sched, TLC

CONSTANTS t1, t2, t3

ThreadSymmetry == Permutations(Threads)
============================================================================
