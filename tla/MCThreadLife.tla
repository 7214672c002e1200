---------------------------- MODULE MCThreadLife ----------------------------
(* Small instances of ThreadLife for TLC. *)
EXTENDS ThreadLife

CONSTANTS t1, t2, t3

LifeSymmetry == Permutations(Threads)
JoinerSymmetry == Permutations(Threads \ PsReaders)
=============================================================================
