-------------------------- MODULE MCAccountAccess --------------------------
(* Small instances of AccountAccess.  Threads are interchangeable.         *)
EXTENDS AccountAccess, TLC

ThreadSymmetry == Permutations(Threads)
=============================================================================
