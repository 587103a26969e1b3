----------------------- MODULE MCCounselorAssignment -----------------------
(* Small instances of CounselorAssignment.  Threads are interchangeable;   *)
(* staff are not, ties go to the lowest id.                                *)
EXTENDS CounselorAssignment, TLC

ThreadSymmetry == Permutations(Threads)
=============================================================================
