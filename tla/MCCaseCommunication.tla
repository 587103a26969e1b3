------------------------ MODULE MCCaseCommunication ------------------------
EXTENDS CaseCommunication

CONSTANTS t1, t2, owner, manager, cara, carl

MCRole == [u \in Staff |-> CASE u = owner -> "consultancy_owner"
                             [] u = manager -> "branch_manager"
                             [] OTHER -> "counselor"]

MCBranchOf == [u \in Staff |-> IF u = carl THEN "away" ELSE "home"]

Symmetry == Permutations(Threads)
=============================================================================
