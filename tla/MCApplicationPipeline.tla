----------------------- MODULE MCApplicationPipeline -----------------------
(* Small instances of ApplicationPipeline. *)
EXTENDS ApplicationPipeline

CONSTANTS t1, t2, owner, manager, cara, carl, rita, zed

MCRole ==
  [u \in Staff |->
     CASE u = owner          -> "consultancy_owner"
       [] u = manager        -> "branch_manager"
       [] u = rita           -> "receptionist"
       [] u \in {cara, carl, zed} -> "counselor"]

(* Everyone works in the application's branch but zed.                     *)
MCBranchOf == [u \in Staff |-> IF u = zed THEN "other" ELSE "home"]

(* The tenant blocks one default move and allows one the defaults lack.    *)
MCTenantRules ==
  {[from |-> "loan_processing", to |-> "withdrawn", is_active |-> FALSE],
   [from |-> "offer_letter", to |-> "loan_processing", is_active |-> TRUE]}

MCDeactivated == {<<"loan_processing", "rejected">>}

NoRules == {}

=============================================================================
