---------------------------- MODULE MCTenantPlan ----------------------------
(* Small instances of TenantPlan. *)
EXTENDS TenantPlan

CONSTANTS starter, growth_tier, enterprise

MCCap ==
  [p \in Plans |-> [r \in Resources |->
     CASE p = starter     -> 1
       [] p = growth_tier -> 2
       [] p = enterprise  -> Unlimited]]

=============================================================================
