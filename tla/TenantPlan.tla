----------------------------- MODULE TenantPlan -----------------------------
(***************************************************************************)
(* One tenant, its subscription plan and the rows the plan caps: branches, *)
(* staff and students (backend/app/services/plan_limits.py and the         *)
(* endpoints that create them), the super admin's plan assignment          *)
(* (routers/tenants.py), and the plan changes that paid upgrade orders     *)
(* bring about through the payment gateway's webhook (routers/billing.py,  *)
(* billing/plan_change.py).                                                *)
(*                                                                         *)
(* A creation counts the tenant's rows, reads the plan, compares, and      *)
(* inserts; each is a statement of its own, between which other requests   *)
(* commit.  A plan change writes one column of one row and is a single     *)
(* step.  The gateway delivers a payment's event at least once, in any     *)
(* order, and again until it is answered with a success.                   *)
(***************************************************************************)
EXTENDS Server, Integers, FiniteSets

CONSTANTS
  Resources,     \* a subset of {"branches", "staff", "students"}
  Plans,         \* the plan catalog
  NoPlan,        \* plan_id is NULL
  Cap,           \* [Plans -> [Resources -> Nat or Unlimited]]
  Unlimited,     \* the column is NULL
  StartPlans,    \* plans a tenant may have when it starts to grow
  MaxCreations,  \* bound: creations
  MaxOrders,     \* bound: upgrade orders
  MaxDeliveries, \* bound: accepted deliveries of one payment
  MaxGrants,     \* bound: assignments by the super admin
  MaxSwitches,   \* bound: (de)activations of staff
  MaxFailures    \* bound: failed commits and crashes

ASSUME TenantAssumption ==
  /\ IsFiniteSet(Threads) /\ Threads # {} /\ Resources # {}
  /\ NoPlan \notin Plans
  /\ StartPlans \subseteq Plans \cup {NoPlan}
  /\ Unlimited \notin Nat
  /\ Cap \in [Plans -> [Resources -> Nat \cup {Unlimited}]]
  /\ {MaxCreations, MaxOrders, MaxDeliveries, MaxGrants, MaxSwitches, MaxFailures}
       \subseteq Nat

VARIABLES
  used,        \* rows of each resource, the inactive ones included
  inactive,    \* how many staff accounts are deactivated
  plan,        \* Tenant.plan_id
  plansHad,    \* every plan the tenant has had (history variable)
  retired,     \* plans with is_active false
  orders,      \* upgrade orders at the gateway, as <<number, plan>>
  captured,    \* those that are paid
  deliveries,  \* accepted deliveries of each order's event
  granted,     \* plans the super admin has assigned (history variable)
  creating,    \* the resource each thread creates and the rows it counted
  creations,   \* creations received so far
  grants,      \* assignments so far
  switches,    \* (de)activations so far
  failures     \* failures so far

growth == <<used, inactive, at, creating, creations, switches>>

money == <<retired, orders, captured, deliveries>>

tenancy == <<plan, plansHad, granted, grants>>

planVars == <<growth, money, tenancy, failures>>

CreationSteps == {"idle", "counted", "insert"}

Creation == [resource : Resources, count : Nat]

NoCreation == [resource |-> CHOOSE r \in Resources : TRUE, count |-> 0]

OrderIds == 1..MaxOrders

PlanTypeOK ==
  /\ used \in [Resources -> Nat]
  /\ inactive \in Nat
  /\ plan \in Plans \cup {NoPlan}
  /\ plansHad \subseteq Plans \cup {NoPlan}
  /\ retired \subseteq Plans
  /\ orders \subseteq (Nat \X Plans)
  /\ captured \subseteq orders
  /\ deliveries \in [OrderIds -> Nat]
  /\ granted \subseteq Plans
  /\ at \in [Threads -> CreationSteps]
  /\ creating \in [Threads -> Creation]
  /\ {creations, grants, switches, failures} \subseteq Nat

PlanInit ==
  /\ used = [r \in Resources |-> 0]
  /\ inactive = 0
  /\ plan \in StartPlans
  /\ plansHad = {plan}
  /\ retired = {} /\ orders = {} /\ captured = {} /\ granted = {}
  /\ deliveries = [n \in OrderIds |-> 0]
  /\ at = [t \in Threads |-> "idle"]
  /\ creating = [t \in Threads |-> NoCreation]
  /\ creations = 0 /\ grants = 0 /\ switches = 0 /\ failures = 0

-----------------------------------------------------------------------------
(* Creating a branch, a staff account or a student.                        *)

Capped(p, r) == p # NoPlan /\ Cap[p][r] # Unlimited

Allows(p, r, count) == Capped(p, r) => count < Cap[p][r]

(* Mutant: only active accounts take a seat.                               *)
ActiveRows(r) == IF r = "staff" THEN used[r] - inactive ELSE used[r]

(* What the limit counts: deactivated accounts keep their seat; staff does *)
(* not include the consultancy owners.                                     *)
Rows(r) == used[r]

Count(t, r) ==
  /\ at[t] = "idle"
  /\ creations < MaxCreations
  /\ creations' = creations + 1
  /\ creating' = [creating EXCEPT ![t] = [resource |-> r, count |-> Rows(r)]]
  /\ at' = [at EXCEPT ![t] = "counted"]
  /\ UNCHANGED <<used, inactive, switches, money, tenancy, failures>>

Finish(t) ==
  /\ at' = [at EXCEPT ![t] = "idle"]
  /\ creating' = [creating EXCEPT ![t] = NoCreation]

(* The plan is read after the rows are counted; at the cap: 422.           *)
Check(t) ==
  /\ at[t] = "counted"
  /\ IF Allows(plan, creating[t].resource, creating[t].count)
     THEN at' = [at EXCEPT ![t] = "insert"] /\ UNCHANGED creating
     ELSE Finish(t)
  /\ UNCHANGED <<used, inactive, creations, switches, money, tenancy, failures>>

Insert(t) ==
  /\ at[t] = "insert"
  /\ used' = [used EXCEPT ![creating[t].resource] = @ + 1]
  /\ Finish(t)
  /\ UNCHANGED <<inactive, creations, switches, money, tenancy, failures>>

(* The e-mail is taken, or the database does not answer.                   *)
InsertFails(t) ==
  /\ at[t] = "insert"
  /\ failures < MaxFailures
  /\ failures' = failures + 1
  /\ Finish(t)
  /\ UNCHANGED <<used, inactive, creations, switches, money, tenancy>>

Crash ==
  /\ \E t \in Threads : at[t] # "idle"
  /\ failures < MaxFailures
  /\ failures' = failures + 1
  /\ at' = [t \in Threads |-> "idle"]
  /\ creating' = [t \in Threads |-> NoCreation]
  /\ UNCHANGED <<used, inactive, creations, switches, money, tenancy>>

(* An account already in the state asked for is refused; the plan is not   *)
(* looked at when one comes back.                                          *)
SetActive ==
  /\ "staff" \in Resources
  /\ switches < MaxSwitches
  /\ switches' = switches + 1
  /\ \/ inactive < used["staff"] /\ inactive' = inactive + 1
     \/ inactive > 0 /\ inactive' = inactive - 1
  /\ UNCHANGED <<used, at, creating, creations, money, tenancy, failures>>

-----------------------------------------------------------------------------
(* The plan.                                                               *)

BecomesPlan(p) ==
  /\ plan' = p
  /\ plansHad' = plansHad \cup {p}

AssignPlan(p) ==
  /\ grants < MaxGrants
  /\ grants' = grants + 1
  /\ p \notin retired
  /\ BecomesPlan(p)
  /\ granted' = granted \cup {p}
  /\ UNCHANGED <<growth, money, failures>>

CreateOrder(p) ==
  /\ Cardinality(orders) < MaxOrders
  /\ p \notin retired
  /\ orders' = orders \cup {<<Cardinality(orders) + 1, p>>}
  /\ UNCHANGED <<growth, retired, captured, deliveries, tenancy, failures>>

(* The tenant pays at the gateway.                                         *)
Capture(o) ==
  /\ o \in orders \ captured
  /\ captured' = captured \cup {o}
  /\ UNCHANGED <<growth, retired, orders, deliveries, tenancy, failures>>

(* Mutant: the event's kind is not looked at, so a failed payment counts.  *)
IsProcessedAnyEvent(o) == TRUE

(* Only a signed payment.captured that names its payment, tenant and plan  *)
(* is processed; other events of an order are answered 202 and ignored,    *)
(* and what the gateway did not sign or fill in is refused.                *)
IsProcessed(o) == o \in captured

(* Mutant: the webhook acknowledges an event before it applies it, and may *)
(* then fail to.                                                           *)
DeliverWithoutApplying(o) ==
  /\ o \in orders /\ IsProcessed(o)
  /\ deliveries[o[1]] < MaxDeliveries
  /\ o[2] \notin retired
  /\ deliveries' = [deliveries EXCEPT ![o[1]] = @ + 1]
  /\ \/ BecomesPlan(o[2])
     \/ UNCHANGED <<plan, plansHad>>
  /\ UNCHANGED <<growth, retired, orders, captured, granted, grants, failures>>

(* The webhook applies the plan named in the order's notes.                *)
Deliver(o) ==
  /\ o \in orders /\ IsProcessed(o)
  /\ deliveries[o[1]] < MaxDeliveries
  /\ o[2] \notin retired
  /\ BecomesPlan(o[2])
  /\ deliveries' = [deliveries EXCEPT ![o[1]] = @ + 1]
  /\ UNCHANGED <<growth, retired, orders, captured, granted, grants, failures>>

(* Answered 500: the gateway will deliver again.                           *)
DeliverFails(o) ==
  /\ o \in orders /\ IsProcessed(o)
  /\ failures < MaxFailures
  /\ failures' = failures + 1
  /\ UNCHANGED <<growth, money, tenancy>>

(* The operator retires a plan in the catalog.  Tenants that have it keep  *)
(* it; an order already placed can no longer be applied (409).             *)
Retire(p) ==
  /\ p \notin retired
  /\ retired' = retired \cup {p}
  /\ UNCHANGED <<growth, orders, captured, deliveries, tenancy, failures>>

Create == \E t \in Threads :
  \/ \E r \in Resources : Count(t, r)
  \/ Check(t) \/ Insert(t) \/ InsertFails(t)

ChangePlan ==
  \/ \E p \in Plans : AssignPlan(p) \/ CreateOrder(p) \/ Retire(p)
  \/ \E o \in orders : Capture(o) \/ Deliver(o) \/ DeliverFails(o)

PlanNext == Create \/ Crash \/ SetActive \/ ChangePlan

(* The gateway repeats an event until a delivery is accepted.              *)
Fairness ==
  \A n \in OrderIds, p \in Plans :
    WF_planVars(deliveries[n] = 0 /\ Deliver(<<n, p>>))

PlanSpec == PlanInit /\ [][PlanNext]_planVars

PlanFairSpec == PlanSpec /\ Fairness

-----------------------------------------------------------------------------
(* What should hold.                                                       *)

(* The most rows any plan the tenant has had allows.                       *)
Roof(r) == CHOOSE c \in {Cap[p][r] : p \in plansHad} :
             \A p \in plansHad : Cap[p][r] <= c

AlwaysCapped(r) == \A p \in plansHad : Capped(p, r)

(* However creations race with each other, with plan changes and with      *)
(* deactivations, the tenant exceeds the highest cap it ever had by fewer  *)
(* rows than there are threads.                                            *)
OvershootIsBounded ==
  /\ PlanTypeOK
  /\ \A r \in Resources :
       AlwaysCapped(r) => used[r] <= Roof(r) + Cardinality(Threads) - 1

(* The tenant's plan is the one it started with, or the super admin        *)
(* assigned it, or it was paid for.                                        *)
PlanIsPaidOrGranted ==
  \/ plan \in granted
  \/ \E o \in captured : o[2] = plan
  \/ plansHad = {plan}

(* Once its payment is captured the tenant gets the plan it paid for, even *)
(* if only to lose it to a later change, unless the plan is retired first: *)
(* failed deliveries are repeated.                                         *)
PaymentsAreApplied ==
  \A n \in OrderIds, p \in Plans :
    (<<n, p>> \in captured /\ deliveries[n] = 0) ~> (plan = p \/ p \in retired)

=============================================================================
