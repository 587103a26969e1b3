SPECIFICATION PlanFairSpec
CONSTANTS
  starter = starter
  growth_tier = growth_tier
  enterprise = enterprise
  Threads = {t1, t2}
  Resources = {"staff", "students"}
  Plans = {starter, growth_tier, enterprise}
  NoPlan = NoPlan
  Cap <- MCCap
  Unlimited = Unlimited
  StartPlans = {NoPlan, starter}
  MaxCreations = 3
  MaxOrders = 1
  MaxDeliveries = 1
  MaxGrants = 1
  MaxSwitches = 1
  MaxFailures = 1
INVARIANTS OvershootIsBounded PlanIsPaidOrGranted
PROPERTIES PaymentsAreApplied
CHECK_DEADLOCK FALSE
