SPECIFICATION Spec
CONSTANTS
  t1 = t1
  t2 = t2
  owner = owner
  manager = manager
  cara = cara
  carl = carl
  rita = rita
  zed = zed
  Threads = {t1}
  Staff = {owner, carl, rita, zed}
  Student = student
  NoUser = NoUser
  NoThread = NoThread
  AppBranch = "home"
  Role <- MCRole
  BranchOf <- MCBranchOf
  TenantRules <- MCTenantRules
  DeactivatedDefaults <- MCDeactivated
  StartStages = {"offer_letter", "visa_processing"}
  TargetStages = {"visa_processing", "loan_processing", "enrolled", "withdrawn"}
  Faults = {"flush", "commit", "crash"}
  MaxFaults = 1
  MaxRequests = 3
PROPERTIES KeepsStrictTrail TerminalStagesAreFinal
