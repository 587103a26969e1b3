SPECIFICATION FairSpec
CONSTANTS
  t1 = t1
  t2 = t2
  owner = owner
  manager = manager
  cara = cara
  carl = carl
  rita = rita
  zed = zed
  Threads = {t1, t2}
  Staff = {owner, cara}
  Student = student
  NoUser = NoUser
  NoThread = NoThread
  AppBranch = "home"
  Role <- MCRole
  BranchOf <- MCBranchOf
  TenantRules <- MCTenantRules
  DeactivatedDefaults <- MCDeactivated
  StartStages = {"loan_processing"}
  TargetStages = {"visa_processing", "rejected"}
  Faults = {"read", "flush", "reload", "mail", "commit", "refresh", "crash"}
  MaxFaults = 1
  MaxRequests = 3
INVARIANTS PipelineInv NewestRowNamesStage AnswersAreHonest MovesAreNotified MailsComeTrue
PROPERTIES KeepsAuditTrail RequestsEnd
CHECK_DEADLOCK FALSE
