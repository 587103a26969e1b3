SPECIFICATION Spec
CONSTANTS
  t1 = t1
  t2 = t2
  t3 = t3
  Threads = {t1, t2, t3}
  TenantRules = {}
  DeactivatedDefaults = {}
  StartStages = {"visa_processing", "loan_processing"}
  Words = {"a", "b"}
  MaxRequests = 3
  MaxFaults = 1
SYMMETRY Symmetry
INVARIANTS RowsAreWellFormed LateRecordingsAreBounded
PROPERTIES RowsHoldRequests
CHECK_DEADLOCK FALSE
