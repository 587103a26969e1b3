SPECIFICATION AssignmentSpec
CONSTANTS
  Threads = {t1, t2}
  Branches = {b1, b2}
  Staff = {1, 2}
  NoCounselor = NoCounselor
  MaxApplications = 4
  MaxReassigns = 1
  MaxStaffChanges = 1
SYMMETRY ThreadSymmetry
INVARIANTS LoadsNearlyEven
PROPERTIES AssignedIsEligible
CHECK_DEADLOCK FALSE
