SPECIFICATION AccessSpec
CONSTANTS
  Threads = {t1, t2}
  Standings = {counselor, verifier}
  AccessLife = 1
  RefreshLife = 2
  ResetLife = 1
  MaxTime = 2
  MaxLinks = 1
  MaxChanges = 2
SYMMETRY ThreadSymmetry
INVARIANTS StaleClaimsExpire LinksWork
CHECK_DEADLOCK FALSE
