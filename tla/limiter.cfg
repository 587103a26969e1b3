SPECIFICATION Spec
CONSTANTS
  Threads = {t1, t2}
  Clients = {ip1}
  Accounts = {mail1}
  NoAccount = NoAccount
  MaxHits = 2
  Window = 2
  Second = 2
  MaxClock = 6
  MaxRequests = 4
SYMMETRY ThreadSymmetry
INVARIANTS WindowsKeepBudget RetryAfterSuffices
CHECK_DEADLOCK FALSE
