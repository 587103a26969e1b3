SPECIFICATION FairSpec
CONSTANTS
  t1 = t1
  t2 = t2
  Threads = {t1, t2}
  Slugs = {"acme", "beta"}
  Emails = {"ann@x.org", "bob@x.org"}
  Files <- MCFiles
  MaxRequests = 4
  MaxFaults = 1
INVARIANTS InvitesOpenAccounts LogosAreInTheStore
PROPERTIES RequestsEnd
CHECK_DEADLOCK FALSE
