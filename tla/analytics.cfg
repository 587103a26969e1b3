SPECIFICATION Spec
CONSTANTS
  Threads = {t1, t2}
  Tenants = {1, 2}
  Seed <- MCSeed
  Branches <- MCBranches
  Earlier <- MCEarlier
  MaxRequests = 2
  TicksPerDay = 2
  Start = 2
  MaxNow = 3
  MaxMoves = 1
SYMMETRY Perms
INVARIANTS KeysHold ChoicesAreOffers FiguresAgree
PROPERTIES UploadsOutliveTemplates
CHECK_DEADLOCK FALSE
