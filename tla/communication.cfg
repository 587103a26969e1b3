SPECIFICATION Spec
CONSTANTS
  t1 = t1
  t2 = t2
  owner = owner
  manager = manager
  cara = cara
  carl = carl
  Threads = {t1, t2}
  Staff = {owner, manager, cara, carl}
  Role <- MCRole
  BranchOf <- MCBranchOf
  Branches = {"home", "away"}
  MaxRequests = 3
  MaxFaults = 1
SYMMETRY Symmetry
INVARIANTS MeetingsAreAnnounced 
PROPERTIES InboxAnswersAreHonest DeletedNotesStayDeleted
CHECK_DEADLOCK FALSE
