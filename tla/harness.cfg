SPECIFICATION Spec
CONSTANTS
  Issues = {1}
  Pickers = {1}
  Verifiers = {"test"}
  MaxIterations = 2
  MaxLabel = 6
INVARIANTS CapOvershootIsBounded 
 
CHECK_DEADLOCK FALSE
