SPECIFICATION FairSpec
CONSTANTS
  MaxInputs = 2
  MaxIncidents = 1
  Tears = TRUE
INVARIANT WriteHasCommand
CHECK_DEADLOCK FALSE
