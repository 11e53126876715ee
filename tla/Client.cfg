SPECIFICATION FairSpec
CONSTANTS
  MaxInputs = 2
  MaxIncidents = 1
  Tears = TRUE
INVARIANTS
 PlaceholderNeverSent
 LostTold
 AnswersMatch
PROPERTIES
 StopReturns
 LossArrives
CHECK_DEADLOCK FALSE
