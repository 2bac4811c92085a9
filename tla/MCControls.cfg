SPECIFICATION FairSpec
CONSTANTS
  Modes <- MCModes
  MaxControls = 1
  Values = {"on", "off"}
  Lists <- MCLists
  Outcomes = {"SUCCESS", "BLOCKED"}
  Skips = {0, 15, 16}
  MaxRequests = 2
  MaxIncidents = 2
INVARIANTS
  Consistent
  OperatesSelected
  AnswersAreTrue
PROPERTY
  RequestEnds
CHECK_DEADLOCK FALSE
