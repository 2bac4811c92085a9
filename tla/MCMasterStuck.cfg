CONSTANTS
  Cmds = {c1, c2}
  DoUnsol = TRUE
  IntegrityRate = 2
  ScanRate = 1
  RetryRate = 1
  MaxIncidents = 2
SPECIFICATION FairSpec
PROPERTIES
  CommandsAnswered
CHECK_DEADLOCK FALSE
