SPECIFICATION Spec
CONSTANTS
  FragSize = 1
  Reads <- MCReads
  Everything = 2
  MaxUpdates = 2
  MaxRequests = 2
  MaxRepeats = 1
  MaxDowns = 1
INVARIANT AnsweredMeansExecuted
CHECK_DEADLOCK FALSE
