SPECIFICATION Spec
CONSTANTS
  FragSize = 1
  Reads <- MCReads
  Everything = 2
  MaxUpdates = 2
  MaxRequests = 2
  MaxRepeats = 1
  MaxDowns = 1
INVARIANT ErasedMeansConfirmed
CHECK_DEADLOCK FALSE
