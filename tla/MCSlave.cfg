SPECIFICATION FairSpec
CONSTANTS
  FragSize = 1
  Reads <- MCReads
  Everything = 2
  MaxUpdates = 2
  MaxRequests = 2
  MaxRepeats = 1
  MaxDowns = 1
INVARIANTS
  Consistent
  NoEventLost
  ErasedMeansConfirmedWhileUp
  RequestsHandledOnce
PROPERTY
  DeferredRequestServed
CHECK_DEADLOCK FALSE
