\* Three confirmed operations one way, one unconfirmed the other way.
CONSTANTS
  m = m
  o = o
  Master = m
  Outstation = o
  Confirming <- OnlyMaster
  Foreign <- Both
  NumRetry = 1
  LineCapacity = 2
  MaxSends <- ThreeToOne
  MaxProbes = 1
  MaxDowns = 1
SPECIFICATION FairSpec
INVARIANTS
  SuccessMeansDelivered
PROPERTIES
  SendCompletes
  ImplementsService
CHECK_DEADLOCK FALSE
