SPECIFICATION Spec
CONSTANTS
  m = m
  o = o
  Master = m
  Outstation = o
  Confirming <- OnlyMaster
  Foreign <- OnlyOutstation
  FragSize <- Sizes
  Payload = 2
  SeqModulus = 3
  Budgets <- SomeBudgets
  MaxOdd = 1
  MaxDowns = 1
  MaxStale = 1
INVARIANTS
  Consistent
  ConfirmedArriveWhole
  MixedOnlyAfterWrap
PROPERTIES
  ImplementsFragments
CHECK_DEADLOCK FALSE
