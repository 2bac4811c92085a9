SPECIFICATION Spec
CONSTANTS
  Master = m
  Outstation = o
  NumRetry = 0
  Functions = {"READ"}
  Capacity = 2
  Polls = 2
  Answers = 1
  Unsols = 0
  MasterDowns = 0
  OutstationDowns = 0
  MaxHanded <- SomeOfEach
  MaxDowns <- Losses
INVARIANTS
  ConfirmedMeansHandled
CHECK_DEADLOCK FALSE
