SPECIFICATION FairSpec
CONSTANTS
  Master = m
  Outstation = o
  NumRetry = 1
  Functions = {"READ"}
  Capacity = 1
  Polls = 1
  Answers = 1
  Unsols = 2
  MasterDowns = 0
  OutstationDowns = 1
  MaxHanded <- SomeOfEach
  MaxDowns <- Losses
INVARIANTS
  UnsolHandledOnce
PROPERTIES
  SendCompletes
CHECK_DEADLOCK FALSE
