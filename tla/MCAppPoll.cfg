SPECIFICATION Spec
CONSTANTS
  Master = m
  Outstation = o
  NumRetry = 1
  Functions = {"READ", "WRITE", "VTO", "UNKNOWN"}
  Capacity = 2
  Polls = 2
  Answers = 2
  Unsols = 0
  MasterDowns = 1
  OutstationDowns = 1
  MaxHanded <- SomeOfEach
  MaxDowns <- Losses
INVARIANTS
  QueueMatchesChannels
  ReportedAtMostOnce
PROPERTIES
  AnswersRequest
CHECK_DEADLOCK FALSE
