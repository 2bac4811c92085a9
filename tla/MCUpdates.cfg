SPECIFICATION FairSpec
CONSTANTS
  DatabaseSize <- MCDatabaseSize
  EventPoints <- MCEventPoints
  Deadband = 1
  NaN = NaN
  Quality = {"restart", "online"}
  Transactions <- MCTransactions
  VtoRoom = 1
  MaxVtoChunks = 2
  MaxCommits = 2
  MaxWrites = 2
  MaxIncidents = 2
INVARIANTS
  BuffersAnnounced
  TransactionsApplied
  DriftIsReported
PROPERTY
  CommittedIsFlushed
CHECK_DEADLOCK FALSE
