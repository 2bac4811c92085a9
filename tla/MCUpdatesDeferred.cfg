SPECIFICATION UpdatesSpec
CONSTANTS
  DatabaseSize <- MCDatabaseSize
  EventPoints <- MCEventPoints
  Deadband = 1
  NaN = NaN
  Quality = {"restart", "online"}
  Transactions <- MCTransactions
  VtoRoom = 1
  MaxVtoChunks = 2
  MaxCommits = 2
  MaxWrites = 2
  MaxIncidents = 2
INVARIANT DeferredUntilHandled
CHECK_DEADLOCK FALSE
