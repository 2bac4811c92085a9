SPECIFICATION Spec
CONSTANTS
  MaxEvents = 2
  SizeT = 65536
  Points = {0, 1}
  Classes = {1, 2}
  ClassOf <- PointClass
  Times = {0, 1}
  MaxUpdates = 5
  MaxSelections = 2
INVARIANTS
  SequenceFollowsUpdates
  EveryUpdateAccounted
  VtoNeverDropped
CHECK_DEADLOCK FALSE
