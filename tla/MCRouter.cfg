SPECIFICATION FairSpec
CONSTANTS
  c1 = c1
  c2 = c2
  ack = ack
  data = data
  odd = odd
  Frames <- MCFrames
  UserData <- MCUserData
  Destination <- MCDestination
  Lookalikes <- MCLookalikes
  Refused = {odd}
  Contexts = {c1, c2}
  MaxQueue = 2
  MaxPosts = 2
  Outcomes = {"pending", "unresolved", "refused"}
INVARIANTS
  MonitorAgrees
  UserRunsAlone
  PortMatchesLayer
  ReceiverFollowsPeer
PROPERTIES
  MonitorSpec
  RemovalEnds
CHECK_DEADLOCK FALSE
