SPECIFICATION FairSpec
CONSTANTS
  Clients = {c1, c2, c3}
  Free = free
  MaxSlots = 2
INVARIANTS TableConsistent SensorFollowsClients OnlyGoneDisconnected
PROPERTIES DisconnectNoticed
CHECK_DEADLOCK FALSE
