SPECIFICATION Spec
CONSTANTS
  c1 = c1
  c2 = c2
  Nobody = Nobody
  Main = Main
  Connections = {c1, c2}
  MaxClients = 2
  Modes = {"connection"}
  Limits = {1, 2}
  RedundancyGroup <- TwoGroups
  NumGroups = 2
  QueueSize = 1
INVARIANT DispatchUsesLiveQueues
CHECK_DEADLOCK FALSE
