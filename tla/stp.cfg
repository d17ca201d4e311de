SPECIFICATION FairSpec
CONSTANTS
  Bridges = {1, 2, 3}
  NumPorts = 2
  Orders <- MCOrders
  Late <- MCLate
  Networks <- MCNetworks
  BridgeIds = {1,2,3,4}
  PathCosts = {1, 3}
  HelloTime = 2
  MaxAge = 6
  ForwardDelay = 4
  HoldTime = 1
  MESSAGE_AGE_INCREMENT = 0
  Builds = {"big", "little"}
  MAX_FAULTS = 1
INVARIANT NoLoop BeliefsAge
PROPERTY TreeFound ChangesForgotten
