SPECIFICATION FairSpec
CONSTANTS
  NumPorts = 2
  Rate = 2
  Cost = 1
  Burst = 2
  InitTokens = 3
  MAX_ITERATIONS = 2
  MAX_DRAIN = 1
  TXQ_LIMIT = 1
  Uses = {"rate_limit", "emerg_flow", "management"}
  MAX_TXQ = 1
INVARIANTS
  RateBounded
  PacketsInOrder
  DatapathTold
PROPERTIES
  HeldMessageLeaves
  QueuedPacketLeaves
