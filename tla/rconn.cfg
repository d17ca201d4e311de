SPECIFICATION FairSpec
CONSTANTS
  ProbeInterval = 2
  MaxBackoff = 4
  HandshakeTime = 3
  TXQ_LIMIT = 1
  MAX_TXQ = 2
  Owners = {"connects", "moves", "accepts"}
INVARIANTS
  VconnMatchesState
  QueueCounted
PROPERTIES
  Reconnects
  SilenceNoticed
