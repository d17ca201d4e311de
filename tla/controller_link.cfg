SPECIFICATION FairSpec
CONSTANTS
  NumControllers = 2
  ProbeInterval = 1
  MaxBackoff = 7
  HandshakeTime = 2
  TXQ_LIMIT = 1
  MAX_TXQ = 1
  AdmitTime = 2
INVARIANTS
  QueueNotPassedOn
PROPERTIES
  ControllerFound
  FailsOpen
  FailOpenEnds
