SPECIFICATION Spec
CONSTANTS
  Controllers <- MCTaggedControllers
  MAX_NUMBER_OF_FLOWS = 3
  MAX_SERVICES = 2
  WAN_INTERFACES = {1, 2}
  InitialWans <- McInitialWans
  LongAddresses = {}
  SrvCounterBound = 1
INVARIANT
  DeletedFlowsAreNotFound
