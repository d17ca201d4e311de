SPECIFICATION Spec
CONSTANTS
  Controllers <- MCControllers
  MAX_NUMBER_OF_FLOWS = 4
  MAX_SERVICES = 3
  WAN_INTERFACES = {1, 2, 3}
  InitialWans <- McInitialWans
  LongAddresses = {5}
  SrvCounterBound = 1
INVARIANTS
  SlotsTrackAllocation
  UniqueServices
  ServiceHasWan
  ServiceCountsItsFlows
PROPERTIES
  GivenUpSlotsStayFree
  OnlyRestartsLeaveWans
