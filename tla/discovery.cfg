SPECIFICATION FairSpec
CONSTANTS
  MIN_ACCEPTABLE_LEASE = 3
  LongLease = 6
  LeaseFuzz = 1
  ServerTimeout = 5
  MinDelay = 4
  max_timeout = 3
  UINT_MAX = 99
  Grants <- MCGrants
  AcceptedControllers = {1, 2}
  RenewDeadline = 4
  QuestionInterval = 4
  TimeBound = 8
  RX_LIMIT = 1
INVARIANTS
  LeaseKept
  GivesUpInTime
  FollowsLease
PROPERTIES
  ControllerDiscovered
