SPECIFICATION FairSpec
CONSTANTS
  Builds <- MCBuilds
  HEADER = 2
  SOCKET = 4
  MaxSent = 3
INVARIANTS
  DataInOrder
  VersionsAgree
PROPERTIES
  MessagesArrive
