SPECIFICATION FairSpec
CONSTANTS
  ExactFlows = {e1, e2}
  WildFlows = {w1}
  Hash <- McHash
  N_BUCKETS = 2
  NoFlow = NoFlow
  PAGE = 2
  ULONG_MAX = 15
  MAX_SERIAL = 2
INVARIANTS
  NoFlowMissed
  NoFlowTwice
PROPERTIES
  DumpEnds
