SPECIFICATION FairSpec
CONSTANTS
  N_BUCKETS = 1
  TABLE_LINEAR_MAX_FLOWS = 2
  Hash <- CollideHash
  NoFlow = NoFlow
  Controllers <- AllControllers
  Protection = TRUE
  Packets <- McPackets
INVARIANTS
  LookupFindsHighest
  NoOverlap
PROPERTIES
  RemovalsReported
  OverdueFlowsLeave
