SPECIFICATION Spec
CONSTANTS
  N_BUCKETS = 4
  TABLE_LINEAR_MAX_FLOWS = 2
  Hash <- SplitHash
  NoFlow = NoFlow
  Controllers <- OneTableController
  Protection = FALSE
  Packets <- McPackets
PROPERTIES
  ImplementsOneTable
