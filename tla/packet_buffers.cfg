SPECIFICATION Spec
CONSTANTS
  N_PKT_BUFFERS = 3
  N_COOKIES = 3
  MAX_PACKETS = 8
INVARIANTS
  RightPacketOnce
  RecentPacketsStay
