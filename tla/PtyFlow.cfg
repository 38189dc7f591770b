SPECIFICATION FlowSpec
CONSTANTS
  Host = {h}
  Remote = {r1, r2}
  InCap = 2
  OutCap = 2
  ChunkLen = 3
  MaxChunks = 1
  MaxBurst = 3
INVARIANTS
  FlowTypeOK
  ChunksContiguous
PROPERTIES
  ClaudeDrained
  InputForwardedOrGridlock
CHECK_DEADLOCK FALSE
