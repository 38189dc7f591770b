SPECIFICATION Spec
CONSTANTS
  HistMax = 3
  ChunkMax = 3
  PendCap = 3
  ScreenMax = 1
  MaxLines = 6
INVARIANTS
  LogComplete
PROPERTY ImplementsLineLog
