SPECIFICATION SyncSpec
CONSTANTS
  Streams <- MCStreams
  Settings <- MCSettings
  Idle = 1
  MaxBuffer = 8
  MaxTail = 4
  UTF8 <- MCUTF8
INVARIANT
  Timely
PROPERTIES
  OnlyBetween
  Intact
CHECK_DEADLOCK FALSE
