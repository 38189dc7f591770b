SPECIFICATION Spec
CONSTANTS
  HistMax = 4
  ScreenRows = 3
  HostRows = {2, 4}
  NavStep = 1
  PageStep = 3
  WheelStep = 2
  ChunkMax = 2
  MaxLines = 6
PROPERTIES
  ViewPinned
  TypedLive
