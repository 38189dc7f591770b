SPECIFICATION Spec
CONSTANTS
  MaxImage = 1
  HistMax = 1
  ScreenRows = 2
  SocketBuf = 8
  Onward = FALSE
  Reads <- MCReads
  Settings <- MCSettings
  NavStep = 1
  PageStep = 3
  WheelStep = 1
  Sizes = {1, 2}
  Images <- MCImages
  WebItems <- MCWebItems
  MaxInputs = 3
  MaxResizes = 2
INVARIANTS
  TypeOK
  OnlyAsked
  TypedLive
  CaughtUp
