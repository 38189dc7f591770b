SPECIFICATION FairSpec
CONSTANTS
  Clients = {c1}
  NoClient = NoClient
  MaxOut = 3
  MaxRead = 2
  Hold = 1
  HasHost = TRUE
  HangupOnExit = TRUE
  ErrWithData = FALSE
PROPERTIES
  FrameReleased
  RunProxyReturns
