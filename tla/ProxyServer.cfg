SPECIFICATION Spec
CONSTANTS
  Clients = {c1, c2}
  NoClient = NoClient
  MaxOut = 3
  MaxRead = 2
  Hold = 2
  HasHost = TRUE
  HangupOnExit = TRUE
  ErrWithData = TRUE
SYMMETRY Symmetry
INVARIANTS
  TypeOK
  Fresh
  HoldCovered
  NoFilesLeft
PROPERTY
  ImplementsLife
