CONSTANTS
  Keys = {1, 2}
  Contents = {"a"}
  MaxWindows = 4
  MaxChanges = 1
  MaxFaults = 1
  MaxAdmin = 1
SPECIFICATION FairSpec
INVARIANTS TypeOK
PROPERTIES NoSecondWindow KillsOnlyGone RevokedStaysOut Converges
CHECK_DEADLOCK FALSE
