SPECIFICATION FairSpec
CONSTANTS
  first = s1
  FirstLevels = {2}
  Sessions = {s1, s2}
  DirOf <- MCDirOf
  LevelsOf <- MCLevelsOf
  MaxInc <- MCMaxInc
  MaxWins = 2
  Cooldown = 2
  MaxResets = 0
  MaxFaults = 1
INVARIANT NoDuplicateWindows
PROPERTY Healed
CHECK_DEADLOCK FALSE
