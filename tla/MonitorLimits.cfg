SPECIFICATION Spec
CONSTANTS
  first = s1
  FirstLevels = {1, 3, 4}
  Sessions = {s1}
  DirOf <- MCDirOf
  LevelsOf <- MCLevelsOf
  MaxInc <- MCMaxInc
  MaxWins = 2
  Cooldown = 2
  MaxResets = 2
  MaxFaults = 2
INVARIANTS
  TypeOK
  OwedIsRecorded
PROPERTY ResumeIsOwed
CHECK_DEADLOCK FALSE
