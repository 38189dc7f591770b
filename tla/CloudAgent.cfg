CONSTANTS
  Agents = {a1, a2}
  Wakers = {a1}
  Cmds = {c1}
  Sids = {s1}
  Ended = {s2}
  MaxFaults = 2
SPECIFICATION FairSpec
INVARIANT TypeOK
PROPERTIES ImplementsQueue Answered Watched
CHECK_DEADLOCK FALSE
