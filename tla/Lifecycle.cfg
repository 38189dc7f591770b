SPECIFICATION FairSpec
CONSTANTS
  Starters = {t1}
  Dirs = {"root", "sub"}
  Below <- MCBelow
  StartDirs = {"root"}
  Running = {"sub"}
  MaxProxies = 2
  MaxStarts = 2
  MaxRestarts = 1
INVARIANTS TypeOK OneProxyPerConversation
PROPERTIES GCSparesWatched Settles
CHECK_DEADLOCK FALSE
