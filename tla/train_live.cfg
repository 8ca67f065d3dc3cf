SPECIFICATION FairSpec
CHECK_DEADLOCK FALSE
CONSTANTS
  Repos = {a, b}
  a = a
  b = b
  Pinned = {a}
  SlowChecks = {b}
  MaxHeadMoveReentries = 0
  MaxPushes = 0
PROPERTIES
  TrainArrives
