SPECIFICATION Spec
CHECK_DEADLOCK FALSE
CONSTANTS
  Repos = {a}
  a = a
  Pinned = {a}
  SlowChecks = {}
  MaxHeadMoveReentries = 0
  MaxPushes = 0
INVARIANTS
  DeliveredIsLive
