SPECIFICATION Spec
CHECK_DEADLOCK FALSE
CONSTANTS
  Repos = {a, b}
  a = a
  b = b
  Pinned = {}
  SlowChecks = {}
  MaxHeadMoveReentries = 1
  MaxPushes = 1
SYMMETRY RepoSymmetry
INVARIANTS
  MergedWhatWasReviewed
  CursorHonest
  DeliveredIsMerged
PROPERTIES
  LandsInOrder
  TrainPromised
