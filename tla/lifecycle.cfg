SPECIFICATION Spec
CHECK_DEADLOCK FALSE
CONSTANTS
  MRs = {m1}
  m1 = m1
  MintKinds = {"implement", "takeover", "upgrade", "review", "brainstorm", "incident", "refine", "documentation"}
  MaxMergeReentries = 0
  MaxDeployReentries = 1
  MaxHeadMoveReentries = 1
  MaxCIRedReentries = 0
  MaxMergeConflictReentries = 1
  MaxHumanReviewRounds = 1
  MaxUnparkRetries = 1
  MaxCIRecoveryUnparks = 1
  MaxComments = 1
  MaxPushes = 1
  SlowParks = {"ownership-lost"}
  Answers = {TRUE}
INVARIANTS
  ParkKnowsItsState
  HumanReleasesArePaid
  CodeNeedsGrant
  BouncesBounded
  NonCodeNeverShips
PROPERTIES
  MergeBlockIsFinal
  FinishedIsFinal
