SPECIFICATION FairSpec
CHECK_DEADLOCK FALSE
CONSTANTS
  MRs = {m1, m2}
  m1 = m1
  m2 = m2
  MintKinds = {"takeover"}
  MaxMergeReentries = 1
  MaxDeployReentries = 1
  MaxHeadMoveReentries = 0
  MaxCIRedReentries = 0
  MaxMergeConflictReentries = 0
  MaxHumanReviewRounds = 0
  MaxUnparkRetries = 2
  MaxCIRecoveryUnparks = 0
  MaxComments = 0
  MaxPushes = 0
  SlowParks = {"handoff-stalled"}
  Answers = {TRUE, FALSE}
INVARIANTS
  RetryLaneBounded
PROPERTIES
  ReviewSettledBeforeMerge
  HandoffEnds
  TimerParksEnd
