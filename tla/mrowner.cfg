SPECIFICATION FairSpec
CONSTANTS
  Cases <- MRCases
  MaxHeads = 2
  MaxComments = 1
  MaxFlips = 4
INVARIANTS
  TypeOK
  PostedOnce
PROPERTIES
  StandDownCompletes
  CommentReachesTask
  DriftSettles
  ChecksCatchUp
CHECK_DEADLOCK FALSE
