SPECIFICATION FairSpec
CONSTANTS
  Replicas = {"w"}
  Cases <- IntakeCases
  MaxAutoReentries = 1
  MaxComments = 1
INVARIANTS
  ReentriesPaidFor
PROPERTIES
  IssueAnchored
  CommentMirrored
