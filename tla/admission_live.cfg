SPECIFICATION FairSpec
CONSTANTS
  Items <- AlertIssue
  KindOf <- KindOfMC
  Adopts = {}
  TaskIds = {1,2}
  Enqueuers = {"e1"}
  AlertCapacity = 1
  QueueCapacity = 2
  MaxLivePods = 1
  Subscription = TRUE
  Levels = {{}, {"normal", "alert"}}
  CeilingKinds = {}
  Handoffs = {TRUE}
  MaxEvents = 99
  MaxFaults = 0
  MaxBounces = 0
  MaxReplies = 1
PROPERTIES
  ReplyServed
  LiveGetsPod
CHECK_DEADLOCK FALSE
