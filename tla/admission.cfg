SPECIFICATION Spec
CONSTANTS
  Items <- AlertUpgrade
  KindOf <- KindOfMC
  Adopts <- OnlyUpgrade
  TaskIds = {1,2}
  Enqueuers = {e1, e2}
  e1 = e1
  e2 = e2
  AlertCapacity = 1
  QueueCapacity = 1
  MaxLivePods = 1
  Subscription = TRUE
  Levels = {{}, {"paused"}, {"upgrade"}}
  CeilingKinds = {"upgrade"}
  Handoffs = {FALSE}
  MaxEvents = 2
  MaxFaults = 1
  MaxBounces = 1
  MaxReplies = 0
INVARIANTS
  TypeOK
  OneTaskPerEvent
  PodsAreTicketed
CHECK_DEADLOCK FALSE
SYMMETRY EnqueuerSymmetry
