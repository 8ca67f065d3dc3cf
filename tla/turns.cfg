SPECIFICATION Spec
CONSTANTS
  MaxPods = 1
  MaxTurns = 2
  MaxStages = 2
  Events = {"c"}
  MaxArrivals = 3
  maxPendingEvents = 2
  stallProbeMaxAttempts = 1
  AgentStopReArmCap = 1
  Handlers = {h1, h2}
  h1 = h1
  h2 = h2
  Faults = {"write", "lost"}
  MaxFaults = 1
INVARIANT TypeOK
INVARIANT EventsAccounted
INVARIANT ChargedOnce
SYMMETRY HandlerSymmetry
CHECK_DEADLOCK FALSE
