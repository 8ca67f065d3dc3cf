SPECIFICATION FairSpec
CONSTANTS
  MaxPods = 6
  MaxTurns = 6
  MaxStages = 1
  Events = {"c"}
  MaxArrivals = 1
  maxPendingEvents = 2
  stallProbeMaxAttempts = 2
  AgentStopReArmCap = 1
  Handlers = {"h1"}
  Faults = {"crash", "hang", "lost", "unreachable", "ttl", "boot", "death"}
  MaxFaults = 1
PROPERTY EndedTurnRecorded
PROPERTY EventReachesTurn
CHECK_DEADLOCK FALSE
