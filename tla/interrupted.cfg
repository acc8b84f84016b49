SPECIFICATION Spec
CONSTANTS
  a = a
  b = b
  c = c
  d = d
  f = f
  NoTask = NoTask
  Tasks = {a, b}
  DependsOn <- Independent
  Files = {f}
  TouchesFiles <- NoFiles
  ChangesFiles <- SameFile
  NumSlots = 2
  MaxIterations = 2
  HaltThreshold = 1
  MaxCrashes = 2
  StaleThreshold = 2
  MaxRetries = 2
  TransientMaxAttempts = 1
  AgentResults <- ShortMenu
  Faults = {"conflict", "dirty", "prd"}
  CodexWaves = FALSE
  DeadlineSet = FALSE
  MaxStarts = 2
  MaxThrottles = 1
  MaxKills = 1
  MaxOps = 1
  MaxStops = 1
INVARIANTS NoOrphanClaims LimitedWavesEnd
PROPERTIES WorkOnlyLostAtCleanup HonestTerminalsKept DeliversWork
CHECK_DEADLOCK FALSE
