SPECIFICATION Spec
CONSTANTS
  a = a
  b = b
  c = c
  d = d
  f = f
  NoTask = NoTask
  Tasks = {a, b}
  DependsOn <- Independent
  Files = {f}
  TouchesFiles <- NoFiles
  ChangesFiles <- SameFile
  NumSlots = 2
  MaxIterations = 3
  HaltThreshold = 2
  MaxCrashes = 2
  StaleThreshold = 2
  MaxRetries = 2
  TransientMaxAttempts = 1
  AgentResults <- Menu
  Faults = {"conflict", "stash", "poison", "prepare", "ff", "dirty", "pop", "prd"}
  CodexWaves = FALSE
  DeadlineSet = TRUE
  MaxStarts = 1
  MaxThrottles = 0
  MaxKills = 0
  MaxOps = 0
  MaxStops = 0
INVARIANTS TypeOK PrdCompleteHonest
CHECK_DEADLOCK FALSE
