SPECIFICATION Spec
CONSTANTS
  a = a
  b = b
  c = c
  d = d
  f = f
  NoTask = NoTask
  Tasks = {a, b, c}
  DependsOn <- BAfterA
  Files = {f}
  TouchesFiles <- NoFiles
  ChangesFiles <- SameFile
  NumSlots = 2
  MaxIterations = 4
  HaltThreshold = 2
  MaxCrashes = 2
  StaleThreshold = 2
  MaxRetries = 2
  TransientMaxAttempts = 1
  AgentResults <- PlainMenu
  Faults = {}
  CodexWaves = TRUE
  DeadlineSet = FALSE
  MaxStarts = 1
  MaxThrottles = 0
  MaxKills = 0
  MaxOps = 0
  MaxStops = 1
INVARIANTS DepsVisible RetryBudgetKept
CHECK_DEADLOCK FALSE
