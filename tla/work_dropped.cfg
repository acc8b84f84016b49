SPECIFICATION Spec
CONSTANTS
  a = a
  b = b
  c = c
  d = d
  f = f
  NoTask = NoTask
  Tasks = {a, b}
  DependsOn <- Independent
  Files = {f}
  TouchesFiles <- NoFiles
  ChangesFiles <- SameFile
  NumSlots = 2
  MaxIterations = 2
  HaltThreshold = 2
  MaxCrashes = 2
  StaleThreshold = 2
  MaxRetries = 2
  TransientMaxAttempts = 1
  AgentResults <- ThrottledMenu
  Faults = {}
  CodexWaves = FALSE
  DeadlineSet = FALSE
  MaxStarts = 1
  MaxThrottles = 1
  MaxKills = 0
  MaxOps = 0
  MaxStops = 0
INVARIANTS DoneWorkSurvivesExit
CHECK_DEADLOCK FALSE
