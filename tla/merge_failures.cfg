SPECIFICATION FairSpec
CONSTANTS
  a = a
  b = b
  c = c
  d = d
  f = f
  NoTask = NoTask
  Tasks = {a, b, c}
  DependsOn <- Independent
  Files = {f}
  TouchesFiles <- OnlyBDeclares
  ChangesFiles <- SameFile
  NumSlots = 3
  MaxIterations = 2
  HaltThreshold = 0
  MaxCrashes = 2
  StaleThreshold = 2
  MaxRetries = 2
  TransientMaxAttempts = 1
  AgentResults <- ClosingMenu
  Faults = {"conflict", "ff", "poison"}
  CodexWaves = FALSE
  DeadlineSet = FALSE
  MaxStarts = 1
  MaxThrottles = 1
  MaxKills = 0
  MaxOps = 0
  MaxStops = 1
PROPERTIES LoopBranchGrows WaveMergesOrReopens EventuallyExits
CHECK_DEADLOCK FALSE
