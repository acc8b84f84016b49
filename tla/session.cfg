SPECIFICATION Spec
CONSTANTS
  p1 = p1
  p2 = p2
  a1 = a1
  a2 = a2
  b1 = b1
  NoProc = NoProc
  NoTask = NoTask
  Procs = {p1, p2}
  Batches = {p1}
  Plan <- mcPlan
  Tasks = {a1, a2, b1}
  TasksOf <- mcTasksOf
  InitialStatus <- mcInitialStatus
  DependsOn <- mcDependsOn
  Spillable = {a1}
  OnRung = {a2}
  Spillover = {p1}
  Metered = {p1}
  AgentsOf <- mcAgents
  MaxIterations <- mcIterations
  MaxCrashes = 1
  MaxAttempts = 1
  MaxStale = 1
  BaseTimeout = 1
  FirstExtension = 1
  ExtensionDecrement = 1
  Grace = 1
  MaxDisturbances = 1
INVARIANTS TypeOK NoStaleStop
PROPERTIES ClaimsAreOwn RateLimitHeeded SpendStopsChain ChainBuildsOnDone SignalsAreReal ExitZeroIsEarned StopsAreServed OnlyLimitsRunForever
CHECK_DEADLOCK FALSE
