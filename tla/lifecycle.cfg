SPECIFICATION Spec
CONSTANTS
  t1 = t1
  t2 = t2
  NoTask = NoTask
  Tasks <- mcTasks
  DependsOn <- mcDependsOn
  MaxRetries = 1
  DecayThreshold = 1
  MaxIterations = 1
  MaxCommands <- mcCommands
  MaxCrashes = 1
INVARIANTS TypeOK
PROPERTIES ReportsAreTrue ClosedRowsKept PassesFollowRow DecayWaits
CHECK_DEADLOCK FALSE
