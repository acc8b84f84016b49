SPECIFICATION SchemaSpec
CONSTANTS
  Procs = {p, q, r}
  NoProc = NoProc
  MaxFiles = 3
  NumMigrations = 3
  Repeatable = {2}
  Kept = {3}
SYMMETRY ProcsSymmetry
INVARIANTS TypeOK ExclusiveUnlessStolen GuardVisible
INVARIANTS SchemaTypeOK VersionTellsSchema MigrationsApply
CHECK_DEADLOCK FALSE
