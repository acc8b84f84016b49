SPECIFICATION Spec
CONSTANTS
  Procs = {p, q}
  NoProc = NoProc
  MaxFiles = 2
SYMMETRY ProcsSymmetry
INVARIANTS OneGuard
CHECK_DEADLOCK FALSE
