SPECIFICATION LanesSpec
CONSTANTS
  ExecutionIds = {e1, e2}
  Signatures = {g1, g2}
  MaxTerminal = 1
  MaxLaunches = 3
  MaxTime = 1
  Procs = {p1, p2, p3}
  Jobs = {j1}
  MaxArchived = 1
  MaxJobsTime = 1
  WritesMayFail = TRUE
SYMMETRY Symmetry
INVARIANTS ExecutionsAreSound OneProcessAnswers
PROPERTIES EndIsFinal 
CHECK_DEADLOCK FALSE
