SPECIFICATION Spec
CONSTANTS
  Ladder <- TwoLanes
  MaxTerminal = 1
  MaxLaunches = 3
  MaxTime = 0
  MaxRestarts = 1
  MaxCancels = 1
INVARIANT WalkLeavesNothingBehind
PROPERTY CancelledStaysCancelled
CHECK_DEADLOCK FALSE
