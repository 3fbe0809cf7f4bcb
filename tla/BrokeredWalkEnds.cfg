SPECIFICATION FairSpec
CONSTANTS
  Ladder <- TwoLanes
  MaxTerminal = 1
  MaxLaunches = 2
  MaxTime = 0
  MaxRestarts = 0
  MaxCancels = 1
PROPERTY WalkEnds
CHECK_DEADLOCK FALSE
