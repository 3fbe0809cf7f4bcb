SPECIFICATION ResponsesSpec
CONSTANTS
  Procs = {p1, p2, p3}
  MaxCalls = 1
  RenameOverEmpty = FALSE
  PidReuse = TRUE
  LegacyMarker = legacy
  MaxAttempts = 3
  Attributions = {held, operated}
  TextTokens = {"blank", "open", "close", "part", "call"}
  MaxItems = 2
  MaxText = 2
  LeadMax = 1
  ThinkMax = 2
  ProbeMax = 6
  ValidateMax = 9
  SeenIds = {"id1"}
INVARIANTS LockIsSafe LedgerIsTrue StreamIsFaithful
PROPERTIES LockIsNeverWedged EveryAnswerIsFinalized
CHECK_DEADLOCK FALSE
