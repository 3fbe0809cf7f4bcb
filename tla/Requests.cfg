SPECIFICATION RequestsSpec
CONSTANTS
  a1 = a1
  a2 = a2
  b1 = b1
  b2 = b2
  c1 = c1
  pa = pa
  pb = pb
  k1 = k1
  k2 = k2
  None = None
  Groups <- ThreeGroups
  Provider <- ThreeProviders
  Credential <- Keys
  MaxInFlight = 2
  SlowPrep = {a1}
  Misconfigured = {c1}
  Capable = {b1}
  InitiallyCapped = {b2}
  FrontKind = "anthropic"
  RepairMode = "on"
  NativeCalls <- MCNativeCalls
  UserParts <- MCUserParts
  ResultKinds = {"text", "image"}
  MaxSaid = 7
  Strict9 <- MCStrict9
  Digest <- MCDigest
  MaxFrame = 2
  MaxFields = 2
  MaxCalls = 1
  MaxArguments = 20
  MaxBytes = 7
  MaxFrames = 4
  Lifecycles <- MCLifecycles
  Price <- MCPrice
  MaxCounter = 9
  MaxSamples = 2
  MaxCellRows = 4
  MaxDayRows = 6
  MaxDedupIds = 2
  RecentLimit = 2
  DetailLimit = 1
  MaxDetailAttempts = 1
  PendingAttempts = 2
  LastTick = 2
  MaxFinished = 3
  MaxBuckets = 2
  MaxDimensionRows = 2
  MaxErrorRows = 1
  MaxShown = 2
INVARIANTS
  LedgerIsSound
  
  UsageIsWhatWasSaid
  
  
PROPERTIES
  ConversationsCarryOn
  StartsAreOrderly
  GoneClientNotCharged
  RequestEnds
CHECK_DEADLOCK FALSE
