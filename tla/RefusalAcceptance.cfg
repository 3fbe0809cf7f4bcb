SPECIFICATION RefusalsAlone
CONSTANTS
  QuotaModels = {m1, m2}
  Buckets <- MCBuckets
  Declarations <- MCDeclarations
  Responses <- MCResponses
  RefusalBodies <- MCRefusalBodies
  UsageKinds <- MCUsageKinds
  LearnedNeverEnforced = TRUE
  MinuteTicks = 1
  DayTicks = 2
  MaxQuotaTime = 3
  MaxSent = 2
  PoolOrder <- MCPoolOrder
  SlotsOf <- MCSlotsOf
  DegradedSpecs = {"q"}
  ContextOf <- MCContextOf
  PromptSizes = {1, 2}
  RouteSessions = {"s1", "s2"}
  MaxPins = 1
  PinTtl = 1
  FailCooldown = 2
  MaxRouteTime = 2
  MaxRequests = 3
  RefusedModels = {"m1"}
  Bodies <- MCBodies
  Matches <- MCMatches
  NewForm <- MCNewForm
  Declared <- MCDeclared
  OldFiles <- MCOldFiles
  MaxQueue = 1
  IgnoredTtl = 1
  MaxResetTicks = 4
  MaxRefusalClock = 2
  MaxRefusals = 3
  MaxOperatorCommands = 2
  FactTargets <- MCFactTargets
  AskedTargets <- MCAsked
  Enabled <- MCEnabled
  FactReadings <- MCFactReadings
  Ceilings = {"context-limit"}
  FactLifetime <- MCFactLifetime
  HeaderTicks = {0}
  Selectors <- MCSelectors
  CostClasses = {"free", "paid"}
  MaxFactClock = 2
  MaxFactEvents = 3
INVARIANT AcceptanceIsNotDropped
CHECK_DEADLOCK FALSE
