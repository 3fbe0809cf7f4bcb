SPECIFICATION ControlSpec
CONSTANTS
  Callers = {q1, q2}
  Holders = {h1, h2, h3}
  BootstrapTtl = 1
  IdleTtl = 1
  AbsoluteTtl = 2
  MaxDashTime = 2
  MaxTokens = 2
  MaxCapabilities = 3
  MaxRemovals = 1
  Editors = {e1}
  SavedDocuments <- SavedByHand
  SetCommands <- MCSetCommands
  Overrides <- MCOverrides
  RouteRequests <- MCRouteRequests
  OffloadClients = {"codex"}
  MaxWrites = 2
  MissingKeys = {"K3"}
  BenchmarkOrder <- MCBenchmark
  Catalogs <- MCCatalogs
  CostBlocked = {}
  FreeSpecs <- MCFreeSpecs
  Toolless <- MCToolless
  EffortsOf <- MCEfforts
  Deployments = {"p/m"}
  HistoryLimit = 3
  SampleLimit = 2
  RecentLimit = 2
  ProbeTtl = 1
  BrokenBackoff = 1
  DownAfter = 2
  MinCalls = 2
  MinRates = 2
  RateCeiling = 5
  LatencyCeiling = 30
  HedgeFloor = 3
  HedgePerToken = 1
  HedgeMargin = 2
  Latencies = {2, 90}
  TokenCounts = {0, 10}
  ProbeCodes = {"200", "401", "429"}
  MaxEvidence = 2
  Cells <- MCCells
  Probeable <- MCCells
  Credentials <- MCCredentials
  Routable = {"p/m"}
  SpeedTicks = 1
  IdleTicks = 1
  SpendTicks = 1
  ReprobeTicks = 1
  ProbeTimeout = 1
  MaxReprobes = 1
  MaxDue = 1
  MaxProbes = 1
  Providers = {"v1", "v2"}
  Fleet <- MCFleet
  RecordOf <- MCRecordOf
  Axes = {"rpm"}
  CatalogTtl = 1
  StaleCooldown = 1
  MaxCatalogTime = 2
  MaxFetches = 3
   
PROPERTIES ListingsNeverGoBack 
CHECK_DEADLOCK FALSE
