SPECIFICATION ServicesSpec
CONSTANTS
  Stores = {s1, s2}
  Contents = {v0, v1}
  Empty = v0
  FlushDelay = 1
  MaxFlushDelay = 3
  MaxTime = 6
  WritesMayFail = TRUE
  MaxClock = 4
  Ladders <- MCLadders
  SubagentTier = "medium"
  PassThrough = {"x/y"}
  Pools = {"pool/p"}
  PoolSpecs <- MCPoolSpecs
  PoolTail <- MCPoolTail
  Window <- MCWindow
  Tools = {"codex"}
  RosterTtl = 1
  Strength <- MCStrength
  HasCliLane = TRUE
  WindowsLauncher = TRUE
  WalkEnabled = TRUE
  PinMs = 1
  DemoteMs = 2
  DefaultExhaustedMs = 1
  QuotaExhaustedMs = 3
  MaxExhaustedMs = 3
  MaxAffinityMs = 2
  FailingStreak = 2
  MaxSamples = 3
  RecentCount = 1
  MinSamples = 1
  OutlierFactor = 2
  ReportedLanes = {"a"}
  ReportedTiers = {"medium"}
  ReportedModes = {"none"}
  Durations = {1, 9}
  Retries = {1}
  LegacyFile = TRUE
  MaxReports = 3
  MaxLadderClock = 2
  CatalogInterval = 2
  QuotaInterval = 2
  RosterModels <- MCRosterModels
  MaxMarks = 2
  ActivityTags = {t1, t2, t3}
  MaxActivityTags = 2
  Requests = {r1, r2, r3, r4}
  KeyProviders <- MCKeyProviders
  KeyCandidates <- MCKeyCandidates
  SlotId = "k1"
  RestoredStates = {"expired"}
  Commands = {c1, c2}
  UnreadableRetry = 1
  UnlockRetry = 1
  MaxCommands = 3
  MaxKeyClock = 1
  Facts = {f1, f2}
  MaxDay = 3
  RetentionDays = 1
  RetentionBatch = 2
  QueueLimit = 1
  ReadsMayFail = TRUE
  CrashStages <- Everywhere
SYMMETRY Symmetry
INVARIANTS StoreIsWritten LaneMemoryIsHonest 
PROPERTIES KeystoreIsExact QuotaProbesAreSpaced TrafficIsSeen
CHECK_DEADLOCK FALSE
