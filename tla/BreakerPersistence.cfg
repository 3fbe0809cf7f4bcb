SPECIFICATION PersistSpec
CONSTANTS
  c1 = c1
  c2 = c2
  c3 = c3
  k1 = k1
  k2 = k2
  m1 = m1
  m2 = m2
  Targets = {c1}
  CredentialOf <- MCCredentialOf
  ModelOf <- MCModelOf
  ProviderOf <- MCProviderOf
  Loopback = {}
  Statuses = {422, 429}
  RetryAfters = {2}
  QuotaWindows = {2}
  MaxAttempts = 1
  MaxTime = 3
  MaxResets = 0
  DefaultCooldown = 1
  RateLimitRungs <- RestartRateLimitRungs
  FailureRungs <- RestartFailureRungs
  LoopbackCooldown = 1
  SpentCooldown = 3
  FaultTTL = 2
  MinRetryAfter = 1
  MaxRetryAfter = 3
  MaxSamples = 1
  StartWindow = 2
  MaxStarts = 2
  FlushDelay = 1
  MaxFlushDelay = 2
  MaxRestarts = 2
  WritesMayFail = TRUE
INVARIANTS CleanMeansSaved ProbesEndOnlyWhatTheyDisprove
CHECK_DEADLOCK FALSE
