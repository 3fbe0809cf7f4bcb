SPECIFICATION BreakerSpec
CONSTANTS
  c1 = c1
  c2 = c2
  c3 = c3
  k1 = k1
  k2 = k2
  m1 = m1
  m2 = m2
  Targets = {c1, c2}
  CredentialOf <- MCCredentialOf
  ModelOf <- MCModelOf
  ProviderOf <- MCProviderOf
  Loopback = {c2}
  Statuses = {401, 402, 429, 500}
  RetryAfters = {}
  QuotaWindows = {2}
  MaxAttempts = 2
  MaxTime = 2
  MaxResets = 1
  DefaultCooldown = 1
  RateLimitRungs <- MCRateLimitRungs
  FailureRungs <- MCFailureRungs
  LoopbackCooldown = 1
  SpentCooldown = 3
  FaultTTL = 2
  MinRetryAfter = 1
  MaxRetryAfter = 3
  MaxSamples = 1
  StartWindow = 2
  MaxStarts = 1
  FlushDelay = 1
  MaxFlushDelay = 1
  MaxRestarts = 0
  WritesMayFail = FALSE
INVARIANT CountsAreHonest
PROPERTY HangsAreOutlasted
CHECK_DEADLOCK FALSE
