SPECIFICATION FairSpec
CONSTANTS
  Jobs = {j1, j2}
  Payloads = {c1}
  Workers = {w1}
  MaxAttempts = 2
  BatchSize = 1
  Faults = TRUE
  KeysExpire = FALSE
  MaxCrashes = 1
  MaxTries = 6
  None = None
INVARIANT OneCopyOfAJob
PROPERTY StalledJobsAreRecovered
