SPECIFICATION FairSpec
CONSTANTS
  Jobs = {j1, j2}
  Payloads = {c1, c2}
  Workers = {w1}
  MaxAttempts = 2
  BatchSize = 1
  Faults = FALSE
  KeysExpire = TRUE
  MaxCrashes = 0
  MaxTries = 4
  None = None
INVARIANT SentOnceOrDead
INVARIANT DedupedMeansInFlight
PROPERTY AcceptedJobsEnd
