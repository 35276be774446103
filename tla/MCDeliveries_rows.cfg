SPECIFICATION FairSpec
CHECK_DEADLOCK FALSE
CONSTANTS
  Messages = {m1}
  Kinds <- TwoKinds
  Logs = {d1}
  Workers = {w1, w2}
  Requests = {p1}
  MaxAttempts = 2
  MaxRetries = 2
  BatchSize = 1
  MaxCandidates = 1
  MaxManual = 1
  MaxFaults = 1
  MaxCrashes = 1
  None = None
INVARIANT ClaimsExclude
INVARIANT RowsAreResentOnce
PROPERTY ClosedRowsStayClosed
PROPERTY ScheduledRetriesEnd
