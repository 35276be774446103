SPECIFICATION Spec
CONSTANTS
  Jobs = {j1}
  Payloads = {c1}
  Workers = {w1, w2}
  MaxAttempts = 2
  BatchSize = 1
  Faults = TRUE
  KeysExpire = TRUE
  MaxCrashes = 0
  MaxTries = 2
  None = None
INVARIANT DeadLettersWereTried
