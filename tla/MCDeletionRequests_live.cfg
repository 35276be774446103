SPECIFICATION FairSpec
CHECK_DEADLOCK FALSE
CONSTANTS
  u1 = u1
  e1 = e1
  Users = {u1}
  Emails = {e1}
  OwnerOf <- OwnerOfEmail
  DeletionRequests = {r1}
  Handlers = {p1, p2}
  Worker = worker
  BatchSize = 1
  Faults = FALSE
  Crashes = FALSE
  None = None
INVARIANT CompletedMeansDeleted
PROPERTY DueRequestsAreProcessed
