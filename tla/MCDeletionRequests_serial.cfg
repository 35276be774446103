SPECIFICATION Spec
CHECK_DEADLOCK FALSE
CONSTANTS
  u1 = u1
  e1 = e1
  Users = {u1, u2}
  Emails = {e1, e2}
  OwnerOf <- OwnerOfEmail
  DeletionRequests = {r1, r2}
  Handlers = {worker}
  Worker = worker
  BatchSize = 1
  Faults = TRUE
  Crashes = TRUE
  None = None
PROPERTY ClosedStaysClosed
PROPERTY AccountsWaitTheirGrace
