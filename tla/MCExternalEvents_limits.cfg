SPECIFICATION Spec
CHECK_DEADLOCK FALSE
CONSTANTS
  Handlers = {p1, p2}
  Guards = {"login", "public", "retry", "event"}
  Events = {e1}
  Limit <- OneOfEach
  BlockAfter = 1
  MaxStarts = 3
  MaxTroubles = 2
  None = None
SYMMETRY Symmetry
INVARIANT LimitsHold
INVARIANT OpenWindowsEnd
INVARIANT EventsRunOnce
INVARIANT EventsAreAttended
