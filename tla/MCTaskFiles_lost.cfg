SPECIFICATION Spec
CONSTANTS
  p1 = p1
  p2 = p2
  Procs = {p1, p2}
  Mixes <- CancelAndGet
  STATUS_DIRS <- ShortOrder
INVARIANT NeverLost
CHECK_DEADLOCK FALSE
