SPECIFICATION Spec
CONSTANTS
  Tasks = {t1, t2, t3}
  Callers = {1, 2}
  Overlaps = {1, 2}
  MaxCalls = 5
INVARIANTS NoCycleAlone
PROPERTIES WritesKept CyclesSeen
CHECK_DEADLOCK FALSE
