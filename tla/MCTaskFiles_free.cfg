SPECIFICATION Spec
CONSTANTS
  p1 = p1
  p2 = p2
  Procs = {p1, p2}
  Mixes <- Free
  STATUS_DIRS <- ShortOrder
PROPERTIES CallsReturn
CHECK_DEADLOCK FALSE
