SPECIFICATION Spec
CONSTANTS
  p1 = p1
  p2 = p2
  Procs = {p1, p2}
  Mixes <- Disciplined
  STATUS_DIRS <- Order
SYMMETRY Interchangeable
INVARIANTS NeverLost InOnePlace
PROPERTIES NothingUndone ImplementsLifecycle
CHECK_DEADLOCK FALSE
