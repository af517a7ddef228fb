SPECIFICATION LocksSpec
CONSTANTS
  NoCall = NoCall
  Calls = {c1, c2, c3, c4}
  Ids = {a, b}
  StoreIds = {a}
INVARIANTS Mutex Fifo
PROPERTIES ReturnsAndFrees
