SPECIFICATION Spec
CONSTANTS
  e1 = e1
  e2 = e2
  Enders = {e1, e2}
  NoNote = NoNote
  ConditionHolds <- Holds
  ConditionValid <- Valid
  NoResult = NoResult
  Setups <- AllCases
INVARIANTS HopsInOrder
PROPERTIES VerdictsHold AbandonedHopEscalated
CHECK_DEADLOCK FALSE
