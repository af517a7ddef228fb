SPECIFICATION Spec
CONSTANTS
  SubIds = {1, 2}
  Absent = Absent
  Chats = {"chat1", "chat2"}
  Setups <- Cases
INVARIANTS HeardInOrder
PROPERTIES SubscriptionsEnd
CHECK_DEADLOCK FALSE
