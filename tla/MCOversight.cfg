SPECIFICATION Spec
CONSTANTS
  MurmurSetups <- MCMurmur
  NotifySetups <- MCNotify
  BatcherSetups <- MCBatcher
  TierSetups <- MCTiers
  CurationSetups <- MCCuration
  IndexSetups <- MCIndex
  MessageSetups <- MCMessages
  WatchSetups <- MCWatch
  ViewSetups <- MCViews
  RouteSetups <- MCRoutes
  ToolSetups <- MCTools
  LeadOf <- MCLeadOf
  Admins = {"main"}
  Agents = {"lead", "other", "w1", "w2"}
  Dependents <- MCDependents
  Places = {"ready", "in-progress", "review"}
  Sessions = {1, 2}
  ViewGroups = {"a", "b"}
  StatusesUsed = {"ready", "done"}
  Passes = {1, 2}
  MaxReviews = 3
  Tasks = {"t1", "t2"}
  Window = 2
  SlaWindow = 3
  Limit = 1
  MaxTime = 5
  CurationTime = 3
  StormMessages = {1, 2, 3, 4, 5}
  Critical = {5}
  Threshold = 2
  Events = {1, 2, 3, 4}
  MaxFile = 2
  WarmLimit = 3
  HotLimit = 3
  MaxTasks = 3
  MaxCount = 2
  Paths = {1}
  Contents = {1, 2, 3}
  None = None
INVARIANTS NoneForgotten TiersKept ClientsTold ViewExact
PROPERTIES ReviewsKept  CurationPaced IndexFaithful MessagesAgree
CHECK_DEADLOCK FALSE
