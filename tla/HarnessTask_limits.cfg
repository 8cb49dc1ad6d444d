CONSTANTS
  w1 = w1
  Task = {t1, t2, t3}
  Workspace = {w1}
  Shared = {s1}
  HomeOf <- MCHomeOf
  NoTask = NoTask
  NoSession = NoSession
  MaxConcurrent = 2
  QueueLimit = 3
  Policy = "deny"
  ClientOps = {"cancel"}
  Faults = {"boot", "send", "stop"}
  CancelPolls = 1
  QuietPolls = 1
  MaxQuiet = 1
  MaxAsks = 0
  MaxExits = 0
SPECIFICATION Spec
SYMMETRY Symmetry
CHECK_DEADLOCK FALSE
INVARIANTS WriteExclusion NoIdleSlot CancelledMeansStopped
PROPERTIES CancelKeepsWish
