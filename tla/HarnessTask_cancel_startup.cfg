CONSTANTS
  w1 = w1
  Task = {t1}
  Workspace = {w1}
  Shared = {s1}
  HomeOf <- MCHomeOf
  NoTask = NoTask
  NoSession = NoSession
  MaxConcurrent = 1
  QueueLimit = 2
  Policy = "deny"
  ClientOps = {"cancel", "followUp"}
  Faults = {}
  CancelPolls = 1
  QuietPolls = 2
  MaxQuiet = 1
  MaxAsks = 1
  MaxExits = 1
SPECIFICATION Spec
CHECK_DEADLOCK FALSE
PROPERTIES NoSendAfterCancel
