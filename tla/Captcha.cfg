CONSTANTS
  Job = {j1, j2, j3, j4}
  None = None
  FailuresAllowed = 2
  SolvesAllowed = 3
  MaxRequests = 2
  Take = {t1, t2}
  Id = {i1, i2}
  PoolMax = 2
  SolveRetries = 2
SPECIFICATION Spec
CHECK_DEADLOCK FALSE
INVARIANTS IssuedOnce
PROPERTIES SolvesOneAtATime StormIsProbed EveryCallEnds
