CONSTANTS
  Account = {a1, a2}
  None = None
  MaxAttempts = 4
  Delays = 2
  Request = {r1, r2}
  Rotations = 2
  MaxRetries = 2
  Polls = 2
  AnswerFrames = 3
  Proc = {p1, p2, p3}
SPECIFICATION Spec
CHECK_DEADLOCK FALSE
PROPERTIES RecoversOnlyDead
