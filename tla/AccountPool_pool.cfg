CONSTANTS
  Account = {a, b}
  Cred = {c1, c2}
  Request = {r1, r2}
  None = None
  Cooldown = {1}
  RetryDelays = 1
  MaxTime = 2
  MaxUpsets = 2
SPECIFICATION Spec
SYMMETRY Symmetry
CHECK_DEADLOCK FALSE
INVARIANTS PausedGetNoNewRequest NoSilentDrop RecoveryIsUnique
PROPERTIES AnswerHitsItsCredential
