CONSTANTS
  Call = {c1, c2}
  Question = {x1, x2}
  None = None
  MaxConns = 2
  Client = {a, b}
  Pref = {p1, p2}
  MaxRev = 4
  Request = {r1, r2}
  Ttl = 2
  StartLimit = 3
  ReadyLimit = 2
  Budget = 3
SPECIFICATION Spec
INVARIANTS BridgeSurvives
CHECK_DEADLOCK FALSE
