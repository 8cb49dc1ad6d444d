CONSTANTS
  GateFrames = 3
  MaxChunk = 3
  MaxHeld = 4
  Block = {1, 2}
  MaxFrames = 6
  Call = {1, 2}
  MaxChunks = 4
  MaxTurns = 3
  MaxCalls = 2
  MaxEntries = 2
  MaxBytes = 12
  Cred = {c1, c2}
  Short = {c2}
  NoCred = NoCred
  NoFile = NoFile
  Request = {r1, r2}
  Window = FALSE
  MaxWrites = 3
  MaxDesk = 1
  Flow = {f1, f2}
  None = None
  Overlap = TRUE
  MaxKeys = 2
  Plan = {1, 2}
  Poll = 2
  Cooldown = 4
  Windows = {4, 6}
  MaxCall = 1
SPECIFICATION Spec
CHECK_DEADLOCK FALSE
INVARIANTS StreamIsWhole TurnIsWhole BlocksAreWhole ConversationIsWhole LoginStands SavedIsOwn ReadyPlanIsClaimed
