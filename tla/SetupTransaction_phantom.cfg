CONSTANTS
  File = {f1}
  Absent = Absent
  Unset = Unset
  MaxTx = 1
  MaxKit = 2
  MaxWrites = 2
  MaxEdits = 1
  MaxCrashes = 1
  CrashIn = {"rollback"}
  Named = FALSE
SPECIFICATION Spec
CHECK_DEADLOCK FALSE
PROPERTIES NoPhantomConflict
