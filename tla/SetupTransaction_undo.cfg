CONSTANTS
  File = {f1, f2}
  Absent = Absent
  Unset = Unset
  MaxTx = 2
  MaxKit = 2
  MaxWrites = 3
  MaxEdits = 1
  MaxCrashes = 1
  CrashIn = {"setup"}
  Named = FALSE
SPECIFICATION Spec
SYMMETRY Symmetry
CHECK_DEADLOCK FALSE
INVARIANTS Discoverable BackupIntact UndoIsExact
