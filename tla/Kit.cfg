CONSTANTS
  Setup = {s1, s2}
  Missing = Missing
  Rest = {backups}
  Harness = {omp, claude}
  Detected = {omp, claude}
  Bridged = {omp, claude}
  External = {claude}
  Proving = {omp, claude}
  Damaged = {omp}
  Varied = {claude}
  Unset = Unset
  MaxTx = 2
  MaxOutside = 1
  OldFiles = {manifest, stale}
  NewFiles = {manifest, added}
  Manifest = manifest
  Preserved = {keyfile}
  MaxRuns = 1
  MaxDeaths = 1
  Pid = {p1, p2}
  None = None
  Foreign = Foreign
  Manager = {m1, m2}
  Probes = 1
  Limit = 1
  MaxStarts = 3
  MaxCommands = 3
  MaxCrashes = 1
  Stall = 3
  Gap = 1
  HardSamples = 2
  MaxTime = 8
  MaxSleep = 4
  MaxSamples = 4
SPECIFICATION Spec
SYMMETRY Symmetric
CHECK_DEADLOCK FALSE
INVARIANTS StateIsWhole UninstalledIsGone UpdatedIsWhole KillsOnlyOwn OneProxy GivesUpForCause
PROPERTIES NothingUnasked
