SPECIFICATION Spec
CONSTANTS
  Txns = {t1, t2}
  Payload <- MCPayload
  NoPayload <- MCNoPayload
  Faults = {"power", "load", "short", "rename", "late"}
  SyncOnCommit = TRUE
  CreateIfMissing = TRUE
  CheckpointEnabled = FALSE
  InitialFiles = {"missing"}
  Unloadable = {}
  MaxCrashes = 2
SYMMETRY TxnSymmetry
INVARIANTS
  AckedSurvive
