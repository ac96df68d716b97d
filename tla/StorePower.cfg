SPECIFICATION Spec
CONSTANTS
  Txns = {t1}
  Payload <- MCPayload
  NoPayload <- MCNoPayload
  Faults = {"power"}
  SyncOnCommit = TRUE
  CreateIfMissing = TRUE
  CheckpointEnabled = TRUE
  InitialFiles = {"missing"}
  Unloadable = {}
  MaxCrashes = 1
INVARIANT AckedSurvive
