SPECIFICATION Spec
CONSTANTS
  Txns = {t1, t2, t3}
  Payload <- MCPayload
  NoPayload <- MCNoPayload
  Faults = {"sync", "save", "walopen", "walread"}
  SyncOnCommit = TRUE
  CreateIfMissing = TRUE
  CheckpointEnabled = TRUE
  InitialFiles = {"missing"}
  Unloadable = {}
  MaxCrashes = 2
SYMMETRY TxnSymmetry
INVARIANTS
  DurabilityInv
  AckedSurvive
  IncompleteIgnored
  DataFileWhole
PROPERTY
  RecoveryMonotone
