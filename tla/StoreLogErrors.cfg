SPECIFICATION Spec
CONSTANTS
  Txns = {t1, t2}
  Payload <- MCPayload
  NoPayload <- MCNoPayload
  Faults = {"append", "large", "flush", "stat", "truncate", "late"}
  SyncOnCommit = TRUE
  CreateIfMissing = TRUE
  CheckpointEnabled = TRUE
  InitialFiles = {"missing"}
  Unloadable <- MCUnloadable
  MaxCrashes = 1
SYMMETRY TxnSymmetry
INVARIANTS
  TypeOK
  DataFileCurrent
