SPECIFICATION FairSpec
CONSTANTS
  Txns = {t1, t2}
  Payload <- MCPayload
  NoPayload <- MCNoPayload
  Faults = {"power", "late"}
  SyncOnCommit = FALSE
  CreateIfMissing = FALSE
  CheckpointEnabled = TRUE
  InitialFiles = {"missing", "bad", "ok"}
  Unloadable = {}
  MaxCrashes = 1
INVARIANT CleanCloseDurable
PROPERTY Reopens
