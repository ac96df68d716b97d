SPECIFICATION Spec
CONSTANTS
  Clients = {c1, c2}
  Payload = {p}
  NoPayload = NoPayload
  MaxLsn = 4
  Faults = {"power", "sync", "walopen", "truncate"}
SYMMETRY ThreadSymmetry
INVARIANTS
  TypeOK
  FlushedSurvive
  LsnOrder
