SPECIFICATION Spec
CONSTANTS
  MaxPage = 3
  Vals = {v1}
  WritesFail = TRUE
  TornWrites = FALSE
  Threads = {t1, t2}
  PoolSize = 2
  MaxCrashes = 1
SYMMETRY PoolSymmetry
INVARIANTS
  TypeOK
  GuardStable
  LatestKept
  FreeListSound
