SPECIFICATION Spec
CONSTANTS
  Base = 8
  Group = 2
  Mantissa = 16
  Magic <- MCMagic
  MaxTables = 2
  MaxColumns = 2
  MaxRows = 2
  MaxTxn = 3
  MaxSnaps = 5
  Tuples = {x, y}
  SlotsPerPage = 2
  MaxInserts = 5
  Keys = {k1, k2}
  Rids = {r1, r2}
  NoRid = NoRid
  Frames = {f1, f2, f3}
  K = 2
  Capacity = 2
  MaxClock = 6
  Chars = {"a", "b"}
  MaxLen = 4
  MaxArgs = 3
  SampleValues <- MCValues
  SamplePredicates <- MCPredicates
  SampleRows <- MCRows
  SampleTables <- MCTables
  SampleTrees <- MCTrees
  Evaluate <- Eval
CHECK_DEADLOCK FALSE
INVARIANTS
  SnapshotStable
  XminSafe
  HeapFaithful
  IndexFaithful
  EvictsByLruK
  LikeCorrect
  KeyOrder
  KeyRoundTrip
  CompareOrders
  InMatchesOr
  ThreeValuedLogic
  SnapshotRoundTrip
  ParseRoundTrip
PROPERTY
  LikeEnds
