SPECIFICATION Spec
CONSTANTS
  Conns = {c1, c2}
  TxnConns = {c1, c2}
  AutoConns = {}
  Stmts = {s1, s2, s3}
  CommitsFail = TRUE
  MaxGeneration = 3
SYMMETRY StmtSymmetry
CHECK_DEADLOCK FALSE
INVARIANTS
  TypeOK
  CopyInv
  AckedKept
PROPERTY SerialSpec
