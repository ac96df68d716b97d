SPECIFICATION Spec
CONSTANTS
  Conns = {c1, c2}
  TxnConns = {}
  AutoConns = {c1, c2}
  Stmts = {s1, s2, s3, s4}
  CommitsFail = TRUE
  MaxGeneration = 4
SYMMETRY StmtSymmetry
INVARIANT AckedKept
