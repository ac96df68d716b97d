SPECIFICATION Spec
CONSTANTS
  Conns = {c1, c2}
  TxnConns = {c1}
  AutoConns = {c2}
  Stmts = {s1, s2}
  CommitsFail = FALSE
  MaxGeneration = 2
SYMMETRY StmtSymmetry
CHECK_DEADLOCK FALSE
INVARIANT AckedKept
