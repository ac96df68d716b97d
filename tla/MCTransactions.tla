--------------------------- MODULE MCTransactions ---------------------------
\* Transactions with symmetric statements.
EXTENDS Transactions, TLC

StmtSymmetry == Permutations(Stmts)

=============================================================================
