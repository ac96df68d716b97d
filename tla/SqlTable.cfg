SPECIFICATION Spec
CONSTANTS
  Base = 8
  Group = 2
  Mantissa = 16
  MaxRows = 3
  Evaluate <- Eval
  Failure <- Error
  Statements <- MCStatements
INVARIANTS
  ConstraintsHold
  StatementEffect
  SelectExact
  CountExact
