SPECIFICATION Spec
CONSTANTS
  r1 = r1
  r2 = r2
  Rows = {r1, r2}
  NoStatement = NoStatement
  Statements <- RowErrorStatements
  MaxStmts = 5
  MaxFaults = 0
INVARIANT
  CommitKeeps
CHECK_DEADLOCK FALSE
