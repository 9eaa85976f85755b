SPECIFICATION Spec
CONSTANTS
  r1 = r1
  r2 = r2
  Rows = {r1, r2}
  NoStatement = NoStatement
  Statements <- PlainStatements
  MaxStmts = 3
  MaxFaults = 1
INVARIANT
  RollbackDiscards
CHECK_DEADLOCK FALSE
