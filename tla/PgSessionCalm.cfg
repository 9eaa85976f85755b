SPECIFICATION Spec
CONSTANTS
  r1 = r1
  r2 = r2
  Rows = {r1, r2}
  NoStatement = NoStatement
  Statements <- PlainStatements
  MaxStmts = 5
  MaxFaults = 0
INVARIANTS
  CommitKeeps
  RollbackDiscards
  ReadYourWrites
  RefusedHasNoEffect
PROPERTY
  ImplementsPromise
CHECK_DEADLOCK FALSE
