SPECIFICATION FairSpec
CONSTANTS
  r1 = r1
  r2 = r2
  Rows = {r1, r2}
  NoStatement = NoStatement
  Statements <- AllStatements
  MaxStmts = 3
  MaxFaults = 3
INVARIANTS
  NoHiddenTransaction
  AckedInsertsDurable
  UndisturbedBlocksHold
PROPERTY
  Answered
CHECK_DEADLOCK FALSE
