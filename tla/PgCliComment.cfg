SPECIFICATION Spec
CONSTANTS
  r1 = r1
  Rows = {r1}
  NoStatement = NoStatement
  Lines <- AllLines
  MaxLines = 4
  MaxFaults = 0
INVARIANT
  WrittenInsertsDurable
CHECK_DEADLOCK FALSE
