SPECIFICATION Spec
CONSTANTS
  Lines <- MCLines
  Commands <- MCCommands
  MaxLines = 5
INVARIANTS
  NothingLost
  InTypedOrder
  OneTerminatorPerQuery
  CommandsBetweenStatements
CHECK_DEADLOCK FALSE
