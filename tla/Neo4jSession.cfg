SPECIFICATION FairSpec
CONSTANTS
  Labels <- PersonLabel
  Constraints <- EmailConstraint
  NoCommand = NoCommand
  MaxCommands = 3
  MaxFaults = 3
INVARIANTS
  AckedWritesStay
  WrittenAtMostOnce
  ResultsComplete
  SchemaComplete
PROPERTY
  Answered
CHECK_DEADLOCK FALSE
