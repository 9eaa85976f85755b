SPECIFICATION Spec
CONSTANTS
  a = a
  b = b
  t1 = t1
  cf1 = cf1
  i1 = i1
  Instances = {i1}
  Clis = {a, b}
  Tables = {t1}
  Families = {cf1}
  RowKeys <- ThreeRows
  Limits <- SomeLimits
  MaxCommands = 6
  MaxFaults = 2
SYMMETRY BothClis
INVARIANTS
  ReadyMeansUsable
  HalfTableIsReported
PROPERTY
  ScanShowsFirstRows
CHECK_DEADLOCK FALSE
