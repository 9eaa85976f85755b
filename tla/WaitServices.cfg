SPECIFICATION FairSpec
CONSTANTS
  Services <- ThreeServices
  Kind <- Kinds
  MaxWait <- Attempts
  RestartLimit = 3
INVARIANTS
  TypeOK
  ReadyMeansServed
  LoopMeansRestarts
PROPERTY
  EndsUnlessHung
CHECK_DEADLOCK FALSE
