SPECIFICATION FairSpec
CONSTANTS
  Lines <- GuideLines
  BadMethods <- WordsWithColon
  BadPaths <- SlashlessPaths
  Terminated <- PathsWithSemi
  NameIn <- TwoNames
  MaxLines = 3
  MaxTimeouts = 2
  MaxPolls = 2
INVARIANTS
  TypeOK
  QueriesAreRunsOfLines
  AppliedAsTyped
  IndexReadyAtPrompt
  ListingComplete
PROPERTY
  CommandEnds
CHECK_DEADLOCK FALSE
