SPECIFICATION FairSpec
CONSTANTS
  Configs <- MCConfigs
  Extras <- MCExtras
  Connections = {c1, c2}
  Closers = {x1, x2}
  MaxRequests = 2
INVARIANTS
  AnswersBeforeHooks
  ClosedInReverse
  ResolvedMeansClosed
PROPERTIES
  MissingImportIsMissing
  EveryCloseSettles
CHECK_DEADLOCK FALSE
