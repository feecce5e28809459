SPECIFICATION FairSpec
CONSTANT Connections = {k1, k2}
INVARIANTS
  TypeOK
  NothingLeftBehind
  NobodyWaits
PROPERTIES
  ShutdownCompletes
  ClientGoneReleases
  ResponseEnds
CHECK_DEADLOCK FALSE
