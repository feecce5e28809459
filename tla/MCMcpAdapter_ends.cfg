SPECIFICATION FairSpec
CONSTANTS
  Calls = {c1, c2}
  MaxActive = 2
  MaxSeen = 2
INVARIANT NobodyStranded
PROPERTIES
  CancelledGoesOn
  CancelEnds
  DrainEnds
CHECK_DEADLOCK FALSE
