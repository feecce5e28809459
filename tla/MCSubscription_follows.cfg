SPECIFICATION FairSpec
CONSTANTS
  Deliveries = {d1, d2}
  MaxLog = 4
  InFlight = 2
  MaxBreaks = 2
  None = None
INVARIANTS
  TypeOK
  NothingMissed
  OutcomeIsTrue
  LossIsExplicit
PROPERTIES
  FollowsHistory
  PlaceKept
  EndIsLearned
CHECK_DEADLOCK FALSE
