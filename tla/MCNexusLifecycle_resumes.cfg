SPECIFICATION FairSpec
CONSTANTS
  Processes = {p1, p2}
  Configurations = {seed, other, deaf}
  Seed = seed
  Listenable = {seed, other}
  MaxCrashes = 2
  None = None
INVARIANTS
  TypeOK
  StoredSurvives
  OwnerHasLastWord
PROPERTIES
  KeepsRegister
  ForeignUntouched
  HalfMadeStays
  ServesAgain
