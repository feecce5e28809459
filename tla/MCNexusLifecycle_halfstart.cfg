SPECIFICATION FairSpec
CONSTANTS
  Processes = {p1}
  Configurations = {seed, other}
  Seed = seed
  Listenable = {seed, other}
  MaxCrashes = 1
  None = None
PROPERTY FirstStartResumed
