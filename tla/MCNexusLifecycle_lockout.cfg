SPECIFICATION FairSpec
CONSTANTS
  Processes = {p1}
  Configurations = {seed, other}
  Seed = seed
  Listenable = {seed, other}
  MaxCrashes = 0
  None = None
PROPERTY ConfigureServed
