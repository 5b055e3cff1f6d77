SPECIFICATION FairSpec
CONSTANTS
  Addresses = {"a", "b"}
  Contested = {"b"}
  Browsers = {"firefox"}
  MaxBounces = 2
  TokenLife = 1
  Margin = 2
  MaxJobs = 4
  Faults = {"crash", "db", "stalwart"}
  MaxFaults = 1
INVARIANTS
  ForwardsOnlyProven
  ScriptMatches
  SurvivorsRaced
PROPERTIES
  DeletionIsFinal
  DeletionEnds
CHECK_DEADLOCK FALSE
