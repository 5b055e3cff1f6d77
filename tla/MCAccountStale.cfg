SPECIFICATION Spec
CONSTANTS
  Addresses = {"a"}
  Contested = {}
  Browsers = {}
  MaxBounces = 2
  TokenLife = 1
  Margin = 2
  MaxJobs = 3
  Faults = {"crash"}
  MaxFaults = 1
INVARIANT
  NeverStale
CHECK_DEADLOCK FALSE
