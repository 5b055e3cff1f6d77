SPECIFICATION Spec
CONSTANTS
  u1 = u1
  u2 = u2
  q1 = q1
  t1 = t1
  t2 = t2
  Uploads <- MCUploads
  Prerequests <- MCPrerequests
  TokenIds <- MCTokenIds
  Secret <- MCSecret
  UsesMax <- MCUsesMax
  Faults = {}
SYMMETRY MCSymmetry
INVARIANTS
  EveryOutcomeAudited
CHECK_DEADLOCK FALSE
