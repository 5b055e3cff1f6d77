SPECIFICATION ServerSpec
CONSTANTS
  Components = {"tokens", "feed", "asking", "limit", "access", "log",
                "signin", "senders"}
  u1 = u1
  u2 = u2
  q1 = q1
  t1 = t1
  t2 = t2
  Uploads <- MCUploads
  Prerequests <- MCPrerequests
  TokenIds <- MCTokenIds
  Secret <- MCSecret
  UsesMax <- LastUse
  Faults = {"crash", "db"}
  v1 = v1
  v2 = v2
  d1 = d1
  d2 = d2
  Ids <- ThreeIds
  When <- ThreeWhen
  Public = {1, 2, 3}
  Notes = {1}
  Views <- TwoViews
  Deletes <- TwoDeletes
  Target <- ThreeTargets
  FeedFaults = {"crash", "db"}
  Logins <- FiveLogins
  IpOf <- TwoIps
  NameOf <- TwoVictims
  MaxFails <- FewFails
  Block = 2
  MaxTracked = 1
  MaxClock = 4
  Posts <- ThreePosts
  AddressKey <- TwoKeys
  Approvals <- TwoApprovals
  Rejections <- OneRejection
  About <- FirstPost
  MaxPending = 1
  FaultsAllowed = TRUE
  Names <- TwoNames
  Days = 1
  MaxNow = 2
  MaxSteps = 3
  Fails = TRUE
  Tabs <- TwoTabs
  Users <- TwoUsers
  MaxFlows = 3
  Disturbances = TRUE
SYMMETRY ServerSymmetry
INVARIANTS
  UsesKept
  AuditTruthful
  FeedSound
  GuessesBounded
  OneInvitePerRequest
  LogsTrue
  SignInsTrue
  NewSendersHeld
CHECK_DEADLOCK FALSE
