SPECIFICATION Spec
CONSTANTS
  s1 = s1
  s2 = s2
  i1 = i1
  Signups <- MCSignups
  Invites <- MCInvites
  Code <- MCCode
  Username <- TwoNames
  Address <- OneAddress
  MaxAdmin = 2
  Faults = {"crash", "db", "stalwart"}
  MaxFaults = 1
INVARIANTS
  InviteSpentOnce
  MailboxExplained
CHECK_DEADLOCK FALSE
