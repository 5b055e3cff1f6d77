SPECIFICATION Spec
CONSTANTS
  s1 = s1
  s2 = s2
  i1 = i1
  Signups <- MCSignups
  Invites <- MCInvites
  Code <- MCCode
  Username <- TwoNames
  Address <- OneAddress
  MaxAdmin = 0
  Faults = {"stalwart"}
  MaxFaults = 1
INVARIANT
  MailboxKeepsName
CHECK_DEADLOCK FALSE
