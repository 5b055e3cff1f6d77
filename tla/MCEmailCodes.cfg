SPECIFICATION MCSpec
CONSTANTS
  Callers = {"invite1", "invite2", "user1", "guess1", "guess2", "guess3"}
  Keys = {1, 2, 3, 4}
  Wants <- MCWants
  Sends <- MCSends
  Checks <- MCChecks
  Subject <- MCSubject
  Address <- MCAddress
  MaxAttempts = 2
  Ttl = 2
  Cooldown = 1
  Hour = 2
  Day = 3
  PerSubjectHour = 1
  PerSubjectDay = 2
  PerAddressDay = 2
  MaxNow = 2
  MaxFaults = 1
INVARIANTS
  BudgetKept
  SendsLimited
PROPERTIES
  SingleUse
  LockImplemented
  NobodyStarves
CHECK_DEADLOCK FALSE
