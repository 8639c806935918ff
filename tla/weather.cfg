SPECIFICATION FairSpec
CONSTANTS
  c1 = c1
  c2 = c2
  Content = {c1, c2}
  Place <- MCPlace
  Hours <- MCHours
  Backends = {"file", "s3"}
  Workers = 2
  SilverJob = {j1, j2}
  MaxFetch = 2
  MaxDay = 2
  MaxAttempts = 2
  MaxFaults = 1
INVARIANTS
  LandedOnce
  AuditFinds
PROPERTIES
  NewestIsShown
CHECK_DEADLOCK FALSE
