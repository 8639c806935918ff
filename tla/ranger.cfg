SPECIFICATION RangerFairSpec
CONSTANTS
  Role = {"analyst", "buyer", "admin"}
  User = {"ann", "bob", "root", "eve"}
  Resource = {"silver", "all", "t1", "t2"}
  Models <- Renumbered
  AccessName <- MCAccessName
  GuardName <- MCGuardName
  Lease <- MCLease
  BootRes = {"all"}
  Foreign <- MCForeign
  MaxFaults = 1
  MaxDrift = 1
PROPERTIES
  GuardedFirst
  SecondRunIsQuiet
  LeaseIsRevoked
CHECK_DEADLOCK FALSE
