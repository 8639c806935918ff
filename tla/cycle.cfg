\* Four cycles, each two intervals long; alerts outlive two intervals. The schedule ends.
CONSTANTS
  Cycles = 4
  Interval = 2
  Budget = 4
  Grace = 3
  Removal = 1
  Journal = 1
  Stages = 2
  StageLimit = 3
  QueryLimit = 1
  Attempts = 2
  Delay = 1
  SourceAge = 3
  BacklogAge = 1
  Valid = 5
  Batch = {1, 2}
  Landing <- Apart
  None = None
  MaxFaults = 1
SPECIFICATION Spec
INVARIANT ExitIsHonest
INVARIANT AlertStaysUp
PROPERTY NoLateCommit
PROPERTY KillSparesCleanup
CHECK_DEADLOCK FALSE
