\* Four batches that land in any order: full snapshots of different times, or ones with equal
\* times and a legacy batch; failures, maintenance by hand, silver rows that expire.
CONSTANTS
  c1 = c1
  c2 = c2
  x = x
  y = y
  Batch = {1, 2, 3, 4}
  Scenario <- Scenarios
  Customer = {c1, c2}
  Attribute = {x, y}
  None = None
  MaxFaults = 2
  MaxExpiries = 1
SPECIFICATION FairSpec
INVARIANT HistoryIsObserved
INVARIANT MartIsNewest
INVARIANT PeriodsDisjoint
PROPERTY KnownSinceKept
PROPERTY EveryBatchRecorded
