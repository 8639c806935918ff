\* Two runs of two stages, cleanup, reused names, three mishaps.
CONSTANTS
  r1 = r1
  r2 = r2
  Run = {r1, r2}
  N = 2
  None = None
  Operator = Operator
  Foreign = Foreign
  MaxMishaps = 3
SPECIFICATION DockerFairSpec
INVARIANT LeftoverIsJournaled
INVARIANT CleanupSparesRuns
INVARIANT ConfirmedIsStopped
PROPERTY LeftoverIsRemoved
