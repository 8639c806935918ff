\* Two writers with any fixtures of one batch id, a reader, two faults, retries.
CONSTANTS
  a = a
  b = b
  w1 = w1
  w2 = w2
  T = 2
  Content = {a, b}
  Absent = Absent
  Writer = {w1, w2}
  Reader = {r1}
  Fixture <- MCFixture
  MaxFaults = 2
SPECIFICATION FairSpec
INVARIANT MarkerCoversTables
PROPERTY ImplementsPromise
PROPERTY RetryLands
