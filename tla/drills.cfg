\* Every exercise, a result of two pages and one page more to read, two faults.
CONSTANTS
  Kinds = {"outage", "loss", "upgrade", "worker", "observe"}
  MaxSnap = 2
  MaxFaults = 2
  Pages = 2
  PageLimit = 3
SPECIFICATION FairSpec
INVARIANT ServicesBack
INVARIANT CommitsKept
INVARIANT ReportIsTrue
INVARIANT ResultIsWhole
INVARIANT LeftIsReported
PROPERTY SlotsComeBack
CHECK_DEADLOCK FALSE
