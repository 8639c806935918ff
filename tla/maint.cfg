\* Two operators beside writers, and one with rollbacks, a tag or edited plans.
CONSTANTS
  d1 = d1
  d2 = d2
  d3 = d3
  e1 = e1
  e2 = e2
  Data = {d1, d2, d3}
  Exec = {e1, e2}
  Keep = 2
  MaxExpire = 1
  Scenarios <- Cases
SPECIFICATION Spec
SYMMETRY Symmetry
INVARIANT UploadsSurvive
INVARIANT SucceededAlone
INVARIANT SnapshotsReadable
PROPERTY RetentionKept
