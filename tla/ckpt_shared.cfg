\* Two runners of one checkout, an operator, late batches, a rewritten marker, crashes.
CONSTANTS
  r1 = r1
  r2 = r2
  Batch = {1, 2, 3}
  BatchAt <- MCBatchAt
  FullSnapshot = {2}
  Late = {1, 2, 3}
  Mutable = {1}
  Digest = {d1, d2}
  NoDigest = NoDigest
  NoIntent = NoIntent
  Runner = {r1, r2}
  Operator = {o1}
  Nobody = Nobody
  N = 3
  MaxFaults = 2
SPECIFICATION Spec
SYMMETRY RunnerSymmetry
INVARIANT WorkIsOwned
INVARIANT ProcessedIsPublished
PROPERTY ImplementsLedger
