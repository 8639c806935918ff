\* Two runners, containers that outlive them, one batch that may be late; no operator, so the
\* runner alone records batches. After its last fault it drains the landing prefix.
CONSTANTS
  r1 = r1
  r2 = r2
  Batch = {1, 2, 3}
  BatchAt <- MCBatchAt
  FullSnapshot = {1, 2, 3}
  Late = {2}
  Mutable = {}
  Digest = {d1}
  NoDigest = NoDigest
  NoIntent = NoIntent
  Runner = {r1, r2}
  Operator = {}
  Nobody = Nobody
  N = 3
  MaxFaults = 2
SPECIFICATION FairSpec
INVARIANT OnTimeKeepsOrder
PROPERTY EventuallyProcessed
