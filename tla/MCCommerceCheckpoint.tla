------------------------ MODULE MCCommerceCheckpoint ------------------------
(* Small instances of CommerceCheckpoint for TLC.                          *)
EXTENDS CommerceCheckpoint, TLC

CONSTANTS r1, r2

\* Three batches whose id order differs from their event-time order; 1 and 3 share
\* an event time, so the id decides between them.
MCBatchAt == (1 :> 2) @@ (2 :> 1) @@ (3 :> 2)

\* Runners are interchangeable; used where no liveness is checked.
RunnerSymmetry == Permutations({r1, r2})
=============================================================================
