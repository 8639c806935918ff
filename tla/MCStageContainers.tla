-------------------------- MODULE MCStageContainers --------------------------
(* A small instance of StageContainers for TLC.                            *)
EXTENDS StageContainers

CONSTANTS r1, r2
=============================================================================
