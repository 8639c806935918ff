-------------------------- MODULE MCRecoveryDrills --------------------------
(* A small instance of RecoveryDrills, and of TrinoClient in it, for TLC.   *)
EXTENDS RecoveryDrills

=============================================================================
