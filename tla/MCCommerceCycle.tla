---------------------------- MODULE MCCommerceCycle ----------------------------
(* A small instance of CommerceCycle for TLC.                              *)
EXTENDS CommerceCycle

\* Two batches that land a cycle apart.
Apart == {[b \in Batch |-> 2 * (b - 1)]}
=============================================================================
