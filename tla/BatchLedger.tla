----------------------------- MODULE BatchLedger -----------------------------
(***************************************************************************)
(* What the planner promises the stages, without files, locks, listings or *)
(* processes: at most one batch is reserved, only a reserved or a recorded *)
(* batch is worked on, and while one is reserved no other is recorded.     *)
(***************************************************************************)
CONSTANTS
  Batch,
  NoBatch  \* no member of Batch

VARIABLES
  reserved,  \* the batch that owns the pipeline, or NoBatch
  touched,   \* batches with rows in some commerce table
  recorded   \* batches the checkpoint records

ledger == <<reserved, touched, recorded>>

Init == reserved = NoBatch /\ touched = {} /\ recorded = {}

\* A batch gets the pipeline only when it is free, and only for new work.
Reserve(b) ==
  /\ reserved = NoBatch
  /\ b \notin recorded
  /\ reserved' = b
  /\ UNCHANGED <<touched, recorded>>

\* Stages write the reserved batch, or write a recorded batch again.
Publish(b) ==
  /\ b = reserved \/ b \in recorded
  /\ touched' = touched \cup {b}
  /\ UNCHANGED <<reserved, recorded>>

\* A batch with published rows is recorded, and gives the pipeline back.
Record(b) ==
  /\ b = reserved
  /\ b \in touched
  /\ recorded' = recorded \cup {b}
  /\ reserved' = NoBatch
  /\ UNCHANGED touched

Next == \E b \in Batch : Reserve(b) \/ Publish(b) \/ Record(b)

Spec == Init /\ [][Next]_ledger
=============================================================================
