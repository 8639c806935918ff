-------------------------- MODULE MCCommerceLanding --------------------------
(* A small instance of CommerceLanding for TLC.                            *)
EXTENDS CommerceLanding

CONSTANTS a, b, w1, w2

\* Two tables; fixtures that differ in the second table only, in both, or in the
\* config of the manifest only.
MCFixture == {
  [tables |-> <<a, a>>, config |-> 1],
  [tables |-> <<a, b>>, config |-> 1],
  [tables |-> <<b, b>>, config |-> 1],
  [tables |-> <<a, a>>, config |-> 2] }
=============================================================================
