---------------------------- MODULE LandingPromise ----------------------------
(***************************************************************************)
(* What a landing promises its readers: the tables of a batch appear at     *)
(* once, as one of the fixtures somebody verified, and never change.        *)
(***************************************************************************)
CONSTANTS Tables, Nothing

VARIABLE visible  \* the tables a reader finds behind the commit marker, or Nothing

Init == visible = Nothing

Land(t) == visible = Nothing /\ visible' = t

Next == \E t \in Tables : Land(t)

Spec == Init /\ [][Next]_visible
=============================================================================
