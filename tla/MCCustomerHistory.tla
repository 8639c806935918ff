-------------------------- MODULE MCCustomerHistory --------------------------
(* Small instances of CustomerHistory for TLC.                             *)
EXTENDS CustomerHistory, TLC

CONSTANTS c1, c2, x, y

\* Ids in another order than times; c1 changes and changes back, c2 comes and goes.
FourTimes == (1 :> 2 @@ 2 :> 1 @@ 3 :> 4 @@ 4 :> 3)
FourRows == (1 :> (c1 :> y)
          @@ 2 :> (c1 :> x @@ c2 :> x)
          @@ 3 :> (c1 :> x @@ c2 :> y)
          @@ 4 :> (c1 :> y @@ c2 :> x))

\* Batches 2 and 3 have one time.
TiedTimes == (1 :> 1 @@ 2 :> 2 @@ 3 :> 2 @@ 4 :> 3)
TiedRows == (1 :> (c1 :> x)
          @@ 2 :> (c1 :> x @@ c2 :> x)
          @@ 3 :> (c1 :> y)
          @@ 4 :> (c1 :> x @@ c2 :> x))

\* Two scenarios; in the second, batch 4 has no full snapshot.
Scenarios == {[at |-> FourTimes, full |-> {1, 2, 3, 4}, row |-> FourRows],
            [at |-> TiedTimes, full |-> {1, 2, 3}, row |-> TiedRows]}
=============================================================================
