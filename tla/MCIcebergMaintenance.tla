------------------------ MODULE MCIcebergMaintenance ------------------------
(* A small instance of IcebergMaintenance for TLC.                          *)
EXTENDS IcebergMaintenance, TLC

CONSTANTS d1, d2, d3, e1, e2

\* The subsets of S with two elements.
Pair(S) == {P \in SUBSET S : Cardinality(P) = 2}

\* Two operators who expire, and remove orphans or see days go by, beside writers; one who does
\* everything in turn, with rollbacks and edited plans; and one who expires, with more commits
\* and two of rollbacks, a tag and days.
Cases ==
  {[exec |-> Exec, data |-> D, kinds |-> {"expire", "orphans"}, beside |-> {}, bound |-> 3] :
      D \in Pair(Data)}
    \cup {[exec |-> Exec, data |-> D, kinds |-> {"expire"}, beside |-> {"days"}, bound |-> 3] :
      D \in Pair(Data)}
    \cup {[exec |-> {e}, data |-> D, kinds |-> {"rewrite", "expire", "orphans"},
           beside |-> {"rollback", "edit"}, bound |-> 4] : e \in Exec, D \in Pair(Data)}
    \cup {[exec |-> {e}, data |-> Data, kinds |-> {"expire"}, beside |-> B, bound |-> 4] :
      e \in Exec, B \in Pair({"rollback", "tag", "days"})}

Symmetry == Permutations(Data) \cup Permutations(Exec)
=============================================================================
