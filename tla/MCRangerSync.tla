----------------------------- MODULE MCRangerSync -----------------------------
(* Two guarded roles and an unguarded one. In the editions of the first list   *)
(* the tables of a role are renumbered; in those of the second a guarded table *)
(* moves from one role to another.                                         *)
EXTENDS RangerSync

Filter(t) == [type |-> 2, res |-> t]
Mask(t) == [type |-> 1, res |-> t]
Edition(a, b) == [grants |-> [analyst |-> {"silver"}, buyer |-> {"silver"}, admin |-> {"all"}],
                  guards |-> [analyst |-> a, buyer |-> b, admin |-> <<>>],
                  users |-> [analyst |-> {"ann"}, buyer |-> {}, admin |-> {"root"}]]

Renumbered == <<Edition(<<Filter("t1")>>, <<>>), Edition(<<Filter("t2"), Filter("t1")>>, <<>>)>>

WithBuyer(e) == [e EXCEPT !.users.buyer = {"bob"}]
Moved == <<WithBuyer(Edition(<<>>, <<Filter("t1")>>)),
           WithBuyer(Edition(<<Filter("t1")>>, <<Filter("t2")>>))>>

ASSUME InstanceIsOrderly == Models = Renumbered => GuardsAhead /\ Orderly /\ BootGranted

MCAccessName == [silver |-> 11, all |-> 12, t1 |-> 13, t2 |-> 14]
MCGuardName == [analyst |-> <<1, 2>>, buyer |-> <<3, 4>>, admin |-> <<5, 6>>]
MCLease == [user |-> "eve", role |-> "analyst"]
MCForeign == {[name |-> 900, type |-> 0, res |-> r, owner |-> "other", users |-> {}] :
                r \in {"all", "t2"}}
=============================================================================
