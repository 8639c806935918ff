--------------------------- MODULE CustomerHistory ---------------------------
(***************************************************************************)
(* What the commerce runner does to the customer history                    *)
(* (gold.dim_customers_scd2, jobs/spark/commerce_customer_scd2.py) and to   *)
(* the current mart (jobs/spark/gold_commerce_current.py) while batches     *)
(* land late, attempts fail before or after a publication and are retried,  *)
(* and an operator runs the history rebuild by hand. One writer at a time,  *)
(* as both jobs demand; CommerceCheckpoint models who that writer is.       *)
(***************************************************************************)
EXTENDS Integers

CONSTANTS
  Batch,       \* batch ids, as numbers in the order of their text
  Scenario,    \* what the generator may land under these ids: records of
               \*   at    batch_at of each batch
               \*   full  the batches declared full_snapshot
               \*   row   valid customer rows of each batch: a customer may be absent
  Customer,
  Attribute,   \* attribute_hash: what a customer row says
  None,        \* no batch
  MaxFaults,   \* bound on failing stages
  MaxExpiries  \* bound on silver batches that are deleted

ASSUME BatchAssumption == Batch \subseteq Nat /\ None \notin Batch
ASSUME ScenarioAssumption ==
  \A w \in Scenario :
    /\ w.at \in [Batch -> Nat] /\ w.full \subseteq Batch
    /\ \A b \in Batch : DOMAIN w.row[b] \subseteq Customer
                       /\ \A c \in DOMAIN w.row[b] : w.row[b][c] \in Attribute
ASSUME BoundAssumption == MaxFaults \in Nat /\ MaxExpiries \in Nat

VARIABLES
  scenario,    \* one of Scenario
  landed,      \* batches with a visible marker
  processed,   \* the checkpoint
  active,      \* the reserved batch
  silver,      \* batches whose rows are in silver.commerce_customers
  history,     \* dim_customers_scd2
  mart,        \* the snapshot in commerce_current_daily
  attempt,     \* the runner: its next stage and its history mode
  faults,
  expiries,
  applied      \* auxiliary: the batches that history has taken in

vars == <<scenario, landed, processed, active, silver, history, mart, attempt, faults,
          expiries, applied>>

At == scenario.at
Full == scenario.full
Row == scenario.row

Version(c, b, to) ==
  [customer |-> c, attr |-> Row[b][c], batch |-> b, from |-> At[b], to |-> to]

TypeOK ==
  /\ scenario \in Scenario
  /\ landed \subseteq Batch /\ processed \subseteq landed
  /\ active \in landed \cup {None}
  /\ silver \subseteq landed /\ applied \subseteq landed
  /\ \A v \in history : \E c \in Customer, b \in landed, t \in {{}} \cup {{At[q]} : q \in landed} :
       c \in DOMAIN Row[b] /\ v = Version(c, b, t)
  /\ mart \in (landed \cap Full) \cup {None}
  /\ attempt \in [at : {"off", "silver", "history", "current", "commit"},
                  mode : {"legacy", "forward", "rebuild"}]
  /\ attempt.at # "off" => active # None
  /\ faults \in 0..MaxFaults /\ expiries \in 0..MaxExpiries

Init ==
  /\ scenario \in Scenario
  /\ landed = {} /\ processed = {} /\ active = None
  /\ silver = {} /\ history = {} /\ mart = None
  /\ attempt = [at |-> "off", mode |-> "legacy"]
  /\ faults = 0 /\ expiries = 0 /\ applied = {}

-----------------------------------------------------------------------------
(* The two ways to compute a history. A version is a period [from, to) with *)
(* the batch that began it; to = {} is NULL, which is what is_current says. *)

Observed(S, c) == {b \in S : c \in DOMAIN Row[b]}

\* lag(attribute_hash): a version starts where the attributes differ from the last seen.
Follows(S, c, p, b) ==
  At[p] < At[b] /\ ~\E q \in Observed(S, c) : At[p] < At[q] /\ At[q] < At[b]
Starts(S, c) ==
  {b \in Observed(S, c) :
     \A p \in Observed(S, c) : Follows(S, c, p, b) => Row[p][c] # Row[b][c]}

\* lead(valid_from): it ends where the next one starts.
Ends(S, c, b) ==
  {At[q] : q \in {s \in Starts(S, c) :
     At[b] < At[s] /\ \A r \in Starts(S, c) : At[b] < At[r] => At[s] <= At[r]}}

Canonical(S) ==
  UNION {{Version(c, b, Ends(S, c, b)) : b \in Starts(S, c)} : c \in Customer}

\* Customers of a batch that are new or whose attributes changed.
Current(h) == {v \in h : v.to = {}}
Changed(h, b) ==
  {c \in DOMAIN Row[b] : \A v \in Current(h) : v.customer = c => v.attr # Row[b][c]}

\* The MERGE: close what changed and insert, in one Iceberg commit.
Merged(h, b) ==
  LET closing == {v \in Current(h) : v.customer \in Changed(h, b)} IN
  (h \ closing) \cup {[v EXCEPT !.to = {At[b]}] : v \in closing}
                \cup {Version(c, b, {}) : c \in Changed(h, b)}

\* validate_target: one current version, positive periods, no gap to the next one.
Valid(h) ==
  /\ \A v \in h : \E w \in Current(h) : w.customer = v.customer
  /\ \A v, w \in Current(h) : v.customer = w.customer => v = w
  /\ \A v \in h : \A t \in v.to : v.from < t
  /\ \A v, w \in h :
       /\ v.customer = w.customer /\ v.from < w.from
       /\ ~\E u \in h : u.customer = v.customer /\ v.from < u.from /\ u.from < w.from
       => v.to \in {{}, {w.from}}

\* Mutant: a late observation is merged like any other.
MutOutOfOrder(h, b) == FALSE

OutOfOrder(h, b) ==
  \E v \in Current(h) :
    v.customer \in Changed(h, b) /\ At[b] <= v.from

\* Mutant: the existing history is not looked at.
MutCovers(h, S) == TRUE

\* Every customer and every period of the existing history has a source at or before it.
Covers(h, S) == \A v \in h : \E b \in Observed(S, v.customer) : At[b] <= v.from

Ambiguous(S) ==
  \E c \in Customer : \E p, q \in Observed(S, c) : p # q /\ At[p] = At[q]

ForwardPossible ==
  /\ active \in silver /\ DOMAIN Row[active] # {}
  /\ Valid(history) /\ ~OutOfOrder(history, active)
RebuildPossible ==
  /\ \E b \in silver : DOMAIN Row[b] # {}
  /\ ~Ambiguous(silver) /\ Covers(history, silver)

-----------------------------------------------------------------------------
(* One attempt of the runner.                                              *)

Land(b) ==
  /\ landed' = landed \cup {b}
  /\ UNCHANGED <<scenario, processed, active, silver, history, mart, attempt, faults, expiries, applied>>

\* Mutant: execution_options never asks for a rebuild.
MutMode(b) == IF b \in Full THEN "forward" ELSE "legacy"

\* execution_options: a full snapshot older than a recorded batch is late.
Mode(b) ==
  IF b \notin Full THEN "legacy"
  ELSE IF \E p \in processed : At[b] < At[p] THEN "rebuild" ELSE "forward"

Before(p, b) == At[p] < At[b] \/ (At[p] = At[b] /\ p < b)

\* plan and begin: the reserved batch, or the earliest pending one.
Select(b) ==
  /\ attempt.at = "off"
  /\ b \in landed \ processed
  /\ \/ b = active
     \/ active = None /\ \A p \in landed \ processed : p = b \/ Before(b, p)
  /\ active' = b
  /\ attempt' = [at |-> "silver", mode |-> Mode(b)]
  /\ UNCHANGED <<scenario, landed, processed, silver, history, mart, faults, expiries, applied>>

Idle == attempt' = [attempt EXCEPT !.at = "off"]

\* Customer silver inserts the rows of the batch that are not there.
Silver ==
  /\ attempt.at = "silver"
  /\ silver' = silver \cup {active}
  /\ attempt' = [attempt EXCEPT !.at = "history"]
  /\ UNCHANGED <<scenario, landed, processed, active, history, mart, faults, expiries, applied>>

\* Mutant: the rebuild reads the recorded batches only.
MutSource == silver \cap processed

\* A rebuild reads all of silver.
Source == silver

Forward ==
  /\ ForwardPossible
  /\ history' = Merged(history, active) /\ applied' = applied \cup {active}
Rebuild ==
  /\ RebuildPossible
  /\ history' = Canonical(Source) /\ applied' = Source

AfterHistory == [attempt EXCEPT !.at = IF attempt.mode = "legacy" THEN "commit" ELSE "current"]

\* The history stage. An attempt that fails after the publication leaves it published.
History ==
  /\ attempt.at = "history"
  /\ IF attempt.mode = "rebuild" THEN Rebuild ELSE Forward
  /\ \/ attempt' = AfterHistory /\ UNCHANGED faults
     \/ Idle /\ faults < MaxFaults /\ faults' = faults + 1
  /\ UNCHANGED <<scenario, landed, processed, active, silver, mart, expiries>>

HistoryRefused ==
  /\ attempt.at = "history"
  /\ IF attempt.mode = "rebuild" THEN ~RebuildPossible ELSE ~ForwardPossible
  /\ Idle
  /\ UNCHANGED <<scenario, landed, processed, active, silver, history, mart, faults, expiries, applied>>

\* Mutant: the snapshot that ran last is the current one.
MutAction(b) == IF mart = None THEN "create" ELSE "replace"

\* snapshot_action: identities of one time must be equal.
Action(b) ==
  IF mart = None THEN "create"
  ELSE IF At[b] < At[mart] THEN "stale"
  ELSE IF At[b] > At[mart] THEN "replace"
  ELSE IF b = mart THEN "replay" ELSE "conflict"

\* publish_snapshot: the whole mart is replaced, or nothing is.
CurrentMart ==
  /\ attempt.at = "current"
  /\ Action(active) # "conflict"
  /\ mart' = IF Action(active) \in {"create", "replace"} THEN active ELSE mart
  /\ \/ attempt' = [attempt EXCEPT !.at = "commit"] /\ UNCHANGED faults
     \/ Idle /\ faults < MaxFaults /\ faults' = faults + 1
  /\ UNCHANGED <<scenario, landed, processed, active, silver, history, expiries, applied>>

MartRefused ==
  /\ attempt.at = "current"
  /\ Action(active) = "conflict"
  /\ Idle
  /\ UNCHANGED <<scenario, landed, processed, active, silver, history, mart, faults, expiries, applied>>

Commit ==
  /\ attempt.at = "commit"
  /\ processed' = processed \cup {active} /\ active' = None
  /\ Idle
  /\ UNCHANGED <<scenario, landed, silver, history, mart, faults, expiries, applied>>

\* Any stage, the daily mart and the gold gate among them, fails and publishes nothing.
Fail ==
  /\ attempt.at # "off"
  /\ faults < MaxFaults /\ faults' = faults + 1
  /\ Idle
  /\ UNCHANGED <<scenario, landed, processed, active, silver, history, mart, expiries, applied>>

-----------------------------------------------------------------------------
(* An operator, while no attempt runs.                                     *)

\* Bronze and customer silver of a late full snapshot, by hand.
Maintain(b) ==
  /\ attempt.at = "off"
  /\ b \in landed \cap Full /\ \E p \in processed : At[b] < At[p]
  /\ silver' = silver \cup {b}
  /\ UNCHANGED <<scenario, landed, processed, active, history, mart, attempt, faults, expiries, applied>>

RebuildByHand ==
  /\ attempt.at = "off"
  /\ Rebuild
  /\ UNCHANGED <<scenario, landed, processed, active, silver, mart, attempt, faults, expiries>>

\* A retention job deletes the customer rows of a recorded batch.
Expire(b) ==
  /\ attempt.at = "off"
  /\ b \in processed \cap silver
  /\ silver' = silver \ {b}
  /\ expiries < MaxExpiries /\ expiries' = expiries + 1
  /\ UNCHANGED <<scenario, landed, processed, active, history, mart, attempt, faults, applied>>

-----------------------------------------------------------------------------

Stage == Silver \/ History \/ HistoryRefused \/ CurrentMart \/ MartRefused \/ Commit

Next ==
  \/ \E b \in Batch : Land(b) \/ Select(b) \/ Maintain(b) \/ Expire(b)
  \/ Stage \/ Fail \/ RebuildByHand

Spec == Init /\ [][Next]_vars
FairSpec == Spec /\ WF_vars((\E b \in Batch : Select(b)) \/ Stage)

-----------------------------------------------------------------------------

\* What the generator lands: full snapshots of different times.
Regular == Full = Batch /\ \A p, q \in Batch : At[p] = At[q] => p = q

\* While silver keeps its rows, the table is the history of the observations it has taken in, ordered by their
\* effective time and not by their arrival: the MERGE of a batch on time and the rebuild
\* for a late one compute the same table, and no recorded batch is left out.
HistoryIsCanonical == history = Canonical(applied)
HistoryIsObserved ==
  Regular /\ expiries = 0 => HistoryIsCanonical /\ processed \subseteq applied

\* The periods of a customer never overlap, with any kind of batch and equal times.
PeriodsDisjoint ==
  \A v, w \in history : v.customer = w.customer /\ v # w =>
    \/ v.to # {} /\ \A t \in v.to : v.from < t /\ t <= w.from
    \/ w.to # {} /\ \A t \in w.to : w.from < t /\ t <= v.from

\* With nothing reserved the mart is the newest full snapshot that was recorded.
MartIsNewest ==
  active = None =>
    IF processed \cap Full = {} THEN mart = None
    ELSE mart \in processed /\ \A p \in processed \cap Full : At[p] <= At[mart]

\* No rebuild loses a customer or the time since when it is known, although silver may
\* have lost rows.
KnownSinceKept ==
  [][\A v \in history : \E w \in history' :
       w.customer = v.customer /\ w.from <= v.from]_vars

\* A late full snapshot does not block the queue: as long as silver keeps its rows, every
\* batch is recorded.
EveryBatchRecorded ==
  [](Regular /\ expiries = 0) => \A b \in Batch : b \in landed ~> b \in processed

-----------------------------------------------------------------------------
(* The inductive invariant.                                                *)

\* The mode of an attempt was right when it was selected, and nobody records a batch beside it.
AttemptKnows ==
  /\ active \notin processed
  /\ attempt.at # "off" =>
       /\ attempt.mode = "legacy" <=> active \notin Full
       /\ attempt.mode = "forward" => \A p \in processed : At[p] <= At[active]
       /\ attempt.at # "silver" => active \in silver
       /\ attempt.at = "current" => active \in Full

MartKnown ==
  /\ mart \in processed \cup {active, None}
  /\ \A p \in processed \cap Full : mart # None /\ At[p] <= At[mart]
  /\ attempt.at = "commit" /\ active \in Full => mart # None /\ At[active] <= At[mart]

\* While silver keeps its rows, what is neither recorded nor reserved there is late: the
\* MERGE of a batch on time meets nothing newer.
HistoryKnown ==
  Regular /\ expiries = 0 =>
    /\ HistoryIsCanonical
    /\ processed \subseteq applied /\ applied \subseteq silver
    /\ attempt.at \in {"current", "commit"} => active \in applied
    /\ \A b \in silver : b \in processed \cup {active} \/ \E p \in processed : At[b] < At[p]

IInv == TypeOK /\ AttemptKnows /\ MartKnown /\ PeriodsDisjoint /\ HistoryKnown
=============================================================================
