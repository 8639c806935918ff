--------------------------- MODULE RecoveryDrills ---------------------------
(***************************************************************************)
(* The exercises that take a part of the stack away and put it back:        *)
(* run_metastore_recovery stops the Hive Metastore, run_metadata_db_recovery *)
(* also drops the catalog in PostgreSQL, run_upgrade_rehearsal replaces the  *)
(* Trino nodes back and forth, the worker drill kills a worker under a      *)
(* query. A fourth reader, commerce_query_observations, takes nothing away   *)
(* and asks whether its table has stood still. All of them read the table    *)
(* through TrinoClient. A drill is its list of steps; a step that raises    *)
(* leads to the finally clause, which puts back what its flags ask for.     *)
(***************************************************************************)
EXTENDS TrinoClient, FiniteSets

CONSTANTS
  Kinds,     \* the exercises that may be run
  MaxSnap,   \* bound on the snapshots of the table
  MaxFaults  \* bound on calls that raise, broken requests, kills and recreated containers

VARIABLES
  stack,   \* the containers and the catalog
  newest,  \* the last snapshot that a writer was told is committed
  drill,   \* the exercise
  faults

vars == <<trino, stack, newest, drill, faults>>

Lost == 0

(* The steps of each, the calls of the finally clauses where they come in the normal case. *)

OutageSteps == <<"up", "ask", "stop", "down", "refused", "start", "up", "ask", "report">>

\* Mutant: the backup is made before the metastore is stopped.
MutLossSteps ==
  <<"up", "ask", "backup", "stop", "down", "drop", "gone", "restore", "start", "up", "ask",
    "report">>

LossSteps ==
  <<"up", "ask", "stop", "down", "backup", "drop", "gone", "restore", "start", "up", "ask",
    "report">>

UpgradeSteps == <<"ask", "target", "ask", "source", "ask", "target", "ask", "report">>

WorkerSteps == <<"ask", "submit", "kill", "await", "ask", "revive", "ask", "report">>

\* Snapshots before and after; the queries between them are measured, not compared with the
\* table.
ObserveSteps == <<"ask", "ask", "report">>

Script == [outage |-> OutageSteps, loss |-> LossSteps, upgrade |-> UpgradeSteps,
           worker |-> WorkerSteps, observe |-> ObserveSteps]

ASSUME KindsAssumption == Kinds \subseteq DOMAIN Script
ASSUME BoundsAssumption == MaxSnap \in Nat \ {0} /\ MaxFaults \in Nat

InitStack(kind) ==
  [metastore |-> TRUE, catalog |-> 1, database |-> 1, worker |-> "up", flight |-> "none",
   version |-> IF kind = "upgrade" THEN "source" ELSE "target"]

\* required, restored and stopped are the flags of the code; completed is also the flag of
\* the finally clauses that start with a single call. wrote and stuck are auxiliary: a commit
\* between the first and the last reading, and an end at a call that raised.
InitDrill(kind) ==
  [kind |-> kind, at |-> 1, mode |-> "run", asking |-> FALSE, required |-> kind = "upgrade",
   restored |-> FALSE, stopped |-> FALSE, backup |-> Lost, seen |-> <<>>, ids |-> {},
   status |-> "none", wrote |-> FALSE, stuck |-> FALSE]

Init ==
  /\ InitTrino
  /\ \E kind \in Kinds : stack = InitStack(kind) /\ drill = InitDrill(kind)
  /\ newest = 1 /\ faults = 0

Stacks ==
  [metastore : BOOLEAN, catalog : 0..MaxSnap, database : Nat \ {0},
   worker : {"up", "norestart", "killed", "new"},
   flight : {"none", "running", "failed", "finished"}, version : {"source", "target", "none"}]
Drills ==
  [kind : Kinds, at : Nat \ {0}, mode : {"run", "undo", "over"}, asking : BOOLEAN,
   required : BOOLEAN, restored : BOOLEAN, stopped : BOOLEAN, backup : 0..MaxSnap,
   seen : Seq(0..MaxSnap), ids : SUBSET Nat,
   status : {"none", "failed", "killed", "recovered"}, wrote : BOOLEAN, stuck : BOOLEAN]

TypeOK ==
  /\ TrinoTypeOK /\ server.data \in 0..MaxSnap
  /\ stack \in Stacks /\ drill \in Drills /\ drill.at \in DOMAIN Script[drill.kind]
  /\ newest \in 1..MaxSnap /\ faults \in 0..MaxFaults

-----------------------------------------------------------------------------
(* The control of a drill.                                                 *)

\* What the finally clause has still to do.
NeedsCancel(d) == d.kind = "worker" /\ stack.flight = "running"
NeedsRestore(d) == d.kind = "loss" /\ d.required /\ ~d.restored
NeedsStart(d) == (d.kind = "loss" /\ d.stopped) \/ (d.kind = "outage" /\ d.required)
NeedsTarget(d) == d.kind = "upgrade" /\ d.required
NeedsWorker(d) == d.kind = "worker" /\ d.required
Needs(d) ==
  NeedsCancel(d) \/ NeedsRestore(d) \/ NeedsStart(d) \/ NeedsTarget(d) \/ NeedsWorker(d)

At(step) == drill.mode = "run" /\ ~drill.asking /\ Script[drill.kind][drill.at] = step
Undo == drill.mode = "undo"

Advance(d) == [d EXCEPT !.at = @ + 1]
Raised(d) == [d EXCEPT !.asking = FALSE, !.status = "failed",
                       !.mode = IF Needs(d) THEN "undo" ELSE "over"]

\* A step goes on to the next, a call of the finally clause to what is left of it.
Done(d) ==
  IF d.mode = "run" THEN Advance(d) ELSE [d EXCEPT !.mode = IF Needs(d) THEN "undo" ELSE "over"]
Stuck(d) == IF d.mode = "run" /\ Needs(d) THEN Raised(d)
            ELSE [d EXCEPT !.mode = "over", !.status = "failed", !.stuck = TRUE]

\* A call that makes the stack after: d is the drill before it, e afterwards. It raises with
\* or without its effect, or with half of it.
Attempt(after, half, d, e) ==
  /\ \/ stack' = after /\ drill' = Done(e) /\ UNCHANGED faults
     \/ /\ faults < MaxFaults /\ faults' = faults + 1
        /\ stack' \in {stack, after, half}
        /\ drill' = Stuck(d)
  /\ UNCHANGED <<trino, newest>>

-----------------------------------------------------------------------------
(* The steps.                                                              *)

\* service_state, and the manifest of the catalog where it is read. Docker or PostgreSQL
\* may not answer.
Look(holds) ==
  /\ \/ drill' = (IF holds THEN Advance([drill EXCEPT !.ids = @ \cup {stack.database}])
                  ELSE Raised(drill)) /\ UNCHANGED faults
     \/ faults < MaxFaults /\ faults' = faults + 1 /\ drill' = Raised(drill)
  /\ UNCHANGED <<trino, stack, newest>>

IsUp == At("up") /\ Look(stack.metastore /\ (drill.kind = "loss" => stack.catalog # Lost))
IsDown == At("down") /\ Look(~stack.metastore)
IsGone == At("gone") /\ Look(~stack.metastore /\ stack.catalog = Lost)

\* The outage drill has registered its recovery before it stops the metastore, the other one
\* notes the stop when it has succeeded.
StopMetastore ==
  /\ At("stop")
  /\ LET d == IF drill.kind = "outage" THEN [drill EXCEPT !.required = TRUE] ELSE drill
         e == IF drill.kind = "outage" THEN d ELSE [drill EXCEPT !.stopped = TRUE]
         after == [stack EXCEPT !.metastore = FALSE]
     IN Attempt(after, after, d, e)

\* Mutant: the restore is registered when the catalog has been dropped.
MutBackUp ==
  At("backup") /\ Attempt(stack, stack, drill, [drill EXCEPT !.backup = stack.catalog])

\* pg_dump, and the restore is registered.
BackUp ==
  At("backup")
  /\ Attempt(stack, stack, drill, [drill EXCEPT !.backup = stack.catalog, !.required = TRUE])

\* inject_catalog_loss: one psql command, all of it or nothing.
DropCatalog ==
  LET after == [stack EXCEPT !.catalog = Lost] IN
  At("drop") /\ Attempt(after, after, drill, drill)

\* pg_restore stops at its first error with a part of the catalog.
Restore ==
  /\ At("restore") \/ (Undo /\ ~NeedsCancel(drill) /\ NeedsRestore(drill))
  /\ Attempt([stack EXCEPT !.catalog = drill.backup], [stack EXCEPT !.catalog = Lost],
             drill, [drill EXCEPT !.restored = TRUE])

StartMetastore ==
  /\ At("start") \/ (Undo /\ ~NeedsRestore(drill) /\ NeedsStart(drill))
  /\ LET d == [drill EXCEPT !.required = @ /\ drill.kind # "outage"]
         after == [stack EXCEPT !.metastore = TRUE]
     IN Attempt(after, after, d, [d EXCEPT !.stopped = FALSE])

\* switch_cluster: all nodes are stopped, recreated and waited for.
Switch(version) ==
  /\ At(version) \/ (Undo /\ NeedsTarget(drill) /\ version = "target")
  /\ LET after == [stack EXCEPT !.version = version]
         none == [stack EXCEPT !.version = "none"]
     IN Attempt(after, none, drill,
                IF Undo THEN [drill EXCEPT !.required = FALSE] ELSE drill)

\* The long query that is to lose its worker, driven by a thread.
Submit ==
  At("submit") /\ Attempt([stack EXCEPT !.flight = "running"], stack, drill, drill)

\* docker update --restart=no, then docker kill, once the worker and all nodes have been seen.
KillWorker ==
  /\ At("kill")
  /\ \/ /\ faults < MaxFaults /\ faults' = faults + 1
        /\ drill' = Raised(drill)
        /\ UNCHANGED <<trino, stack, newest>>
     \/ LET d == [drill EXCEPT !.required = TRUE] IN
        Attempt([stack EXCEPT !.worker = "killed"], [stack EXCEPT !.worker = "norestart"], d, d)

\* Its end in time: a failure, as it must be, or not.
Await == At("await") /\ stack.flight # "running" /\ Look(stack.flight = "failed")
AwaitTimesOut ==
  /\ At("await") /\ stack.flight = "running"
  /\ drill' = Raised(drill)
  /\ UNCHANGED <<trino, stack, newest, faults>>

\* cancel_query, and the wait for the thread, which raises after 30 s or with the thread.
CancelFlight ==
  /\ Undo /\ NeedsCancel(drill)
  /\ stack' \in {stack, [stack EXCEPT !.flight = "failed"]}
  /\ drill' = IF stack'.flight = "running" THEN [drill EXCEPT !.mode = "over", !.stuck = TRUE]
              ELSE [drill EXCEPT !.mode = IF NeedsWorker(drill) THEN "undo" ELSE "over"]
  /\ UNCHANGED <<trino, newest, faults>>

\* up --force-recreate of the one worker, in the finally clause in any case.
Revive ==
  /\ At("revive") \/ (Undo /\ ~NeedsCancel(drill) /\ NeedsWorker(drill))
  /\ LET d == [drill EXCEPT !.required = FALSE]
         after == [stack EXCEPT !.worker = "new"]
     IN Attempt(after, after, d, d)

\* What a phase of the rehearsal asks of every node.
Expected == IF drill.at \in {1, 5} THEN "source" ELSE "target"

\* The nodes are read before the table.
Members == drill.kind = "upgrade" => stack.version = Expected

\* A reading of the table, with a client of its own but for the observation.
StartAsk ==
  /\ At("ask") \/ At("refused")
  /\ IF Members
     THEN /\ Ask(drill.kind = "observe", drill.kind # "observe" \/ drill.seen = <<>>)
          /\ drill' = [drill EXCEPT !.asking = TRUE]
     ELSE drill' = Raised(drill) /\ UNCHANGED trino
  /\ UNCHANGED <<stack, newest, faults>>

Answered(step) ==
  /\ drill.asking /\ call.pc = "over" /\ Script[drill.kind][drill.at] = step
  /\ call' = Idle /\ server' = NoQuery
  /\ UNCHANGED <<reader, stack, newest, faults>>

\* The rehearsal is completed with its last reading.
Learn ==
  /\ Answered("ask")
  /\ drill' = IF call.outcome = "result"
              THEN Advance([drill EXCEPT !.asking = FALSE, !.seen = Append(@, server.data),
                                         !.required = @ /\ ~(drill.kind = "upgrade"
                                                             /\ drill.at = 7)])
              ELSE Raised(drill)

\* During the outage only a query that fails is good, and any error of the query, the
\* protocol or the transport is taken for the outage.
Refused ==
  /\ Answered("refused")
  /\ drill' = IF call.outcome \in {"failed", "protocol", "transport"}
              THEN Advance([drill EXCEPT !.asking = FALSE])
              ELSE Raised(drill)

\* Mutant: the snapshots before and after are not compared.
MutStoodStill == TRUE

StoodStill == \A i \in DOMAIN drill.seen : drill.seen[i] = drill.seen[1]
SameDatabase == Cardinality(drill.ids) <= 1

\* The validators.
OutageAccepted == StoodStill /\ SameDatabase
LossAccepted == StoodStill /\ SameDatabase
UpgradeAccepted == StoodStill
WorkerAccepted == StoodStill /\ stack.worker = "new"
ObservationAccepted == StoodStill

Accepted ==
  CASE drill.kind = "outage" -> OutageAccepted
    [] drill.kind = "loss" -> LossAccepted
    [] drill.kind = "upgrade" -> UpgradeAccepted
    [] drill.kind = "worker" -> WorkerAccepted
    [] drill.kind = "observe" -> ObservationAccepted

Report ==
  /\ At("report")
  /\ drill' = [drill EXCEPT !.mode = "over",
                            !.status = IF Accepted THEN "recovered" ELSE "failed"]
  /\ UNCHANGED <<trino, stack, newest, faults>>

Step ==
  \/ IsUp \/ IsDown \/ IsGone \/ StopMetastore \/ BackUp \/ DropCatalog \/ Restore
  \/ StartMetastore \/ (\E version \in {"source", "target"} : Switch(version))
  \/ Submit \/ KillWorker \/ Await \/ AwaitTimesOut \/ CancelFlight \/ Revive
  \/ StartAsk \/ Learn \/ Refused \/ Report

-----------------------------------------------------------------------------
(* What the stack does meanwhile.                                          *)

\* How often the table is to be read, and has been.
Readings == Cardinality({i \in DOMAIN Script[drill.kind] : Script[drill.kind][i] = "ask"})
ReadSoFar == Len(drill.seen) + (IF server.state = "finished" THEN 1 ELSE 0)

\* A writer commits: the pointer to the snapshot is in the catalog, behind the metastore.
Write ==
  /\ stack.metastore /\ stack.catalog # Lost /\ newest < MaxSnap /\ drill.mode # "over"
  /\ newest' = newest + 1
  /\ stack' = [stack EXCEPT !.catalog = newest + 1]
  /\ drill' = [drill EXCEPT !.wrote = @ \/ ReadSoFar \in 1..Readings - 1]
  /\ UNCHANGED <<trino, faults>>

\* The query in flight: Trino gives it up without its worker, and it may fail with it.
FlightEnds ==
  /\ stack.flight = "running"
  /\ \E end \in IF stack.worker = "killed" THEN {"failed"} ELSE {"failed", "finished"} :
       stack' = [stack EXCEPT !.flight = end]
  /\ UNCHANGED <<trino, newest, drill, faults>>

\* Somebody runs docker compose: the database gets a new container, or the cluster the
\* image that compose.yaml has.
Recreate ==
  /\ faults < MaxFaults /\ faults' = faults + 1 /\ drill.mode # "over"
  /\ stack' \in {[stack EXCEPT !.database = @ + 1], [stack EXCEPT !.version = "target"]}
  /\ stack' # stack
  /\ UNCHANGED <<trino, newest, drill>>

\* SIGKILL: no finally clause runs.
Kill ==
  /\ faults < MaxFaults /\ faults' = faults + 1 /\ drill.mode # "over"
  /\ drill' = [drill EXCEPT !.mode = "over", !.asking = FALSE, !.status = "killed"]
  /\ call' = Idle /\ server' = NoQuery /\ reader' = [i \in Thread |-> Free]
  /\ UNCHANGED <<stack, newest>>

\* A query of the table needs the nodes, the metastore (its catalog has no cache) and the
\* table's entry; what it reads is the snapshot of then.
Readable == stack.metastore /\ stack.catalog # Lost /\ stack.version # "none"

Serve ==
  /\ IF Readable THEN Execute(stack.catalog) ELSE server.state = "running" /\ Fail
  /\ UNCHANGED <<stack, newest, drill, faults>>

Client == Proceed /\ UNCHANGED <<stack, newest, drill, faults>>

ClientFault ==
  /\ faults < MaxFaults /\ faults' = faults + 1
  /\ Faulty \/ Fail
  /\ UNCHANGED <<stack, newest, drill>>

Next ==
  Step \/ Write \/ FlightEnds \/ Recreate \/ Kill \/ Serve \/ Client \/ ClientFault

Spec == Init /\ [][Next]_vars
FairSpec == Spec /\ TrinoFairness

-----------------------------------------------------------------------------

\* A drill that ends, with a report or with an error, leaves the metastore running, the
\* catalog in place, the cluster on the target and both workers to their restart policy,
\* unless the very last thing it did was a call that raised (the finally clauses).
ServicesBack ==
  drill.mode = "over" /\ ~drill.stuck /\ drill.status # "killed" =>
    /\ stack.metastore /\ stack.catalog # Lost
    /\ stack.version = "target" /\ stack.worker \in {"up", "new"}

\* No drill takes back what a writer was told is committed: the catalog that is restored is
\* the last one that anybody could write to (backup_database under a stopped metastore).
CommitsKept == stack.catalog \in {Lost, newest}

\* A report of success is of a table that stood still from the first reading to the last,
\* on a stack that is back (the validators).
ReportIsTrue ==
  drill.status = "recovered" =>
    /\ ~drill.wrote
    /\ drill.kind = "outage" => stack.metastore
    /\ drill.kind = "loss" => stack.metastore /\ drill.backup # Lost

-----------------------------------------------------------------------------
(* The inductive invariant.                                                *)

Runs == drill.mode = "run"

\* Between two readings no request of the client's own is on its way.
Rests ==
  /\ drill.asking => Runs /\ call.pc # "idle"
  /\ Runs /\ ~drill.asking =>
       call = Idle /\ server = NoQuery /\ \A i \in Thread : Active(i) => ~reader[i].own

\* What is away, a flag of the finally clause asks for; with no flag left a drill is over.
FlagsCover ==
  drill.mode # "over" \/ (~drill.stuck /\ drill.status # "killed") =>
    /\ ~stack.metastore => NeedsStart(drill)
    /\ stack.catalog = Lost => NeedsRestore(drill)
    /\ stack.version # "target" => NeedsTarget(drill)
    /\ stack.worker \notin {"up", "new"} => NeedsWorker(drill)

OverWithoutFlags ==
  drill.mode = "over" /\ ~drill.stuck /\ drill.status # "killed" =>
    ~(NeedsStart(drill) \/ NeedsRestore(drill) \/ NeedsTarget(drill) \/ NeedsWorker(drill))

\* The flags at each place of a script.
FlagsPlaced ==
  Runs =>
    CASE drill.kind = "outage" -> (drill.at \notin 4..6 => ~drill.required)
      [] drill.kind = "loss" ->
           /\ drill.at \in 4..9 => ~stack.metastore
           /\ drill.required <=> drill.at >= 6
           /\ drill.restored <=> drill.at >= 9
           /\ drill.stopped <=> drill.at \in 4..9
      [] drill.kind = "upgrade" ->
           /\ drill.required <=> drill.at # 8
           /\ drill.at = 7 /\ drill.asking => stack.version = "target"
      [] drill.kind = "worker" ->
           /\ drill.at \notin 4..6 => ~drill.required
           /\ drill.at >= 5 => stack.flight # "running"
      [] OTHER -> TRUE

\* A backup that is still to be restored is of the newest snapshot, and nobody can write.
BackupIsNewest ==
  drill.kind = "loss" /\ drill.required =>
    /\ drill.backup # Lost
    /\ ~drill.restored => ~stack.metastore /\ drill.backup = newest

\* The readings that a script has behind it at each place.
Behind ==
  [outage |-> <<0, 0, 1, 1, 1, 1, 1, 1, 2>>, loss |-> <<0, 0, 1, 1, 1, 1, 1, 1, 1, 1, 1, 2>>,
   upgrade |-> <<0, 1, 1, 2, 2, 3, 3, 4>>, worker |-> <<0, 1, 1, 1, 1, 2, 2, 3>>,
   observe |-> <<0, 1, 2>>]

\* A commit between the readings is newer than the first; the last reading finds it.
SeenKnown ==
  /\ \A i \in DOMAIN drill.seen : drill.seen[i] <= newest
  /\ server.data <= newest
  /\ Runs => /\ Len(drill.seen) = Behind[drill.kind][drill.at]
             /\ drill.status = "none"
             /\ drill.wrote =>
                  IF drill.seen = <<>>
                  THEN /\ drill.asking /\ server.state \in {"finished", "failed", "cancelled"}
                       /\ server.state = "finished" => server.data < newest
                  ELSE /\ drill.seen[1] < newest
                       /\ Len(drill.seen) = Readings => drill.seen[1] < drill.seen[Readings]
                       /\ Len(drill.seen) = Readings - 1 /\ server.state = "finished" =>
                            drill.seen[1] < server.data
  /\ drill.status = "recovered" => drill.mode = "over"

IInv ==
  /\ TypeOK /\ TrinoIInv /\ Rests /\ FlagsCover /\ OverWithoutFlags /\ FlagsPlaced
  /\ BackupIsNewest /\ CommitsKept /\ SeenKnown /\ ReportIsTrue

=============================================================================
