------------------------- MODULE IcebergMaintenance -------------------------
(***************************************************************************)
(* Maintenance of one Iceberg table: the collector and planner              *)
(* (iceberg/metadata.py, iceberg/planner.py) and SparkMaintenanceExecutor   *)
(* (iceberg/executor.py), which rewrites data files, expires snapshots and  *)
(* removes orphan files, beside writers that upload files and commit them   *)
(* later, rollbacks, tags and other maintenance jobs. Nothing locks the     *)
(* table: a job checks what it has read, and the procedure it then calls    *)
(* works on what the table is by then. expire_snapshots is called with ids   *)
(* alone, and so applies the table's own expiration beside them.            *)
(***************************************************************************)
EXTENDS Integers, FiniteSets

CONSTANTS
  Data,       \* what writers append, each in a file of its own
  Exec,       \* operators, each with a plan, a review and a job
  Keep,       \* min_snapshots_to_keep
  MaxExpire,  \* max_snapshots_to_expire
  Scenarios   \* who plans which actions, what is appended and what else happens to the table
              \* and the plans meanwhile, and a bound on the snapshots ever committed

ASSUME PolicyAssumption == Keep \in Nat \ {0, 1} /\ MaxExpire \in Nat \ {0}
ASSUME DataAssumption == IsFiniteSet(Data)
ASSUME ScenarioAssumption ==
  \A s \in Scenarios :
    /\ s.exec \subseteq Exec /\ s.data \subseteq Data
    /\ s.kinds \subseteq {"rewrite", "expire", "orphans"}
    /\ s.beside \subseteq {"rollback", "tag", "edit", "days"} /\ s.bound \in Nat \ {0}

VARIABLES
  scenario,
  snaps,    \* ids of the table's snapshots; ids grow with committed_at
  files,    \* the data files of each snapshot
  current,  \* the current snapshot
  tags,     \* snapshots that another reference than main names
  last,     \* the newest id ever
  aged,     \* the snapshots up to this id are older than history.expire.max-snapshot-age-ms
  store,    \* the objects under the table's location
  old,      \* objects older than the orphan retention
  writer,   \* each piece of data: new, uploaded but not committed, or done
  plan,     \* each operator's plan, and whether one of the operator's has been edited
  review,   \* the inspection report the operator has approved
  job       \* each operator's collector or executor

table == <<snaps, files, current, tags, last, aged>>
vars == <<scenario, table, store, old, writer, plan, review, job>>

Kinds == scenario.kinds
Beside == scenario.beside

\* A data file is what it holds.
File == (SUBSET Data) \ {{}}
Id == 1..scenario.bound
State == [current : Id \cup {0}, ids : SUBSET Id, files : Nat, rows : Nat]
Unread == [current |-> 0, ids |-> {}, files |-> 0, rows |-> 0]
NoPlan == [kind |-> "none", expected |-> 0, history |-> {}, targets |-> {}, old |-> {},
           edited |-> FALSE]
NoReview == [before |-> Unread, found |-> {}]
\* since, beside and more are auxiliary: the newest snapshot when the job began, whether another
\* process has committed since and before the job's last look at the snapshots, and whether its
\* procedure has expired more than its targets.
NoJob == [pc |-> "off", apply |-> FALSE, now |-> Unread, before |-> Unread, del |-> {},
          status |-> "none", since |-> 0, beside |-> FALSE, more |-> FALSE]
Running == {"snapshots", "counts", "check", "scan", "delete", "again"}

Plans == [kind : Kinds \cup {"none"}, expected : Id \cup {0}, history : SUBSET Id,
          targets : SUBSET Id, old : SUBSET File, edited : BOOLEAN]
Reviews == [before : State, found : SUBSET File]
Jobs == [pc : {"off", "collect", "history", "ready"} \cup Running, apply : BOOLEAN,
         now : State, before : State, del : SUBSET File,
         status : {"none", "stopped", "dry_run", "inspected", "noop", "succeeded",
                   "reconciliation_failed"},
         since : Id \cup {0}, beside : BOOLEAN, more : BOOLEAN]

TypeOK ==
  /\ scenario \in Scenarios
  /\ snaps \subseteq Id /\ current \in snaps /\ tags \subseteq snaps /\ last \in Id
  /\ aged \in Nat
  /\ files \in [Id -> SUBSET File]
  /\ store \subseteq File /\ old \subseteq File
  /\ writer \in [Data -> {"new", "writing", "done"}]
  /\ plan \in [Exec -> Plans] /\ review \in [Exec -> Reviews] /\ job \in [Exec -> Jobs]

Init ==
  /\ scenario \in Scenarios
  /\ snaps = {1} /\ files = [s \in Id |-> {}] /\ current = 1 /\ tags = {} /\ last = 1
  /\ aged = 0
  /\ store = {} /\ old = {}
  /\ writer = [d \in Data |-> "new"]
  /\ plan = [e \in Exec |-> NoPlan]
  /\ review = [e \in Exec |-> NoReview]
  /\ job = [e \in Exec |-> NoJob]

\* What the snapshots of S hold.
Held(S) == UNION {files[s] : s \in S}
\* The n newest and the n oldest of S.
Newest(S, n) == {s \in S : Cardinality({t \in S : t > s}) < n}
Oldest(S, n) == {s \in S : Cardinality({t \in S : t < s}) < n}

\* A commit beside a job that has still to look at the snapshots.
Passed(o) == [job[o] EXCEPT !.beside = @ \/ (job[o].pc \in Running
                                            /\ ~(job[o].pc = "counts" /\ job[o].before # Unread))]

\* A commit on top of the current snapshot.
CommitFiles(F) ==
  /\ last < scenario.bound
  /\ last' = last + 1
  /\ snaps' = snaps \cup {last + 1}
  /\ files' = [files EXCEPT ![last + 1] = F]
  /\ current' = last + 1
  /\ aged' = aged

-----------------------------------------------------------------------------
(* Writers, rollbacks and tags, and the passing of time.                   *)

Upload(d) ==
  /\ writer[d] = "new"
  /\ writer' = [writer EXCEPT ![d] = "writing"]
  /\ store' = store \cup {{d}}
  /\ UNCHANGED <<table, old, plan, review, job>>

Append(d) ==
  /\ writer[d] = "writing"
  /\ CommitFiles(files[current] \cup {{d}})
  /\ writer' = [writer EXCEPT ![d] = "done"]
  /\ job' = [o \in Exec |-> Passed(o)]
  /\ UNCHANGED <<tags, store, old, plan, review>>

\* A writer dies between its upload and its commit: the file is an orphan.
Abort(d) ==
  /\ writer[d] = "writing"
  /\ writer' = [writer EXCEPT ![d] = "done"]
  /\ UNCHANGED <<table, store, old, plan, review, job>>

\* A writer commits or dies within the orphan retention, which is 72 hours at least.
Age ==
  /\ "orphans" \in Kinds  \* nobody else asks
  /\ old' = store \ {{d} : d \in {x \in Data : writer[x] = "writing"}}
  /\ old' # old
  /\ UNCHANGED <<table, store, writer, plan, review, job>>

\* No job runs for the days that a snapshot needs to be too old for the table.
Outdate(n) ==
  /\ "days" \in Beside /\ n \in snaps /\ n > aged
  /\ \A e \in Exec : job[e].pc \in Running => n <= job[e].since
  /\ aged' = n
  /\ UNCHANGED <<snaps, files, current, tags, last, store, old, writer, plan, review, job>>

\* rollback_to_snapshot or set_current_snapshot.
SetCurrent(s) ==
  /\ "rollback" \in Beside /\ s \in snaps \ {current}
  /\ current' = s
  /\ UNCHANGED <<snaps, files, tags, last, aged, store, old, writer, plan, review, job>>

Tag(s) ==
  /\ "tag" \in Beside /\ s \in snaps /\ tags = {}
  /\ tags' = {s}
  /\ UNCHANGED <<snaps, files, current, last, aged, store, old, writer, plan, review, job>>

-----------------------------------------------------------------------------
(* collect-iceberg-metadata and plan-iceberg-maintenance.                  *)

Idle(e) == job[e].pc \in {"off", "ready"}

\* collect: the current snapshot, the history and the references, one query each.
Collect(e) ==
  /\ Idle(e)
  /\ job' = [job EXCEPT ![e] = [NoJob EXCEPT !.pc = "collect", !.now.current = current]]
  /\ plan' = [plan EXCEPT ![e] = [NoPlan EXCEPT !.edited = plan[e].edited]]
  /\ review' = [review EXCEPT ![e] = NoReview]
  /\ UNCHANGED <<table, store, old, writer>>

ReadHistory(e) ==
  /\ job[e].pc = "collect"
  /\ job' = [job EXCEPT ![e].pc = "history", ![e].now.ids = snaps]
  /\ UNCHANGED <<table, store, old, writer, plan, review>>

\* Mutant: the snapshots to keep are not set aside.
MutSelected(H, c) == Oldest({s \in H : s < c}, MaxExpire)

\* _check_snapshots: those of the history H older than the cutoff c but for the newest, the
\* oldest first.
Selected(H, c) == Oldest({s \in H \ Newest(H, Keep) : s < c}, MaxExpire)

Plan(e, kind, c) ==
  /\ job[e].pc = "history"
  /\ kind = "expire" => tags = {} /\ Selected(job[e].now.ids, c) # {}
  /\ plan' = [plan EXCEPT ![e] =
       [kind |-> kind, expected |-> job[e].now.current,
        history |-> IF kind = "expire" THEN job[e].now.ids ELSE {},
        targets |-> IF kind = "expire" THEN Selected(job[e].now.ids, c) ELSE {},
        old |-> IF kind = "orphans" THEN old ELSE {},
        edited |-> plan[e].edited]]
  /\ job' = [job EXCEPT ![e] = [NoJob EXCEPT !.pc = "ready"]]
  /\ UNCHANGED <<table, store, old, writer, review>>

\* Somebody edits the targets of a plan, once for each operator. Its plan_id and action_id are fields of the file.
EditPlan(e, T) ==
  /\ "edit" \in Beside /\ job[e].pc = "ready" /\ plan[e].kind = "expire" /\ ~plan[e].edited
  /\ plan' = [plan EXCEPT ![e].targets = T, ![e].edited = TRUE]
  /\ UNCHANGED <<table, store, old, writer, review, job>>

-----------------------------------------------------------------------------
(* SparkMaintenanceExecutor: _state before and after, three queries each.  *)

Begin(e, apply) ==
  /\ job[e].pc = "ready"
  /\ job' = [job EXCEPT ![e] = [NoJob EXCEPT !.pc = "snapshots", !.apply = apply,
                                            !.now.current = current, !.since = last]]
  /\ UNCHANGED <<table, store, old, writer, plan, review>>

ReadCurrent(e) ==
  /\ job[e].pc = "again"
  /\ job' = [job EXCEPT ![e].pc = "snapshots", ![e].now = [Unread EXCEPT !.current = current]]
  /\ UNCHANGED <<table, store, old, writer, plan, review>>

ReadSnapshots(e) ==
  /\ job[e].pc = "snapshots"
  /\ job' = [job EXCEPT ![e].pc = "counts", ![e].now.ids = snaps]
  /\ UNCHANGED <<table, store, old, writer, plan, review>>

\* The state as the last query completes it: counts are of the current snapshot by then.
Seen(e) ==
  [job[e].now EXCEPT !.files = Cardinality(files[current]),
                     !.rows = Cardinality(UNION files[current])]

\* A job ends: with an error, or with a report.
Ends(e, status) == job' = [job EXCEPT ![e].pc = "ready", ![e].status = status]

\* _reconcile, and the comparison of _remove_orphan_files.
Reconciled(e, b, a) ==
  /\ a.rows = b.rows
  /\ CASE plan[e].kind = "expire" ->
            /\ a.current = b.current /\ a.files = b.files
            /\ a.ids = b.ids \ plan[e].targets /\ a.ids # b.ids
       [] plan[e].kind = "rewrite" -> a.current # b.current /\ a.files < b.files
       [] OTHER -> a = b /\ job[e].del = review[e].found

Status(e, b, a) ==
  IF plan[e].kind = "rewrite" /\ job[e].del = {}
  THEN IF a = b THEN "noop" ELSE "reconciliation_failed"
  ELSE IF Reconciled(e, b, a) THEN "succeeded" ELSE "reconciliation_failed"

ReadCounts(e) ==
  /\ job[e].pc = "counts"
  /\ IF job[e].now.current \notin job[e].now.ids THEN Ends(e, "stopped")
     ELSE IF job[e].before = Unread
     THEN job' = [job EXCEPT ![e].pc = "check", ![e].before = Seen(e), ![e].now = Unread]
     ELSE Ends(e, Status(e, job[e].before, Seen(e)))
  /\ UNCHANGED <<table, store, old, writer, plan, review>>

\* Mutant: the live history is not compared with the plan's.
MutAllowed(e) ==
  LET b == job[e].before p == plan[e] IN
  /\ b.current = p.expected
  /\ job[e].apply /\ p.kind = "orphans" => review[e] # NoReview /\ review[e].before = b
  /\ job[e].apply /\ p.kind = "expire" => b.current \notin p.targets /\ p.targets \subseteq b.ids

\* The checks of run, _execute and _approved_orphan_candidates, all on what was read.
Allowed(e) ==
  LET b == job[e].before p == plan[e] IN
  /\ b.current = p.expected
  /\ job[e].apply /\ p.kind = "orphans" => review[e] # NoReview /\ review[e].before = b
  /\ job[e].apply /\ p.kind = "expire" =>
       b.ids = p.history /\ b.current \notin p.targets /\ p.targets \subseteq b.ids

Checked(e, kind, apply) ==
  job[e].pc = "check" /\ plan[e].kind = kind /\ job[e].apply = apply

Refuse(e) ==
  /\ job[e].pc = "check" /\ ~Allowed(e)
  /\ Ends(e, "stopped")
  /\ UNCHANGED <<table, store, old, writer, plan, review>>

\* Without apply a rewrite or an expiration ends here.
DryRun(e) ==
  /\ \E kind \in {"rewrite", "expire"} : Checked(e, kind, FALSE)
  /\ Allowed(e)
  /\ Ends(e, "dry_run")
  /\ UNCHANGED <<table, store, old, writer, plan, review>>

\* Mutant: every unreferenced file is a candidate.
MutOrphans(e) == store \ Held(snaps)

\* remove_orphan_files: unreferenced, and older than the plan's older_than.
Orphans(e) == (store \cap plan[e].old) \ Held(snaps)

Inspect(e) ==
  /\ Checked(e, "orphans", FALSE) /\ Allowed(e)
  /\ review' = [review EXCEPT ![e] = [before |-> job[e].before, found |-> Orphans(e)]]
  /\ Ends(e, "inspected")
  /\ UNCHANGED <<table, store, old, writer, plan>>

\* A name that no object has, or had when somebody listed it for deletion.
NewName(f) == f \notin store /\ \A o \in Exec : job[o].pc = "delete" => f \notin job[o].del

\* rewrite_data_files: one file instead of all. It may die before it commits.
Rewrite(e) ==
  /\ Checked(e, "rewrite", TRUE) /\ Allowed(e)
  /\ LET F == files[current] IN
     \/ /\ Cardinality(F) < 2
        /\ job' = [job EXCEPT ![e].pc = "again"]
        /\ UNCHANGED <<table, store>>
     \/ /\ Cardinality(F) >= 2 /\ NewName(UNION F)
        /\ store' = store \cup {UNION F}
        /\ \/ /\ CommitFiles({UNION F})
              /\ job' = [o \in Exec |-> IF o = e THEN [job[e] EXCEPT !.pc = "again", !.del = F]
                                        ELSE Passed(o)]
              /\ UNCHANGED tags
           \/ Ends(e, "stopped") /\ UNCHANGED table
  /\ UNCHANGED <<old, writer, plan, review>>

\* Iceberg expires no snapshot that main or another reference names.
Referenced == {current} \cup tags

\* What the table's own expiration takes with neither older_than nor retain_last: whatever is
\* too old but for what a reference names, of which the current snapshot is the one it keeps.
Outdated == {s \in snaps : s <= aged} \ Referenced

Expired(e) == plan[e].targets \cup Outdated

\* Mutant: the files of the expired snapshots are deleted.
MutDropped(e) == Held(Expired(e))

\* The files that no snapshot holds once the snapshots are expired.
Dropped(e) == Held(snaps) \ Held(snaps \ Expired(e))

\* expire_snapshots: the metadata is committed first, the files are deleted afterwards.
Expire(e) ==
  /\ Checked(e, "expire", TRUE) /\ Allowed(e)
  /\ IF plan[e].targets \cap Referenced # {}
     THEN Ends(e, "stopped") /\ UNCHANGED snaps
     ELSE /\ snaps' = snaps \ Expired(e)
          /\ job' = [job EXCEPT ![e].pc = "delete", ![e].del = Dropped(e),
                                ![e].more = Outdated \ plan[e].targets # {}]
  /\ UNCHANGED <<files, current, tags, last, aged, store, old, writer, plan, review>>

\* _remove_orphan_files: nothing to do, or every approved file is an orphan still.
Verify(e) ==
  /\ Checked(e, "orphans", TRUE) /\ Allowed(e)
  /\ IF review[e].found = {} THEN Ends(e, "noop")
     ELSE IF review[e].found \cap Held(snaps) # {} THEN Ends(e, "stopped")
     ELSE job' = [job EXCEPT ![e].pc = "scan"]
  /\ UNCHANGED <<table, store, old, writer, plan, review>>

\* The second call decides again, on the list that was approved, and then deletes.
Scan(e) ==
  /\ job[e].pc = "scan"
  /\ job' = [job EXCEPT ![e].pc = "delete", ![e].del = review[e].found \ Held(snaps)]
  /\ UNCHANGED <<table, store, old, writer, plan, review>>

\* A procedure deletes its files, or dies with some of them deleted.
Delete(e) ==
  /\ job[e].pc = "delete"
  /\ \/ store' = store \ job[e].del /\ job' = [job EXCEPT ![e].pc = "again"]
     \/ \E D \in SUBSET job[e].del : store' = store \ D /\ Ends(e, "stopped")
  /\ UNCHANGED <<table, old, writer, plan, review>>

\* A job dies anywhere; a collector is given up.
Die(e) ==
  /\ \/ job[e].pc \in Running \ {"delete"} /\ Ends(e, "stopped")
     \/ job[e].pc \in {"collect", "history"} /\ job' = [job EXCEPT ![e] = NoJob]
  /\ UNCHANGED <<table, store, old, writer, plan, review>>

-----------------------------------------------------------------------------

Mutate(e) == Rewrite(e) \/ Expire(e) \/ Delete(e)

Act ==
  \/ \E d \in scenario.data : Upload(d) \/ Append(d) \/ Abort(d)
  \/ Age
  \/ \E s \in Id : Outdate(s) \/ SetCurrent(s) \/ Tag(s)
  \/ \E e \in scenario.exec :
       \/ Collect(e) \/ ReadHistory(e)
       \/ \E kind \in Kinds, c \in Id : Plan(e, kind, c)
       \/ \E T \in SUBSET plan[e].history : EditPlan(e, T)
       \/ \E apply \in BOOLEAN : Begin(e, apply)
       \/ ReadCurrent(e) \/ ReadSnapshots(e) \/ ReadCounts(e)
       \/ Refuse(e) \/ DryRun(e) \/ Inspect(e) \/ Verify(e) \/ Scan(e)
       \/ Mutate(e) \/ Die(e)

Next == Act /\ UNCHANGED scenario

Spec == Init /\ [][Next]_vars

-----------------------------------------------------------------------------
(* Correctness.                                                            *)

\* Every file of every snapshot exists, whatever is expired, removed or interrupted.
SnapshotsReadable == Held(snaps) \subseteq store

\* A file that is uploaded and waits for its commit is not removed either.
UploadsSurvive == \A d \in Data : writer[d] = "writing" => {d} \in store

\* No expiration takes a snapshot that a reference names, or one of the newest Keep unless
\* it is too old for the table itself or somebody has edited a plan, whatever has been
\* committed, tagged or rolled back since.
RetentionKept ==
  [][\A s \in snaps \ snaps' :
       /\ s # current /\ s \notin tags
       /\ s \in Newest(snaps, Keep) => s <= aged \/ \E e \in Exec : plan[e].edited]_vars

\* An expiration takes the snapshots that were approved and no others ("plans and applies exact
\* snapshot IDs rather than an open-ended timestamp predicate"). That is what the runbook says;
\* it fails as soon as the table's own expiration has something to take.
OnlyApproved == [][\A s \in snaps \ snaps' : \E e \in Exec : s \in plan[e].targets]_vars

Unedited(e) == \A o \in Exec \ {e} : ~plan[o].edited

\* An expiration that is reported as succeeded took its targets and nothing else, and had the
\* table for itself until its last look at the snapshots, unless another operator's plan was
\* edited to expire what came between; what comes after that look and is rolled back at once
\* goes unseen.
SucceededAlone ==
  \A e \in Exec :
    plan[e].kind = "expire" /\ job[e].status = "succeeded" =>
      /\ ~job[e].more
      /\ Unedited(e) => ~job[e].beside

-----------------------------------------------------------------------------
(* The inductive invariant.                                                *)

\* The data of a writer that has not committed is in no snapshot and on no list of files
\* to delete; the file is there once it is uploaded.
Settled ==
  \A d \in Data : writer[d] # "done" =>
    /\ \A s \in Id : \A f \in files[s] : d \notin f
    /\ {d} \notin old
    /\ \A e \in Exec : {d} \notin plan[e].old \cup review[e].found \cup job[e].del
    /\ writer[d] = "new" => {d} \notin store

\* What is being deleted belongs to no snapshot.
DeletesUnheld == \A e \in Exec : job[e].pc = "delete" => job[e].del \cap Held(snaps) = {}

\* H was the history of the table once: what is left of it is its newest part, but for what was
\* too old for the table.
WasHistory(H) ==
  /\ H \subseteq 1..last
  /\ \A s \in snaps, t \in H : s <= t => s \in H
  /\ \A s \in snaps, t \in H \ snaps : t < s \/ t <= aged

\* T is the oldest part of H, and Keep of H come after each of T.
OldestPart(T, H) ==
  /\ T \subseteq H
  /\ \A t \in T : /\ Keep <= Cardinality({u \in H : u > t})
                  /\ \A s \in H : s < t => s \in T

HistoriesHold ==
  /\ aged <= last /\ \A s \in snaps : s <= last
  /\ \A e \in Exec : /\ plan[e].history \cup job[e].now.ids \subseteq 1..last
                     /\ ~plan[e].edited => OldestPart(plan[e].targets, plan[e].history)
  /\ (\A e \in Exec : ~plan[e].edited) =>
       \A e \in Exec : WasHistory(plan[e].history) /\ WasHistory(job[e].now.ids)

\* A job is over before anything that was committed since it began is too old for the table;
\* its plan is older than the job.
JobTimes(e) ==
  job[e].pc \in Running =>
    /\ plan[e].history \subseteq 1..job[e].since
    /\ aged <= job[e].since /\ job[e].since <= last
    /\ job[e].beside => job[e].since < last

\* What the table had when a job began and still has, the job has read; what its procedure took
\* too much is missing when it looks again.
JobReads(e) ==
  LET j == job[e] IN
  /\ \A s \in snaps : s <= j.since =>
       /\ j.pc \in Running /\ (j.pc = "check" \/ j.before # Unread) => s \in j.before.ids
       /\ j.pc = "counts" => s \in j.now.ids
  /\ j.pc \in Running /\ j.more => \E s \in j.before.ids \ plan[e].targets :
       s <= last /\ s \notin snaps /\ (j.pc = "counts" => s \notin j.now.ids)

\* A commit beside a job is the newest snapshot, or older than the newest, when the job looks
\* at the snapshots again; it is newer than the history its plan was made of.
JobKnows(e) ==
  LET looked == job[e].before # Unread IN
  /\ job[e].pc \in Running => job[e].status = "none"
  /\ job[e].pc = "scan" => plan[e].kind = "orphans"
  /\ job[e].pc \in Running /\ job[e].beside /\ Unedited(e) => last \in snaps
  /\ plan[e].kind = "expire" /\ (\/ job[e].pc \in {"delete", "again"}
                                 \/ job[e].pc \in {"snapshots", "counts"} /\ looked)
       => job[e].before.ids = plan[e].history
  /\ job[e].pc = "counts" /\ looked /\ job[e].beside /\ Unedited(e) =>
       \E t \in job[e].now.ids : \A h \in plan[e].history : h < t

IInv ==
  /\ TypeOK /\ Settled /\ UploadsSurvive /\ SnapshotsReadable /\ DeletesUnheld
  /\ HistoriesHold /\ (\A e \in Exec : JobTimes(e) /\ JobReads(e) /\ JobKnows(e))
  /\ SucceededAlone

=============================================================================
