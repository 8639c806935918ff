# TLA+ models of lakehouse-ops

Specifications of the parts of lakehouse-ops in which a mistake would be hard to
find with a test: what several processes, containers and crashes may do to the
state they share. Source paths below are relative to the repository root.

## The system

lakehouse-ops runs a local lakehouse: object storage (MinIO), Spark jobs that write
Iceberg tables, Trino, Hive Metastore and Ranger, driven by one Python package
(`src/lakehouse_ops`) and the Spark jobs under `jobs/`.

| Component | State it keeps | Operations | What makes it correct |
|---|---|---|---|
| Commerce landing (`ingestion/commerce_s3_landing.py`) | objects of a batch, `manifest.json` last | `write` | a marker is visible only over complete content; a retry or a second writer never replaces committed content |
| Batch planner (`ingestion/commerce_batches.py`) | checkpoint file, `.active.json`, `.lock` | `discover`, `plan`, `begin`, `execution_options`, `commit` | one batch at a time, in event-time order, never abandoned half way, never lost from the checkpoint |
| Batch runner (`commerce_pipeline.py`, `commerce_runner_lock.py`, `commerce_gold_gate.py`) | runner lock, memory of the attempt | select, reserve, eight or nine stages, gold gate, commit | the checkpoint records only what has been published from the pinned digest |
| Stage containers, journal and cleanup (`commerce_pipeline.run_compose_stage`, `commerce_run_journal.py`, `commerce_container_cleanup.py`, `commerce_container_inspection.py`) | Docker containers, SQLite journal | launch, time out, remove, inspect, clean up | a container is never removed on behalf of the wrong attempt; the journal names every container that may still run |
| Spark jobs (`jobs/spark/*commerce*`) | Iceberg tables | MERGE, overwrite by batch | a retry changes nothing; the result does not depend on arrival order |
| Customer history (`jobs/spark/commerce_customer_scd2.py`) | SCD2 table | forward merge, rebuild | periods of a customer do not overlap, and equal the history computed from all snapshots |
| Commerce cycle and alerts (`commerce_cycle.py`, `commerce_alerts.py`) | deadline of one scheduled attempt | run, kill, notify | the child ends inside its grace, notification follows every attempt |
| Iceberg maintenance (`iceberg/`) | snapshots, manifests, data files | plan, approve, execute, reconcile | nothing a reader or a retained snapshot needs is removed |
| Ranger sync (`ranger.py`, `access_policy.py`, `break_glass.py`) | policies on the Ranger server | compile, sync, verify | managed policies converge to the compiled ones, foreign ones are left alone, emergency access ends |
| Trino client (`trino.py`) | one statement at a time | submit, page, cancel | a statement that is given up is cancelled |
| Weather ingestion (`ingestion/batch.py`, `landing.py`, `s3_landing.py`, `audit.py`, the weather jobs) | landed forecasts, bronze, silver, rejects | fetch, write, audit, copy, merge | an object is created once and never replaced; repeated jobs end at the newest forecast |
| Recovery drills (`metastore_recovery.py`, `metadata_db_recovery.py`, `trino_upgrade.py`, `trino_worker_recovery.py`), query observation | a part of the stack, taken away and put back | stop, lose, replace, kill, restore, read, validate | the stack is back afterwards, no commit is lost, a success is true |
| Fixtures, acceptance scripts, demos, profiles, release evidence | reports | run, verify | deterministic output; they drive the components above |

How they interact: a landing becomes visible to the planner through its marker; the
planner, the operator's commands and the reports share the checkpoint directory and
are kept apart by two `flock`s; the runner drives containers that survive it; stages
hand over through Iceberg tables; the cycle supervises a runner process and then
sends freshness alerts; maintenance and readers work on the same tables; the gold gate,
the planner of maintenance, the drills and the observations read through the Trino client,
under the policies that the Ranger sync maintains.

What is hard: listings that are not atomic, selections that are stale when they are
used, locks that die with a process while its containers do not, failures between
two file operations, late batches, one deadline that three processes inherit, requests
whose caller has gone, and retries of what may already have happened.

## Modules

| Module | Models |
|---|---|
| `CommerceCheckpoint` | planner, runner, operator, containers, crashes and rewritten markers |
| `BatchLedger` | the abstract promise: one owner at a time, recorded after it was published |
| `CommerceCheckpointProof` | the theorems about `CommerceCheckpoint` and their proofs |
| `CommerceLanding` | writers of one batch id, their fixtures, the bucket, and readers of the prefix |
| `LandingPromise` | the abstract promise: the tables of a batch appear at once and never change |
| `CommerceLandingProof` | the theorems about `CommerceLanding` and their proofs |
| `BatchTables` | the rows of one batch through bronze, silver, rejects and the daily mart |
| `CustomerHistory` | customer history and current mart under late batches, retries and maintenance |
| `CustomerHistoryProof` | the theorems about `CustomerHistory` and their proofs |
| `StageContainers` | runners, their compose clients, the Docker daemon, the ownership journal, cleanup by hand |
| `CommerceStagesProof` | the theorems about `BatchTables` and `StageContainers`, and their proofs |
| `CommerceCycle` | overlapping scheduled cycles in time: deadline, limits, grace, exit code, alerts |
| `CommerceCycleProof` | the theorems about `CommerceCycle` and their proofs |
| `IcebergMaintenance` | planned and approved maintenance of a table others write to |
| `WeatherPipeline` | fetch, landing, audit, copy, bronze and silver of weather forecasts |
| `WeatherPipelineProof` | the theorems about `WeatherPipeline` and their proofs |
| `RangerSync` | the sync of policies with a server that others change, and the break-glass lease |
| `AdministrationProof` | the theorems about `IcebergMaintenance` and `RangerSync`, and their proofs |
| `TrinoClient` | one query over Trino's paging protocol, its deadline, reader threads and cancellation |
| `RecoveryDrills` | the drills and the query observation, which EXTENDS `TrinoClient` and reads through it |
| `RecoveryDrillsProof` | the theorems about `RecoveryDrills` and `TrinoClient`, and their proofs |
| `MCBatchTables`, `MCCommerceCheckpoint`, `MCCommerceCycle`, `MCCommerceLanding`, `MCCustomerHistory`, `MCIcebergMaintenance`, `MCRangerSync`, `MCRecoveryDrills`, `MCStageContainers`, `MCWeatherPipeline` | small instances for TLC |

The modules meet where one takes the other's result as a step of its own. A landing is one
step of `CommerceCheckpoint` because `CommerceLanding` makes it so; a stage that publishes
is one step there and a job of many commits in `BatchTables` and `CustomerHistory`; a
container that outlives its runner is a fact there and the subject of `StageContainers`;
the deadline that may end any of them is the subject of `CommerceCycle`.

### CommerceCheckpoint

The state is what survives a process (`manifest`, the markers; `processed`, the
checkpoint; `intent`, the reservation; the two locks; `synced`, the local copy;
`output`, what each stage published; `jobs`, running containers) and `proc`, the
memory of each process. A process moves through the labels of `_run_commerce_batch`:

| Action | Code |
|---|---|
| `StartRun` | `cli.py` run-commerce-batch takes the runner lock, `discover` starts |
| `PlanRead`, `PlanSelect` | `plan`: the checkpoint is read first, the reservation afterwards, without the state lock |
| `BeginLock`, `Reserve` | `begin`: lock, second `discover`, checks, `_write_state` of the reservation |
| `Options` | `execution_options`: third `discover`, legacy / forward / rebuild |
| `Launch`, `JobDone`, `JobFails` | `run_compose_stage` and the container it starts |
| `Verify` | `check_commerce_gold_with_retry` |
| `CommitLock`, `CommitCheck`, `CommitReplace`, `CommitUnlink` | `commit`, `_commit_locked`, `_write_state`, the unlink of the reservation |
| `OperatorCommit` | `complete-commerce-batch`, or `commit-commerce-batch` by someone who verified gold, as its runbook demands |
| `Die`, `StageRemoved` | death, exhausted budget, any storage error; a stage that was removed after a timeout or Ctrl+C |
| `Land`, `Tamper` | a landing that becomes visible; a marker that is rewritten or deleted |

Every error path of the code is one of two moves: `Leave` (the process forgets its
memory and frees the locks it holds) or, when a container of its stage is running,
`Die`, which leaves the container behind without an owner. A listing is modelled by
`Discovered`: for each batch either the marker at the start of the call or the one
at its end, in any combination, which covers paging and the separate reads.

Abstracted: manifests are their digest, tables are the set of selections (batch and
digest) they hold, stages between bronze and the daily mart differ only in their
order. `N` is the number of common stages; the runs use 3 (sync, bronze, daily mart),
which has each kind of stage once, and stage `N + 1` is the current mart.

Left out: the replay listing of `plan` (read-only, never executed by the runner), the
validation of malformed files, stages an operator starts by hand outside
run-commerce-batch, a second checkout with its own lock files, and the text of reports.

### CommerceLanding

`CommerceCheckpoint` sees a landing as one atomic step, `Land`. This module is about
what makes that true: `write` uploads the table objects one by one and the manifest
last, under keys every writer of the batch id shares.

| Action | Code |
|---|---|
| `Load` | `write` starts: `_load_fixture` checks the directory against its manifest |
| `Put` | the loop of `write`: `_read_verified_bytes` (or the manifest is read again), `put_object` with `IfNoneMatch="*"`, created or 412 |
| `PutLost` | the object is stored, the call raises |
| `Compare` | the rest of `_put_once`: the object that exists must have the fixture's checksum |
| `Die`, `EditFile`, `Regenerate` | death of a writer; somebody edits a file of a fixture or generates another one in its place |
| `Find`, `Mirror`, `Check` | `sync_bronze_input.sh` for one selected batch, object by object, and `load_commerce_batch` on the copy |

`bucket` and `marker` are the objects of one batch id, `fixture` each writer's
directory, `writer` the memory of each `write`, `reader` each local copy. Contents are
identified with their checksums. A fixture is the manifest: what it lists, and a
`config` in which two manifests with the same tables may differ. A writer and a reader
serve again after they end, so a retry is the next `Load`. Left out: malformed
fixtures, which `_load_fixture` refuses before any upload, as it refuses edited ones;
deletion of objects, which no code of the repository does under the landing prefix;
and the sync of the whole landing, whose `.json` count is not tied to one batch.

### BatchTables

The jobs of one batch, row by row, under the runner that starts them in order and an
operator who starts one by hand. `landed` is the content of the batch; a row stands for a
line of the file, with what the jobs look at: its id, its rank among the rows of that id,
and whether it is empty or breaks a rule. `job[s]` is what the job of a stage has cached.

| Action | Code |
|---|---|
| `BronzeStep` | `bronze_commerce.write_batch`: one table after another, `prepare_source` and `merge_table` |
| `Classify` | the first half of a `silver_commerce_*.write_selected_batch`: rows of the batch in bronze, classified once and cached |
| `MergeValid`, `MergeRejects`, `CheckSilver` | its two MERGEs and the post-condition after them |
| `Summarize`, `MergeGold` | `gold_commerce_daily.write_selected_batch`: `validate_sources`, `summarize`, the comparison with rows that exist, the MERGE |
| `Launch`, `NextStage`, `StageFailed`, `Commit` | `_run_commerce_batch`: the stages in their order (sync, history and current mart left out), the gold gate, the checkpoint |
| `ByHand`, `JobDies`, `RunnerDies` | an operator runs one service; a job dies between two commits; the runner dies and its job goes on |

`Kept` is written from the content alone, not from what a job has read: it is what
`RecordedIsComplete` and `GoldIsTrue` compare the tables with. `PublishableIsRecorded` has an
exception, `TooEarly`: an order job that ran by hand while products were still missing in
bronze has put good orders among the rejects, and its own post-condition then refuses every
later run of that stage. Assumed: one job of a stage runs at a time, and a MERGE is one
commit. Amounts and the names of the broken rules are left out.

### CustomerHistory

What the history and current-mart stages compute, for batches that land in any order.
`Select` is an attempt's selection, reservation and `execution_options` in one step:
their interleavings are the subject of `CommerceCheckpoint`, and both jobs here demand
one writer. The stages that publish nothing these two tables depend on (bronze, orders,
payments, products, daily mart, gold gate) are `Fail` or nothing.

| Action | Code |
|---|---|
| `Select` | `plan`, `begin`, `execution_options`: earliest or reserved batch; legacy, forward or rebuild |
| `Silver` | `silver_commerce_customers.write_selected_batch` |
| `History` | `apply_customer_history` (`Forward`) or `rebuild_customer_history` (`Rebuild`), with or without a failure after the publication |
| `HistoryRefused` | their refusals: out of order, invalid target, ambiguous times, source that does not cover the table |
| `CurrentMart`, `MartRefused` | `publish_snapshot`, `snapshot_action` |
| `Commit`, `Fail` | the checkpoint; a stage that fails before it publishes |
| `Maintain`, `RebuildByHand`, `Expire` | the rebuild runbook for a late batch; a retention job on silver |

What may land is a record of `Scenario`, chosen in `Init`: the times, the full snapshots
and the rows of the batches. `history` is the table as a set of versions: customer, attributes (the hash), the batch
that began the version, `from` and `to`. `to = {}` is NULL, and `is_current` says the
same: the MERGE sets both, the rebuild derives one from the other and `validate_target`
refuses a table in which they differ. `applied` is auxiliary: no guard reads it. The
run's invariant is that `history` is `Canonical(applied)`, the definition the rebuild
computes; what is checked is that the incremental MERGE, the rebuild and maintenance
keep it so. `HistoryIsObserved` is not claimed of batches without `full_snapshot`
(a late one whose customers did not change is recorded without moving a period back),
nor of equal times, which the runbook excludes.

### StageContainers

`CommerceCheckpoint` has containers that outlive a runner; this module is about who can
still find and stop them. Runner, compose client and daemon are three processes: a runner
may die without its client, a client may be killed while its request to create the
container is on the way, a removal may take effect without an answer.

| Action | Code |
|---|---|
| `Start`, `End` | `commerce_runner_lock` |
| `Intent`, `LaunchStage` | `run_compose_stage`: `ownership("launch_intent")`, then `docker compose run` |
| `Completed`, `Failed` | its return, its `CalledProcessError` or `OSError` |
| `Expire`, `Remove`, `Outcome` | `TimeoutExpired` or Ctrl+C: the client is killed, `docker rm --force` by name, the outcome is recorded |
| `Die` | the runner is killed, or the journal refuses a record |
| `ClientCreates` ... `AutoRemoved` | compose and the daemon (external): create, start and attach, exit, `--rm` |
| `Reuse` | somebody runs another container under a name that has become free |
| `Cleanup`, `Inspect`, `RemoveId`, `Confirm`, `Abandon` | `cleanup_container`: lock, `inspect_containers`, removal by id, confirmation, every refusal |

A container is identified with the run whose labels it carries, a run's stage with its
generated name. The names of the specification begin with `Docker` (`DockerSpec`), so that
`CommerceStagesProof` can extend it beside `BatchTables`. `interrupted_removed` is the `timeout_removed` of Ctrl+C. Assumed: every
run has a project the cleanup accepts (`lakehouse-ops-...`), because a run without one is
journaled under an empty project that no inspection finds. `--rm` removes a container that has
run; one that was only created stays until a cleanup. Left out: the states of a container
besides created, running and exited (the cleanup treats the others alike), a second
checkout, and the run events of the journal.

### IcebergMaintenance

Nothing locks a table. A job reads its state with several queries, compares it with a
plan, and calls an Iceberg procedure that works on what the table is by then. This module
is about what can happen between those steps.

| Action | Code |
|---|---|
| `Collect`, `ReadHistory`, `Plan` | the collector's queries, `_check_snapshots` and `_check_orphan_files` |
| `Begin` | the job reads plan and report; first query of `_state` |
| `ReadCurrent`, `ReadSnapshots`, `ReadCounts` | `_state`, before and after; `_reconcile` |
| `Refuse`, `DryRun` | the checks of `run`, `_execute`, `_approved_orphan_candidates` that stop; no `apply` |
| `Inspect` | `inspect_orphan_files`, whose report the operator then approves |
| `Rewrite`, `Expire` | `_execute`: `rewrite_data_files`, `expire_snapshots` |
| `Verify`, `Scan`, `Delete` | `_remove_orphan_files`: the second dry run, the removal, its deletions |
| `Die` | the job dies; a collector is given up |
| `Upload`, `Append`, `Abort`, `SetCurrent`, `Tag`, `EditPlan` | writers and other people (external) |
| `Age`, `Outdate` | time: files older than the orphan retention, snapshots too old for the table (external) |

`scenario` is chosen in `Init`: who maintains, which data is written, which kinds of action
are planned, what other people do, and how many snapshots there may be. `snaps`, `files`, `current` and `tags` are the table's metadata, `store` the objects under
its location. A file is identified with the data it holds, a snapshot with a number that
grows with its commit time. `review` is the approved inspection report. `Expire` commits
the metadata and leaves the files to `Delete`, which may die half way. `job.since`,
`job.beside` and `job.more` are auxiliary; `since` is read by the guard of `Outdate`, the
others by none.

`Expire` takes more than the plan's targets. `_expire_snapshots_sql` passes `snapshot_ids`
with neither `older_than` nor `retain_last`, and no table sets `history.expire.*`; as Iceberg
documents the procedure, the table's own defaults (older than five days, at least one kept)
are then applied beside the ids. `aged` is the newest snapshot that is too old by that
measure, `Outdated` what it takes. So retention is promised up to that age only:
`RetentionKept` lets a snapshot up to `aged` go, one of the newest `Keep` or not. With the
planner's seven days every target is older than that, with a shorter
`snapshot_retention_hours` (planner.py:47 admits 0) the promise is about what is between the
two. `OnlyApproved` is what the runbook says; it does not hold, and no run checks it (see
Findings).

Assumed of Iceberg: a commit is atomic and goes on top of the current snapshot,
`expire_snapshots` refuses a target that a reference names, takes besides only what is older
than the table's age and not named by a reference, and deletes only what no remaining
snapshot holds. The library is not part of the repository: this rests on the documentation
of the release that infra/spark/Dockerfile installs. A rewrite plans its files and commits in
one step. No job runs for so long that a snapshot committed beside it becomes too old for
the table, which takes days (the guard of `Outdate`); otherwise an expiration could take the
very commit by which `_reconcile` has to notice it. Assumed of writers: they
commit or die within the orphan retention, which the policy bounds from below by 72 hours;
`UploadsSurvive` says nothing of a slower one. Approvals are the right ones: a wrong id is
refused before anything is read. `max_concurrent_jobs` does not exclude a second job,
because it is read from the plan, so two operators are free to run at once. An edited
expiration plan is executed as it stands: the executor does not count again what
`min_snapshots_to_keep` would leave, so `RetentionKept` promises the newest `Keep` snapshots,
as far as the table keeps them, only where no plan was edited, and referenced snapshots always. `plan[e].edited` therefore stays
true for the rest of a behaviour, and each operator's plan is edited once at most. An edited
plan may also expire the snapshot by which `_reconcile` of another job would have noticed a
commit beside it; `SucceededAlone` excuses a job beside another operator's edited plan, and
no other. Assumed of file names: a rewrite writes under a name that no object has and that
is on no list of files being deleted (`NewName`). Left out: the
rewrite of manifests, thresholds and batch bounds, the text of plans and reports.

### CommerceCycle

Time is an integer. A timer that has run out is served before the clock moves on; what no
timer bounds (the start of an interpreter, a notification) takes no time unless a fault
makes it slow. `job[c]` is the cycle that cron started at `c * Interval`: `commerce_cycle.py`,
its runner and then its notification, one after the other.

| Action | Code |
|---|---|
| `Cron` | the crontab entry, which does not wait for the cycle before |
| `Launch`, `TooLate`, `LaunchFails`, `Kill` | `run_cycle`, `_run_command`: the rest of the budget, the wait with its grace |
| `Begin`, `Busy` | `run_commerce_batch`: the inherited deadline, `commerce_runner_lock` |
| `Select` | `plan(max_batches=1)`, `begin` |
| `Intend`, `Compose`, `StageDone`, `StageTimesOut`, `CleanupEnds` | `run_compose_stage`: time reckoned, intent in the journal, compose, `docker rm`, outcome in the journal |
| `Query`, `QueryRetried`, `Verified` | the gold gate with its attempts, delay and bounded query |
| `Commit`, `RunnerFails` | `before_replace` and `_write_state`; any failure, or a spent budget |
| `Back`, `Observe`, `Read`, `Accepted`, `NoticeFails` | `notify_commerce_freshness` in the time that is left, both alerts in one call |
| `Slow`, `Tick` | a process that is delayed; the clock |

Assumed, and named as such in the module: batches land in order (the order is
`CommerceCheckpoint`'s subject), and `Journal + Removal < Grace`. `docker rm` gives up after
30 s and the grace is 35 s, so a journal that makes the runner wait for less than 5 s leaves
room; SQLite would let it wait for 5 s, and then nothing of the grace is left when the
removal ends. The runbook says what to do if the wait expires. A process suspended between `before_replace` and the rename could
commit late; the model takes the two as one step, as the code's window has no timer.

### WeatherPipeline

| Action | Code |
|---|---|
| `StartFetch`, `FetchAnswers`, `FetchRetries`, `FetchFails` | `run_batch` and `OpenMeteoClient.fetch` with its attempts |
| `Look`, `Publish`, `Replay` | `FileLandingZone.write` (look, temporary file, `os.link`), `S3LandingZone.write` (`IfNoneMatch="*"`); the audit of an object that is there already |
| `AnswerLost`, `WorkerDies`, `Damage` | the S3 client sends a put again; a worker dies; somebody edits an object |
| `AuditBegins`, `AuditReads`, `AuditEnds` | `audit_file_landing`, `audit_s3_landing`: the keys first, then object after object |
| `Sync` | `sync_bronze_input.sh`, object after object |
| `ReadInput`, `MergeBronze` | `bronze_weather.py` |
| `ReadBronze`, `MergeSilver`, `MergeRejects` | `silver_weather.py`: bronze read once, two commits |
| `JobDies` | any of the jobs, between its commits |

A forecast is a content and a stamp; the key of its object is date and content, so two
workers with equal answers meet at one key. Two silver jobs may overlap: one that read
bronze before the other may put an older row over a newer one, and the next run repairs it.
`NewestIsShown` has two exceptions the code has: a forecast that returns to an earlier
content keeps the stamp bronze first gave it (`Returned`), and one malformed document stops
the bronze job of the whole zone (`Blocked`). Left out: object versions and delete markers,
the location manifest, and that the bronze job does not cache its input: it reads the files for
its checks and again for the MERGE, while `ReadInput` reads them once.

### RangerSync

`server` are the policies of the service, `sync` the memory of the sync that runs: the
compiled policies, the listing, the ids it has consumed, and how far it is. Names are numbers
in the order of the strings, because that order decides which request comes first. The
specification is `RangerSpec`: names that `IcebergMaintenance` has too begin with `Ranger` here,
because one module proves theorems about both.

| Action | Code |
|---|---|
| `SyncBegins` | `compile_ranger_policies` with `apply_break_glass_lease`, `_users_by_role` and the merge of equal resources |
| `EnsureService`, `EnsureUsers` | `_ensure_service`, `_ensure_users` |
| `ListPolicies`, `Purge`, `Purged`, `ListLate` | `_remove_bootstrap_policies`, at the start and once more after a conflict |
| `Create`, `KeepPolicy`, `Update` | the loop of `sync`: by name, by resource among unconsumed ids, or a new policy; a conflict is tried again once |
| `Applied`, `Remove`, `SyncEnds` | the deletion of managed policies that are not wanted; the report |
| `SyncDies` | a request fails, with or without its effect, or the process dies |
| `Time`, `EditModel` | the lease begins and expires; an edited role model |
| `Bootstrap`, `AddForeign`, `DropManaged` | Ranger's own late policies, an operator's policy, a policy deleted by hand |

`settled` is auxiliary: what the last sync left, forgotten as soon as somebody else changes
a policy. What Ranger accepts (`Accepted`: one policy per name and per type and resource,
known users) is modelled from the errors the code handles. Left out: two syncs at once
(each would see the other's requests as drift; nothing in the code excludes it), accesses
and expressions inside a policy, and the file rules of `access_policy.py`.

### TrinoClient and RecoveryDrills

`call` is the query that is asked, `reader` the requests that have not ended (slot 0 is the
caller itself, slots 1 and 2 the client's threads), `server` the query as the coordinator
knows it. What a query reads is left to the module that extends it.

| Action | Code |
|---|---|
| `Ask`, `Read` | `_query_result`: the start of a call, and what it makes of a page in the order of its checks |
| `Send`, `NoTime`, `ThreadFails`, `GiveUp` | `_request_until`: a slot, a thread, the wait for it until the deadline |
| `Deliver`, `Stop`, `Break`, `Release` | the thread, with `_DeadlineStream`: whole answer, cut at a chunk, broken connection, slot given back |
| `Arrive`, `Spoil`, `Execute`, `Fail` | the coordinator and what stands between; `_payload` refuses what is no page of this query |
| `Expire` | the deadline passes |

A drill is its list of steps and the flags of its `finally` clause; a step that raises leads
there, with its effect, without it, or with half of it.

| Action | Code |
|---|---|
| `IsUp`, `IsDown`, `IsGone` | `_topology`, `_catalog_manifest`, `_loss` |
| `StopMetastore`, `StartMetastore`, `BackUp`, `DropCatalog`, `Restore` | `run_metastore_recovery`, `run_metadata_db_recovery` and the calls they are given |
| `Switch` | `switch_cluster` of `run_upgrade_rehearsal` |
| `Submit`, `KillWorker`, `Await`, `AwaitTimesOut`, `CancelFlight`, `Revive` | the worker exercise |
| `StartAsk`, `Learn`, `Refused` | the readings of the table, through the client above |
| `Report` | the validators of each report |
| `Write`, `FlightEnds`, `Recreate`, `Kill`, `Serve` | a writer, Trino, somebody's `docker compose`, SIGKILL |

`drill.stuck` is auxiliary: the drill ended on a call that raised. `ServicesBack` excuses
it, because a `finally` clause cannot put back what refuses to come; see the notes under
Findings for what that covers. `drill.wrote` is auxiliary too: a commit between the first
and the last reading. The table is its newest snapshot; row counts, checksums and versions
of the reports are equal exactly when the snapshots are.

## Runs

| Run | Instance | Shows |
|---|---|---|
| `ckpt_shared` | 3 batches landing in any order (ids and event times ordered differently, a tie), one rewritten, restored or deleted marker, 2 runners, 1 operator, 2 faults | `WorkIsOwned`, `ProcessedIsPublished`, and that the whole implements `BatchLedger` |
| `ckpt_runner` | 3 full snapshots, one of which may be late, 2 runners, no operator, 2 faults, fairness | `OnTimeKeepsOrder`, `EventuallyProcessed` |
| `landing_safe` | 2 tables, 4 fixtures of one batch id, 2 writers, 1 reader, 2 faults, fairness | `MarkerCoversTables`, `RetryLands`, and that the whole implements `LandingPromise` |
| `tables_safe` | 90 contents of a batch, 1 death or failed query, 1 job by hand, fairness | `GoldIsTrue`, `RecordedIsComplete`, `PublishableIsRecorded` |
| `history` | 4 batches in any order; full snapshots of different times, or two of one time and a legacy batch; 2 customers, 2 faults, 1 expiry, maintenance, fairness | `HistoryIsObserved`, `MartIsNewest`, `PeriodsDisjoint`, `KnownSinceKept`, `EveryBatchRecorded` |
| `containers_safe` | 2 runs of 2 stages, 1 operator, reused names, 3 faults, fairness | `LeftoverIsJournaled`, `CleanupSparesRuns`, `ConfirmedIsStopped`, `LeftoverIsRemoved` |
| `cycle` | 4 cycles, each two intervals long, 2 batches, 1 fault | `NoLateCommit`, `KillSparesCleanup`, `ExitIsHonest`, `AlertStaysUp` |
| `maint` | four cases: 2 operators who expire and remove orphans; 2 who expire while snapshots become too old for the table; 1 with all kinds of action, rollbacks and edited plans; 1 who expires, with two of rollbacks, a tag and snapshots that become too old | `UploadsSurvive`, `SucceededAlone`, `SnapshotsReadable`, `RetentionKept` |
| `weather` | 2 forecasts, 2 contents, 2 dates, both landing zones, 2 silver jobs, 1 fault, fairness | `LandedOnce`, `AuditFinds`, `NewestIsShown` |
| `ranger` | 3 roles, an edition that renumbers filters, a lease, a late bootstrap policy, 1 fault, 1 change by an operator, fairness | `GuardedFirst`, `SecondRunIsQuiet`, `LeaseIsRevoked` |
| `ranger_moved` | the same, with an edition that moves a filter between roles | a violation: see Findings |
| `drills` | five exercises beside a writer, 2 snapshots, 2 pages, 2 faults, fairness | `ServicesBack`, `CommitsKept`, `ReportIsTrue`, and of the client `ResultIsWhole`, `LeftIsReported`, `SlotsComeBack` |

Bounds. `MaxFaults` bounds crashes and failures together (rewrites of markers too in
`ckpt_shared`); two are enough for a crash during the recovery from a crash, and for a
marker that is rewritten and restored. Two runners are needed for a dead runner's container
to meet a live one; the runner lock admits one at a time, so a third adds only renaming.
Three batches give a recorded one, a reserved one and a late one at once, and cover every
relation of event time and id. Runners are symmetric.

For the landing, two tables give an object before and one after a conflict; the four
fixtures differ in no table, in one or in both, or in the config of the manifest alone; two
writers suffice, because an object has one creator and whoever meets it only compares.

For the tables, the 90 contents combine an identical line, an id with two lines of which a
broken one may win the ranking, an order for a product that is missing or broken, orders
of two days, and payments that are repeated, refused, without an order or empty.

For the history, four batches give a period before, around and after a late batch and
two late batches at once; one customer changes and changes back, the other is absent
from a batch.

For the containers, three faults are a death, an unanswered removal and a reused name
in one behaviour; two runs give the operator an old run beside a new one.

For the cycle, a budget of two intervals lets a cycle find the lock taken, and four cycles
see both batches through such a collision. The limits are small numbers that keep
what matters of the defaults: a removal and a journal's wait fit in the grace, and a stage
may use up most of the budget.

For maintenance, four snapshots with two kept leave two to expire and one commit beside an
expiration; two operators suffice for a plan that is stale because of the other. Of
`Keep` and `MaxExpire` only the order matters: with `Keep = 2` and one target a batch is cut
short when two are eligible. `Outdate` may reach any snapshot, the current one included. One tag at most is ever set, and a rewrite does not produce
a file that exists already.

For the weather, two forecasts may have one key, one content on two dates, or two contents
of one hour; one fault is enough for each kind, and the properties relate no two of them.

For Ranger, two guarded roles and an unguarded one give merged access policies, a guard with
several names, and a role without users; the lease adds its user to a guarded role.

For the drills, two pages tell a result that lost, doubled or swapped one, a page limit of
three leaves no room for a page that only says the query still runs; two faults are a step that raises and a call of the
`finally` clause that does, or a broken connection before either.

Fairness. `ckpt_runner`: each runner's steps, a commit once begun, and the end of
running containers are weakly fair. Cron or the operator starts runners again and
again, a process that runs takes its next step or dies, stage containers are bounded
by `COMMERCE_STAGE_TIMEOUT_SECONDS`. Nothing is assumed of failures except that they
are finitely many; a file system or storage that fails for ever makes no progress.
`landing_safe`: `write` is called again until it succeeds, as the runbooks ask for,
and a call that runs takes its next step. `RetryLands` promises nothing to a writer whose
fixture disagrees with what is stored: that one is refused for ever, on purpose.

`history`, `tables_safe`: the runner is started again and its stages end, as in
`ckpt_runner`. `weather`: the operator repeats the copy and the jobs, and a job that runs
ends; nothing is assumed of workers and audits. `ranger`: the sync is repeated and a sync
that runs goes on; nothing is assumed of people.

`containers_safe`: runners, clients and the cleanup go on, and an operator asks for the
cleanup of each name again and again (strongly fair, because the runner lock is free only
at times). A stage nobody waits for need not end: that is when the cleanup is needed.

`drills`: time passes and threads run. The coordinator need not answer anything, which is
the case `SlotsComeBack` is about.

`cycle` has no fairness: what must happen in time is stated as safety over the clock.

Deadlock. Checked in `ckpt_shared`, `ckpt_runner`, `landing_safe`, `history`,
`containers_safe` and `maint`. The others really stop: a schedule or an exercise that is
over, a batch that is recorded, forecasts that are all landed and shown, policies in force.

## Proofs

`CommerceCheckpointProof` proves for every set of batches, digests, runners and
operators, every number of stages from 3 and every bound on faults:

- `TypeCorrect`, `WorkOwned`, `RecordedPublished`, `CheckpointKept`: the type invariant,
  two of the properties above, and that the checkpoint only grows;
- `Invariant`: `IInv`, from which they follow;
- `OrderKept`: only a batch that landed late is overtaken (`OnTimeKeepsOrder`);
- `Refinement`: `Spec` implements the abstract ledger.

The properties are not inductive. `WorkIsOwned` alone does not say that a process in
the middle of a commit writes the reserved batch, nor that nobody can change the
files under it. `IInv` adds: the lock is held from reading the files to writing them
(`LockHeld`); a published stage has all stages before it and an owner
(`OutputKnown`); a container belongs to its owner and a live runner waits for exactly
its own (`JobKnown`); and what a process knows at each label (`RunnerKnows`,
`CommitterKnows`). The key step is `CheckEffect`: a commit that passes its checks
records the reserved digest. A runner knows it because it pins the digest; an operator
pins none, and it follows from the daily mart having the batch, from whose that mart
must be, and from the reservation being re-read against its marker.

`LedgerStep` maps the steps: `Reserve` to the abstract reservation, a container that
publishes to `Publish`, `CommitReplace` to `Record`; the unlink is a stutter because a
reservation of a recorded batch counts as none.

`OrderKept` needs a second invariant, `OrderInv`, above `IInv`: not the checkpoint alone
but the active reservation is in order too, and a listing that is under way has seen what
there is to see (`ViewKnows`). `plan()` may return a batch although an earlier one landed
while it listed, so nothing of the kind holds at `begin`. It holds at `reserve`: that listing
starts after `plan()` has seen the batch, every batch on time before it has landed by then or
never will (`LandsOnTime`), so the listing shows them all and `begin()`
refuses a batch that is not the first (`ReservedInOrder`).

The assumptions are those stated in the module: `Batch` is a non-empty set of
numbers, markers and `NoDigest` differ, runners and operators are disjoint, `N >= 3`.

`CommerceLandingProof` proves `MarkerCovers`, `ReturnedLanded`, `FoundLoadable` and
`Refinement` (`Spec => ImplementsPromise`) for every number of tables, all fixtures and
any sets of writers and readers. Its `IInv` adds what a writer knows of the objects it
has passed (`WriterKnows`) and a reader of its copy (`ReaderKnows`). Both are about a
bucket others write to; what keeps them true is the lemma `Immutable`: no step replaces
an object, and once there is a marker the whole prefix is frozen. The second half
needs `MarkerCoversTables`, so the two are proved together.

The assumptions are those of the module: at least one table, `Absent` is not an object,
and every fixture lists a content for each table.

`CommerceStagesProof` has two parts, each about one specification. The first proves
`GoldIsTrue` and `RecordedIsComplete` of `BatchTables`, for every set of contents that a batch
may have, every choice of stages that operators start, and any number of deaths. Both
compare the tables with `Kept`, which is written from the content alone, while a job caches
what it found in bronze and silver, possibly of tables that were not all there. `IInv` bridges
the two. `BronzeKnown`: a bronze table is merged in one piece, so a row in it means all its
rows. `SilverKnown`: what a silver job has cached is either what it should be (`WholeErrors`),
or an early order job's refusal of every order (`EarlyErrors`): because bronze tables are merged
in one piece, a job of `silver_commerce_orders.py` that comes too early finds no customers or
no products at all, never some of them. `RunKnown`: the stages the runner has behind it are complete, and an operator who
starts one of them again finds the same rows and changes nothing (`Lasting`). `GoldKnown`:
the mart's job gets past `validate_sources` only when its sources are complete, which is
a counting argument (`ReconciledIs`, `SourcesAreTrue`): as many classified rows as landed
ones means the same rows. The assumptions are on the bounds, on the stages
that exist (`HandAssumption`), and on a batch (`LandingAssumption`): its tables are finite and a
line and its occurrence number make a row, as the row hash of `bronze_commerce.py` does.

The second part proves the three safety properties of `containers_safe`, and
`ForeignSpared` (a cleanup removes no container of somebody else), for any number of runs,
stages and mishaps, from assumptions on names alone. `DockerIInv` adds what
each step of a run implies about its journal entry and its client (`AttemptKnown`), that a
confirmed removal is the last act of a run whose client can start nothing more
(`StoppedKnown`), and who holds the runner lock (`LockHeld`).

`CommerceCycleProof` proves `CommitInTime`, `CleanupSpared` and `HonestExit` for every
interval, budget, limit, number of cycles and schedule of landings the assumptions admit. A
deadline is inherited by three processes, each of which derives its own waits from what is
left. `RunnerKnows` says how: whatever a runner waits for ends at most `Journal` after the
deadline, plus `Removal` for a cleanup, and a timer that has run out is served before the clock
moves on. `GraceAssumption` (`Journal + Removal < Grace`) is used in one place, `CleanupSpared`,
and is what that theorem rests on. `NoticeKnows` carries what a notification has read to
the exit code.

`AlertLasts` proves `AlertStaysUp`, and relates the cycles to one another, which `IInv` does
not. `AlertInv` says of a schedule in which nothing goes wrong that only the runner that holds
the lock takes time (`HoldsLock`, `Prompt`), that of two cycles in a row one reports, because
the first was over in time, or the second finds the lock taken and reports at once, or the
first has spent its whole budget before the second was due (`OneReports`, `Spent`), and that no
later report withdraws what an earlier one said of a batch that is still pending (`Raised`).
Whatever the moment, a report then lies at most two intervals back, or a cycle of these two
intervals is `Spent`. The code relates neither the budget nor the validity to the interval, and
the theorem assumes nothing of them. With a budget longer than the interval no cycle is ever
`Spent`, because the next one is due before it can be; with a shorter one the lock may be free
again whenever a cycle starts, and cycles that spend their budgets report nothing (TLC reaches
this with budgets of one and of half an interval). With a validity above two intervals the alert that was
accepted is live now; the runbook's crontab has a shorter one (see Findings).

`WeatherPipelineProof` proves `LandsOnce` and `AuditIsComplete` for any number of forecasts,
attempts, dates and workers. `IInv` adds that each answer takes a stamp of its own (`Counted`,
which counts the workers that still ask), that a key has one object (`OneObject`), that a
worker sent to audit a replay finds one (`ReplaysExist`), and that an audit has still to read
what was damaged and not yet found (`AuditKnows`).

The first part of `AdministrationProof` proves all four properties of `maint`, for every set of data,
operators and kinds of action, and every `Keep` and `MaxExpire`. `TablesRead` and
`UploadsStay` need each other and `Settled` (uncommitted data is in no snapshot and on no
list) and `DeletesUnheld` (what is being deleted is held by no snapshot). `RetentionHolds`
needs what a stale plan still says of the table: `WasHistory`, that of a history once read
only the oldest part has gone and what was too old for the table, and `OldestPart`, that a
plan's targets were its oldest; the lemmas count that `Keep` snapshots after each target that
is not too old are then still there. `JobKnows` follows a commit beside a job until the look that
must notice it, with `JobTimes`: such a commit is newer than whatever an expiration takes. `JobReads`
says that a snapshot which the table had when a job began is on the job's list for as long as the
table has it, so what its procedure takes too much is missed at the last look. Trying to prove `SucceededAlone` for
several operators is how its excuse was found.

Its second part proves `GuardedFirst` and `SecondRunIsQuiet` of `RangerSync`, for any roles,
users, resources and editions of the model, and any number of failures and changes by others.
`SyncIInv` says of a sync at work that the policies it has passed are in force and that the
listed ones it has not consumed are still on the server as they were listed (`ApplyKnown`),
and of a service nobody has disturbed that it has what the last report said
(`SettledKnown`). The key lemma is `Fresh`: a policy that is about to be reused, by its name or
by its resource, has not been consumed before. It is false in general, because a lookup by name
does not ask (the finding `ranger_moved`); what makes it true is stated as a property of the
editions, with definitions of `RangerSync` of these names:

- `GuardsMoveUp`: where a later edition gives the guard of a table a smaller name, the old
  name is out of use. New guards at the end of a role's list and guards that move to a role
  sorted later are of this kind, the two editions of `ranger_moved` are not;
- `GuardsApart`: no guard has the resource of an access policy, which is so unless a mask
  covers `*` columns, because a filter names no column and an access policy all of them;
- `BootGranted`: in every edition somebody has access to what Ranger creates bootstrap
  policies for. Otherwise one that comes after the purge is no conflict, it stays, and the
  next sync has something to delete;
- `GuardsAhead`, for `GuardedFirst` alone: the names of guards sort before those of access
  policies. The code does not see to it. It is so in `config/access/role-policy.json`, whose
  only guarded role is `analytics_engineer` and whose merged policies begin with a later letter;
  a guarded role called `sales` would have its access first.

`MCRangerSync` assumes all four of the instance of `ranger`, so TLC evaluates them there.

`RecoveryDrillsProof` proves the six safety properties of `drills` for any number of pages,
snapshots and faults and every set of exercises. `TrinoIInv` is about the client: which
requests may still be on their way (`RequestsKnown`), what an answer means for the query it
answers (`CallKnown`, by way of `Means`), and what the end of a call says (`EndKnown`). It
holds of the client whatever asks it, and `ResultWhole` and `LeftReported` follow from it alone.
The drills add which flag of the `finally` clause covers what is away (`FlagsCover`,
`OverWithoutFlags`), how the flags stand at each line of a script (`FlagsPlaced`), that a
backup is of the newest snapshot for as long as it may be restored (`BackupIsNewest`), and
that the last reading finds a commit that came between (`SeenKnown`).

`CustomerHistoryProof` proves `ObservedHistory`, `DisjointPeriods`, `NewestMart` and
`KnownSince` for every set of batches, customers, attributes and scenarios. Its core is
`MergeIsRebuild`: the MERGE of a batch later than all that a canonical history has taken in
gives the canonical history of one batch more. It rests on `LastSaysLast` (the current version
says what was observed last, although the batch that began it may be older), on `LaterBatch`
and `LaterEnds` (what a later batch begins and ends), and on `LeastNumber`, from which each
"first", "next" and "latest" is taken. `MergeAgain` covers the retry of a stage that had
published. `HistoryKnown` is why the attempt that merges is later than everything: whatever
silver has that is neither recorded nor reserved is late, because only the maintenance of late
batches puts it there, and `execution_options` gives a late batch a rebuild. `DisjointPeriods`
needs neither: the checks `Valid` and `OutOfOrder` of the MERGE, and `Ambiguous` of the rebuild,
are enough for it, and `KnownSince` rests on `Covers`.

The type invariants are theorems too, because the others need them. Four theorems are about
properties no run checks, because the proof covers every instance: `CheckpointKept` (the
checkpoint only grows), `ReturnedLanded` (a `write` that returned has landed its fixture),
`FoundLoadable` (a copy that passed its check is a committed fixture) and `ForeignSpared`.
Each `IInv` was checked by TLC on the constants of its run before it was proved.

Only model-checked: liveness (`EventuallyProcessed`, `RetryLands`, `EveryBatchRecorded`,
`LeftoverIsRemoved`, `PublishableIsRecorded`, `NewestIsShown`, `LeaseIsRevoked`,
`SlotsComeBack`), which is beyond the proof system. Every safety property that a passing run
checks is a theorem.

## Findings

`ranger_moved`: docs/runbooks/ranger-admin.md:32 says of two syncs in a row "The second run
should report no created, updated, or deleted policies." When an edition moves a row filter
from role b to role a while b's own filter moves to another table, the sync looks up a's
policy by resource and reuses the id of b's old one; then it looks up b's policy by name in
the listing of the start (ranger.py:211), without asking whether that id has been consumed,
and overwrites it. The filter of role a is missing until the next sync, although the report
says "synchronized".

Sentences and code that say less, or do more, than they seem to:

- docs/runbooks/commerce-training-fixture.md:725, "A new commit must be for the earliest
  unprocessed source batch": `_commit_locked` commits the reserved batch even when its own
  listing shows an older pending one, as the same runbooks ask of a recovery. The sentence
  predates reservations.
- docs/runbooks/iceberg-snapshot-expiration.md:4-6, "The control plane therefore plans and
  applies exact snapshot IDs rather than an open-ended timestamp predicate", and lines 10-11,
  "always preserves at least the latest three": the call in executor.py:431-440 leaves
  `older_than` and `retain_last` to their defaults, which by Iceberg's documentation means
  the table's `history.expire.max-snapshot-age-ms` (five days) and
  `history.expire.min-snapshots-to-keep` (one). With `PROPERTY OnlyApproved` added to
  `maint.cfg` TLC shows it within seconds: of three snapshots two are to be kept and two are
  too old, and the approved expiration of the oldest takes the second as well. Nothing a
  remaining snapshot holds is lost, and `_reconcile` reports `reconciliation_failed`
  (`SucceededAlone`), but the snapshot is gone.
- docs/runbooks/iceberg-snapshot-expiration.md:33, "Dry-run is the default and performs all
  live-history checks": `run` returns the dry-run report before `_execute`, where those
  checks are; only the current snapshot is compared.
- docs/runbooks/iceberg-data-file-rewrite.md:50 rejects an execution "if the plan, action, or
  current snapshot differs": the snapshot is compared once, before the procedure, and the
  plan is recognised by the id it carries. The model has the commit in between and the
  edited plan, and nothing a snapshot holds is lost by either.
- `complete-commerce-batch` looks at the daily mart alone, so an operator can record a full
  snapshot whose current mart was never built.
- docs/runbooks/commerce-training-fixture.md:579, "Set alert validity longer than the
  schedule interval": a cycle whose runner uses up its budget sends no notification, so an
  alert has to last from the cycle before to the one after. What is checked and proved
  (`AlertStaysUp`) is that an alert was accepted within the last two intervals; with the
  runbook's 900 seconds for every ten minutes that alert may be over by then.
- metadata_db_recovery.py:89-94: when `restore_database` raises in the `finally` clause,
  `start_metastore` is not called; when `stop_metastore` raises after taking effect, it is
  not called either, because `stopped` is set afterwards.
- exercise_trino_worker_recovery.py:403-406: `future.result(timeout=30)` raises inside the
  `finally` clause when the query does not end, and the worker then stays killed, without its
  restart policy.

## Not modelled

- The fixture generator and its profiles: values, not behaviour.
- Evidence, release and contract checks, profiles, demos and linked acceptance: they read
  files, images and endpoints, or drive the components above on a fresh stack.
- `_read_with_budget`, the replay listing of `plan`, the rewrite of manifests, the rules
  rendered by `access_policy.py`, the audit of object versions.
- Malformed input that is refused before anything changes.

Situations the models contain but promise nothing about, or that are assumed away: two
Ranger syncs at once; two full snapshots of one time and different ids (the second is
refused by the mart at every attempt, and the queue waits for it); a reservation whose
marker differs (every command stops, as recovery-states.md says); two history jobs on one
batch; a runner suspended between its last look at the deadline and the rename; alerts of two
cycles that reach Alertmanager in the other order; a compose client that creates its
container after a cleanup has reported it absent.

## Plan

1. `CommerceCheckpoint`, `BatchLedger`; `CommerceLanding`, `LandingPromise`;
   `StageContainers`, each with its proofs (done).
2. `BatchTables`, `CustomerHistory`, `IcebergMaintenance`, `WeatherPipeline`, `RangerSync`,
   `CommerceCycle`, `TrinoClient`, `RecoveryDrills` (done).
3. Proofs about `CommerceCycle`, `WeatherPipeline`, `IcebergMaintenance`, `TrinoClient`,
   `RecoveryDrills` and `CustomerHistory` (done).
4. Proofs about `BatchTables` and `RangerSync` (done).
5. `BudgetedRead`: the thread that reads, the caller that gives up, the body closed once.
6. The rewrite of manifests.
