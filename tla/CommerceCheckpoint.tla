------------------------- MODULE CommerceCheckpoint -------------------------
(***************************************************************************)
(* The commerce batch pipeline: landed manifests (the commit markers in    *)
(* object storage), the planner that selects, reserves and checkpoints one *)
(* batch at a time (ingestion/commerce_batches.py), the runner that takes  *)
(* the reserved batch through its container stages (commerce_pipeline.py,  *)
(* cli.py run-commerce-batch) and the operator who completes a batch by    *)
(* hand (cli.py complete-commerce-batch).                                  *)
(*                                                                         *)
(* Shared state is what survives a process: the landing prefix, the        *)
(* checkpoint file, the reservation file next to it, the synced local      *)
(* copy, the Iceberg tables and the containers, which outlive the runner   *)
(* that launched them. proc is the memory of each process, and goes with   *)
(* it.                                                                     *)
(***************************************************************************)
EXTENDS Integers

CONSTANTS
  Batch,         \* batch ids, as numbers: discover breaks ties on the id
  BatchAt,       \* config.batch_at of each batch
  FullSnapshot,  \* batches whose manifest declares source_semantics full_snapshot
  Late,          \* batches that may land after a batch with a later batch_at
  Mutable,       \* batches whose marker somebody rewrites or deletes after landing
  Digest,        \* manifest SHA-256 values
  NoDigest,      \* no marker, or no checkpoint entry
  NoIntent,      \* no <state>.active.json
  Runner,        \* run-commerce-batch processes of one checkout
  Operator,      \* complete-commerce-batch processes
  Nobody,        \* a free lock, or a container whose runner is gone
  N,             \* number of COMMERCE_STAGES: 1 syncs, 2 is bronze, N daily gold
  MaxFaults      \* bound on crashes, failures and marker rewrites

Proc == Runner \cup Operator
Marker == Digest \cup {NoDigest}
Selection == [batch : Batch, sha : Digest]

ASSUME BatchAssumption ==
  /\ Batch \subseteq Nat /\ Batch # {}
  /\ BatchAt \in [Batch -> Nat]
  /\ FullSnapshot \subseteq Batch
ASSUME MarkerAssumption == 
  NoDigest \notin Digest /\ NoIntent \notin Selection \cup Batch
ASSUME ProcAssumption == Nobody \notin Proc /\ Runner \cap Operator = {}
ASSUME BoundAssumption == N \in Nat /\ N >= 3 /\ MaxFaults \in Nat

VARIABLES
  manifest,    \* the commit marker of each batch in object storage
  processed,   \* the checkpoint file: the digest recorded for each batch
  intent,      \* the reservation file <state>.active.json
  stateLock,   \* flock on <state>.lock
  runnerLock,  \* flock on data/state/commerce-runner.lock
  synced,      \* the digest of the local copy made by bronze-input-sync
  output,      \* output[k]: what stage k has published
  jobs,        \* containers that are running
  proc,        \* the memory of each process
  faults

disk  == <<manifest, processed, intent>>
locks == <<stateLock, runnerLock>>
lake  == <<synced, output, jobs>>
vars  == <<disk, locks, lake, proc, faults>>

PC == {"off", "plan", "select", "begin", "reserve", "options",
       "launch", "wait", "verify", "commit", "check", "replace", "unlink"}

\* What a process holds in memory: the markers it saw when its discover started,
\* the checkpoint it read or is about to write, the batch it works on with the
\* digest it pins, the customer history mode and the stage of the attempt.
Memory == [pc : PC, view : [Batch -> Marker], draft : [Batch -> Marker],
           sel : [batch : Batch, sha : Marker],
           mode : {"legacy", "forward", "rebuild"}, stage : 1..(N + 2)]

\* The job of one stage container. Its owner is Nobody once the runner is gone.
Job == [owner : Runner \cup {Nobody}, stage : 1..(N + 1), sel : Selection]

TypeOK ==
  /\ manifest \in [Batch -> Marker]
  /\ processed \in [Batch -> Marker]
  /\ intent \in Selection \cup {NoIntent}
  /\ stateLock \in Proc \cup {Nobody}
  /\ runnerLock \in Runner \cup {Nobody}
  /\ synced \in [Batch -> Marker]
  /\ output \in [2..(N + 1) -> SUBSET Selection]
  /\ jobs \subseteq Job
  /\ proc \in [Proc -> Memory]
  /\ faults \in 0..MaxFaults

Blank == [b \in Batch |-> NoDigest]
Fresh == [pc |-> "off", view |-> Blank, draft |-> Blank,
          sel |-> [batch |-> CHOOSE b \in Batch : TRUE, sha |-> NoDigest],
          mode |-> "legacy", stage |-> 1]

Init ==
  /\ manifest = Blank
  /\ processed = Blank
  /\ intent = NoIntent
  /\ stateLock = Nobody
  /\ runnerLock = Nobody
  /\ synced = Blank
  /\ output = [k \in 2..(N + 1) |-> {}]
  /\ jobs = {}
  /\ proc = [p \in Proc |-> Fresh]
  /\ faults = 0

-----------------------------------------------------------------------------
(* Discovery and the checks every entry point of the planner makes.        *)

\* discover lists pages and then reads each marker, so each batch is seen as it
\* was at the start of the call or as it is when the result is used.
Discovered(p) ==
  {v \in [Batch -> Marker] : \A b \in Batch : v[b] \in {proc[p].view[b], manifest[b]}}

\* The sort key (effective_at, batch_id) of discover.
Earlier(a, b) == BatchAt[a] < BatchAt[b] \/ (BatchAt[a] = BatchAt[b] /\ a < b)

Done(ledger) == {b \in Batch : ledger[b] # NoDigest}
Pending(v, ledger) == {b \in Batch : v[b] # NoDigest /\ ledger[b] = NoDigest}
IsFirst(b, S) == b \in S /\ \A a \in S \ {b} : Earlier(b, a)

\* _verify_processed_content: every checkpoint entry still has its marker.
ProcessedVerified(v, ledger) == \A b \in Done(ledger) : v[b] = ledger[b]

\* _active_batch refuses a reservation whose marker changed ...
IntentVerified(v) == intent # NoIntent => v[intent.batch] = intent.sha

\* ... and ignores one whose batch is already in the checkpoint.
Active(ledger) == intent # NoIntent /\ ledger[intent.batch] = NoDigest

\* Mutant: the first pending batch, even while another one is reserved.
MutIsNext(b, v, ledger) == IsFirst(b, Pending(v, ledger))

\* `active or pending[0]`.
IsNext(b, v, ledger) ==
  IF Active(ledger) THEN b = intent.batch ELSE IsFirst(b, Pending(v, ledger))

-----------------------------------------------------------------------------
(* How a process moves: to its next step, to a step that starts with        *)
(* discover, or out, by return, exception or death, when its memory and     *)
(* both of its flocks go.                                                   *)

Goto(p, label) == proc' = [proc EXCEPT ![p].pc = label]

Discover(p, label) == proc' = [proc EXCEPT ![p].pc = label, ![p].view = manifest]

\* Mutant: a process that fails leaves the runner lock behind.
MutKeepRunner(p) ==
  stateLock' = (IF stateLock = p THEN Nobody ELSE stateLock) /\ UNCHANGED runnerLock

FreeLocks(p) ==
  /\ stateLock' = IF stateLock = p THEN Nobody ELSE stateLock
  /\ runnerLock' = IF runnerLock = p THEN Nobody ELSE runnerLock

Leave(p) == proc' = [proc EXCEPT ![p] = Fresh] /\ FreeLocks(p)

-----------------------------------------------------------------------------
(* Object storage.                                                         *)

\* CommerceS3LandingZone.write publishes the marker last, once.
Land(b) ==
  /\ manifest[b] = NoDigest
  /\ b \in Late \/ \A a \in Batch : Earlier(b, a) => manifest[a] = NoDigest
  /\ \E d \in Digest : manifest' = [manifest EXCEPT ![b] = d]
  /\ UNCHANGED <<processed, intent, locks, lake, proc, faults>>

\* Somebody rewrites or deletes a committed marker; the planner must notice.
Tamper(b) ==
  /\ b \in Mutable
  /\ manifest[b] # NoDigest
  /\ faults < MaxFaults
  /\ \E m \in Marker \ {manifest[b]} : manifest' = [manifest EXCEPT ![b] = m]
  /\ faults' = faults + 1
  /\ UNCHANGED <<processed, intent, locks, lake, proc>>

-----------------------------------------------------------------------------
(* The runner: one batch per process.                                      *)

\* cli.py takes the checkout's runner lock before it touches storage.
StartRun(r) ==
  /\ proc[r].pc = "off"
  /\ runnerLock = Nobody
  /\ runnerLock' = r
  /\ Discover(r, "plan")
  /\ UNCHANGED <<disk, stateLock, lake, faults>>

\* plan() holds no state lock: it reads the checkpoint, and the reservation later.
PlanRead(r) ==
  /\ proc[r].pc = "plan"
  /\ \E v \in Discovered(r) :
       IF ProcessedVerified(v, processed)
       THEN /\ proc' = [proc EXCEPT ![r].pc = "select", ![r].view = v, ![r].draft = processed]
            /\ UNCHANGED locks
       ELSE Leave(r)
  /\ UNCHANGED <<disk, lake, faults>>

\* The rest of plan(): the active batch, else the first pending one; else idle.
PlanSelect(r) ==
  /\ proc[r].pc = "select"
  /\ LET v == proc[r].view
         ledger == proc[r].draft
         next == {b \in Pending(v, ledger) : IsNext(b, v, ledger)}
     IN IF IntentVerified(v) /\ next # {}
        THEN /\ \E b \in next :
                  proc' = [proc EXCEPT ![r] =
                    [Fresh EXCEPT !.pc = "begin", !.sel = [batch |-> b, sha |-> v[b]]]]
             /\ UNCHANGED locks
        ELSE Leave(r)
  /\ UNCHANGED <<disk, lake, faults>>

\* begin() takes the state lock without waiting; a busy lock is an error.
BeginLock(r) ==
  /\ proc[r].pc = "begin"
  /\ IF stateLock = Nobody
     THEN stateLock' = r /\ Discover(r, "reserve") /\ UNCHANGED runnerLock
     ELSE Leave(r)
  /\ UNCHANGED <<disk, lake, faults>>

\* Mutant: begin() trusts what plan() selected.
MutReservable(s, v) ==
  ProcessedVerified(v, processed) /\ IntentVerified(v)
  /\ v[s.batch] = s.sha /\ processed[s.batch] = NoDigest

Reservable(s, v) ==
  /\ ProcessedVerified(v, processed)
  /\ IntentVerified(v)
  /\ v[s.batch] = s.sha
  /\ processed[s.batch] = NoDigest
  /\ IsNext(s.batch, v, processed)

\* Mutant: begin() checks the selection and does not write the reservation.
MutReserve(r) ==
  /\ proc[r].pc = "reserve"
  /\ \E v \in Discovered(r) :
       IF Reservable(proc[r].sel, v)
       THEN stateLock' = Nobody /\ Discover(r, "options") /\ UNCHANGED runnerLock
       ELSE Leave(r)
  /\ UNCHANGED <<disk, lake, faults>>

\* begin(): rediscover, check the selection is still next, write the reservation.
Reserve(r) ==
  /\ proc[r].pc = "reserve"
  /\ \E v \in Discovered(r) :
       IF Reservable(proc[r].sel, v)
       THEN /\ intent' = IF Active(processed) THEN intent ELSE proc[r].sel
            /\ stateLock' = Nobody
            /\ Discover(r, "options")
            /\ UNCHANGED runnerLock
       ELSE Leave(r) /\ UNCHANGED intent
  /\ UNCHANGED <<manifest, processed, lake, faults>>

\* execution_options(): a full snapshot older than something already processed
\* rebuilds the customer history; any other full snapshot extends it.
HistoryMode(b) ==
  CASE b \notin FullSnapshot -> "legacy"
    [] b \in FullSnapshot /\ (\E a \in Done(processed) : BatchAt[b] < BatchAt[a]) -> "rebuild"
    [] OTHER -> "forward"

Options(r) ==
  /\ proc[r].pc = "options"
  /\ \E v \in Discovered(r) :
       LET s == proc[r].sel IN
       IF ProcessedVerified(v, processed) /\ v[s.batch] = s.sha
       THEN /\ proc' = [proc EXCEPT ![r] =
                 [Fresh EXCEPT !.pc = "launch", !.sel = s, !.mode = HistoryMode(s.batch)]]
            /\ UNCHANGED locks
       ELSE Leave(r)
  /\ UNCHANGED <<disk, lake, faults>>

\* The stages of an attempt: only a full snapshot also publishes the current mart.
LastStage(r) == IF proc[r].mode = "legacy" THEN N ELSE N + 1

\* run_compose_stage starts the container of the stage and waits for it.
Launch(r) ==
  /\ proc[r].pc = "launch"
  /\ jobs' = jobs \cup {[owner |-> r, stage |-> proc[r].stage, sel |-> proc[r].sel]}
  /\ Goto(r, "wait")
  /\ UNCHANGED <<disk, locks, synced, output, faults>>

\* What a stage demands before it publishes: the sync job an existing marker,
\* bronze and the current mart a local copy with the selected digest.
Accepts(j) ==
  CASE j.stage = 1 -> manifest[j.sel.batch] # NoDigest
    [] j.stage \in {2, N + 1} -> synced[j.sel.batch] = j.sel.sha
    [] OTHER -> TRUE

\* What a stage publishes: bronze and the current mart the local copy they read, the
\* stages between them the rows of the batch id they were given.
Published(j) ==
  IF j.stage \in {2, N + 1}
  THEN [batch |-> j.sel.batch, sha |-> synced[j.sel.batch]]
  ELSE j.sel

\* A container publishes its stage and ends, whether or not its runner lives.
JobDone(j) ==
  /\ Accepts(j)
  /\ jobs' = jobs \ {j}
  /\ IF j.stage = 1
     THEN synced' = [synced EXCEPT ![j.sel.batch] = manifest[j.sel.batch]] /\ UNCHANGED output
     ELSE output' = [output EXCEPT ![j.stage] = @ \cup {Published(j)}] /\ UNCHANGED synced
  /\ proc' = IF j.owner = Nobody THEN proc
             ELSE [proc EXCEPT
                    ![j.owner].stage = j.stage + 1,
                    ![j.owner].pc = IF j.stage = LastStage(j.owner) THEN "verify" ELSE "launch"]
  /\ UNCHANGED <<disk, locks, faults>>

\* A container ends without publishing; a live runner raises.
JobFails(j) ==
  /\ \/ ~Accepts(j) /\ UNCHANGED faults
     \/ faults < MaxFaults /\ faults' = faults + 1
  /\ jobs' = jobs \ {j}
  /\ IF j.owner = Nobody THEN UNCHANGED <<proc, locks>> ELSE Leave(j.owner)
  /\ UNCHANGED <<disk, synced, output>>

\* Mutant: the gate accepts a daily mart that holds some other batch.
MutGoldReady(b) == output[N] # {}

\* check_commerce_gold looks the daily mart up by batch id alone.
GoldReady(b) == \E s \in output[N] : s.batch = b

Verify(r) ==
  /\ proc[r].pc = "verify"
  /\ IF GoldReady(proc[r].sel.batch) THEN Goto(r, "commit") /\ UNCHANGED locks ELSE Leave(r)
  /\ UNCHANGED <<disk, lake, faults>>

\* commit() takes the state lock without waiting.
CommitLock(r) ==
  /\ proc[r].pc = "commit"
  /\ IF stateLock = Nobody
     THEN stateLock' = r /\ Discover(r, "check") /\ UNCHANGED runnerLock
     ELSE Leave(r)
  /\ UNCHANGED <<disk, lake, faults>>

\* complete-commerce-batch, or commit-commerce-batch called as its runbook says, by
\* who has verified gold: the gate, which rows once written keep open, and then
\* commit(), with no pinned digest.
OperatorCommit(o, b) ==
  /\ proc[o].pc = "off"
  /\ GoldReady(b)
  /\ stateLock = Nobody
  /\ stateLock' = o
  /\ proc' = [proc EXCEPT ![o] = [Fresh EXCEPT
                 !.pc = "check", !.view = manifest, !.sel = [batch |-> b, sha |-> NoDigest]]]
  /\ UNCHANGED <<disk, runnerLock, lake, faults>>

\* The runner pins the digest it selected; the operator pins none.
Pinned(p, v) == p \in Operator \/ v[proc[p].sel.batch] = proc[p].sel.sha

\* _commit_locked: an entry that is already there is left alone (created False).
Committable(p, v) ==
  LET b == proc[p].sel.batch IN
  /\ v[b] # NoDigest
  /\ ProcessedVerified(v, processed)
  /\ Pinned(p, v)
  /\ IntentVerified(v)
  /\ processed[b] = NoDigest
  /\ IsNext(b, v, processed)

\* _commit_locked up to the temporary checkpoint file.
CommitCheck(p) ==
  /\ proc[p].pc = "check"
  /\ \E v \in Discovered(p) :
       LET b == proc[p].sel.batch IN
       IF Committable(p, v)
       THEN /\ proc' = [proc EXCEPT ![p] =
                 [Fresh EXCEPT !.pc = "replace", !.draft = [processed EXCEPT ![b] = v[b]]]]
            /\ UNCHANGED locks
       ELSE Leave(p)
  /\ UNCHANGED <<disk, lake, faults>>

\* os.replace of the checkpoint; the reservation goes only if it was active.
CommitReplace(p) ==
  /\ proc[p].pc = "replace"
  /\ processed' = proc[p].draft
  /\ IF Active(processed) THEN Goto(p, "unlink") /\ UNCHANGED locks ELSE Leave(p)
  /\ UNCHANGED <<manifest, intent, lake, faults>>

CommitUnlink(p) ==
  /\ proc[p].pc = "unlink"
  /\ intent' = NoIntent
  /\ Leave(p)
  /\ UNCHANGED <<manifest, processed, lake, faults>>

-----------------------------------------------------------------------------
(* Failure.                                                                *)

\* An exhausted budget, an S3, journal or disk error, a container removal that
\* could not be confirmed, or the death of the process: what it launched runs on.
Die(p) ==
  /\ proc[p].pc # "off"
  /\ faults < MaxFaults
  /\ faults' = faults + 1
  /\ Leave(p)
  /\ jobs' = {[j EXCEPT !.owner = IF @ = p THEN Nobody ELSE @] : j \in jobs}
  /\ UNCHANGED <<disk, synced, output>>

\* A stage timeout or Ctrl+C with a confirmed `docker rm --force`.
StageRemoved(r) ==
  /\ proc[r].pc = "wait"
  /\ faults < MaxFaults
  /\ faults' = faults + 1
  /\ jobs' = {j \in jobs : j.owner # r}
  /\ Leave(r)
  /\ UNCHANGED <<disk, synced, output>>

-----------------------------------------------------------------------------

RunnerStep(r) ==
  \/ StartRun(r) \/ PlanRead(r) \/ PlanSelect(r)
  \/ BeginLock(r) \/ Reserve(r) \/ Options(r)
  \/ Launch(r) \/ Verify(r) \/ CommitLock(r)

CommitStep(p) == CommitCheck(p) \/ CommitReplace(p) \/ CommitUnlink(p)

JobStep == \E j \in jobs : JobDone(j) \/ JobFails(j)

Next ==
  \/ \E b \in Batch : Land(b) \/ Tamper(b)
  \/ \E r \in Runner : RunnerStep(r) \/ StageRemoved(r)
  \/ \E o \in Operator, b \in Batch : OperatorCommit(o, b)
  \/ \E p \in Proc : CommitStep(p) \/ Die(p)
  \/ JobStep

Spec == Init /\ [][Next]_vars

\* Cron starts a runner again and again, a process that started runs on until it
\* returns or dies, and a container ends.
Fairness ==
  /\ \A r \in Runner : WF_vars(RunnerStep(r))
  /\ \A p \in Proc : WF_vars(CommitStep(p))
  /\ WF_vars(JobStep)

FairSpec == Spec /\ Fairness

-----------------------------------------------------------------------------
(* What the pipeline promises.                                             *)

\* Everything that has been computed, or that a container or a runner past
\* begin() is computing.
Computing == {"options", "launch", "wait", "verify", "commit"}
Work ==
  (UNION {output[k] : k \in 2..(N + 1)})
  \cup {j.sel : j \in jobs}
  \cup {proc[r].sel : r \in {q \in Runner : proc[q].pc \in Computing}}

Owned(s) == processed[s.batch] = s.sha \/ (Active(processed) /\ intent = s)

\* Compute is never abandoned for another batch: what has been computed, even by
\* a container whose runner is dead, belongs to a batch the checkpoint records
\* with that digest, or to the batch that is reserved. This is what begin() writes
\* the reservation for: a late batch with an earlier batch_at may not overtake
\* one whose tables are half written.
WorkIsOwned ==
  \A s \in Work : Owned(s)

\* A batch the checkpoint records went through every common stage with the digest
\* the checkpoint records, whoever committed it and however often it was retried.
ProcessedIsPublished ==
  \A b \in Done(processed), k \in 2..N : [batch |-> b, sha |-> processed[b]] \in output[k]

\* Only a batch that landed late is ever overtaken: plan() and begin() each list
\* the prefix, so markers that appear while one of the listings is under way
\* cannot put a later batch_at first.
OnTimeKeepsOrder ==
  \A a \in Batch \ (Late \cup Mutable), b \in Done(processed) :
    Earlier(a, b) /\ manifest[a] # NoDigest /\ b \notin Mutable => processed[a] # NoDigest

\* No checkpoint entry is lost or changed by two committers or by a crash.
CheckpointOnlyGrows ==
  [][\A b \in Done(processed) : processed'[b] = processed[b]]_vars

-----------------------------------------------------------------------------
(* The strengthening that makes the promises inductive.                     *)

PublishedThrough(s, k) == \A i \in 2..k : s \in output[i]

\* The state lock is held over every step that reads and then writes the files.
LockHeld ==
  \A p \in Proc : proc[p].pc \in {"reserve", "check", "replace", "unlink"} => stateLock = p

\* A published stage has all the stages before it, and belongs to somebody.
OutputKnown ==
  \A k \in 2..(N + 1) : \A s \in output[k] : Owned(s) /\ PublishedThrough(s, k)

\* So does a running container; a live one is the one its runner waits for.
JobKnown(j) ==
  /\ Owned(j.sel)
  /\ PublishedThrough(j.sel, j.stage - 1)
  /\ j.owner # Nobody =>
       /\ proc[j.owner].pc = "wait"
       /\ proc[j.owner].stage = j.stage
       /\ proc[j.owner].sel = j.sel

\* What a runner knows of the batch it works on, at each of its steps.
RunnerKnows(r) ==
  /\ proc[r].pc \in {"begin", "reserve"} => proc[r].sel \in Selection
  /\ proc[r].pc \in Computing \cup {"check"} => proc[r].sel \in Selection /\ Owned(proc[r].sel)
  /\ proc[r].pc \in {"launch", "wait"} =>
       proc[r].stage \in 1..LastStage(r) /\ PublishedThrough(proc[r].sel, proc[r].stage - 1)
  /\ proc[r].pc \in {"verify", "commit", "check"} => PublishedThrough(proc[r].sel, N)

\* What an operator knows, and any process about to replace the checkpoint.
CommitterKnows(p) ==
  /\ p \in Operator =>
       /\ proc[p].pc \in {"off", "check", "replace", "unlink"}
       /\ proc[p].pc = "check" => GoldReady(proc[p].sel.batch)
  /\ proc[p].pc = "replace" =>
       /\ Active(processed)
       /\ proc[p].draft = [processed EXCEPT ![intent.batch] = intent.sha]
       /\ PublishedThrough(intent, N)
  /\ proc[p].pc = "unlink" => ~Active(processed)

IInv ==
  /\ TypeOK
  /\ LockHeld
  /\ OutputKnown
  /\ \A j \in jobs : JobKnown(j)
  /\ \A r \in Runner : RunnerKnows(r)
  /\ \A p \in Proc : CommitterKnows(p)
  /\ ProcessedIsPublished

\* The batches on time before b that have landed are in the checkpoint, and no other one of
\* them can land any more.
OnTime == Batch \ (Late \cup Mutable)
Landed(b) == b \in Mutable \/ manifest[b] # NoDigest
InOrder(b) ==
  /\ Landed(b)
  /\ \A a \in OnTime : Earlier(a, b) /\ manifest[a] # NoDigest /\ b \notin Mutable
                         => processed[a] # NoDigest

\* plan() may have seen b and missed a batch before it; begin() lists again, and its listing
\* starts with all that landed before b.
ViewKnows(p) ==
  LET b == proc[p].sel.batch IN
  /\ \A x \in Batch : proc[p].view[x] # NoDigest => Landed(x)
  /\ proc[p].pc \in {"begin", "reserve"} => Landed(b)
  /\ proc[p].pc = "reserve" =>
       \A a \in OnTime : Earlier(a, b) /\ manifest[a] # NoDigest /\ b \notin Mutable
                           => proc[p].view[a] # NoDigest

OrderInv ==
  /\ \A b \in Done(processed) : InOrder(b)
  /\ Active(processed) => InOrder(intent.batch)
  /\ \A p \in Proc : ViewKnows(p)

-----------------------------------------------------------------------------

\* The abstract ledger this pipeline implements: a reservation whose batch is
\* recorded is as good as none, whether or not its file is still there.
Reserved == IF Active(processed) THEN intent.batch ELSE NoIntent
Touched == {s.batch : s \in UNION {output[k] : k \in 2..(N + 1)}}

Ledger == INSTANCE BatchLedger WITH
  NoBatch <- NoIntent, reserved <- Reserved, touched <- Touched, recorded <- Done(processed)

\* The runner, the operator, crashes and orphaned containers together behave like
\* one owner at a time: a recorded batch was the reserved one and had been published.
ImplementsLedger == Ledger!Spec

\* Every landed batch is processed in the end.
EventuallyProcessed ==
  \A b \in Batch : manifest[b] # NoDigest ~> processed[b] # NoDigest
=============================================================================
