----------------------------- MODULE CommerceCycle -----------------------------
(***************************************************************************)
(* The scheduled commerce cycle: cron starts commerce_cycle.py at every      *)
(* interval whether or not the last one is over. A cycle runs the batch      *)
(* runner (commerce_pipeline.py) in a child process under the cycle's own    *)
(* deadline, then submits the freshness of source and backlog to             *)
(* Alertmanager (commerce_alerts.py) in whatever time is left. The runner    *)
(* bounds every stage, query, sleep and S3 read by that deadline, removes    *)
(* the container of a stage that ran out of time, and may be killed by the   *)
(* cycle. Time is an integer; a timer that has run out is served before the  *)
(* clock moves on, and a process that no timer bounds takes no time unless   *)
(* it is slow.                                                               *)
(***************************************************************************)
EXTENDS Integers, FiniteSetsExt

CONSTANTS
  Cycles,       \* bound on the cycles that cron starts
  Interval,     \* of the crontab entry
  Budget,       \* COMMERCE_RUN_TIMEOUT_SECONDS
  Grace,        \* COMMERCE_RUN_CLEANUP_GRACE_SECONDS
  Removal,      \* the limit of docker rm
  Journal,      \* how long a write to the journal waits for another connection
  Stages, StageLimit,
  QueryLimit, Attempts, Delay,
  SourceAge, BacklogAge, Valid,  \* options of the notification
  Batch,        \* ordered by batch_at
  Landing,      \* what may be: for each batch, the time at which it lands
  None,
  MaxFaults     \* bound on slow processes, deaths and lost calls

ASSUME TimeAssumption ==
  /\ {Cycles, Interval, Budget, Grace, Removal, Journal, StageLimit, QueryLimit, Delay,
      Attempts, Stages, SourceAge, BacklogAge, Valid} \subseteq Nat \ {0}
  /\ MaxFaults \in Nat /\ Batch \subseteq Nat /\ None \notin Nat
  /\ Landing \subseteq [Batch -> Nat]
\* Batches land in order: the batch of an unfinished intent is the earliest one pending.
ASSUME LandingAssumption == \A f \in Landing : \A a, b \in Batch : a < b => f[a] <= f[b]
\* docker rm gives up after 30 seconds and the grace is 35; the journal makes the runner wait
\* for less than the 5 that sqlite would let it wait.
ASSUME GraceAssumption == Journal + Removal < Grace

VARIABLES
  now,
  landed,  \* when each batch lands
  done,    \* the checkpoint
  job,     \* each cycle, its runner and then its notification
  lock,    \* the runner lock of the checkout
  alert,   \* Alertmanager: when the alert of each component ends
  faults

vars == <<now, landed, done, job, lock, alert, faults>>

Cycle == 0..(Cycles - 1)
Component == {"ingestion", "processing"}
RunnerPc == {"boot", "plan", "ready", "intent", "stage", "cleanup", "outcome", "query",
             "sleep", "save"}
NoticePc == {"notify", "reading", "observed"}
Unbounded == {"start", "boot"} \cup NoticePc  \* no timer of their own bounds these
Timed == (RunnerPc \ {"boot", "ready"}) \cup NoticePc

At(c) == c * Interval
Due(c) == At(c) + Budget  \* deadline in run_cycle
Horizon == Cycles * Interval

Idle == [pc |-> "off", slow |-> FALSE, wait |-> 0, left |-> 0, until |-> 0, deadline |-> 0,
         stage |-> 0, try |-> 1, batch |-> None, code |-> 0, at |-> 0, stale |-> {}]

Job ==
  [pc : {"off", "start", "back", "ended"} \cup RunnerPc \cup NoticePc, slow : BOOLEAN,
   wait : Nat, left : 0..Budget, until : Nat, deadline : Nat, stage : 0..Stages, try : Nat,
   batch : Batch \cup {None}, code : 0..2, at : Nat, stale : SUBSET Component]

TypeOK ==
  /\ now \in 0..Horizon
  /\ landed \in Landing /\ done \subseteq Batch
  /\ job \in [Cycle -> Job]
  /\ lock \in Cycle \cup {None}
  /\ alert \in [Component -> Nat]
  /\ faults \in 0..MaxFaults

Init ==
  /\ now = 0
  /\ landed \in Landing
  /\ done = {}
  /\ job = [c \in Cycle |-> Idle]
  /\ lock = None
  /\ alert = [k \in Component |-> 0]
  /\ faults = 0

Fault == faults < MaxFaults /\ faults' = faults + 1
Listed == {b \in Batch : landed[b] <= now}  \* discover()
Pending == Listed \ done
Set(c, r) == job' = [job EXCEPT ![c] = r]
To(c, pc) == Set(c, [job[c] EXCEPT !.pc = pc])
InTime(c) == now < job[c].deadline  \* commerce_remaining_seconds

-----------------------------------------------------------------------------
(* run_cycle: the runner.                                                  *)

Cron(c) ==
  /\ job[c].pc = "off" /\ now = At(c)
  /\ To(c, "start")
  /\ UNCHANGED <<now, landed, done, lock, alert, faults>>

\* Mutant: the wait has no room for the runner's own cleanup.
MutWaitFor(c) == now + (Due(c) - now)
\* timeout=remaining + COMMERCE_RUN_CLEANUP_GRACE_SECONDS
WaitFor(c) == now + (Due(c) - now) + Grace

\* The runner gets the rest of the budget and the deadline in its environment.
Launch(c) ==
  /\ job[c].pc = "start" /\ now < Due(c)
  /\ Set(c, [job[c] EXCEPT !.pc = "boot", !.left = Due(c) - now, !.wait = WaitFor(c)])
  /\ UNCHANGED <<now, landed, done, lock, alert, faults>>

TooLate(c) ==
  /\ job[c].pc = "start" /\ now >= Due(c)
  /\ Set(c, [Idle EXCEPT !.pc = "ended", !.code = 2])
  /\ UNCHANGED <<now, landed, done, lock, alert, faults>>

LaunchFails(c) ==
  /\ job[c].pc = "start" /\ now < Due(c)
  /\ Fault
  /\ Set(c, [Idle EXCEPT !.pc = "back", !.code = 2])
  /\ UNCHANGED <<now, landed, done, lock, alert>>

\* The runner's process is over, and the lock with it.
Exit(c, code) ==
  /\ Set(c, [Idle EXCEPT !.pc = "back", !.code = code, !.batch = job[c].batch])
  /\ lock' = IF lock = c THEN None ELSE lock

\* TimeoutExpired in _run_command: the runner is killed.
Kill(c) ==
  /\ job[c].pc \in RunnerPc /\ now = job[c].wait
  /\ Exit(c, 2)
  /\ UNCHANGED <<now, landed, done, alert, faults>>

-----------------------------------------------------------------------------
(* The runner: main, run_commerce_batch, run_compose_stage.                *)

\* Mutant: the time between launch and main is given back.
MutDeadline(c) == now + job[c].left
\* The inherited deadline, if it is before the end of the runner's own timeout.
Deadline(c) == Min({now + job[c].left, now + (Due(c) - now)})

\* commerce_runner_lock does not wait.
Busy(c) ==
  /\ job[c].pc = "boot" /\ lock # None
  /\ Exit(c, 2)
  /\ UNCHANGED <<now, landed, done, alert, faults>>

Begin(c) ==
  /\ job[c].pc = "boot" /\ lock = None /\ now < Due(c)
  /\ lock' = c
  /\ Set(c, [job[c] EXCEPT !.pc = "plan", !.deadline = Deadline(c), !.until = Deadline(c),
                           !.left = 0, !.slow = FALSE])
  /\ UNCHANGED <<now, landed, done, alert, faults>>

\* plan(max_batches=1) and begin: the earliest batch that is not in the checkpoint.
Select(c) ==
  /\ job[c].pc = "plan" /\ InTime(c)
  /\ IF Pending = {}
     THEN Exit(c, 0)
     ELSE Set(c, [job[c] EXCEPT !.pc = "ready", !.batch = Min(Pending)]) /\ UNCHANGED lock
  /\ UNCHANGED <<now, landed, done, alert, faults>>

\* The time of a stage is reckoned before its intent is written to the journal.
Intend(c) ==
  /\ job[c].pc = "ready" /\ job[c].stage < Stages /\ InTime(c)
  /\ Set(c, [job[c] EXCEPT !.pc = "intent", !.until = now + Journal,
                           !.left = Min({StageLimit, job[c].deadline - now})])
  /\ UNCHANGED <<now, landed, done, lock, alert, faults>>

Compose(c) ==
  /\ job[c].pc = "intent"
  /\ Set(c, [job[c] EXCEPT !.pc = "stage", !.until = now + job[c].left, !.left = 0])
  /\ UNCHANGED <<now, landed, done, lock, alert, faults>>

StageDone(c) ==
  /\ job[c].pc = "stage"
  /\ Set(c, [job[c] EXCEPT !.pc = "ready", !.stage = @ + 1])
  /\ UNCHANGED <<now, landed, done, lock, alert, faults>>

\* docker rm --force, for up to 30 seconds.
StageTimesOut(c) ==
  /\ job[c].pc = "stage" /\ now = job[c].until
  /\ Set(c, [job[c] EXCEPT !.pc = "cleanup", !.until = now + Removal])
  /\ UNCHANGED <<now, landed, done, lock, alert, faults>>

\* Removed or not confirmed: the journal gets it before the run fails.
CleanupEnds(c) ==
  /\ job[c].pc = "cleanup"
  /\ Set(c, [job[c] EXCEPT !.pc = "outcome", !.until = now + Journal])
  /\ UNCHANGED <<now, landed, done, lock, alert, faults>>

\* bounded_query and, in the CLI, query: min(query_timeout, remaining).
Query(c) ==
  /\ \/ job[c].pc = "ready" /\ job[c].stage = Stages
     \/ job[c].pc = "sleep"
  /\ InTime(c)
  /\ Set(c, [job[c] EXCEPT !.pc = "query", !.until = Min({now + QueryLimit, job[c].deadline}),
                           !.try = IF job[c].pc = "sleep" THEN @ + 1 ELSE @])
  /\ UNCHANGED <<now, landed, done, lock, alert, faults>>

QueryRetried(c) ==
  /\ job[c].pc = "query" /\ job[c].try < Attempts /\ InTime(c)
  /\ Set(c, [job[c] EXCEPT !.pc = "sleep", !.until = Min({now + Delay, job[c].deadline})])
  /\ UNCHANGED <<now, landed, done, lock, alert, faults>>

Verified(c) ==
  /\ job[c].pc = "query" /\ InTime(c)
  /\ Set(c, [job[c] EXCEPT !.pc = "save", !.until = job[c].deadline])
  /\ UNCHANGED <<now, landed, done, lock, alert, faults>>

\* before_replace checks the deadline once more.
Commit(c) ==
  /\ job[c].pc = "save" /\ InTime(c)
  /\ done' = done \cup {job[c].batch}
  /\ Exit(c, 0)
  /\ UNCHANGED <<now, landed, alert, faults>>

\* A step fails, finds the budget spent, or somebody kills the process.
RunnerFails(c) ==
  /\ job[c].pc \in RunnerPc
  /\ IF job[c].pc = "cleanup" THEN Fault ELSE UNCHANGED faults
  /\ Exit(c, 2)
  /\ UNCHANGED <<now, landed, done, alert>>

-----------------------------------------------------------------------------
(* run_cycle: the notification.                                            *)

\* Mutant: a failed runner is reported at once.
MutBack(c) ==
  /\ job[c].pc = "back"
  /\ IF now >= Due(c) \/ job[c].code # 0
     THEN Set(c, [job[c] EXCEPT !.pc = "ended", !.code = 2])
     ELSE Set(c, [job[c] EXCEPT !.pc = "notify", !.until = now + (Due(c) - now)])
  /\ UNCHANGED <<now, landed, done, lock, alert, faults>>

\* timeout=remaining, not a budget of its own.
NoticeUntil(c) == now + (Due(c) - now)

Back(c) ==
  /\ job[c].pc = "back"
  /\ IF now >= Due(c)
     THEN Set(c, [job[c] EXCEPT !.pc = "ended", !.code = 2])
     ELSE Set(c, [job[c] EXCEPT !.pc = "notify", !.until = NoticeUntil(c)])
  /\ UNCHANGED <<now, landed, done, lock, alert, faults>>

Observe(c) ==
  /\ job[c].pc = "notify"
  /\ Set(c, [job[c] EXCEPT !.pc = "reading", !.at = now])
  /\ UNCHANGED <<now, landed, done, lock, alert, faults>>

\* check_source_freshness and check_backlog_freshness.
SourceStale(at) == \A b \in Listed : at - landed[b] > SourceAge
BacklogStale(at) == \E b \in Pending : at - landed[b] > BacklogAge

Read(c) ==
  /\ job[c].pc = "reading"
  /\ LET at == job[c].at
         stale == (IF SourceStale(at) THEN {"ingestion"} ELSE {})
                  \cup (IF BacklogStale(at) THEN {"processing"} ELSE {})
     IN Set(c, [job[c] EXCEPT !.pc = "observed", !.stale = stale])
  /\ UNCHANGED <<now, landed, done, lock, alert, faults>>

EndsAt(c) == [k \in Component |-> IF k \in job[c].stale THEN job[c].at + Valid ELSE job[c].at]

\* Mutant: the last exit code is returned.
MutEnd(c, code) == Set(c, [job[c] EXCEPT !.pc = "ended", !.slow = FALSE, !.until = 0,
                                         !.code = code])
\* return runner_code or notification_code
End(c, code) == Set(c, [job[c] EXCEPT !.pc = "ended", !.slow = FALSE, !.until = 0,
                                      !.code = IF @ # 0 THEN @ ELSE code])

\* One call carries both alerts.
Accepted(c) ==
  /\ job[c].pc = "observed"
  /\ alert' = EndsAt(c)
  /\ End(c, IF job[c].stale = {} THEN 0 ELSE 1)
  /\ UNCHANGED <<now, landed, done, lock, faults>>

\* It fails, perhaps after Alertmanager took the alerts, or the child is killed.
NoticeFails(c) ==
  /\ job[c].pc \in NoticePc
  /\ IF now = job[c].until THEN UNCHANGED faults ELSE Fault
  /\ alert' \in {alert} \cup (IF job[c].pc = "observed" THEN {EndsAt(c)} ELSE {})
  /\ End(c, 2)
  /\ UNCHANGED <<now, landed, done, lock>>

-----------------------------------------------------------------------------
(* Time.                                                                   *)

Slow(c) ==
  /\ job[c].pc \in Unbounded /\ ~job[c].slow
  /\ Fault
  /\ Set(c, [job[c] EXCEPT !.slow = TRUE])
  /\ UNCHANGED <<now, landed, done, lock, alert>>

\* Nothing is due at c.
Waits(c) ==
  /\ job[c].pc \notin {"back", "ready"}
  /\ job[c].pc = "off" => now < At(c)
  /\ job[c].pc \in Unbounded => job[c].slow
  /\ job[c].pc \in Timed => now < job[c].until
  /\ job[c].pc \in RunnerPc => now < job[c].wait

Tick ==
  /\ now < Horizon
  /\ \A c \in Cycle : Waits(c)
  /\ now' = now + 1
  /\ UNCHANGED <<landed, done, job, lock, alert, faults>>

Next ==
  \/ \E c \in Cycle :
       \/ Cron(c) \/ Launch(c) \/ TooLate(c) \/ LaunchFails(c) \/ Kill(c)
       \/ Busy(c) \/ Begin(c) \/ Select(c) \/ Intend(c) \/ Compose(c) \/ StageDone(c)
       \/ StageTimesOut(c) \/ CleanupEnds(c) \/ Query(c) \/ QueryRetried(c)
       \/ Verified(c) \/ Commit(c) \/ RunnerFails(c)
       \/ Back(c) \/ Observe(c) \/ Read(c) \/ Accepted(c) \/ NoticeFails(c) \/ Slow(c)
  \/ Tick

Spec == Init /\ [][Next]_vars

-----------------------------------------------------------------------------
(* The inductive invariant.                                                *)

\* Every time that a runner is given is derived from the deadline of its cycle, and a timer
\* that has run out is served before the clock moves on.
RunnerKnows(c) ==
  /\ job[c].pc # "off" => At(c) <= now
  /\ job[c].pc \in Timed => now <= job[c].until
  /\ job[c].pc \in RunnerPc => now <= job[c].wait /\ job[c].wait = Due(c) + Grace
  /\ job[c].pc = "boot" => Due(c) <= now + job[c].left
  /\ job[c].pc \in RunnerPc \ {"boot"} => job[c].deadline = Due(c)
  /\ job[c].pc \in {"intent", "stage"} => job[c].stage < Stages
  /\ job[c].pc = "intent" => job[c].until + job[c].left <= Due(c) + Journal
  /\ job[c].pc = "stage" => job[c].until <= Due(c) + Journal
  /\ job[c].pc = "cleanup" => job[c].until <= Due(c) + Journal + Removal

\* What a notification has read is no longer true of more batches than it was.
NoticeKnows(c) ==
  /\ job[c].pc \in {"off", "start", "boot", "plan"} => job[c].batch = None
  /\ job[c].pc \in RunnerPc \ {"boot", "plan"} => job[c].batch # None
  /\ job[c].pc \notin RunnerPc /\ job[c].code = 0 => job[c].batch \in done \cup {None}
  /\ job[c].at <= now
  /\ job[c].pc = "observed" \/ (job[c].pc = "ended" /\ job[c].code = 0) =>
       /\ \/ "processing" \in job[c].stale
          \/ \A b \in Batch : job[c].at - landed[b] > BacklogAge => b \in done
       /\ \/ "ingestion" \in job[c].stale
          \/ \E b \in Listed : job[c].at - landed[b] <= SourceAge
  /\ job[c].pc = "ended" /\ job[c].code = 0 => job[c].stale = {}

IInv == TypeOK /\ \A c \in Cycle : RunnerKnows(c) /\ NoticeKnows(c)

\* A cycle that has told Alertmanager what it observed, and one that will before time goes on.
Reported(c) == job[c].pc = "ended" /\ job[c].at >= At(c)
Reports(c) == Reported(c) \/ (job[c].pc \in NoticePc \cup {"back"} /\ now < Due(c))

HoldsLock(c) == job[c].pc \in RunnerPc \ {"boot"} => lock = c

\* While nothing is slow only a runner that has the lock takes time. A cycle that does not
\* report was left no time for it.
Prompt(c) ==
  /\ ~job[c].slow
  /\ job[c].pc = "off" => now <= At(c)
  /\ job[c].pc \in {"start", "boot"} => now = At(c)
  /\ job[c].pc = "back" => job[c].at = 0
  /\ job[c].pc \in NoticePc => job[c].until = Due(c) /\ now < Due(c)
  /\ job[c].pc \in {"reading", "observed"} => job[c].at = now
  /\ job[c].pc = "ended" => Reported(c) \/ now >= Due(c)

\* A runner that has left its cycle no time to report, before the next cycle was due.
Spent(c) == job[c].pc \in {"back", "ended"} /\ Due(c) <= now /\ Due(c) <= At(c + 1)

\* Of two cycles in a row one reports: the second finds the lock taken and does so at once,
\* or the first was over in time, or spent its budget before the second was there.
OneReports(c) ==
  c # 0 /\ job[c].pc \notin {"off", "start", "boot"} =>
    \/ Reported(c) \/ Reported(c - 1) \/ Spent(c - 1)
    \/ now = At(c) /\ (Reports(c) \/ Reports(c - 1))

\* What a cycle reported of a batch that is still pending, no later cycle has withdrawn.
Raised(c) ==
  job[c].pc = "ended" => \A b \in Pending :
    job[c].at - landed[b] > BacklogAge => alert["processing"] >= job[c].at + Valid

AlertInv ==
  /\ \A c \in Cycle : HoldsLock(c)
  /\ faults = 0 => \A c \in Cycle : Prompt(c) /\ OneReports(c) /\ Raised(c)

-----------------------------------------------------------------------------
(* Correctness.                                                            *)

\* A checkpoint is replaced only before the deadline of the cycle that started the runner,
\* however long the launch took ("cleanup grace does not permit a completed checkpoint
\* after the work deadline").
NoLateCommit ==
  [][\A c \in Cycle : (done' # done /\ job[c].pc = "save" /\ job'[c].pc = "back")
                       => now < Due(c)]_vars

\* The cycle never kills a runner that is removing the container of its stage: the grace
\* covers a journal that waits before the launch and the whole of docker rm.
KillSparesCleanup == [][\A c \in Cycle : job[c].pc = "cleanup" => ~Kill(c)]_vars

\* A cycle that exits 0 committed the batch it selected, or there was none to select, and
\* at the time it observed, no batch was waiting for too long and the source was fresh.
ExitIsHonest ==
  \A c \in Cycle : job[c].pc = "ended" /\ job[c].code = 0 =>
    /\ job[c].batch \in done \cup {None}
    /\ \A b \in Batch : job[c].at - landed[b] > BacklogAge => b \in done
    /\ \E b \in Listed : job[c].at - landed[b] <= SourceAge

\* While nothing goes wrong, a backlog that has been too old for two intervals was reported
\* since: its alert lasts as long as a report of that time makes it, although the run that
\* works on the backlog holds the lock past the next cycles and may leave no time for its own
\* notification. The one exception is a cycle of these two intervals that has not reported
\* because its runner used up the whole budget before the next cycle was due.
AlertStaysUp ==
  LET since == now - 2 * Interval IN
  faults = 0 /\ BacklogStale(since) =>
    \/ alert["processing"] >= since + Valid
    \/ \E c \in Cycle : since <= At(c) /\ Spent(c) /\ ~Reported(c)
=============================================================================
