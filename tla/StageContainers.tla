--------------------------- MODULE StageContainers ---------------------------
(***************************************************************************)
(* The containers of the commerce runner: run_compose_stage                 *)
(* (commerce_pipeline.py) starts one per stage through a docker compose     *)
(* client, CommerceRunJournal records who owns it, and an operator inspects *)
(* and removes one that was left behind (commerce_container_inspection.py,  *)
(* commerce_container_cleanup.py). Runners and clients die separately, the  *)
(* daemon may answer late or not at all, and names can be reused.           *)
(***************************************************************************)
EXTENDS Integers

CONSTANTS
  Run,        \* attempts: each is a process with a run id of its own
  N,          \* stages of a run
  None,
  Operator,   \* holds the runner lock during a cleanup
  Foreign,    \* owner of a container that reuses a name
  MaxMishaps  \* bound on deaths, timeouts, failures and reused names

ASSUME StageAssumption == N \in Nat \ {0} /\ MaxMishaps \in Nat
ASSUME NameAssumption ==
  None \notin Run /\ Operator \notin Run /\ Foreign \notin Run
  /\ None # Operator /\ None # Foreign /\ Operator # Foreign

VARIABLES
  lock,     \* the runner lock of the checkout
  runner,   \* each run: its step and its stage
  client,   \* the compose client of a run's stage, a process of its own; "sent" when it
            \* was killed and its request to create the container is on the way
  docker,   \* what the daemon has under each name: whose it is, its id, its state
  journal,  \* commerce_container_events
  cleanup,  \* the operator's command: its step, what it was asked for, the id it saw
  mishaps

dockerVars == <<lock, runner, client, docker, journal, cleanup, mishaps>>

\* The generated name of a container is unique: it stands for the run and the stage.
Name == Run \X (1..N)
ContainerIds == Run \cup {Foreign}  \* a name holds at most one object of each, with its own id
Absent == [owner |-> None, state |-> "absent"]
Event == [name : Name, event : {"launch_intent", "completed", "failed", "timeout_removed",
                                "cleanup_unconfirmed"}]
Asked == [pc : {"inspect", "remove", "confirm"}, name : Name, id : ContainerIds \cup {None}]
NoCleanup == [pc |-> "off", name |-> None, id |-> None]

DockerTypeOK ==
  /\ lock \in Run \cup {None, Operator}
  /\ runner \in [Run -> [pc : {"new", "intent", "launch", "wait", "remove", "removed",
                              "unconfirmed", "ended"}, stage : 1..N]]
  /\ client \in [Run -> {"none", "starting", "sent", "created", "attached"}]
  /\ docker \in [Name -> [owner : ContainerIds, state : {"created", "running", "exited"}]
                         \cup {Absent}]
  /\ journal \subseteq Event
  /\ cleanup \in Asked \cup {NoCleanup}
  /\ mishaps \in 0..MaxMishaps

DockerInit ==
  /\ lock = None
  /\ runner = [r \in Run |-> [pc |-> "new", stage |-> 1]]
  /\ client = [r \in Run |-> "none"]
  /\ docker = [n \in Name |-> Absent]
  /\ journal = {}
  /\ cleanup = NoCleanup
  /\ mishaps = 0

Fault == mishaps < MaxMishaps /\ mishaps' = mishaps + 1
\* What may be left of a client that is killed.
Killed(r) == {"none"} \cup (IF client[r] \in {"starting", "sent"} THEN {"sent"} ELSE {})
NameOf(r) == <<r, runner[r].stage>>
Log(n, e) == journal' = journal \cup {[name |-> n, event |-> e]}
Goto(r, pc) == runner' = [runner EXCEPT ![r].pc = pc]
\* Mutant: the lock outlives the process, like a lock file without flock.
MutEnd(r) == Goto(r, "ended") /\ UNCHANGED lock
End(r) == Goto(r, "ended") /\ lock' = IF lock = r THEN None ELSE lock

-----------------------------------------------------------------------------
(* run_compose_stage.                                                      *)

Start(r) ==
  /\ runner[r].pc = "new" /\ lock = None
  /\ lock' = r
  /\ Goto(r, "intent")
  /\ UNCHANGED <<client, docker, journal, cleanup, mishaps>>

\* Mutant: the journal is written when the container is there.
MutIntent(r) ==
  /\ runner[r].pc = "intent"
  /\ Goto(r, "launch")
  /\ UNCHANGED <<lock, client, docker, journal, cleanup, mishaps>>

\* ownership("launch_intent") is committed before Docker is invoked.
Intent(r) ==
  /\ runner[r].pc = "intent"
  /\ Log(NameOf(r), "launch_intent")
  /\ Goto(r, "launch")
  /\ UNCHANGED <<lock, client, docker, cleanup, mishaps>>

LaunchStage(r) ==
  /\ runner[r].pc = "launch"
  /\ client' = [client EXCEPT ![r] = "starting"]
  /\ Goto(r, "wait")
  /\ UNCHANGED <<lock, docker, journal, cleanup, mishaps>>

\* The client returned: the next stage or the end of the run.
Completed(r) ==
  /\ runner[r].pc = "wait" /\ client[r] = "attached"
  /\ docker[NameOf(r)].state \in {"absent", "exited"}
  /\ client' = [client EXCEPT ![r] = "none"]
  /\ Log(NameOf(r), "completed")
  /\ IF runner[r].stage < N
     THEN runner' = [runner EXCEPT ![r] = [pc |-> "intent", stage |-> @.stage + 1]]
          /\ UNCHANGED lock
     ELSE End(r)
  /\ UNCHANGED <<docker, cleanup, mishaps>>

\* The client could not start the stage, or the stage failed, or somebody removed it.
Failed(r) ==
  /\ runner[r].pc = "wait"
  /\ \/ client[r] = "starting" /\ Fault
     \/ client[r] = "starting" /\ docker[NameOf(r)] # Absent /\ UNCHANGED mishaps
     \/ client[r] = "created" /\ docker[NameOf(r)].owner # r /\ UNCHANGED mishaps
     \/ client[r] = "attached" /\ docker[NameOf(r)].state \in {"absent", "exited"}
        /\ UNCHANGED mishaps
  /\ client' = [client EXCEPT ![r] = "none"]
  /\ Log(NameOf(r), "failed")
  /\ End(r)
  /\ UNCHANGED <<docker, cleanup>>

\* Mutant: the client goes on when its wait is given up.
MutExpire(r) ==
  /\ runner[r].pc = "wait" /\ client[r] # "none"
  /\ Fault
  /\ Goto(r, "remove")
  /\ UNCHANGED <<lock, client, docker, journal, cleanup>>

\* TimeoutExpired or Ctrl+C: subprocess.run kills the client, not the container.
Expire(r) ==
  /\ runner[r].pc = "wait" /\ client[r] # "none"
  /\ Fault
  /\ \E c \in Killed(r) : client' = [client EXCEPT ![r] = c]
  /\ Goto(r, "remove")
  /\ UNCHANGED <<lock, docker, journal, cleanup>>

\* docker rm --force by name, which may fail or time out after it took effect.
Remove(r) ==
  /\ runner[r].pc = "remove"
  /\ \/ docker' = [docker EXCEPT ![NameOf(r)] = Absent] /\ Goto(r, "removed")
        /\ UNCHANGED mishaps
     \/ /\ Fault
        /\ docker' \in {docker, [docker EXCEPT ![NameOf(r)] = Absent]}
        /\ Goto(r, "unconfirmed")
  /\ UNCHANGED <<lock, client, journal, cleanup>>

\* The outcome is recorded (after Ctrl+C as interrupted_removed) and raised. The journal
\* may refuse it.
Outcome(r) ==
  /\ \/ runner[r].pc = "removed" /\ Log(NameOf(r), "timeout_removed") /\ UNCHANGED mishaps
     \/ runner[r].pc = "unconfirmed" /\ Log(NameOf(r), "cleanup_unconfirmed") /\ UNCHANGED mishaps
     \/ runner[r].pc \in {"removed", "unconfirmed"} /\ Fault /\ UNCHANGED journal
  /\ End(r)
  /\ UNCHANGED <<client, docker, cleanup>>

\* The journal refuses an intent (nothing is launched), or the runner is killed; the
\* client is another process and may outlive it.
Die(r) ==
  /\ runner[r].pc \notin {"new", "ended"}
  /\ Fault
  /\ \E c \in Killed(r) \cup {client[r]} : client' = [client EXCEPT ![r] = c]
  /\ End(r)
  /\ UNCHANGED <<docker, journal, cleanup>>

-----------------------------------------------------------------------------
(* The client and the daemon.                                              *)

ClientCreates(r) ==
  /\ client[r] \in {"starting", "sent"} /\ docker[NameOf(r)] = Absent
  /\ docker' = [docker EXCEPT ![NameOf(r)] = [owner |-> r, state |-> "created"]]
  /\ client' = [client EXCEPT ![r] = IF @ = "starting" THEN "created" ELSE "none"]
  /\ UNCHANGED <<lock, runner, journal, cleanup, mishaps>>

ClientStarts(r) ==
  /\ client[r] = "created" /\ docker[NameOf(r)].owner = r
  /\ docker' = [docker EXCEPT ![NameOf(r)].state = "running"]
  /\ client' = [client EXCEPT ![r] = "attached"]
  /\ UNCHANGED <<lock, runner, journal, cleanup, mishaps>>

\* A client without its runner ends with the stage, or when it cannot start it.
ClientEnds(r) ==
  /\ client[r] # "none" /\ runner[r].pc = "ended"
  /\ \/ client[r] \in {"starting", "sent"} /\ docker[NameOf(r)] # Absent
     \/ client[r] = "created" /\ docker[NameOf(r)].owner # r
     \/ client[r] = "attached" /\ docker[NameOf(r)].state \in {"absent", "exited"}
  /\ client' = [client EXCEPT ![r] = "none"]
  /\ UNCHANGED <<lock, runner, docker, journal, cleanup, mishaps>>

Exits(n) ==
  /\ docker[n].state = "running" /\ docker[n].owner # Foreign
  /\ docker' = [docker EXCEPT ![n].state = "exited"]
  /\ UNCHANGED <<lock, runner, client, journal, cleanup, mishaps>>

\* --rm
AutoRemoved(n) ==
  /\ docker[n].state = "exited" /\ docker[n].owner # Foreign
  /\ docker' = [docker EXCEPT ![n] = Absent]
  /\ UNCHANGED <<lock, runner, client, journal, cleanup, mishaps>>

\* Somebody runs a container of their own under a name that has become free.
Reuse(n) ==
  /\ docker[n] = Absent /\ runner[n[1]].pc = "ended" /\ client[n[1]] = "none"
  /\ Fault
  /\ docker' = [docker EXCEPT ![n] = [owner |-> Foreign, state |-> "running"]]
  /\ UNCHANGED <<lock, runner, client, journal, cleanup>>

-----------------------------------------------------------------------------
(* cleanup_container.                                                      *)

\* Mutant: the lock is not asked for.
MutFree == TRUE

Free == lock = None

Cleanup(n) ==
  /\ Free /\ cleanup.pc = "off"
  /\ lock' = Operator
  /\ cleanup' = [pc |-> "inspect", name |-> n, id |-> None]
  /\ UNCHANGED <<runner, client, docker, journal, mishaps>>

\* Every refusal, every report and the operator's death end the command and the lock.
Report ==
  /\ cleanup' = NoCleanup
  /\ lock' = IF lock = Operator THEN None ELSE lock
  /\ UNCHANGED <<runner, client, docker, journal>>

\* inspect_containers with the exact run and name: one launch intent, and labels that
\* are the run's. Anything else is refused or already absent.
Inspect ==
  /\ cleanup.pc = "inspect"
  /\ LET n == cleanup.name
         recorded == [name |-> n, event |-> "launch_intent"] \in journal
     IN IF recorded /\ docker[n].owner = n[1]
        THEN /\ cleanup' = [pc |-> "remove", name |-> n, id |-> docker[n].owner]
             /\ UNCHANGED <<lock, runner, client, docker, journal>>
        ELSE Report
  /\ UNCHANGED mishaps

\* The container is removed by the id that was inspected.
Target == docker[cleanup.name].owner = cleanup.id

RemoveId ==
  /\ cleanup.pc = "remove"
  /\ \/ /\ docker' = IF Target THEN [docker EXCEPT ![cleanup.name] = Absent] ELSE docker
        /\ cleanup' = [cleanup EXCEPT !.pc = "confirm"]
        /\ UNCHANGED <<lock, runner, client, journal, mishaps>>
     \/ Fault /\ Report

\* ready when the id is absent, incomplete otherwise.
Confirm ==
  /\ cleanup.pc = "confirm"
  /\ Report
  /\ UNCHANGED mishaps

Abandon == cleanup.pc # "off" /\ Fault /\ Report

-----------------------------------------------------------------------------

RunnerStep(r) ==
  Start(r) \/ Intent(r) \/ LaunchStage(r) \/ Completed(r) \/ Failed(r) \/ Remove(r) \/ Outcome(r)
ClientStep(r) == ClientCreates(r) \/ ClientStarts(r) \/ ClientEnds(r)
CleanupStep == Inspect \/ RemoveId \/ Confirm

DockerNext ==
  \/ \E r \in Run : RunnerStep(r) \/ Expire(r) \/ Die(r) \/ ClientStep(r)
  \/ \E n \in Name : Exits(n) \/ AutoRemoved(n) \/ Reuse(n) \/ Cleanup(n)
  \/ CleanupStep \/ Abandon

DockerSpec == DockerInit /\ [][DockerNext]_dockerVars

\* Runners and clients go on, a stage that is waited for ends or is given up, and an
\* operator cleans up what is left again and again.
DockerFairSpec ==
  /\ DockerSpec
  /\ \A r \in Run : WF_dockerVars(RunnerStep(r)) /\ WF_dockerVars(ClientStep(r))
  /\ \A r \in Run : WF_dockerVars(\E s \in 1..N : runner[r].pc = "wait" /\ Exits(<<r, s>>))
  /\ \A n \in Name : SF_dockerVars(Cleanup(n))
  /\ WF_dockerVars(CleanupStep)

-----------------------------------------------------------------------------

Ended(r) == runner[r].pc = "ended"
Recorded(n, e) == [name |-> n, event |-> e] \in journal
Runs(n) == docker[n].owner = n[1] /\ docker[n].state = "running"

\* Whatever a run may have left with the daemon is found in the journal, after any death:
\* the inspector and the cleanup see only recorded launches.
LeftoverIsJournaled ==
  \A n \in Name : docker[n].owner = n[1] => Recorded(n, "launch_intent")

\* Cleanup never stops the stage of a run that is alive: it runs under the runner lock.
CleanupSparesRuns ==
  cleanup.pc # "off" => \A r \in Run : runner[r].pc \in {"new", "ended"}

\* Cleanup removes nothing but the container of the run it was asked for, although the
\* name may be reused between the inspection and the removal.
CleanupSparesForeign ==
  [][\A n \in Name : docker[n].owner = Foreign => docker'[n] = docker[n]]_dockerVars

\* A removal that the journal confirms is final: the stage never runs again, although
\* its container may still be created by a request of the killed client.
ConfirmedIsStopped ==
  \A n \in Name : Recorded(n, "timeout_removed") => ~Runs(n)

\* The lock is held by every live run and by every cleanup.
LockHeld ==
  /\ \A r \in Run : runner[r].pc \notin {"new", "ended"} => lock = r
  /\ cleanup.pc # "off" => lock = Operator

\* What holds of a run and its client at each step.
AttemptKnown(r) ==
  /\ runner[r].pc \in {"launch", "wait", "remove", "removed", "unconfirmed"} =>
       Recorded(NameOf(r), "launch_intent")
  /\ client[r] # "none" => Recorded(NameOf(r), "launch_intent")
                           /\ runner[r].pc \notin {"new", "intent", "launch"}
  /\ client[r] \in {"starting", "created", "attached"} => runner[r].pc \in {"wait", "ended"}
  /\ runner[r].pc = "removed" => ~Runs(NameOf(r))

\* A confirmed removal is the last thing a run does, and its client is dead.
StoppedKnown(n) ==
  Recorded(n, "timeout_removed") =>
    /\ ~Runs(n)
    /\ Ended(n[1]) /\ runner[n[1]].stage = n[2]
    /\ client[n[1]] \in {"none", "sent"}

\* A reused name belongs to a run that is over.
ForeignKnown == \A n \in Name : docker[n].owner = Foreign => Ended(n[1])

\* The inductive invariant of the proofs: who holds the lock, and what each run, its
\* client and a confirmed removal say of the journal and the daemon.
DockerIInv ==
  /\ DockerTypeOK
  /\ LeftoverIsJournaled
  /\ LockHeld
  /\ \A r \in Run : AttemptKnown(r)
  /\ \A n \in Name : StoppedKnown(n)
  /\ ForeignKnown
  /\ cleanup.id # Foreign

\* What a dead run has left goes away, without anybody guessing names.
LeftoverIsRemoved ==
  \A r \in Run, s \in 1..N :
    [](Ended(r) /\ docker[<<r, s>>].owner = r => <>(docker[<<r, s>>].owner # r))
=============================================================================
