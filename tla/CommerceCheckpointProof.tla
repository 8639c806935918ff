----------------------- MODULE CommerceCheckpointProof -----------------------
(* Theorems about CommerceCheckpoint, for every value of its constants.    *)
EXTENDS CommerceCheckpoint, TLAPS

\* The memory of a process that has not started is well typed.
LEMMA FreshType == Fresh \in Memory /\ Fresh.pc = "off" /\ Blank \in [Batch -> Marker]
<1>1. (CHOOSE b \in Batch : TRUE) \in Batch
  BY BatchAssumption
<1>2. 1 \in 1..(N + 2)
  BY BoundAssumption
<1>3. QED
  BY <1>1, <1>2 DEF Fresh, Blank, Memory, PC, Marker

\* Leaving gives the process its first memory back and frees only its own locks.
LEMMA LeaveType ==
  ASSUME TypeOK, NEW p \in Proc, Leave(p)
  PROVE  /\ proc' \in [Proc -> Memory]
         /\ stateLock' \in Proc \cup {Nobody}
         /\ runnerLock' \in Runner \cup {Nobody}
  BY FreshType DEF TypeOK, Leave, FreeLocks

\* Moving on keeps the memory of a process well typed.
LEMMA GotoType ==
  ASSUME TypeOK, NEW p \in Proc, NEW label \in PC, Goto(p, label)
  PROVE  proc' \in [Proc -> Memory]
<1>1. [proc[p] EXCEPT !.pc = label] \in Memory
  BY ZenonT(30) DEF TypeOK, Memory
<1>2. proc' = [proc EXCEPT ![p] = [proc[p] EXCEPT !.pc = label]]
  BY DEF Goto
<1>3. QED
  BY <1>1, <1>2 DEF TypeOK

LEMMA DiscoverType ==
  ASSUME TypeOK, NEW p \in Proc, NEW label \in PC, Discover(p, label)
  PROVE  proc' \in [Proc -> Memory]
<1>1. [proc[p] EXCEPT !.pc = label, !.view = manifest] \in Memory
  BY ZenonT(30) DEF TypeOK, Memory
<1>2. proc' = [proc EXCEPT ![p] = [proc[p] EXCEPT !.pc = label, !.view = manifest]]
  BY DEF Discover, TypeOK
<1>3. QED
  BY <1>1, <1>2 DEF TypeOK

\* A view of discover is a map of markers.
LEMMA DiscoveredType ==
  ASSUME NEW p, NEW v \in Discovered(p)
  PROVE  v \in [Batch -> Marker]
  BY DEF Discovered

\* The initial state is well typed.
LEMMA InitType == Init => TypeOK
<1> SUFFICES ASSUME Init PROVE TypeOK
  OBVIOUS
<1> USE FreshType, BoundAssumption DEF Init, TypeOK
<1>1. output \in [2..(N + 1) -> SUBSET Selection]
  OBVIOUS
<1>2. jobs \subseteq Job /\ faults \in 0..MaxFaults
  OBVIOUS
<1>3. proc \in [Proc -> Memory]
  OBVIOUS
<1>4. QED
  BY <1>1, <1>2, <1>3

\* A container that is let through publishes the selection it was started for, be it
\* from the local copy or by batch id.
LEMMA PublishesSelected ==
  ASSUME TypeOK, NEW j \in jobs, Accepts(j)
  PROVE  Published(j) = j.sel
<1>1. j.sel \in Selection
  BY DEF TypeOK, Job
<1>2. QED
  BY <1>1 DEF Accepts, Published, Selection

\* Every action, and every crash in the middle of one, keeps the types.
LEMMA NextType == IInv /\ [Next]_vars => TypeOK'
<1> SUFFICES ASSUME IInv, TypeOK, [Next]_vars PROVE TypeOK'
  BY DEF IInv
<1> USE BoundAssumption, BatchAssumption, ProcAssumption
<1> USE DEF disk, locks, lake
<1>1. ASSUME NEW b \in Batch, Land(b) PROVE TypeOK'
  BY <1>1 DEF Land, TypeOK, Marker
<1>2. ASSUME NEW b \in Batch, Tamper(b) PROVE TypeOK'
  BY <1>2 DEF Tamper, TypeOK
<1>3. ASSUME NEW r \in Runner, StartRun(r) PROVE TypeOK'
  <2>1. proc' \in [Proc -> Memory]
    BY <1>3, DiscoverType DEF StartRun, PC, Proc
  <2>2. QED
    BY <1>3, <2>1 DEF StartRun, TypeOK
<1>4. ASSUME NEW r \in Runner, PlanRead(r) PROVE TypeOK'
  <2>1. PICK v \in Discovered(r) :
          \/ /\ proc' = [proc EXCEPT ![r].pc = "select", ![r].view = v, ![r].draft = processed]
             /\ UNCHANGED locks
          \/ Leave(r)
    BY <1>4 DEF PlanRead
  <2>2. CASE Leave(r)
    BY <1>4, <2>2, LeaveType DEF PlanRead, TypeOK, Proc
  <2>3. CASE /\ proc' = [proc EXCEPT ![r].pc = "select", ![r].view = v, ![r].draft = processed]
             /\ UNCHANGED locks
    <3>0. proc[r] \in Memory /\ v \in [Batch -> Marker] /\ processed \in [Batch -> Marker]
      BY DiscoveredType DEF TypeOK, Proc
    <3>1. [proc[r] EXCEPT !.pc = "select", !.view = v, !.draft = processed] \in Memory
      BY <3>0 DEF Memory, PC
    <3>2. proc' = [proc EXCEPT ![r] =
                    [proc[r] EXCEPT !.pc = "select", !.view = v, !.draft = processed]]
      BY <2>3 DEF TypeOK, Proc
    <3>3. QED
      BY ZenonT(30), <1>4, <2>3, <3>1, <3>2 DEF PlanRead, TypeOK
  <2>4. QED
    BY <2>1, <2>2, <2>3
<1>5. ASSUME NEW r \in Runner, PlanSelect(r) PROVE TypeOK'
  <2>1. CASE Leave(r)
    BY <1>5, <2>1, LeaveType DEF PlanSelect, TypeOK, Proc
  <2>2. CASE ~Leave(r)
    <3>1. PICK b \in Batch : proc' = [proc EXCEPT ![r] =
            [Fresh EXCEPT !.pc = "begin", !.sel = [batch |-> b, sha |-> proc[r].view[b]]]]
      BY <1>5, <2>2 DEF PlanSelect, Pending
    <3>2. proc[r].view[b] \in Marker
      BY DEF TypeOK, Memory, Proc
    <3>3. [Fresh EXCEPT !.pc = "begin", !.sel = [batch |-> b, sha |-> proc[r].view[b]]]
            \in Memory
      BY <3>2, FreshType DEF Memory, PC
    <3>4. QED
      BY <1>5, <2>2, <3>1, <3>3 DEF PlanSelect, TypeOK
  <2>3. QED
    BY <2>1, <2>2
<1>6. ASSUME NEW r \in Runner, BeginLock(r) PROVE TypeOK'
  <2>1. proc' \in [Proc -> Memory]
    BY <1>6, LeaveType, DiscoverType DEF BeginLock, PC, Proc
  <2>2. QED
    BY <1>6, <2>1, LeaveType DEF BeginLock, TypeOK, Proc
<1>7. ASSUME NEW r \in Runner, Reserve(r) PROVE TypeOK'
  <2>1. CASE Leave(r) /\ UNCHANGED intent
    BY <1>7, <2>1, LeaveType DEF Reserve, TypeOK, Proc
  <2>2. CASE ~(Leave(r) /\ UNCHANGED intent)
    <3>1. PICK v \in Discovered(r) :
            /\ Reservable(proc[r].sel, v)
            /\ intent' = IF Active(processed) THEN intent ELSE proc[r].sel
            /\ stateLock' = Nobody
            /\ Discover(r, "options")
            /\ UNCHANGED runnerLock
      BY <1>7, <2>2 DEF Reserve
    <3>2. proc[r].sel.batch \in Batch /\ proc[r].sel.sha \in Marker
      BY DEF TypeOK, Memory, Proc
    <3>3. proc[r].sel \in [batch : Batch, sha : Marker]
      BY DEF TypeOK, Memory, Proc
    <3>4. Active(processed) \/ v[proc[r].sel.batch] # NoDigest
      BY <3>1, <3>2 DEF Reservable, IsNext, IsFirst, Pending
    <3>5. intent' \in Selection \cup {NoIntent}
      BY <3>1, <3>2, <3>3, <3>4 DEF Reservable, Selection, Marker, TypeOK
    <3>6. proc' \in [Proc -> Memory]
      BY <3>1, DiscoverType DEF PC, Proc
    <3>7. QED
      BY <1>7, <3>1, <3>5, <3>6 DEF Reserve, TypeOK
  <2>3. QED
    BY <2>1, <2>2
<1>8. ASSUME NEW r \in Runner, Options(r) PROVE TypeOK'
  <2>1. CASE Leave(r)
    BY <1>8, <2>1, LeaveType DEF Options, TypeOK, Proc
  <2>2. CASE proc' = [proc EXCEPT ![r] = [Fresh EXCEPT !.pc = "launch",
                        !.sel = proc[r].sel, !.mode = HistoryMode(proc[r].sel.batch)]]
             /\ UNCHANGED locks
    <3>1. proc[r].sel \in [batch : Batch, sha : Marker]
      BY DEF TypeOK, Memory, Proc
    <3>2. HistoryMode(proc[r].sel.batch) \in {"legacy", "forward", "rebuild"}
      BY DEF HistoryMode
    <3>3. [Fresh EXCEPT !.pc = "launch", !.sel = proc[r].sel,
                        !.mode = HistoryMode(proc[r].sel.batch)] \in Memory
      BY <3>1, <3>2, FreshType DEF Memory, PC
    <3>4. QED
      BY <1>8, <2>2, <3>3 DEF Options, TypeOK
  <2>3. QED
    BY <1>8, <2>1, <2>2 DEF Options
<1>9. ASSUME NEW r \in Runner, Launch(r) PROVE TypeOK'
  <2>1. proc' \in [Proc -> Memory]
    BY <1>9, GotoType DEF Launch, PC, Proc
  <2>2. [owner |-> r, stage |-> proc[r].stage, sel |-> proc[r].sel] \in Job
    <3>1. RunnerKnows(r) /\ proc[r].pc = "launch"
      BY <1>9 DEF IInv, Launch
    <3>2. proc[r].sel \in Selection /\ proc[r].stage \in 1..(N + 1)
      BY <3>1 DEF RunnerKnows, Computing, LastStage
    <3>3. QED
      BY <3>2 DEF Job
  <2>3. QED
    BY <1>9, <2>1, <2>2 DEF Launch, TypeOK
<1>10. ASSUME NEW r \in Runner, Verify(r) PROVE TypeOK'
  <2>1. proc' \in [Proc -> Memory]
    BY <1>10, LeaveType, GotoType DEF Verify, PC, Proc
  <2>2. QED
    BY <1>10, <2>1, LeaveType DEF Verify, TypeOK, Proc
<1>11. ASSUME NEW r \in Runner, CommitLock(r) PROVE TypeOK'
  <2>1. proc' \in [Proc -> Memory]
    BY <1>11, LeaveType, DiscoverType DEF CommitLock, PC, Proc
  <2>2. QED
    BY <1>11, <2>1, LeaveType DEF CommitLock, TypeOK, Proc
<1>12. ASSUME NEW r \in Runner, StageRemoved(r) PROVE TypeOK'
  BY <1>12, LeaveType DEF StageRemoved, TypeOK, Proc
<1>13. ASSUME NEW o \in Operator, NEW b \in Batch, OperatorCommit(o, b) PROVE TypeOK'
  <2>1. [Fresh EXCEPT !.pc = "check", !.view = manifest,
                      !.sel = [batch |-> b, sha |-> NoDigest]] \in Memory
    BY FreshType DEF TypeOK, Memory, PC, Marker
  <2>2. QED
    BY <1>13, <2>1 DEF OperatorCommit, TypeOK, Proc
<1>14. ASSUME NEW p \in Proc, CommitCheck(p) PROVE TypeOK'
  <2>1. CASE Leave(p)
    BY <1>14, <2>1, LeaveType DEF CommitCheck, TypeOK
  <2>2. CASE ~Leave(p)
    <3>1. PICK v \in Discovered(p) : UNCHANGED locks /\ proc' = [proc EXCEPT ![p] =
            [Fresh EXCEPT !.pc = "replace",
                          !.draft = [processed EXCEPT ![proc[p].sel.batch] = v[proc[p].sel.batch]]]]
      BY <1>14, <2>2 DEF CommitCheck
    <3>2. [processed EXCEPT ![proc[p].sel.batch] = v[proc[p].sel.batch]] \in [Batch -> Marker]
      <4>1. v \in [Batch -> Marker] /\ processed \in [Batch -> Marker]
        BY DiscoveredType DEF TypeOK
      <4>2. proc[p].sel.batch \in Batch
        BY DEF TypeOK, Memory
      <4>3. QED
        BY <4>1, <4>2
    <3>3. [Fresh EXCEPT !.pc = "replace",
             !.draft = [processed EXCEPT ![proc[p].sel.batch] = v[proc[p].sel.batch]]] \in Memory
      BY <3>2, FreshType DEF Memory, PC
    <3>4. QED
      BY <1>14, <3>1, <3>3 DEF CommitCheck, TypeOK
  <2>3. QED
    BY <2>1, <2>2
<1>15. ASSUME NEW p \in Proc, CommitReplace(p) PROVE TypeOK'
  <2>1. proc' \in [Proc -> Memory]
    BY <1>15, LeaveType, GotoType DEF CommitReplace, PC
  <2>2. proc[p].draft \in [Batch -> Marker]
    BY DEF TypeOK, Memory
  <2>3. QED
    BY <1>15, <2>1, <2>2, LeaveType DEF CommitReplace, TypeOK
<1>16. ASSUME NEW p \in Proc, CommitUnlink(p) PROVE TypeOK'
  BY <1>16, LeaveType DEF CommitUnlink, TypeOK
<1>17. ASSUME NEW p \in Proc, Die(p) PROVE TypeOK'
  <2>1. jobs' \subseteq Job
    <3>1. ASSUME NEW j \in jobs
          PROVE  [j EXCEPT !.owner = IF @ = p THEN Nobody ELSE @] \in Job
      <4>1. j \in Job
        BY DEF TypeOK
      <4>2. QED
        BY <4>1 DEF Job
    <3>2. QED
      BY <1>17, <3>1 DEF Die
  <2>2. QED
    BY <1>17, <2>1, LeaveType DEF Die, TypeOK
<1>18. ASSUME NEW j \in jobs, JobDone(j) PROVE TypeOK'
  <2>1. j \in Job
    BY DEF TypeOK
  <2>2. synced' \in [Batch -> Marker] /\ output' \in [2..(N + 1) -> SUBSET Selection]
    <3>1. j.stage \in 1..(N + 1) /\ j.sel \in Selection /\ j.sel.batch \in Batch
      BY <2>1 DEF Job, Selection
    <3>2. CASE j.stage = 1
      BY <1>18, <3>1, <3>2 DEF JobDone, TypeOK
    <3>3. CASE j.stage # 1
      <4>1. j.stage \in 2..(N + 1)
        BY <3>1, <3>3
      <4>2. output' = [output EXCEPT ![j.stage] = @ \cup {j.sel}] /\ synced' = synced
        BY <1>18, <3>3, PublishesSelected DEF JobDone
      <4>3. QED
        BY <3>1, <4>1, <4>2 DEF TypeOK
    <3>4. QED
      BY <3>2, <3>3
  <2>3. proc' \in [Proc -> Memory]
    <3>1. CASE j.owner = Nobody
      BY <1>18, <3>1 DEF JobDone, TypeOK
    <3>2. CASE j.owner # Nobody
      <4> DEFINE label == IF j.stage = LastStage(j.owner) THEN "verify" ELSE "launch"
      <4>1. j.owner \in Proc /\ j.stage + 1 \in 1..(N + 2) /\ label \in PC
        BY <2>1, <3>2 DEF Job, Proc, PC
      <4>2. proc[j.owner] \in Memory
        BY <4>1 DEF TypeOK
      <4>3. [proc[j.owner] EXCEPT !.stage = j.stage + 1, !.pc = label] \in Memory
        BY <4>1, <4>2 DEF Memory
      <4>4. proc' = [proc EXCEPT ![j.owner] =
                      [proc[j.owner] EXCEPT !.stage = j.stage + 1, !.pc = label]]
        BY <1>18, <3>2, <4>1 DEF JobDone, TypeOK
      <4>5. QED
        BY <4>1, <4>3, <4>4 DEF TypeOK
    <3>3. QED
      BY <3>1, <3>2
  <2>4. QED
    BY <1>18, <2>2, <2>3 DEF JobDone, TypeOK
<1>19. ASSUME NEW j \in jobs, JobFails(j) PROVE TypeOK'
  <2>1. j.owner # Nobody => j.owner \in Proc
    BY DEF TypeOK, Job, Proc
  <2>2. QED
    BY <1>19, <2>1, LeaveType DEF JobFails, TypeOK
<1>20. CASE UNCHANGED vars
  BY <1>20 DEF vars, TypeOK
<1>21. QED
  BY <1>1, <1>2, <1>3, <1>4, <1>5, <1>6, <1>7, <1>8, <1>9, <1>10, <1>11, <1>12, <1>13,
     <1>14, <1>15, <1>16, <1>17, <1>18, <1>19, <1>20
     DEF Next, RunnerStep, CommitStep, JobStep

-----------------------------------------------------------------------------
(* What one step may do to the files, the tables and the other processes.  *)

\* A selection is its batch and its digest.
LEMMA SameSelection ==
  ASSUME NEW s \in Selection, NEW t \in Selection, s.batch = t.batch, s.sha = t.sha
  PROVE  s = t
  BY DEF Selection

\* begin() leaves the files alone or makes its selection the active reservation; a
\* reservation that was active already is the same one.
LEMMA ReserveEffect ==
  ASSUME IInv, NEW r \in Runner, Reserve(r)
  PROVE  \/ Leave(r) /\ intent' = intent
         \/ /\ proc' = [proc EXCEPT ![r].pc = "options", ![r].view = manifest]
            /\ intent' = proc[r].sel
            /\ Active(processed)'
            /\ Active(processed) => intent' = intent
<1>1. CASE Leave(r) /\ intent' = intent
  BY <1>1
<1>2. CASE ~(Leave(r) /\ intent' = intent)
  <2>1. PICK v \in Discovered(r) :
          /\ Reservable(proc[r].sel, v)
          /\ intent' = IF Active(processed) THEN intent ELSE proc[r].sel
          /\ Discover(r, "options")
    BY <1>2 DEF Reserve
  <2>2. processed' = processed /\ proc[r].sel \in Selection
    BY DEF Reserve, IInv, RunnerKnows
  <2>3. processed[proc[r].sel.batch] = NoDigest /\ proc[r].sel # NoIntent
    BY <2>1, <2>2, MarkerAssumption DEF Reservable
  <2>4. Active(processed) => intent = proc[r].sel
    <3> SUFFICES ASSUME Active(processed) PROVE intent = proc[r].sel
      OBVIOUS
    <3>1. intent \in Selection
      BY DEF Active, IInv, TypeOK
    <3>2. intent.batch = proc[r].sel.batch
      BY <2>1 DEF Reservable, IsNext
    <3>3. intent.sha = proc[r].sel.sha
      BY <2>1, <3>2 DEF Reservable, IntentVerified, Active
    <3>4. QED
      BY <2>2, <3>1, <3>2, <3>3, SameSelection
  <2>5. intent' = proc[r].sel
    BY <2>1, <2>4
  <2>6. Active(processed)'
    BY <2>2, <2>3, <2>5 DEF Active
  <2>7. QED
    BY <2>1, <2>4, <2>5, <2>6 DEF Discover
<1>3. QED
  BY <1>1, <1>2

\* Replacing the checkpoint adds the reserved batch and nothing else.
LEMMA ReplaceEffect ==
  ASSUME IInv, NEW p \in Proc, CommitReplace(p)
  PROVE  /\ intent \in Selection
         /\ Active(processed)
         /\ processed' = [processed EXCEPT ![intent.batch] = intent.sha]
         /\ intent' = intent
         /\ ~Active(processed)'
         /\ PublishedThrough(intent, N)
<1>1. CommitterKnows(p) /\ proc[p].pc = "replace"
  BY DEF IInv, CommitReplace
<1>2. /\ Active(processed)
      /\ processed' = [processed EXCEPT ![intent.batch] = intent.sha]
      /\ PublishedThrough(intent, N)
      /\ intent' = intent
  BY <1>1 DEF CommitterKnows, CommitReplace
<1>3. intent \in Selection
  BY <1>2 DEF Active, IInv, TypeOK
<1>4. processed'[intent.batch] # NoDigest
  BY <1>2, <1>3, MarkerAssumption DEF IInv, TypeOK, Selection
<1>5. QED
  BY <1>2, <1>3, <1>4 DEF Active

\* The reservation that is unlinked is one whose batch is recorded.
LEMMA UnlinkEffect ==
  ASSUME IInv, NEW p \in Proc, CommitUnlink(p)
  PROVE  ~Active(processed) /\ intent' = NoIntent /\ processed' = processed
  BY DEF IInv, CommitUnlink, CommitterKnows

\* Every other step leaves the checkpoint and the reservation alone.
LEMMA FilesEffect ==
  ASSUME IInv, [Next]_vars
  PROVE  \/ processed' = processed /\ intent' = intent
         \/ \E r \in Runner : Reserve(r)
         \/ \E p \in Proc : CommitReplace(p) \/ CommitUnlink(p)
  BY DEF Next, RunnerStep, CommitStep, JobStep, vars, disk,
         Land, Tamper, StartRun, PlanRead, PlanSelect, BeginLock, Options, Launch, Verify,
         CommitLock, StageRemoved, OperatorCommit, CommitCheck, Die, JobDone, JobFails

\* Tables only gain rows.
LEMMA OutputGrows ==
  ASSUME IInv, [Next]_vars, NEW k \in 2..(N + 1)
  PROVE  output[k] \subseteq output'[k]
<1>1. CASE \E j \in jobs : JobDone(j)
  <2>1. PICK j \in jobs : JobDone(j)
    BY <1>1
  <2>2. \/ output' = output
        \/ output' = [output EXCEPT ![j.stage] = @ \cup {Published(j)}]
    BY <2>1 DEF JobDone
  <2>3. QED
    BY <2>2 DEF IInv, TypeOK
<1>2. CASE ~(\E j \in jobs : JobDone(j))
  <2>1. output' = output
    BY <1>2 DEF Next, RunnerStep, CommitStep, JobStep, vars, lake,
         Land, Tamper, StartRun, PlanRead, PlanSelect, BeginLock, Reserve, Options, Launch,
         Verify, CommitLock, StageRemoved, OperatorCommit, CommitCheck, CommitReplace,
         CommitUnlink, Die, JobFails
  <2>2. QED
    BY <2>1
<1>3. QED
  BY <1>1, <1>2

\* What is published through a stage stays so.
LEMMA PublishedKept ==
  ASSUME IInv, [Next]_vars, NEW s, NEW k \in 0..(N + 1), PublishedThrough(s, k)
  PROVE  PublishedThrough(s, k)'
<1>1. ASSUME NEW i \in 2..k PROVE s \in output'[i]
  BY <1>1, OutputGrows, BoundAssumption DEF PublishedThrough
<1>2. QED
  BY <1>1 DEF PublishedThrough

\* Who owns work keeps it: until its batch is recorded no other takes its place.
LEMMA OwnedKept ==
  ASSUME IInv, [Next]_vars, NEW s \in Selection, Owned(s)
  PROVE  Owned(s)'
<1>1. CASE processed' = processed /\ intent' = intent
  BY <1>1 DEF Owned, Active
<1>2. ASSUME NEW r \in Runner, Reserve(r) PROVE Owned(s)'
  <2>1. processed' = processed
    BY <1>2 DEF Reserve
  <2>2. CASE Leave(r) /\ intent' = intent
    BY <2>1, <2>2 DEF Owned, Active
  <2>3. CASE ~(Leave(r) /\ intent' = intent)
    BY <1>2, <2>1, <2>3, ReserveEffect DEF Owned
  <2>4. QED
    BY <2>2, <2>3
<1>3. ASSUME NEW p \in Proc, CommitReplace(p) PROVE Owned(s)'
  <2>1. CASE intent = s
    BY <1>3, <2>1, ReplaceEffect DEF Owned, IInv, TypeOK, Selection
  <2>2. CASE intent # s
    <3>1. processed[s.batch] = s.sha /\ s.sha # NoDigest
      BY <2>2, MarkerAssumption DEF Owned, Selection
    <3>2. intent.batch # s.batch
      BY <1>3, <3>1, ReplaceEffect DEF Active
    <3>3. QED
      BY <1>3, <3>1, <3>2, ReplaceEffect DEF Owned, IInv, TypeOK, Selection
  <2>3. QED
    BY <2>1, <2>2
<1>4. ASSUME NEW p \in Proc, CommitUnlink(p) PROVE Owned(s)'
  BY <1>4, UnlinkEffect DEF Owned
<1>5. QED
  BY <1>1, <1>2, <1>3, <1>4, FilesEffect

-----------------------------------------------------------------------------
(* Init and the conjuncts of the invariant, one at a time.                 *)

LEMMA InitInv == Init => IInv
<1> SUFFICES ASSUME Init PROVE IInv
  OBVIOUS
<1>1. TypeOK
  BY InitType
<1>2. \A p \in Proc : proc[p].pc = "off"
  BY FreshType DEF Init
<1>3. LockHeld
  BY <1>2 DEF LockHeld
<1>4. OutputKnown /\ \A j \in jobs : JobKnown(j)
  BY DEF Init, OutputKnown
<1>5. \A r \in Runner : RunnerKnows(r)
  BY <1>2 DEF RunnerKnows, Computing, Proc
<1>6. \A p \in Proc : CommitterKnows(p)
  BY <1>2 DEF CommitterKnows
<1>7. ProcessedIsPublished
  BY DEF Init, Blank, ProcessedIsPublished, Done
<1>8. QED
  BY <1>1, <1>3, <1>4, <1>5, <1>6, <1>7 DEF IInv

Locked == {"reserve", "check", "replace", "unlink"}

\* A step label of a runner, with what it keeps of the memory of the step before.
Moves(r, from, to) ==
  /\ proc[r].pc = from
  /\ proc'[r].pc = to
  /\ proc'[r].sel = proc[r].sel

\* A step of a runner touches its own memory alone, and leaves or moves on.
LEMMA RunnerMoves ==
  ASSUME IInv, NEW r \in Runner, RunnerStep(r)
  PROVE  /\ proc' = [proc EXCEPT ![r] = proc'[r]]
         /\ output' = output
         /\ proc[r].pc \notin {"wait", "check", "replace", "unlink"}
         /\ \/ Leave(r)
            \/ proc'[r].pc \in {"plan", "select"} /\ stateLock' = stateLock
            \/ proc'[r].pc = "begin" /\ proc'[r].sel \in Selection /\ stateLock' = stateLock
            \/ Moves(r, "begin", "reserve") /\ stateLock = Nobody /\ stateLock' = r
            \/ Moves(r, "reserve", "options") /\ Reserve(r) /\ stateLock' = Nobody
            \/ Moves(r, "options", "launch") /\ proc'[r].stage = 1 /\ stateLock' = stateLock
            \/ /\ Moves(r, "launch", "wait") /\ stateLock' = stateLock
               /\ proc'[r].stage = proc[r].stage /\ proc'[r].mode = proc[r].mode
            \/ Moves(r, "verify", "commit") /\ stateLock' = stateLock
            \/ Moves(r, "commit", "check") /\ stateLock = Nobody /\ stateLock' = r
<1> USE DEF locks, lake
<1>0. r \in Proc /\ proc \in [Proc -> Memory] /\ proc[r] \in Memory
  BY DEF IInv, TypeOK, Proc
<1>1. proc' = [proc EXCEPT ![r] = proc'[r]] /\ output' = output
  BY <1>0 DEF RunnerStep, Leave, Goto, Discover,
     StartRun, PlanRead, PlanSelect, BeginLock, Reserve, Options, Launch, Verify, CommitLock
<1>2. proc[r].pc \notin {"wait", "check", "replace", "unlink"}
  BY DEF RunnerStep,
     StartRun, PlanRead, PlanSelect, BeginLock, Reserve, Options, Launch, Verify, CommitLock
<1>3. ASSUME NEW label, Discover(r, label)
      PROVE  proc'[r].pc = label /\ proc'[r].sel = proc[r].sel
  BY <1>0, <1>3 DEF Discover, Memory
<1>4. ASSUME NEW label, Goto(r, label)
      PROVE  /\ proc'[r].pc = label /\ proc'[r].sel = proc[r].sel
             /\ proc'[r].stage = proc[r].stage /\ proc'[r].mode = proc[r].mode
  BY <1>0, <1>4 DEF Goto, Memory
<1>5. CASE StartRun(r)
  BY <1>1, <1>2, <1>3, <1>5 DEF StartRun
<1>6. CASE PlanRead(r)
  <2>1. Leave(r) \/ (proc'[r].pc = "select" /\ stateLock' = stateLock)
    BY <1>0, <1>6 DEF PlanRead, Memory
  <2>2. QED
    BY <1>1, <1>2, <2>1
<1>7. CASE PlanSelect(r)
  <2>1. CASE ~Leave(r)
    <3>1. PICK b \in Batch : /\ proc[r].view[b] # NoDigest
                            /\ proc' = [proc EXCEPT ![r] =
            [Fresh EXCEPT !.pc = "begin", !.sel = [batch |-> b, sha |-> proc[r].view[b]]]]
      BY <1>7, <2>1 DEF PlanSelect, Pending
    <3>2. [batch |-> b, sha |-> proc[r].view[b]] \in Selection
      BY <1>0, <3>1 DEF Selection, Memory, Marker
    <3>3. proc'[r].pc = "begin" /\ proc'[r].sel = [batch |-> b, sha |-> proc[r].view[b]]
      BY <1>0, <3>1 DEF Fresh
    <3>4. QED
      BY <1>1, <1>2, <1>7, <2>1, <3>2, <3>3 DEF PlanSelect
  <2>2. QED
    BY <1>1, <1>2, <2>1
<1>8. CASE BeginLock(r)
  BY <1>1, <1>2, <1>3, <1>8 DEF BeginLock, Moves
<1>9. CASE Reserve(r)
  BY <1>1, <1>2, <1>3, <1>9 DEF Reserve, Moves
<1>10. CASE Options(r)
  <2>1. CASE ~Leave(r)
    <3>1. proc' = [proc EXCEPT ![r] = [Fresh EXCEPT !.pc = "launch",
                        !.sel = proc[r].sel, !.mode = HistoryMode(proc[r].sel.batch)]]
          /\ stateLock' = stateLock
      BY <1>10, <2>1 DEF Options
    <3>2. proc'[r].pc = "launch" /\ proc'[r].sel = proc[r].sel /\ proc'[r].stage = 1
      BY <1>0, <3>1 DEF Fresh
    <3>3. QED
      BY <1>1, <1>2, <1>10, <3>1, <3>2 DEF Options, Moves
  <2>2. QED
    BY <1>1, <1>2, <2>1
<1>11. CASE Launch(r)
  BY <1>1, <1>2, <1>4, <1>11 DEF Launch, Moves
<1>12. CASE Verify(r)
  BY <1>1, <1>2, <1>4, <1>12 DEF Verify, Moves
<1>13. CASE CommitLock(r)
  BY <1>1, <1>2, <1>3, <1>13 DEF CommitLock, Moves
<1>14. QED
  BY <1>5, <1>6, <1>7, <1>8, <1>9, <1>10, <1>11, <1>12, <1>13 DEF RunnerStep

\* A process that leaves frees no lock but its own.
LEMMA LeaveKeepsLock ==
  ASSUME IInv, NEW p \in Proc, Leave(p)
  PROVE  LockHeld'
  BY FreshType DEF IInv, TypeOK, LockHeld, Leave, FreeLocks

\* Only the holder of the state lock stands between reading and writing the files.
LEMMA LockHeldNext == IInv /\ [Next]_vars => LockHeld'
<1> SUFFICES ASSUME IInv, [Next]_vars PROVE LockHeld'
  OBVIOUS
<1> USE DEF locks
<1>1. CASE proc' = proc /\ stateLock' = stateLock
  BY <1>1 DEF IInv, LockHeld
<1>2. CASE \E p \in Proc : Leave(p)
  BY <1>2, LeaveKeepsLock
<1>3. ASSUME NEW p \in Proc, proc' = [proc EXCEPT ![p] = proc'[p]],
             \/ proc'[p].pc \notin Locked /\ stateLock' = stateLock
             \/ stateLock = Nobody /\ stateLock' = p
             \/ stateLock = p /\ stateLock' = p
             \/ stateLock = p /\ proc'[p].pc \notin Locked
      PROVE  LockHeld'
  BY <1>3, ProcAssumption DEF IInv, TypeOK, LockHeld, Locked
<1>5. ASSUME NEW r \in Runner, RunnerStep(r) PROVE LockHeld'
  <2>1. proc[r].pc = "reserve" => stateLock = r
    BY DEF IInv, LockHeld, Proc
  <2>2. QED
    BY <1>2, <1>3, <1>5, <2>1, RunnerMoves DEF Proc, Locked, Moves
<1>6. ASSUME NEW o \in Operator, NEW b \in Batch, OperatorCommit(o, b) PROVE LockHeld'
  BY <1>3, <1>6 DEF OperatorCommit, Proc, IInv, TypeOK
<1>7. ASSUME NEW p \in Proc, CommitStep(p) PROVE LockHeld'
  <2>1. CASE Leave(p)
    BY <1>2, <2>1
  <2>2. CASE ~Leave(p)
    <3>1. stateLock = p /\ stateLock' = stateLock
      BY <1>7, <2>2
         DEF CommitStep, CommitCheck, CommitReplace, CommitUnlink, IInv, LockHeld
    <3>2. proc' = [proc EXCEPT ![p] = proc'[p]]
      BY <1>7, <2>2
         DEF CommitStep, CommitCheck, CommitReplace, CommitUnlink, Goto, IInv, TypeOK
    <3>3. QED
      BY <1>3, <3>1, <3>2
  <2>3. QED
    BY <2>1, <2>2
<1>8. ASSUME NEW j \in jobs, JobDone(j) PROVE LockHeld'
  <2>1. CASE j.owner = Nobody
    BY <1>1, <1>8, <2>1 DEF JobDone
  <2>2. CASE j.owner # Nobody
    <3>1. j.owner \in Proc /\ stateLock' = stateLock
      BY <1>8, <2>2 DEF IInv, TypeOK, Job, Proc, JobDone
    <3>2. proc' = [proc EXCEPT ![j.owner] = proc'[j.owner]]
          /\ proc'[j.owner].pc \in {"verify", "launch"}
      BY ZenonT(30), <1>8, <2>2, <3>1 DEF JobDone, IInv, TypeOK, Memory
    <3>3. QED
      BY <1>3, <3>1, <3>2 DEF Locked
  <2>3. QED
    BY <2>1, <2>2
<1>9. ASSUME NEW j \in jobs, JobFails(j) PROVE LockHeld'
  BY <1>1, <1>2, <1>9 DEF JobFails, IInv, TypeOK, Job, Proc
<1>10. QED
  BY <1>1, <1>2, <1>5, <1>6, <1>7, <1>8, <1>9
     DEF Next, JobStep, Land, Tamper, StageRemoved, Die, vars, Proc

\* The three steps of a commit run under the state lock and move one process.
LEMMA CommitMoves ==
  ASSUME IInv, NEW p \in Proc, CommitStep(p)
  PROVE  /\ proc' = [proc EXCEPT ![p] = proc'[p]]
         /\ output' = output /\ jobs' = jobs
         /\ proc[p].pc # "wait" /\ stateLock = p
         /\ \/ Leave(p)
            \/ CommitCheck(p) /\ proc'[p].pc = "replace"
            \/ CommitReplace(p) /\ proc'[p].pc = "unlink"
<1>0. proc \in [Proc -> Memory] /\ proc[p] \in Memory
  BY DEF IInv, TypeOK
<1>1. output' = output /\ jobs' = jobs /\ proc[p].pc # "wait" /\ stateLock = p
  BY DEF CommitStep, CommitCheck, CommitReplace, CommitUnlink, lake, IInv, LockHeld
<1>2. proc' = [proc EXCEPT ![p] = proc'[p]]
  BY <1>0 DEF CommitStep, CommitCheck, CommitReplace, CommitUnlink, Goto, Leave
<1>3. \/ Leave(p)
      \/ CommitCheck(p) /\ proc'[p].pc = "replace"
      \/ CommitReplace(p) /\ proc'[p].pc = "unlink"
  <2>1. CASE CommitCheck(p)
    BY <1>0, <2>1 DEF CommitCheck, Fresh
  <2>2. CASE CommitReplace(p)
    BY <1>0, <2>2 DEF CommitReplace, Goto, Memory
  <2>3. CASE CommitUnlink(p)
    BY <2>3 DEF CommitUnlink
  <2>4. QED
    BY <2>1, <2>2, <2>3 DEF CommitStep
<1>4. QED
  BY <1>1, <1>2, <1>3

\* A container that ends well moves nobody but the runner that waits for it.
LEMMA JobMoves ==
  ASSUME IInv, NEW j \in jobs, JobDone(j)
  PROVE  /\ j \in Job
         /\ jobs' = jobs \ {j}
         /\ j.owner = Nobody => proc' = proc
         /\ j.owner # Nobody =>
              /\ j.owner \in Runner
              /\ proc' = [proc EXCEPT ![j.owner] = proc'[j.owner]]
              /\ proc'[j.owner].sel = j.sel
              /\ proc'[j.owner].stage = j.stage + 1
              /\ proc'[j.owner].mode = proc[j.owner].mode
              /\ \/ proc'[j.owner].pc = "verify" /\ j.stage = LastStage(j.owner)
                 \/ proc'[j.owner].pc = "launch" /\ j.stage # LastStage(j.owner)
<1>1. j \in Job /\ JobKnown(j)
  BY DEF IInv, TypeOK
<1>2. CASE j.owner = Nobody
  BY <1>1, <1>2 DEF JobDone
<1>3. CASE j.owner # Nobody
  <2>1. j.owner \in Runner /\ proc \in [Proc -> Memory] /\ proc[j.owner] \in Memory
    BY <1>1, <1>3 DEF Job, IInv, TypeOK, Proc
  <2>2. proc[j.owner].sel = j.sel
    BY <1>1, <1>3 DEF JobKnown
  <2>3. j.owner \in Proc
    BY <2>1 DEF Proc
  <2>4. proc' = [proc EXCEPT ![j.owner] = [proc[j.owner] EXCEPT !.stage = j.stage + 1,
                  !.pc = IF j.stage = LastStage(j.owner) THEN "verify" ELSE "launch"]]
    BY <1>3, <2>1, <2>3 DEF JobDone
  <2>5. proc' = [proc EXCEPT ![j.owner] = proc'[j.owner]] /\ jobs' = jobs \ {j}
    BY <2>1, <2>3, <2>4 DEF JobDone
  <2>6. proc'[j.owner] = [proc[j.owner] EXCEPT !.stage = j.stage + 1,
           !.pc = IF j.stage = LastStage(j.owner) THEN "verify" ELSE "launch"]
    BY <2>1, <2>3, <2>4
  <2>7. /\ proc'[j.owner].sel = proc[j.owner].sel
        /\ proc'[j.owner].stage = j.stage + 1
        /\ proc'[j.owner].mode = proc[j.owner].mode
        /\ proc'[j.owner].pc = IF j.stage = LastStage(j.owner) THEN "verify" ELSE "launch"
    BY <2>1, <2>6 DEF Memory
  <2>8. QED
    BY <1>1, <1>3, <2>1, <2>2, <2>5, <2>7
<1>4. QED
  BY <1>2, <1>3

\* When a container publishes, its selection has its stage and all before it.
LEMMA JobPublishes ==
  ASSUME IInv, [Next]_vars, NEW j \in jobs, JobDone(j)
  PROVE  PublishedThrough(j.sel, j.stage)'
<1>1. j \in Job /\ JobKnown(j)
  BY DEF IInv, TypeOK
<1>2. j.stage \in 1..(N + 1) /\ j.stage - 1 \in 0..(N + 1)
  BY <1>1, BoundAssumption DEF Job
<1>3. PublishedThrough(j.sel, j.stage - 1)'
  BY <1>1, <1>2, PublishedKept DEF JobKnown
<1>4. j.stage # 1 => j.sel \in output'[j.stage]
  BY <1>2, BoundAssumption, PublishesSelected DEF JobDone, IInv, TypeOK
<1>5. ASSUME NEW i \in 2..j.stage PROVE j.sel \in output'[i]
  BY <1>2, <1>3, <1>4, <1>5, BoundAssumption DEF PublishedThrough
<1>6. QED
  BY <1>5 DEF PublishedThrough

\* Published stages stay complete and owned.
LEMMA OutputKnownNext == IInv /\ [Next]_vars => OutputKnown'
<1> SUFFICES ASSUME IInv, [Next]_vars, NEW k \in 2..(N + 1), NEW s \in output'[k]
             PROVE  Owned(s)' /\ PublishedThrough(s, k)'
  BY DEF OutputKnown
<1>1. CASE s \in output[k]
  <2>1. Owned(s) /\ PublishedThrough(s, k) /\ s \in Selection
    BY <1>1 DEF IInv, OutputKnown, TypeOK
  <2>2. QED
    BY <2>1, OwnedKept, PublishedKept, BoundAssumption
<1>2. CASE s \notin output[k]
  <2>1. output' # output
    BY <1>2
  <2>2. PICK j \in jobs : JobDone(j)
    BY <2>1 DEF Next, RunnerStep, CommitStep, JobStep, vars, lake,
         Land, Tamper, StartRun, PlanRead, PlanSelect, BeginLock, Reserve, Options, Launch,
         Verify, CommitLock, StageRemoved, OperatorCommit, CommitCheck, CommitReplace,
         CommitUnlink, Die, JobFails
  <2>3. s = j.sel /\ k = j.stage
    <3>1. output' = [output EXCEPT ![j.stage] = @ \cup {j.sel}]
      BY <2>1, <2>2, PublishesSelected DEF JobDone, IInv
    <3>2. output \in [2..(N + 1) -> SUBSET Selection]
      BY DEF IInv, TypeOK
    <3>3. k = j.stage
      BY <1>2, <3>1, <3>2
    <3>4. output'[k] = output[k] \cup {j.sel}
      BY <3>1, <3>2, <3>3
    <3>5. QED
      BY <1>2, <3>3, <3>4
  <2>4. Owned(s)'
    BY <2>3, OwnedKept DEF IInv, JobKnown, TypeOK, Job
  <2>5. QED
    BY <2>2, <2>3, <2>4, JobPublishes
<1>3. QED
  BY <1>1, <1>2

\* A container keeps what is known of it while its runner, if it lives, waits on.
LEMMA JobKept ==
  ASSUME IInv, [Next]_vars, NEW j \in jobs,
         j.owner # Nobody => proc'[j.owner] = proc[j.owner]
  PROVE  JobKnown(j)'
<1>1. j \in Job /\ JobKnown(j)
  BY DEF IInv, TypeOK
<1>2. Owned(j.sel)'
  BY <1>1, OwnedKept DEF JobKnown, Job
<1>3. j.stage - 1 \in 0..(N + 1)
  BY <1>1, BoundAssumption DEF Job
<1>4. PublishedThrough(j.sel, j.stage - 1)'
  BY <1>1, <1>3, PublishedKept DEF JobKnown
<1>5. QED
  BY <1>1, <1>2, <1>4 DEF JobKnown

\* A live runner waits for one container.
LEMMA OneJobPerRunner ==
  ASSUME IInv, NEW i \in jobs, NEW j \in jobs, i.owner = j.owner, i.owner # Nobody
  PROVE  i = j
<1>1. i \in Job /\ j \in Job /\ JobKnown(i) /\ JobKnown(j)
  BY DEF IInv, TypeOK
<1>2. i.stage = j.stage /\ i.sel = j.sel
  BY <1>1 DEF JobKnown
<1>3. QED
  BY <1>1, <1>2 DEF Job

\* Everything that runs is owned, and its runner, if it lives, waits for it.
LEMMA JobKnownNext == IInv /\ [Next]_vars => (\A j \in jobs : JobKnown(j))'
<1> SUFFICES ASSUME IInv, [Next]_vars, NEW j \in jobs' PROVE JobKnown(j)'
  OBVIOUS
<1> USE DEF lake
<1>0. \A i \in jobs : JobKnown(i) /\ i \in Job
  BY DEF IInv, TypeOK
<1>1. CASE proc' = proc /\ jobs' \subseteq jobs
  BY <1>1, JobKept
<1>2. ASSUME NEW p \in Proc, proc' = [proc EXCEPT ![p] = proc'[p]], jobs' \subseteq jobs,
             \A i \in jobs' : i.owner # p
      PROVE  JobKnown(j)'
  <2>1. j \in jobs /\ (j.owner # Nobody => j.owner \in Proc /\ j.owner # p)
    BY <1>0, <1>2 DEF Job, Proc
  <2>2. QED
    BY <1>2, <2>1, JobKept DEF IInv, TypeOK
<1>3. ASSUME NEW p \in Proc, proc[p].pc # "wait" PROVE \A i \in jobs : i.owner # p
  BY <1>0, <1>3, ProcAssumption DEF JobKnown
<1>4. ASSUME NEW r \in Runner, RunnerStep(r) PROVE JobKnown(j)'
  <2>0. proc' = [proc EXCEPT ![r] = proc'[r]] /\ proc[r].pc # "wait" /\ r \in Proc
    BY <1>4, RunnerMoves DEF Proc
  <2>1. CASE Launch(r)
    <3>1. CASE j \in jobs
      <4>1. j.owner # r
        BY <1>3, <2>0, <3>1
      <4>2. j.owner # Nobody => j.owner \in Proc
        BY <1>0, <3>1 DEF Job, Proc
      <4>3. QED
        BY <2>0, <3>1, <4>1, <4>2, JobKept DEF IInv, TypeOK
    <3>2. CASE j \notin jobs
      <4>1. j = [owner |-> r, stage |-> proc[r].stage, sel |-> proc[r].sel]
        BY <2>1, <3>2 DEF Launch
      <4>2. proc[r].pc = "launch" /\ proc'[r] = [proc[r] EXCEPT !.pc = "wait"]
        BY <2>0, <2>1 DEF Launch, Goto, IInv, TypeOK
      <4>3. /\ proc'[r].pc = "wait"
            /\ proc'[r].stage = proc[r].stage
            /\ proc'[r].sel = proc[r].sel
        BY <2>0, <4>2 DEF IInv, TypeOK, Memory
      <4>4. /\ proc[r].sel \in Selection /\ Owned(proc[r].sel)
            /\ proc[r].stage - 1 \in 0..(N + 1)
            /\ PublishedThrough(proc[r].sel, proc[r].stage - 1)
        BY <4>2, BoundAssumption DEF IInv, RunnerKnows, Computing, LastStage
      <4>5. processed' = processed /\ intent' = intent /\ output' = output
        BY <2>1 DEF Launch, disk
      <4>6. QED
        BY <4>1, <4>3, <4>4, <4>5 DEF JobKnown, Owned, Active, PublishedThrough
    <3>3. QED
      BY <3>1, <3>2
  <2>2. CASE ~Launch(r)
    <3>1. jobs' = jobs
      BY <1>4, <2>2 DEF RunnerStep, StartRun, PlanRead, PlanSelect, BeginLock, Reserve,
                        Options, Verify, CommitLock
    <3>2. QED
      BY <1>2, <1>3, <2>0, <3>1
  <2>3. QED
    BY <2>1, <2>2
<1>5. ASSUME NEW o \in Operator, NEW b \in Batch, OperatorCommit(o, b) PROVE JobKnown(j)'
  <2>1. o \in Proc /\ proc[o].pc # "wait" /\ jobs' = jobs
    BY <1>5 DEF OperatorCommit, Proc
  <2>2. proc' = [proc EXCEPT ![o] = proc'[o]]
    BY <1>5, <2>1 DEF OperatorCommit, IInv, TypeOK
  <2>3. QED
    BY <1>2, <1>3, <2>1, <2>2
<1>6. ASSUME NEW p \in Proc, CommitStep(p) PROVE JobKnown(j)'
  BY <1>2, <1>3, <1>6, CommitMoves
<1>7. ASSUME NEW p \in Proc, Die(p) PROVE JobKnown(j)'
  <2>1. PICK i \in jobs : j = [i EXCEPT !.owner = IF @ = p THEN Nobody ELSE @]
    BY <1>7 DEF Die
  <2>2. i \in Job /\ JobKnown(i)
    BY <1>0
  <2>3. /\ j.stage = i.stage /\ j.sel = i.sel
        /\ j.owner = IF i.owner = p THEN Nobody ELSE i.owner
    BY <2>1, <2>2 DEF Job
  <2>4. j.owner # Nobody => j.owner = i.owner /\ j.owner # p /\ j.owner \in Proc
    BY <2>2, <2>3 DEF Job, Proc
  <2>5. j.owner # Nobody => proc'[j.owner] = proc[j.owner]
    BY <1>7, <2>4 DEF Die, Leave, IInv, TypeOK
  <2>6. processed' = processed /\ intent' = intent /\ output' = output
    BY <1>7 DEF Die, disk
  <2>7. QED
    BY <2>2, <2>3, <2>4, <2>5, <2>6 DEF JobKnown, Owned, Active, PublishedThrough
<1>8. ASSUME NEW r \in Runner, StageRemoved(r) PROVE JobKnown(j)'
  <2>1. r \in Proc /\ (\A i \in jobs' : i.owner # r) /\ jobs' \subseteq jobs
    BY <1>8 DEF StageRemoved, Proc
  <2>2. proc' = [proc EXCEPT ![r] = proc'[r]]
    BY <1>8, <2>1 DEF StageRemoved, Leave, IInv, TypeOK
  <2>3. QED
    BY <1>2, <2>1, <2>2
<1>9. ASSUME NEW i \in jobs, JobDone(i) \/ JobFails(i) PROVE JobKnown(j)'
  <2>1. jobs' = jobs \ {i}
    BY <1>9 DEF JobDone, JobFails
  <2>2. CASE i.owner = Nobody
    <3>1. proc' = proc
      BY <1>9, <2>2 DEF JobDone, JobFails
    <3>2. QED
      BY <1>1, <2>1, <3>1
  <2>3. CASE i.owner # Nobody
    <3>1. i.owner \in Proc
      BY <1>0, <2>3 DEF Job, Proc
    <3>2. \A h \in jobs' : h.owner # i.owner
      BY <2>1, <2>3, OneJobPerRunner
    <3>3. proc' = [proc EXCEPT ![i.owner] = proc'[i.owner]]
      BY <1>9, <2>3, <3>1, JobMoves DEF JobFails, Leave, IInv, TypeOK
    <3>4. QED
      BY <1>2, <2>1, <3>1, <3>2, <3>3
  <2>4. QED
    BY <2>2, <2>3
<1>10. CASE (\E b \in Batch : Land(b) \/ Tamper(b)) \/ UNCHANGED vars
  BY <1>1, <1>10 DEF Land, Tamper, vars
<1>11. QED
  BY <1>4, <1>5, <1>6, <1>7, <1>8, <1>9, <1>10 DEF Next, JobStep

\* A runner that does not move, or that leaves, keeps what it knows.
LEMMA RunnerKept ==
  ASSUME IInv, [Next]_vars, NEW r \in Runner, proc'[r] = proc[r]
  PROVE  RunnerKnows(r)'
<1> DEFINE s == proc[r].sel
<1>1. RunnerKnows(r)
  BY DEF IInv
<1>2. proc'[r].sel = s
  OBVIOUS
<1>3. ASSUME s \in Selection, Owned(s) PROVE Owned(proc[r].sel)'
  BY <1>2, <1>3, OwnedKept
<1>4. ASSUME NEW k \in 0..(N + 1), PublishedThrough(s, k)
      PROVE  PublishedThrough(proc[r].sel, k)'
  BY <1>2, <1>4, PublishedKept
<1>5. LastStage(r) \in 0..(N + 1) /\ LastStage(r)' = LastStage(r)
  BY BoundAssumption DEF LastStage
<1>6. /\ proc[r].pc \in {"launch", "wait"} => proc[r].stage - 1 \in 0..(N + 1)
      /\ N \in 0..(N + 1)
  BY <1>1, <1>5, BoundAssumption DEF RunnerKnows
<1>7. QED
  BY <1>1, <1>2, <1>3, <1>4, <1>5, <1>6 DEF RunnerKnows, Computing

\* A process that is off has nothing to know.
LEMMA LeaveKnows ==
  ASSUME IInv, NEW p \in Proc, Leave(p)
  PROVE  (p \in Runner => RunnerKnows(p)') /\ CommitterKnows(p)'
<1>1. proc'[p].pc = "off"
  BY FreshType DEF Leave, IInv, TypeOK
<1>2. QED
  BY <1>1 DEF RunnerKnows, CommitterKnows, Computing

\* At every step a runner knows of its batch what the next step relies on.
LEMMA RunnerKnowsNext == IInv /\ [Next]_vars => (\A r \in Runner : RunnerKnows(r))'
<1> SUFFICES ASSUME IInv, [Next]_vars, NEW r \in Runner PROVE RunnerKnows(r)'
  OBVIOUS
<1>0. r \in Proc /\ RunnerKnows(r) /\ proc \in [Proc -> Memory]
  BY DEF IInv, TypeOK, Proc
<1>1. CASE proc'[r] = proc[r]
  BY <1>1, RunnerKept
<1>2. CASE Leave(r)
  BY <1>0, <1>2, LeaveKnows
<1>3. ASSUME NEW p \in Proc \ {r}, proc' = [proc EXCEPT ![p] = proc'[p]] PROVE RunnerKnows(r)'
  BY <1>0, <1>1, <1>3
<1>4. CASE RunnerStep(r)
  <2>1. CASE proc'[r].pc \in {"plan", "select"}
    BY <2>1 DEF RunnerKnows, Computing
  <2>2. CASE proc'[r].pc = "begin" /\ proc'[r].sel \in Selection
    BY <2>2 DEF RunnerKnows, Computing
  <2>3. CASE Moves(r, "begin", "reserve")
    BY <1>0, <2>3 DEF RunnerKnows, Computing, Moves
  <2>4. CASE Moves(r, "reserve", "options") /\ Reserve(r)
    <3>1. proc'[r].pc = "options" /\ proc'[r].sel \in Selection
      BY <1>0, <2>4 DEF RunnerKnows, Moves
    <3>2. intent' = proc'[r].sel /\ Active(processed)'
      BY <1>2, <2>4, <3>1, FreshType, ReserveEffect DEF Moves, Leave, IInv, TypeOK, Proc
    <3>3. QED
      BY <3>1, <3>2 DEF RunnerKnows, Computing, Owned
  <2>5. CASE Moves(r, "options", "launch") /\ proc'[r].stage = 1
    <3>1. proc[r].sel \in Selection /\ Owned(proc[r].sel) /\ proc'[r].sel = proc[r].sel
      BY <1>0, <2>5 DEF RunnerKnows, Computing, Moves
    <3>2. Owned(proc[r].sel)'
      BY <3>1, OwnedKept
    <3>3. 1 \in 1..LastStage(r)' /\ PublishedThrough(proc[r].sel, 0)'
      BY BoundAssumption DEF LastStage, PublishedThrough
    <3>4. QED
      BY <2>5, <3>1, <3>2, <3>3 DEF RunnerKnows, Computing, Moves
  <2>6. CASE /\ Moves(r, "launch", "wait")
             /\ proc'[r].stage = proc[r].stage /\ proc'[r].mode = proc[r].mode
    <3>1. /\ proc[r].sel \in Selection /\ Owned(proc[r].sel) /\ proc'[r].sel = proc[r].sel
          /\ proc[r].stage \in 1..LastStage(r) /\ LastStage(r)' = LastStage(r)
          /\ PublishedThrough(proc[r].sel, proc[r].stage - 1)
      BY <1>0, <2>6 DEF RunnerKnows, Computing, Moves, LastStage
    <3>2. proc[r].stage - 1 \in 0..(N + 1)
      BY <3>1, BoundAssumption DEF LastStage
    <3>3. Owned(proc[r].sel)'
      BY <3>1, OwnedKept
    <3>4. PublishedThrough(proc[r].sel, proc[r].stage - 1)'
      BY <2>6, <3>1, <3>2, PublishedKept
    <3>5. QED
      BY <2>6, <3>1, <3>3, <3>4 DEF RunnerKnows, Computing, Moves
  <2>7. CASE \/ Moves(r, "verify", "commit")
             \/ Moves(r, "commit", "check")
    <3>1. /\ proc[r].sel \in Selection /\ Owned(proc[r].sel) /\ proc'[r].sel = proc[r].sel
          /\ PublishedThrough(proc[r].sel, N) /\ N \in 0..(N + 1)
      BY <1>0, <2>7, BoundAssumption DEF RunnerKnows, Computing, Moves
    <3>2. Owned(proc[r].sel)'
      BY <3>1, OwnedKept
    <3>3. PublishedThrough(proc[r].sel, N)'
      BY <3>1, PublishedKept
    <3>4. QED
      BY <2>7, <3>1, <3>2, <3>3 DEF RunnerKnows, Computing, Moves
  <2>8. QED
    BY <1>2, <1>4, <2>1, <2>2, <2>3, <2>4, <2>5, <2>6, <2>7, RunnerMoves
<1>5. ASSUME NEW q \in Runner, RunnerStep(q) PROVE RunnerKnows(r)'
  BY <1>3, <1>4, <1>5, RunnerMoves DEF Proc
<1>6. ASSUME NEW o \in Operator, NEW b \in Batch, OperatorCommit(o, b) PROVE RunnerKnows(r)'
  <2>1. o \in Proc \ {r}
    BY ProcAssumption DEF Proc
  <2>2. proc' = [proc EXCEPT ![o] = proc'[o]]
    BY <1>0, <1>6, <2>1 DEF OperatorCommit
  <2>3. QED
    BY <1>3, <2>1, <2>2
<1>7. ASSUME NEW p \in Proc, CommitStep(p) PROVE RunnerKnows(r)'
  <2>1. CASE proc'[r].pc \in {"replace", "unlink"}
    BY <2>1 DEF RunnerKnows, Computing
  <2>2. QED
    BY <1>2, <1>3, <1>7, <2>1, CommitMoves
<1>8. ASSUME NEW p \in Proc, Leave(p) PROVE RunnerKnows(r)'
  <2>1. proc' = [proc EXCEPT ![p] = proc'[p]]
    BY <1>0, <1>8 DEF Leave
  <2>2. QED
    BY <1>2, <1>3, <1>8, <2>1
<1>9. ASSUME NEW j \in jobs, JobDone(j) PROVE RunnerKnows(r)'
  <2>1. CASE j.owner # r
    BY <1>0, <1>1, <1>3, <1>9, <2>1, JobMoves DEF Proc
  <2>2. CASE j.owner = r
    <3>0. r # Nobody
      BY <1>0, ProcAssumption
    <3>1. /\ j.sel \in Selection /\ Owned(j.sel) /\ j.stage = proc[r].stage
          /\ proc[r].pc = "wait" /\ j.stage \in 1..LastStage(r)
      BY <1>0, <2>2, <3>0 DEF IInv, JobKnown, TypeOK, Job, RunnerKnows
    <3>2. /\ proc'[r].sel = j.sel /\ proc'[r].stage = j.stage + 1
          /\ LastStage(r)' = LastStage(r)
          /\ \/ proc'[r].pc = "verify" /\ j.stage = LastStage(r)
             \/ proc'[r].pc = "launch" /\ j.stage # LastStage(r)
      BY <1>9, <2>2, <3>0, JobMoves DEF LastStage
    <3>3. Owned(j.sel)'
      BY <3>1, OwnedKept
    <3>4. PublishedThrough(j.sel, j.stage)'
      BY <1>9, JobPublishes
    <3>5. j.stage \in Nat /\ LastStage(r) \in Nat /\ LastStage(r) >= N
      BY <3>1, BoundAssumption DEF LastStage
    <3>6. CASE proc'[r].pc = "verify"
      <4>1. PublishedThrough(j.sel, N)'
        BY <3>2, <3>4, <3>5, <3>6, BoundAssumption DEF PublishedThrough
      <4>2. QED
        BY <3>1, <3>2, <3>3, <3>6, <4>1 DEF RunnerKnows, Computing
    <3>7. CASE proc'[r].pc = "launch"
      <4>1. j.stage + 1 \in 1..LastStage(r) /\ (j.stage + 1) - 1 = j.stage
        BY <3>1, <3>2, <3>5, <3>7
      <4>2. PublishedThrough(j.sel, (j.stage + 1) - 1)'
        BY <3>4, <4>1
      <4>3. QED
        BY <3>1, <3>2, <3>3, <3>7, <4>1, <4>2 DEF RunnerKnows, Computing
    <3>8. QED
      BY <3>2, <3>6, <3>7
  <2>3. QED
    BY <2>1, <2>2
<1>10. ASSUME NEW j \in jobs, JobFails(j) PROVE RunnerKnows(r)'
  BY <1>1, <1>8, <1>10 DEF JobFails, IInv, TypeOK, Job, Proc
<1>11. CASE (\E b \in Batch : Land(b) \/ Tamper(b)) \/ UNCHANGED vars
  BY <1>1, <1>11 DEF Land, Tamper, vars
<1>12. QED
  BY <1>5, <1>6, <1>7, <1>8, <1>9, <1>10, <1>11
     DEF Next, JobStep, StageRemoved, Die, Proc

\* While a process stands between reading and writing the files, nobody writes them.
LEMMA LockedFiles ==
  ASSUME IInv, [Next]_vars, NEW p \in Proc, proc[p].pc \in Locked, proc'[p] = proc[p]
  PROVE  processed' = processed /\ intent' = intent
<1>1. stateLock = p
  BY DEF IInv, LockHeld, Locked
<1>2. ASSUME NEW r \in Runner, Reserve(r) PROVE FALSE
  <2>1. r = p
    BY <1>1, <1>2 DEF Reserve, IInv, LockHeld, Proc
  <2>2. proc'[r].pc \in {"off", "options"} /\ proc[r].pc = "reserve"
    BY <1>2, FreshType DEF Reserve, Leave, Discover, IInv, TypeOK, Memory, Proc
  <2>3. QED
    BY <2>1, <2>2
<1>3. ASSUME NEW q \in Proc, CommitReplace(q) \/ CommitUnlink(q) PROVE FALSE
  <2>1. q = p
    BY <1>1, <1>3 DEF CommitReplace, CommitUnlink, IInv, LockHeld
  <2>2. proc'[q].pc # proc[q].pc
    BY <1>3, FreshType
       DEF CommitReplace, CommitUnlink, Leave, Goto, IInv, TypeOK, Memory
  <2>3. QED
    BY <2>1, <2>2
<1>4. QED
  BY <1>2, <1>3, FilesEffect

\* The daily mart keeps the batches it has.
LEMMA GoldKept ==
  ASSUME IInv, [Next]_vars, NEW b \in Batch, GoldReady(b)
  PROVE  GoldReady(b)'
  BY OutputGrows, BoundAssumption DEF GoldReady

\* A commit that passes its checks is about to record the reserved batch, published
\* through its common stages with the digest its reservation pins. An operator pins
\* no digest: that the daily mart has the batch, and whose the mart is, implies it.
LEMMA CheckEffect ==
  ASSUME IInv, NEW p \in Proc, CommitCheck(p), ~Leave(p)
  PROVE  /\ Active(processed)
         /\ proc'[p].pc = "replace"
         /\ proc'[p].draft = [processed EXCEPT ![intent.batch] = intent.sha]
         /\ PublishedThrough(intent, N)
<1> DEFINE b == proc[p].sel.batch
<1>0. proc[p] \in Memory /\ b \in Batch /\ proc \in [Proc -> Memory]
  BY DEF IInv, TypeOK, Memory
<1>1. PICK v \in Discovered(p) :
        /\ Committable(p, v)
        /\ proc' = [proc EXCEPT ![p] =
             [Fresh EXCEPT !.pc = "replace", !.draft = [processed EXCEPT ![b] = v[b]]]]
  BY DEF CommitCheck
<1>2. PICK s \in Selection : s.batch = b /\ Owned(s) /\ PublishedThrough(s, N)
  <2>1. CASE p \in Runner
    BY <1>0, <2>1 DEF CommitCheck, IInv, RunnerKnows, Selection
  <2>2. CASE p \in Operator
    <3>1. PICK s \in output[N] : s.batch = b
      BY <2>2 DEF CommitCheck, IInv, CommitterKnows, GoldReady
    <3>2. s \in Selection /\ Owned(s) /\ PublishedThrough(s, N)
      BY <3>1, BoundAssumption DEF IInv, OutputKnown, TypeOK
    <3>3. QED
      BY <3>1, <3>2
  <2>3. QED
    BY <2>1, <2>2 DEF Proc
<1>3. processed[b] = NoDigest /\ s.sha # NoDigest
  BY <1>1, <1>2, MarkerAssumption DEF Committable, Selection
<1>4. Active(processed) /\ intent = s
  BY <1>2, <1>3 DEF Owned
<1>5. v[b] = intent.sha /\ b = intent.batch
  BY <1>1, <1>2, <1>4 DEF Committable, IntentVerified, Active
<1>6. proc'[p].pc = "replace" /\ proc'[p].draft = [processed EXCEPT ![b] = v[b]]
  BY <1>0, <1>1 DEF Fresh
<1>7. QED
  BY <1>2, <1>4, <1>5, <1>6

\* What a committer knows stays true until it acts on it.
LEMMA CommitterKnowsNext == IInv /\ [Next]_vars => (\A p \in Proc : CommitterKnows(p))'
<1> SUFFICES ASSUME IInv, [Next]_vars, NEW p \in Proc PROVE CommitterKnows(p)'
  OBVIOUS
<1>0. CommitterKnows(p) /\ proc \in [Proc -> Memory]
  BY DEF IInv, TypeOK
<1>1. CASE proc'[p] = proc[p]
  <2>1. proc[p].sel.batch \in Batch
    BY <1>0 DEF Memory
  <2>2. proc[p].pc = "check" /\ p \in Operator => GoldReady(proc[p].sel.batch)'
    BY <1>0, <1>1, <2>1, GoldKept DEF CommitterKnows
  <2>3. proc[p].pc \in Locked => processed' = processed /\ intent' = intent
    BY <1>1, LockedFiles
  <2>4. N \in 0..(N + 1)
    BY BoundAssumption
  <2>5. proc[p].pc = "replace" => PublishedThrough(intent, N)'
    BY <1>0, <2>3, <2>4, OutputGrows, BoundAssumption
       DEF CommitterKnows, Locked, PublishedThrough
  <2>6. QED
    BY <1>0, <1>1, <2>2, <2>3, <2>5 DEF CommitterKnows, Locked, Active
<1>2. CASE Leave(p)
  BY <1>2, LeaveKnows
<1>3. ASSUME NEW q \in Proc \ {p}, proc' = [proc EXCEPT ![q] = proc'[q]]
      PROVE  CommitterKnows(p)'
  BY <1>0, <1>1, <1>3
<1>4. ASSUME NEW r \in Runner, RunnerStep(r) PROVE CommitterKnows(p)'
  <2>1. CASE r # p
    BY <1>3, <1>4, <2>1, RunnerMoves DEF Proc
  <2>2. CASE r = p /\ ~Leave(p)
    <3>1. p \notin Operator /\ proc'[p].pc \notin {"replace", "unlink"}
      BY <1>4, <2>2, ProcAssumption, RunnerMoves DEF Moves
    <3>2. QED
      BY <3>1 DEF CommitterKnows
  <2>3. QED
    BY <1>2, <2>1, <2>2
<1>5. ASSUME NEW o \in Operator, NEW b \in Batch, OperatorCommit(o, b) PROVE CommitterKnows(p)'
  <2>1. o \in Proc
    BY DEF Proc
  <2>2. proc' = [proc EXCEPT ![o] = proc'[o]]
    BY <1>0, <1>5, <2>1 DEF OperatorCommit
  <2>3. CASE o = p
    <3>1. proc'[p].pc = "check" /\ proc'[p].sel.batch = b
      BY <1>0, <1>5, <2>3 DEF OperatorCommit, Fresh
    <3>2. GoldReady(b)'
      BY <1>5, GoldKept DEF OperatorCommit
    <3>3. QED
      BY <3>1, <3>2 DEF CommitterKnows, GoldReady
  <2>4. QED
    BY <1>3, <2>1, <2>2, <2>3
<1>6. ASSUME NEW q \in Proc, CommitStep(q) PROVE CommitterKnows(p)'
  <2>1. CASE q # p
    BY <1>3, <1>6, <2>1, CommitMoves
  <2>2. CASE q = p /\ ~Leave(p) /\ CommitCheck(p)
    <3>1. processed' = processed /\ intent' = intent /\ output' = output
      BY <2>2 DEF CommitCheck, disk, lake
    <3>2. QED
      BY <2>2, <3>1, CheckEffect DEF CommitterKnows, Active, PublishedThrough
  <2>3. CASE q = p /\ CommitReplace(p) /\ proc'[p].pc = "unlink"
    BY <2>3, ReplaceEffect DEF CommitterKnows
  <2>4. QED
    BY <1>2, <1>6, <2>1, <2>2, <2>3, CommitMoves
<1>7. ASSUME NEW q \in Proc, Leave(q) PROVE CommitterKnows(p)'
  <2>1. proc' = [proc EXCEPT ![q] = proc'[q]]
    BY <1>0, <1>7 DEF Leave
  <2>2. QED
    BY <1>2, <1>3, <1>7, <2>1
<1>8. ASSUME NEW j \in jobs, JobDone(j) PROVE CommitterKnows(p)'
  <2>1. CASE j.owner # p
    BY <1>0, <1>1, <1>3, <1>8, <2>1, JobMoves DEF Proc
  <2>2. CASE j.owner = p
    <3>1. p \in Runner /\ proc'[p].pc \in {"verify", "launch"}
      BY <1>8, <2>2, ProcAssumption, JobMoves
    <3>2. QED
      BY <3>1, ProcAssumption DEF CommitterKnows
  <2>3. QED
    BY <2>1, <2>2
<1>9. ASSUME NEW j \in jobs, JobFails(j) PROVE CommitterKnows(p)'
  BY <1>1, <1>7, <1>9 DEF JobFails, IInv, TypeOK, Job, Proc
<1>10. CASE (\E b \in Batch : Land(b) \/ Tamper(b)) \/ UNCHANGED vars
  BY <1>1, <1>10 DEF Land, Tamper, vars
<1>11. QED
  BY <1>4, <1>5, <1>6, <1>7, <1>8, <1>9, <1>10
     DEF Next, JobStep, StageRemoved, Die, Proc

\* A recorded batch is published, and what is published stays so.
LEMMA PublishedNext == IInv /\ [Next]_vars => ProcessedIsPublished'
<1> SUFFICES ASSUME IInv, [Next]_vars,
                    NEW b \in Done(processed'), NEW k \in 2..N
             PROVE  [batch |-> b, sha |-> processed'[b]] \in output'[k]
  BY DEF ProcessedIsPublished, Done
<1>1. b \in Batch /\ k \in 2..(N + 1)
  BY BoundAssumption DEF Done
<1>2. CASE processed'[b] = processed[b]
  <2>1. b \in Done(processed)
    BY <1>1, <1>2 DEF Done
  <2>2. [batch |-> b, sha |-> processed[b]] \in output[k]
    BY <2>1 DEF IInv, ProcessedIsPublished
  <2>3. QED
    BY <1>1, <1>2, <2>2, OutputGrows
<1>3. CASE processed'[b] # processed[b]
  <2>1. PICK p \in Proc : CommitReplace(p)
    BY <1>3, FilesEffect, UnlinkEffect DEF Reserve
  <2>2. b = intent.batch /\ processed'[b] = intent.sha
    BY <1>1, <1>3, <2>1, ReplaceEffect DEF IInv, TypeOK
  <2>3. intent = [batch |-> b, sha |-> processed'[b]]
    BY <2>1, <2>2, ReplaceEffect DEF Selection
  <2>4. intent \in output[k]
    BY <2>1, ReplaceEffect DEF PublishedThrough
  <2>5. QED
    BY <1>1, <2>3, <2>4, OutputGrows
<1>4. QED
  BY <1>2, <1>3

\* A checkpoint entry is kept by every step.
LEMMA EntryKept ==
  ASSUME IInv, [Next]_vars, NEW b \in Done(processed)
  PROVE  processed'[b] = processed[b]
<1>1. CASE processed' = processed
  BY <1>1
<1>2. CASE processed' # processed
  <2>1. PICK p \in Proc : CommitReplace(p)
    BY <1>2, FilesEffect, UnlinkEffect DEF Reserve
  <2>2. b # intent.batch
    BY <2>1, ReplaceEffect DEF Active, Done
  <2>3. QED
    BY <2>1, <2>2, ReplaceEffect DEF IInv, TypeOK, Done
<1>3. QED
  BY <1>1, <1>2

-----------------------------------------------------------------------------
(* The theorems.                                                           *)

\* The strengthened invariant holds at every step of every run, for any number of
\* batches, runners, operators, stages and faults.
THEOREM Invariant == Spec => []IInv
<1>1. IInv /\ [Next]_vars => IInv'
  BY NextType, LockHeldNext, OutputKnownNext, JobKnownNext, RunnerKnowsNext,
     CommitterKnowsNext, PublishedNext DEF IInv
<1>2. QED
  BY InitInv, <1>1, PTL DEF Spec

\* Every variable keeps its type.
THEOREM TypeCorrect == Spec => []TypeOK
<1>1. IInv => TypeOK
  BY DEF IInv
<1>2. QED
  BY Invariant, <1>1, PTL

\* What was ever computed belongs to the reserved batch or to a recorded one, with
\* the digest the reservation or the checkpoint names: _active_batch, begin() and
\* _commit_locked never let a late batch overtake half-written work.
THEOREM WorkOwned == Spec => []WorkIsOwned
<1>1. IInv => WorkIsOwned
  <2> SUFFICES ASSUME IInv, NEW s \in Work PROVE Owned(s)
    BY DEF WorkIsOwned
  <2>1. CASE s \in (UNION {output[k] : k \in 2..(N + 1)})
    BY <2>1 DEF IInv, OutputKnown
  <2>2. CASE s \in {j.sel : j \in jobs}
    BY <2>2 DEF IInv, JobKnown
  <2>3. CASE s \in {proc[r].sel : r \in {q \in Runner : proc[q].pc \in Computing}}
    BY <2>3 DEF IInv, RunnerKnows
  <2>4. QED
    BY <2>1, <2>2, <2>3 DEF Work
<1>2. QED
  BY Invariant, <1>1, PTL

\* A recorded batch went through every common stage with the recorded digest,
\* whoever called commit().
THEOREM RecordedPublished == Spec => []ProcessedIsPublished
<1>1. IInv => ProcessedIsPublished
  BY DEF IInv
<1>2. QED
  BY Invariant, <1>1, PTL

\* No two committers, and no crash between their steps, lose a checkpoint entry:
\* os.replace only ever installs the old entries and the reserved one.
THEOREM CheckpointKept == Spec => CheckpointOnlyGrows
<1>1. IInv /\ [Next]_vars => [\A b \in Done(processed) : processed'[b] = processed[b]]_vars
  BY EntryKept
<1>2. QED
  BY Invariant, <1>1, PTL DEF Spec, CheckpointOnlyGrows

-----------------------------------------------------------------------------
(* Batches on time are taken in order. A batch is overtaken only through a  *)
(* listing that missed an earlier one, and begin() lists after plan() did.  *)

\* Only a landing, or a rewrite of a mutable marker, changes the prefix.
LEMMA PrefixEffect ==
  ASSUME [Next]_vars
  PROVE  manifest' = manifest \/ \E b \in Batch : Land(b) \/ Tamper(b)
  BY DEF Next, RunnerStep, CommitStep, JobStep, vars, disk,
         StartRun, PlanRead, PlanSelect, BeginLock, Reserve, Options, Launch, Verify,
         CommitLock, StageRemoved, OperatorCommit, CommitCheck, CommitReplace, CommitUnlink,
         Die, JobDone, JobFails

\* A marker that nobody rewrites stays where it is.
LEMMA LandedKept ==
  ASSUME IInv, [Next]_vars, NEW b \in Batch, Landed(b)
  PROVE  Landed(b)'
  BY PrefixEffect DEF Landed, Land, Tamper, IInv, TypeOK

\* A batch on time does not appear behind one that sorts after it.
LEMMA LandsOnTime ==
  ASSUME IInv, [Next]_vars, NEW a \in OnTime, NEW b \in Batch, Earlier(a, b),
         manifest[b] # NoDigest, manifest'[a] # NoDigest
  PROVE  manifest[a] # NoDigest
<1>1. a \in Batch /\ a \notin Late /\ a \notin Mutable
  BY DEF OnTime
<1>2. ASSUME NEW x \in Batch, Land(x) PROVE manifest[a] # NoDigest
  BY <1>1, <1>2 DEF Land, IInv, TypeOK
<1>3. ASSUME NEW x \in Batch, Tamper(x) PROVE manifest[a] # NoDigest
  BY <1>1, <1>3 DEF Tamper, IInv, TypeOK
<1>4. QED
  BY <1>2, <1>3, PrefixEffect

\* A batch that is in order stays so: what is before it has landed by now or never will.
LEMMA InOrderKept ==
  ASSUME IInv, [Next]_vars, NEW b \in Batch, InOrder(b)
  PROVE  InOrder(b)'
<1>1. Landed(b)'
  BY LandedKept DEF InOrder
<1>2. ASSUME NEW a \in OnTime, Earlier(a, b), manifest'[a] # NoDigest, b \notin Mutable
      PROVE  processed'[a] # NoDigest
  <2>1. manifest[b] # NoDigest
    BY <1>2 DEF InOrder, Landed
  <2>2. manifest[a] # NoDigest
    BY <1>2, <2>1, LandsOnTime
  <2>3. a \in Done(processed)
    BY <1>2, <2>2 DEF InOrder, Done, OnTime
  <2>4. QED
    BY <2>3, EntryKept DEF Done
<1>3. QED
  BY <1>1, <1>2 DEF InOrder, Earlier, OnTime

\* discover sorts strictly.
LEMMA SortsStrictly ==
  ASSUME NEW a \in Batch, NEW b \in Batch, Earlier(a, b), Earlier(b, a)
  PROVE  FALSE
<1>1. a \in Nat /\ b \in Nat /\ BatchAt[a] \in Nat /\ BatchAt[b] \in Nat
  BY BatchAssumption
<1>2. QED
  BY <1>1 DEF Earlier

\* What begin() reserves is in order: its listing shows every batch on time that had landed
\* when it started, so the first pending one is the one it was asked for.
LEMMA ReservedInOrder ==
  ASSUME IInv, OrderInv, NEW r \in Runner, Reserve(r), ~(Leave(r) /\ intent' = intent)
  PROVE  InOrder(proc[r].sel.batch)
<1> DEFINE b == proc[r].sel.batch
<1>0. b \in Batch /\ r \in Proc /\ proc[r].pc = "reserve"
  BY DEF IInv, TypeOK, Memory, Proc, Reserve
<1>1. PICK v \in Discovered(r) : Reservable(proc[r].sel, v)
  BY DEF Reserve
<1>2. CASE Active(processed)
  BY <1>1, <1>2 DEF Reservable, IsNext, OrderInv
<1>3. CASE ~Active(processed)
  <2>1. IsFirst(b, Pending(v, processed))
    BY <1>1, <1>3 DEF Reservable, IsNext
  <2>2. ViewKnows(r)
    BY <1>0 DEF OrderInv
  <2>3. Landed(b)
    BY <1>0, <2>2 DEF ViewKnows
  <2>4. ASSUME NEW a \in OnTime, Earlier(a, b), manifest[a] # NoDigest, b \notin Mutable
        PROVE  processed[a] # NoDigest
    <3>1. a \in Batch
      BY DEF OnTime
    <3>2. proc[r].view[a] # NoDigest
      BY <1>0, <2>2, <2>4 DEF ViewKnows
    <3>3. v[a] # NoDigest
      BY <2>4, <3>1, <3>2 DEF Discovered
    <3>4. SUFFICES ASSUME processed[a] = NoDigest PROVE FALSE
      OBVIOUS
    <3>5. a \in Pending(v, processed)
      BY <3>1, <3>3, <3>4 DEF Pending
    <3>6. CASE a = b
      BY <2>4, <3>1, <3>6, SortsStrictly
    <3>7. CASE a # b
      BY <1>0, <2>1, <2>4, <3>1, <3>5, <3>7, SortsStrictly DEF IsFirst
    <3>8. QED
      BY <3>6, <3>7
  <2>5. QED
    BY <2>3, <2>4 DEF InOrder
<1>4. QED
  BY <1>2, <1>3

\* The reservation, if it is active after a step, is in order.
LEMMA IntentInOrder ==
  ASSUME IInv, OrderInv, [Next]_vars, Active(processed)'
  PROVE  InOrder(intent.batch)'
<1>0. ASSUME Active(processed), intent' = intent PROVE InOrder(intent.batch)'
  <2>1. intent.batch \in Batch /\ InOrder(intent.batch)
    BY <1>0 DEF Active, OrderInv, IInv, TypeOK, Selection
  <2>2. InOrder(intent.batch)' <=> InOrder(intent.batch)'
    OBVIOUS
  <2>3. QED
    BY <1>0, <2>1, InOrderKept DEF InOrder, Landed
<1>1. CASE processed' = processed /\ intent' = intent
  BY <1>0, <1>1 DEF Active
<1>2. ASSUME NEW r \in Runner, Reserve(r) PROVE InOrder(intent.batch)'
  <2>1. CASE Leave(r) /\ intent' = intent
    BY <1>0, <1>2, <2>1 DEF Reserve, Active
  <2>2. CASE ~(Leave(r) /\ intent' = intent)
    <3>1. intent' = proc[r].sel /\ proc[r].sel.batch \in Batch
      BY <1>2, <2>2, ReserveEffect DEF IInv, TypeOK, Memory, Proc
    <3>2. InOrder(proc[r].sel.batch)
      BY <1>2, <2>2, ReservedInOrder
    <3>3. QED
      BY <3>1, <3>2, InOrderKept DEF InOrder, Landed
  <2>3. QED
    BY <2>1, <2>2
<1>3. ASSUME NEW p \in Proc, CommitReplace(p) \/ CommitUnlink(p) PROVE FALSE
  BY <1>3, ReplaceEffect, UnlinkEffect DEF Active
<1>4. QED
  BY <1>1, <1>2, <1>3, FilesEffect

\* The checkpoint gains the reserved batch alone.
LEMMA DoneInOrder ==
  ASSUME IInv, OrderInv, [Next]_vars, NEW b \in Done(processed')
  PROVE  InOrder(b)'
<1>0. b \in Batch /\ processed'[b] # NoDigest
  BY DEF Done
<1>1. CASE b \in Done(processed)
  BY <1>0, <1>1, InOrderKept DEF OrderInv
<1>2. CASE b \notin Done(processed)
  <2>1. PICK p \in Proc : CommitReplace(p)
    BY <1>0, <1>2, FilesEffect, UnlinkEffect DEF Reserve, Done
  <2>2. b = intent.batch
    BY <1>0, <1>2, <2>1, ReplaceEffect DEF IInv, TypeOK, Done
  <2>3. InOrder(b)
    BY <2>1, <2>2, ReplaceEffect DEF OrderInv
  <2>4. QED
    BY <1>0, <2>3, InOrderKept
<1>3. QED
  BY <1>1, <1>2

\* A listing shows only what has landed.
LEMMA ListedLanded ==
  ASSUME OrderInv, NEW p \in Proc, NEW v \in Discovered(p), NEW x \in Batch, v[x] # NoDigest
  PROVE  Landed(x)
<1>1. v[x] = proc[p].view[x] \/ v[x] = manifest[x]
  BY DEF Discovered
<1>2. ViewKnows(p)
  BY DEF OrderInv
<1>3. QED
  BY <1>1, <1>2 DEF ViewKnows, Landed

\* Past begin() only the listing itself counts.
LEMMA ViewMoved ==
  ASSUME IInv, [Next]_vars, NEW p \in Proc, proc'[p].pc \notin {"begin", "reserve"},
         \A x \in Batch : proc'[p].view[x] # NoDigest => Landed(x)
  PROVE  ViewKnows(p)'
<1>1. ASSUME NEW x \in Batch, proc'[p].view[x] # NoDigest PROVE Landed(x)'
  BY <1>1, LandedKept
<1>2. QED
  BY <1>1 DEF ViewKnows

\* A listing that is under way still starts with all that landed before its batch.
LEMMA ViewKept ==
  ASSUME IInv, OrderInv, [Next]_vars, NEW p \in Proc, proc'[p] = proc[p]
  PROVE  ViewKnows(p)'
<1> DEFINE b == proc[p].sel.batch
<1>0. ViewKnows(p) /\ b \in Batch
  BY DEF OrderInv, IInv, TypeOK, Memory
<1>1. \A x \in Batch : proc[p].view[x] # NoDigest => Landed(x)'
  BY <1>0, LandedKept DEF ViewKnows
<1>2. proc[p].pc \in {"begin", "reserve"} => Landed(b) /\ Landed(b)'
  BY <1>0, LandedKept DEF ViewKnows
<1>3. ASSUME proc[p].pc = "reserve", NEW a \in OnTime, Earlier(a, b),
             manifest'[a] # NoDigest, b \notin Mutable
      PROVE  proc[p].view[a] # NoDigest
  <2>1. manifest[b] # NoDigest
    BY <1>2, <1>3 DEF Landed
  <2>2. manifest[a] # NoDigest
    BY <1>0, <1>3, <2>1, LandsOnTime
  <2>3. QED
    BY <1>0, <1>3, <2>2 DEF ViewKnows
<1>4. Landed(b)' <=> (b \in Mutable \/ manifest'[b] # NoDigest)
  BY DEF Landed
<1>5. QED
  BY <1>1, <1>2, <1>3, <1>4 DEF ViewKnows, Landed, Earlier, OnTime

\* A process that leaves has seen nothing.
LEMMA ViewLeft ==
  ASSUME IInv, [Next]_vars, NEW p \in Proc, Leave(p)
  PROVE  ViewKnows(p)'
<1>1. proc'[p] = Fresh
  BY DEF Leave, IInv, TypeOK
<1>2. proc'[p].pc = "off" /\ proc'[p].view = Blank
  BY <1>1, FreshType DEF Fresh
<1>3. \A x \in Batch : proc'[p].view[x] = NoDigest
  BY <1>2 DEF Blank
<1>4. QED
  BY <1>2, <1>3, ViewMoved

\* Each step of a runner leaves it a listing of what has landed.
LEMMA RunnerView ==
  ASSUME IInv, OrderInv, [Next]_vars, NEW r \in Runner, RunnerStep(r)
  PROVE  ViewKnows(r)'
<1>0. r \in Proc /\ proc \in [Proc -> Memory] /\ proc[r] \in Memory /\ ViewKnows(r)
  BY DEF IInv, TypeOK, Proc, OrderInv
<1>1. CASE Leave(r)
  BY <1>0, <1>1, ViewLeft
<1>2. ASSUME NEW label \in {"plan", "options", "check"}, Discover(r, label)
      PROVE  ViewKnows(r)'
  <2>1. proc'[r].pc = label /\ proc'[r].view = manifest
    BY <1>0, <1>2 DEF Discover, Memory
  <2>2. QED
    BY <1>0, <2>1, ViewMoved DEF Landed
<1>3. ASSUME NEW label \in {"wait", "commit"}, Goto(r, label) PROVE ViewKnows(r)'
  <2>1. proc'[r].pc = label /\ proc'[r].view = proc[r].view
    BY <1>0, <1>3 DEF Goto, Memory
  <2>2. QED
    BY <1>0, <2>1, ViewMoved DEF ViewKnows
<1>4. CASE PlanRead(r) /\ ~Leave(r)
  <2>1. PICK v \in Discovered(r) : proc' = [proc EXCEPT
          ![r].pc = "select", ![r].view = v, ![r].draft = processed]
    BY <1>4 DEF PlanRead
  <2>2. proc'[r].pc = "select" /\ proc'[r].view = v
    BY <1>0, <2>1 DEF Memory
  <2>3. QED
    BY <1>0, <2>2, ListedLanded, ViewMoved
<1>5. CASE PlanSelect(r) /\ ~Leave(r)
  <2>1. PICK b \in Batch :
          /\ proc[r].view[b] # NoDigest
          /\ proc' = [proc EXCEPT ![r] = [Fresh EXCEPT
                         !.pc = "begin", !.sel = [batch |-> b, sha |-> proc[r].view[b]]]]
    BY <1>5 DEF PlanSelect, Pending
  <2>2. /\ proc'[r].pc = "begin" /\ proc'[r].sel.batch = b
        /\ \A x \in Batch : proc'[r].view[x] = NoDigest
    BY <1>0, <2>1 DEF Fresh, Blank
  <2>3. Landed(b)'
    BY <1>0, <2>1, LandedKept DEF ViewKnows
  <2>4. Landed(proc[r].sel.batch)'
    BY <2>2, <2>3 DEF Landed
  <2>5. QED
    BY <2>2, <2>4 DEF ViewKnows
<1>6. CASE BeginLock(r) /\ ~Leave(r)
  <2>1. Discover(r, "reserve") /\ proc[r].pc = "begin" /\ manifest' = manifest
    BY <1>6 DEF BeginLock, disk
  <2>2. proc'[r].pc = "reserve" /\ proc'[r].view = manifest /\ proc'[r].sel = proc[r].sel
    BY <1>0, <2>1 DEF Discover, Memory
  <2>3. Landed(proc[r].sel.batch)
    BY <1>0, <2>1 DEF ViewKnows
  <2>4. Landed(proc[r].sel.batch)'
    BY <2>1, <2>2, <2>3 DEF Landed
  <2>5. QED
    BY <2>1, <2>2, <2>4 DEF ViewKnows, Landed
<1>7. CASE Options(r) /\ ~Leave(r)
  <2>1. proc' = [proc EXCEPT ![r] = [Fresh EXCEPT !.pc = "launch",
                   !.sel = proc[r].sel, !.mode = HistoryMode(proc[r].sel.batch)]]
    BY <1>7 DEF Options
  <2>2. proc'[r].pc = "launch" /\ \A x \in Batch : proc'[r].view[x] = NoDigest
    BY <1>0, <2>1 DEF Fresh, Blank
  <2>3. QED
    BY <1>0, <2>2, ViewMoved
<1>8. QED
  BY <1>1, <1>2, <1>3, <1>4, <1>5, <1>6, <1>7
     DEF RunnerStep, StartRun, Reserve, Launch, Verify, CommitLock

\* So does each step of a commit.
LEMMA CommitView ==
  ASSUME IInv, OrderInv, [Next]_vars, NEW p \in Proc, CommitStep(p)
  PROVE  ViewKnows(p)'
<1>0. proc \in [Proc -> Memory] /\ proc[p] \in Memory /\ ViewKnows(p)
  BY DEF IInv, TypeOK, OrderInv
<1>1. CASE Leave(p)
  BY <1>1, ViewLeft
<1>2. CASE CommitCheck(p) /\ ~Leave(p)
  <2>1. PICK d : proc' = [proc EXCEPT ![p] = [Fresh EXCEPT !.pc = "replace", !.draft = d]]
    BY <1>2 DEF CommitCheck
  <2>2. proc'[p].pc = "replace" /\ \A x \in Batch : proc'[p].view[x] = NoDigest
    BY <1>0, <2>1 DEF Fresh, Blank
  <2>3. QED
    BY <2>2, ViewMoved
<1>3. CASE CommitReplace(p) /\ ~Leave(p)
  <2>1. proc'[p].pc = "unlink" /\ proc'[p].view = proc[p].view
    BY <1>0, <1>3 DEF CommitReplace, Goto, Memory
  <2>2. QED
    BY <1>0, <2>1, ViewMoved DEF ViewKnows
<1>4. QED
  BY <1>1, <1>2, <1>3 DEF CommitStep, CommitUnlink

\* What every listing shows has landed, and the one begin() works on misses nothing before its
\* batch.
LEMMA ViewNext ==
  ASSUME IInv, OrderInv, [Next]_vars, NEW p \in Proc
  PROVE  ViewKnows(p)'
<1>0. proc \in [Proc -> Memory] /\ proc[p] \in Memory /\ ViewKnows(p)
  BY DEF IInv, TypeOK, OrderInv
<1>1. CASE proc'[p] = proc[p]
  BY <1>1, ViewKept
<1>2. ASSUME NEW q \in Proc, q # p, proc' = [proc EXCEPT ![q] = proc'[q]]
      PROVE  ViewKnows(p)'
  BY <1>0, <1>1, <1>2
<1>3. ASSUME NEW q \in Proc, Leave(q) PROVE ViewKnows(p)'
  <2>1. CASE q = p
    BY <1>3, <2>1, ViewLeft
  <2>2. CASE q # p
    BY <1>0, <1>1, <1>3, <2>2 DEF Leave
  <2>3. QED
    BY <2>1, <2>2
<1>4. ASSUME NEW r \in Runner, RunnerStep(r) PROVE ViewKnows(p)'
  BY <1>2, <1>4, RunnerView, RunnerMoves DEF Proc
<1>5. ASSUME NEW q \in Proc, CommitStep(q) PROVE ViewKnows(p)'
  BY <1>2, <1>5, CommitView, CommitMoves
<1>6. ASSUME NEW o \in Operator, NEW b \in Batch, OperatorCommit(o, b) PROVE ViewKnows(p)'
  <2>1. o \in Proc /\ proc' = [proc EXCEPT ![o] = [Fresh EXCEPT !.pc = "check",
                       !.view = manifest, !.sel = [batch |-> b, sha |-> NoDigest]]]
    BY <1>6 DEF OperatorCommit, Proc
  <2>2. CASE o = p
    <3>1. proc'[p].pc = "check" /\ proc'[p].view = manifest
      BY <1>0, <2>1, <2>2 DEF Fresh
    <3>2. QED
      BY <3>1, ViewMoved DEF Landed
  <2>3. CASE o # p
    BY <1>0, <1>1, <2>1, <2>3
  <2>4. QED
    BY <2>2, <2>3
<1>7. ASSUME NEW j \in jobs, JobDone(j) PROVE ViewKnows(p)'
  <2>1. CASE j.owner # p
    BY <1>0, <1>1, <1>2, <1>7, <2>1, JobMoves DEF Proc
  <2>2. CASE j.owner = p
    <3>1. j.owner # Nobody
      BY <2>2, ProcAssumption
    <3>2. proc' = [proc EXCEPT ![p].stage = j.stage + 1,
                    ![p].pc = IF j.stage = LastStage(p) THEN "verify" ELSE "launch"]
      BY <1>7, <2>2, <3>1 DEF JobDone
    <3>3. proc'[p].pc \in {"verify", "launch"} /\ proc'[p].view = proc[p].view
      BY <1>0, <3>2 DEF Memory
    <3>4. QED
      BY <1>0, <3>3, ViewMoved DEF ViewKnows
  <2>3. QED
    BY <2>1, <2>2
<1>8. ASSUME NEW j \in jobs, JobFails(j) PROVE ViewKnows(p)'
  BY <1>1, <1>3, <1>8 DEF JobFails, IInv, TypeOK, Job, Proc
<1>9. CASE (\E b \in Batch : Land(b) \/ Tamper(b)) \/ UNCHANGED vars
  BY <1>1, <1>9 DEF Land, Tamper, vars
<1>10. QED
  BY <1>3, <1>4, <1>5, <1>6, <1>7, <1>8, <1>9
     DEF Next, JobStep, StageRemoved, Die, Proc

\* At the start nothing is recorded, reserved or listed.
LEMMA InitOrder == Init => OrderInv
<1> SUFFICES ASSUME Init PROVE OrderInv
  OBVIOUS
<1>1. \A b \in Done(processed) : InOrder(b)
  BY DEF Init, Blank, Done
<1>2. ~Active(processed)
  BY DEF Init, Active
<1>3. ASSUME NEW p \in Proc PROVE ViewKnows(p)
  <2>1. proc[p].pc = "off" /\ proc[p].view = Blank
    BY DEF Init, Fresh
  <2>2. QED
    BY <2>1 DEF ViewKnows, Blank
<1>4. QED
  BY <1>1, <1>2, <1>3 DEF OrderInv

\* Only a batch that landed late is overtaken. plan() lists without the state lock and may miss
\* a batch that lands meanwhile; begin() lists again and refuses what is not first any more,
\* and nothing before the batch it reserves can appear on time after that.
THEOREM OrderKept == Spec => []OnTimeKeepsOrder
<1>1. IInv /\ OrderInv /\ [Next]_vars => OrderInv'
  BY DoneInOrder, IntentInOrder, ViewNext DEF OrderInv
<1>2. OrderInv => OnTimeKeepsOrder
  <2> SUFFICES ASSUME OrderInv, NEW a \in Batch \ (Late \cup Mutable), NEW b \in Done(processed),
                      Earlier(a, b), manifest[a] # NoDigest, b \notin Mutable
               PROVE  processed[a] # NoDigest
    BY DEF OnTimeKeepsOrder
  <2>1. InOrder(b)
    BY DEF OrderInv
  <2>2. QED
    BY <2>1 DEF InOrder, OnTime
<1>3. QED
  BY Invariant, InitOrder, <1>1, <1>2, PTL DEF Spec

-----------------------------------------------------------------------------
(* The refinement.                                                         *)

\* The ledger sees a step that changes neither the files nor the tables as a stutter.
LEMMA LedgerStutter ==
  ASSUME processed' = processed, intent' = intent, output' = output
  PROVE  UNCHANGED Ledger!ledger
  BY DEF Ledger!ledger, Reserved, Touched, Done, Active

\* Every step of the pipeline is one step of the abstract ledger, or a stutter.
LEMMA LedgerStep == IInv /\ [Next]_vars => [Ledger!Next]_(Ledger!ledger)
<1> SUFFICES ASSUME IInv, [Next]_vars PROVE [Ledger!Next]_(Ledger!ledger)
  OBVIOUS
<1> USE DEF Ledger!ledger, Ledger!Next
<1>1. CASE processed' = processed /\ intent' = intent /\ output' = output
  BY <1>1, LedgerStutter
<1>2. ASSUME NEW r \in Runner, Reserve(r) PROVE [Ledger!Next]_(Ledger!ledger)
  <2>1. processed' = processed /\ output' = output /\ Touched' = Touched
    BY <1>2 DEF Reserve, lake, Touched
  <2>2. CASE intent' = intent
    BY <1>1, <2>1, <2>2
  <2>3. CASE intent' # intent
    <3>1. ~Active(processed) /\ intent' = proc[r].sel /\ Active(processed)'
      BY <1>2, <2>3, ReserveEffect
    <3>2. proc[r].sel.batch \in Batch
      BY DEF IInv, TypeOK, Memory, Proc
    <3>3. Reserved = NoIntent /\ Reserved' = proc[r].sel.batch
      BY <3>1 DEF Reserved
    <3>4. proc[r].sel.batch \notin Done(processed) /\ Done(processed)' = Done(processed)
      BY <2>1, <3>1 DEF Active, Done
    <3>5. Ledger!Reserve(proc[r].sel.batch)
      BY <2>1, <3>3, <3>4 DEF Ledger!Reserve
    <3>6. QED
      BY <3>2, <3>5
  <2>4. QED
    BY <2>2, <2>3
<1>3. ASSUME NEW p \in Proc, CommitReplace(p) PROVE [Ledger!Next]_(Ledger!ledger)
  <2>1. intent \in Selection /\ intent.batch \in Batch /\ intent.sha # NoDigest
    BY <1>3, MarkerAssumption, ReplaceEffect DEF Selection
  <2>2. Reserved = intent.batch /\ Reserved' = NoIntent
    BY <1>3, ReplaceEffect DEF Reserved
  <2>3. output' = output /\ Touched' = Touched
    BY <1>3 DEF CommitReplace, lake, Touched
  <2>4. intent.batch \in Touched
    <3>1. intent \in output[2]
      BY <1>3, BoundAssumption, ReplaceEffect DEF PublishedThrough
    <3>2. QED
      BY <3>1, BoundAssumption DEF Touched
  <2>5. Done(processed)' = Done(processed) \cup {intent.batch}
    BY <1>3, <2>1, ReplaceEffect DEF Done, IInv, TypeOK
  <2>6. Ledger!Record(intent.batch)
    BY <2>2, <2>3, <2>4, <2>5 DEF Ledger!Record
  <2>7. QED
    BY <2>1, <2>6
<1>4. ASSUME NEW p \in Proc, CommitUnlink(p) PROVE [Ledger!Next]_(Ledger!ledger)
  <2>1. Reserved' = Reserved
    BY <1>4, UnlinkEffect DEF Reserved, Active
  <2>2. Touched' = Touched /\ Done(processed)' = Done(processed)
    BY <1>4, UnlinkEffect DEF CommitUnlink, lake, Touched, Done
  <2>3. QED
    BY <2>1, <2>2
<1>5. ASSUME NEW j \in jobs, JobDone(j) PROVE [Ledger!Next]_(Ledger!ledger)
  <2>1. j \in Job /\ Owned(j.sel) /\ j.sel.batch \in Batch /\ j.sel.sha # NoDigest
    BY MarkerAssumption DEF IInv, TypeOK, JobKnown, Job, Selection
  <2>2. processed' = processed /\ intent' = intent
    BY <1>5 DEF JobDone, disk
  <2>3. CASE j.stage = 1
    BY <1>1, <1>5, <2>2, <2>3 DEF JobDone
  <2>4. CASE j.stage # 1
    <3>1. output' = [output EXCEPT ![j.stage] = @ \cup {j.sel}]
          /\ j.stage \in 2..(N + 1)
      BY <1>5, <2>1, <2>4, BoundAssumption, PublishesSelected DEF JobDone, Job, IInv
    <3>2. UNION {output'[k] : k \in 2..(N + 1)}
            = (UNION {output[k] : k \in 2..(N + 1)}) \cup {j.sel}
      BY <3>1 DEF IInv, TypeOK
    <3>3. Touched' = Touched \cup {j.sel.batch}
      BY <3>2 DEF Touched
    <3>4. Reserved' = Reserved /\ Done(processed)' = Done(processed)
      BY <2>2 DEF Reserved, Active, Done
    <3>5. j.sel.batch = Reserved \/ j.sel.batch \in Done(processed)
      BY <2>1 DEF Owned, Reserved, Done
    <3>6. Ledger!Publish(j.sel.batch)
      BY <3>3, <3>4, <3>5 DEF Ledger!Publish
    <3>7. QED
      BY <2>1, <3>6
  <2>5. QED
    BY <2>3, <2>4
<1>6. CASE \/ processed' # processed
           \/ intent' # intent
  BY <1>2, <1>3, <1>4, <1>6, FilesEffect
<1>7. CASE output' # output
  <2>1. PICK j \in jobs : JobDone(j)
    BY <1>7 DEF Next, RunnerStep, CommitStep, JobStep, vars, lake,
         Land, Tamper, StartRun, PlanRead, PlanSelect, BeginLock, Reserve, Options, Launch,
         Verify, CommitLock, StageRemoved, OperatorCommit, CommitCheck, CommitReplace,
         CommitUnlink, Die, JobFails
  <2>2. QED
    BY <1>5, <2>1
<1>8. QED
  BY <1>1, <1>6, <1>7

\* The files, locks, processes, crashes and orphaned containers of the pipeline
\* implement the abstract ledger: one batch owns the pipeline at a time, only its
\* rows or those of a recorded batch are written, and it is recorded after them.
THEOREM Refinement == Spec => ImplementsLedger
<1>1. Init => Ledger!Init
  BY MarkerAssumption DEF Init, Ledger!Init, Reserved, Touched, Active, Done, Blank
<1>2. QED
  BY Invariant, <1>1, LedgerStep, PTL DEF Spec, ImplementsLedger, Ledger!Spec

=============================================================================
