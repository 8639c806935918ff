-------------------------- MODULE CommerceCycleProof --------------------------
(* Theorems about CommerceCycle, for every schedule, every set of batches and *)
(* every limit that satisfies the assumptions.                               *)
EXTENDS CommerceCycle, WellFoundedInduction, TLAPS

\* The constants are numbers.
LEMMA Times ==
  /\ Cycles \in Nat /\ Interval \in Nat /\ Budget \in Nat /\ Grace \in Nat /\ Removal \in Nat
  /\ Journal \in Nat /\ StageLimit \in Nat /\ QueryLimit \in Nat /\ Delay \in Nat
  /\ Attempts \in Nat /\ Stages \in Nat /\ SourceAge \in Nat /\ BacklogAge \in Nat
  /\ Valid \in Nat /\ MaxFaults \in Nat
  BY TimeAssumption

\* The start and the deadline of a cycle are numbers, and the horizon is one.
LEMMA Schedule ==
  /\ Horizon \in Nat
  /\ \A c \in Cycle : c \in Nat /\ At(c) \in Nat /\ Due(c) = At(c) + Budget
<1> USE Times
<1>1. \A m, n \in Nat : m * n \in Nat
  OBVIOUS
<1>2. Horizon \in Nat
  BY <1>1 DEF Horizon
<1>3. \A c \in Cycle : c \in Nat
  BY DEF Cycle
<1>4. \A c \in Cycle : At(c) \in Nat
  BY <1>1, <1>3 DEF At
<1>5. QED
  BY <1>2, <1>3, <1>4 DEF Due

\* The earlier of two times.
LEMMA Earlier ==
  ASSUME NEW x \in Int, NEW y \in Int
  PROVE  Min({x, y}) \in {x, y} /\ Min({x, y}) <= x /\ Min({x, y}) <= y
<1>1. \E m \in {x, y} : \A n \in {x, y} : m <= n
  OBVIOUS
<1>2. Min({x, y}) \in {x, y} /\ \A n \in {x, y} : Min({x, y}) <= n
  BY <1>1 DEF Min
<1>3. QED
  BY <1>2

\* A non-empty set of numbers has a least element: there is an earliest batch.
LEMMA Least ==
  ASSUME NEW S, S \subseteq Nat, S # {}
  PROVE  Min(S) \in S /\ \A n \in S : Min(S) <= n
<1> DEFINE R == OpToRel(<, Nat)
<1>1. IsWellFoundedOn(R, Nat)
  BY NatLessThanWellFounded
<1>2. \A m, n \in Nat : m < n => <<m, n>> \in R
  BY DEF OpToRel
<1> HIDE DEF R
<1>3. PICK m \in S : \A n \in S : ~(<<n, m>> \in R)
  BY <1>1, WFMin, Zenon
<1>4. ASSUME NEW n \in S PROVE m <= n
  <2>1. m \in Nat /\ n \in Nat
    OBVIOUS
  <2>2. ~(n < m)
    BY <1>2, <1>3, <2>1, Zenon
  <2>3. QED
    BY <2>1, <2>2
<1>5. QED
  BY <1>4 DEF Min

\* The initial state satisfies the invariant.
LEMMA InitInv == Init => IInv
<1> SUFFICES ASSUME Init PROVE IInv
  OBVIOUS
<1> USE Times, Schedule DEF Init
<1>1. landed \in Landing /\ Idle \in Job
  BY DEF Idle, Job
<1>2. TypeOK
  BY <1>1 DEF TypeOK
<1>3. ASSUME NEW c \in Cycle PROVE RunnerKnows(c) /\ NoticeKnows(c)
  <2>1. job[c] = Idle
    OBVIOUS
  <2>2. RunnerKnows(c)
    BY <2>1 DEF RunnerKnows, Idle, RunnerPc, Timed, NoticePc
  <2>3. NoticeKnows(c)
    BY <2>1 DEF NoticeKnows, Idle, RunnerPc
  <2>4. QED
    BY <2>2, <2>3
<1>4. QED
  BY <1>2, <1>3 DEF IInv

\* A step of one cycle keeps the invariant if it keeps what that cycle knows: the others
\* see at most more batches recorded.
LEMMA OneMoves ==
  ASSUME IInv, NEW c \in Cycle, NEW r \in Job, Set(c, r),
         now' = now, landed' = landed, done \subseteq done', done' \subseteq Batch,
         lock' \in Cycle \cup {None}, alert' \in [Component -> Nat], faults' \in 0..MaxFaults,
         job'[c] = r => RunnerKnows(c)' /\ NoticeKnows(c)'
  PROVE  IInv'
<1> USE DEF IInv, TypeOK, Set
<1>1. job' \in [Cycle -> Job] /\ job'[c] = r /\ \A k \in Cycle \ {c} : job'[k] = job[k]
  OBVIOUS
<1>2. TypeOK'
  BY <1>1
<1>3. ASSUME NEW k \in Cycle PROVE RunnerKnows(k)' /\ NoticeKnows(k)'
  <2>1. CASE k = c
    BY <1>1, <2>1
  <2>2. CASE k # c
    <3>1. job'[k] = job[k]
      BY <1>1, <2>2
    <3>2. RunnerKnows(k)'
      BY <3>1 DEF RunnerKnows
    <3>3. NoticeKnows(k)'
      BY <3>1 DEF NoticeKnows, Listed
    <3>4. QED
      BY <3>2, <3>3
  <2>3. QED
    BY <2>1, <2>2
<1>4. QED
  BY <1>2, <1>3

\* What a cycle knows of itself, as types and numbers.
LEMMA Own ==
  ASSUME IInv, NEW c \in Cycle
  PROVE  /\ job[c] \in Job /\ RunnerKnows(c) /\ NoticeKnows(c)
         /\ now \in Nat /\ done \subseteq Batch /\ None \notin Batch
         /\ At(c) \in Nat /\ Due(c) = At(c) + Budget
<1>1. None \notin Batch
  BY TimeAssumption
<1>2. QED
  BY <1>1, Schedule DEF IInv, TypeOK

\* What is left when a runner is over.
LEMMA OverType ==
  ASSUME NEW b \in Batch \cup {None}, NEW k \in 0..2, NEW pc \in {"back", "ended"}
  PROVE  /\ [Idle EXCEPT !.pc = pc, !.code = k, !.batch = b] \in Job
         /\ [Idle EXCEPT !.pc = pc, !.code = k] \in Job
<1>1. Idle \in Job
  BY Times DEF Idle, Job
<1>2. QED
  BY <1>1 DEF Job

\* The types of what a step gives a cycle.
LEMMA JobType ==
  ASSUME NEW j \in Job, NEW pc \in RunnerPc \cup NoticePc \cup {"start", "ended"}
  PROVE  /\ \A u \in Nat : [j EXCEPT !.pc = pc, !.until = u] \in Job
         /\ \A u \in Nat, l \in 0..Budget : [j EXCEPT !.pc = pc, !.until = u, !.left = l] \in Job
         /\ \A u, n \in Nat : [j EXCEPT !.pc = pc, !.until = u, !.try = n] \in Job
         /\ \A i \in 0..Stages : [j EXCEPT !.pc = pc, !.stage = i] \in Job
         /\ \A k \in 0..2 : [j EXCEPT !.pc = pc, !.code = k] \in Job
         /\ \A d, u \in Nat, l \in 0..Budget :
              [j EXCEPT !.pc = pc, !.deadline = d, !.until = u, !.left = l, !.slow = FALSE]
                \in Job
         /\ \A l \in 0..Budget, w \in Nat : [j EXCEPT !.pc = pc, !.left = l, !.wait = w] \in Job
         /\ \A t \in Nat : [j EXCEPT !.pc = pc, !.at = t] \in Job
<1>1. \A u \in Nat : [j EXCEPT !.pc = pc, !.until = u] \in Job
  BY DEF Job
<1>2. \A u \in Nat, l \in 0..Budget : [j EXCEPT !.pc = pc, !.until = u, !.left = l] \in Job
  BY DEF Job
<1>3. \A u, n \in Nat : [j EXCEPT !.pc = pc, !.until = u, !.try = n] \in Job
  BY DEF Job
<1>4. \A i \in 0..Stages : [j EXCEPT !.pc = pc, !.stage = i] \in Job
  BY DEF Job
<1>5. \A k \in 0..2 : [j EXCEPT !.pc = pc, !.code = k] \in Job
  BY DEF Job
<1>6. \A d, u \in Nat, l \in 0..Budget :
       [j EXCEPT !.pc = pc, !.deadline = d, !.until = u, !.left = l, !.slow = FALSE] \in Job
  BY DEF Job
<1>7. \A l \in 0..Budget, w \in Nat : [j EXCEPT !.pc = pc, !.left = l, !.wait = w] \in Job
  BY DEF Job
<1>8. \A t \in Nat : [j EXCEPT !.pc = pc, !.at = t] \in Job
  BY DEF Job
<1>9. QED
  BY <1>1, <1>2, <1>3, <1>4, <1>5, <1>6, <1>7, <1>8

\* A cycle begins.
LEMMA CronInv ==
  ASSUME IInv, NEW c \in Cycle, Cron(c)
  PROVE  IInv'
<1> DEFINE r == [job[c] EXCEPT !.pc = "start"]
<1> USE Own, Times
<1>1. r \in Job
  BY DEF Cron, Job, RunnerPc, NoticePc, Component
<1>2. Set(c, r) /\ UNCHANGED <<now, landed>> /\ done \subseteq done' /\ done' \subseteq Batch
  BY DEF Cron, Set, To
<1>3. lock' \in Cycle \cup {None} /\ alert' \in [Component -> Nat] /\ faults' \in 0..MaxFaults
  BY DEF Cron, IInv, TypeOK, Fault
<1>4. ASSUME job'[c] = r PROVE RunnerKnows(c)'
  BY <1>2, <1>4 DEF Cron, RunnerKnows, Job, RunnerPc, Timed, NoticePc
<1>5. ASSUME job'[c] = r PROVE NoticeKnows(c)'
  BY <1>2, <1>5 DEF Cron, NoticeKnows, Listed, RunnerPc, Timed, NoticePc
<1> HIDE DEF r
<1>6. QED
  BY <1>1, <1>2, <1>3, <1>4, <1>5, OneMoves

\* The runner gets the rest of the budget, and its cycle waits for that and the grace.
LEMMA LaunchInv ==
  ASSUME IInv, NEW c \in Cycle, Launch(c)
  PROVE  IInv'
<1> DEFINE r == [job[c] EXCEPT !.pc = "boot", !.left = Due(c) - now, !.wait = WaitFor(c)]
<1> USE Own, Times
<1>0. Due(c) - now \in 0..Budget /\ WaitFor(c) = Due(c) + Grace /\ WaitFor(c) \in Nat
  BY DEF Launch, RunnerKnows, WaitFor
<1>1. r \in Job
  BY <1>0, JobType DEF RunnerPc
<1>2. Set(c, r) /\ UNCHANGED <<now, landed>> /\ done \subseteq done' /\ done' \subseteq Batch
  BY <1>0 DEF Launch, Set, To
<1>3. lock' \in Cycle \cup {None} /\ alert' \in [Component -> Nat] /\ faults' \in 0..MaxFaults
  BY DEF Launch, IInv, TypeOK, Fault
<1>4. ASSUME job'[c] = r PROVE RunnerKnows(c)'
  BY <1>0, <1>2, <1>4 DEF Launch, RunnerKnows, Job, RunnerPc, Timed, NoticePc
<1>5. ASSUME job'[c] = r PROVE NoticeKnows(c)'
  BY <1>0, <1>2, <1>5 DEF Launch, NoticeKnows, Listed, RunnerPc, Timed, NoticePc
<1> HIDE DEF r
<1>6. QED
  BY <1>1, <1>2, <1>3, <1>4, <1>5, OneMoves

\* A cycle that comes to its launch too late ends.
LEMMA TooLateInv ==
  ASSUME IInv, NEW c \in Cycle, TooLate(c)
  PROVE  IInv'
<1> DEFINE r == [Idle EXCEPT !.pc = "ended", !.code = 2]
<1> USE Own, Times
<1>1. r \in Job
  <2>1. job[c].batch \in Batch \cup {None} /\ 2 \in 0..2
    BY DEF Job
  <2>2. "back" \in {"back", "ended"} /\ "ended" \in {"back", "ended"}
    OBVIOUS
  <2>3. QED
    BY <2>1, <2>2, OverType, Zenon
<1>2. Set(c, r) /\ UNCHANGED <<now, landed>> /\ done \subseteq done' /\ done' \subseteq Batch
  BY DEF TooLate, Set, To, Idle
<1>3. lock' \in Cycle \cup {None} /\ alert' \in [Component -> Nat] /\ faults' \in 0..MaxFaults
  BY DEF TooLate, IInv, TypeOK, Fault, Idle
<1>4. ASSUME job'[c] = r PROVE RunnerKnows(c)'
  BY <1>2, <1>4 DEF TooLate, RunnerKnows, Job, RunnerPc, Timed, NoticePc, Idle
<1>5. ASSUME job'[c] = r PROVE NoticeKnows(c)'
  BY <1>2, <1>5 DEF TooLate, NoticeKnows, Listed, RunnerPc, Timed, NoticePc, Idle
<1> HIDE DEF r
<1>6. QED
  BY <1>1, <1>2, <1>3, <1>4, <1>5, OneMoves

\* A runner that cannot be launched has failed.
LEMMA LaunchFailsInv ==
  ASSUME IInv, NEW c \in Cycle, LaunchFails(c)
  PROVE  IInv'
<1> DEFINE r == [Idle EXCEPT !.pc = "back", !.code = 2]
<1> USE Own, Times
<1>1. r \in Job
  <2>1. job[c].batch \in Batch \cup {None} /\ 2 \in 0..2
    BY DEF Job
  <2>2. "back" \in {"back", "ended"} /\ "ended" \in {"back", "ended"}
    OBVIOUS
  <2>3. QED
    BY <2>1, <2>2, OverType, Zenon
<1>2. Set(c, r) /\ UNCHANGED <<now, landed>> /\ done \subseteq done' /\ done' \subseteq Batch
  BY DEF LaunchFails, Set, To, Idle
<1>3. lock' \in Cycle \cup {None} /\ alert' \in [Component -> Nat] /\ faults' \in 0..MaxFaults
  BY DEF LaunchFails, IInv, TypeOK, Fault, Idle
<1>4. ASSUME job'[c] = r PROVE RunnerKnows(c)'
  BY <1>2, <1>4 DEF LaunchFails, RunnerKnows, Job, RunnerPc, Timed, NoticePc, Idle
<1>5. ASSUME job'[c] = r PROVE NoticeKnows(c)'
  BY <1>2, <1>5 DEF LaunchFails, NoticeKnows, Listed, RunnerPc, Timed, NoticePc, Idle
<1> HIDE DEF r
<1>6. QED
  BY <1>1, <1>2, <1>3, <1>4, <1>5, OneMoves

\* A runner is killed.
LEMMA KillInv ==
  ASSUME IInv, NEW c \in Cycle, Kill(c)
  PROVE  IInv'
<1> DEFINE r == [Idle EXCEPT !.pc = "back", !.code = 2, !.batch = job[c].batch]
<1> USE Own, Times
<1>1. r \in Job
  <2>1. job[c].batch \in Batch \cup {None} /\ 2 \in 0..2
    BY DEF Job
  <2>2. "back" \in {"back", "ended"} /\ "ended" \in {"back", "ended"}
    OBVIOUS
  <2>3. QED
    BY <2>1, <2>2, OverType, Zenon
<1>2. Set(c, r) /\ UNCHANGED <<now, landed>> /\ done \subseteq done' /\ done' \subseteq Batch
  BY DEF Kill, Set, To, Exit, Idle
<1>3. lock' \in Cycle \cup {None} /\ alert' \in [Component -> Nat] /\ faults' \in 0..MaxFaults
  BY DEF Kill, IInv, TypeOK, Fault, Exit, Idle
<1>4. ASSUME job'[c] = r PROVE RunnerKnows(c)'
  BY <1>2, <1>4 DEF Kill, RunnerKnows, Job, RunnerPc, Timed, NoticePc, Exit, Idle
<1>5. ASSUME job'[c] = r PROVE NoticeKnows(c)'
  BY <1>2, <1>5 DEF Kill, NoticeKnows, Listed, RunnerPc, Timed, NoticePc, Exit, Idle
<1> HIDE DEF r
<1>6. QED
  BY <1>1, <1>2, <1>3, <1>4, <1>5, OneMoves

\* A runner finds the lock taken.
LEMMA BusyInv ==
  ASSUME IInv, NEW c \in Cycle, Busy(c)
  PROVE  IInv'
<1> DEFINE r == [Idle EXCEPT !.pc = "back", !.code = 2, !.batch = job[c].batch]
<1> USE Own, Times
<1>1. r \in Job
  <2>1. job[c].batch \in Batch \cup {None} /\ 2 \in 0..2
    BY DEF Job
  <2>2. "back" \in {"back", "ended"} /\ "ended" \in {"back", "ended"}
    OBVIOUS
  <2>3. QED
    BY <2>1, <2>2, OverType, Zenon
<1>2. Set(c, r) /\ UNCHANGED <<now, landed>> /\ done \subseteq done' /\ done' \subseteq Batch
  BY DEF Busy, Set, To, Exit, Idle
<1>3. lock' \in Cycle \cup {None} /\ alert' \in [Component -> Nat] /\ faults' \in 0..MaxFaults
  BY DEF Busy, IInv, TypeOK, Fault, Exit, Idle
<1>4. ASSUME job'[c] = r PROVE RunnerKnows(c)'
  BY <1>2, <1>4 DEF Busy, RunnerKnows, Job, RunnerPc, Timed, NoticePc, Exit, Idle
<1>5. ASSUME job'[c] = r PROVE NoticeKnows(c)'
  BY <1>2, <1>5 DEF Busy, NoticeKnows, Listed, RunnerPc, Timed, NoticePc, Exit, Idle
<1> HIDE DEF r
<1>6. QED
  BY <1>1, <1>2, <1>3, <1>4, <1>5, OneMoves

\* The deadline of a runner is the deadline of its cycle.
LEMMA BeginInv ==
  ASSUME IInv, NEW c \in Cycle, Begin(c)
  PROVE  IInv'
<1> DEFINE r == [job[c] EXCEPT !.pc = "plan", !.deadline = Deadline(c), !.until = Deadline(c),
                               !.left = 0, !.slow = FALSE]
<1> USE Own, Times
<1>0. Deadline(c) = Due(c) /\ Due(c) \in Nat /\ now < Due(c) /\ 0 \in 0..Budget
  <2>1. job[c].left \in Nat /\ Due(c) <= now + job[c].left /\ now < Due(c)
    BY DEF Begin, RunnerKnows, Job
  <2>2. Deadline(c) \in {now + job[c].left, Due(c)} /\ Deadline(c) <= Due(c)
    <3>1. now + (Due(c) - now) = Due(c)
      OBVIOUS
    <3>2. now + job[c].left \in Int /\ Due(c) \in Int
      BY <2>1
    <3>3. QED
      BY <3>1, <3>2, Earlier DEF Deadline
  <2>3. QED
    BY <2>1, <2>2
<1>1. r \in Job
  <2>1. "plan" \in RunnerPc \cup NoticePc \cup {"start", "ended"}
    BY DEF RunnerPc
  <2>2. QED
    BY <1>0, <2>1, JobType, Zenon
<1>2. Set(c, r) /\ UNCHANGED <<now, landed>> /\ done \subseteq done' /\ done' \subseteq Batch
  BY <1>0 DEF Begin, Set, To
<1>3. lock' \in Cycle \cup {None} /\ alert' \in [Component -> Nat] /\ faults' \in 0..MaxFaults
  BY DEF Begin, IInv, TypeOK, Fault
<1>4. ASSUME job'[c] = r PROVE RunnerKnows(c)'
  BY <1>0, <1>2, <1>4 DEF Begin, RunnerKnows, Job, RunnerPc, Timed, NoticePc
<1>5. ASSUME job'[c] = r PROVE NoticeKnows(c)'
  BY <1>0, <1>2, <1>5 DEF Begin, NoticeKnows, Listed, RunnerPc, Timed, NoticePc
<1> HIDE DEF r
<1>6. QED
  BY <1>1, <1>2, <1>3, <1>4, <1>5, OneMoves

\* The time of a stage ends with the deadline.
LEMMA IntendInv ==
  ASSUME IInv, NEW c \in Cycle, Intend(c)
  PROVE  IInv'
<1> DEFINE r == [job[c] EXCEPT !.pc = "intent", !.until = now + Journal,
                          !.left = Min({StageLimit, job[c].deadline - now})]
<1> USE Own, Times
<1>0. /\ Min({StageLimit, job[c].deadline - now}) \in 0..(Due(c) - now)
      /\ Due(c) - now \in 0..Budget /\ job[c].deadline = Due(c)
      /\ Min({StageLimit, job[c].deadline - now}) \in 0..Budget /\ now + Journal \in Nat
  <2>1. job[c].deadline = Due(c) /\ At(c) <= now /\ now < Due(c)
    BY DEF Intend, RunnerKnows, RunnerPc, InTime
  <2>2. Due(c) - now \in 0..Budget
    BY <2>1
  <2>3. StageLimit \in Int /\ Due(c) - now \in Int
    BY <2>2
  <2>4. /\ Min({StageLimit, Due(c) - now}) \in {StageLimit, Due(c) - now}
        /\ Min({StageLimit, Due(c) - now}) <= Due(c) - now
    BY <2>3, Earlier
  <2>5. QED
    BY <2>1, <2>2, <2>4
<1>1. r \in Job
  <2>1. "intent" \in RunnerPc \cup NoticePc \cup {"start", "ended"}
    BY DEF RunnerPc
  <2>2. QED
    BY <1>0, <2>1, JobType, Zenon
<1>2. Set(c, r) /\ UNCHANGED <<now, landed>> /\ done \subseteq done' /\ done' \subseteq Batch
  BY <1>0 DEF Intend, Set, To
<1>3. lock' \in Cycle \cup {None} /\ alert' \in [Component -> Nat] /\ faults' \in 0..MaxFaults
  BY DEF Intend, IInv, TypeOK, Fault
<1>4. ASSUME job'[c] = r PROVE RunnerKnows(c)'
  BY <1>0, <1>2, <1>4 DEF Intend, RunnerKnows, Job, RunnerPc, Timed, NoticePc
<1>5. ASSUME job'[c] = r PROVE NoticeKnows(c)'
  BY <1>0, <1>2, <1>5 DEF Intend, NoticeKnows, Listed, RunnerPc, Timed, NoticePc
<1> HIDE DEF r
<1>6. QED
  BY <1>1, <1>2, <1>3, <1>4, <1>5, OneMoves

\* The stage starts.
LEMMA ComposeInv ==
  ASSUME IInv, NEW c \in Cycle, Compose(c)
  PROVE  IInv'
<1> DEFINE r == [job[c] EXCEPT !.pc = "stage", !.until = now + job[c].left, !.left = 0]
<1> USE Own, Times
<1>0. /\ now <= job[c].until /\ job[c].left \in Nat
      /\ now + job[c].left \in Nat /\ 0 \in 0..Budget
  BY DEF Compose, RunnerKnows, Timed, RunnerPc, Job
<1>1. r \in Job
  <2>1. "stage" \in RunnerPc \cup NoticePc \cup {"start", "ended"}
    BY DEF RunnerPc
  <2>2. QED
    BY <1>0, <2>1, JobType, Zenon
<1>2. Set(c, r) /\ UNCHANGED <<now, landed>> /\ done \subseteq done' /\ done' \subseteq Batch
  BY <1>0 DEF Compose, Set, To
<1>3. lock' \in Cycle \cup {None} /\ alert' \in [Component -> Nat] /\ faults' \in 0..MaxFaults
  BY DEF Compose, IInv, TypeOK, Fault
<1>4. ASSUME job'[c] = r PROVE RunnerKnows(c)'
  BY <1>0, <1>2, <1>4 DEF Compose, RunnerKnows, Job, RunnerPc, Timed, NoticePc
<1>5. ASSUME job'[c] = r PROVE NoticeKnows(c)'
  BY <1>0, <1>2, <1>5 DEF Compose, NoticeKnows, Listed, RunnerPc, Timed, NoticePc
<1> HIDE DEF r
<1>6. QED
  BY <1>1, <1>2, <1>3, <1>4, <1>5, OneMoves

\* A stage is over.
LEMMA StageDoneInv ==
  ASSUME IInv, NEW c \in Cycle, StageDone(c)
  PROVE  IInv'
<1> DEFINE r == [job[c] EXCEPT !.pc = "ready", !.stage = @ + 1]
<1> USE Own, Times
<1>0. job[c].stage \in Nat /\ job[c].stage < Stages /\ job[c].stage + 1 \in 0..Stages
  BY DEF StageDone, RunnerKnows, Job
<1>1. r \in Job
  <2>1. "ready" \in RunnerPc \cup NoticePc \cup {"start", "ended"}
    BY DEF RunnerPc
  <2>2. QED
    BY <1>0, <2>1, JobType, Zenon
<1>2. Set(c, r) /\ UNCHANGED <<now, landed>> /\ done \subseteq done' /\ done' \subseteq Batch
  BY <1>0 DEF StageDone, Set, To
<1>3. lock' \in Cycle \cup {None} /\ alert' \in [Component -> Nat] /\ faults' \in 0..MaxFaults
  BY DEF StageDone, IInv, TypeOK, Fault
<1>4. ASSUME job'[c] = r PROVE RunnerKnows(c)'
  BY <1>0, <1>2, <1>4 DEF StageDone, RunnerKnows, Job, RunnerPc, Timed, NoticePc
<1>5. ASSUME job'[c] = r PROVE NoticeKnows(c)'
  BY <1>0, <1>2, <1>5 DEF StageDone, NoticeKnows, Listed, RunnerPc, Timed, NoticePc
<1> HIDE DEF r
<1>6. QED
  BY <1>1, <1>2, <1>3, <1>4, <1>5, OneMoves

\* The container of a stage is to be removed.
LEMMA StageTimesOutInv ==
  ASSUME IInv, NEW c \in Cycle, StageTimesOut(c)
  PROVE  IInv'
<1> DEFINE r == [job[c] EXCEPT !.pc = "cleanup", !.until = now + Removal]
<1> USE Own, Times
<1>0. now + Removal \in Nat
  OBVIOUS
<1>1. r \in Job
  <2>1. "cleanup" \in RunnerPc \cup NoticePc \cup {"start", "ended"}
    BY DEF RunnerPc
  <2>2. QED
    BY <1>0, <2>1, JobType, Zenon
<1>2. Set(c, r) /\ UNCHANGED <<now, landed>> /\ done \subseteq done' /\ done' \subseteq Batch
  BY <1>0 DEF StageTimesOut, Set, To
<1>3. lock' \in Cycle \cup {None} /\ alert' \in [Component -> Nat] /\ faults' \in 0..MaxFaults
  BY DEF StageTimesOut, IInv, TypeOK, Fault
<1>4. ASSUME job'[c] = r PROVE RunnerKnows(c)'
  BY <1>0, <1>2, <1>4 DEF StageTimesOut, RunnerKnows, Job, RunnerPc, Timed, NoticePc
<1>5. ASSUME job'[c] = r PROVE NoticeKnows(c)'
  BY <1>0, <1>2, <1>5 DEF StageTimesOut, NoticeKnows, Listed, RunnerPc, Timed, NoticePc
<1> HIDE DEF r
<1>6. QED
  BY <1>1, <1>2, <1>3, <1>4, <1>5, OneMoves

\* The outcome of the removal goes to the journal.
LEMMA CleanupEndsInv ==
  ASSUME IInv, NEW c \in Cycle, CleanupEnds(c)
  PROVE  IInv'
<1> DEFINE r == [job[c] EXCEPT !.pc = "outcome", !.until = now + Journal]
<1> USE Own, Times
<1>0. now + Journal \in Nat
  OBVIOUS
<1>1. r \in Job
  <2>1. "outcome" \in RunnerPc \cup NoticePc \cup {"start", "ended"}
    BY DEF RunnerPc
  <2>2. QED
    BY <1>0, <2>1, JobType, Zenon
<1>2. Set(c, r) /\ UNCHANGED <<now, landed>> /\ done \subseteq done' /\ done' \subseteq Batch
  BY <1>0 DEF CleanupEnds, Set, To
<1>3. lock' \in Cycle \cup {None} /\ alert' \in [Component -> Nat] /\ faults' \in 0..MaxFaults
  BY DEF CleanupEnds, IInv, TypeOK, Fault
<1>4. ASSUME job'[c] = r PROVE RunnerKnows(c)'
  BY <1>0, <1>2, <1>4 DEF CleanupEnds, RunnerKnows, Job, RunnerPc, Timed, NoticePc
<1>5. ASSUME job'[c] = r PROVE NoticeKnows(c)'
  BY <1>0, <1>2, <1>5 DEF CleanupEnds, NoticeKnows, Listed, RunnerPc, Timed, NoticePc
<1> HIDE DEF r
<1>6. QED
  BY <1>1, <1>2, <1>3, <1>4, <1>5, OneMoves

\* A query ends with the deadline.
LEMMA QueryInv ==
  ASSUME IInv, NEW c \in Cycle, Query(c)
  PROVE  IInv'
<1> DEFINE r == [job[c] EXCEPT !.pc = "query", !.until = Min({now + QueryLimit, job[c].deadline}),
                          !.try = IF job[c].pc = "sleep" THEN @ + 1 ELSE @]
<1> USE Own, Times
<1>0. /\ now <= Min({now + QueryLimit, job[c].deadline})
      /\ Min({now + QueryLimit, job[c].deadline}) \in Nat
  <2>1. job[c].deadline \in Nat /\ now < job[c].deadline
    BY DEF Query, InTime, Job
  <2>2. now + QueryLimit \in Int /\ job[c].deadline \in Int
    BY <2>1
  <2>3. Min({now + QueryLimit, job[c].deadline}) \in {now + QueryLimit, job[c].deadline}
    BY <2>2, Earlier
  <2>4. QED
    BY <2>1, <2>3
<1>1. r \in Job
  <2>1. "query" \in RunnerPc \cup NoticePc \cup {"start", "ended"}
    BY DEF RunnerPc
  <2>2. CASE job[c].pc = "sleep"
    <3>1. job[c].try + 1 \in Nat
      BY DEF Job
    <3>2. r = [job[c] EXCEPT !.pc = "query", !.until = Min({now + QueryLimit, job[c].deadline}),
                             !.try = job[c].try + 1]
      BY <2>2
    <3>3. QED
      BY <1>0, <2>1, <3>1, <3>2, JobType, Zenon
  <2>3. CASE job[c].pc # "sleep"
    <3>1. job[c].try \in Nat
      BY DEF Job
    <3>2. r = [job[c] EXCEPT !.pc = "query", !.until = Min({now + QueryLimit, job[c].deadline}),
                             !.try = job[c].try]
      BY <2>3
    <3>3. QED
      BY <1>0, <2>1, <3>1, <3>2, JobType, Zenon
  <2>4. QED
    BY <2>2, <2>3
<1>2. Set(c, r) /\ UNCHANGED <<now, landed>> /\ done \subseteq done' /\ done' \subseteq Batch
  BY <1>0 DEF Query, Set, To
<1>3. lock' \in Cycle \cup {None} /\ alert' \in [Component -> Nat] /\ faults' \in 0..MaxFaults
  BY DEF Query, IInv, TypeOK, Fault
<1>4. ASSUME job'[c] = r PROVE RunnerKnows(c)'
  BY <1>0, <1>2, <1>4 DEF Query, RunnerKnows, Job, RunnerPc, Timed, NoticePc
<1>5. ASSUME job'[c] = r PROVE NoticeKnows(c)'
  BY <1>0, <1>2, <1>5 DEF Query, NoticeKnows, Listed, RunnerPc, Timed, NoticePc
<1> HIDE DEF r
<1>6. QED
  BY <1>1, <1>2, <1>3, <1>4, <1>5, OneMoves

\* So does the pause before the next one.
LEMMA QueryRetriedInv ==
  ASSUME IInv, NEW c \in Cycle, QueryRetried(c)
  PROVE  IInv'
<1> DEFINE r == [job[c] EXCEPT !.pc = "sleep", !.until = Min({now + Delay, job[c].deadline})]
<1> USE Own, Times
<1>0. now <= Min({now + Delay, job[c].deadline}) /\ Min({now + Delay, job[c].deadline}) \in Nat
  <2>1. job[c].deadline \in Nat /\ now < job[c].deadline
    BY DEF QueryRetried, InTime, Job
  <2>2. now + Delay \in Int /\ job[c].deadline \in Int
    BY <2>1
  <2>3. Min({now + Delay, job[c].deadline}) \in {now + Delay, job[c].deadline}
    BY <2>2, Earlier
  <2>4. QED
    BY <2>1, <2>3
<1>1. r \in Job
  <2>1. "sleep" \in RunnerPc \cup NoticePc \cup {"start", "ended"}
    BY DEF RunnerPc
  <2>2. QED
    BY <1>0, <2>1, JobType, Zenon
<1>2. Set(c, r) /\ UNCHANGED <<now, landed>> /\ done \subseteq done' /\ done' \subseteq Batch
  BY <1>0 DEF QueryRetried, Set, To
<1>3. lock' \in Cycle \cup {None} /\ alert' \in [Component -> Nat] /\ faults' \in 0..MaxFaults
  BY DEF QueryRetried, IInv, TypeOK, Fault
<1>4. ASSUME job'[c] = r PROVE RunnerKnows(c)'
  BY <1>0, <1>2, <1>4 DEF QueryRetried, RunnerKnows, Job, RunnerPc, Timed, NoticePc
<1>5. ASSUME job'[c] = r PROVE NoticeKnows(c)'
  BY <1>0, <1>2, <1>5 DEF QueryRetried, NoticeKnows, Listed, RunnerPc, Timed, NoticePc
<1> HIDE DEF r
<1>6. QED
  BY <1>1, <1>2, <1>3, <1>4, <1>5, OneMoves

\* The mart is verified.
LEMMA VerifiedInv ==
  ASSUME IInv, NEW c \in Cycle, Verified(c)
  PROVE  IInv'
<1> DEFINE r == [job[c] EXCEPT !.pc = "save", !.until = job[c].deadline]
<1> USE Own, Times
<1>1. r \in Job
  <2>1. job[c].deadline \in Nat
    BY DEF Job
  <2>2. QED
    BY <2>1, JobType DEF RunnerPc
<1>2. Set(c, r) /\ UNCHANGED <<now, landed>> /\ done \subseteq done' /\ done' \subseteq Batch
  BY DEF Verified, Set, To, InTime
<1>3. lock' \in Cycle \cup {None} /\ alert' \in [Component -> Nat] /\ faults' \in 0..MaxFaults
  BY DEF Verified, IInv, TypeOK, Fault, InTime
<1>4. ASSUME job'[c] = r PROVE RunnerKnows(c)'
  BY <1>2, <1>4 DEF Verified, RunnerKnows, Job, RunnerPc, Timed, NoticePc, InTime
<1>5. ASSUME job'[c] = r PROVE NoticeKnows(c)'
  BY <1>2, <1>5 DEF Verified, NoticeKnows, Listed, RunnerPc, Timed, NoticePc, InTime
<1> HIDE DEF r
<1>6. QED
  BY <1>1, <1>2, <1>3, <1>4, <1>5, OneMoves

\* The batch is recorded.
LEMMA CommitInv ==
  ASSUME IInv, NEW c \in Cycle, Commit(c)
  PROVE  IInv'
<1> DEFINE r == [Idle EXCEPT !.pc = "back", !.code = 0, !.batch = job[c].batch]
<1> USE Own, Times
<1>0. job[c].batch \in Batch
  <2>1. job[c].batch # None
    BY DEF Commit, NoticeKnows, RunnerPc
  <2>2. QED
    BY <2>1 DEF Job
<1>1. r \in Job
  <2>1. job[c].batch \in Batch \cup {None} /\ 0 \in 0..2
    BY DEF Job
  <2>2. "back" \in {"back", "ended"} /\ "ended" \in {"back", "ended"}
    OBVIOUS
  <2>3. QED
    BY <2>1, <2>2, OverType, Zenon
<1>2. Set(c, r) /\ UNCHANGED <<now, landed>> /\ done \subseteq done' /\ done' \subseteq Batch
  BY <1>0 DEF Commit, Set, To, Exit, Idle
<1>3. lock' \in Cycle \cup {None} /\ alert' \in [Component -> Nat] /\ faults' \in 0..MaxFaults
  BY DEF Commit, IInv, TypeOK, Fault, Exit, Idle
<1>4. ASSUME job'[c] = r PROVE RunnerKnows(c)'
  BY <1>0, <1>2, <1>4 DEF Commit, RunnerKnows, Job, RunnerPc, Timed, NoticePc, Exit, Idle
<1>5. ASSUME job'[c] = r PROVE NoticeKnows(c)'
  BY <1>0, <1>2, <1>5 DEF Commit, NoticeKnows, Listed, RunnerPc, Timed, NoticePc, Exit, Idle
<1> HIDE DEF r
<1>6. QED
  BY <1>1, <1>2, <1>3, <1>4, <1>5, OneMoves

\* A runner fails.
LEMMA RunnerFailsInv ==
  ASSUME IInv, NEW c \in Cycle, RunnerFails(c)
  PROVE  IInv'
<1> DEFINE r == [Idle EXCEPT !.pc = "back", !.code = 2, !.batch = job[c].batch]
<1> USE Own, Times
<1>1. r \in Job
  <2>1. job[c].batch \in Batch \cup {None} /\ 2 \in 0..2
    BY DEF Job
  <2>2. "back" \in {"back", "ended"} /\ "ended" \in {"back", "ended"}
    OBVIOUS
  <2>3. QED
    BY <2>1, <2>2, OverType, Zenon
<1>2. Set(c, r) /\ UNCHANGED <<now, landed>> /\ done \subseteq done' /\ done' \subseteq Batch
  BY DEF RunnerFails, Set, To, Exit, Idle
<1>3. lock' \in Cycle \cup {None} /\ alert' \in [Component -> Nat] /\ faults' \in 0..MaxFaults
  BY DEF RunnerFails, IInv, TypeOK, Fault, Exit, Idle
<1>4. ASSUME job'[c] = r PROVE RunnerKnows(c)'
  BY <1>2, <1>4 DEF RunnerFails, RunnerKnows, Job, RunnerPc, Timed, NoticePc, Exit, Idle
<1>5. ASSUME job'[c] = r PROVE NoticeKnows(c)'
  BY <1>2, <1>5 DEF RunnerFails, NoticeKnows, Listed, RunnerPc, Timed, NoticePc, Exit, Idle
<1> HIDE DEF r
<1>6. QED
  BY <1>1, <1>2, <1>3, <1>4, <1>5, OneMoves

\* The time of the observation is taken.
LEMMA ObserveInv ==
  ASSUME IInv, NEW c \in Cycle, Observe(c)
  PROVE  IInv'
<1> DEFINE r == [job[c] EXCEPT !.pc = "reading", !.at = now]
<1> USE Own, Times
<1>1. r \in Job
  BY JobType DEF NoticePc
<1>2. Set(c, r) /\ UNCHANGED <<now, landed>> /\ done \subseteq done' /\ done' \subseteq Batch
  BY DEF Observe, Set, To
<1>3. lock' \in Cycle \cup {None} /\ alert' \in [Component -> Nat] /\ faults' \in 0..MaxFaults
  BY DEF Observe, IInv, TypeOK, Fault
<1>4. ASSUME job'[c] = r PROVE RunnerKnows(c)'
  BY <1>2, <1>4 DEF Observe, RunnerKnows, Job, RunnerPc, Timed, NoticePc
<1>5. ASSUME job'[c] = r PROVE NoticeKnows(c)'
  BY <1>2, <1>5 DEF Observe, NoticeKnows, Listed, RunnerPc, Timed, NoticePc
<1> HIDE DEF r
<1>6. QED
  BY <1>1, <1>2, <1>3, <1>4, <1>5, OneMoves

\* A process with no timer of its own takes time.
LEMMA SlowInv ==
  ASSUME IInv, NEW c \in Cycle, Slow(c)
  PROVE  IInv'
<1> DEFINE r == [job[c] EXCEPT !.slow = TRUE]
<1> USE Own, Times
<1>1. r \in Job
  BY DEF Job
<1>2. Set(c, r) /\ UNCHANGED <<now, landed>> /\ done \subseteq done' /\ done' \subseteq Batch
  BY DEF Slow, Set, To, Unbounded
<1>3. lock' \in Cycle \cup {None} /\ alert' \in [Component -> Nat] /\ faults' \in 0..MaxFaults
  BY DEF Slow, IInv, TypeOK, Fault, Unbounded
<1>4. ASSUME job'[c] = r PROVE RunnerKnows(c)'
  BY <1>2, <1>4 DEF Slow, RunnerKnows, Job, RunnerPc, Timed, NoticePc, Unbounded
<1>5. ASSUME job'[c] = r PROVE NoticeKnows(c)'
  BY <1>2, <1>5 DEF Slow, NoticeKnows, Listed, RunnerPc, Timed, NoticePc, Unbounded
<1> HIDE DEF r
<1>6. QED
  BY <1>1, <1>2, <1>3, <1>4, <1>5, OneMoves

\* The earliest of the batches that are not recorded, if there is one.
LEMMA SelectInv ==
  ASSUME IInv, NEW c \in Cycle, Select(c)
  PROVE  IInv'
<1> USE Own, Times
<1>1. CASE Pending = {}
  <2> DEFINE r == [Idle EXCEPT !.pc = "back", !.code = 0, !.batch = job[c].batch]
  <2>1. r \in Job
    <3>1. job[c].batch \in Batch \cup {None} /\ 0 \in 0..2
      BY DEF Job
    <3>2. "back" \in {"back", "ended"}
      OBVIOUS
    <3>3. QED
      BY <3>1, <3>2, OverType, Zenon
  <2>2. Set(c, r) /\ UNCHANGED <<now, landed>> /\ done \subseteq done' /\ done' \subseteq Batch
    BY <1>1 DEF Select, Set, Exit, Idle
  <2>3. lock' \in Cycle \cup {None} /\ alert' \in [Component -> Nat] /\ faults' \in 0..MaxFaults
    BY <1>1 DEF Select, IInv, TypeOK, Fault, Exit, Idle
  <2>4. ASSUME job'[c] = r PROVE RunnerKnows(c)'
    BY <1>1, <2>2, <2>4 DEF Select, RunnerKnows, Job, RunnerPc, Timed, NoticePc, Exit, Idle
  <2>5. ASSUME job'[c] = r PROVE NoticeKnows(c)'
    BY <1>1, <2>2, <2>5 DEF Select, NoticeKnows, Listed, RunnerPc, Timed, NoticePc, Exit, Idle
  <2> HIDE DEF r
  <2>6. QED
    BY <2>1, <2>2, <2>3, <2>4, <2>5, OneMoves
<1>2. CASE Pending # {}
  <2>0. Min(Pending) \in Batch /\ Min(Pending) # None
    <3>1. Pending \subseteq Batch /\ Batch \subseteq Nat
      BY TimeAssumption DEF Pending, Listed
    <3>2. Min(Pending) \in Pending
      BY <1>2, <3>1, Least
    <3>3. QED
      BY <3>1, <3>2
  <2> DEFINE r == [job[c] EXCEPT !.pc = "ready", !.batch = Min(Pending)]
  <2>1. r \in Job
    BY ZenonT(30), <2>0 DEF Job, RunnerPc
  <2>2. Set(c, r) /\ UNCHANGED <<now, landed>> /\ done \subseteq done' /\ done' \subseteq Batch
    BY <1>2, <2>0 DEF Select, Set
  <2>3. lock' \in Cycle \cup {None} /\ alert' \in [Component -> Nat] /\ faults' \in 0..MaxFaults
    BY <1>2, <2>0 DEF Select, IInv, TypeOK, Fault
  <2>4. ASSUME job'[c] = r PROVE RunnerKnows(c)'
    BY <1>2, <2>0, <2>2, <2>4 DEF Select, RunnerKnows, Job, RunnerPc, Timed, NoticePc
  <2>5. ASSUME job'[c] = r PROVE NoticeKnows(c)'
    BY <1>2, <2>0, <2>2, <2>5 DEF Select, NoticeKnows, Listed, RunnerPc, Timed, NoticePc
  <2> HIDE DEF r
  <2>6. QED
    BY <2>1, <2>2, <2>3, <2>4, <2>5, OneMoves
<1>3. QED
  BY <1>1, <1>2

\* The notification gets what is left.
LEMMA BackInv ==
  ASSUME IInv, NEW c \in Cycle, Back(c)
  PROVE  IInv'
<1> USE Own, Times
<1>1. CASE now >= Due(c)
  <2> DEFINE r == [job[c] EXCEPT !.pc = "ended", !.code = 2]
  <2>1. r \in Job
    <3>1. "ended" \in RunnerPc \cup NoticePc \cup {"start", "ended"} /\ 2 \in 0..2
      OBVIOUS
    <3>2. QED
      BY <3>1, JobType, Zenon
  <2>2. Set(c, r) /\ UNCHANGED <<now, landed>> /\ done \subseteq done' /\ done' \subseteq Batch
    BY <1>1 DEF Back, Set
  <2>3. lock' \in Cycle \cup {None} /\ alert' \in [Component -> Nat] /\ faults' \in 0..MaxFaults
    BY <1>1 DEF Back, IInv, TypeOK, Fault
  <2>4. ASSUME job'[c] = r PROVE RunnerKnows(c)'
    BY <1>1, <2>2, <2>4 DEF Back, RunnerKnows, Job, RunnerPc, Timed, NoticePc
  <2>5. ASSUME job'[c] = r PROVE NoticeKnows(c)'
    BY <1>1, <2>2, <2>5 DEF Back, NoticeKnows, Listed, RunnerPc, Timed, NoticePc
  <2> HIDE DEF r
  <2>6. QED
    BY <2>1, <2>2, <2>3, <2>4, <2>5, OneMoves
<1>2. CASE ~(now >= Due(c))
  <2>0. NoticeUntil(c) \in Nat /\ now <= NoticeUntil(c)
    BY <1>2 DEF NoticeUntil
  <2> DEFINE r == [job[c] EXCEPT !.pc = "notify", !.until = NoticeUntil(c)]
  <2>1. r \in Job
    <3>1. "notify" \in RunnerPc \cup NoticePc \cup {"start", "ended"}
      BY DEF NoticePc
    <3>2. QED
      BY <2>0, <3>1, JobType, Zenon
  <2>2. Set(c, r) /\ UNCHANGED <<now, landed>> /\ done \subseteq done' /\ done' \subseteq Batch
    BY <1>2, <2>0 DEF Back, Set
  <2>3. lock' \in Cycle \cup {None} /\ alert' \in [Component -> Nat] /\ faults' \in 0..MaxFaults
    BY <1>2, <2>0 DEF Back, IInv, TypeOK, Fault
  <2>4. ASSUME job'[c] = r PROVE RunnerKnows(c)'
    BY <1>2, <2>0, <2>2, <2>4 DEF Back, RunnerKnows, Job, RunnerPc, Timed, NoticePc
  <2>5. ASSUME job'[c] = r PROVE NoticeKnows(c)'
    BY <1>2, <2>0, <2>2, <2>5 DEF Back, NoticeKnows, Listed, RunnerPc, Timed, NoticePc
  <2> HIDE DEF r
  <2>6. QED
    BY <2>1, <2>2, <2>3, <2>4, <2>5, OneMoves
<1>3. QED
  BY <1>1, <1>2

\* The report says what is true of the batches at the time of the observation.
LEMMA ReadInv ==
  ASSUME IInv, NEW c \in Cycle, Read(c)
  PROVE  IInv'
<1> DEFINE at == job[c].at
           st == (IF SourceStale(at) THEN {"ingestion"} ELSE {})
                 \cup (IF BacklogStale(at) THEN {"processing"} ELSE {})
           r == [job[c] EXCEPT !.pc = "observed", !.stale = st]
<1> USE Own, Times
<1>1. st \in SUBSET Component
  BY DEF Component
<1>2. \/ "processing" \in st
      \/ \A b \in Batch : at - landed[b] > BacklogAge => b \in done
  <2>1. SUFFICES ASSUME ~BacklogStale(at), NEW b \in Batch, at - landed[b] > BacklogAge
                 PROVE  b \in done
    OBVIOUS
  <2>2. at \in Nat /\ at <= now
    BY DEF NoticeKnows, Job
  <2>3. landed[b] \in Nat
    BY TimeAssumption DEF IInv, TypeOK
  <2>4. b \in Listed
    BY <2>1, <2>2, <2>3 DEF Listed
  <2>5. QED
    BY <2>1, <2>4 DEF BacklogStale, Pending
<1>3. "ingestion" \in st \/ \E b \in Listed : at - landed[b] <= SourceAge
  <2>1. SUFFICES ASSUME ~SourceStale(at) PROVE \E b \in Listed : at - landed[b] <= SourceAge
    OBVIOUS
  <2>2. PICK b \in Listed : ~(at - landed[b] > SourceAge)
    BY <2>1 DEF SourceStale
  <2>3. at \in Nat /\ landed[b] \in Nat
    BY TimeAssumption DEF IInv, TypeOK, Job, Listed
  <2>4. QED
    BY <2>2, <2>3
<1>4. Set(c, r) /\ UNCHANGED <<now, landed>> /\ done \subseteq done' /\ done' \subseteq Batch
  BY DEF Read, Set
<1>5. job[c].pc = "reading"
  BY DEF Read
<1>6. lock' \in Cycle \cup {None} /\ alert' \in [Component -> Nat] /\ faults' \in 0..MaxFaults
  BY DEF Read, IInv, TypeOK
<1> HIDE DEF st
<1>7. r \in Job
  BY <1>1 DEF Job, NoticePc
<1>8. ASSUME job'[c] = r PROVE RunnerKnows(c)'
  BY <1>4, <1>5, <1>8 DEF RunnerKnows, Job, RunnerPc, Timed, NoticePc
<1>9. ASSUME job'[c] = r PROVE NoticeKnows(c)'
  <2>1. /\ job'[c].pc = "observed" /\ job'[c].batch = job[c].batch /\ job'[c].code = job[c].code
        /\ job'[c].at = at /\ job'[c].stale = st
    BY <1>9 DEF Job
  <2>2. Listed' = Listed
    BY <1>4 DEF Listed
  <2>3. QED
    BY <1>2, <1>3, <1>4, <1>5, <2>1, <2>2 DEF NoticeKnows, RunnerPc
<1> HIDE DEF r
<1>10. QED
  BY <1>4, <1>6, <1>7, <1>8, <1>9, OneMoves

\* When the alerts end is a time.
LEMMA Ends ==
  ASSUME IInv, NEW c \in Cycle
  PROVE  EndsAt(c) \in [Component -> Nat]
<1>1. job[c].at \in Nat /\ job[c].at + Valid \in Nat
  BY Own, Times DEF Job
<1>2. QED
  BY <1>1 DEF EndsAt

\* A notification ends: what was wrong with the runner is not forgotten.
LEMMA EndInv ==
  ASSUME IInv, NEW c \in Cycle, NEW code \in 0..2, End(c, code), job[c].pc \in NoticePc,
         code = 0 => job[c].pc = "observed" /\ job[c].stale = {},
         UNCHANGED <<now, landed, done, lock>>,
         alert' \in [Component -> Nat], faults' \in 0..MaxFaults
  PROVE  IInv'
<1> DEFINE k == IF job[c].code # 0 THEN job[c].code ELSE code
           r == [job[c] EXCEPT !.pc = "ended", !.slow = FALSE, !.until = 0, !.code = k]
<1> USE Own, Times
<1>1. k \in 0..2 /\ (k = 0 => job[c].code = 0 /\ code = 0)
  BY DEF Job
<1>2. Set(c, r)
  BY DEF End, Set
<1>3. lock' \in Cycle \cup {None}
  BY DEF IInv, TypeOK
<1> HIDE DEF k
<1>4. r \in Job
  BY ZenonT(30), <1>1 DEF Job
<1>5. ASSUME job'[c] = r PROVE RunnerKnows(c)'
  BY <1>5 DEF RunnerKnows, Job, RunnerPc, Timed, NoticePc
<1>6. ASSUME job'[c] = r PROVE NoticeKnows(c)'
  <2>1. /\ job'[c].pc = "ended" /\ job'[c].batch = job[c].batch /\ job'[c].code = k
        /\ job'[c].at = job[c].at /\ job'[c].stale = job[c].stale
    BY <1>6 DEF Job
  <2>2. Listed' = Listed /\ job[c].pc \notin RunnerPc
    BY DEF Listed, NoticePc, RunnerPc
  <2>3. QED
    BY <1>1, <2>1, <2>2 DEF NoticeKnows, RunnerPc
<1> HIDE DEF r
<1>7. QED
  BY <1>2, <1>3, <1>4, <1>5, <1>6, OneMoves

\* Alertmanager takes the alerts.
LEMMA AcceptedInv ==
  ASSUME IInv, NEW c \in Cycle, Accepted(c)
  PROVE  IInv'
<1> DEFINE code == IF job[c].stale = {} THEN 0 ELSE 1
<1>1. code \in 0..2 /\ End(c, code) /\ (code = 0 => job[c].stale = {})
  BY DEF Accepted
<1>2. /\ job[c].pc = "observed" /\ UNCHANGED <<now, landed, done, lock>>
      /\ alert' = EndsAt(c) /\ faults' \in 0..MaxFaults
  BY DEF Accepted, IInv, TypeOK
<1>3. job[c].pc \in NoticePc
  BY <1>2 DEF NoticePc
<1> HIDE DEF code
<1>4. QED
  BY <1>1, <1>2, <1>3, Ends, EndInv

\* A notification fails.
LEMMA NoticeFailsInv ==
  ASSUME IInv, NEW c \in Cycle, NoticeFails(c)
  PROVE  IInv'
<1>1. End(c, 2) /\ 2 \in 0..2 /\ 2 # 0 /\ job[c].pc \in NoticePc
  BY DEF NoticeFails
<1>2. UNCHANGED <<now, landed, done, lock>> /\ faults' \in 0..MaxFaults
  BY Times DEF NoticeFails, Fault, IInv, TypeOK
<1>3. alert' \in {alert, EndsAt(c)}
  BY DEF NoticeFails
<1>4. alert' \in [Component -> Nat]
  BY <1>3, Ends DEF IInv, TypeOK
<1>5. QED
  BY <1>1, <1>2, <1>4, EndInv

\* Time goes on when nothing is due.
LEMMA TickInv ==
  ASSUME IInv, Tick
  PROVE  IInv'
<1> USE Times, Schedule
<1>1. now' = now + 1 /\ now' \in 0..Horizon /\ now \in Nat
  BY DEF Tick, IInv, TypeOK
<1>2. UNCHANGED <<landed, done, job, lock, alert, faults>>
  BY DEF Tick
<1>3. TypeOK'
  BY <1>1, <1>2 DEF IInv, TypeOK
<1>4. ASSUME NEW c \in Cycle PROVE RunnerKnows(c)' /\ NoticeKnows(c)'
  <2>1. /\ job[c] \in Job /\ RunnerKnows(c) /\ NoticeKnows(c) /\ Waits(c)
        /\ At(c) \in Nat /\ job'[c] = job[c]
    BY <1>2 DEF Tick, IInv, TypeOK
  <2>2. RunnerKnows(c)'
    BY <1>1, <2>1 DEF RunnerKnows, Waits, Job, RunnerPc, Timed, NoticePc, Unbounded
  <2>3. Listed \subseteq Listed'
    <3>1. ASSUME NEW b \in Listed PROVE b \in Listed'
      <4>1. b \in Batch /\ landed[b] <= now /\ landed[b] \in Nat
        BY TimeAssumption DEF Listed, IInv, TypeOK
      <4>2. QED
        BY <1>1, <1>2, <4>1 DEF Listed
    <3>2. QED
      BY <3>1
  <2>4. NoticeKnows(c)'
    <3>1. job[c].at <= now'
      BY <1>1, <2>1 DEF NoticeKnows, Job
    <3>2. QED
      BY <1>2, <2>1, <2>3, <3>1 DEF NoticeKnows
  <2>5. QED
    BY <2>2, <2>4
<1>5. QED
  BY <1>3, <1>4 DEF IInv

\* Every step keeps the invariant.
LEMMA NextInv == IInv /\ [Next]_vars => IInv'
<1> SUFFICES ASSUME IInv, [Next]_vars PROVE IInv'
  OBVIOUS
<1>1. CASE Tick
  BY <1>1, TickInv
<1>2. ASSUME NEW c \in Cycle,
             \/ Cron(c) \/ Launch(c) \/ TooLate(c) \/ LaunchFails(c) \/ Kill(c)
             \/ Busy(c) \/ Begin(c) \/ Select(c) \/ Intend(c) \/ Compose(c) \/ StageDone(c)
      PROVE  IInv'
  BY <1>2, CronInv, LaunchInv, TooLateInv, LaunchFailsInv, KillInv, BusyInv, BeginInv,
     SelectInv, IntendInv, ComposeInv, StageDoneInv
<1>3. ASSUME NEW c \in Cycle,
             \/ StageTimesOut(c) \/ CleanupEnds(c) \/ Query(c) \/ QueryRetried(c)
             \/ Verified(c) \/ Commit(c) \/ RunnerFails(c)
      PROVE  IInv'
  BY <1>3, StageTimesOutInv, CleanupEndsInv, QueryInv, QueryRetriedInv, VerifiedInv, CommitInv,
     RunnerFailsInv
<1>4. ASSUME NEW c \in Cycle,
             \/ Back(c) \/ Observe(c) \/ Read(c) \/ Accepted(c) \/ NoticeFails(c) \/ Slow(c)
      PROVE  IInv'
  BY <1>4, BackInv, ObserveInv, ReadInv, AcceptedInv, NoticeFailsInv, SlowInv
<1>5. CASE UNCHANGED vars
  BY <1>5 DEF vars, IInv, TypeOK, RunnerKnows, NoticeKnows, Listed
<1>6. QED
  BY <1>1, <1>2, <1>3, <1>4, <1>5 DEF Next

-----------------------------------------------------------------------------
\* In every state each time that a process waits for comes from the deadline of its cycle,
\* and a notification has read what is true of the checkpoint.
THEOREM Invariant == Spec => []IInv
<1>1. Init => IInv
  BY InitInv
<1>2. IInv /\ [Next]_vars => IInv'
  BY NextInv
<1>3. QED
  BY <1>1, <1>2, PTL DEF Spec

\* The variables have their types: no wait of a runner is ever negative.
THEOREM TypeCorrect == Spec => []TypeOK
<1>1. IInv => TypeOK
  BY DEF IInv
<1>2. QED
  BY <1>1, Invariant, PTL

\* before_replace: no checkpoint is replaced at or after the deadline of the cycle, however
\* long the launch, the stages, the queries and the writes to the journal took.
THEOREM CommitInTime == Spec => NoLateCommit
<1> DEFINE Late(c) == (done' # done /\ job[c].pc = "save" /\ job'[c].pc = "back") => now < Due(c)
<1>1. ASSUME IInv, [Next]_vars, NEW c \in Cycle, done' # done,
             job[c].pc = "save", job'[c].pc = "back"
      PROVE  now < Due(c)
  <2>1. PICK k \in Cycle : Commit(k)
    BY <1>1 DEF Next, vars, Cron, Launch, TooLate, LaunchFails, Kill, Busy, Begin, Select, Intend,
       Compose, StageDone, StageTimesOut, CleanupEnds, Query, QueryRetried, Verified,
       RunnerFails, Back, Observe, Read, Accepted, NoticeFails, Slow, Tick
  <2>2. k = c
    BY <1>1, <2>1 DEF Commit, Exit, Set, IInv, TypeOK
  <2>3. job[c].deadline = Due(c)
    BY <1>1, Own DEF RunnerKnows, RunnerPc
  <2>4. QED
    BY <2>1, <2>2, <2>3 DEF Commit, InTime
<1>2. IInv /\ [Next]_vars => \A c \in Cycle : Late(c)
  BY <1>1
<1>3. IInv /\ [Next]_vars => [\A c \in Cycle : Late(c)]_vars
  BY <1>2
<1>4. QED
  BY <1>3, Invariant, PTL DEF Spec, NoLateCommit

\* _run_command with its grace: a runner that removes the container of a stage that timed
\* out is never killed in the middle of it, even if the journal kept it waiting first.
THEOREM CleanupSpared == Spec => KillSparesCleanup
<1>1. ASSUME IInv, NEW c \in Cycle, job[c].pc = "cleanup", Kill(c)
      PROVE  FALSE
  <2>1. /\ now <= job[c].until /\ job[c].wait = Due(c) + Grace
        /\ job[c].until <= Due(c) + Journal + Removal
    BY <1>1, Own DEF RunnerKnows, RunnerPc, Timed
  <2>2. now = job[c].wait
    BY <1>1 DEF Kill
  <2>3. /\ now \in Nat /\ job[c].until \in Nat /\ job[c].wait \in Nat
        /\ Due(c) \in Nat
    BY <1>1, Own, Times DEF Job
  <2>4. QED
    BY <2>1, <2>2, <2>3, Times, GraceAssumption
<1>2. IInv => \A c \in Cycle : job[c].pc = "cleanup" => ~Kill(c)
  BY <1>1
<1>3. IInv => [\A c \in Cycle : job[c].pc = "cleanup" => ~Kill(c)]_vars
  BY <1>2
<1>4. QED
  BY <1>3, Invariant, PTL DEF Spec, KillSparesCleanup

\* return runner_code or notification_code: exit code 0 means that the selected batch is in
\* the checkpoint, and that backlog and source were fresh when they were observed.
THEOREM HonestExit == Spec => []ExitIsHonest
<1>1. IInv => ExitIsHonest
  <2>1. SUFFICES ASSUME IInv, NEW c \in Cycle, job[c].pc = "ended", job[c].code = 0
                 PROVE  /\ job[c].batch \in done \cup {None}
                        /\ \A b \in Batch : job[c].at - landed[b] > BacklogAge => b \in done
                        /\ \E b \in Listed : job[c].at - landed[b] <= SourceAge
    BY DEF ExitIsHonest
  <2>2. NoticeKnows(c)
    BY <2>1, Own
  <2>3. QED
    BY <2>1, <2>2 DEF NoticeKnows, RunnerPc
<1>2. QED
  BY <1>1, Invariant, PTL

-----------------------------------------------------------------------------
(* The alert. Of two cycles in a row at least one reports, so what it reports *)
(* is at most two intervals old.                                             *)

Running == RunnerPc \ {"boot"}
Calm == \A c \in Cycle : Prompt(c) /\ OneReports(c) /\ Raised(c)
StepOf(c) ==
  \/ Cron(c) \/ Launch(c) \/ TooLate(c) \/ LaunchFails(c) \/ Kill(c)
  \/ Busy(c) \/ Begin(c) \/ Select(c) \/ Intend(c) \/ Compose(c) \/ StageDone(c)
  \/ StageTimesOut(c) \/ CleanupEnds(c) \/ Query(c) \/ QueryRetried(c)
  \/ Verified(c) \/ Commit(c) \/ RunnerFails(c)
  \/ Back(c) \/ Observe(c) \/ Read(c) \/ Accepted(c) \/ NoticeFails(c) \/ Slow(c)

\* Cycles start one interval apart.
LEMMA OneBefore ==
  ASSUME NEW c \in Cycle, c # 0
  PROVE  c - 1 \in Cycle /\ c - 1 # c /\ At(c) = At(c - 1) + Interval
<1>1. c \in Nat /\ c - 1 \in 0..(Cycles - 1)
  BY Times DEF Cycle
<1>2. (c - 1) * Interval + Interval = c * Interval
  BY <1>1, Times
<1>3. QED
  BY <1>1, <1>2 DEF Cycle, At

\* The runner of a step that computes goes on or leaves, and no other step makes it compute.
LEMMA RunnerKinds ==
  ASSUME IInv, NEW c \in Cycle, StepOf(c)
  PROVE  /\ job' = [job EXCEPT ![c] = job'[c]]
         /\ \/ Begin(c) /\ job'[c].pc = "plan"
            \/ \E code \in 0..2 : Exit(c, code) /\ job[c].pc \in RunnerPc
            \/ /\ job[c].pc \in Running /\ job'[c].pc \in Running
               /\ job'[c].slow = job[c].slow /\ lock' = lock
            \/ job[c].pc \notin Running /\ job'[c].pc \notin Running /\ lock' = lock
<1> USE DEF IInv, TypeOK
<1>0. job[c] \in Job /\ \A code \in {0, 2} : code \in 0..2
  OBVIOUS
<1>1. job' = [job EXCEPT ![c] = job'[c]]
  BY DEF StepOf, Cron, Launch, TooLate, LaunchFails, Kill, Busy, Begin, Select, Intend,
     Compose, StageDone, StageTimesOut, CleanupEnds, Query, QueryRetried, Verified, Commit,
     RunnerFails, Back, Observe, Read, Accepted, NoticeFails, Slow, Exit, End, Set, To
<1>2. CASE Cron(c) \/ Launch(c) \/ TooLate(c) \/ LaunchFails(c)
  <2>1. job[c].pc \in {"off", "start"} /\ lock' = lock
    BY <1>2 DEF Cron, Launch, TooLate, LaunchFails
  <2>2. job'[c].pc \in {"start", "boot", "ended", "back"}
    <3>1. CASE Cron(c) \/ Launch(c)
      BY ZenonT(30), <1>0, <3>1 DEF Cron, Launch, Set, To, Job
    <3>2. CASE TooLate(c) \/ LaunchFails(c)
      BY <1>0, <3>2 DEF TooLate, LaunchFails, Set, Idle
    <3>3. QED
      BY <1>2, <3>1, <3>2
  <2>3. QED
    BY <1>1, <2>1, <2>2 DEF Running, RunnerPc
<1>3. CASE Kill(c) \/ Busy(c) \/ Commit(c) \/ RunnerFails(c)
  BY <1>0, <1>1, <1>3 DEF Kill, Busy, Commit, RunnerFails, RunnerPc
<1>4. CASE Begin(c)
  BY <1>0, <1>1, <1>4 DEF Begin, Set, Job
<1>5. CASE Select(c)
  <2>1. job[c].pc = "plan"
    BY <1>5 DEF Select
  <2>2. CASE Exit(c, 0)
    BY <1>0, <1>1, <2>1, <2>2 DEF RunnerPc
  <2>3. CASE ~Exit(c, 0)
    <3>1. Set(c, [job[c] EXCEPT !.pc = "ready", !.batch = Min(Pending)]) /\ lock' = lock
      BY <1>5, <2>3 DEF Select
    <3>2. job'[c].pc = "ready" /\ job'[c].slow = job[c].slow
      BY <1>0, <3>1 DEF Set, Job
    <3>3. QED
      BY <1>1, <2>1, <3>1, <3>2 DEF Running, RunnerPc
  <2>4. QED
    BY <2>2, <2>3
<1>6. CASE Intend(c) \/ Compose(c) \/ StageDone(c) \/ StageTimesOut(c) \/ CleanupEnds(c)
           \/ Query(c) \/ QueryRetried(c) \/ Verified(c)
  <2>1. /\ job[c].pc \in {"ready", "intent", "stage", "cleanup", "query", "sleep"}
        /\ lock' = lock
    BY <1>6 DEF Intend, Compose, StageDone, StageTimesOut, CleanupEnds, Query, QueryRetried,
                Verified
  <2>2. /\ job'[c].pc \in {"ready", "intent", "stage", "cleanup", "outcome", "query", "sleep", "save"}
        /\ job'[c].slow = job[c].slow
    <3>1. CASE Intend(c)
      BY <1>0, <3>1 DEF Intend, Set, Job
    <3>2. CASE Compose(c)
      BY <1>0, <3>2 DEF Compose, Set, Job
    <3>3. CASE StageDone(c)
      BY <1>0, <3>3 DEF StageDone, Set, Job
    <3>4. CASE StageTimesOut(c)
      BY <1>0, <3>4 DEF StageTimesOut, Set, Job
    <3>5. CASE CleanupEnds(c)
      BY <1>0, <3>5 DEF CleanupEnds, Set, Job
    <3>6. CASE Query(c)
      BY <1>0, <3>6 DEF Query, Set, Job
    <3>7. CASE QueryRetried(c)
      BY <1>0, <3>7 DEF QueryRetried, Set, Job
    <3>8. CASE Verified(c)
      BY <1>0, <3>8 DEF Verified, Set, Job
    <3>9. QED
      BY <1>6, <3>1, <3>2, <3>3, <3>4, <3>5, <3>6, <3>7, <3>8
  <2>3. QED
    BY <1>1, <2>1, <2>2 DEF Running, RunnerPc
<1>7. CASE Back(c) \/ Observe(c) \/ Read(c) \/ Accepted(c) \/ NoticeFails(c)
  <2>1. job[c].pc \in {"back", "notify", "reading", "observed"} /\ lock' = lock
    BY <1>7 DEF Back, Observe, Read, Accepted, NoticeFails, NoticePc
  <2>2. job'[c].pc \in {"notify", "reading", "observed", "ended"}
    <3>1. CASE Back(c)
      <4>1. job'[c] \in {[job[c] EXCEPT !.pc = "ended", !.code = 2],
                         [job[c] EXCEPT !.pc = "notify", !.until = NoticeUntil(c)]}
        BY <1>0, <3>1 DEF Back, Set
      <4>2. QED
        BY <1>0, <4>1 DEF Job
    <3>2. CASE Observe(c)
      BY <1>0, <3>2 DEF Observe, Set, Job
    <3>3. CASE Read(c)
      BY <1>0, <3>3 DEF Read, Set, Job
    <3>4. CASE Accepted(c) \/ NoticeFails(c)
      <4>1. PICK code : End(c, code)
        BY <3>4 DEF Accepted, NoticeFails
      <4>2. QED
        BY <1>0, <4>1 DEF End, Set, Job
    <3>5. QED
      BY <1>7, <3>1, <3>2, <3>3, <3>4
  <2>3. QED
    BY <1>1, <2>1, <2>2 DEF Running, RunnerPc
<1>8. CASE Slow(c)
  <2>1. job[c].pc \in Unbounded /\ job'[c].pc = job[c].pc /\ lock' = lock
    BY <1>0, <1>8 DEF Slow, Set, Job
  <2>2. QED
    BY <1>1, <2>1 DEF Running, RunnerPc, NoticePc, Unbounded
<1>9. QED
  BY <1>2, <1>3, <1>4, <1>5, <1>6, <1>7, <1>8 DEF StepOf

\* One runner at a time computes.
LEMMA LockNext ==
  ASSUME IInv, \A c \in Cycle : HoldsLock(c), [Next]_vars
  PROVE  (\A c \in Cycle : HoldsLock(c))'
<1>1. CASE Tick \/ UNCHANGED vars
  BY <1>1 DEF Tick, vars, HoldsLock
<1>2. ASSUME NEW c \in Cycle, StepOf(c), NEW k \in Cycle PROVE HoldsLock(k)'
  <2>0. /\ job \in [Cycle -> Job] /\ None \notin Cycle
        /\ HoldsLock(k) /\ HoldsLock(c)
    BY TimeAssumption, Schedule DEF IInv, TypeOK
  <2>1. job' = [job EXCEPT ![c] = job'[c]]
    BY <1>2, RunnerKinds
  <2>2. CASE Begin(c)
    BY <2>0, <2>1, <2>2 DEF Begin, HoldsLock
  <2>3. ASSUME NEW code, Exit(c, code) PROVE HoldsLock(k)'
    <3>1. job'[c].pc = "back"
      BY <2>0, <2>3 DEF Exit, Set, Idle
    <3>2. QED
      BY <2>0, <2>1, <2>3, <3>1 DEF Exit, HoldsLock, RunnerPc
  <2>4. CASE /\ job[c].pc \in Running /\ job'[c].pc \in Running
             /\ job'[c].slow = job[c].slow /\ lock' = lock
    BY <2>0, <2>1, <2>4 DEF HoldsLock, Running
  <2>5. CASE job[c].pc \notin Running /\ job'[c].pc \notin Running /\ lock' = lock
    BY <2>0, <2>1, <2>5 DEF HoldsLock, Running
  <2>6. QED
    BY <1>2, <2>2, <2>3, <2>4, <2>5, RunnerKinds
<1>3. QED
  BY <1>1, <1>2 DEF Next, StepOf

\* A step of one cycle that leaves the alerts alone keeps what the others rely on: it withdraws
\* no report and no promise of one.
LEMMA CalmOne ==
  ASSUME IInv, Calm, NEW c \in Cycle, job' = [job EXCEPT ![c] = job'[c]],
         UNCHANGED <<now, landed, alert>>, done \subseteq done', job[c].pc # "ended",
         Reports(c) => Reports(c)', Spent(c) => Spent(c)', Prompt(c)', OneReports(c)', Raised(c)'
  PROVE  Calm'
<1> SUFFICES ASSUME NEW k \in Cycle, k # c PROVE (Prompt(k) /\ OneReports(k) /\ Raised(k))'
  BY DEF Calm
<1>1. job'[k] = job[k] /\ Prompt(k) /\ OneReports(k) /\ Raised(k)
  BY DEF Calm, IInv, TypeOK
<1>2. Prompt(k)'
  BY <1>1 DEF Prompt, Reported
<1>3. Raised(k)'
  BY <1>1 DEF Raised, Pending, Listed
<1>4. OneReports(k)'
  <2>1. SUFFICES ASSUME k # 0, job[k].pc \notin {"off", "start", "boot"}
                 PROVE  \/ Reported(k)' \/ Reported(k - 1)' \/ Spent(k - 1)'
                        \/ now = At(k) /\ (Reports(k)' \/ Reports(k - 1)')
    BY <1>1 DEF OneReports, Reported, Reports
  <2>2. k - 1 \in Cycle
    BY <2>1, OneBefore
  <2>3. Reported(k) => Reported(k)'
    BY <1>1 DEF Reported
  <2>4. Reports(k) => Reports(k)'
    BY <1>1 DEF Reports, Reported
  <2>5. Reported(k - 1) => Reported(k - 1)'
    BY <2>2 DEF Reported, IInv, TypeOK
  <2>6. Reports(k - 1) => Reports(k - 1)'
    <3>1. CASE k - 1 = c
      BY <3>1
    <3>2. CASE k - 1 # c
      BY <2>2, <3>2 DEF Reports, Reported, IInv, TypeOK
    <3>3. QED
      BY <3>1, <3>2
  <2>7. Spent(k - 1) => Spent(k - 1)'
    BY <2>2 DEF Spent, At, Due, IInv, TypeOK
  <2>8. QED
    BY <1>1, <2>1, <2>3, <2>4, <2>5, <2>6, <2>7 DEF OneReports
<1>5. QED
  BY <1>2, <1>3, <1>4

\* What was known of the cycle before c while the runner of c computed is still known.
LEMMA BeforeKept ==
  ASSUME IInv, Calm, NEW c \in Cycle, job' = [job EXCEPT ![c] = job'[c]], now' = now,
         c # 0, job[c].pc \in Running
  PROVE  Reported(c - 1)' \/ Spent(c - 1)' \/ (now = At(c) /\ Reports(c - 1)')
<1>1. c - 1 \in Cycle /\ c - 1 # c
  BY OneBefore
<1>2. job'[c - 1] = job[c - 1]
  BY <1>1 DEF IInv, TypeOK
<1>3. ~Reports(c) /\ ~Reported(c)
  BY DEF Reports, Reported, Running, RunnerPc, NoticePc
<1>4. Reported(c - 1) \/ Spent(c - 1) \/ (now = At(c) /\ Reports(c - 1))
  BY <1>3 DEF Calm, OneReports, Running, RunnerPc
<1>5. QED
  BY <1>2, <1>4 DEF Reported, Reports, Spent, At, Due

\* A runner that computes takes nothing from what is known.
LEMMA RunningCalm ==
  ASSUME IInv, Calm, NEW c \in Cycle, job' = [job EXCEPT ![c] = job'[c]],
         UNCHANGED <<now, landed, alert>>, done \subseteq done',
         job[c].pc \in Running, job'[c].pc \in Running, job'[c].slow = job[c].slow
  PROVE  Calm'
<1>1. job[c].pc # "ended" /\ ~Reports(c) /\ ~Spent(c)
  BY DEF Reports, Reported, Spent, Running, RunnerPc, NoticePc
<1>2. Prompt(c)'
  BY DEF Calm, Prompt, Running, RunnerPc, NoticePc
<1>3. Raised(c)'
  BY DEF Raised, Running, RunnerPc
<1>4. OneReports(c)'
  BY BeforeKept DEF OneReports, Reported, Reports, Spent
<1>5. QED
  BY <1>1, <1>2, <1>3, <1>4, CalmOne

\* A runner that is over leaves its cycle time for the report, or it had the lock, and the
\* cycle before has reported.
LEMMA ExitCalm ==
  ASSUME IInv, Calm, NEW c \in Cycle, NEW code, Exit(c, code), job[c].pc \in RunnerPc,
         UNCHANGED <<now, landed, alert>>, done \subseteq done'
  PROVE  Calm'
<1>0. job' = [job EXCEPT ![c] = job'[c]] /\ job[c].pc # "ended" /\ ~Reports(c)
      /\ ~Spent(c)
  BY DEF Exit, Set, IInv, TypeOK, Reports, Reported, Spent, RunnerPc, NoticePc
<1>1. job'[c].pc = "back" /\ job'[c].at = 0 /\ job'[c].slow = FALSE
  BY DEF Exit, Set, Idle, IInv, TypeOK
<1>2. Prompt(c)'
  BY <1>1 DEF Prompt, NoticePc
<1>3. Raised(c)'
  BY <1>1 DEF Raised
<1>4. OneReports(c)'
  <2>1. CASE job[c].pc = "boot"
    <3>1. now = At(c) /\ now < Due(c)
      BY <2>1, Own, TimeAssumption DEF Calm, Prompt
    <3>2. QED
      BY <1>1, <3>1 DEF OneReports, Reports, At, Due
  <2>2. CASE job[c].pc \in Running
    BY <1>0, <2>2, BeforeKept DEF OneReports, Reported, Reports, Spent
  <2>3. QED
    BY <2>1, <2>2 DEF Running
<1>5. QED
  BY <1>0, <1>2, <1>3, <1>4, CalmOne

\* A runner gets the lock when the runner of the cycle before is over, in time to report or
\* with its budget spent.
LEMMA BeginCalm ==
  ASSUME IInv, Calm, \A k \in Cycle : HoldsLock(k),
         NEW c \in Cycle, Begin(c)
  PROVE  Calm'
<1>0. /\ job' = [job EXCEPT ![c] = job'[c]] /\ job[c].pc = "boot" /\ ~Reports(c)
      /\ UNCHANGED <<now, landed, alert, done>> /\ lock = None /\ ~Spent(c)
  BY DEF Begin, Set, IInv, TypeOK, Reports, Reported, Spent, NoticePc
<1>1. job'[c].pc = "plan" /\ job'[c].slow = FALSE
  BY DEF Begin, Set, IInv, TypeOK, Job
<1>2. Prompt(c)' /\ Raised(c)'
  BY <1>1 DEF Prompt, Raised, NoticePc
<1>3. now = At(c)
  BY <1>0 DEF Calm, Prompt
<1>4. ASSUME c # 0 PROVE Reports(c - 1) \/ Spent(c - 1)
  <2> DEFINE k == c - 1
  <2>1. k \in Cycle /\ At(c) = At(k) + Interval /\ k + 1 = c
    BY <1>4, OneBefore, Schedule
  <2>2. /\ At(k) \in Nat /\ now \in Nat /\ Due(k) = At(k) + Budget /\ job[k] \in Job
        /\ Prompt(k) /\ HoldsLock(k) /\ k \in Nat
    BY <2>1, Own, Schedule DEF Calm
  <2> HIDE DEF k
  <2>3. At(k) < now /\ Due(k) \in Nat
    BY <1>3, <2>1, <2>2, TimeAssumption
  <2>4. job[k].pc \notin {"off", "start", "boot"}
    <3>1. /\ job[k].pc = "off" => now <= At(k)
          /\ job[k].pc \in {"start", "boot"} => now = At(k)
      BY <2>2 DEF Prompt
    <3>2. QED
      BY <2>2, <2>3, <3>1
  <2>5. job[k].pc \notin Running
    BY <1>0, <2>2, TimeAssumption DEF HoldsLock, Running
  <2>6. job[k].pc \in NoticePc \cup {"back", "ended"}
    BY <2>2, <2>4, <2>5 DEF Job, Running
  <2>7. CASE now < Due(k)
    <3>1. job[k].pc = "ended" => Reported(k) \/ now >= Due(k)
      BY <2>2 DEF Prompt
    <3>2. job[k].pc = "ended" => Reported(k)
      BY <2>2, <2>3, <2>7, <3>1
    <3>3. Reports(k)
      BY <2>6, <2>7, <3>2 DEF Reports
    <3>4. QED
      BY <3>3 DEF k
  <2>8. CASE Due(k) <= now
    <3>1. job[k].pc \in NoticePc => now < Due(k)
      BY <2>2 DEF Prompt
    <3>2. job[k].pc \in {"back", "ended"}
      BY <2>2, <2>3, <2>6, <2>8, <3>1
    <3>3. Due(k) <= At(k + 1)
      BY <1>3, <2>1, <2>8
    <3>4. Spent(k)
      BY <2>8, <3>2, <3>3 DEF Spent
    <3>5. QED
      BY <3>4 DEF k
  <2>9. QED
    BY <2>2, <2>3, <2>7, <2>8
<1>5. OneReports(c)'
  <2>1. SUFFICES ASSUME c # 0 PROVE Spent(c - 1)' \/ (now' = At(c) /\ Reports(c - 1)')
    BY DEF OneReports, At
  <2>2. c - 1 \in Cycle /\ c - 1 # c /\ (Reports(c - 1) \/ Spent(c - 1))
    BY <1>4, <2>1, OneBefore
  <2>3. job'[c - 1] = job[c - 1]
    BY <1>0, <2>2 DEF IInv, TypeOK
  <2>4. QED
    BY <1>0, <1>3, <2>2, <2>3 DEF Reports, Reported, Spent, At, Due
<1>6. QED
  BY <1>0, <1>2, <1>5, CalmOne

\* A cycle starts, and its runner, at the time of the schedule.
LEMMA StartCalm ==
  ASSUME IInv, Calm, NEW c \in Cycle, Cron(c) \/ Launch(c)
  PROVE  Calm'
<1>0. /\ job' = [job EXCEPT ![c] = job'[c]] /\ job[c].pc \in {"off", "start"}
      /\ UNCHANGED <<now, landed, alert, done>> /\ ~Reports(c) /\ ~Spent(c)
  BY DEF Cron, Launch, To, Set, IInv, TypeOK, Reports, Reported, Spent, NoticePc
<1>1. job'[c].pc \in {"start", "boot"} /\ job'[c].slow = job[c].slow
  BY ZenonT(30) DEF Cron, Launch, To, Set, IInv, TypeOK, Job
<1>2. now = At(c)
  BY DEF Cron, Launch, Calm, Prompt
<1>3. Prompt(c)'
  BY <1>0, <1>1, <1>2 DEF Calm, Prompt, NoticePc, At
<1>4. Raised(c)' /\ OneReports(c)'
  BY <1>1 DEF Raised, OneReports
<1>5. QED
  BY <1>0, <1>3, <1>4, CalmOne

\* The cycle goes from the runner to its report, which waits for nothing.
LEMMA NoticeCalm ==
  ASSUME IInv, Calm, NEW c \in Cycle, Back(c) \/ Observe(c) \/ Read(c)
  PROVE  Calm'
<1> DEFINE pc == job[c].pc
<1>0. /\ job' = [job EXCEPT ![c] = job'[c]] /\ pc \in {"back", "notify", "reading"}
      /\ UNCHANGED <<now, landed, alert, done>> /\ job[c] \in Job /\ Prompt(c) /\ OneReports(c)
      /\ now \in Nat /\ At(c) \in Nat /\ Due(c) = At(c) + Budget /\ RunnerKnows(c)
  BY Own DEF Back, Observe, Read, Set, IInv, TypeOK, Calm
<1>1. /\ job'[c].slow = job[c].slow
      /\ \/ pc = "back" /\ job'[c].pc = "ended" /\ now >= Due(c) /\ job'[c].at = job[c].at
         \/ pc = "back" /\ job'[c].pc = "notify" /\ now < Due(c) /\ job'[c].until = Due(c)
         \/ /\ pc = "notify" /\ job'[c].pc = "reading" /\ job'[c].at = now
            /\ job'[c].until = job[c].until
         \/ /\ pc = "reading" /\ job'[c].pc = "observed" /\ job'[c].at = job[c].at
            /\ job'[c].until = job[c].until
  <2>1. NoticeUntil(c) = Due(c)
    BY <1>0, Times DEF NoticeUntil
  <2>2. CASE Back(c) /\ now >= Due(c)
    <3>1. job' = [job EXCEPT ![c] = [job[c] EXCEPT !.pc = "ended", !.code = 2]]
      BY <1>0, <2>2 DEF Back, Set
    <3>2. job'[c] = [job[c] EXCEPT !.pc = "ended", !.code = 2]
      BY <3>1 DEF IInv, TypeOK
    <3>3. pc = "back"
      BY <2>2 DEF Back
    <3>4. QED
      BY <1>0, <2>2, <3>2, <3>3 DEF Job
  <2>3. CASE Back(c) /\ now < Due(c)
    <3>1. job' = [job EXCEPT ![c] = [job[c] EXCEPT !.pc = "notify", !.until = Due(c)]]
      BY <1>0, <2>1, <2>3, Times DEF Back, Set
    <3>2. job'[c] = [job[c] EXCEPT !.pc = "notify", !.until = Due(c)]
      BY <3>1 DEF IInv, TypeOK
    <3>3. pc = "back"
      BY <2>3 DEF Back
    <3>4. QED
      BY <1>0, <2>3, <3>2, <3>3 DEF Job
  <2>4. CASE Observe(c)
    <3>1. job'[c] = [job[c] EXCEPT !.pc = "reading", !.at = now] /\ pc = "notify"
      BY <2>4 DEF Observe, Set, IInv, TypeOK
    <3>2. QED
      BY <1>0, <3>1 DEF Job
  <2>5. CASE Read(c)
    <3>1. PICK st : job'[c] = [job[c] EXCEPT !.pc = "observed", !.stale = st]
      BY <2>5 DEF Read, Set, IInv, TypeOK
    <3>2. pc = "reading"
      BY <2>5 DEF Read
    <3>3. QED
      BY <1>0, <3>1, <3>2 DEF Job
  <2>6. now >= Due(c) \/ now < Due(c)
    BY <1>0, Times
  <2>7. QED
    BY <2>2, <2>3, <2>4, <2>5, <2>6
<1>2. Prompt(c)'
  BY <1>0, <1>1 DEF Prompt, NoticePc, At, Due, Reported
<1>3. Raised(c)'
  <2>1. SUFFICES ASSUME job'[c].pc = "ended", NEW b \in Pending', job'[c].at - landed[b] > BacklogAge
                 PROVE  FALSE
    BY <1>0 DEF Raised
  <2>2. job'[c].at = 0 /\ b \in Batch
    BY <1>0, <1>1, <2>1 DEF Prompt, Pending, Listed
  <2>3. landed[b] \in Nat
    BY <2>2, TimeAssumption DEF IInv, TypeOK
  <2>4. QED
    BY <2>1, <2>2, <2>3, Times
<1>4. Reports(c) => Reports(c)'
  <2>1. Due(c)' = Due(c) /\ now' = now /\ Due(c) \in Nat
    BY <1>0, Times DEF At, Due
  <2>2. CASE job'[c].pc = "ended"
    BY <1>0, <1>1, <2>1, <2>2 DEF Reports, Reported
  <2>3. CASE job'[c].pc # "ended"
    BY <1>0, <1>1, <2>1, <2>3 DEF Reports, Reported, NoticePc
  <2>4. QED
    BY <2>2, <2>3
<1>5. OneReports(c)'
  <2>1. SUFFICES ASSUME c # 0
                 PROVE  \/ Reported(c - 1)' \/ Spent(c - 1)'
                        \/ now = At(c) /\ (Reports(c)' \/ Reports(c - 1)')
    BY <1>0 DEF OneReports, At
  <2>2. c - 1 \in Cycle /\ c - 1 # c /\ ~Reported(c)
    BY <1>0, <2>1, OneBefore DEF Reported
  <2>3. job'[c - 1] = job[c - 1]
    BY <1>0, <2>2 DEF IInv, TypeOK
  <2>4. Reported(c - 1) \/ Spent(c - 1) \/ (now = At(c) /\ (Reports(c) \/ Reports(c - 1)))
    BY <1>0, <2>1, <2>2 DEF OneReports
  <2>5. QED
    BY <1>0, <1>4, <2>3, <2>4 DEF Reports, Reported, Spent, At, Due
<1>6. Spent(c) => Spent(c)'
  BY <1>0, <1>1, Times DEF Spent, At, Due
<1>7. QED
  BY <1>0, <1>2, <1>3, <1>4, <1>5, <1>6, CalmOne

\* Alertmanager gets what was observed this very moment: of a batch that is still pending it
\* says at least what the reports before it said.
LEMMA AcceptedCalm ==
  ASSUME IInv, Calm, NEW c \in Cycle, Accepted(c)
  PROVE  Calm'
<1>0. /\ job' = [job EXCEPT ![c] = job'[c]] /\ job[c].pc = "observed" /\ alert' = EndsAt(c)
      /\ UNCHANGED <<now, landed, done>> /\ job[c] \in Job /\ Prompt(c) /\ NoticeKnows(c)
      /\ now \in Nat /\ At(c) <= now /\ At(c) \in Nat
  BY Own DEF Accepted, End, Set, IInv, TypeOK, Calm, RunnerKnows
<1>1. job'[c].pc = "ended" /\ job'[c].at = job[c].at /\ job'[c].slow = FALSE
  <2>1. PICK code : job'[c] =
                [job[c] EXCEPT !.pc = "ended", !.slow = FALSE, !.until = 0, !.code = code]
    BY <1>0 DEF Accepted, End, Set, IInv, TypeOK
  <2>2. QED
    BY <1>0, <2>1 DEF Job
<1>2. job[c].at = now
  BY <1>0 DEF Prompt
<1>3. Reported(c)'
  BY <1>0, <1>1, <1>2 DEF Reported, At
<1>4. ASSUME NEW k \in Cycle PROVE Prompt(k)'
  <2>1. CASE k = c
    BY <1>1, <1>3, <2>1 DEF Prompt, NoticePc
  <2>2. CASE k # c
    BY <1>0, <2>2 DEF Calm, Prompt, Reported, IInv, TypeOK
  <2>3. QED
    BY <2>1, <2>2
<1>5. ASSUME NEW k \in Cycle PROVE OneReports(k)'
  <2>1. ASSUME NEW m \in Cycle
        PROVE  /\ Reported(m) => Reported(m)'
               /\ Reports(m) => Reports(m)'
               /\ Spent(m) => Spent(m)'
    <3>1. CASE m = c
      BY <1>0, <1>3, <3>1 DEF Reports, Spent
    <3>2. CASE m # c
      BY <1>0, <3>2 DEF Reported, Reports, Spent, At, Due, IInv, TypeOK
    <3>3. QED
      BY <3>1, <3>2
  <2>2. CASE k = c
    BY <1>3, <2>2 DEF OneReports
  <2>3. CASE k # c
    <3>1. job'[k] = job[k] /\ OneReports(k) /\ now' = now
      BY <1>0, <2>3 DEF Calm, IInv, TypeOK
    <3>2. k # 0 => k - 1 \in Cycle
      BY OneBefore
    <3>3. QED
      BY <2>1, <3>1, <3>2 DEF OneReports, At
  <2>4. QED
    BY <2>2, <2>3
<1>6. ASSUME NEW k \in Cycle PROVE Raised(k)'
  <2>1. SUFFICES ASSUME NEW b \in Pending, job'[k].at - landed[b] > BacklogAge
                 PROVE  alert'["processing"] >= job'[k].at + Valid
    BY <1>0 DEF Raised, Pending, Listed
  <2>2. b \in Batch /\ b \notin done /\ landed[b] \in Nat
    BY TimeAssumption DEF Pending, Listed, IInv, TypeOK
  <2>3. job'[k].at \in Nat /\ job'[k].at <= now
    <3>1. CASE k = c
      BY <1>0, <1>1, <1>2, <3>1
    <3>2. CASE k # c
      <4>1. job'[k] = job[k] /\ job[k] \in Job /\ NoticeKnows(k)
        BY <1>0, <3>2 DEF IInv, TypeOK
      <4>2. QED
        BY <4>1 DEF NoticeKnows, Job
    <3>3. QED
      BY <3>1, <3>2
  <2>4. job[c].at - landed[b] > BacklogAge
    BY <1>0, <1>2, <2>1, <2>2, <2>3, Times
  <2>5. "processing" \in job[c].stale
    BY <1>0, <2>2, <2>4 DEF NoticeKnows
  <2>6. alert'["processing"] = now + Valid
    BY <1>0, <1>2, <2>5 DEF EndsAt, Component
  <2>7. QED
    BY <1>0, <2>3, <2>6, Times
<1>7. QED
  BY <1>4, <1>5, <1>6 DEF Calm

\* Time goes on: whoever was to report has done so, and a batch that lands is not old.
LEMMA TickCalm ==
  ASSUME IInv, Calm, Tick
  PROVE  Calm'
<1>0. UNCHANGED <<landed, done, job, alert>> /\ now' = now + 1 /\ now \in Nat
  BY DEF Tick, IInv, TypeOK
<1>1. ASSUME NEW c \in Cycle
      PROVE  /\ job[c].pc \notin NoticePc \cup {"back", "start", "boot"}
             /\ job[c].pc = "off" => now < At(c)
  BY DEF Tick, Waits, Calm, Prompt, Unbounded
<1>2. ASSUME NEW c \in Cycle
      PROVE  (Reported(c) => Reported(c)') /\ (Reports(c) => Reported(c)) /\ (Spent(c) => Spent(c)')
  <2>1. Due(c) \in Nat
    BY Schedule, Times
  <2>2. Spent(c) => Spent(c)'
    BY <1>0, <2>1 DEF Spent, At, Due
  <2>3. QED
    BY <1>0, <1>1, <2>2 DEF Reports, Reported
<1>3. ASSUME NEW c \in Cycle PROVE Prompt(c)'
  <2>1. Prompt(c) /\ At(c) \in Nat /\ Due(c) = At(c) + Budget
    BY Schedule DEF Calm
  <2>2. job[c].pc = "ended" => Reported(c)' \/ now' >= Due(c)
    BY <1>0, <1>2, <2>1, Times DEF Prompt
  <2>3. QED
    BY <1>0, <1>1, <2>1, <2>2 DEF Prompt, NoticePc, At, Due
<1>4. ASSUME NEW c \in Cycle PROVE OneReports(c)'
  <2>1. c # 0 => c - 1 \in Cycle
    BY OneBefore
  <2>2. OneReports(c)
    BY DEF Calm
  <2>3. QED
    BY <1>0, <1>2, <2>1, <2>2 DEF OneReports
<1>5. ASSUME NEW c \in Cycle PROVE Raised(c)'
  <2>1. SUFFICES ASSUME job[c].pc = "ended", NEW b \in Pending', job[c].at - landed[b] > BacklogAge
                 PROVE  alert["processing"] >= job[c].at + Valid
    BY <1>0 DEF Raised
  <2>2. /\ b \in Batch /\ b \notin done /\ landed[b] \in Nat
        /\ job[c].at \in Nat /\ job[c].at <= now
    BY <1>0, TimeAssumption DEF Pending, Listed, IInv, TypeOK, NoticeKnows, Job
  <2>3. b \in Pending
    BY <1>0, <2>1, <2>2, Times DEF Pending, Listed
  <2>4. QED
    BY <2>1, <2>3 DEF Calm, Raised
<1>6. QED
  BY <1>3, <1>4, <1>5 DEF Calm

\* While nothing goes wrong every step keeps what the cycles know of each other.
LEMMA CalmNext ==
  ASSUME IInv, AlertInv, [Next]_vars, faults' = 0
  PROVE  Calm'
<1>0. faults \in Nat /\ \A c \in Cycle : HoldsLock(c)
  BY Times DEF IInv, TypeOK, AlertInv
<1>1. faults = 0 /\ Calm /\ UNCHANGED faults
  <2>1. faults' = faults \/ Fault
    BY DEF Next, vars, Cron, Launch, TooLate, LaunchFails, Kill, Busy, Begin, Select, Intend,
       Compose, StageDone, StageTimesOut, CleanupEnds, Query, QueryRetried, Verified, Commit,
       RunnerFails, Back, Observe, Read, Accepted, NoticeFails, Slow, Tick
  <2>2. QED
    BY <1>0, <2>1 DEF Fault, AlertInv, Calm
<1>2. ~Fault
  BY <1>0, <1>1 DEF Fault
<1>3. CASE Tick
  BY <1>1, <1>3, TickCalm
<1>4. CASE UNCHANGED vars
  BY <1>1, <1>4 DEF vars, Calm, Prompt, OneReports, Raised, Reported, Reports, Spent, Pending,
     Listed, At, Due
<1>5. ASSUME NEW c \in Cycle, StepOf(c) PROVE Calm'
  <2>0. /\ job[c] \in Job /\ Prompt(c) /\ now \in Nat /\ At(c) \in Nat
        /\ Due(c) = At(c) + Budget
    BY <1>1, Own DEF Calm
  <2>1. ~LaunchFails(c) /\ ~Slow(c)
    BY <1>2 DEF LaunchFails, Slow
  <2>2. ~TooLate(c)
    BY <2>0, TimeAssumption DEF TooLate, Prompt
  <2>3. ~NoticeFails(c)
    BY <1>2, <2>0 DEF NoticeFails, Prompt
  <2>4. CASE Cron(c) \/ Launch(c)
    BY <1>1, <2>4, StartCalm
  <2>5. CASE Back(c) \/ Observe(c) \/ Read(c)
    BY <1>1, <2>5, NoticeCalm
  <2>6. CASE Accepted(c)
    BY <1>1, <2>6, AcceptedCalm
  <2>7. CASE Begin(c)
    BY <1>0, <1>1, <2>7, BeginCalm
  <2>8. CASE /\ ~Begin(c)
             /\ \/ Kill(c) \/ Busy(c) \/ Select(c) \/ Intend(c) \/ Compose(c) \/ StageDone(c)
                \/ StageTimesOut(c) \/ CleanupEnds(c) \/ Query(c) \/ QueryRetried(c)
                \/ Verified(c) \/ Commit(c) \/ RunnerFails(c)
    <3>1. UNCHANGED <<now, landed, alert>> /\ done \subseteq done' /\ job[c].pc \in RunnerPc
      BY <2>8 DEF Kill, Busy, Select, Intend, Compose, StageDone, StageTimesOut, CleanupEnds,
         Query, QueryRetried, Verified, Commit, RunnerFails, RunnerPc
    <3>2. job[c].pc = "boot" => Busy(c) \/ RunnerFails(c) \/ Kill(c)
      BY <2>8 DEF Select, Intend, Compose, StageDone, StageTimesOut, CleanupEnds,
         Query, QueryRetried, Verified, Commit
    <3>3. ASSUME NEW code, Exit(c, code) PROVE Calm'
      BY <1>1, <3>1, <3>3, ExitCalm
    <3>4. CASE Busy(c) \/ RunnerFails(c) \/ Kill(c)
      BY <3>3, <3>4 DEF Busy, RunnerFails, Kill
    <3>5. CASE job[c].pc \in Running
      <4>1. /\ job' = [job EXCEPT ![c] = job'[c]]
            /\ \/ \E code \in 0..2 : Exit(c, code)
               \/ job'[c].pc \in Running /\ job'[c].slow = job[c].slow
        BY <1>5, <2>8, <3>5, RunnerKinds
      <4>2. QED
        BY <1>1, <3>1, <3>3, <3>5, <4>1, RunningCalm
    <3>6. QED
      BY <3>1, <3>2, <3>4, <3>5 DEF Running
  <2>9. QED
    BY <1>5, <2>1, <2>2, <2>3, <2>4, <2>5, <2>6, <2>7, <2>8 DEF StepOf
<1>6. QED
  BY <1>3, <1>4, <1>5 DEF Next, StepOf

\* At the start nobody has the lock and nothing has been reported.
LEMMA InitAlert == Init => AlertInv
<1> SUFFICES ASSUME Init, NEW c \in Cycle
             PROVE  HoldsLock(c) /\ Prompt(c) /\ OneReports(c) /\ Raised(c)
  BY DEF AlertInv
<1>1. job[c] = Idle /\ now = 0 /\ At(c) \in Nat
  BY Schedule DEF Init
<1>2. QED
  BY <1>1 DEF Idle, HoldsLock, Prompt, OneReports, Raised, RunnerPc, NoticePc

\* Every time after the first interval is in the interval of some cycle, or at its end.
LEMMA SomeCycle ==
  ASSUME now \in 0..Horizon, now > Interval
  PROVE  \E c \in Cycle : c # 0 /\ At(c) < now /\ now <= At(c) + Interval
<1> DEFINE S == {k \in Nat : now <= k * Interval + Interval}
<1>0. now \in Nat /\ Interval \in Nat \ {0} /\ Cycles \in Nat \ {0}
  BY TimeAssumption, Schedule
<1>1. now * Interval >= now
  BY <1>0
<1>2. now \in S
  BY <1>0, <1>1
<1> DEFINE m == Min(S)
<1>3. m \in S /\ \A n \in S : m <= n
  BY <1>2, Least
<1> HIDE DEF m
<1>4. m \in Nat /\ now <= m * Interval + Interval
  BY <1>3
<1>5. m # 0
  <2>1. m = 0 => m * Interval = 0
    BY <1>0
  <2>2. QED
    BY <1>0, <1>4, <2>1
<1>6. m - 1 \notin S /\ m - 1 \in Nat
  BY <1>3, <1>4, <1>5
<1>7. (m - 1) * Interval + Interval = m * Interval
  BY <1>0, <1>4
<1>8. m * Interval < now
  <2>1. ~(now <= (m - 1) * Interval + Interval)
    BY <1>6
  <2>2. m * Interval \in Nat
    BY <1>0, <1>4
  <2>3. QED
    BY <1>0, <1>7, <2>1, <2>2
<1>9. m < Cycles
  <2>1. m * Interval < Cycles * Interval
    BY <1>0, <1>4, <1>8 DEF Horizon
  <2>2. SUFFICES ASSUME Cycles <= m PROVE FALSE
    BY <1>0, <1>4
  <2>3. Cycles * Interval <= m * Interval
    BY <1>0, <1>4, <2>2
  <2>4. QED
    BY <1>0, <1>4, <2>1, <2>3
<1>10. m \in Cycle
  BY <1>0, <1>4, <1>9 DEF Cycle
<1>11. QED
  BY <1>4, <1>5, <1>8, <1>10 DEF At

\* Of a backlog that was too old two intervals ago the last report is not older, unless one of
\* the last two cycles had no time for its report.
LEMMA AlertUp ==
  ASSUME IInv, AlertInv
  PROVE  AlertStaysUp
<1> DEFINE since == now - 2 * Interval
<1> SUFFICES ASSUME faults = 0, NEW b \in Pending, since - landed[b] > BacklogAge,
                    ~(\E c \in Cycle : since <= At(c) /\ Spent(c) /\ ~Reported(c))
             PROVE  alert["processing"] >= since + Valid
  BY DEF AlertStaysUp, BacklogStale
<1>0. /\ b \in Batch /\ landed[b] \in Nat /\ now \in Nat /\ now \in 0..Horizon
      /\ alert["processing"] \in Nat
  BY Schedule, TimeAssumption DEF Pending, Listed, IInv, TypeOK, Component
<1>1. PICK c \in Cycle : c # 0 /\ At(c) < now /\ now <= At(c) + Interval
  BY <1>0, SomeCycle, Times
<1>2. c - 1 \in Cycle /\ At(c) = At(c - 1) + Interval /\ At(c) \in Nat /\ At(c - 1) \in Nat
  BY <1>1, OneBefore, Schedule
<1>3. Prompt(c) /\ OneReports(c)
  BY DEF AlertInv
<1>4. job[c].pc \notin {"off", "start", "boot"}
  BY <1>0, <1>1, <1>2, <1>3 DEF Prompt
<1>5. since <= At(c - 1)
  BY <1>0, <1>1, <1>2, Times
<1>6. Reported(c) \/ Reported(c - 1)
  <2>1. Reported(c) \/ Reported(c - 1) \/ Spent(c - 1)
    BY <1>0, <1>1, <1>2, <1>3, <1>4 DEF OneReports
  <2>2. QED
    BY <1>2, <1>5, <2>1
<1>7. PICK k \in {c - 1, c} : Reported(k)
  BY <1>6
<1>8. k \in Cycle /\ job[k].at \in Nat /\ since <= job[k].at
  <2>1. k \in Cycle /\ job[k] \in Job /\ job[k].at >= At(k)
    BY <1>2, <1>7 DEF Reported, IInv, TypeOK
  <2>2. job[k].at \in Nat
    BY <2>1 DEF Job
  <2>3. At(k) >= At(c - 1) /\ At(k) \in Nat
    BY <1>0, <1>1, <1>2, <1>7, Times
  <2>4. QED
    BY <1>0, <1>2, <1>5, <2>1, <2>2, <2>3, Times
<1>9. job[k].at - landed[b] > BacklogAge
  BY <1>0, <1>8, Times
<1>10. alert["processing"] >= job[k].at + Valid
  BY <1>7, <1>8, <1>9 DEF AlertInv, Raised, Reported
<1>11. QED
  BY <1>0, <1>8, <1>10, Times

\* run_cycle gives the notification what the runner has left of the budget, which may be
\* nothing. Still a report of the last two intervals stands, whatever the budget and the
\* validity are, unless a cycle spent all of its budget with no other beside it: a cycle that
\* starts while the runner works finds the lock taken and reports at once.
THEOREM AlertLasts == Spec => []AlertStaysUp
<1>1. IInv /\ AlertInv /\ [Next]_vars => AlertInv'
  <2> SUFFICES ASSUME IInv, AlertInv, [Next]_vars PROVE AlertInv'
    OBVIOUS
  <2>1. (\A c \in Cycle : HoldsLock(c))'
    BY LockNext DEF AlertInv
  <2>2. faults' = 0 => Calm'
    BY CalmNext
  <2>3. QED
    BY <2>1, <2>2 DEF AlertInv, Calm
<1>2. IInv /\ AlertInv => AlertStaysUp
  BY AlertUp
<1>3. QED
  BY Invariant, InitAlert, <1>1, <1>2, PTL DEF Spec
=============================================================================
