------------------------- MODULE CommerceStagesProof -------------------------
(***************************************************************************)
(* Theorems about the stages of a batch: what their jobs make of the tables *)
(* (BatchTables, whose specification is Spec), for every set of contents    *)
(* that a batch may have and every choice of stages that are started by     *)
(* hand, and how their containers are run and cleaned up (StageContainers,  *)
(* whose specification is DockerSpec), for every number of runs and stages. *)
(* Each theorem is about one of the two specifications.                     *)
(***************************************************************************)
EXTENDS BatchTables, StageContainers, FiniteSetTheorems, TLAPS

-----------------------------------------------------------------------------
(* Shapes of tables and jobs.                                              *)

\* What a landed table is made of.
LEMMA Rows ==
  ASSUME landed \in Landing, NEW t \in Table
  PROVE  /\ IsFiniteSet(landed[t])
         /\ \A r \in landed[t] : r.h \in Nat /\ r.copy \in Nat /\ (t = "orders" => r.at \in Nat)
         /\ \A r, s \in landed[t] : r.h = s.h /\ r.copy = s.copy => r = s
  BY LandingAssumption

\* The tables hold landed rows, and a job is a record.
LEMMA Shapes ==
  ASSUME TypeOK
  PROVE  /\ landed \in Landing
         /\ bronze = [t \in Table |-> bronze[t]] /\ silver = [t \in Table |-> silver[t]]
         /\ rejects = [t \in Table |-> rejects[t]]
         /\ \A t \in Table : /\ bronze[t] \subseteq landed[t] /\ silver[t] \subseteq landed[t]
                             /\ rejects[t] \subseteq landed[t]
<1>1. /\ bronze = [t \in Table |-> bronze[t] \cap landed[t]]
      /\ silver = [t \in Table |-> silver[t] \cap landed[t]]
      /\ rejects = [t \in Table |-> rejects[t] \cap landed[t]]
  BY DEF TypeOK
<1>2. ASSUME NEW f, f = [t \in Table |-> f[t] \cap landed[t]]
      PROVE  f = [t \in Table |-> f[t]] /\ \A t \in Table : f[t] \subseteq landed[t]
  <2>1. \A t \in Table : f[t] = f[t] \cap landed[t]
    BY <1>2
  <2>2. [t \in Table |-> f[t]] = [t \in Table |-> f[t] \cap landed[t]]
    BY <2>1
  <2>3. QED
    BY <1>2, <2>1, <2>2
<1>3. bronze = [t \in Table |-> bronze[t]] /\ \A t \in Table : bronze[t] \subseteq landed[t]
  BY <1>1, <1>2
<1>4. silver = [t \in Table |-> silver[t]] /\ \A t \in Table : silver[t] \subseteq landed[t]
  BY <1>1, <1>2
<1>5. rejects = [t \in Table |-> rejects[t]] /\ \A t \in Table : rejects[t] \subseteq landed[t]
  BY <1>1, <1>2
<1>6. QED
  BY <1>3, <1>4, <1>5 DEF TypeOK

\* A job is a record of four fields.
Rec(j) == j = [pc |-> j.pc, at |-> j.at, valid |-> j.valid, rejected |-> j.rejected]
\* A job without a cache.
Blank(j, pc) == Rec(j) /\ j.pc = pc /\ j.at = 1 /\ j.valid = {} /\ j.rejected = {}

\* Every job is one.
LEMMA Jobs ==
  ASSUME TypeOK
  PROVE  job = [s \in Stage |-> job[s]] /\ \A s \in Stage : Rec(job[s])
<1>1. job = [s \in Stage |-> [pc |-> job[s].pc, at |-> job[s].at, valid |-> job[s].valid,
                             rejected |-> job[s].rejected]]
  BY DEF TypeOK
<1>2. \A s \in Stage : Rec(job[s])
  BY <1>1 DEF Rec
<1>3. QED
  BY <1>1, <1>2

\* One job has a new record, the others are as they were.
LEMMA JobMoves ==
  ASSUME TypeOK, NEW s \in Stage, NEW j, Rec(j), job' = [job EXCEPT ![s] = j]
  PROVE  /\ job'[s] = j /\ \A o \in Stage \ {s} : job'[o] = job[o]
         /\ job' = [o \in Stage |-> job'[o]] /\ \A o \in Stage : Rec(job'[o])
<1>1. job = [o \in Stage |-> job[o]] /\ \A o \in Stage : Rec(job[o])
  BY Jobs
<1>2. job'[s] = j /\ (\A o \in Stage \ {s} : job'[o] = job[o]) /\ job' = [o \in Stage |-> job'[o]]
  BY <1>1
<1>3. \A o \in Stage : Rec(job'[o])
  BY <1>1, <1>2
<1>4. QED
  BY <1>2, <1>3

\* Begun, failed and finished jobs have cached nothing; a job that goes on keeps what it has.
LEMMA JobSteps ==
  ASSUME TypeOK, NEW s \in Stage
  PROVE  /\ Begin(s) => \E j : Blank(j, "begin") /\ job' = [job EXCEPT ![s] = j]
         /\ Fail(s) => \E j : Blank(j, "failed") /\ job' = [job EXCEPT ![s] = j]
         /\ Done(s) => \E j : Blank(j, "done") /\ job' = [job EXCEPT ![s] = j]
         /\ \A pc : Go(s, pc) =>
              \E j : /\ Rec(j) /\ j.pc = pc /\ j.at = job[s].at /\ j.valid = job[s].valid
                     /\ j.rejected = job[s].rejected /\ job' = [job EXCEPT ![s] = j]
<1>1. \A pc : Blank(Job(pc, {}, {}), pc)
  BY DEF Blank, Rec, Job
<1>2. Begin(s) => \E j : Blank(j, "begin") /\ job' = [job EXCEPT ![s] = j]
  BY <1>1 DEF Begin
<1>3. Fail(s) => \E j : Blank(j, "failed") /\ job' = [job EXCEPT ![s] = j]
  BY <1>1 DEF Fail
<1>4. Done(s) => \E j : Blank(j, "done") /\ job' = [job EXCEPT ![s] = j]
  BY <1>1 DEF Done
<1>5. ASSUME NEW pc, Go(s, pc)
      PROVE  \E j : /\ Rec(j) /\ j.pc = pc /\ j.at = job[s].at /\ j.valid = job[s].valid
                    /\ j.rejected = job[s].rejected /\ job' = [job EXCEPT ![s] = j]
  <2> DEFINE j == [job[s] EXCEPT !.pc = pc]
  <2>1. job' = [job EXCEPT ![s] = j]
    BY <1>5 DEF Go
  <2>2. Rec(job[s])
    BY Jobs
  <2>3. /\ Rec(j) /\ j.pc = pc /\ j.at = job[s].at /\ j.valid = job[s].valid
        /\ j.rejected = job[s].rejected
    BY <2>2 DEF Rec
  <2>4. QED
    BY <2>1, <2>3
<1>6. QED
  BY <1>2, <1>3, <1>4, <1>5

-----------------------------------------------------------------------------
(* The types.                                                              *)

Label(s) == {"off", "begin", "done", "failed"} \cup
              (IF s = "bronze" THEN {} ELSE IF s = "gold" THEN {"merge"} ELSE
               {"valid", "rejects", "check"})

Table3(b, s, r) == /\ b = [t \in Table |-> b[t]] /\ s = [t \in Table |-> s[t]]
                   /\ r = [t \in Table |-> r[t]]
                   /\ \A t \in Table : (b[t] \cup s[t] \cup r[t]) \subseteq landed[t]
Counters(n, b, f, h) == n \in 0..6 /\ b \in BOOLEAN /\ f \in 0..MaxFaults /\ h \in 0..MaxHand
\* What a job may be.
JobFits(s, j) == /\ Rec(j) /\ j.pc \in Label(s) /\ j.at \in 1..4
                 /\ s \in Table => j.valid \cup j.rejected \subseteq landed[s]

\* The type invariant in parts.
Parts == /\ landed \in Landing /\ Table3(bronze, silver, rejects)
         /\ job = [s \in Stage |-> job[s]] /\ \A s \in Stage : JobFits(s, job[s])
         /\ Counters(run, recorded, faults, hands)

\* The parts are the type invariant.
LEMMA TypeParts ==
  TypeOK <=> Parts
<1>1. Len(BronzeOrder) = 4 /\ Len(Stages) = 6 /\ Table \subseteq Stage
  BY DEF BronzeOrder, Stages, Stage
<1>2. ASSUME TypeOK
      PROVE  /\ landed \in Landing /\ Table3(bronze, silver, rejects)
             /\ job = [s \in Stage |-> job[s]] /\ \A s \in Stage : JobFits(s, job[s])
             /\ Counters(run, recorded, faults, hands)
  <2>1. Table3(bronze, silver, rejects)
    BY <1>2, Shapes DEF Table3
  <2>2. \A s \in Stage : JobFits(s, job[s])
    BY <1>1, <1>2, Jobs DEF TypeOK, JobFits, Label
  <2>3. QED
    BY <1>1, <1>2, <2>1, <2>2, Jobs DEF TypeOK, Counters
<1>3. ASSUME landed \in Landing, Table3(bronze, silver, rejects),
             job = [s \in Stage |-> job[s]], \A s \in Stage : JobFits(s, job[s]),
             Counters(run, recorded, faults, hands)
      PROVE  TypeOK
  <2>1. ASSUME NEW f, f = [t \in Table |-> f[t]], \A t \in Table : f[t] \subseteq landed[t]
        PROVE  f = [t \in Table |-> f[t] \cap landed[t]]
    <3>1. \A t \in Table : f[t] = f[t] \cap landed[t]
      BY <2>1
    <3>2. [t \in Table |-> f[t]] = [t \in Table |-> f[t] \cap landed[t]]
      BY <3>1
    <3>3. QED
      BY <2>1, <3>2
  <2>2. \A f \in {bronze, silver, rejects} : f = [t \in Table |-> f[t] \cap landed[t]]
    BY <1>3, <2>1 DEF Table3
  <2>3. job = [s \in Stage |-> [pc |-> job[s].pc, at |-> job[s].at, valid |-> job[s].valid,
                               rejected |-> job[s].rejected]]
    <3>1. \A s \in Stage : job[s] = [pc |-> job[s].pc, at |-> job[s].at, valid |-> job[s].valid,
                                    rejected |-> job[s].rejected]
      BY <1>3 DEF JobFits, Rec
    <3>2. [s \in Stage |-> job[s]] =
            [s \in Stage |-> [pc |-> job[s].pc, at |-> job[s].at, valid |-> job[s].valid,
                             rejected |-> job[s].rejected]]
      BY <3>1
    <3>3. QED
      BY <1>3, <3>2
  <2>4. \A s \in Stage : job[s].pc \in Label(s) /\ job[s].at \in 1..4
    BY <1>3 DEF JobFits
  <2>5. \A t \in Table : job[t].valid \cup job[t].rejected \subseteq landed[t]
    BY <1>1, <1>3 DEF JobFits
  <2>6. QED
    BY <1>1, <1>3, <2>2, <2>3, <2>4, <2>5 DEF TypeOK, Counters, Label
<1>4. QED
  BY <1>2, <1>3 DEF Parts

\* The types of the next state, when one job moves.
LEMMA JobType ==
  ASSUME TypeOK, NEW s \in Stage, NEW j, job' = [job EXCEPT ![s] = j], JobFits(s, j),
         UNCHANGED landed, Table3(bronze', silver', rejects'),
         Counters(run', recorded', faults', hands')
  PROVE  TypeOK'
<1>1. Rec(j)
  BY DEF JobFits
<1>2. /\ job'[s] = j /\ \A o \in Stage \ {s} : job'[o] = job[o]
      /\ job' = [o \in Stage |-> job'[o]]
  BY <1>1, JobMoves
<1>3. landed \in Landing /\ \A o \in Stage : JobFits(o, job[o])
  BY TypeParts DEF Parts
<1>4. \A o \in Stage : JobFits(o, job'[o])
  BY <1>2, <1>3
<1>5. Table3(bronze, silver, rejects)'
  BY DEF Table3
<1>6. (\A o \in Stage : JobFits(o, job[o]))'
  BY <1>4 DEF JobFits, Label, Rec
<1>7. Counters(run, recorded, faults, hands)'
  BY DEF Counters
<1>8. (TypeOK <=> Parts)'
  BY TypeParts, PTL
<1>9. QED
  BY <1>2, <1>3, <1>5, <1>6, <1>7, <1>8 DEF Parts

\* Every step keeps the types.
LEMMA TypeStep ==
  TypeOK /\ [Next]_vars => TypeOK'
<1> SUFFICES ASSUME TypeOK, [Next]_vars PROVE TypeOK'
  OBVIOUS
<1>0. /\ Table3(bronze, silver, rejects) /\ Counters(run, recorded, faults, hands)
      /\ \A s \in Stage : JobFits(s, job[s])
      /\ \A t \in Table : job[t].valid \subseteq landed[t] /\ job[t].rejected \subseteq landed[t]
  BY TypeParts DEF Parts, TypeOK
<1>1. ASSUME NEW s \in Stage, Begin(s) \/ Fail(s) \/ Done(s),
             UNCHANGED <<landed, bronze, silver, rejects>>, Counters(run', recorded', faults', hands')
      PROVE  TypeOK'
  <2>1. PICK j : /\ \E pc \in {"begin", "failed", "done"} : Blank(j, pc)
                 /\ job' = [job EXCEPT ![s] = j]
    BY <1>1, JobSteps
  <2>2. JobFits(s, j)
    BY <2>1 DEF Blank, JobFits, Label
  <2>3. QED
    BY <1>0, <1>1, <2>1, <2>2, JobType
<1>2. CASE UNCHANGED vars
  BY <1>2 DEF vars, TypeOK, Table3, Counters
<1>3. CASE BronzeStep
  <2> DEFINE t == BronzeOrder[job["bronze"].at]
             j == job["bronze"]
             k == [j EXCEPT !.at = @ + 1]
  <2>1. t \in Table /\ "bronze" \in Stage /\ j.at \in 1..4 /\ (t # "products" => j.at + 1 \in 1..4)
    BY <1>0 DEF JobFits, BronzeOrder, Table, Stage
  <2>2. /\ UNCHANGED <<landed, silver, rejects, run, recorded, faults, hands>>
        /\ bronze' = bronze \/ bronze' = [bronze EXCEPT ![t] = @ \cup landed[t]]
        /\ \/ Fail("bronze") \/ Done("bronze")
           \/ t # "products" /\ job' = [job EXCEPT !["bronze"] = k]
    BY <1>3 DEF BronzeStep
  <2>3. t # "products" => JobFits("bronze", k)
    <3>1. Rec(j) /\ j.pc \in Label("bronze")
      BY <1>0, <2>1 DEF JobFits
    <3>2. Rec(k) /\ k.pc = j.pc /\ k.at = j.at + 1
      BY <3>1 DEF Rec
    <3>3. QED
      BY <2>1, <3>1, <3>2 DEF JobFits, Table
  <2> HIDE DEF t, j, k
  <2>4. Table3(bronze', silver', rejects')
    BY <1>0, <2>1, <2>2 DEF Table3
  <2>5. Counters(run', recorded', faults', hands')
    BY <1>0, <2>2
  <2>6. CASE Fail("bronze") \/ Done("bronze")
    <3>1. PICK i : /\ \E pc \in {"failed", "done"} : Blank(i, pc)
                   /\ job' = [job EXCEPT !["bronze"] = i]
      BY <2>1, <2>6, JobSteps
    <3>2. JobFits("bronze", i)
      BY <3>1 DEF Blank, JobFits, Label, Table
    <3>3. QED
      BY <2>1, <2>2, <2>4, <2>5, <3>1, <3>2, JobType
  <2>7. CASE t # "products" /\ job' = [job EXCEPT !["bronze"] = k]
    BY <2>1, <2>2, <2>3, <2>4, <2>5, <2>7, JobType
  <2>8. QED
    BY <2>2, <2>6, <2>7
<1>4. ASSUME NEW t \in Table, Silver(t) PROVE TypeOK'
  <2>1. t \in Stage /\ t # "bronze" /\ t # "gold"
    BY DEF Table, Stage
  <2>2. CASE Classify(t)
    <3> DEFINE r == {x \in bronze[t] : Errors(t, x)}
               v == bronze[t] \ r
               j == Job("valid", v, r)
    <3>1. UNCHANGED <<landed, bronze, silver, rejects, run, recorded, faults, hands>>
      BY <2>2 DEF Classify
    <3>2. Fail(t) \/ job' = [job EXCEPT ![t] = j]
      BY <2>2 DEF Classify
    <3>3. r \subseteq landed[t] /\ v \subseteq landed[t]
      BY Shapes
    <3> HIDE DEF r, v
    <3>4. JobFits(t, j)
      <4>1. Rec(j) /\ j.pc = "valid" /\ j.at = 1 /\ j.valid = v /\ j.rejected = r
        BY DEF Rec, Job
      <4>2. QED
        BY <2>1, <3>3, <4>1 DEF JobFits, Label
    <3> HIDE DEF j
    <3>5. CASE job' = [job EXCEPT ![t] = j]
      BY <1>0, <2>1, <3>1, <3>4, <3>5, JobType
    <3>6. CASE Fail(t)
      BY <1>0, <1>1, <2>1, <3>1, <3>6
    <3>7. QED
      BY <3>2, <3>5, <3>6
  <2>3. ASSUME NEW pc \in {"rejects", "check"}, Go(t, pc),
               UNCHANGED <<landed, run, recorded, faults, hands>>, Table3(bronze', silver', rejects')
        PROVE  TypeOK'
    <3>1. PICK j : /\ Rec(j) /\ j.pc = pc /\ j.at = job[t].at /\ j.valid = job[t].valid
                   /\ j.rejected = job[t].rejected /\ job' = [job EXCEPT ![t] = j]
      BY <2>1, <2>3, JobSteps
    <3>2. JobFits(t, j)
      BY <1>0, <2>1, <3>1 DEF JobFits, Label
    <3>3. QED
      BY <1>0, <2>1, <2>3, <3>1, <3>2, JobType
  <2>4. CASE MergeValid(t)
    <3> DEFINE new == {r \in job[t].valid : r.id \notin Ids(silver[t])}
    <3>1. silver' = [silver EXCEPT ![t] = silver[t] \cup new] /\ new \subseteq landed[t]
      BY <1>0, <2>4 DEF MergeValid
    <3> HIDE DEF new
    <3>2. Table3(bronze', silver', rejects')
      BY <1>0, <2>4, <3>1 DEF Table3, MergeValid
    <3>3. QED
      BY <2>3, <2>4, <3>2 DEF MergeValid
  <2>5. CASE MergeRejects(t)
    <3>1. Table3(bronze', silver', rejects')
      BY <1>0, <2>5 DEF Table3, MergeRejects
    <3>2. QED
      BY <2>3, <2>5, <3>1 DEF MergeRejects
  <2>6. CASE CheckSilver(t)
    BY <1>0, <1>1, <2>1, <2>6 DEF CheckSilver
  <2>7. QED
    BY <1>4, <2>2, <2>4, <2>5, <2>6 DEF Silver
<1>5. CASE Summarize
  <2> DEFINE j == Job("merge", Summary, {})
  <2>1. UNCHANGED <<landed, bronze, silver, rejects, run, recorded, faults, hands>> /\ "gold" \in Stage
    BY <1>5 DEF Summarize, Stage
  <2>2. Fail("gold") \/ job' = [job EXCEPT !["gold"] = j]
    BY <1>5 DEF Summarize
  <2>3. JobFits("gold", j)
    <3>1. Rec(j) /\ j.pc = "merge" /\ j.at = 1
      BY DEF Rec, Job
    <3>2. QED
      BY <3>1 DEF JobFits, Label, Table
  <2> HIDE DEF j
  <2>4. CASE job' = [job EXCEPT !["gold"] = j]
    BY <1>0, <2>1, <2>3, <2>4, JobType
  <2>5. QED
    BY <1>0, <1>1, <2>1, <2>2, <2>4
<1>6. CASE MergeGold
  BY <1>0, <1>1, <1>6 DEF MergeGold, Stage
<1>7. CASE Launch \/ NextStage
  <2>1. Launch => Begin("bronze") /\ run' = 1
    BY DEF Launch
  <2>2. NextStage => Begin(Stages[run + 1]) /\ Stages[run + 1] \in Stage /\ run' \in 0..6
    BY <1>0 DEF NextStage, Stages, Stage, Table, Counters
  <2>3. Counters(run', recorded', faults', hands')
    BY <1>0, <1>7, <2>1, <2>2 DEF Launch, NextStage, Counters
  <2>4. QED
    BY <1>1, <1>7, <2>1, <2>2, <2>3 DEF Launch, NextStage, Stage
<1>8. CASE StageFailed \/ Commit \/ RunnerDies
  <2>1. recorded' \in BOOLEAN
    <3>1. CASE Commit
      BY <3>1, Zenon DEF Commit
    <3>2. QED
      BY <1>0, <1>8, <3>1 DEF StageFailed, RunnerDies, Counters
  <2>2. /\ UNCHANGED <<landed, bronze, silver, rejects, job>>
        /\ Counters(run', recorded', faults', hands')
    BY <1>0, <1>8, <2>1, BoundAssumption DEF StageFailed, Commit, RunnerDies, Counters
  <2>3. QED
    BY <2>2 DEF TypeOK, Counters, Stages
<1>9. ASSUME NEW s \in Stage, ByHand(s) \/ JobDies(s) PROVE TypeOK'
  <2>1. (Begin(s) \/ Fail(s)) /\ UNCHANGED <<landed, bronze, silver, rejects>>
        /\ Counters(run', recorded', faults', hands')
    BY <1>0, <1>9, BoundAssumption DEF ByHand, JobDies, Counters
  <2>2. QED
    BY <1>1, <2>1
<1>10. QED
  BY <1>2, <1>3, <1>4, <1>5, <1>6, <1>7, <1>8, <1>9, HandAssumption
     DEF Next, Work, Runner, CustomerSilver, ProductSilver, OrderSilver, PaymentSilver, Table

-----------------------------------------------------------------------------
(* What a job makes of whole tables.                                       *)

\* Of two rows of a table one is ahead.
LEMMA OneAhead ==
  ASSUME landed \in Landing, NEW t \in Table, NEW r \in landed[t], NEW s \in landed[t], r # s
  PROVE  Ahead(t, r, s) <=> ~Ahead(t, s, r)
<1>1. /\ {r.h, s.h, r.copy, s.copy} \subseteq Nat /\ (r.h # s.h \/ r.copy # s.copy)
      /\ t = "orders" => r.at \in Nat /\ s.at \in Nat
  BY Rows
<1>2. QED
  BY <1>1 DEF Ahead

\* No row is ahead of itself.
LEMMA NotAhead ==
  ASSUME landed \in Landing, NEW t \in Table, NEW r \in landed[t]
  PROVE  ~Ahead(t, r, r)
  BY Rows DEF Ahead

\* A set has more than one element if there is one beside a given one.
LEMMA Several ==
  ASSUME NEW S, IsFiniteSet(S)
  PROVE  /\ Cardinality(S) \in Nat
         /\ 1 + Cardinality(S) > 1 <=> S # {}
         /\ \A x \in S : Cardinality(S) > 1 <=> \E y \in S : y # x
<1>1. Cardinality(S) \in Nat /\ (Cardinality(S) = 0 <=> S = {})
  BY FS_CardinalityType, FS_EmptySet
<1>2. ASSUME NEW x \in S PROVE Cardinality(S) > 1 <=> \E y \in S : y # x
  <2>1. IsFiniteSet(S \ {x}) /\ Cardinality(S \ {x}) = Cardinality(S) - 1
    BY FS_RemoveElement
  <2>2. Cardinality(S \ {x}) \in Nat /\ (Cardinality(S \ {x}) = 0 <=> S \ {x} = {})
    BY <2>1, FS_CardinalityType, FS_EmptySet
  <2>3. QED
    BY <1>1, <2>1, <2>2
<1>3. QED
  BY <1>1, <1>2

\* A row has a rival in its table.
Beaten(t, r) == \E s \in landed[t] \ {r} : s.id = r.id /\ (t = "payments" \/ ~Ahead(t, r, s))

LEMMA Ranks ==
  ASSUME TypeOK, NEW t \in Table, Whole(t), NEW r \in landed[t]
  PROVE  /\ t # "payments" => (Rank(t, r) > 1 <=> Beaten(t, r))
         /\ t = "payments" => (Cardinality(Same(t, r)) > 1 <=> Beaten(t, r))
<1>1. landed \in Landing /\ IsFiniteSet(landed[t])
  BY Rows DEF TypeOK
<1>2. Same(t, r) = {s \in landed[t] : s.id = r.id} /\ r \in Same(t, r)
  BY DEF Same, Whole
<1>3. ASSUME t # "payments" PROVE Rank(t, r) > 1 <=> Beaten(t, r)
  <2> DEFINE S == {s \in Same(t, r) : Ahead(t, s, r)}
  <2>1. IsFiniteSet(S)
    <3>1. S \subseteq landed[t]
      BY <1>2
    <3>2. QED
      BY <1>1, <3>1, FS_Subset
  <2>2. Rank(t, r) > 1 <=> S # {}
    BY <2>1, Several DEF Rank
  <2>3. \A s \in landed[t] : Ahead(t, s, r) <=> s # r /\ ~Ahead(t, r, s)
    BY <1>1, OneAhead, NotAhead
  <2>4. S # {} <=> Beaten(t, r)
    BY <1>2, <1>3, <2>3 DEF Beaten
  <2>5. QED
    BY <2>2, <2>4
<1>4. ASSUME t = "payments" PROVE Cardinality(Same(t, r)) > 1 <=> Beaten(t, r)
  <2>1. IsFiniteSet(Same(t, r))
    <3>1. Same(t, r) \subseteq landed[t]
      BY <1>2
    <3>2. QED
      BY <1>1, <3>1, FS_Subset
  <2>2. Cardinality(Same(t, r)) > 1 <=> \E s \in Same(t, r) : s # r
    BY <1>2, <2>1, Several
  <2>3. QED
    BY <1>2, <1>4, <2>2 DEF Beaten
<1>5. QED
  BY <1>3, <1>4

\* What is kept, in terms of the rivals.
LEMMA KeptIs ==
  ASSUME NEW t \in Table
  PROVE  Kept(t) = {r \in landed[t] : /\ ~r.bad /\ ~Beaten(t, r)
                                      /\ t = "orders" =>
                                           /\ r.customer \in Ids(landed["customers"])
                                           /\ r.product \in Ids(landed["products"])}
  BY DEF Kept, Beaten

\* A table that is classified when its sources are whole keeps what it should.
LEMMA WholeErrors ==
  ASSUME TypeOK, NEW t \in Table, Whole(t),
         t = "orders" => Whole("customers") /\ Whole("products")
  PROVE  {r \in bronze[t] : Errors(t, r)} = Refused(t)
<1>1. ASSUME NEW r \in landed[t]
      PROVE  Errors(t, r) <=> \/ r.bad \/ Beaten(t, r)
                              \/ t = "orders" /\ ~ /\ r.customer \in Ids(landed["customers"])
                                                   /\ r.product \in Ids(landed["products"])
  <2>1. CASE t = "customers"
    BY <2>1, Ranks DEF Errors, CustomerErrors
  <2>2. CASE t = "products"
    BY <2>2, Ranks DEF Errors, ProductErrors
  <2>3. CASE t = "orders"
    BY <2>3, Ranks DEF Errors, OrderErrors, Unknown, Whole
  <2>4. CASE t = "payments"
    BY <2>4, Ranks DEF Errors, PaymentErrors
  <2>5. QED
    BY <2>1, <2>2, <2>3, <2>4 DEF Table
<1>2. bronze[t] = landed[t]
  BY DEF Whole
<1>3. QED
  BY <1>1, <1>2, KeptIs DEF Refused

\* Orders of which no customer or no product is there are all refused.
LEMMA EarlyErrors ==
  ASSUME bronze["customers"] = {} \/ bronze["products"] = {}
  PROVE  {r \in bronze["orders"] : Errors("orders", r)} = bronze["orders"]
<1>1. Ids({}) = {}
  BY DEF Ids
<1>2. \A r : Unknown(r)
  BY <1>1 DEF Unknown
<1>3. \A r : Errors("orders", r)
  BY <1>2 DEF Errors, OrderErrors
<1>4. QED
  BY <1>3

-----------------------------------------------------------------------------
(* What a step leaves alone.                                               *)

\* A job that is begun again, or has failed.
Reset(s) == job'[s].pc \in {"begin", "failed"} /\ job'[s].at = 1

LEMMA Resets ==
  ASSUME TypeOK, NEW s \in Stage, Begin(s) \/ Fail(s)
  PROVE  /\ Reset(s) /\ \A o \in Stage \ {s} : job'[o] = job[o]
         /\ Begin(s) => job'[s].pc = "begin"
<1>1. PICK j : /\ \E pc \in {"begin", "failed"} : Blank(j, pc) /\ (Begin(s) => pc = "begin")
               /\ job' = [job EXCEPT ![s] = j]
  BY JobSteps
<1>2. Rec(j)
  BY <1>1 DEF Blank
<1>3. job'[s] = j /\ \A o \in Stage \ {s} : job'[o] = job[o]
  BY <1>1, <1>2, JobMoves
<1>4. QED
  BY <1>1, <1>3 DEF Reset, Blank

\* A job that has finished.
LEMMA Finishes ==
  ASSUME TypeOK, NEW s \in Stage, Done(s)
  PROVE  job'[s].pc = "done" /\ \A o \in Stage \ {s} : job'[o] = job[o]
<1>1. PICK j : Blank(j, "done") /\ job' = [job EXCEPT ![s] = j]
  BY JobSteps
<1>2. Rec(j)
  BY <1>1 DEF Blank
<1>3. job'[s] = j /\ \A o \in Stage \ {s} : job'[o] = job[o]
  BY <1>1, <1>2, JobMoves
<1>4. QED
  BY <1>1, <1>3 DEF Blank

\* A job that goes on keeps what it has cached.
LEMMA GoesOn ==
  ASSUME TypeOK, NEW s \in Stage, NEW pc, Go(s, pc)
  PROVE  /\ job'[s].pc = pc /\ job'[s].valid = job[s].valid /\ job'[s].rejected = job[s].rejected
         /\ \A o \in Stage \ {s} : job'[o] = job[o]
<1>1. PICK j : /\ Rec(j) /\ j.pc = pc /\ j.at = job[s].at /\ j.valid = job[s].valid
               /\ j.rejected = job[s].rejected /\ job' = [job EXCEPT ![s] = j]
  BY JobSteps
<1>2. job'[s] = j /\ \A o \in Stage \ {s} : job'[o] = job[o]
  BY <1>1, JobMoves
<1>3. QED
  BY <1>1, <1>2

\* What the bronze job does.
LEMMA BronzeSteps ==
  ASSUME TypeOK, BronzeStep
  PROVE  LET t == BronzeOrder[job["bronze"].at] IN
         /\ t \in Table /\ job["bronze"].pc = "begin" /\ job["bronze"].at \in 1..4
         /\ UNCHANGED <<landed, silver, rejects, gold, run, recorded, faults, hands>>
         /\ \A s \in Stage \ {"bronze"} : job'[s] = job[s]
         /\ \A x \in Table \ {t} : bronze'[x] = bronze[x]
         /\ \/ bronze'[t] = bronze[t] /\ Reset("bronze")
            \/ /\ bronze'[t] = bronze[t] \cup landed[t] /\ \A r \in landed[t] : ~r.empty
               /\ \/ Reset("bronze")
                  \/ job'["bronze"].pc = "done" /\ t = "products"
                  \/ job'["bronze"].pc = "begin" /\ job'["bronze"].at = job["bronze"].at + 1
                     /\ t # "products"
<1> DEFINE j == job["bronze"]
           t == BronzeOrder[j.at]
           k == [j EXCEPT !.at = @ + 1]
<1>1. "bronze" \in Stage /\ Rec(j) /\ j.at \in 1..4 /\ t \in Table
  <2>1. "bronze" \in Stage /\ \A i \in 1..4 : BronzeOrder[i] \in Table
    BY DEF BronzeOrder, Table, Stage
  <2>2. JobFits("bronze", j)
    BY <2>1, TypeParts DEF Parts
  <2>3. QED
    BY <2>1, <2>2 DEF JobFits
<1>2. /\ j.pc = "begin" /\ UNCHANGED <<landed, silver, rejects, gold, run, recorded, faults, hands>>
      /\ \/ Fail("bronze") /\ UNCHANGED bronze
         \/ /\ bronze' = [bronze EXCEPT ![t] = @ \cup landed[t]] /\ ~\E r \in landed[t] : r.empty
            /\ \/ Fail("bronze")
               \/ t = "products" /\ Done("bronze")
               \/ t # "products" /\ job' = [job EXCEPT !["bronze"] = k]
  <2>1. CASE \E r \in landed[t] : r.empty
    BY <2>1 DEF BronzeStep
  <2>2. CASE ~\E r \in landed[t] : r.empty
    <3>1. /\ bronze' = [bronze EXCEPT ![t] = @ \cup landed[t]]
          /\ IF Cardinality(bronze'[t]) # Cardinality(landed[t]) THEN Fail("bronze")
             ELSE IF t = "products" THEN Done("bronze")
             ELSE job' = [job EXCEPT !["bronze"] = k]
      BY <2>2 DEF BronzeStep
    <3> HIDE DEF t, k
    <3>2. \/ Fail("bronze")
          \/ t = "products" /\ Done("bronze")
          \/ t # "products" /\ job' = [job EXCEPT !["bronze"] = k]
      BY <3>1
    <3>3. j.pc = "begin" /\ UNCHANGED <<landed, silver, rejects, gold, run, recorded, faults, hands>>
      BY DEF BronzeStep
    <3>4. QED
      BY <2>2, <3>1, <3>2, <3>3
  <2>3. QED
    BY <2>1, <2>2
<1>3. Rec(k) /\ k.pc = j.pc /\ k.at = j.at + 1
  BY <1>1 DEF Rec
<1> HIDE DEF j, t, k
<1>4. Fail("bronze") => Reset("bronze") /\ \A s \in Stage \ {"bronze"} : job'[s] = job[s]
  BY <1>1, Resets
<1>5. Done("bronze") => job'["bronze"].pc = "done" /\ \A s \in Stage \ {"bronze"} : job'[s] = job[s]
  BY <1>1, Finishes
<1>6. job' = [job EXCEPT !["bronze"] = k] =>
        /\ job'["bronze"].pc = "begin" /\ job'["bronze"].at = j.at + 1
        /\ \A s \in Stage \ {"bronze"} : job'[s] = job[s]
  BY <1>1, <1>2, <1>3, JobMoves
<1>7. bronze = [x \in Table |-> bronze[x]]
  BY Shapes
<1>8. bronze' = [bronze EXCEPT ![t] = @ \cup landed[t]] =>
        bronze'[t] = bronze[t] \cup landed[t] /\ \A x \in Table \ {t} : bronze'[x] = bronze[x]
  BY <1>1, <1>7
<1>9. QED
  BY <1>1, <1>2, <1>4, <1>5, <1>6, <1>8 DEF j, t

\* What the job of a silver stage does.
LEMMA SilverSteps ==
  ASSUME TypeOK, NEW t \in Table, Silver(t)
  PROVE  /\ UNCHANGED <<landed, bronze, gold, run, recorded, faults, hands>>
         /\ \A s \in Stage \ {t} : job'[s] = job[s]
         /\ \A x \in Table \ {t} : silver'[x] = silver[x] /\ rejects'[x] = rejects[x]
         /\ \/ /\ Reset(t) /\ silver'[t] = silver[t] /\ rejects'[t] = rejects[t]
            \/ /\ job'[t].pc = "valid" /\ bronze[t] # {}
               /\ job'[t].rejected = {r \in bronze[t] : Errors(t, r)}
               /\ job'[t].valid = bronze[t] \ job'[t].rejected
               /\ silver'[t] = silver[t] /\ rejects'[t] = rejects[t]
            \/ /\ job[t].pc = "valid" /\ job'[t].pc = "rejects"
               /\ job'[t].valid = job[t].valid /\ job'[t].rejected = job[t].rejected
               /\ silver'[t] = silver[t] \cup {r \in job[t].valid : r.id \notin Ids(silver[t])}
               /\ rejects'[t] = rejects[t]
            \/ /\ job[t].pc = "rejects" /\ job'[t].pc = "check"
               /\ job'[t].valid = job[t].valid /\ job'[t].rejected = job[t].rejected
               /\ silver'[t] = silver[t]
               /\ rejects'[t] = rejects[t] \cup job[t].rejected
            \/ /\ job[t].pc = "check" /\ job'[t].pc = "done" /\ PostCondition(t)
               /\ silver'[t] = silver[t] /\ rejects'[t] = rejects[t]
<1>0. t \in Stage
  BY DEF Stage
<1>1. silver = [x \in Table |-> silver[x]] /\ rejects = [x \in Table |-> rejects[x]]
  BY Shapes
<1>2. CASE Classify(t)
  <2> DEFINE r == {x \in bronze[t] : Errors(t, x)}
             v == bronze[t] \ r
             j == Job("valid", v, r)
  <2>1. /\ UNCHANGED <<landed, bronze, silver, rejects, gold, run, recorded, faults, hands>>
        /\ Fail(t) \/ (bronze[t] # {} /\ job' = [job EXCEPT ![t] = j])
    BY <1>2 DEF Classify
  <2>2. Rec(j) /\ j.pc = "valid" /\ j.valid = v /\ j.rejected = r
    BY DEF Rec, Job
  <2> HIDE DEF j
  <2>3. job' = [job EXCEPT ![t] = j] => job'[t] = j /\ \A s \in Stage \ {t} : job'[s] = job[s]
    BY <1>0, <2>2, JobMoves
  <2>4. QED
    BY <1>0, <2>1, <2>2, <2>3, Resets
<1>3. CASE MergeValid(t)
  <2> DEFINE new == {r \in job[t].valid : r.id \notin Ids(silver[t])}
  <2>1. /\ job[t].pc = "valid" /\ Go(t, "rejects")
        /\ silver' = [silver EXCEPT ![t] = silver[t] \cup new]
        /\ UNCHANGED <<landed, bronze, rejects, gold, run, recorded, faults, hands>>
    BY <1>3 DEF MergeValid
  <2> HIDE DEF new
  <2>2. silver'[t] = silver[t] \cup new /\ \A x \in Table \ {t} : silver'[x] = silver[x]
    BY <1>1, <2>1
  <2>3. QED
    BY <1>0, <2>1, <2>2, GoesOn DEF new
<1>4. CASE MergeRejects(t)
  <2>1. /\ job[t].pc = "rejects" /\ Go(t, "check")
        /\ rejects' = [rejects EXCEPT ![t] = rejects[t] \cup job[t].rejected]
        /\ UNCHANGED <<landed, bronze, silver, gold, run, recorded, faults, hands>>
    BY <1>4 DEF MergeRejects
  <2>2. rejects'[t] = rejects[t] \cup job[t].rejected
        /\ \A x \in Table \ {t} : rejects'[x] = rejects[x]
    BY <1>1, <2>1
  <2>3. QED
    BY <1>0, <2>1, <2>2, GoesOn
<1>5. CASE CheckSilver(t)
  BY <1>0, <1>5, Resets, Finishes DEF CheckSilver
<1>6. QED
  BY <1>2, <1>3, <1>4, <1>5 DEF Silver

\* Each job writes its own tables, and else it is only begun again or fails.
LEMMA Untouched ==
  ASSUME TypeOK, [Next]_vars
  PROVE  /\ landed' = landed
         /\ bronze' = bronze \/ BronzeStep
         /\ \A t \in Table : Silver(t) \/ (silver'[t] = silver[t] /\ rejects'[t] = rejects[t])
         /\ gold' = gold \/ MergeGold
         /\ \A s \in Stage : \/ job'[s] = job[s] \/ Reset(s)
                             \/ s = "bronze" /\ BronzeStep
                             \/ s \in Table /\ Silver(s)
                             \/ s = "gold" /\ (Summarize \/ MergeGold)
<1>0. Table \subseteq Stage /\ "bronze" \in Stage /\ "gold" \in Stage /\ "bronze" \notin Table
      /\ "gold" \notin Table /\ Len(Stages) = 6 /\ \A i \in 1..6 : Stages[i] \in Stage
  BY DEF Stage, Table, Stages
<1>1. CASE BronzeStep
  BY <1>0, <1>1, BronzeSteps
<1>2. ASSUME NEW t \in Table, Silver(t)
      PROVE  /\ UNCHANGED <<landed, bronze, gold>>
             /\ \A x \in Table \ {t} : silver'[x] = silver[x] /\ rejects'[x] = rejects[x]
             /\ \A s \in Stage \ {t} : job'[s] = job[s]
  BY <1>2, SilverSteps
<1>3. CASE Summarize \/ MergeGold
  <2> DEFINE j == Job("merge", Summary, {})
  <2>1. /\ UNCHANGED <<landed, bronze, silver, rejects>> /\ (gold' = gold \/ MergeGold)
        /\ Fail("gold") \/ Done("gold") \/ job' = [job EXCEPT !["gold"] = j]
    BY <1>3 DEF Summarize, MergeGold
  <2>2. Rec(j)
    BY DEF Rec, Job
  <2> HIDE DEF j
  <2>3. \A s \in Stage \ {"gold"} : job'[s] = job[s]
    BY <1>0, <2>1, <2>2, Resets, Finishes, JobMoves
  <2>4. QED
    BY <1>0, <1>3, <2>1, <2>3
<1>4. ASSUME NEW s \in Stage, Begin(s) \/ Fail(s), UNCHANGED <<landed, bronze, silver, rejects, gold>>
      PROVE  /\ UNCHANGED <<landed, bronze, silver, rejects, gold>>
             /\ \A o \in Stage : job'[o] = job[o] \/ Reset(o)
  BY <1>4, Resets
<1>5. CASE Launch
  BY <1>0, <1>4, <1>5 DEF Launch
<1>6. CASE NextStage
  <2>1. run + 1 \in 1..6
    BY <1>0, <1>6 DEF NextStage
  <2>2. QED
    BY <1>0, <1>4, <1>6, <2>1 DEF NextStage
<1>7. CASE StageFailed \/ Commit \/ RunnerDies \/ UNCHANGED vars
  BY <1>7 DEF StageFailed, Commit, RunnerDies, vars
<1>8. ASSUME NEW s \in Stage, ByHand(s) \/ JobDies(s)
      PROVE  /\ UNCHANGED <<landed, bronze, silver, rejects, gold>>
             /\ \A o \in Stage : job'[o] = job[o] \/ Reset(o)
  BY <1>4, <1>8 DEF ByHand, JobDies
<1>9. CASE \E t \in Table : Silver(t)
  <2>1. PICK t \in Table : Silver(t)
    BY <1>9
  <2>2. QED
    BY <1>2, <2>1
<1>10. CASE \E s \in Stage : ByHand(s) \/ JobDies(s)
  BY <1>8, <1>10
<1>11. QED
  BY <1>1, <1>3, <1>5, <1>6, <1>7, <1>9, <1>10, HandAssumption
     DEF Next, Work, Runner, CustomerSilver, ProductSilver, OrderSilver, PaymentSilver, Table

-----------------------------------------------------------------------------
(* The invariant of the bronze tables.                                     *)

\* The bronze tables grow, and a table that is whole stays whole.
LEMMA BronzeNext ==
  ASSUME IInv, [Next]_vars
  PROVE  /\ BronzeKnown'
         /\ \A t \in Table : (Whole(t) => Whole(t)') /\ (bronze[t] # {} => bronze'[t] # {})
<1>0. TypeOK /\ BronzeKnown /\ "bronze" \in Stage
  BY DEF IInv, Stage
<1>1. \A t \in Table : bronze[t] \subseteq landed[t]
  BY <1>0, Shapes
<1>2. CASE BronzeStep
  <2> DEFINE k == job["bronze"].at
             t == BronzeOrder[k]
  <2>1. /\ t \in Table /\ k \in 1..4 /\ landed' = landed /\ job["bronze"].pc = "begin"
        /\ \A x \in Table \ {t} : bronze'[x] = bronze[x]
        /\ \/ bronze'[t] = bronze[t] /\ Reset("bronze")
           \/ /\ bronze'[t] = bronze[t] \cup landed[t] /\ \A r \in landed[t] : ~r.empty
              /\ \/ Reset("bronze")
                 \/ job'["bronze"].pc = "done" /\ t = "products"
                 \/ job'["bronze"].pc = "begin" /\ job'["bronze"].at = k + 1
    BY <1>0, <1>2, BronzeSteps
  <2>2. \A i \in 1..(k - 1) : Whole(BronzeOrder[i])
    BY <1>0, <2>1 DEF BronzeKnown
  <2>3. /\ \A i \in 1..4 : BronzeOrder[i] \in Table /\ (BronzeOrder[i] = "products" => i = 4)
        /\ \A x \in Table : \E i \in 1..4 : x = BronzeOrder[i]
    BY DEF BronzeOrder, Table
  <2> HIDE DEF k, t
  <2>4. \/ bronze'[t] = bronze[t] /\ Reset("bronze")
        \/ bronze'[t] = landed[t] /\ \A r \in landed[t] : ~r.empty
    BY <1>1, <2>1
  <2>5. \A x \in Table : /\ Whole(x) => Whole(x)'
                         /\ bronze[x] # {} => bronze'[x] # {}
                         /\ bronze'[x] # {} => Whole(x)' /\ \A r \in landed[x] : ~r.empty
    BY <1>0, <1>1, <2>1, <2>4 DEF BronzeKnown, Whole
  <2>6. ~Reset("bronze") => \A i \in 1..k : Whole(BronzeOrder[i])'
    <3> SUFFICES ASSUME ~Reset("bronze"), NEW i \in 1..k PROVE Whole(BronzeOrder[i])'
      OBVIOUS
    <3>1. CASE i = k
      BY <2>1, <2>4, <3>1 DEF Whole, t
    <3>2. CASE i # k
      <4>1. i \in 1..(k - 1) /\ BronzeOrder[i] \in Table
        BY <2>1, <2>3, <3>2
      <4>2. QED
        BY <2>2, <2>5, <4>1
    <3>3. QED
      BY <3>1, <3>2
  <2>7. job'["bronze"].pc = "begin" =>
          \A i \in 1..(job'["bronze"].at - 1) : Whole(BronzeOrder[i])'
    BY <2>1, <2>6 DEF Reset
  <2>8. job'["bronze"].pc = "done" => \A x \in Table : Whole(x)'
    <3> SUFFICES ASSUME job'["bronze"].pc = "done", NEW x \in Table PROVE Whole(x)'
      OBVIOUS
    <3>1. ~Reset("bronze") /\ k = 4
      BY <2>1, <2>3 DEF Reset, t
    <3>2. PICK i \in 1..4 : x = BronzeOrder[i]
      BY <2>3
    <3>3. QED
      BY <2>6, <3>1, <3>2
  <2>9. QED
    BY <2>1, <2>5, <2>7, <2>8 DEF BronzeKnown, AllWhole
<1>3. CASE ~BronzeStep
  <2>1. /\ landed' = landed /\ bronze' = bronze
        /\ job'["bronze"] = job["bronze"] \/ Reset("bronze")
    BY <1>0, <1>3, Untouched DEF Table
  <2>2. \A t \in Table : Whole(t)' <=> Whole(t)
    BY <2>1 DEF Whole
  <2>3. /\ BronzeOrder \in [1..4 -> Table]
        /\ job["bronze"].at \in 1..4
    BY <1>0 DEF BronzeOrder, Table, TypeOK
  <2>4. CASE job'["bronze"] = job["bronze"]
    BY <1>0, <2>1, <2>4 DEF BronzeKnown, AllWhole, Whole
  <2>5. CASE Reset("bronze")
    BY <1>0, <2>1, <2>5 DEF BronzeKnown, AllWhole, Whole, Reset
  <2>6. QED
    BY <2>1, <2>2, <2>4, <2>5
<1>4. QED
  BY <1>2, <1>3

-----------------------------------------------------------------------------
(* The invariant of the silver tables.                                     *)

\* What a table should keep does not change.
LEMMA KeptStays ==
  ASSUME landed' = landed, NEW t \in Table
  PROVE  Kept(t)' = Kept(t) /\ Refused(t)' = Refused(t)
  BY DEF Kept, Refused, Ids, Ahead

\* A finite set has no proper part of its size.
LEMMA SameSize ==
  ASSUME NEW S, NEW P, IsFiniteSet(S), P \subseteq S, Cardinality(P) = Cardinality(S)
  PROVE  P = S
  BY FS_Subset

\* Landed tables are finite.
LEMMA FiniteTables ==
  ASSUME TypeOK, NEW t \in Table
  PROVE  IsFiniteSet(landed[t])
  BY Rows DEF TypeOK

\* A job of a silver stage caches what it should, or refuses all orders.
LEMMA SilverNext ==
  ASSUME IInv, [Next]_vars, NEW t \in Table
  PROVE  SilverKnown(t)'
<1>0. TypeOK /\ BronzeKnown /\ SilverKnown(t) /\ t \in Stage
  BY DEF IInv, Stage
<1>1. /\ landed' = landed /\ Kept(t)' = Kept(t) /\ Refused(t)' = Refused(t)
      /\ bronze[t] # {} => bronze'[t] # {}
  BY <1>0, Untouched, BronzeNext, KeptStays
<1>2. Kept(t) \subseteq landed[t] /\ Refused(t) \subseteq landed[t]
  BY DEF Kept, Refused
<1> DEFINE Early(j) == t = "orders" /\ j.valid = {} /\ j.rejected = landed[t]
           InTimely(j) == j.valid = Kept(t) /\ j.rejected = Refused(t)
<1>3. Classified(t) => bronze[t] # {} /\ (InTimely(job[t]) \/ Early(job[t]))
  BY <1>0 DEF SilverKnown, InTime
<1>4. SUFFICES /\ job'[t].pc \in {"valid", "rejects", "check"} =>
                    bronze[t] # {} /\ (InTimely(job'[t]) \/ Early(job'[t]))
               /\ silver'[t] \in {{}, Kept(t)}
               /\ silver'[t] # {} => bronze[t] # {}
               /\ rejects'[t] \in {{}, Refused(t)} \cup (IF t = "orders" THEN {landed[t]} ELSE {})
               /\ job'[t].pc \in {"rejects", "check"} => job'[t].valid \subseteq silver'[t]
               /\ job'[t].pc = "check" => job'[t].rejected \subseteq rejects'[t]
  BY <1>1 DEF SilverKnown, InTime, Classified
<1>5. CASE Silver(t)
  <2>1. CASE Reset(t) /\ silver'[t] = silver[t] /\ rejects'[t] = rejects[t]
    BY <1>0, <2>1 DEF SilverKnown, Reset
  <2>2. CASE /\ job'[t].pc = "valid" /\ bronze[t] # {}
             /\ job'[t].rejected = {r \in bronze[t] : Errors(t, r)}
             /\ job'[t].valid = bronze[t] \ job'[t].rejected
             /\ silver'[t] = silver[t] /\ rejects'[t] = rejects[t]
    <3>1. Whole(t)
      BY <1>0, <2>2 DEF BronzeKnown
    <3>2. CASE t = "orders" => Whole("customers") /\ Whole("products")
      <4>1. {r \in bronze[t] : Errors(t, r)} = Refused(t)
        BY <1>0, <3>1, <3>2, WholeErrors
      <4>2. job'[t].rejected = Refused(t) /\ job'[t].valid = landed[t] \ Refused(t)
        BY <2>2, <3>1, <4>1 DEF Whole
      <4>3. InTimely(job'[t])
        BY <1>2, <4>2 DEF Refused
      <4>4. QED
        BY <1>0, <2>2, <4>3 DEF SilverKnown
    <3>3. CASE t = "orders" /\ ~(Whole("customers") /\ Whole("products"))
      <4>1. bronze["customers"] = {} \/ bronze["products"] = {}
        BY <1>0, <3>3 DEF BronzeKnown, Table
      <4>2. {r \in bronze[t] : Errors(t, r)} = bronze[t]
        BY <3>3, <4>1, EarlyErrors
      <4>3. job'[t].rejected = landed[t] /\ job'[t].valid = {}
        BY <2>2, <3>1, <4>2 DEF Whole
      <4>4. Early(job'[t])
        BY <3>3, <4>3
      <4>5. QED
        BY <1>0, <2>2, <4>4 DEF SilverKnown
    <3>4. QED
      BY <3>2, <3>3
  <2>3. CASE /\ job[t].pc = "valid" /\ job'[t].pc = "rejects"
             /\ job'[t].valid = job[t].valid /\ job'[t].rejected = job[t].rejected
             /\ silver'[t] = silver[t] \cup {r \in job[t].valid : r.id \notin Ids(silver[t])}
             /\ rejects'[t] = rejects[t]
    <3>1. bronze[t] # {} /\ (InTimely(job[t]) \/ Early(job[t])) /\ job[t].valid \in {{}, Kept(t)}
      BY <1>3, <2>3 DEF Classified
    <3>2. silver[t] = {} \/ silver[t] = Kept(t)
      BY <1>0 DEF SilverKnown
    <3>3. silver'[t] \in {{}, Kept(t)} /\ job[t].valid \subseteq silver'[t]
      <4>1. silver[t] = {} => {r \in job[t].valid : r.id \notin Ids(silver[t])} = job[t].valid
        BY DEF Ids
      <4>2. silver[t] = Kept(t) => {r \in job[t].valid : r.id \notin Ids(silver[t])} = {}
        BY <3>1 DEF Ids
      <4>3. QED
        BY <2>3, <3>1, <3>2, <4>1, <4>2
    <3>4. InTimely(job'[t]) \/ Early(job'[t])
      BY <2>3, <3>1
    <3>5. QED
      BY <1>0, <2>3, <3>1, <3>3, <3>4 DEF SilverKnown
  <2>4. CASE /\ job[t].pc = "rejects" /\ job'[t].pc = "check"
             /\ job'[t].valid = job[t].valid /\ job'[t].rejected = job[t].rejected
             /\ silver'[t] = silver[t]
             /\ rejects'[t] = rejects[t] \cup job[t].rejected
    <3>1. bronze[t] # {} /\ (InTimely(job[t]) \/ Early(job[t]))
      BY <1>3, <2>4 DEF Classified
    <3>2. InTimely(job'[t]) \/ Early(job'[t])
      BY <2>4, <3>1
    <3>3. rejects'[t] \in {{}, Refused(t)} \cup (IF t = "orders" THEN {landed[t]} ELSE {})
      BY <1>0, <1>2, <2>4, <3>1 DEF SilverKnown
    <3>4. QED
      BY <1>0, <2>4, <3>1, <3>2, <3>3 DEF SilverKnown
  <2>5. CASE /\ job[t].pc = "check" /\ job'[t].pc = "done" /\ PostCondition(t)
             /\ silver'[t] = silver[t] /\ rejects'[t] = rejects[t]
    BY <1>0, <2>5 DEF SilverKnown
  <2>6. QED
    BY <1>0, <1>5, <2>1, <2>2, <2>3, <2>4, <2>5, SilverSteps
<1>6. CASE ~Silver(t)
  <2>1. /\ silver'[t] = silver[t] /\ rejects'[t] = rejects[t]
        /\ job'[t] = job[t] \/ Reset(t)
    BY <1>0, <1>6, Untouched DEF Table
  <2>2. CASE job'[t] = job[t]
    BY <1>0, <1>3, <2>1, <2>2 DEF SilverKnown, Classified
  <2>3. CASE Reset(t)
    BY <1>0, <2>1, <2>3 DEF SilverKnown, Reset
  <2>4. QED
    BY <2>1, <2>2, <2>3
<1>7. QED
  BY <1>5, <1>6

\* In whole tables a job that finds its sources whole is followed by no other, and what
\* it has finished is complete and stays complete.
LEMMA Lasting ==
  ASSUME IInv, [Next]_vars, AllWhole, NEW t \in Table, InTime(t)
  PROVE  /\ InTime(t)'
         /\ Complete(t) => Complete(t)'
         /\ (job[t].pc = "done" => Complete(t)) /\ job'[t].pc = "done" => Complete(t)'
<1>0. TypeOK /\ BronzeKnown /\ SilverKnown(t) /\ t \in Stage
  BY DEF IInv, Stage
<1>1. /\ landed' = landed /\ Kept(t)' = Kept(t) /\ Refused(t)' = Refused(t)
      /\ IsFiniteSet(landed[t])
  BY <1>0, Untouched, KeptStays, FiniteTables
<1>2. Kept(t) \subseteq landed[t] /\ Refused(t) \subseteq landed[t]
  BY DEF Kept, Refused
<1>3. Classified(t) => job[t].valid = Kept(t) /\ job[t].rejected = Refused(t)
  BY DEF InTime
<1> DEFINE Full(s, r) == s = Kept(t) /\ r = Refused(t)
<1>4. SUFFICES /\ job'[t].pc \in {"valid", "rejects", "check"} =>
                    job'[t].valid = Kept(t) /\ job'[t].rejected = Refused(t)
               /\ Full(silver[t], rejects[t]) => Full(silver'[t], rejects'[t])
               /\ (job[t].pc = "done" => Full(silver[t], rejects[t])) /\ job'[t].pc = "done" =>
                    Full(silver'[t], rejects'[t])
  BY <1>1 DEF InTime, Classified, Complete
<1>5. CASE Silver(t)
  <2>1. CASE Reset(t) /\ silver'[t] = silver[t] /\ rejects'[t] = rejects[t]
    BY <2>1 DEF Reset
  <2>2. CASE /\ job'[t].pc = "valid" /\ bronze[t] # {}
             /\ job'[t].rejected = {r \in bronze[t] : Errors(t, r)}
             /\ job'[t].valid = bronze[t] \ job'[t].rejected
             /\ silver'[t] = silver[t] /\ rejects'[t] = rejects[t]
    <3>1. Whole(t) /\ Whole("customers") /\ Whole("products")
      BY DEF AllWhole, Table
    <3>2. job'[t].rejected = Refused(t) /\ job'[t].valid = landed[t] \ Refused(t)
      BY <1>0, <2>2, <3>1, WholeErrors DEF Whole
    <3>3. job'[t].valid = Kept(t)
      BY <1>2, <3>2 DEF Refused
    <3>4. QED
      BY <2>2, <3>2, <3>3
  <2>3. CASE /\ job[t].pc = "valid" /\ job'[t].pc = "rejects"
             /\ job'[t].valid = job[t].valid /\ job'[t].rejected = job[t].rejected
             /\ silver'[t] = silver[t] \cup {r \in job[t].valid : r.id \notin Ids(silver[t])}
             /\ rejects'[t] = rejects[t]
    <3>1. job[t].valid = Kept(t) /\ job[t].rejected = Refused(t)
      BY <1>3, <2>3 DEF Classified
    <3>2. silver[t] = Kept(t) => silver'[t] = Kept(t)
      BY <2>3, <3>1
    <3>3. QED
      BY <2>3, <3>1, <3>2
  <2>4. CASE /\ job[t].pc = "rejects" /\ job'[t].pc = "check"
             /\ job'[t].valid = job[t].valid /\ job'[t].rejected = job[t].rejected
             /\ silver'[t] = silver[t]
             /\ rejects'[t] = rejects[t] \cup job[t].rejected
    <3>1. job[t].valid = Kept(t) /\ job[t].rejected = Refused(t)
      BY <1>3, <2>4 DEF Classified
    <3>2. rejects[t] = Refused(t) => rejects'[t] = Refused(t)
      BY <2>4, <3>1
    <3>3. QED
      BY <2>4, <3>1, <3>2
  <2>5. CASE /\ job[t].pc = "check" /\ job'[t].pc = "done" /\ PostCondition(t)
             /\ silver'[t] = silver[t] /\ rejects'[t] = rejects[t]
    <3>1. job[t].valid = Kept(t) /\ job[t].rejected = Refused(t)
      BY <1>3, <2>5 DEF Classified
    <3>2. /\ Kept(t) \subseteq silver[t] /\ silver[t] \in {{}, Kept(t)}
          /\ Refused(t) \subseteq rejects[t]
      BY <1>0, <2>5, <3>1 DEF SilverKnown
    <3>3. silver[t] = Kept(t)
      BY <3>2
    <3>4. rejects[t] = Refused(t)
      <4>1. IsFiniteSet(rejects[t])
        BY <1>0, <1>1, Shapes, FS_Subset
      <4>2. Cardinality(rejects[t]) = Cardinality(Refused(t))
        BY <2>5, <3>1 DEF PostCondition
      <4>3. QED
        BY <3>2, <4>1, <4>2, SameSize
    <3>5. QED
      BY <2>5, <3>3, <3>4
  <2>6. QED
    BY <1>0, <1>5, <2>1, <2>2, <2>3, <2>4, <2>5, SilverSteps
<1>6. CASE ~Silver(t)
  <2>1. /\ silver'[t] = silver[t] /\ rejects'[t] = rejects[t]
        /\ job'[t] = job[t] \/ Reset(t)
    BY <1>0, <1>6, Untouched DEF Table
  <2>2. QED
    BY <1>3, <2>1 DEF Reset, Classified
<1>7. QED
  BY <1>5, <1>6

-----------------------------------------------------------------------------
(* The invariant of the runner.                                            *)

\* The stages between the bronze job and the mart are those of the tables.
LEMMA StageOrder ==
  /\ Len(Stages) = 6 /\ Stages[1] = "bronze" /\ Stages[6] = "gold"
  /\ \A i \in 2..5 : Stages[i] \in Table
  /\ \A t \in Table : \E i \in 2..5 : Stages[i] = t
  BY DEF Stages, Table

\* What the runner has behind it is complete and stays so.
LEMMA RunNext ==
  ASSUME IInv, [Next]_vars
  PROVE  RunKnown'
<1>0. /\ TypeOK /\ BronzeKnown /\ RunKnown /\ run \in 0..6
      /\ \A i \in 2..5 : Stages[i] \in Table
  BY StageOrder DEF IInv, TypeOK
<1>1. AllWhole => AllWhole'
  BY BronzeNext DEF AllWhole
\* A run that goes on.
<1>2. ASSUME run' = run, recorded' = recorded
      PROVE  RunKnown'
  <2>1. run' > 1 => AllWhole'
    BY <1>0, <1>1, <1>2 DEF RunKnown
  <2>2. ASSUME NEW i \in 2..5, run' >= i
        PROVE  /\ InTime(Stages[i])'
               /\ run' > i => Complete(Stages[i])'
               /\ run' = i /\ job'[Stages[i]].pc = "done" => Complete(Stages[i])'
    <3>1. AllWhole /\ InTime(Stages[i])
      BY <1>0, <1>2, <2>2 DEF RunKnown
    <3>2. /\ run > i => Complete(Stages[i])
          /\ run = i /\ job[Stages[i]].pc = "done" => Complete(Stages[i])
      BY <1>0 DEF RunKnown
    <3>3. QED
      BY <1>0, <1>2, <3>1, <3>2, Lasting
  <2>3. recorded' => AllWhole' /\ \A t \in Table : InTime(t)' /\ Complete(t)'
    <3>1. recorded => AllWhole /\ \A t \in Table : InTime(t) /\ Complete(t)
      BY <1>0, Zenon DEF RunKnown
    <3>2. AllWhole => \A t \in Table : InTime(t) /\ Complete(t) => InTime(t)' /\ Complete(t)'
      BY Lasting
    <3>3. QED
      BY <1>1, <1>2, <3>1, <3>2
  <2>4. run \in Int /\ \A i \in 2..5 : i \in Int /\ (run > i => run >= i) /\ (run = i => run >= i)
    BY <1>0
  <2>5. \A i \in 2..5 : /\ run' >= i => InTime(Stages[i])'
                        /\ run' > i => Complete(Stages[i])'
                        /\ run' = i /\ job'[Stages[i]].pc = "done" => Complete(Stages[i])'
    BY <1>2, <2>2, <2>4
  <2>6. QED
    BY <2>1, <2>3, <2>5, Zenon DEF RunKnown
\* A run that begins or ends.
<1>3. ASSUME run' \in {0, 1},
             recorded' => AllWhole' /\ \A t \in Table : InTime(t)' /\ Complete(t)'
      PROVE  RunKnown'
  <2>1. /\ ~(run' > 1)
        /\ \A i \in 2..5 : ~(run' >= i) /\ ~(run' > i) /\ run' # i
    BY <1>3
  <2>2. QED
    BY <1>3, <2>1, Zenon DEF RunKnown
<1>4. ASSUME recorded' = recorded
      PROVE  recorded' => AllWhole' /\ \A t \in Table : InTime(t)' /\ Complete(t)'
  <2>1. recorded => AllWhole /\ \A t \in Table : InTime(t) /\ Complete(t)
    BY <1>0, Zenon DEF RunKnown
  <2>2. AllWhole => \A t \in Table : InTime(t) /\ Complete(t) => InTime(t)' /\ Complete(t)'
    BY Lasting
  <2>3. QED
    BY <1>1, <1>4, <2>1, <2>2
<1>5. CASE Launch \/ StageFailed \/ RunnerDies
  BY <1>3, <1>4, <1>5 DEF Launch, StageFailed, RunnerDies
<1>6. CASE Commit
  <2>1. run = 6 /\ run' = 0 /\ UNCHANGED <<landed, bronze, silver, rejects, job>>
    BY <1>6, StageOrder DEF Commit
  <2>2. AllWhole /\ \A i \in 2..5 : InTime(Stages[i]) /\ Complete(Stages[i])
    BY <1>0, <2>1 DEF RunKnown
  <2>3. AllWhole' /\ \A t \in Table : InTime(t)
    BY <1>1, <2>2, StageOrder
  <2>4. \A t \in Table : InTime(t)'
    BY <2>2, <2>3, Lasting
  <2>5. \A t \in Table : Complete(t)'
    <3> SUFFICES ASSUME NEW t \in Table PROVE Complete(t)'
      OBVIOUS
    <3>1. InTime(t) /\ Complete(t)
      BY <2>2, StageOrder
    <3>2. QED
      BY <2>2, <3>1, Lasting
  <2>6. QED
    BY <1>3, <2>1, <2>3, <2>4, <2>5
<1>7. CASE NextStage
  <2>1. /\ run \in 1..5 /\ run' = run + 1 /\ job[Stages[run]].pc = "done"
        /\ Begin(Stages[run + 1]) /\ Stages[run + 1] \in Stage
        /\ UNCHANGED <<landed, bronze, silver, rejects, recorded>>
    BY <1>7, StageOrder DEF NextStage, Succeeded, Stages, Stage, Table
  <2>2. AllWhole
    <3>1. CASE run = 1
      BY <1>0, <2>1, <3>1, StageOrder DEF BronzeKnown
    <3>2. CASE run # 1
      BY <1>0, <2>1, <3>2 DEF RunKnown
    <3>3. QED
      BY <3>1, <3>2
  <2>3. job'[Stages[run + 1]].pc = "begin"
    BY <1>0, <2>1, Resets
  <2>4. ASSUME NEW i \in 2..5, i <= run
        PROVE  InTime(Stages[i])' /\ Complete(Stages[i])'
    <3>1. InTime(Stages[i]) /\ Complete(Stages[i])
      BY <1>0, <2>1, <2>4 DEF RunKnown
    <3>2. QED
      BY <1>0, <2>2, <3>1, Lasting
  <2>5. \A i \in 2..5 : i = run + 1 => InTime(Stages[i])' /\ job'[Stages[i]].pc # "done"
    BY <2>3 DEF InTime, Classified
  <2>6. \A i \in 2..5 : /\ run' >= i => i <= run \/ i = run + 1
                        /\ run' > i => i <= run
                        /\ run' = i => i = run + 1
    BY <2>1
  <2>7. \A i \in 2..5 : /\ run' >= i => InTime(Stages[i])'
                        /\ run' > i => Complete(Stages[i])'
                        /\ ~(run' = i /\ job'[Stages[i]].pc = "done")
    BY <2>4, <2>5, <2>6
  <2>8. QED
    BY <1>1, <1>4, <2>1, <2>2, <2>7, Zenon DEF RunKnown
<1>8. CASE \/ Work \/ UNCHANGED vars
           \/ \E s \in Hand : ByHand(s)
           \/ \E s \in Stage : JobDies(s)
  <2>1. Work => UNCHANGED <<run, recorded>>
    BY DEF Work, BronzeStep, CustomerSilver, ProductSilver, OrderSilver, PaymentSilver, Silver,
           Classify, MergeValid, MergeRejects, CheckSilver, Summarize, MergeGold
  <2>2. QED
    BY <1>2, <1>8, <2>1 DEF ByHand, JobDies, vars
<1>9. QED
  BY <1>5, <1>6, <1>7, <1>8 DEF Next, Runner

-----------------------------------------------------------------------------
(* The invariant of the mart.                                              *)

\* A table of which as many rows were classified as there are has all of them.
LEMMA ReconciledIs ==
  ASSUME TypeOK, NEW t \in Table, t # "orders", SilverKnown(t), Reconciled(t), Whole(t)
  PROVE  Complete(t)
<1>1. IsFiniteSet(landed[t]) /\ Cardinality(landed[t]) \in Nat
  BY FiniteTables, FS_CardinalityType
<1>2. /\ Kept(t) \subseteq landed[t] /\ Refused(t) \subseteq landed[t]
      /\ Kept(t) \cap Refused(t) = {} /\ Kept(t) \cup Refused(t) = landed[t]
  BY DEF Kept, Refused
<1>3. silver[t] \in {{}, Kept(t)} /\ rejects[t] \in {{}, Refused(t)}
  BY DEF SilverKnown
<1>4. Cardinality(silver[t]) + Cardinality(rejects[t]) = Cardinality(landed[t])
  BY DEF Reconciled, Whole
<1>5. /\ Cardinality({}) = 0 /\ Cardinality(Kept(t)) \in Nat /\ Cardinality(Refused(t)) \in Nat
  BY <1>1, <1>2, FS_Subset, FS_CardinalityType, FS_EmptySet
<1>6. CASE silver[t] = {}
  <2>1. rejects[t] \subseteq landed[t] /\ Cardinality(rejects[t]) \in Nat
    BY <1>1, <1>2, <1>3, FS_Subset, FS_CardinalityType
  <2>2. Cardinality(rejects[t]) = Cardinality(landed[t])
    BY <1>1, <1>4, <1>5, <1>6, <2>1
  <2>3. rejects[t] = landed[t]
    BY <1>1, <2>1, <2>2, SameSize
  <2>4. QED
    BY <1>2, <1>3, <1>6, <2>3 DEF Complete
<1>7. CASE rejects[t] = {}
  <2>1. silver[t] \subseteq landed[t] /\ Cardinality(silver[t]) \in Nat
    BY <1>1, <1>2, <1>3, FS_Subset, FS_CardinalityType
  <2>2. Cardinality(silver[t]) = Cardinality(landed[t])
    BY <1>1, <1>4, <1>5, <1>7, <2>1
  <2>3. silver[t] = landed[t]
    BY <1>1, <2>1, <2>2, SameSize
  <2>4. QED
    BY <1>2, <1>3, <1>7, <2>3 DEF Complete
<1>8. QED
  BY <1>3, <1>6, <1>7 DEF Complete

\* What the mart accepts is publishable, and it summarizes what is kept of it.
LEMMA SourcesAreTrue ==
  ASSUME TypeOK, BronzeKnown, \A t \in Table : SilverKnown(t), Sources
  PROVE  Publishable /\ Summary = Daily
<1>0. "customers" \in Table /\ "orders" \in Table /\ "payments" \in Table /\ "products" \in Table
  BY DEF Table
<1>1. \A t \in Table : silver[t] # {} => silver[t] = Kept(t) /\ bronze[t] # {}
  BY DEF SilverKnown
<1>2. silver["orders"] = Kept("orders") /\ Kept("orders") # {} /\ bronze["orders"] # {}
  BY <1>0, <1>1 DEF Sources
<1>3. bronze["payments"] # {} /\ Complete("payments")
  <2>1. bronze["payments"] # {} /\ Reconciled("payments")
    BY DEF Sources
  <2>2. Whole("payments")
    BY <1>0, <2>1 DEF BronzeKnown
  <2>3. QED
    BY <1>0, <2>1, <2>2, ReconciledIs
<1>4. \A o \in silver["orders"] : /\ o.customer \in Ids(silver["customers"])
                                  /\ o.product \in Ids(silver["products"])
  BY DEF Sources, References
<1>5. silver["customers"] # {} /\ silver["products"] # {}
  BY <1>2, <1>4 DEF Ids
<1>6. /\ silver["customers"] = Kept("customers") /\ silver["products"] = Kept("products")
      /\ bronze["customers"] # {} /\ bronze["products"] # {}
  BY <1>0, <1>1, <1>5
<1>7. \A t \in Table : \A r \in landed[t] : ~r.empty
  BY <1>2, <1>3, <1>6 DEF BronzeKnown, Table
<1>8. \A p \in landed["payments"] : p.order \in Ids(Kept("orders"))
  <2>1. silver["payments"] \cup rejects["payments"] = landed["payments"]
    BY <1>3 DEF Complete, Kept, Refused
  <2>2. {p.order : p \in silver["payments"] \cup rejects["payments"]} \subseteq Ids(silver["orders"])
    BY DEF Sources
  <2>3. QED
    BY <1>2, <2>1, <2>2
<1>9. Publishable
  BY <1>2, <1>4, <1>6, <1>7, <1>8 DEF Publishable
<1>10. Summary = Daily
  BY <1>2, <1>3 DEF Summary, Daily, Complete
<1>11. QED
  BY <1>9, <1>10

\* The rows of the mart are computed from complete tables.
LEMMA GoldNext ==
  ASSUME IInv, [Next]_vars
  PROVE  GoldKnown'
<1>0. TypeOK /\ BronzeKnown /\ GoldKnown /\ "gold" \in Stage /\ \A t \in Table : SilverKnown(t)
  BY DEF IInv, Stage
<1>1. landed' = landed
  BY <1>0, Untouched
<1>2. Daily' = Daily /\ Publishable' = Publishable
  <2>1. /\ Kept("orders")' = Kept("orders") /\ Kept("payments")' = Kept("payments")
        /\ Kept("customers")' = Kept("customers") /\ Kept("products")' = Kept("products")
        /\ Refused("payments")' = Refused("payments")
    BY <1>1, KeptStays DEF Table
  <2>2. QED
    BY <1>1, <2>1 DEF Daily, DayRow, Ids, Publishable
<1>3. CASE Summarize
  <2> DEFINE j == Job("merge", Summary, {})
  <2>1. gold' = gold /\ (Fail("gold") \/ (Sources /\ job' = [job EXCEPT !["gold"] = j]))
    BY <1>3 DEF Summarize
  <2>2. Rec(j) /\ j.valid = Summary
    BY DEF Rec, Job
  <2> HIDE DEF j
  <2>3. CASE Fail("gold")
    <3>1. job'["gold"].pc # "merge"
      BY <1>0, <2>3, Resets DEF Reset
    <3>2. QED
      BY <1>0, <1>2, <2>1, <3>1 DEF GoldKnown
  <2>4. CASE Sources /\ job' = [job EXCEPT !["gold"] = j]
    <3>1. job'["gold"] = j
      BY <1>0, <2>2, <2>4, JobMoves
    <3>2. Publishable /\ Summary = Daily
      BY <1>0, <2>4, SourcesAreTrue
    <3>3. QED
      BY <1>0, <1>2, <2>1, <2>2, <3>1, <3>2 DEF GoldKnown
  <2>5. QED
    BY <2>1, <2>3, <2>4
<1>4. CASE MergeGold
  <2>1. /\ gold' = gold \cup {d \in job["gold"].valid : \A g \in gold : g.day # d.day}
        /\ job["gold"].pc = "merge" /\ (Done("gold") \/ Fail("gold"))
    BY <1>4 DEF MergeGold
  <2>2. Publishable /\ job["gold"].valid = Daily /\ gold \in {{}, Daily}
    BY <1>0, <2>1 DEF GoldKnown
  <2>3. gold' = Daily
    BY <2>1, <2>2
  <2>4. job'["gold"].pc # "merge"
    BY <1>0, <2>1, Resets, Finishes DEF Reset
  <2>5. QED
    BY <1>2, <2>2, <2>3, <2>4 DEF GoldKnown
<1>5. CASE ~Summarize /\ ~MergeGold
  <2>1. gold' = gold /\ (job'["gold"] = job["gold"] \/ Reset("gold"))
    BY <1>0, <1>5, Untouched DEF Table
  <2>2. QED
    BY <1>0, <1>2, <2>1 DEF GoldKnown, Reset
<1>6. QED
  BY <1>3, <1>4, <1>5

-----------------------------------------------------------------------------
(* The theorems.                                                           *)

\* An empty lakehouse satisfies the invariant.
LEMMA InitInv ==
  Init => IInv
<1> SUFFICES ASSUME Init PROVE IInv
  OBVIOUS
<1> USE DEF Init
<1>1. \A t \in Table : bronze[t] = {} /\ silver[t] = {} /\ rejects[t] = {}
  BY DEF NoTables
<1>2. \A s \in Stage : job[s] = Off
  OBVIOUS
<1>3. Rec(Off) /\ Off.pc = "off" /\ Off.at = 1 /\ Off.valid = {} /\ Off.rejected = {}
  BY DEF Off, Job, Rec
<1>4. TypeOK
  <2>1. Table3(bronze, silver, rejects)
    BY <1>1 DEF Table3, NoTables
  <2>2. \A s \in Stage : JobFits(s, job[s])
    BY <1>2, <1>3 DEF JobFits, Label
  <2>3. job = [s \in Stage |-> job[s]]
    OBVIOUS
  <2>4. Counters(run, recorded, faults, hands)
    <3>1. Counters(0, FALSE, 0, 0)
      BY BoundAssumption DEF Counters
    <3>2. QED
      BY <3>1, Zenon
  <2>5. QED
    BY <2>1, <2>2, <2>3, <2>4, TypeParts DEF Parts
<1>5. BronzeKnown
  BY <1>1, <1>2, <1>3 DEF BronzeKnown, Stage
<1>6. \A t \in Table : SilverKnown(t)
  BY <1>1, <1>2, <1>3 DEF SilverKnown, Classified, Stage
<1>7. RunKnown /\ GoldKnown
  <2>1. \A i \in 2..5 : ~(run >= i) /\ ~(run > i) /\ run # i
    OBVIOUS
  <2>2. job["gold"].pc # "merge"
    BY <1>2, <1>3 DEF Stage
  <2>3. QED
    BY <2>1, <2>2 DEF RunKnown, GoldKnown
<1>8. QED
  BY <1>4, <1>5, <1>6, <1>7 DEF IInv

\* The inductive invariant holds, for every set of contents that a batch may have, whatever
\* stages are started by hand and wherever jobs and runners die (jobs/spark/*_commerce_*.py
\* under run_commerce_batch).
THEOREM Invariant == Spec => []IInv
<1>1. IInv /\ [Next]_vars => IInv'
  <2> SUFFICES ASSUME IInv, [Next]_vars PROVE IInv'
    OBVIOUS
  <2>1. TypeOK' /\ BronzeKnown' /\ RunKnown' /\ GoldKnown'
    BY TypeStep, BronzeNext, RunNext, GoldNext DEF IInv
  <2>2. \A t \in Table : SilverKnown(t)'
    BY SilverNext
  <2>3. QED
    BY <2>1, <2>2 DEF IInv
<1>2. QED
  BY <1>1, InitInv, PTL DEF Spec

\* Every variable has its type.
THEOREM TypeCorrect == Spec => []TypeOK
<1>1. IInv => TypeOK
  BY DEF IInv
<1>2. QED
  BY <1>1, Invariant, PTL

\* Of the kept orders with one id there is one.
LEMMA OneOrder ==
  ASSUME landed \in Landing, NEW o \in Kept("orders"), NEW p \in Kept("orders"), o.id = p.id
  PROVE  o = p
<1> SUFFICES ASSUME o # p PROVE FALSE
  OBVIOUS
<1>1. o \in landed["orders"] /\ p \in landed["orders"] /\ "orders" \in Table
  BY DEF Kept, Table
<1>2. Ahead("orders", o, p) /\ Ahead("orders", p, o)
  BY <1>1 DEF Kept
<1>3. QED
  BY <1>1, <1>2, OneAhead

\* A mart row of a day holds the orders of that day, and what was paid for them.
LEMMA DayIs ==
  ASSUME NEW d
  PROVE  LET K == {o \in Kept("orders") : o.day = d}
             g == DayRow(d, K, Kept("payments"), Refused("payments"))
         IN  /\ g.day = d /\ g.orders = Ids(K)
             /\ g.captured = {p \in Kept("payments") : p.order \in Ids(K) /\ p.captured}
             /\ g.other = {p \in Kept("payments") : p.order \in Ids(K) /\ ~p.captured}
             /\ g.rejected = {p \in Refused("payments") : p.order \in Ids(K)}
  BY DEF DayRow

\* The mart has rows only of a batch that is publishable, and counts every kept order and
\* every payment once (gold_commerce_daily.py over the silver jobs).
THEOREM MartIsTrue == Spec => []GoldIsTrue
<1>1. IInv => GoldIsTrue
  <2> SUFFICES ASSUME IInv, gold # {} PROVE GoldIsTrue
    BY DEF GoldIsTrue
  <2>1. landed \in Landing /\ Publishable /\ gold = Daily
    BY DEF IInv, TypeOK, GoldKnown
  <2> DEFINE O == Kept("orders")
             On(d) == {o \in O : o.day = d}
             Row(d) == DayRow(d, On(d), Kept("payments"), Refused("payments"))
             Days == {o.day : o \in O}
  <2>2. gold = {Row(d) : d \in Days}
    BY <2>1 DEF Daily
  <2>3. \A d : /\ Row(d).day = d /\ Row(d).orders = Ids(On(d))
               /\ Row(d).captured = {p \in Kept("payments") : p.order \in Ids(On(d)) /\ p.captured}
               /\ Row(d).other = {p \in Kept("payments") : p.order \in Ids(On(d)) /\ ~p.captured}
               /\ Row(d).rejected = {p \in Refused("payments") : p.order \in Ids(On(d))}
    BY DayIs
  <2> HIDE DEF Row
  <2>4. \A o, p \in O : o.id = p.id => o = p
    BY <2>1, OneOrder
  <2> HIDE DEF O
  <2>5. \A d : \A o \in O : o.id \in Ids(On(d)) <=> o.day = d
    BY <2>4 DEF Ids
  <2>a. /\ \A o \in O : o.day \in Days
        /\ \A g \in gold : \E d \in Days : g = Row(d)
        /\ \A d \in Days : Row(d) \in gold
        /\ \A d : Ids(On(d)) \subseteq Ids(O)
    BY <2>2 DEF Ids
  <2> HIDE DEF On, Days
  <2>6. UNION {g.orders : g \in gold} = Ids(O)
    <3>1. ASSUME NEW x \in Ids(O) PROVE \E g \in gold : x \in g.orders
      <4>1. PICK o \in O : o.id = x
        BY DEF Ids
      <4>2. Row(o.day) \in gold /\ x \in Row(o.day).orders
        BY <2>a, <2>3, <2>5, <4>1
      <4>3. QED
        BY <4>2
    <3>2. ASSUME NEW g \in gold PROVE g.orders \subseteq Ids(O)
      BY <2>a, <2>3
    <3>3. QED
      BY <3>1, <3>2
  <2>7. \A g \in gold : \A o \in O : o.id \in g.orders <=> o.day = g.day
    BY <2>a, <2>3, <2>5
  <2>8. Kept("payments") \cup Refused("payments") = landed["payments"]
        /\ Kept("payments") \cap Refused("payments") = {}
    BY DEF Kept, Refused
  <2>9. ASSUME NEW p \in landed["payments"]
        PROVE  /\ Cardinality({g \in gold : p \in g.captured \cup g.other \cup g.rejected}) = 1
               /\ \A g \in gold : /\ p \in g.rejected => p \notin Kept("payments")
                                  /\ p \in g.captured \cup g.other => p \in Kept("payments")
                                  /\ p \in g.captured => p.captured
    <3>1. PICK o \in O : o.id = p.order
      BY <2>1 DEF Publishable, Ids, O
    <3>2. \A d : p \in Row(d).captured \cup Row(d).other \cup Row(d).rejected <=> d = o.day
      <4>1. \A d : p.order \in Ids(On(d)) <=> d = o.day
        BY <2>5, <3>1
      <4>2. p \in Kept("payments") \/ p \in Refused("payments")
        BY <2>8
      <4>3. QED
        BY <2>3, <4>1, <4>2
    <3>3. {g \in gold : p \in g.captured \cup g.other \cup g.rejected} = {Row(o.day)}
      <4>1. Row(o.day) \in gold
        BY <2>a, <3>1
      <4>2. QED
        BY <2>a, <3>2, <4>1
    <3>4. \A d : /\ p \in Row(d).rejected => p \notin Kept("payments")
                 /\ p \in Row(d).captured \cup Row(d).other => p \in Kept("payments")
                 /\ p \in Row(d).captured => p.captured
      BY <2>3, <2>8
    <3>5. QED
      BY <2>a, <3>3, <3>4, FS_Singleton
  <2>10. QED
    BY <2>1, <2>6, <2>7, <2>9 DEF GoldIsTrue, O
<1>2. QED
  BY <1>1, Invariant, PTL

\* A recorded batch has every landed row once, kept or refused, as its content says
\* (run_commerce_batch records what all stages of one run have finished).
THEOREM RecordIsWhole == Spec => []RecordedIsComplete
<1>1. IInv => RecordedIsComplete
  <2> SUFFICES ASSUME IInv, recorded, NEW t \in Table
               PROVE  bronze[t] = landed[t] /\ silver[t] = Kept(t) /\ rejects[t] = landed[t] \ Kept(t)
    BY DEF RecordedIsComplete
  <2>1. AllWhole /\ Complete(t)
    BY DEF IInv, RunKnown
  <2>2. QED
    BY <2>1 DEF AllWhole, Whole, Complete, Refused
<1>2. QED
  BY <1>1, Invariant, PTL

-----------------------------------------------------------------------------
(* The containers of the stages.                                          *)

\* The initial state satisfies the invariant.
LEMMA ContainerInit ==
  DockerInit => DockerIInv
<1> SUFFICES ASSUME DockerInit PROVE DockerIInv
  OBVIOUS
<1> USE StageAssumption, NameAssumption DEF DockerInit
<1>1. DockerTypeOK
  BY DEF DockerTypeOK, Absent, NoCleanup
<1>2. \A n \in Name : docker[n].owner # n[1] /\ docker[n].owner # Foreign
  BY DEF Name, Absent
<1>3. LeftoverIsJournaled /\ ForeignKnown
  BY <1>2 DEF LeftoverIsJournaled, ForeignKnown
<1>4. LockHeld /\ cleanup.id # Foreign
  BY DEF LockHeld, NoCleanup
<1>5. (\A r \in Run : AttemptKnown(r)) /\ \A n \in Name : StoppedKnown(n)
  BY DEF AttemptKnown, StoppedKnown, Recorded
<1>6. QED
  BY <1>1, <1>3, <1>4, <1>5 DEF DockerIInv

\* Every variable keeps its type.
LEMMA ContainerType ==
  DockerTypeOK /\ [DockerNext]_dockerVars => DockerTypeOK'
<1> SUFFICES ASSUME DockerTypeOK, [DockerNext]_dockerVars PROVE DockerTypeOK'
  OBVIOUS
<1> USE StageAssumption, NameAssumption
<1>r. ASSUME NEW r \in Run, RunnerStep(r) \/ Expire(r) \/ Die(r) \/ ClientStep(r)
      PROVE  DockerTypeOK'
  <2>1. NameOf(r) \in Name
    BY DEF DockerTypeOK, NameOf, Name
  <2> USE DEF DockerTypeOK, Goto, End, Log, Fault, Event
  <2>2. CASE Start(r)
    BY <2>2 DEF Start
  <2>3. CASE Intent(r)
    BY <2>1, <2>3 DEF Intent
  <2>4. CASE LaunchStage(r)
    BY <2>4 DEF LaunchStage
  <2>5. CASE Completed(r)
    <3>1. runner' \in [Run -> [pc : {"new", "intent", "launch", "wait", "remove", "removed",
                                    "unconfirmed", "ended"}, stage : 1..N]]
      <4>1. CASE runner[r].stage < N
        BY <2>5, <4>1 DEF Completed
      <4>2. CASE ~(runner[r].stage < N)
        BY <2>5, <4>2 DEF Completed
      <4>3. QED
        BY <4>1, <4>2
    <3>2. QED
      BY <2>1, <2>5, <3>1 DEF Completed
  <2>6. CASE Failed(r)
    BY <2>1, <2>6 DEF Failed
  <2>7. CASE Remove(r)
    <3>1. docker' = docker \/ docker' = [docker EXCEPT ![NameOf(r)] = Absent]
      BY <2>7 DEF Remove
    <3>2. docker' \in [Name -> [owner : ContainerIds, state : {"created", "running", "exited"}]
                                \cup {Absent}]
      BY <2>1, <3>1
    <3>3. QED
      BY <2>7, <3>2 DEF Remove
  <2>8. CASE Outcome(r)
    BY <2>1, <2>8 DEF Outcome
  <2>9. CASE Expire(r)
    BY <2>9 DEF Expire, Killed
  <2>10. CASE Die(r)
    BY <2>10 DEF Die, Killed
  <2>11. CASE ClientCreates(r)
    BY <2>1, <2>11 DEF ClientCreates, ContainerIds
  <2>12. CASE ClientStarts(r)
    BY <2>1, <2>12 DEF ClientStarts, Absent, ContainerIds
  <2>13. CASE ClientEnds(r)
    BY <2>13 DEF ClientEnds
  <2>14. QED
    BY <1>r, <2>2, <2>3, <2>4, <2>5, <2>6, <2>7, <2>8, <2>9, <2>10, <2>11, <2>12, <2>13
       DEF RunnerStep, ClientStep
<1>n. ASSUME NEW n \in Name, Exits(n) \/ AutoRemoved(n) \/ Reuse(n) \/ Cleanup(n)
      PROVE  DockerTypeOK'
  <2> USE DEF DockerTypeOK, Fault, ContainerIds
  <2>1. CASE Exits(n)
    BY <2>1 DEF Exits, Absent
  <2>2. CASE AutoRemoved(n)
    BY <2>2 DEF AutoRemoved, Absent
  <2>3. CASE Reuse(n)
    BY <2>3 DEF Reuse
  <2>4. CASE Cleanup(n)
    BY <2>4 DEF Cleanup, Asked
  <2>5. QED
    BY <1>n, <2>1, <2>2, <2>3, <2>4
<1>c. ASSUME CleanupStep \/ Abandon
      PROVE  DockerTypeOK'
  <2> USE DEF DockerTypeOK, Report, Fault
  <2>0. cleanup.pc # "off" => cleanup \in Asked
    BY DEF NoCleanup
  <2>1. CASE Inspect
    BY <2>0, <2>1 DEF Inspect, Asked, Absent, ContainerIds
  <2>2. CASE RemoveId
    BY <2>0, <2>2 DEF RemoveId, Asked, Absent
  <2>3. CASE Confirm
    BY <2>3 DEF Confirm
  <2>4. CASE Abandon
    BY <2>4 DEF Abandon
  <2>5. QED
    BY <1>c, <2>1, <2>2, <2>3, <2>4 DEF CleanupStep
<1>s. CASE UNCHANGED dockerVars
  BY <1>s DEF DockerTypeOK, dockerVars
<1>q. QED
  BY <1>r, <1>n, <1>c, <1>s DEF DockerNext

\* A name tells its run and its stage.
LEMMA NameParts ==
  ASSUME DockerTypeOK
  PROVE  /\ \A n \in Name : n[1] \in Run /\ n[2] \in 1..N /\ n = <<n[1], n[2]>>
         /\ \A r \in Run : NameOf(r) \in Name /\ NameOf(r)[1] = r
                             /\ NameOf(r)[2] = runner[r].stage
  BY DEF DockerTypeOK, Name, NameOf

\* A run that moves keeps its stage, and nothing of another run changes.
LEMMA Moves ==
  ASSUME DockerTypeOK, NEW r \in Run, NEW pc, Goto(r, pc)
  PROVE  /\ \A q \in Run : NameOf(q)' = NameOf(q) /\ runner'[q].stage = runner[q].stage
         /\ \A q \in Run \ {r} : runner'[q] = runner[q]
         /\ runner'[r].pc = pc
  BY DEF DockerTypeOK, NameOf, Goto

\* A run makes a step that leaves the daemon and the other runs alone.
LEMMA RunMoves ==
  ASSUME DockerIInv, NEW r \in Run, ~Ended(r),
         docker' = docker, cleanup' = cleanup, journal \subseteq journal',
         \A q \in Run : NameOf(q)' = NameOf(q) /\ runner'[q].stage = runner[q].stage,
         \A q \in Run \ {r} : runner'[q] = runner[q] /\ client'[q] = client[q]
  PROVE  /\ LeftoverIsJournaled' /\ ForeignKnown' /\ cleanup'.id # Foreign
         /\ \A q \in Run \ {r} : AttemptKnown(q)'
         /\ \A n \in Name :
              Recorded(n, "timeout_removed") => StoppedKnown(n)'
<1>0. /\ DockerTypeOK /\ LeftoverIsJournaled /\ ForeignKnown /\ cleanup.id # Foreign
      /\ \A q \in Run : AttemptKnown(q)
      /\ \A n \in Name : StoppedKnown(n)
  BY DEF DockerIInv
<1>1. \A n \in Name : n[1] \in Run
  BY <1>0, NameParts
<1>2. \A q \in Run : Ended(q) => q # r /\ Ended(q)'
  BY DEF Ended
<1>3. \A n, e : Recorded(n, e) => Recorded(n, e)'
  BY DEF Recorded
<1>4. \A n : Runs(n)' <=> Runs(n)
  BY DEF Runs
<1>5. LeftoverIsJournaled' /\ ForeignKnown' /\ cleanup'.id # Foreign
  BY <1>0, <1>1, <1>2, <1>3 DEF LeftoverIsJournaled, ForeignKnown, Name
<1>6. ASSUME NEW q \in Run \ {r} PROVE AttemptKnown(q)'
  BY <1>0, <1>3, <1>4 DEF AttemptKnown
<1>7. ASSUME NEW n \in Name, Recorded(n, "timeout_removed")
      PROVE  StoppedKnown(n)'
  <2>1. /\ ~Runs(n) /\ Ended(n[1]) /\ runner[n[1]].stage = n[2]
        /\ client[n[1]] \in {"none", "sent"}
    BY <1>0, <1>7 DEF StoppedKnown
  <2>2. n[1] \in Run \ {r} /\ Ended(n[1])'
    BY <1>1, <1>2, <2>1
  <2>3. QED
    BY <1>4, <2>1, <2>2 DEF StoppedKnown
<1>8. QED
  BY <1>5, <1>6, <1>7

\* A run takes the lock.
LEMMA StartInv ==
  ASSUME DockerIInv, DockerTypeOK', NEW r \in Run, Start(r)
  PROVE  DockerIInv'
<1>m. Goto(r, "intent") /\ DockerTypeOK
  BY DEF DockerIInv, Start
<1>0. /\ \A q \in Run : NameOf(q)' = NameOf(q) /\ runner'[q].stage = runner[q].stage
      /\ \A q \in Run \ {r} : runner'[q] = runner[q]
      /\ runner'[r].pc = "intent"
  BY <1>m, Moves
<1>1. /\ docker' = docker /\ cleanup' = cleanup /\ journal \subseteq journal' /\ ~Ended(r)
      /\ \A q \in Run \ {r} : client'[q] = client[q]
  BY <1>m DEF Start, Ended, DockerTypeOK
<1>2. /\ LeftoverIsJournaled' /\ ForeignKnown' /\ cleanup'.id # Foreign
      /\ \A q \in Run \ {r} : AttemptKnown(q)'
      /\ \A n \in Name :
           Recorded(n, "timeout_removed") => StoppedKnown(n)'
  BY <1>0, <1>1, RunMoves
<1>3. LockHeld'
  <2>1. LockHeld /\ cleanup' = cleanup
    BY <1>1 DEF DockerIInv
  <2>2. QED
    BY <1>0, <2>1, NameAssumption DEF Start, LockHeld
<1>4. AttemptKnown(r)'
  <2>1. AttemptKnown(r) /\ NameOf(r)' = NameOf(r) /\ docker' = docker
    BY <1>0, <1>1 DEF DockerIInv
  <2>2. \A n, e : Recorded(n, e) => Recorded(n, e)'
    BY <1>1 DEF Recorded
  <2>3. QED
    BY <1>0, <1>m, <2>1, <2>2 DEF Start, AttemptKnown, DockerTypeOK
<1>5. \A n \in Name :
        Recorded(n, "timeout_removed")' => Recorded(n, "timeout_removed")
  BY DEF Start, Recorded
<1>6. QED
  BY <1>2, <1>3, <1>4, <1>5 DEF DockerIInv, StoppedKnown

\* The launch is recorded before there is a client.
LEMMA IntentInv ==
  ASSUME DockerIInv, DockerTypeOK', NEW r \in Run, Intent(r)
  PROVE  DockerIInv'
<1>m. Goto(r, "launch") /\ DockerTypeOK
  BY DEF DockerIInv, Intent, Log
<1>0. /\ \A q \in Run : NameOf(q)' = NameOf(q) /\ runner'[q].stage = runner[q].stage
      /\ \A q \in Run \ {r} : runner'[q] = runner[q]
      /\ runner'[r].pc = "launch"
  BY <1>m, Moves
<1>1. /\ docker' = docker /\ cleanup' = cleanup /\ journal \subseteq journal' /\ ~Ended(r)
      /\ \A q \in Run \ {r} : client'[q] = client[q]
  BY <1>m DEF Intent, Log, Ended, DockerTypeOK
<1>2. /\ LeftoverIsJournaled' /\ ForeignKnown' /\ cleanup'.id # Foreign
      /\ \A q \in Run \ {r} : AttemptKnown(q)'
      /\ \A n \in Name :
           Recorded(n, "timeout_removed") => StoppedKnown(n)'
  BY <1>0, <1>1, RunMoves
<1>3. LockHeld'
  <2>1. LockHeld /\ cleanup' = cleanup
    BY <1>1 DEF DockerIInv
  <2>2. QED
    BY <1>0, <2>1, NameAssumption DEF Intent, Log, LockHeld
<1>4. AttemptKnown(r)'
  <2>1. AttemptKnown(r) /\ NameOf(r)' = NameOf(r) /\ docker' = docker
    BY <1>0, <1>1 DEF DockerIInv
  <2>2. \A n, e : Recorded(n, e) => Recorded(n, e)'
    BY <1>1 DEF Recorded
  <2>3. QED
    BY <1>0, <1>m, <2>1, <2>2 DEF Intent, Log, Recorded, AttemptKnown,
         DockerTypeOK
<1>5. \A n \in Name :
        Recorded(n, "timeout_removed")' => Recorded(n, "timeout_removed")
  BY DEF Intent, Log, Recorded
<1>6. QED
  BY <1>2, <1>3, <1>4, <1>5 DEF DockerIInv, StoppedKnown

\* The client starts, and its launch is recorded.
LEMMA LaunchInv ==
  ASSUME DockerIInv, DockerTypeOK', NEW r \in Run, LaunchStage(r)
  PROVE  DockerIInv'
<1>m. Goto(r, "wait") /\ DockerTypeOK
  BY DEF DockerIInv, LaunchStage
<1>0. /\ \A q \in Run : NameOf(q)' = NameOf(q) /\ runner'[q].stage = runner[q].stage
      /\ \A q \in Run \ {r} : runner'[q] = runner[q]
      /\ runner'[r].pc = "wait"
  BY <1>m, Moves
<1>1. /\ docker' = docker /\ cleanup' = cleanup /\ journal \subseteq journal' /\ ~Ended(r)
      /\ \A q \in Run \ {r} : client'[q] = client[q]
  BY <1>m DEF LaunchStage, Ended, DockerTypeOK
<1>2. /\ LeftoverIsJournaled' /\ ForeignKnown' /\ cleanup'.id # Foreign
      /\ \A q \in Run \ {r} : AttemptKnown(q)'
      /\ \A n \in Name :
           Recorded(n, "timeout_removed") => StoppedKnown(n)'
  BY <1>0, <1>1, RunMoves
<1>3. LockHeld'
  <2>1. LockHeld /\ cleanup' = cleanup
    BY <1>1 DEF DockerIInv
  <2>2. QED
    BY <1>0, <2>1, NameAssumption DEF LaunchStage, LockHeld
<1>4. AttemptKnown(r)'
  <2>1. AttemptKnown(r) /\ NameOf(r)' = NameOf(r) /\ docker' = docker
    BY <1>0, <1>1 DEF DockerIInv
  <2>2. \A n, e : Recorded(n, e) => Recorded(n, e)'
    BY <1>1 DEF Recorded
  <2>3. QED
    BY <1>0, <1>m, <2>1, <2>2 DEF LaunchStage, AttemptKnown, DockerTypeOK
<1>5. \A n \in Name :
        Recorded(n, "timeout_removed")' => Recorded(n, "timeout_removed")
  BY DEF LaunchStage, Recorded
<1>6. QED
  BY <1>2, <1>3, <1>4, <1>5 DEF DockerIInv, StoppedKnown

\* A stage completes; the next one has no client and no record yet.
LEMMA CompletedInv ==
  ASSUME DockerIInv, DockerTypeOK', NEW r \in Run, Completed(r)
  PROVE  DockerIInv'
<1>0. runner[r].pc = "wait" /\ LockHeld
  BY DEF DockerIInv, Completed
<1>l. lock = r /\ cleanup.pc = "off"
  BY <1>0, NameAssumption DEF LockHeld
<1> USE NameParts, StageAssumption, NameAssumption DEF DockerIInv, DockerTypeOK,
     Completed, End, Log, Fault
<1>1. LeftoverIsJournaled' /\ ForeignKnown' /\ cleanup'.id # Foreign
  BY DEF LeftoverIsJournaled, Recorded, Absent, Goto,
       ForeignKnown, Ended
<1>2. LockHeld'
  <2>1. CASE runner[r].stage < N
    <3>1. lock' = lock /\ \A q \in Run \ {r} : runner'[q] = runner[q]
      BY <2>1
    <3>2. QED
      BY <1>l, <3>1 DEF LockHeld
  <2>2. CASE ~(runner[r].stage < N)
    <3>1. /\ \A q \in Run \ {r} : runner'[q] = runner[q]
          /\ runner'[r].pc = "ended"
      BY <2>2 DEF Goto
    <3>2. QED
      BY <1>l, <3>1 DEF LockHeld
  <2>3. QED
    BY <2>1, <2>2
<1>3. \A q \in Run : AttemptKnown(q)'
  BY DEF AttemptKnown, Recorded, Runs, Absent, Goto, NameOf
<1>4. \A n \in Name : StoppedKnown(n)'
  BY <1>l DEF StoppedKnown, AttemptKnown, LockHeld, Recorded, Runs,
       Ended, Absent, Goto, NameOf
<1>5. QED
  BY <1>1, <1>2, <1>3, <1>4

\* A stage fails: its client is gone and so is the run.
LEMMA FailedInv ==
  ASSUME DockerIInv, DockerTypeOK', NEW r \in Run, Failed(r)
  PROVE  DockerIInv'
<1>m. Goto(r, "ended") /\ DockerTypeOK
  BY DEF DockerIInv, Failed, Log, End
<1>0. /\ \A q \in Run : NameOf(q)' = NameOf(q) /\ runner'[q].stage = runner[q].stage
      /\ \A q \in Run \ {r} : runner'[q] = runner[q]
      /\ runner'[r].pc = "ended"
  BY <1>m, Moves
<1>1. /\ docker' = docker /\ cleanup' = cleanup /\ journal \subseteq journal' /\ ~Ended(r)
      /\ \A q \in Run \ {r} : client'[q] = client[q]
  BY <1>m DEF Failed, Log, End, Ended, DockerTypeOK
<1>2. /\ LeftoverIsJournaled' /\ ForeignKnown' /\ cleanup'.id # Foreign
      /\ \A q \in Run \ {r} : AttemptKnown(q)'
      /\ \A n \in Name :
           Recorded(n, "timeout_removed") => StoppedKnown(n)'
  BY <1>0, <1>1, RunMoves
<1>3. LockHeld'
  <2>1. LockHeld /\ cleanup' = cleanup
    BY <1>1 DEF DockerIInv
  <2>2. QED
    BY <1>0, <2>1, NameAssumption DEF Failed, Log, End, LockHeld
<1>4. AttemptKnown(r)'
  <2>1. AttemptKnown(r) /\ NameOf(r)' = NameOf(r) /\ docker' = docker
    BY <1>0, <1>1 DEF DockerIInv
  <2>2. \A n, e : Recorded(n, e) => Recorded(n, e)'
    BY <1>1 DEF Recorded
  <2>3. QED
    BY <1>0, <1>m, <2>1, <2>2 DEF Failed, Log, End, AttemptKnown,
         DockerTypeOK
<1>5. \A n \in Name :
        Recorded(n, "timeout_removed")' => Recorded(n, "timeout_removed")
  BY DEF Failed, Log, End, Recorded
<1>6. QED
  BY <1>2, <1>3, <1>4, <1>5 DEF DockerIInv, StoppedKnown

\* The removal by name: what is removed does not run, whoever answers.
LEMMA RemoveInv ==
  ASSUME DockerIInv, DockerTypeOK', NEW r \in Run, Remove(r)
  PROVE  DockerIInv'
<1> USE NameParts, StageAssumption, NameAssumption DEF DockerIInv, DockerTypeOK,
     Remove, End, Log, Fault
<1>0. \A n \in Name : docker'[n] = docker[n] \/ (n = NameOf(r) /\ docker'[n] = Absent)
  OBVIOUS
<1>1. LeftoverIsJournaled' /\ LockHeld' /\ cleanup'.id # Foreign
  BY <1>0 DEF LeftoverIsJournaled, Recorded, Absent, Goto,
       LockHeld
<1>2. ForeignKnown'
  <2>1. \A q \in Run : Ended(q) => Ended(q)'
    BY DEF Goto, Ended
  <2>2. \A n \in Name : docker'[n].owner = Foreign => docker[n].owner = Foreign
    BY <1>0 DEF Absent
  <2>3. QED
    BY <2>1, <2>2 DEF ForeignKnown
<1>3. \A q \in Run : AttemptKnown(q)'
  <2>1. runner'[r].pc \in {"removed", "unconfirmed"} /\ NameOf(r)' = NameOf(r)
    BY DEF Goto, NameOf
  <2>2. \A q \in Run \ {r} : runner'[q] = runner[q] /\ NameOf(q)' = NameOf(q)
    BY DEF Goto, NameOf
  <2>3. \A n \in Name : Runs(n)' => Runs(n)
    BY <1>0 DEF Runs, Absent
  <2>4. runner'[r].pc = "removed" => ~Runs(NameOf(r))'
    <3>1. Goto(r, "removed") => docker' = [docker EXCEPT ![NameOf(r)] = Absent]
      BY DEF Goto
    <3>2. runner'[r].pc = "removed" => Goto(r, "removed")
      BY DEF Goto
    <3>3. QED
      BY <2>1, <3>1, <3>2 DEF Runs, Absent
  <2>5. AttemptKnown(r)'
    BY <2>1, <2>4 DEF AttemptKnown, Recorded
  <2>6. ASSUME NEW q \in Run \ {r} PROVE AttemptKnown(q)'
    BY <2>2, <2>3 DEF AttemptKnown, Recorded
  <2>7. QED
    BY <2>5, <2>6
<1>4. \A n \in Name : StoppedKnown(n)'
  BY <1>0 DEF StoppedKnown, AttemptKnown, LockHeld, Recorded,
       Runs, Ended, Absent, Goto, NameOf
<1>5. QED
  BY <1>1, <1>2, <1>3, <1>4

\* timeout_removed is recorded only by a run whose container does not run.
LEMMA OutcomeInv ==
  ASSUME DockerIInv, DockerTypeOK', NEW r \in Run, Outcome(r)
  PROVE  DockerIInv'
<1>m. Goto(r, "ended") /\ DockerTypeOK
  BY DEF DockerIInv, Outcome, Log, End
<1>0. /\ \A q \in Run : NameOf(q)' = NameOf(q) /\ runner'[q].stage = runner[q].stage
      /\ \A q \in Run \ {r} : runner'[q] = runner[q]
      /\ runner'[r].pc = "ended"
  BY <1>m, Moves
<1>1. /\ docker' = docker /\ cleanup' = cleanup /\ journal \subseteq journal' /\ ~Ended(r)
      /\ \A q \in Run \ {r} : client'[q] = client[q]
  BY <1>m DEF Outcome, Log, End, Ended, DockerTypeOK
<1>2. /\ LeftoverIsJournaled' /\ ForeignKnown' /\ cleanup'.id # Foreign
      /\ \A q \in Run \ {r} : AttemptKnown(q)'
      /\ \A n \in Name :
           Recorded(n, "timeout_removed") => StoppedKnown(n)'
  BY <1>0, <1>1, RunMoves
<1>3. LockHeld'
  <2>1. LockHeld /\ cleanup' = cleanup
    BY <1>1 DEF DockerIInv
  <2>2. QED
    BY <1>0, <2>1, NameAssumption DEF Outcome, Log, End, LockHeld
<1>4. AttemptKnown(r)'
  <2>1. AttemptKnown(r) /\ NameOf(r)' = NameOf(r) /\ docker' = docker
    BY <1>0, <1>1 DEF DockerIInv
  <2>2. \A n, e : Recorded(n, e) => Recorded(n, e)'
    BY <1>1 DEF Recorded
  <2>3. QED
    BY <1>0, <1>m, <2>1, <2>2 DEF Outcome, Log, End, AttemptKnown,
         DockerTypeOK
<1>5. ASSUME NEW n \in Name, Recorded(n, "timeout_removed")',
             ~Recorded(n, "timeout_removed")
      PROVE  StoppedKnown(n)'
  <2>1. n = NameOf(r) /\ runner[r].pc = "removed"
    BY <1>5 DEF Outcome, Log, Recorded
  <2>2. AttemptKnown(r) /\ n[1] = r /\ n[2] = runner[r].stage
    BY <1>m, <2>1, NameParts DEF DockerIInv
  <2>3. ~Runs(n) /\ client[r] \in {"none", "sent"}
    BY <1>m, <2>1, <2>2 DEF AttemptKnown, DockerTypeOK
  <2>4. ~Runs(n)' /\ client'[r] = client[r]
    BY <1>1, <2>3 DEF Runs, Outcome
  <2>5. QED
    BY <1>0, <2>2, <2>3, <2>4 DEF StoppedKnown, Ended
<1>6. QED
  BY <1>2, <1>3, <1>4, <1>5 DEF DockerIInv, StoppedKnown

\* The client is killed; at most its request survives.
LEMMA ExpireInv ==
  ASSUME DockerIInv, DockerTypeOK', NEW r \in Run, Expire(r)
  PROVE  DockerIInv'
<1>m. Goto(r, "remove") /\ DockerTypeOK
  BY DEF DockerIInv, Expire
<1>0. /\ \A q \in Run : NameOf(q)' = NameOf(q) /\ runner'[q].stage = runner[q].stage
      /\ \A q \in Run \ {r} : runner'[q] = runner[q]
      /\ runner'[r].pc = "remove"
  BY <1>m, Moves
<1>1. /\ docker' = docker /\ cleanup' = cleanup /\ journal \subseteq journal' /\ ~Ended(r)
      /\ \A q \in Run \ {r} : client'[q] = client[q]
  BY <1>m DEF Expire, Ended, DockerTypeOK
<1>2. /\ LeftoverIsJournaled' /\ ForeignKnown' /\ cleanup'.id # Foreign
      /\ \A q \in Run \ {r} : AttemptKnown(q)'
      /\ \A n \in Name :
           Recorded(n, "timeout_removed") => StoppedKnown(n)'
  BY <1>0, <1>1, RunMoves
<1>3. LockHeld'
  <2>1. LockHeld /\ cleanup' = cleanup
    BY <1>1 DEF DockerIInv
  <2>2. QED
    BY <1>0, <2>1, NameAssumption DEF Expire, LockHeld
<1>4. AttemptKnown(r)'
  <2>1. AttemptKnown(r) /\ NameOf(r)' = NameOf(r) /\ docker' = docker
    BY <1>0, <1>1 DEF DockerIInv
  <2>2. \A n, e : Recorded(n, e) => Recorded(n, e)'
    BY <1>1 DEF Recorded
  <2>3. QED
    BY <1>0, <1>m, <2>1, <2>2 DEF Expire, Killed, AttemptKnown, DockerTypeOK
<1>5. \A n \in Name :
        Recorded(n, "timeout_removed")' => Recorded(n, "timeout_removed")
  BY DEF Expire, Recorded
<1>6. QED
  BY <1>2, <1>3, <1>4, <1>5 DEF DockerIInv, StoppedKnown

\* A run dies with or without its client.
LEMMA DieInv ==
  ASSUME DockerIInv, DockerTypeOK', NEW r \in Run, Die(r)
  PROVE  DockerIInv'
<1>m. Goto(r, "ended") /\ DockerTypeOK
  BY DEF DockerIInv, Die, End
<1>0. /\ \A q \in Run : NameOf(q)' = NameOf(q) /\ runner'[q].stage = runner[q].stage
      /\ \A q \in Run \ {r} : runner'[q] = runner[q]
      /\ runner'[r].pc = "ended"
  BY <1>m, Moves
<1>1. /\ docker' = docker /\ cleanup' = cleanup /\ journal \subseteq journal' /\ ~Ended(r)
      /\ \A q \in Run \ {r} : client'[q] = client[q]
  BY <1>m DEF Die, End, Ended, DockerTypeOK
<1>2. /\ LeftoverIsJournaled' /\ ForeignKnown' /\ cleanup'.id # Foreign
      /\ \A q \in Run \ {r} : AttemptKnown(q)'
      /\ \A n \in Name :
           Recorded(n, "timeout_removed") => StoppedKnown(n)'
  BY <1>0, <1>1, RunMoves
<1>3. LockHeld'
  <2>1. LockHeld /\ cleanup' = cleanup
    BY <1>1 DEF DockerIInv
  <2>2. QED
    BY <1>0, <2>1, NameAssumption DEF Die, End, LockHeld
<1>4. AttemptKnown(r)'
  <2>1. AttemptKnown(r) /\ NameOf(r)' = NameOf(r) /\ docker' = docker
    BY <1>0, <1>1 DEF DockerIInv
  <2>2. \A n, e : Recorded(n, e) => Recorded(n, e)'
    BY <1>1 DEF Recorded
  <2>3. QED
    BY <1>0, <1>m, <2>1, <2>2 DEF Die, End, Killed, AttemptKnown,
         DockerTypeOK
<1>5. \A n \in Name :
        Recorded(n, "timeout_removed")' => Recorded(n, "timeout_removed")
  BY DEF Die, End, Recorded
<1>6. QED
  BY <1>2, <1>3, <1>4, <1>5 DEF DockerIInv, StoppedKnown

\* Whoever creates a container is recorded, and a late one is not started.
LEMMA ClientCreatesInv ==
  ASSUME DockerIInv, DockerTypeOK', NEW r \in Run, ClientCreates(r)
  PROVE  DockerIInv'
<1> USE NameParts, StageAssumption, NameAssumption DEF DockerIInv, DockerTypeOK,
     ClientCreates, End, Log, Fault
<1>0. /\ \A n \in Name \ {NameOf(r)} : docker'[n] = docker[n]
      /\ docker[NameOf(r)] = Absent /\ docker'[NameOf(r)] = [owner |-> r, state |-> "created"]
  OBVIOUS
<1>1. LockHeld' /\ ForeignKnown' /\ cleanup'.id # Foreign
  BY <1>0 DEF LockHeld, Goto, ForeignKnown, Ended, Absent
<1>2. LeftoverIsJournaled'
  <2>1. Recorded(NameOf(r), "launch_intent")
    BY DEF AttemptKnown
  <2>2. QED
    BY <1>0, <2>1 DEF LeftoverIsJournaled, Recorded
<1>3. \A q \in Run : AttemptKnown(q)'
  <2>1. \A n \in Name : Runs(n)' => Runs(n)
    BY <1>0 DEF Runs
  <2>2. \A q \in Run : NameOf(q)' = NameOf(q)
    BY DEF NameOf
  <2>3. QED
    BY <2>1, <2>2 DEF AttemptKnown, Recorded
<1>4. \A n \in Name : StoppedKnown(n)'
  BY <1>0 DEF StoppedKnown, AttemptKnown, LockHeld, Recorded,
       Runs, Ended, Absent, Goto, NameOf
<1>5. QED
  BY <1>1, <1>2, <1>3, <1>4

\* Only a living client starts its container.
LEMMA ClientStartsInv ==
  ASSUME DockerIInv, DockerTypeOK', NEW r \in Run, ClientStarts(r)
  PROVE  DockerIInv'
<1>0. /\ UNCHANGED <<lock, runner, journal, cleanup>>
      /\ \A n \in Name : docker'[n].owner = docker[n].owner
  BY DEF DockerIInv, DockerTypeOK, ClientStarts, Absent
<1>1. LeftoverIsJournaled' /\ LockHeld' /\ ForeignKnown' /\ cleanup'.id # Foreign
  <2>1. LeftoverIsJournaled'
    BY <1>0 DEF DockerIInv, LeftoverIsJournaled, Recorded, Name
  <2>2. LockHeld'
    BY <1>0 DEF DockerIInv, LockHeld
  <2>3. ForeignKnown'
    BY <1>0 DEF DockerIInv, ForeignKnown, Ended, Name
  <2>4. QED
    BY <1>0, <2>1, <2>2, <2>3 DEF DockerIInv
<1>t. /\ client \in [Run -> {"none", "starting", "sent", "created", "attached"}]
      /\ client' = [client EXCEPT ![r] = "attached"]
      /\ \A q \in Run : NameOf(q) \in Name
  BY NameParts DEF DockerIInv, DockerTypeOK, ClientStarts
<1>2. \A q \in Run : AttemptKnown(q)'
  <2>1. \A q \in Run : NameOf(q)' = NameOf(q) /\ (q # r => NameOf(q) # NameOf(r))
    BY <1>0 DEF NameOf
  <2>2. \A n \in Name \ {NameOf(r)} : Runs(n)' <=> Runs(n)
    BY DEF DockerIInv, DockerTypeOK, ClientStarts, Runs
  <2>3. runner[r].pc \in {"wait", "ended"} /\ Recorded(NameOf(r), "launch_intent")
    BY DEF DockerIInv, AttemptKnown, ClientStarts
  <2>4. \A n, e : Recorded(n, e)' <=> Recorded(n, e)
    BY <1>0 DEF Recorded
  <2>5. \A q \in Run : AttemptKnown(q)
    BY DEF DockerIInv
  <2>6. QED
    BY <1>0, <1>t, <2>1, <2>2, <2>3, <2>4, <2>5 DEF AttemptKnown
<1>3. \A n \in Name : StoppedKnown(n)'
  <2>1. SUFFICES ASSUME NEW n \in Name, Recorded(n, "timeout_removed")
                 PROVE  StoppedKnown(n)'
    BY <1>0 DEF StoppedKnown, Recorded
  <2>2. /\ ~Runs(n) /\ Ended(n[1]) /\ client[n[1]] \in {"none", "sent"}
        /\ runner[n[1]].stage = n[2]
    BY <2>1 DEF DockerIInv, StoppedKnown
  <2>3. n[1] # r /\ n # NameOf(r)
    BY <2>2 DEF ClientStarts, NameOf
  <2>4. ~Runs(n)' /\ client'[n[1]] = client[n[1]]
    BY <1>t, <2>2, <2>3 DEF DockerIInv, DockerTypeOK, ClientStarts, Runs,
         Name
  <2>5. QED
    BY <1>0, <2>2, <2>4 DEF StoppedKnown, Ended
<1>4. QED
  BY <1>1, <1>2, <1>3 DEF DockerIInv

\* A client ends.
LEMMA ClientEndsInv ==
  ASSUME DockerIInv, DockerTypeOK', NEW r \in Run, ClientEnds(r)
  PROVE  DockerIInv'
<1>0. /\ UNCHANGED <<lock, runner, journal, cleanup>>
      /\ \A n \in Name : docker'[n].owner = docker[n].owner
  BY DEF DockerIInv, DockerTypeOK, ClientEnds, Absent
<1>1. LeftoverIsJournaled' /\ LockHeld' /\ ForeignKnown' /\ cleanup'.id # Foreign
  <2>1. LeftoverIsJournaled'
    BY <1>0 DEF DockerIInv, LeftoverIsJournaled, Recorded, Name
  <2>2. LockHeld'
    BY <1>0 DEF DockerIInv, LockHeld
  <2>3. ForeignKnown'
    BY <1>0 DEF DockerIInv, ForeignKnown, Ended, Name
  <2>4. QED
    BY <1>0, <2>1, <2>2, <2>3 DEF DockerIInv
<1>t. /\ client \in [Run -> {"none", "starting", "sent", "created", "attached"}]
      /\ client' = [client EXCEPT ![r] = "none"]
      /\ \A q \in Run : NameOf(q) \in Name
  BY NameParts DEF DockerIInv, DockerTypeOK, ClientEnds
<1>2. \A q \in Run : AttemptKnown(q)'
  <2>1. \A q \in Run : NameOf(q)' = NameOf(q) /\ (q # r => NameOf(q) # NameOf(r))
    BY <1>0 DEF NameOf
  <2>2. \A n \in Name : Runs(n)' <=> Runs(n)
    BY DEF ClientEnds, Runs
  <2>4. \A n, e : Recorded(n, e)' <=> Recorded(n, e)
    BY <1>0 DEF Recorded
  <2>5. \A q \in Run : AttemptKnown(q)
    BY DEF DockerIInv
  <2>6. QED
    BY <1>0, <1>t, <2>1, <2>2, <2>4, <2>5 DEF AttemptKnown
<1>3. \A n \in Name : StoppedKnown(n)'
  <2>1. SUFFICES ASSUME NEW n \in Name, Recorded(n, "timeout_removed")
                 PROVE  StoppedKnown(n)'
    BY <1>0 DEF StoppedKnown, Recorded
  <2>2. /\ ~Runs(n) /\ Ended(n[1]) /\ client[n[1]] \in {"none", "sent"}
        /\ runner[n[1]].stage = n[2]
    BY <2>1 DEF DockerIInv, StoppedKnown
  <2>3. ~Runs(n)' /\ client'[n[1]] \in {"none", "sent"}
    BY <1>0, <1>t, <2>2 DEF ClientEnds, Runs
  <2>4. QED
    BY <1>0, <2>2, <2>3 DEF StoppedKnown, Ended
<1>4. QED
  BY <1>1, <1>2, <1>3 DEF DockerIInv

\* The daemon's own steps and a reused name.
LEMMA NameInv ==
  ASSUME DockerIInv, DockerTypeOK', NEW m \in Name, Exits(m) \/ AutoRemoved(m) \/ Reuse(m)
  PROVE  DockerIInv'
<1> USE NameParts, StageAssumption, NameAssumption DEF DockerIInv, DockerTypeOK,
     Fault
<1>1. UNCHANGED <<lock, runner, client, journal, cleanup>>
  BY DEF Exits, AutoRemoved, Reuse
<1>2. \A n \in Name : \/ docker'[n] = docker[n]
                        \/ (docker'[n].owner \in {docker[n].owner, None} /\ ~Runs(n)')
                        \/ (docker'[n].owner = Foreign /\ Ended(n[1]))
  <2>1. \A n \in Name \ {m} : docker'[n] = docker[n]
    BY DEF Exits, AutoRemoved, Reuse
  <2>2. CASE Exits(m)
    <3>1. docker'[m].owner = docker[m].owner /\ docker'[m].state = "exited"
      BY <2>2 DEF Exits
    <3>2. QED
      BY <2>1, <3>1 DEF Runs
  <2>3. CASE AutoRemoved(m)
    <3>1. docker'[m].owner = None /\ docker'[m].state = "absent"
      BY <2>3 DEF AutoRemoved, Absent
    <3>2. QED
      BY <2>1, <3>1 DEF Runs
  <2>4. CASE Reuse(m)
    <3>1. docker'[m].owner = Foreign /\ Ended(m[1])
      BY <2>4 DEF Reuse, Ended
    <3>2. QED
      BY <2>1, <3>1
  <2>5. QED
    BY <2>2, <2>3, <2>4
<1>3. ASSUME NEW n \in Name
      PROVE  /\ docker'[n].owner = n[1] => docker[n].owner = n[1]
             /\ Runs(n)' => Runs(n)
  <2>1. n[1] # None /\ n[1] # Foreign
    BY NameParts, NameAssumption DEF DockerIInv
  <2>2. QED
    BY <1>2, <2>1 DEF Runs
<1>4. LeftoverIsJournaled'
  BY <1>1, <1>3 DEF LeftoverIsJournaled, Recorded
<1>5. LockHeld' /\ cleanup'.id # Foreign
  BY <1>1 DEF LockHeld
<1>6. ASSUME NEW q \in Run PROVE AttemptKnown(q)'
  BY <1>1, <1>3 DEF AttemptKnown, Recorded, NameOf
<1>7. ASSUME NEW n \in Name PROVE StoppedKnown(n)'
  BY <1>1, <1>3 DEF StoppedKnown, Recorded, Ended
<1>8. ForeignKnown'
  BY <1>1, <1>2 DEF ForeignKnown, Ended
<1>9. QED
  BY <1>4, <1>5, <1>6, <1>7, <1>8

\* A cleanup removes only a container that is not foreign.
LEMMA CleanupEffect ==
  ASSUME DockerIInv, (\E m \in Name : Cleanup(m)) \/ CleanupStep \/ Abandon
  PROVE  /\ UNCHANGED <<runner, client, journal>>
         /\ \A n \in Name : docker'[n] = docker[n]
                              \/ (docker'[n] = Absent /\ docker[n].owner # Foreign)
         /\ cleanup'.pc # "off" => lock' = Operator
         /\ cleanup'.id # Foreign
         /\ lock' = lock \/ lock = None \/ lock = Operator
<1>0. /\ cleanup.pc # "off" => cleanup \in Asked /\ lock = Operator
      /\ cleanup.id # Foreign /\ NoCleanup.pc = "off" /\ NoCleanup.id # Foreign
      /\ docker \in [Name -> [owner : ContainerIds, state : {"created", "running", "exited"}]
                             \cup {Absent}]
  BY NameAssumption DEF DockerIInv, DockerTypeOK, LockHeld, NoCleanup
<1>1. ASSUME NEW m \in Name, Cleanup(m) PROVE lock = None /\ lock' = Operator
                                                /\ cleanup'.id = None /\ docker' = docker
  BY <1>1 DEF Cleanup, Free
<1>2. CASE Inspect
  <2>1. cleanup.name \in Name /\ cleanup.name[1] # Foreign /\ lock = Operator
    BY <1>0, <1>2, NameParts, NameAssumption DEF Inspect, Asked, DockerIInv
  <2>2. CASE Report
    BY <1>0, <1>2, <2>1, <2>2 DEF Inspect, Report
  <2>3. CASE ~Report
    BY <1>2, <2>1, <2>3 DEF Inspect
  <2>4. QED
    BY <2>2, <2>3
<1>3. CASE RemoveId
  <2>1. cleanup.name \in Name /\ lock = Operator
    BY <1>0, <1>3 DEF RemoveId, Asked
  <2>2. CASE Report
    BY <1>0, <2>1, <2>2 DEF Report
  <2>3. CASE ~Report
    <3>1. /\ UNCHANGED <<lock, runner, client, journal>>
          /\ docker' = IF Target THEN [docker EXCEPT ![cleanup.name] = Absent] ELSE docker
          /\ cleanup' = [cleanup EXCEPT !.pc = "confirm"]
      BY <1>3, <2>3 DEF RemoveId
    <3>2. cleanup'.id # Foreign
      BY <1>0, <1>3, <3>1 DEF RemoveId, Asked
    <3>3. Target => docker[cleanup.name].owner # Foreign
      BY <1>0 DEF Target
    <3>4. \A n \in Name : docker'[n] = docker[n]
                          \/ (docker'[n] = Absent /\ docker[n].owner # Foreign)
      BY <1>0, <2>1, <3>1, <3>3
    <3>5. QED
      BY <2>1, <3>1, <3>2, <3>4
  <2>4. QED
    BY <2>2, <2>3
<1>4. CASE Confirm \/ Abandon
  BY <1>0, <1>4 DEF Confirm, Abandon, Report
<1>5. QED
  BY <1>1, <1>2, <1>3, <1>4, NameAssumption DEF CleanupStep, Cleanup

\* A cleanup preserves the invariant.
LEMMA CleanupInv ==
  ASSUME DockerIInv, DockerTypeOK', (\E m \in Name : Cleanup(m)) \/ CleanupStep \/ Abandon
  PROVE  DockerIInv'
<1> USE NameParts, CleanupEffect, NameAssumption DEF DockerIInv
<1>1. \A n \in Name : (Runs(n)' => Runs(n)) /\ (docker'[n].owner # None => docker'[n] = docker[n])
  BY DEF Runs, Absent
<1>2. LeftoverIsJournaled' /\ ForeignKnown'
  BY <1>1 DEF LeftoverIsJournaled, ForeignKnown, Recorded, Ended
<1>3. LockHeld'
  BY DEF LockHeld, DockerTypeOK
<1>4. ASSUME NEW q \in Run PROVE AttemptKnown(q)'
  BY <1>1 DEF AttemptKnown, Recorded, NameOf
<1>5. ASSUME NEW n \in Name PROVE StoppedKnown(n)'
  BY <1>1 DEF StoppedKnown, Recorded, Ended
<1>6. QED
  BY <1>2, <1>3, <1>4, <1>5

\* Every step preserves the invariant.
LEMMA ContainerNext ==
  DockerIInv /\ [DockerNext]_dockerVars => DockerIInv'
<1> SUFFICES ASSUME DockerIInv, [DockerNext]_dockerVars PROVE DockerIInv'
  OBVIOUS
<1>1. DockerTypeOK'
  BY ContainerType DEF DockerIInv
<1>2. ASSUME NEW r \in Run, RunnerStep(r) \/ Expire(r) \/ Die(r) \/ ClientStep(r)
      PROVE  DockerIInv'
  BY <1>1, <1>2, StartInv, IntentInv, LaunchInv, CompletedInv, FailedInv, RemoveInv, OutcomeInv,
     ExpireInv, DieInv, ClientCreatesInv, ClientStartsInv, ClientEndsInv
     DEF RunnerStep, ClientStep
<1>3. ASSUME NEW n \in Name, Exits(n) \/ AutoRemoved(n) \/ Reuse(n) PROVE DockerIInv'
  BY <1>1, <1>3, NameInv
<1>4. CASE (\E n \in Name : Cleanup(n)) \/ CleanupStep \/ Abandon
  BY <1>1, <1>4, CleanupInv
<1>5. CASE UNCHANGED dockerVars
  BY <1>5 DEF dockerVars, DockerIInv, DockerTypeOK, LeftoverIsJournaled,
       LockHeld, AttemptKnown, StoppedKnown,
     ForeignKnown, Recorded, Runs, Ended, NameOf
<1>6. QED
  BY <1>2, <1>3, <1>4, <1>5 DEF DockerNext

\* The inductive invariant holds in every reachable state.
THEOREM ContainerInvariant ==
  DockerSpec => []DockerIInv
<1>1. QED
  BY ContainerInit, ContainerNext, PTL DEF DockerSpec

\* Every variable keeps its type.
THEOREM ContainerTypes ==
  DockerSpec => []DockerTypeOK
<1>1. DockerIInv => DockerTypeOK
  BY DEF DockerIInv
<1>2. QED
  BY <1>1, ContainerInvariant, PTL

\* Whatever a run has left with the daemon, however it died, the journal names it.
THEOREM Journaled ==
  DockerSpec => []LeftoverIsJournaled
<1>1. DockerIInv => LeftoverIsJournaled
  BY DEF DockerIInv
<1>2. QED
  BY <1>1, ContainerInvariant, PTL

\* While an operator cleans up, no run is alive in this checkout.
THEOREM RunsSpared ==
  DockerSpec => []CleanupSparesRuns
<1>1. DockerIInv => CleanupSparesRuns
  BY NameAssumption DEF DockerIInv, LockHeld, CleanupSparesRuns
<1>2. QED
  BY <1>1, ContainerInvariant, PTL

\* After a confirmed removal the stage does not run.
THEOREM ConfirmedStopped ==
  DockerSpec => []ConfirmedIsStopped
<1>1. DockerIInv => ConfirmedIsStopped
  BY DEF DockerIInv, StoppedKnown, ConfirmedIsStopped
<1>2. QED
  BY <1>1, ContainerInvariant, PTL

\* No step of the runner, the daemon or a cleanup touches a container that is not a stage.
THEOREM ForeignSpared ==
  DockerSpec => CleanupSparesForeign
<1> DEFINE Spared == \A n \in Name : docker[n].owner = Foreign => docker'[n] = docker[n]
<1>1. DockerIInv /\ [DockerNext]_dockerVars => Spared
  <2> SUFFICES ASSUME DockerIInv, [DockerNext]_dockerVars, NEW n \in Name, docker[n].owner = Foreign
               PROVE  docker'[n] = docker[n]
    OBVIOUS
  <2> USE NameAssumption DEF DockerIInv
  <2>1. Ended(n[1]) /\ docker \in [Name -> [owner : ContainerIds, state : {"created", "running", "exited"}]
                                             \cup {Absent}]
    BY DEF ForeignKnown, DockerTypeOK
  <2>2. ASSUME NEW r \in Run, RunnerStep(r) \/ Expire(r) \/ Die(r) \/ ClientStep(r)
        PROVE  docker'[n] = docker[n]
    <3>1. CASE Remove(r)
      <4>1. n # NameOf(r)
        BY <2>1, <3>1, NameParts DEF Remove, Ended
      <4>2. QED
        BY <2>1, <3>1, <4>1, NameParts DEF Remove
    <3>2. CASE ClientCreates(r) \/ ClientStarts(r)
      <4>1. n # NameOf(r)
        BY <3>2 DEF ClientCreates, ClientStarts, Absent
      <4>2. QED
        BY <2>1, <3>2, <4>1, NameParts DEF ClientCreates, ClientStarts
    <3>3. CASE docker' = docker
      BY <3>3
    <3>4. QED
      BY <2>2, <3>1, <3>2, <3>3, Zenon DEF RunnerStep, ClientStep, Start,
           Intent, LaunchStage, Completed,
         Failed, Outcome, Expire, Die, ClientEnds
  <2>3. ASSUME NEW m \in Name, Exits(m) \/ AutoRemoved(m) \/ Reuse(m)
        PROVE  docker'[n] = docker[n]
    BY <2>1, <2>3 DEF Exits, AutoRemoved, Reuse, Absent
  <2>4. CASE (\E m \in Name : Cleanup(m)) \/ CleanupStep \/ Abandon
    BY <2>4, CleanupEffect
  <2>5. CASE UNCHANGED dockerVars
    BY <2>5 DEF dockerVars
  <2>6. QED
    BY <2>2, <2>3, <2>4, <2>5 DEF DockerNext
<1>2. QED
  <2>1. DockerIInv /\ [DockerNext]_dockerVars => [Spared]_dockerVars
    BY <1>1
  <2>2. QED
    BY <2>1, ContainerInvariant, PTL DEF DockerSpec, CleanupSparesForeign
=============================================================================
