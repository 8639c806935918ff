------------------------ MODULE AdministrationProof ------------------------
(* Theorems about the two administrative commands: IcebergMaintenance, for any   *)
(* number of operators, snapshots and files, and any retention; RangerSync, for   *)
(* any roles, users, editions of the model and number of failures.             *)
EXTENDS IcebergMaintenance, RangerSync, FiniteSetTheorems, NaturalsInduction,
        WellFoundedInduction, TLAPS

-----------------------------------------------------------------------------
(* lakeops iceberg (IcebergMaintenance).                                    *)

\* The bounds are numbers.
LEMMA Bounds ==
  ASSUME scenario \in Scenarios
  PROVE  /\ scenario.exec \subseteq Exec /\ scenario.data \subseteq Data
         /\ scenario.bound \in Nat /\ 1 \in Id /\ Id \subseteq Nat /\ 0 \notin Id
         /\ Keep \in Nat /\ 1 < Keep /\ MaxExpire \in Nat
  BY ScenarioAssumption, PolicyAssumption DEF Id

\* What is counted is a number.
LEMMA Counts ==
  ASSUME TypeOK
  PROVE  /\ \A S \in SUBSET Id : IsFiniteSet(S) /\ Cardinality(S) \in Nat
         /\ IsFiniteSet(files[current]) /\ Cardinality(files[current]) \in Nat
         /\ Cardinality(UNION files[current]) \in Nat
<1>1. ASSUME NEW S \in SUBSET Id PROVE IsFiniteSet(S) /\ Cardinality(S) \in Nat
  <2>1. IsFiniteSet(Id)
    <3>1. 1 \in Int /\ scenario.bound \in Int
      BY Bounds DEF TypeOK
    <3>2. QED
      BY <3>1, FS_Interval DEF Id
  <2>2. QED
    BY <2>1, FS_Subset, FS_CardinalityType
<1>2. files[current] \subseteq File
  BY DEF TypeOK
<1>3. IsFiniteSet(SUBSET Data)
  BY DataAssumption, FS_SUBSET
<1>4. IsFiniteSet(files[current])
  BY <1>2, <1>3, FS_Subset DEF File
<1>5. IsFiniteSet(UNION files[current])
  <2>1. UNION files[current] \subseteq Data
    BY <1>2 DEF File
  <2>2. QED
    BY <2>1, DataAssumption, FS_Subset
<1>6. QED
  BY <1>1, <1>4, <1>5, FS_CardinalityType

\* Records that are nowhere else.
LEMMA Blanks ==
  ASSUME scenario \in Scenarios
  PROVE  /\ Unread \in State /\ NoJob \in Jobs /\ NoReview \in Reviews /\ NoPlan \in Plans
  BY Bounds DEF Unread, State, NoJob, Jobs, NoReview, Reviews, NoPlan, Plans, Running

\* The state as it is read has the type of one.
LEMMA SeenType ==
  ASSUME TypeOK, NEW e \in Exec
  PROVE  Seen(e) \in State /\ Seen(e).current = job[e].now.current /\ Seen(e).ids = job[e].now.ids
<1>1. job[e].now \in State
  BY DEF TypeOK, Jobs
<1>2. QED
  BY <1>1, Counts DEF Seen, State

\* A commit adds the next snapshot.
LEMMA CommitType ==
  ASSUME TypeOK, NEW F \in SUBSET File, CommitFiles(F)
  PROVE  /\ last' = last + 1 /\ last' \in Id /\ snaps' = snaps \cup {last'} /\ current' = last'
         /\ files' = [files EXCEPT ![last'] = F] /\ aged' = aged
         /\ files' \in [Id -> SUBSET File] /\ snaps' \subseteq Id /\ current' \in snaps'
<1>1. last' \in Id
  BY Bounds DEF TypeOK, CommitFiles, Id
<1>2. QED
  BY <1>1 DEF TypeOK, CommitFiles

\* A job that another commit passes.
LEMMA PassedType ==
  ASSUME TypeOK, NEW o \in Exec
  PROVE  /\ Passed(o) \in Jobs
         /\ \/ Passed(o) = job[o]
            \/ /\ Passed(o) = [job[o] EXCEPT !.beside = TRUE]
               /\ job[o].pc \in Running /\ ~(job[o].pc = "counts" /\ job[o].before # Unread)
<1> DEFINE b == job[o].pc \in Running /\ ~(job[o].pc = "counts" /\ job[o].before # Unread)
<1>1. job[o] \in Jobs
  BY DEF TypeOK
<1>2. CASE b
  <2>1. Passed(o) = [job[o] EXCEPT !.beside = TRUE]
    BY <1>1, <1>2 DEF Passed, Jobs
  <2>2. QED
    BY <1>1, <1>2, <2>1 DEF Jobs
<1>3. CASE ~b
  <2>1. Passed(o) = [job[o] EXCEPT !.beside = job[o].beside]
    BY <1>1, <1>3 DEF Passed, Jobs
  <2>2. Passed(o) = job[o]
    BY <1>1, <2>1 DEF Jobs
  <2>3. QED
    BY <1>1, <2>2
<1>4. QED
  BY <1>2, <1>3

-----------------------------------------------------------------------------
(* Steps of an operator that touch neither the table nor the objects.       *)

\* What e lists for deletion stays as it is, or is forgotten.
Quiet(e) ==
  /\ UNCHANGED <<scenario, table, store, old, writer>>
  /\ \A o \in Exec \ {e} : plan'[o] = plan[o] /\ review'[o] = review[o] /\ job'[o] = job[o]
  /\ job'[e].del \in {job[e].del, {}} /\ job'[e].pc # "delete"
  /\ plan'[e].old \in {plan[e].old, {}} /\ review'[e].found \in {review[e].found, {}}

\* The quiet steps.
Quietly(e) ==
  \/ Collect(e) \/ ReadHistory(e) \/ (\E T \in SUBSET plan[e].history : EditPlan(e, T))
  \/ (\E apply \in BOOLEAN : Begin(e, apply)) \/ ReadCurrent(e) \/ ReadSnapshots(e)
  \/ ReadCounts(e) \/ Refuse(e) \/ DryRun(e) \/ Verify(e) \/ Die(e)

\* A job that ends keeps what it has listed.
LEMMA EndsType ==
  ASSUME TypeOK, NEW e \in Exec, Ends(e, "stopped") \/ Ends(e, "dry_run") \/ Ends(e, "inspected")
         \/ Ends(e, "noop") \/ Ends(e, "succeeded") \/ Ends(e, "reconciliation_failed")
  PROVE  /\ job' \in [Exec -> Jobs] /\ job'[e].pc = "ready" /\ job'[e].del = job[e].del
         /\ job'[e].beside = job[e].beside /\ job'[e].now = job[e].now
         /\ job'[e].more = job[e].more
         /\ \A o \in Exec \ {e} : job'[o] = job[o]
  BY DEF TypeOK, Ends, Jobs

LEMMA QuietType ==
  ASSUME TypeOK, NEW e \in Exec, Quietly(e), UNCHANGED scenario
  PROVE  TypeOK' /\ Quiet(e)
<1>1. /\ plan \in [Exec -> Plans] /\ review \in [Exec -> Reviews] /\ job \in [Exec -> Jobs]
      /\ current \in Id /\ snaps \in SUBSET Id /\ scenario \in Scenarios /\ last \in Id
  BY DEF TypeOK
<1> SUFFICES /\ UNCHANGED <<table, store, old, writer>>
             /\ plan' \in [Exec -> Plans] /\ review' \in [Exec -> Reviews] /\ job' \in [Exec -> Jobs]
             /\ \A o \in Exec \ {e} : /\ plan'[o] = plan[o] /\ review'[o] = review[o]
                                      /\ job'[o] = job[o]
             /\ job'[e].del \in {job[e].del, {}} /\ job'[e].pc # "delete"
             /\ plan'[e].old \in {plan[e].old, {}} /\ review'[e].found \in {review[e].found, {}}
  BY DEF TypeOK, Quiet, table, Id, Kinds, State, Plans, Reviews, Jobs
<1>2. CASE Collect(e)
  <2> DEFINE j == [NoJob EXCEPT !.pc = "collect", !.now.current = current]
             q == [NoPlan EXCEPT !.edited = plan[e].edited]
  <2>1. j \in Jobs /\ j.del = {} /\ j.pc = "collect"
    BY <1>1, Blanks DEF Jobs, NoJob, Unread, State
  <2>2. q \in Plans /\ q.old = {} /\ NoReview \in Reviews /\ NoReview.found = {}
    BY <1>1, Blanks DEF Plans, NoPlan, NoReview
  <2>3. /\ job' = [job EXCEPT ![e] = j] /\ plan' = [plan EXCEPT ![e] = q]
        /\ review' = [review EXCEPT ![e] = NoReview] /\ UNCHANGED <<table, store, old, writer>>
    BY <1>2 DEF Collect
  <2> HIDE DEF j, q
  <2>4. QED
    BY <1>1, <2>1, <2>2, <2>3
<1>3. CASE ReadHistory(e)
  <2> DEFINE m == [job[e].now EXCEPT !.ids = snaps]
             j == [job[e] EXCEPT !.pc = "history", !.now = m]
  <2>1. m \in State
    BY <1>1 DEF Jobs, State
  <2>2. job' = [job EXCEPT ![e] = j] /\ UNCHANGED <<table, store, old, writer, plan, review>>
    BY <1>1, <1>3 DEF ReadHistory, Jobs
  <2> HIDE DEF m
  <2>3. j \in Jobs /\ j.del = job[e].del /\ j.pc = "history"
    <3>1. job[e] \in Jobs
      BY <1>1
    <3>2. j.del = job[e].del /\ j.pc = "history"
      BY <3>1 DEF Jobs
    <3>3. j \in Jobs
      BY <2>1, <3>1 DEF Jobs, Running
    <3>4. QED
      BY <3>2, <3>3
  <2> HIDE DEF j
  <2>4. QED
    BY <1>1, <2>2, <2>3
<1>4. ASSUME NEW T \in SUBSET plan[e].history, EditPlan(e, T)
      PROVE  /\ plan' \in [Exec -> Plans] /\ UNCHANGED <<table, store, old, writer, review, job>>
             /\ job[e].pc = "ready" /\ plan'[e].old = plan[e].old
             /\ \A o \in Exec \ {e} : plan'[o] = plan[o]
  BY <1>1, <1>4 DEF EditPlan, Plans
<1>5. ASSUME NEW apply \in BOOLEAN, Begin(e, apply)
      PROVE  /\ job' \in [Exec -> Jobs] /\ job'[e].del = {} /\ job'[e].pc = "snapshots"
             /\ \A o \in Exec \ {e} : job'[o] = job[o]
             /\ UNCHANGED <<table, store, old, writer, plan, review>>
  <2> DEFINE j == [NoJob EXCEPT !.pc = "snapshots", !.apply = apply, !.now.current = current,
                                !.since = last]
  <2>1. j \in Jobs /\ j.del = {} /\ j.pc = "snapshots"
    <3>1. current \in Id \cup {0} /\ Unread \in State
      BY <1>1, Blanks
    <3>2. [Unread EXCEPT !.current = current] \in State
      BY <3>1 DEF State
    <3>3. j = [pc |-> "snapshots", apply |-> apply, now |-> [Unread EXCEPT !.current = current],
               before |-> Unread, del |-> {}, status |-> "none", since |-> last,
               beside |-> FALSE, more |-> FALSE]
      <4>1. j = [NoJob EXCEPT !.pc = "snapshots", !.apply = apply,
                              !.now = [NoJob.now EXCEPT !.current = current], !.since = last]
        OBVIOUS
      <4>2. NoJob.now = Unread
        BY DEF NoJob
      <4> HIDE DEF j
      <4>3. QED
        BY <4>1, <4>2 DEF NoJob
    <3>4. last \in Id \cup {0} /\ {} \in SUBSET File
      BY <1>1
    <3> HIDE DEF j
    <3>5. QED
      BY <3>1, <3>2, <3>3, <3>4 DEF Jobs, Running
  <2>2. job' = [job EXCEPT ![e] = j] /\ UNCHANGED <<table, store, old, writer, plan, review>>
    BY <1>5 DEF Begin
  <2> HIDE DEF j
  <2>3. QED
    BY <1>1, <2>1, <2>2
<1>6. CASE ReadCurrent(e)
  <2> DEFINE m == [Unread EXCEPT !.current = current]
             j == [job[e] EXCEPT !.pc = "snapshots", !.now = m]
  <2>1. m \in State
    BY <1>1, Blanks DEF Unread, State
  <2>2. job' = [job EXCEPT ![e] = j] /\ UNCHANGED <<table, store, old, writer, plan, review>>
    BY <1>1, <1>6 DEF ReadCurrent, Jobs
  <2> HIDE DEF m
  <2>3. j \in Jobs /\ j.del = job[e].del /\ j.pc = "snapshots"
    <3>1. job[e] \in Jobs
      BY <1>1
    <3>2. j.del = job[e].del /\ j.pc = "snapshots"
      BY <3>1 DEF Jobs
    <3>3. j \in Jobs
      BY <2>1, <3>1 DEF Jobs, Running
    <3>4. QED
      BY <3>2, <3>3
  <2> HIDE DEF j
  <2>4. QED
    BY <1>1, <2>2, <2>3
<1>7. CASE ReadSnapshots(e)
  <2> DEFINE m == [job[e].now EXCEPT !.ids = snaps]
             j == [job[e] EXCEPT !.pc = "counts", !.now = m]
  <2>1. m \in State
    BY <1>1 DEF Jobs, State
  <2>2. job' = [job EXCEPT ![e] = j] /\ UNCHANGED <<table, store, old, writer, plan, review>>
    BY <1>1, <1>7 DEF ReadSnapshots, Jobs
  <2> HIDE DEF m
  <2>3. j \in Jobs /\ j.del = job[e].del /\ j.pc = "counts"
    <3>1. job[e] \in Jobs
      BY <1>1
    <3>2. j.del = job[e].del /\ j.pc = "counts"
      BY <3>1 DEF Jobs
    <3>3. j \in Jobs
      BY <2>1, <3>1 DEF Jobs, Running
    <3>4. QED
      BY <3>2, <3>3
  <2> HIDE DEF j
  <2>4. QED
    BY <1>1, <2>2, <2>3
<1>8. CASE ReadCounts(e)
  <2>1. Seen(e) \in State /\ Unread \in State
    BY SeenType, Blanks, <1>1
  <2>2. CASE job' = [job EXCEPT ![e].pc = "check", ![e].before = Seen(e), ![e].now = Unread]
    <3> DEFINE j == [job[e] EXCEPT !.pc = "check", !.before = Seen(e), !.now = Unread]
    <3>1. job' = [job EXCEPT ![e] = j] /\ UNCHANGED <<table, store, old, writer, plan, review>>
      BY <1>1, <1>8, <2>2 DEF ReadCounts, Jobs
    <3>2. j \in Jobs /\ j.del = job[e].del /\ j.pc = "check"
      <4>1. job[e] \in Jobs
        BY <1>1
      <4>2. j.del = job[e].del /\ j.pc = "check"
        BY <4>1 DEF Jobs
      <4>3. j \in Jobs
        BY <2>1, <4>1 DEF Jobs, Running
      <4>4. QED
        BY <4>2, <4>3
    <3> HIDE DEF j
    <3>3. QED
      BY <1>1, <3>1, <3>2
  <2>3. CASE Ends(e, "stopped") \/ Ends(e, Status(e, job[e].before, Seen(e)))
    <3>1. Status(e, job[e].before, Seen(e)) \in {"noop", "succeeded", "reconciliation_failed"}
      BY DEF Status
    <3>2. QED
      BY <1>1, <1>8, <2>3, <3>1, EndsType DEF ReadCounts
  <2>4. QED
    BY <1>8, <2>2, <2>3 DEF ReadCounts
<1>9. CASE Refuse(e) \/ DryRun(e)
  BY <1>1, <1>9, EndsType DEF Refuse, DryRun
<1>10. CASE Verify(e)
  <2>1. CASE Ends(e, "noop") \/ Ends(e, "stopped")
    BY <1>1, <1>10, <2>1, EndsType DEF Verify
  <2>2. CASE job' = [job EXCEPT ![e].pc = "scan"]
    BY <1>1, <1>10, <2>2 DEF Verify, Jobs, Running
  <2>3. QED
    BY <1>10, <2>1, <2>2 DEF Verify
<1>11. CASE Die(e)
  <2>1. CASE Ends(e, "stopped")
    BY <1>1, <1>11, <2>1, EndsType DEF Die
  <2>2. CASE job' = [job EXCEPT ![e] = NoJob]
    BY <1>1, <1>11, <2>2, Blanks DEF Die, NoJob
  <2>3. QED
    BY <1>11, <2>1, <2>2 DEF Die
<1>12. QED
  BY <1>1, <1>2, <1>3, <1>4, <1>5, <1>6, <1>7, <1>8, <1>9, <1>10, <1>11 DEF Quietly

-----------------------------------------------------------------------------
(* The other steps.                                                        *)

\* A job that lists files for deletion, or goes on after that.
LEMMA ListType ==
  ASSUME TypeOK, NEW e \in Exec, NEW pc \in {"delete", "again"}, NEW D \in SUBSET File
  PROVE  [job[e] EXCEPT !.pc = pc, !.del = D] \in Jobs /\ [job[e] EXCEPT !.pc = pc] \in Jobs
<1>1. job[e] \in Jobs
  BY DEF TypeOK
<1>2. pc \in Running
  BY DEF Running
<1>3. [job[e] EXCEPT !.pc = pc, !.del = D] \in Jobs
  BY <1>1, <1>2 DEF Jobs
<1>4. [job[e] EXCEPT !.pc = pc] \in Jobs
  BY <1>1, <1>2 DEF Jobs
<1>5. QED
  BY <1>3, <1>4

LEMMA ExpiredType ==
  ASSUME TypeOK, NEW e \in Exec, NEW D \in SUBSET File, NEW m \in BOOLEAN
  PROVE  [job[e] EXCEPT !.pc = "delete", !.del = D, !.more = m] \in Jobs
<1>1. job[e] \in Jobs
  BY DEF TypeOK
<1>2. QED
  BY <1>1 DEF Jobs, Running

\* The one file that holds what several files hold.
LEMMA Rewritten ==
  ASSUME TypeOK, Cardinality(files[current]) >= 2
  PROVE  UNION files[current] \in File
<1>1. files[current] \subseteq File
  BY DEF TypeOK
<1>2. files[current] # {}
  BY FS_EmptySet
<1>3. QED
  BY <1>1, <1>2 DEF File

\* What a rewriting does: nothing, a new file, or a new file and a new snapshot.
LEMMA RewriteCases ==
  ASSUME TypeOK, NEW e \in Exec, Rewrite(e)
  PROVE  LET F == files[current] n == UNION F IN
         /\ UNCHANGED <<old, writer, plan, review, tags>> /\ job[e].pc = "check"
         /\ plan[e].kind = "rewrite"
         /\ \/ job' = [job EXCEPT ![e] = [job[e] EXCEPT !.pc = "again"]] /\ UNCHANGED <<table, store>>
            \/ /\ n \in File /\ NewName(n) /\ store' = store \cup {n}
               /\ \/ Ends(e, "stopped") /\ UNCHANGED table
                  \/ /\ CommitFiles({n})
                     /\ job' = [o \in Exec |-> IF o = e
                                               THEN [job[e] EXCEPT !.pc = "again", !.del = F]
                                               ELSE Passed(o)]
<1>1. job \in [Exec -> Jobs]
  BY DEF TypeOK
<1>2. Cardinality(files[current]) >= 2 => UNION files[current] \in File
  BY Rewritten
<1>3. job' = [job EXCEPT ![e].pc = "again"] =>
        job' = [job EXCEPT ![e] = [job[e] EXCEPT !.pc = "again"]]
  BY <1>1
<1>4. QED
  BY <1>2, <1>3 DEF Rewrite, Checked, table

\* What an expiration does: it is refused, or takes the targets and what is too old.
More(e) == Outdated \ plan[e].targets # {}

LEMMA ExpireCases ==
  ASSUME TypeOK, NEW e \in Exec, Expire(e)
  PROVE  /\ UNCHANGED <<files, current, tags, last, aged, store, old, writer, plan, review>>
         /\ Checked(e, "expire", TRUE) /\ Allowed(e)
         /\ \/ Ends(e, "stopped") /\ UNCHANGED snaps
            \/ /\ plan[e].targets \cap Referenced = {} /\ snaps' = snaps \ Expired(e)
               /\ Dropped(e) \in SUBSET File
               /\ job' = [job EXCEPT ![e] = [job[e] EXCEPT !.pc = "delete", !.del = Dropped(e),
                                                           !.more = More(e)]]
<1>1. job \in [Exec -> Jobs]
  BY DEF TypeOK
<1>2. Dropped(e) \in SUBSET File
  BY DEF TypeOK, Dropped, Held
<1>3. ASSUME NEW D, NEW m, job' = [job EXCEPT ![e].pc = "delete", ![e].del = D, ![e].more = m]
      PROVE  job' = [job EXCEPT ![e] = [job[e] EXCEPT !.pc = "delete", !.del = D, !.more = m]]
  BY <1>1, <1>3 DEF Jobs
<1>4. CASE plan[e].targets \cap Referenced # {}
  BY <1>4 DEF Expire, Checked
<1>5. CASE plan[e].targets \cap Referenced = {}
  <2>1. /\ snaps' = snaps \ Expired(e)
        /\ job' = [job EXCEPT ![e].pc = "delete", ![e].del = Dropped(e), ![e].more = More(e)]
    BY <1>5 DEF Expire, More
  <2>2. job' = [job EXCEPT ![e] = [job[e] EXCEPT !.pc = "delete", !.del = Dropped(e),
                                                 !.more = More(e)]]
    BY <2>1, <1>3
  <2>3. QED
    BY <1>2, <1>5, <2>1, <2>2 DEF Expire
<1>6. QED
  BY <1>4, <1>5

\* Nothing that a reference names is expired.
LEMMA ReferencedStay ==
  ASSUME TypeOK, NEW e \in Exec, plan[e].targets \cap Referenced = {}
  PROVE  /\ Expired(e) \cap Referenced = {}
         /\ current \in snaps \ Expired(e) /\ tags \subseteq snaps \ Expired(e)
<1>1. Expired(e) \cap Referenced = {}
  BY DEF Expired, Outdated
<1>2. Referenced \subseteq snaps /\ current \in Referenced /\ tags \subseteq Referenced
  BY DEF Referenced, TypeOK
<1>3. QED
  BY <1>1, <1>2

\* What happens beside the operators' jobs keeps the types.
LEMMA WriterType ==
  ASSUME TypeOK, UNCHANGED scenario,
         \/ \E d \in Data : Upload(d) \/ Append(d) \/ Abort(d)
         \/ Age
         \/ \E s \in Id : Outdate(s) \/ SetCurrent(s) \/ Tag(s)
  PROVE  TypeOK'
<1>1. ASSUME NEW d \in Data PROVE {d} \in File
  <2>1. d \in {d} /\ {d} \in SUBSET Data
    OBVIOUS
  <2>2. {d} # {}
    BY <2>1
  <2>3. QED
    BY <2>1, <2>2 DEF File
<1>2. CASE \E d \in Data : Upload(d) \/ Abort(d)
  <2>1. PICK d \in Data : Upload(d) \/ Abort(d)
    BY <1>2
  <2>2. /\ store' \in {store, store \cup {{d}}}
        /\ \E w \in {"writing", "done"} : writer' = [writer EXCEPT ![d] = w]
        /\ UNCHANGED <<snaps, files, current, tags, last, aged, old, plan, review, job>>
    BY <2>1 DEF Upload, Abort, table
  <2>3. store' \subseteq File /\ writer' \in [Data -> {"new", "writing", "done"}]
    BY <1>1, <2>2 DEF TypeOK
  <2>4. Id' = Id /\ Kinds' = Kinds
    BY DEF Id, Kinds
  <2>5. State' = State /\ Plans' = Plans /\ Reviews' = Reviews /\ Jobs' = Jobs
    BY <2>4 DEF State, Plans, Reviews, Jobs
  <2>6. QED
    BY <2>2, <2>3, <2>4, <2>5 DEF TypeOK
<1>3. ASSUME NEW d \in Data, Append(d) PROVE TypeOK'
  <2>1. files[current] \cup {{d}} \in SUBSET File
    BY <1>1 DEF TypeOK
  <2>2. /\ last' \in Id /\ files' \in [Id -> SUBSET File] /\ snaps' \subseteq Id
        /\ current' \in snaps' /\ snaps \subseteq snaps' /\ aged' = aged
    BY <1>3, <2>1, CommitType DEF Append
  <2>3. job' \in [Exec -> Jobs]
    BY <1>3, PassedType DEF Append
  <2>4. QED
    BY <1>3, <2>2, <2>3 DEF Append, TypeOK, Id, Kinds, State, Plans, Reviews, Jobs
<1>4. CASE Age
  BY <1>4 DEF Age, TypeOK, table, Id, Kinds, State, Plans, Reviews, Jobs
<1>5. CASE \E s \in Id : SetCurrent(s)
  BY <1>5 DEF SetCurrent, TypeOK, Id, Kinds, State, Plans, Reviews, Jobs
<1>6. CASE \E s \in Id : Tag(s)
  BY <1>6 DEF Tag, TypeOK, Id, Kinds, State, Plans, Reviews, Jobs
<1>7. CASE \E s \in Id : Outdate(s)
  <2>1. /\ aged' \in Id
        /\ UNCHANGED <<scenario, snaps, files, current, tags, last, store, old, writer, plan,
                      review, job>>
    BY <1>7 DEF Outdate
  <2>2. aged' \in Nat
    BY <2>1, Bounds DEF TypeOK
  <2>3. QED
    BY <2>1, <2>2 DEF TypeOK, Id, Kinds, State, Plans, Reviews, Jobs
<1>8. QED
  BY <1>2, <1>3, <1>4, <1>5, <1>6, <1>7

\* So does a step that changes only one operator's records, and the objects or the snapshots.
LEMMA OneOperator ==
  ASSUME TypeOK, UNCHANGED <<scenario, files, current, last, aged, old, writer>>, NEW e \in Exec,
         NEW j \in Jobs, NEW q \in Plans, NEW v \in Reviews,
         store' \subseteq File, current \in snaps', tags' \subseteq snaps', snaps' \subseteq snaps,
         job' = [job EXCEPT ![e] = j], plan' = [plan EXCEPT ![e] = q],
         review' = [review EXCEPT ![e] = v]
  PROVE  TypeOK'
  BY DEF TypeOK, Id, Kinds, State, Plans, Reviews, Jobs

\* So do the steps of an operator that plan, list, commit or delete.
LEMMA OperatorType ==
  ASSUME TypeOK, UNCHANGED scenario, NEW e \in Exec,
         \/ \E kind \in Kinds, c \in Id : Plan(e, kind, c)
         \/ Inspect(e) \/ Scan(e) \/ Rewrite(e) \/ Expire(e) \/ Delete(e)
  PROVE  TypeOK'
<1>1. /\ plan \in [Exec -> Plans] /\ review \in [Exec -> Reviews] /\ job \in [Exec -> Jobs]
      /\ scenario \in Scenarios /\ snaps \subseteq Id /\ current \in snaps /\ tags \subseteq snaps
      /\ store \subseteq File /\ old \subseteq File
  BY DEF TypeOK
<1>2. /\ plan = [plan EXCEPT ![e] = plan[e]] /\ review = [review EXCEPT ![e] = review[e]]
      /\ plan[e] \in Plans /\ review[e] \in Reviews /\ job[e] \in Jobs
  BY <1>1
<1>3. ASSUME \E x \in {"stopped", "inspected"} : Ends(e, x)
      PROVE  \E j \in Jobs : job' = [job EXCEPT ![e] = j]
  <2>1. PICK x \in {"stopped", "inspected"} : Ends(e, x)
    BY <1>3
  <2>2. job' = [job EXCEPT ![e] = [job[e] EXCEPT !.pc = "ready", !.status = x]]
    BY <1>1, <2>1 DEF Ends, Jobs
  <2>3. [job[e] EXCEPT !.pc = "ready", !.status = x] \in Jobs
    BY <1>2 DEF Jobs
  <2>4. QED
    BY <2>2, <2>3
<1>4. ASSUME NEW kind \in Kinds, NEW c \in Id, Plan(e, kind, c) PROVE TypeOK'
  <2> DEFINE q == [kind |-> kind, expected |-> job[e].now.current,
                   history |-> IF kind = "expire" THEN job[e].now.ids ELSE {},
                   targets |-> IF kind = "expire" THEN Selected(job[e].now.ids, c) ELSE {},
                   old |-> IF kind = "orphans" THEN old ELSE {},
                   edited |-> plan[e].edited]
             j == [NoJob EXCEPT !.pc = "ready"]
  <2>1. job[e].now.current \in Id \cup {0} /\ job[e].now.ids \in SUBSET Id /\ plan[e].edited \in BOOLEAN
    BY <1>2 DEF Jobs, State, Plans
  <2>2. Selected(job[e].now.ids, c) \in SUBSET Id
    BY <2>1 DEF Selected, Oldest
  <2>3. q \in Plans
    BY <1>1, <2>1, <2>2 DEF Plans
  <2>4. j \in Jobs
    BY <1>1, Blanks DEF Jobs, NoJob
  <2>5. /\ plan' = [plan EXCEPT ![e] = q] /\ job' = [job EXCEPT ![e] = j]
        /\ UNCHANGED <<snaps, files, current, tags, last, aged, store, old, writer, review>>
    BY <1>4 DEF Plan, table
  <2> HIDE DEF q, j
  <2>6. QED
    BY <1>1, <1>2, <2>3, <2>4, <2>5, OneOperator
<1>5. CASE Inspect(e)
  <2> DEFINE v == [before |-> job[e].before, found |-> Orphans(e)]
  <2>1. v \in Reviews
    BY <1>1, <1>2 DEF Reviews, Jobs, Orphans
  <2>2. /\ review' = [review EXCEPT ![e] = v] /\ Ends(e, "inspected")
        /\ UNCHANGED <<snaps, files, current, tags, last, aged, store, old, writer, plan>>
    BY <1>5 DEF Inspect, table
  <2> HIDE DEF v
  <2>3. PICK j \in Jobs : job' = [job EXCEPT ![e] = j]
    BY <1>3, <2>2
  <2>4. QED
    BY <1>1, <1>2, <2>1, <2>2, <2>3, OneOperator
<1>6. CASE Scan(e)
  <2> DEFINE D == review[e].found \ Held(snaps)
  <2>1. D \in SUBSET File
    BY <1>2 DEF Reviews
  <2>2. /\ job' = [job EXCEPT ![e] = [job[e] EXCEPT !.pc = "delete", !.del = D]]
        /\ UNCHANGED <<snaps, files, current, tags, last, aged, store, old, writer, plan, review>>
    BY <1>1, <1>6 DEF Scan, table, Jobs
  <2> HIDE DEF D
  <2>3. [job[e] EXCEPT !.pc = "delete", !.del = D] \in Jobs
    BY <2>1, ListType
  <2>4. QED
    BY <1>1, <1>2, <2>2, <2>3, OneOperator
<1>7. CASE Rewrite(e)
  <2>1. /\ UNCHANGED <<old, writer, plan, review, tags>>
        /\ store' \subseteq File
    BY <1>1, <1>7, RewriteCases
  <2>2. CASE /\ job' = [job EXCEPT ![e] = [job[e] EXCEPT !.pc = "again"]]
             /\ UNCHANGED <<table, store>>
    <3>1. [job[e] EXCEPT !.pc = "again"] \in Jobs
      BY ListType
    <3>2. QED
      BY <1>1, <1>2, <2>1, <2>2, <3>1, OneOperator DEF table
  <2>3. CASE Ends(e, "stopped") /\ UNCHANGED table
    <3>1. PICK j \in Jobs : job' = [job EXCEPT ![e] = j]
      BY <1>3, <2>3
    <3>2. QED
      BY <1>1, <1>2, <2>1, <2>3, <3>1, OneOperator DEF table
  <2>4. ASSUME UNION files[current] \in File, CommitFiles({UNION files[current]}),
               job' = [o \in Exec |-> IF o = e
                                      THEN [job[e] EXCEPT !.pc = "again", !.del = files[current]]
                                      ELSE Passed(o)]
        PROVE  TypeOK'
    <3>1. /\ last' \in Id /\ files' \in [Id -> SUBSET File] /\ snaps' \subseteq Id
          /\ current' \in snaps' /\ snaps \subseteq snaps' /\ aged' = aged
      BY <2>4, CommitType
    <3>2. files[current] \in SUBSET File
      BY DEF TypeOK
    <3>3. [job[e] EXCEPT !.pc = "again", !.del = files[current]] \in Jobs
      BY <3>2, ListType
    <3>4. job' \in [Exec -> Jobs]
      BY <2>4, <3>3, PassedType
    <3>5. QED
      BY <1>1, <2>1, <3>1, <3>4 DEF TypeOK, Id, Kinds, State, Plans, Reviews, Jobs
  <2>5. QED
    BY <1>7, <2>2, <2>3, <2>4, RewriteCases
<1>8. CASE Expire(e)
  <2>1. /\ UNCHANGED <<files, current, tags, last, aged, store, old, writer, plan, review>>
        /\ snaps' \subseteq snaps /\ current \in snaps' /\ tags \subseteq snaps'
    BY <1>1, <1>8, ExpireCases, ReferencedStay
  <2>2. PICK j \in Jobs : job' = [job EXCEPT ![e] = j]
    <3>1. More(e) \in BOOLEAN
      BY DEF More
    <3>2. QED
      BY <1>3, <1>8, <3>1, ExpireCases, ExpiredType
  <2>3. QED
    BY <1>1, <1>2, <2>1, <2>2, OneOperator
<1>9. CASE Delete(e)
  <2>1. /\ UNCHANGED <<snaps, files, current, tags, last, aged, old, writer, plan, review>>
        /\ store' \subseteq store
    BY <1>9 DEF Delete, table
  <2>2. CASE job' = [job EXCEPT ![e].pc = "again"]
    <3>1. job' = [job EXCEPT ![e] = [job[e] EXCEPT !.pc = "again"]]
      BY <1>1, <2>2
    <3>2. [job[e] EXCEPT !.pc = "again"] \in Jobs
      BY ListType
    <3>3. QED
      BY <1>1, <1>2, <2>1, <3>1, <3>2, OneOperator
  <2>3. CASE Ends(e, "stopped")
    BY <1>1, <1>2, <1>3, <2>1, <2>3, OneOperator
  <2>4. QED
    BY <1>9, <2>2, <2>3 DEF Delete
<1>10. QED
  BY <1>4, <1>5, <1>6, <1>7, <1>8, <1>9

\* A step is a writer's, quiet, or one that plans, lists, commits or deletes.
Beyond(e) ==
  \/ \E kind \in Kinds, c \in Id : Plan(e, kind, c)
  \/ Inspect(e) \/ Scan(e) \/ Rewrite(e) \/ Expire(e) \/ Delete(e)

LEMMA Steps ==
  ASSUME TypeOK, Next
  PROVE  /\ UNCHANGED scenario
         /\ \/ \E d \in Data : Upload(d) \/ Append(d) \/ Abort(d)
            \/ Age
            \/ \E s \in Id : Outdate(s) \/ SetCurrent(s) \/ Tag(s)
            \/ \E e \in Exec : Quietly(e) \/ Beyond(e)
<1>1. scenario.exec \subseteq Exec /\ scenario.data \subseteq Data
  BY Bounds DEF TypeOK
<1>2. QED
  BY <1>1 DEF Next, Act, Mutate, Quietly, Beyond

LEMMA TypeInv == TypeOK /\ [Next]_vars => TypeOK'
<1>1. CASE UNCHANGED vars
  BY <1>1 DEF vars, table, TypeOK, Id, Kinds, State, Plans, Reviews, Jobs
<1>2. QED
  BY <1>1, Steps, WriterType, QuietType, OperatorType DEF Beyond

-----------------------------------------------------------------------------
(* Files.                                                                  *)

\* What such a step lists for deletion was listed before, or held by a snapshot, and what it
\* adds is what the current snapshot holds.
LEMMA BeyondFiles ==
  ASSUME TypeOK, NEW e \in Exec, Beyond(e)
  PROVE  LET n == UNION files[current] IN
         /\ UNCHANGED <<old, writer>>
         /\ \A o \in Exec \ {e} : plan'[o] = plan[o] /\ review'[o] = review[o]
                                  /\ job'[o].del = job[o].del
         /\ plan'[e].old \in {plan[e].old, {}, old}
         /\ review'[e].found = review[e].found \/ review'[e].found \subseteq plan[e].old
         /\ \/ job'[e].del \in {job[e].del, {}}
            \/ job'[e].del \subseteq review[e].found
            \/ job'[e].del \subseteq Held(snaps)
         /\ store' \subseteq store \cup {n}
         /\ files' = files \/ (last' \in Id /\ files' = [files EXCEPT ![last'] = {n}])
<1>1. plan \in [Exec -> Plans] /\ review \in [Exec -> Reviews] /\ job \in [Exec -> Jobs]
  BY DEF TypeOK
<1>2. ASSUME NEW kind \in Kinds, NEW c \in Id, Plan(e, kind, c)
      PROVE  /\ UNCHANGED <<files, old, writer, store, review>>
             /\ \A o \in Exec \ {e} : plan'[o] = plan[o] /\ job'[o] = job[o]
             /\ job'[e].del = {} /\ plan'[e].old \in {{}, old}
  BY <1>1, <1>2 DEF Plan, table, NoJob
<1>3. CASE Inspect(e)
  <2>1. /\ UNCHANGED <<files, old, writer, store, plan>> /\ Ends(e, "inspected")
        /\ review' = [review EXCEPT ![e] = [before |-> job[e].before, found |-> Orphans(e)]]
    BY <1>3 DEF Inspect, table
  <2>2. Orphans(e) \subseteq plan[e].old
    BY DEF Orphans
  <2>3. QED
    BY <1>1, <2>1, <2>2, EndsType
<1>4. CASE Scan(e)
  <2>1. /\ UNCHANGED <<files, old, writer, store, plan, review>>
        /\ job' = [job EXCEPT ![e].pc = "delete", ![e].del = review[e].found \ Held(snaps)]
    BY <1>4 DEF Scan, table
  <2>2. job'[e].del \subseteq review[e].found /\ \A o \in Exec \ {e} : job'[o] = job[o]
    BY <1>1, <2>1 DEF Jobs
  <2>3. QED
    BY <2>1, <2>2
<1>5. CASE Rewrite(e)
  <2>1. UNCHANGED <<old, writer, plan, review>> /\ store' \subseteq store \cup {UNION files[current]}
    BY <1>5, RewriteCases
  <2>2. CASE job' = [job EXCEPT ![e] = [job[e] EXCEPT !.pc = "again"]] /\ UNCHANGED table
    <3>1. job'[e].del = job[e].del /\ \A o \in Exec \ {e} : job'[o] = job[o]
      BY <1>1, <2>2 DEF Jobs
    <3>2. QED
      BY <2>1, <2>2, <3>1 DEF table
  <2>3. CASE Ends(e, "stopped") /\ UNCHANGED table
    BY <2>1, <2>3, EndsType DEF table
  <2>4. ASSUME UNION files[current] \in File, CommitFiles({UNION files[current]}),
               job' = [o \in Exec |-> IF o = e
                                      THEN [job[e] EXCEPT !.pc = "again", !.del = files[current]]
                                      ELSE Passed(o)]
        PROVE  /\ last' \in Id /\ files' = [files EXCEPT ![last'] = {UNION files[current]}]
               /\ job'[e].del \subseteq Held(snaps)
               /\ \A o \in Exec \ {e} : job'[o].del = job[o].del
    <3>1. last' \in Id /\ files' = [files EXCEPT ![last'] = {UNION files[current]}]
      BY <2>4, CommitType
    <3>2. job'[e].del = files[current]
      BY <1>1, <2>4 DEF Jobs
    <3>3. files[current] \subseteq Held(snaps)
      BY DEF TypeOK, Held
    <3>4. \A o \in Exec : Passed(o).del = job[o].del
      BY <1>1, PassedType DEF Jobs
    <3>5. QED
      BY <2>4, <3>1, <3>2, <3>3, <3>4
  <2>5. QED
    BY <1>5, <2>1, <2>2, <2>3, <2>4, RewriteCases
<1>6. CASE Expire(e)
  <2>1. UNCHANGED <<files, old, writer, store, plan, review>>
    BY <1>6, ExpireCases
  <2>2. CASE Ends(e, "stopped")
    BY <2>1, <2>2, EndsType
  <2>3. CASE job' = [job EXCEPT ![e] = [job[e] EXCEPT !.pc = "delete", !.del = Dropped(e),
                                                     !.more = More(e)]]
    <3>1. job'[e].del = Dropped(e) /\ \A o \in Exec \ {e} : job'[o] = job[o]
      BY <1>1, <2>3 DEF Jobs
    <3>2. Dropped(e) \subseteq Held(snaps)
      BY DEF Dropped
    <3>3. QED
      BY <2>1, <3>1, <3>2
  <2>4. QED
    BY <1>6, <2>2, <2>3, ExpireCases
<1>7. CASE Delete(e)
  <2>1. UNCHANGED <<files, old, writer, plan, review>> /\ store' \subseteq store
    BY <1>7 DEF Delete, table
  <2>2. job'[e].del = job[e].del /\ \A o \in Exec \ {e} : job'[o] = job[o]
    BY <1>1, <1>7, EndsType DEF Delete, Jobs
  <2>3. QED
    BY <2>1, <2>2
<1>8. QED
  BY <1>2, <1>3, <1>4, <1>5, <1>6, <1>7 DEF Beyond

\* What is not committed yet is in no snapshot and on no list.
LEMMA SettledInv == TypeOK /\ Settled /\ [Next]_vars => Settled'
<1> SUFFICES ASSUME TypeOK, Settled, [Next]_vars, NEW d \in Data, writer'[d] # "done"
             PROVE  /\ \A s \in Id' : \A f \in files'[s] : d \notin f
                    /\ {d} \notin old'
                    /\ \A e \in Exec : {d} \notin plan'[e].old \cup review'[e].found \cup job'[e].del
                    /\ writer'[d] = "new" => {d} \notin store'
  BY DEF Settled
<1> DEFINE unheld == \A s \in Id : \A f \in files[s] : d \notin f
           listed == {d} \in old \/ \E e \in Exec : {d} \in plan[e].old \cup review[e].found
                                                            \cup job[e].del
           known == writer[d] = "new" => {d} \notin store
<1>1. writer[d] # "done" => unheld /\ ~listed /\ known
  BY DEF Settled
<1>2. \A x : {x} = {d} => x = d
  <2>1. ASSUME NEW x, {x} = {d} PROVE x = d
    <3>1. x \in {d}
      BY <2>1
    <3>2. QED
      BY <3>1
  <2>2. QED
    BY <2>1
<1> SUFFICES unheld' /\ ~listed' /\ known'
  OBVIOUS
<1>3. CASE UNCHANGED vars
  BY <1>1, <1>3 DEF vars, table, Id
<1>4. ASSUME Next PROVE UNCHANGED Id /\ writer \in [Data -> {"new", "writing", "done"}]
  BY <1>4, Steps DEF Id, TypeOK
<1>5. ASSUME NEW x \in Data, Upload(x), UNCHANGED Id PROVE unheld' /\ ~listed' /\ known'
  <2>1. writer[d] # "done"
    BY <1>5 DEF Upload, TypeOK
  <2>2. UNCHANGED <<files, old, plan, review, job>>
    BY <1>5 DEF Upload, table
  <2>3. known'
    BY <1>1, <1>2, <1>5, <2>1 DEF Upload, TypeOK
  <2>4. QED
    BY <1>1, <1>5, <2>1, <2>2, <2>3
<1>6. ASSUME NEW x \in Data, Append(x), UNCHANGED Id PROVE unheld' /\ ~listed' /\ known'
  <2>1. writer[d] # "done" /\ d # x /\ writer'[d] = writer[d]
    BY <1>6 DEF Append, TypeOK
  <2>2. UNCHANGED <<old, plan, review, store>> /\ \A e \in Exec : job'[e].del = job[e].del
    <3>1. \A e \in Exec : Passed(e).del = job[e].del
      BY PassedType DEF TypeOK, Jobs
    <3>2. QED
      BY <1>6, <3>1 DEF Append
  <2>3. unheld'
    <3>1. files' = [files EXCEPT ![last'] = files[current] \cup {{x}}] /\ current \in Id
      <4>1. files[current] \cup {{x}} \in SUBSET File
        <5>1. {x} # {} /\ {x} \in SUBSET Data
          BY Zenon
        <5>2. QED
          BY <5>1 DEF TypeOK, File
      <4>2. QED
        BY <1>6, <4>1, CommitType DEF Append, TypeOK
    <3>2. \A f \in files[current] \cup {{x}} : d \notin f
      BY <1>1, <2>1, <3>1
    <3>3. QED
      BY <1>1, <1>6, <2>1, <3>1, <3>2 DEF TypeOK
  <2>4. QED
    BY <1>1, <2>1, <2>2, <2>3
<1>7. ASSUME \/ \E x \in Data : Abort(x)
             \/ \E s \in Id : Outdate(s) \/ SetCurrent(s) \/ Tag(s)
             \/ \E e \in Exec : Quietly(e),
             UNCHANGED <<Id, scenario>>
      PROVE  unheld' /\ ~listed' /\ known'
  <2>1. /\ UNCHANGED <<files, store, old>> /\ (writer'[d] # "done" => UNCHANGED writer \/ writer[d] # "done")
        /\ writer'[d] = writer[d]
    BY <1>7, QuietType DEF Abort, Outdate, SetCurrent, Tag, table, Quiet, TypeOK
  <2>2. \A e \in Exec : /\ plan'[e].old \in {plan[e].old, {}}
                        /\ review'[e].found \in {review[e].found, {}}
                        /\ job'[e].del \in {job[e].del, {}}
    BY <1>7, QuietType DEF Abort, Outdate, SetCurrent, Tag, table, Quiet
  <2>3. QED
    BY <1>1, <1>7, <2>1, <2>2
<1>8. ASSUME Age, UNCHANGED Id PROVE unheld' /\ ~listed' /\ known'
  <2>1. writer[d] # "done" /\ UNCHANGED <<files, writer, store, plan, review, job>>
    BY <1>8 DEF Age, table
  <2>2. {d} \notin old'
    BY <1>1, <1>8, <2>1 DEF Age, TypeOK
  <2>3. QED
    BY <1>1, <1>8, <2>1, <2>2
<1>9. ASSUME NEW e \in Exec, Beyond(e), UNCHANGED <<Id, scenario>>
      PROVE  unheld' /\ ~listed' /\ known'
  <2>1. UNCHANGED writer /\ UNCHANGED old /\ writer[d] # "done"
    BY <1>9 DEF Beyond, Plan, Inspect, Scan, Rewrite, Expire, Delete
  <2>2. unheld /\ ~listed /\ known
    BY <1>1, <2>1
  <2> DEFINE n == UNION files[current]
  <2>3. current \in Id
    BY DEF TypeOK
  <2>4. d \notin n /\ {d} # n
    <3>1. d \notin n
      BY <2>2, <2>3
    <3>2. QED
      BY <3>1
  <2>5. \A s \in snaps : s \in Id
    BY DEF TypeOK
  <2>6. {d} \notin Held(snaps)
    BY <2>2, <2>5 DEF Held
  <2> HIDE DEF n
  <2>7. unheld'
    <3>1. files' = files \/ (last' \in Id /\ files' = [files EXCEPT ![last'] = {n}])
      BY <1>9, BeyondFiles DEF n
    <3>2. files \in [Id -> SUBSET File] /\ \A f \in {n} : d \notin f
      BY <2>4 DEF TypeOK
    <3>3. QED
      BY <1>9, <2>2, <3>1, <3>2
  <2>8. ~listed'
    <3>1. {d} \notin old'
      BY <1>9, <2>2, BeyondFiles
    <3>2. ASSUME NEW o \in Exec \ {e}
          PROVE  {d} \notin plan'[o].old \cup review'[o].found \cup job'[o].del
      <4>1. plan'[o] = plan[o] /\ review'[o] = review[o] /\ job'[o].del = job[o].del
        BY <1>9, <3>2, BeyondFiles
      <4>2. QED
        BY <2>2, <4>1
    <3>3. {d} \notin plan'[e].old
      BY <1>9, <2>2, BeyondFiles
    <3>4. {d} \notin review'[e].found
      BY <1>9, <2>2, BeyondFiles
    <3>5. {d} \notin job'[e].del
      BY <1>9, <2>2, <2>6, BeyondFiles
    <3>6. QED
      BY <3>1, <3>2, <3>3, <3>4, <3>5
  <2>9. known'
    BY <1>9, <2>1, <2>2, <2>4, BeyondFiles DEF n
  <2>10. QED
    BY <2>7, <2>8, <2>9
<1>10. QED
  BY <1>3, <1>4, <1>5, <1>6, <1>7, <1>8, <1>9, Steps

\* An uploaded file is there until it is committed or given up.
LEMMA UploadsInv == TypeOK /\ Settled /\ UploadsSurvive /\ [Next]_vars => UploadsSurvive'
<1> SUFFICES ASSUME TypeOK, Settled, UploadsSurvive, [Next]_vars,
                    NEW d \in Data, writer'[d] = "writing"
             PROVE  {d} \in store'
  BY DEF UploadsSurvive
<1>1. CASE UNCHANGED vars
  BY <1>1 DEF vars, UploadsSurvive
<1>2. ASSUME NEW x \in Data, Upload(x) \/ Append(x) \/ Abort(x)
      PROVE  {d} \in store'
  BY <1>2 DEF Upload, Append, Abort, UploadsSurvive, TypeOK
<1>3. CASE Age \/ \E s \in Id : Outdate(s) \/ SetCurrent(s) \/ Tag(s)
  BY <1>3 DEF Age, Outdate, SetCurrent, Tag, UploadsSurvive
<1>4. ASSUME NEW e \in Exec, Quietly(e), UNCHANGED scenario
      PROVE  {d} \in store'
  BY <1>4, QuietType DEF Quiet, UploadsSurvive
<1>5. ASSUME NEW e \in Exec, Beyond(e)
      PROVE  {d} \in store'
  <2>1. writer[d] = "writing"
    BY <1>5, BeyondFiles
  <2>2. {d} \in store /\ {d} \notin job[e].del
    BY <2>1 DEF UploadsSurvive, Settled
  <2>3. store \subseteq store' \/ store \ job[e].del \subseteq store'
    <3>1. CASE Rewrite(e)
      BY <3>1, RewriteCases
    <3>2. CASE Expire(e)
      BY <3>2, ExpireCases
    <3>3. QED
      BY <1>5, <3>1, <3>2 DEF Beyond, Plan, Inspect, Scan, Delete
  <2>4. QED
    BY <2>2, <2>3
<1>6. QED
  BY <1>1, <1>2, <1>3, <1>4, <1>5, Steps

\* What a commit of F adds to what is held.
LEMMA CommitHolds ==
  ASSUME TypeOK, \A s \in snaps : s <= last, NEW F \in SUBSET File, CommitFiles(F)
  PROVE  Held(snaps)' = Held(snaps) \cup F
<1>1. /\ snaps' = snaps \cup {last'} /\ files' = [files EXCEPT ![last'] = F]
      /\ last' = last + 1 /\ last' \in Id
  BY CommitType
<1>2. last \in Nat /\ snaps \subseteq Nat
  BY Bounds DEF TypeOK
<1>3. last' \notin snaps
  BY <1>1, <1>2
<1>4. files'[last'] = F /\ \A s \in snaps : files'[s] = files[s]
  BY <1>1, <1>3 DEF TypeOK
<1>5. QED
  BY <1>1, <1>4 DEF Held

\* Every snapshot stays readable, and what is being deleted stays out of all of them.
LEMMA ReadableInv ==
  IInv /\ [Next]_vars => SnapshotsReadable' /\ DeletesUnheld'
<1> SUFFICES ASSUME IInv, [Next]_vars PROVE SnapshotsReadable' /\ DeletesUnheld'
  OBVIOUS
<1>1. /\ TypeOK /\ Settled /\ UploadsSurvive /\ SnapshotsReadable /\ DeletesUnheld
      /\ \A s \in snaps : s <= last
  BY DEF IInv, HistoriesHold
<1>2. ASSUME Held(snaps)' \subseteq Held(snaps), store \subseteq store',
             \A e \in Exec : /\ job'[e].pc = "delete" => job[e].pc = "delete"
                             /\ job'[e].del \subseteq job[e].del
      PROVE  SnapshotsReadable' /\ DeletesUnheld'
  BY <1>1, <1>2 DEF SnapshotsReadable, DeletesUnheld
<1>3. job \in [Exec -> Jobs] /\ current \in snaps /\ current \in Id /\ store \subseteq File
  BY <1>1 DEF TypeOK
<1>4. CASE UNCHANGED vars
  BY <1>2, <1>4 DEF vars, table, Held
<1>5. CASE \/ \E d \in Data : Upload(d) \/ Abort(d)
           \/ Age \/ \E s \in Id : Outdate(s) \/ SetCurrent(s) \/ Tag(s)
  <2>1. UNCHANGED <<snaps, files, job>> /\ store \subseteq store'
    BY <1>5 DEF Upload, Abort, Age, Outdate, SetCurrent, Tag, table
  <2>2. QED
    BY <1>2, <2>1 DEF Held
<1>6. ASSUME NEW d \in Data, Append(d) PROVE SnapshotsReadable' /\ DeletesUnheld'
  <2>1. writer[d] = "writing" /\ UNCHANGED store /\ CommitFiles(files[current] \cup {{d}})
    BY <1>6 DEF Append
  <2>2. {d} \in store /\ \A e \in Exec : {d} \notin job[e].del
    BY <1>1, <2>1 DEF UploadsSurvive, Settled
  <2>3. Held(snaps)' = Held(snaps) \cup {{d}}
    <3>1. files[current] \cup {{d}} \in SUBSET File
      BY <1>1, <1>3, <2>2 DEF TypeOK
    <3>2. files[current] \subseteq Held(snaps)
      BY <1>3 DEF Held
    <3>3. QED
      BY <1>1, <2>1, <3>1, <3>2, CommitHolds
  <2>4. \A e \in Exec : job'[e].del = job[e].del /\ job'[e].pc = job[e].pc
    <3>1. \A e \in Exec : Passed(e).del = job[e].del /\ Passed(e).pc = job[e].pc
      BY <1>1, <1>3, PassedType DEF Jobs
    <3>2. QED
      BY <1>6, <3>1 DEF Append
  <2>5. SnapshotsReadable'
    BY <1>1, <2>1, <2>2, <2>3 DEF SnapshotsReadable
  <2>6. ASSUME NEW e \in Exec, job'[e].pc = "delete" PROVE job'[e].del \cap Held(snaps)' = {}
    <3>1. job[e].del \cap Held(snaps) = {}
      BY <1>1, <2>4, <2>6 DEF DeletesUnheld
    <3>2. QED
      BY <2>2, <2>3, <2>4, <3>1
  <2>7. QED
    BY <2>5, <2>6 DEF DeletesUnheld
<1>7. ASSUME NEW e \in Exec, Quietly(e), UNCHANGED scenario
      PROVE  SnapshotsReadable' /\ DeletesUnheld'
  <2>1. Quiet(e)
    BY <1>1, <1>7, QuietType
  <2>2. Held(snaps)' = Held(snaps) /\ store' = store
    BY <2>1 DEF Quiet, table, Held
  <2>3. \A o \in Exec : /\ job'[o].pc = "delete" => job[o].pc = "delete"
                        /\ job'[o].del \subseteq job[o].del
    BY <2>1 DEF Quiet
  <2>4. QED
    BY <1>2, <2>2, <2>3
<1>8. ASSUME NEW e \in Exec, \/ Inspect(e) \/ \E kind \in Kinds, c \in Id : Plan(e, kind, c)
      PROVE  SnapshotsReadable' /\ DeletesUnheld'
  <2>1. UNCHANGED <<snaps, files, store>>
    BY <1>8 DEF Inspect, Plan, table
  <2>2. \A o \in Exec : /\ job'[o].pc = "delete" => job[o].pc = "delete"
                        /\ job'[o].del \subseteq job[o].del
    <3>1. CASE Inspect(e)
      <4>1. Ends(e, "inspected")
        BY <3>1 DEF Inspect
      <4>2. QED
        BY <1>1, <4>1, EndsType
    <3>2. ASSUME NEW kind \in Kinds, NEW c \in Id, Plan(e, kind, c)
          PROVE  job'[e].pc = "ready" /\ job'[e].del = {} /\ \A o \in Exec \ {e} : job'[o] = job[o]
      <4>1. job' = [job EXCEPT ![e] = [NoJob EXCEPT !.pc = "ready"]]
        BY <3>2 DEF Plan
      <4>2. QED
        BY <1>3, <4>1 DEF NoJob
    <3>3. QED
      BY <1>8, <3>1, <3>2
  <2>3. QED
    BY <1>2, <2>1, <2>2 DEF Held
<1>9. ASSUME NEW e \in Exec, Scan(e) PROVE SnapshotsReadable' /\ DeletesUnheld'
  <2>1. /\ UNCHANGED <<snaps, files, store>>
        /\ job' = [job EXCEPT ![e].pc = "delete", ![e].del = review[e].found \ Held(snaps)]
    BY <1>9 DEF Scan, table
  <2>2. /\ job'[e].del = review[e].found \ Held(snaps)
        /\ \A o \in Exec \ {e} : job'[o] = job[o]
    BY <1>3, <2>1 DEF Jobs
  <2>3. Held(snaps)' = Held(snaps)
    BY <2>1 DEF Held
  <2>4. QED
    BY <1>1, <2>1, <2>2, <2>3 DEF SnapshotsReadable, DeletesUnheld
<1>10. ASSUME NEW e \in Exec, Rewrite(e) PROVE SnapshotsReadable' /\ DeletesUnheld'
  <2> DEFINE n == UNION files[current]
  <2>1. CASE /\ job' = [job EXCEPT ![e] = [job[e] EXCEPT !.pc = "again"]]
             /\ UNCHANGED <<table, store>>
    <3>1. \A o \in Exec : /\ job'[o].pc = "delete" => job[o].pc = "delete"
                          /\ job'[o].del \subseteq job[o].del
      BY <1>3, <2>1 DEF Jobs
    <3>2. Held(snaps)' = Held(snaps)
      BY <2>1 DEF Held, table
    <3>3. QED
      BY <1>2, <2>1, <3>1, <3>2
  <2>2. CASE Ends(e, "stopped") /\ UNCHANGED table /\ store' = store \cup {n}
    <3>1. \A o \in Exec : /\ job'[o].pc = "delete" => job[o].pc = "delete"
                          /\ job'[o].del \subseteq job[o].del
      BY <1>1, <2>2, EndsType
    <3>2. Held(snaps)' = Held(snaps)
      BY <2>2 DEF Held, table
    <3>3. QED
      BY <1>2, <2>2, <3>1, <3>2
  <2>3. ASSUME n \in File, NewName(n), store' = store \cup {n}, CommitFiles({n}),
               job' = [o \in Exec |-> IF o = e
                                      THEN [job[e] EXCEPT !.pc = "again", !.del = files[current]]
                                      ELSE Passed(o)]
        PROVE  SnapshotsReadable' /\ DeletesUnheld'
    <3>1. Held(snaps)' = Held(snaps) \cup {n}
      BY <1>1, <2>3, CommitHolds
    <3>2. \A o \in Exec : job[o].pc = "delete" => n \notin job[o].del
      BY <2>3 DEF NewName
    <3>3. \A o \in Exec \ {e} : job'[o].del = job[o].del /\ job'[o].pc = job[o].pc
      <4>1. \A o \in Exec : Passed(o).del = job[o].del /\ Passed(o).pc = job[o].pc
        BY <1>1, <1>3, PassedType DEF Jobs
      <4>2. QED
        BY <2>3, <4>1
    <3>4. job'[e].pc = "again"
      BY <1>3, <2>3 DEF Jobs
    <3>5. SnapshotsReadable'
      BY <1>1, <2>3, <3>1 DEF SnapshotsReadable
    <3>6. ASSUME NEW o \in Exec, job'[o].pc = "delete" PROVE job'[o].del \cap Held(snaps)' = {}
      <4>1. o # e
        BY <3>4, <3>6
      <4>2. job'[o].del = job[o].del /\ job[o].pc = "delete"
        BY <3>3, <3>6, <4>1
      <4>3. job[o].del \cap Held(snaps) = {} /\ n \notin job[o].del
        BY <1>1, <3>2, <4>2 DEF DeletesUnheld
      <4>4. QED
        BY <3>1, <4>2, <4>3
    <3>7. QED
      BY <3>5, <3>6 DEF DeletesUnheld
  <2>4. QED
    BY <1>1, <1>10, <2>1, <2>2, <2>3, RewriteCases
<1>11. ASSUME NEW e \in Exec, Expire(e) PROVE SnapshotsReadable' /\ DeletesUnheld'
  <2>1. UNCHANGED <<files, store>>
    BY <1>1, <1>11, ExpireCases
  <2>2. CASE Ends(e, "stopped") /\ UNCHANGED snaps
    <3>1. \A o \in Exec : /\ job'[o].pc = "delete" => job[o].pc = "delete"
                          /\ job'[o].del \subseteq job[o].del
      BY <1>1, <2>2, EndsType
    <3>2. QED
      BY <1>2, <2>1, <2>2, <3>1 DEF Held
  <2>3. CASE /\ snaps' = snaps \ Expired(e)
             /\ job' = [job EXCEPT ![e] = [job[e] EXCEPT !.pc = "delete", !.del = Dropped(e),
                                                         !.more = More(e)]]
    <3>1. Held(snaps)' = Held(snaps \ Expired(e))
      BY <2>1, <2>3 DEF Held
    <3>2. Held(snaps)' \subseteq Held(snaps) /\ Dropped(e) \cap Held(snaps)' = {}
      BY <3>1 DEF Held, Dropped
    <3>3. job'[e].del = Dropped(e) /\ \A o \in Exec \ {e} : job'[o] = job[o]
      BY <1>3, <2>3 DEF Jobs
    <3>4. QED
      BY <1>1, <2>1, <3>2, <3>3 DEF SnapshotsReadable, DeletesUnheld
  <2>4. QED
    BY <1>1, <1>11, <2>2, <2>3, ExpireCases
<1>12. ASSUME NEW e \in Exec, Delete(e) PROVE SnapshotsReadable' /\ DeletesUnheld'
  <2>1. UNCHANGED <<snaps, files>> /\ job[e].pc = "delete" /\ store \ job[e].del \subseteq store'
    BY <1>12 DEF Delete, table
  <2>2. job'[e].pc # "delete" /\ \A o \in Exec \ {e} : job'[o] = job[o]
    BY <1>1, <1>3, <1>12, EndsType DEF Delete, Jobs
  <2>3. Held(snaps)' = Held(snaps)
    BY <2>1 DEF Held
  <2>4. QED
    BY <1>1, <2>1, <2>2, <2>3 DEF SnapshotsReadable, DeletesUnheld
<1>13. QED
  BY <1>1, <1>4, <1>5, <1>6, <1>7, <1>8, <1>9, <1>10, <1>11, <1>12, Steps DEF Beyond

-----------------------------------------------------------------------------
(* Histories.                                                              *)

\* What a step does to the snapshots: nothing, a commit, or an expiration of what is too old
\* and of targets that their plan's history holds; no reference names any of these.
TableSame == UNCHANGED <<snaps, last, aged>>
TableGrows == last' = last + 1 /\ snaps' = snaps \cup {last'} /\ aged' = aged
TableAges ==
  /\ UNCHANGED <<snaps, last>> /\ aged' \in snaps /\ aged < aged'
  /\ \A e \in Exec : job[e].pc \in Running => aged' <= job[e].since
TableExpires(x) ==
  /\ UNCHANGED <<last, aged, plan>> /\ snaps' = snaps \ Expired(x)
  /\ plan[x].targets \subseteq plan[x].history
  /\ Expired(x) \cap Referenced = {}

LEMMA TableSteps ==
  ASSUME TypeOK, [Next]_vars
  PROVE  TableSame \/ TableGrows \/ TableAges \/ \E x \in Exec : TableExpires(x)
<1>1. CASE UNCHANGED vars
  BY <1>1 DEF vars, table, TableSame
<1>2. CASE Age \/ (\E d \in Data : Upload(d) \/ Abort(d)) \/ \E s \in Id : SetCurrent(s) \/ Tag(s)
  BY <1>2 DEF Upload, Abort, Age, SetCurrent, Tag, table, TableSame
<1>3. ASSUME NEW d \in Data, Append(d) PROVE TableGrows
  BY <1>3 DEF Append, CommitFiles, TableGrows
<1>4. ASSUME NEW n \in Id, Outdate(n) PROVE TableAges
  BY <1>4, Bounds DEF Outdate, TableAges, TypeOK
<1>5. ASSUME NEW e \in Exec, Quietly(e), UNCHANGED scenario PROVE TableSame
  BY <1>5, QuietType DEF Quiet, table, TableSame
<1>6. ASSUME NEW e \in Exec, \/ \E kind \in Kinds, c \in Id : Plan(e, kind, c)
                            \/ Inspect(e) \/ Scan(e) \/ Delete(e)
      PROVE  TableSame
  BY <1>6 DEF Plan, Inspect, Scan, Delete, table, TableSame
<1>7. ASSUME NEW e \in Exec, Rewrite(e) PROVE TableSame \/ TableGrows
  BY <1>7, RewriteCases DEF CommitFiles, table, TableSame, TableGrows
<1>8. ASSUME NEW e \in Exec, Expire(e) PROVE TableSame \/ TableExpires(e)
  <2>1. plan[e].targets \subseteq plan[e].history
    BY <1>8, ExpireCases DEF Checked, Allowed
  <2>2. QED
    BY <1>8, <2>1, ExpireCases, ReferencedStay DEF TableSame, TableExpires
<1>9. QED
  BY <1>1, <1>2, <1>3, <1>4, <1>5, <1>6, <1>7, <1>8, Steps DEF Beyond

\* Neither the newest id nor the age of the table goes back.
LEMMA TimePasses ==
  ASSUME TypeOK, [Next]_vars
  PROVE  /\ last \in Nat /\ aged \in Nat /\ aged' \in Nat /\ aged <= aged'
         /\ last' = last \/ last' = last + 1
         /\ snaps' \subseteq snaps \cup {last + 1}
         /\ \A e \in Exec : job[e].pc \in Running => aged' = aged \/ aged' <= job[e].since
<1>1. last \in Nat /\ aged \in Nat /\ snaps \subseteq Nat
  BY Bounds DEF TypeOK
<1>2. CASE TableAges
  <2>1. UNCHANGED <<snaps, last>> /\ aged' \in snaps /\ aged < aged'
    BY <1>2 DEF TableAges
  <2>2. \A e \in Exec : job[e].pc \in Running => aged' <= job[e].since
    BY <1>2 DEF TableAges
  <2>3. aged' \in Nat /\ aged <= aged'
    BY <1>1, <2>1
  <2>4. QED
    BY <1>1, <2>1, <2>2, <2>3
<1>3. CASE TableSame \/ TableGrows \/ \E x \in Exec : TableExpires(x)
  BY <1>1, <1>3 DEF TableSame, TableGrows, TableExpires
<1>4. QED
  BY <1>2, <1>3, TableSteps

\* What a step of e does to what e and the others know of the table's history.
Recalls(o) ==
  /\ plan[o].edited => plan'[o].edited
  /\ \/ plan'[o] = plan[o]
     \/ plan'[o].history = {} /\ plan'[o].targets = {}
     \/ plan'[o].history = plan[o].history /\ plan'[o].edited
     \/ plan'[o].history = job[o].now.ids
        /\ \E c \in Id : plan'[o].targets = Selected(job[o].now.ids, c)
  /\ job'[o].now.ids \in {job[o].now.ids, {}, snaps}

LEMMA RecallSteps ==
  ASSUME TypeOK, [Next]_vars
  PROVE  \A o \in Exec : Recalls(o)
<1>1. /\ plan \in [Exec -> Plans] /\ job \in [Exec -> Jobs]
      /\ \A o \in Exec : job[o].now \in State
  BY DEF TypeOK, Jobs
<1> DEFINE Same(o) == plan'[o] = plan[o] /\ job'[o].now = job[o].now
<1>2. \A o \in Exec : Same(o) => Recalls(o)
  BY DEF Recalls
<1>3. CASE UNCHANGED vars
  BY <1>2, <1>3 DEF vars
<1>4. \A o \in Exec : Passed(o).now = job[o].now
  BY <1>1, PassedType DEF Jobs
<1>5. CASE \/ \E d \in Data : Upload(d) \/ Append(d) \/ Abort(d)
           \/ Age
           \/ \E s \in Id : Outdate(s) \/ SetCurrent(s) \/ Tag(s)
  <2>1. UNCHANGED plan /\ (UNCHANGED job \/ job' = [o \in Exec |-> Passed(o)])
    BY <1>5 DEF Upload, Append, Abort, Age, Outdate, SetCurrent, Tag
  <2>2. QED
    BY <1>2, <1>4, <2>1
<1>6. ASSUME NEW e \in Exec, Collect(e) PROVE \A o \in Exec : Recalls(o)
  <2> DEFINE j == [NoJob EXCEPT !.pc = "collect", !.now.current = current]
             q == [NoPlan EXCEPT !.edited = plan[e].edited]
  <2>1. j.now.ids = {} /\ q.history = {} /\ q.targets = {} /\ q.edited = plan[e].edited
    BY DEF NoJob, Unread, NoPlan
  <2>2. job' = [job EXCEPT ![e] = j] /\ plan' = [plan EXCEPT ![e] = q]
    BY <1>6 DEF Collect
  <2> HIDE DEF j, q
  <2>3. /\ job'[e] = j /\ plan'[e] = q
        /\ \A o \in Exec \ {e} : Same(o)
    BY <1>1, <2>2
  <2>4. Recalls(e)
    BY <2>1, <2>3 DEF Recalls
  <2>5. QED
    BY <1>2, <2>3, <2>4
<1>7. ASSUME NEW e \in Exec, ReadHistory(e) \/ ReadSnapshots(e) PROVE \A o \in Exec : Recalls(o)
  <2>1. PICK pc : job' = [job EXCEPT ![e].pc = pc, ![e].now.ids = snaps]
    BY <1>7 DEF ReadHistory, ReadSnapshots
  <2> DEFINE m == [job[e].now EXCEPT !.ids = snaps]
             j == [job[e] EXCEPT !.pc = pc, !.now = m]
  <2>2. job' = [job EXCEPT ![e] = j]
    BY <1>1, <2>1 DEF Jobs
  <2>3. m.ids = snaps
    BY <1>1 DEF State
  <2> HIDE DEF m
  <2>4. j.now = m
    BY <1>1 DEF Jobs
  <2> HIDE DEF j
  <2>5. UNCHANGED plan
    BY <1>7 DEF ReadHistory, ReadSnapshots
  <2>6. job'[e].now = m /\ \A o \in Exec \ {e} : Same(o)
    BY <1>1, <2>2, <2>4, <2>5
  <2>7. Recalls(e)
    BY <2>3, <2>5, <2>6 DEF Recalls
  <2>8. QED
    BY <1>2, <2>6, <2>7
<1>8. ASSUME NEW e \in Exec, NEW T \in SUBSET plan[e].history, EditPlan(e, T)
      PROVE  \A o \in Exec : Recalls(o)
  <2>1. UNCHANGED job /\ plan' = [plan EXCEPT ![e].targets = T, ![e].edited = TRUE]
    BY <1>8 DEF EditPlan
  <2>2. /\ plan'[e].history = plan[e].history /\ plan'[e].edited
        /\ \A o \in Exec \ {e} : Same(o)
    BY <1>1, <2>1 DEF Plans
  <2>3. Recalls(e)
    BY <2>1, <2>2 DEF Recalls
  <2>4. QED
    BY <1>2, <2>2, <2>3
<1>9. ASSUME NEW e \in Exec, NEW apply \in BOOLEAN, Begin(e, apply)
      PROVE  \A o \in Exec : Recalls(o)
  <2> DEFINE j == [NoJob EXCEPT !.pc = "snapshots", !.apply = apply, !.now.current = current,
                                !.since = last]
  <2>1. j.now.ids = {}
    BY DEF NoJob, Unread
  <2>2. job' = [job EXCEPT ![e] = j] /\ UNCHANGED plan
    BY <1>9 DEF Begin
  <2> HIDE DEF j
  <2>3. job'[e] = j /\ \A o \in Exec \ {e} : Same(o)
    BY <1>1, <2>2
  <2>4. Recalls(e)
    BY <2>1, <2>2, <2>3 DEF Recalls
  <2>5. QED
    BY <1>2, <2>3, <2>4
<1>10. ASSUME NEW e \in Exec, ReadCurrent(e) PROVE \A o \in Exec : Recalls(o)
  <2> DEFINE m == [Unread EXCEPT !.current = current]
  <2>1. m.ids = {}
    BY DEF Unread
  <2>2. UNCHANGED plan /\ job' = [job EXCEPT ![e].pc = "snapshots", ![e].now = m]
    BY <1>10 DEF ReadCurrent
  <2> HIDE DEF m
  <2>3. job'[e].now = m /\ \A o \in Exec \ {e} : Same(o)
    BY <1>1, <2>2 DEF Jobs
  <2>4. Recalls(e)
    BY <2>1, <2>2, <2>3 DEF Recalls
  <2>5. QED
    BY <1>2, <2>3, <2>4
<1>11. ASSUME NEW e \in Exec, ReadCounts(e) PROVE \A o \in Exec : Recalls(o)
  <2>1. UNCHANGED plan
    BY <1>11 DEF ReadCounts
  <2>2. CASE job' = [job EXCEPT ![e].pc = "check", ![e].before = Seen(e), ![e].now = Unread]
    <3>1. job'[e].now = Unread /\ Unread.ids = {} /\ \A o \in Exec \ {e} : Same(o)
      BY <1>1, <2>1, <2>2 DEF Jobs, Unread
    <3>2. Recalls(e)
      BY <2>1, <3>1 DEF Recalls
    <3>3. QED
      BY <1>2, <3>1, <3>2
  <2>3. CASE Ends(e, "stopped") \/ Ends(e, Status(e, job[e].before, Seen(e)))
    <3>1. Status(e, job[e].before, Seen(e)) \in {"noop", "succeeded", "reconciliation_failed"}
      BY DEF Status
    <3>2. QED
      BY <1>2, <2>1, <2>3, <3>1, EndsType
  <2>4. QED
    BY <1>11, <2>2, <2>3 DEF ReadCounts
<1>12. ASSUME NEW e \in Exec, UNCHANGED plan,
              \/ \E x \in {"stopped", "dry_run", "inspected", "noop"} : Ends(e, x)
              \/ \E pc : job' = [job EXCEPT ![e].pc = pc]
              \/ \E pc, D : job' = [job EXCEPT ![e].pc = pc, ![e].del = D]
              \/ \E pc, D, m : job' = [job EXCEPT ![e].pc = pc, ![e].del = D, ![e].more = m]
       PROVE  \A o \in Exec : Recalls(o)
  <2>1. CASE \E x \in {"stopped", "dry_run", "inspected", "noop"} : Ends(e, x)
    <3>1. \A o \in Exec : job'[o].now = job[o].now
      BY <2>1, EndsType
    <3>2. QED
      BY <1>2, <1>12, <3>1
  <2>2. CASE \/ \E pc : job' = [job EXCEPT ![e].pc = pc]
             \/ \E pc, D : job' = [job EXCEPT ![e].pc = pc, ![e].del = D]
             \/ \E pc, D, m : job' = [job EXCEPT ![e].pc = pc, ![e].del = D, ![e].more = m]
    <3>1. ASSUME NEW pc, job' = [job EXCEPT ![e].pc = pc]
          PROVE  \A o \in Exec : job'[o].now = job[o].now
      BY <1>1, <3>1 DEF Jobs
    <3>2. ASSUME NEW pc, NEW D, job' = [job EXCEPT ![e].pc = pc, ![e].del = D]
          PROVE  \A o \in Exec : job'[o].now = job[o].now
      BY <1>1, <3>2 DEF Jobs
    <3>3. ASSUME NEW pc, NEW D, NEW m,
                 job' = [job EXCEPT ![e].pc = pc, ![e].del = D, ![e].more = m]
          PROVE  \A o \in Exec : job'[o].now = job[o].now
      BY <1>1, <3>3 DEF Jobs
    <3>4. \A o \in Exec : job'[o].now = job[o].now
      BY <2>2, <3>1, <3>2, <3>3
    <3>5. QED
      BY <1>2, <1>12, <3>4
  <2>3. QED
    BY <1>12, <2>1, <2>2
<1>13. ASSUME NEW e \in Exec, Refuse(e) \/ DryRun(e) \/ Verify(e) \/ Inspect(e) \/ Scan(e)
                             \/ Delete(e)
       PROVE  \A o \in Exec : Recalls(o)
  BY <1>12, <1>13 DEF Refuse, DryRun, Verify, Inspect, Scan, Delete
<1>14. ASSUME NEW e \in Exec, Die(e) PROVE \A o \in Exec : Recalls(o)
  <2>1. CASE Ends(e, "stopped")
    BY <1>12, <1>14, <2>1 DEF Die
  <2>2. CASE job' = [job EXCEPT ![e] = NoJob]
    <3>1. job'[e].now.ids = {} /\ UNCHANGED plan /\ \A o \in Exec \ {e} : Same(o)
      BY <1>1, <1>14, <2>2 DEF Die, NoJob, Unread
    <3>2. Recalls(e)
      BY <3>1 DEF Recalls
    <3>3. QED
      BY <1>2, <3>1, <3>2
  <2>3. QED
    BY <1>14, <2>1, <2>2 DEF Die
<1>15. ASSUME NEW e \in Exec, Rewrite(e) PROVE \A o \in Exec : Recalls(o)
  <2>1. UNCHANGED plan
    BY <1>15, RewriteCases
  <2>2. \A o \in Exec : job'[o].now = job[o].now
    <3>1. [job[e] EXCEPT !.pc = "again"].now = job[e].now
      BY <1>1 DEF Jobs
    <3>2. [job[e] EXCEPT !.pc = "again", !.del = files[current]].now = job[e].now
      BY <1>1 DEF Jobs
    <3> DEFINE a == [job[e] EXCEPT !.pc = "again"]
               k == [job[e] EXCEPT !.pc = "again", !.del = files[current]]
    <3> HIDE DEF a, k
    <3>3. CASE job' = [job EXCEPT ![e] = a]
      BY <1>1, <3>1, <3>3 DEF a
    <3>4. CASE Ends(e, "stopped")
      BY <3>4, EndsType
    <3>5. CASE job' = [o \in Exec |-> IF o = e THEN k ELSE Passed(o)]
      BY <1>4, <3>2, <3>5 DEF k
    <3>6. QED
      BY <1>15, <3>3, <3>4, <3>5, RewriteCases DEF a, k
  <2>3. QED
    BY <1>2, <2>1, <2>2
<1>16. ASSUME NEW e \in Exec, Expire(e) PROVE \A o \in Exec : Recalls(o)
  BY <1>12, <1>16 DEF Expire
<1>17. ASSUME NEW e \in Exec, NEW kind \in Kinds, NEW c \in Id, Plan(e, kind, c)
       PROVE  \A o \in Exec : Recalls(o)
  <2> DEFINE q == [kind |-> kind, expected |-> job[e].now.current,
                   history |-> IF kind = "expire" THEN job[e].now.ids ELSE {},
                   targets |-> IF kind = "expire" THEN Selected(job[e].now.ids, c) ELSE {},
                   old |-> IF kind = "orphans" THEN old ELSE {},
                   edited |-> plan[e].edited]
             j == [NoJob EXCEPT !.pc = "ready"]
  <2>1. /\ plan' = [plan EXCEPT ![e] = q] /\ job' = [job EXCEPT ![e] = j]
    BY <1>17 DEF Plan
  <2>2. /\ q.edited = plan[e].edited
        /\ \/ q.history = {} /\ q.targets = {}
           \/ q.history = job[e].now.ids /\ q.targets = Selected(job[e].now.ids, c)
    OBVIOUS
  <2>3. j.now.ids = {}
    BY DEF NoJob, Unread
  <2> HIDE DEF q, j
  <2>4. plan'[e] = q /\ job'[e] = j /\ \A o \in Exec \ {e} : Same(o)
    BY <1>1, <2>1
  <2>5. Recalls(e)
    BY <2>2, <2>3, <2>4 DEF Recalls
  <2>6. QED
    BY <1>2, <2>4, <2>5
<1>18. QED
  BY <1>3, <1>5, <1>6, <1>7, <1>8, <1>9, <1>10, <1>11, <1>13, <1>14, <1>15, <1>16, <1>17, Steps
     DEF Quietly, Beyond

\* A history of the table is as long as it may be, and so is each part of it.
LEMMA PartCounts ==
  ASSUME NEW n \in Nat, NEW H \in SUBSET (1..n), NEW A \in SUBSET H, NEW B \in SUBSET A
  PROVE  Cardinality(A) \in Nat /\ Cardinality(B) \in Nat /\ Cardinality(B) <= Cardinality(A)
<1>1. IsFiniteSet(1..n)
  BY FS_Interval
<1>2. IsFiniteSet(A) /\ IsFiniteSet(B)
  BY <1>1, FS_Subset
<1>3. QED
  BY <1>2, FS_Subset, FS_CardinalityType

\* What is selected is the oldest part of the history it is selected from.
LEMMA SelectedOldest ==
  ASSUME NEW n \in Nat, NEW H \in SUBSET (1..n), NEW c \in Nat
  PROVE  OldestPart(Selected(H, c), H)
<1> DEFINE above(s) == {u \in H : u > s}
           X == {s \in H \ Newest(H, Keep) : s < c}
           below(s) == {u \in X : u < s}
           T == Selected(H, c)
<1>1. Keep \in Nat /\ MaxExpire \in Nat /\ H \subseteq Nat
  BY PolicyAssumption
<1>2. T = {s \in X : Cardinality(below(s)) < MaxExpire}
  BY DEF Selected, Oldest
<1>3. \A s \in H : s \in Newest(H, Keep) <=> Cardinality(above(s)) < Keep
  BY DEF Newest
<1>4. ASSUME NEW t \in T, NEW s \in H, s < t PROVE s \in T
  <2>1. t \in X /\ Cardinality(below(t)) < MaxExpire
    BY <1>2
  <2>2. t \in H /\ t < c /\ ~(Cardinality(above(t)) < Keep)
    BY <1>3, <2>1
  <2>3. above(t) \subseteq above(s) /\ s < c
    <3>1. s \in Nat /\ t \in Nat /\ c \in Nat /\ s < t
      BY <1>1, <1>4, <2>2
    <3>2. \A u \in H : u \in Nat /\ (u > t => u > s)
      BY <1>1, <3>1
    <3>3. above(t) \subseteq above(s)
      BY <3>2
    <3>4. s < c
      BY <2>2, <3>1
    <3>5. QED
      BY <3>3, <3>4
  <2>4. Cardinality(above(s)) \in Nat /\ Cardinality(above(t)) <= Cardinality(above(s))
        /\ Cardinality(above(t)) \in Nat
    BY <2>3, PartCounts
  <2>5. ~(Cardinality(above(s)) < Keep)
    BY <1>1, <2>2, <2>4
  <2>6. s \in X
    BY <1>3, <2>3, <2>5
  <2>7. below(s) \subseteq below(t)
    <3>1. s \in Nat /\ t \in Nat /\ s < t
      BY <1>1, <1>4, <2>2
    <3>2. \A u \in X : u \in Nat /\ (u < s => u < t)
      BY <1>1, <3>1
    <3>3. QED
      BY <3>2
  <2>8. Cardinality(below(s)) \in Nat /\ Cardinality(below(s)) <= Cardinality(below(t))
        /\ Cardinality(below(t)) \in Nat
    BY <2>7, PartCounts
  <2>9. Cardinality(below(s)) < MaxExpire
    BY <1>1, <2>1, <2>8
  <2>10. QED
    BY <1>2, <2>6, <2>9
<1>5. ASSUME NEW t \in T PROVE Keep <= Cardinality({u \in H : u > t})
  <2>1. t \in H /\ ~(Cardinality(above(t)) < Keep)
    BY <1>2, <1>3
  <2>2. Cardinality(above(t)) \in Nat
    BY PartCounts
  <2>3. QED
    BY <1>1, <2>1, <2>2
<1>6. T \subseteq H
  BY <1>2
<1>7. QED
  BY <1>4, <1>5, <1>6 DEF OldestPart

\* A history stays one when a snapshot is committed, and when the oldest part of another
\* history is expired with what is too old; what the table holds now is one.
LEMMA HistoryStays ==
  ASSUME NEW H, WasHistory(H), last \in Nat, \A s \in snaps : s \in Nat /\ s <= last,
         aged \in Nat, aged' \in Nat, aged <= aged',
         \/ UNCHANGED <<snaps, last>>
         \/ last' = last + 1 /\ snaps' = snaps \cup {last'}
         \/ /\ UNCHANGED last
            /\ \E T, G : OldestPart(T, G) /\ WasHistory(G) /\ snaps' = snaps \ (T \cup Outdated)
  PROVE  WasHistory(H)'
<1>1. H \subseteq Nat /\ H \subseteq 1..last
  BY DEF WasHistory
<1>2. \A t \in H : t <= aged => t <= aged'
  BY <1>1
<1>3. CASE UNCHANGED <<snaps, last>>
  BY <1>2, <1>3 DEF WasHistory
<1>4. CASE last' = last + 1 /\ snaps' = snaps \cup {last'}
  <2>1. \A t \in H : t < last' /\ ~(last' <= t)
    BY <1>1, <1>4
  <2>2. H \subseteq 1..last'
    BY <1>1, <1>4
  <2>3. \A s \in snaps', t \in H : s <= t => s \in H
    BY <1>4, <2>1 DEF WasHistory
  <2>4. \A s \in snaps', t \in H \ snaps' : t < s \/ t <= aged'
    BY <1>2, <1>4, <2>1 DEF WasHistory
  <2>5. QED
    BY <2>2, <2>3, <2>4 DEF WasHistory
<1>5. ASSUME UNCHANGED last, NEW T, NEW G, OldestPart(T, G), WasHistory(G),
             snaps' = snaps \ (T \cup Outdated)
      PROVE  WasHistory(H)'
  <2>1. \A s \in snaps', t \in H : s <= t => s \in H
    BY <1>5 DEF WasHistory
  <2>2. ASSUME NEW s \in snaps', NEW t \in H \ snaps' PROVE t < s \/ t <= aged'
    <3>1. CASE t \notin snaps
      BY <1>2, <1>5, <3>1 DEF WasHistory
    <3>2. CASE t \in T
      <4>1. t \in G /\ s \in snaps /\ s \notin T /\ s \in Nat /\ t \in Nat
        BY <1>1, <1>5, <3>2 DEF OldestPart
      <4>2. s <= t => s \in G
        BY <1>5, <4>1 DEF WasHistory
      <4>3. s \in G => ~(s < t)
        BY <1>5, <3>2, <4>1 DEF OldestPart
      <4>4. s # t
        BY <3>2, <4>1
      <4>5. QED
        BY <4>1, <4>2, <4>3, <4>4
    <3>3. CASE t \in Outdated
      BY <1>2, <3>3 DEF Outdated
    <3>4. QED
      BY <1>5, <3>1, <3>2, <3>3
  <2>3. QED
    BY <1>1, <1>5, <2>1, <2>2 DEF WasHistory
<1>6. QED
  BY <1>3, <1>4, <1>5

\* What is known of the table's history stays true.
LEMMA HistoriesInv == TypeOK /\ HistoriesHold /\ [Next]_vars => HistoriesHold'
<1> SUFFICES ASSUME TypeOK, HistoriesHold, [Next]_vars PROVE HistoriesHold'
  OBVIOUS
<1>1. /\ last \in Nat /\ 1 <= last /\ snaps \in SUBSET (1..last)
      /\ \A s \in snaps : s \in Nat /\ s <= last /\ 1 <= s
  BY Bounds DEF TypeOK, HistoriesHold, Id
<1>2. \A o \in Exec : Recalls(o)
  BY RecallSteps
<1>3. last' = last \/ last' = last + 1
  BY TimePasses
<1>4. aged' <= last' /\ \A s \in snaps' : s <= last'
  <2>1. aged <= last /\ aged \in Nat
    BY TimePasses DEF HistoriesHold
  <2>2. CASE TableSame \/ TableAges
    BY <1>1, <2>1, <2>2 DEF TableSame, TableAges
  <2>3. CASE TableGrows
    BY <1>1, <2>1, <2>3 DEF TableGrows
  <2>4. CASE \E x \in Exec : TableExpires(x)
    BY <1>1, <2>1, <2>4 DEF TableExpires
  <2>5. QED
    BY <2>2, <2>3, <2>4, TableSteps
<1>5. ASSUME NEW o \in Exec
      PROVE  /\ plan'[o].history \cup job'[o].now.ids \subseteq 1..last'
             /\ ~plan'[o].edited => OldestPart(plan'[o].targets, plan'[o].history)
  <2>1. plan[o].history \subseteq 1..last /\ job[o].now.ids \subseteq 1..last
    BY DEF HistoriesHold
  <2>2. 1..last \subseteq 1..last'
    BY <1>1, <1>3
  <2>3. plan'[o].history \in {plan[o].history, {}, job[o].now.ids}
    BY <1>2 DEF Recalls
  <2>4. job'[o].now.ids \subseteq 1..last
    BY <1>1, <1>2, <2>1 DEF Recalls
  <2>5. ASSUME ~plan'[o].edited PROVE OldestPart(plan'[o].targets, plan'[o].history)
    <3>1. ~plan[o].edited
      BY <1>2, <2>5 DEF Recalls
    <3>2. CASE plan'[o] = plan[o]
      BY <3>1, <3>2 DEF HistoriesHold
    <3>3. CASE plan'[o].history = {} /\ plan'[o].targets = {}
      BY <3>3 DEF OldestPart
    <3>4. ASSUME NEW c \in Id, plan'[o].history = job[o].now.ids,
                 plan'[o].targets = Selected(job[o].now.ids, c)
          PROVE  OldestPart(plan'[o].targets, plan'[o].history)
      <4>1. c \in Nat
        BY Bounds DEF TypeOK
      <4>2. OldestPart(Selected(job[o].now.ids, c), job[o].now.ids)
        BY <1>1, <2>1, <4>1, SelectedOldest
      <4>3. QED
        BY <3>4, <4>2
    <3>5. QED
      BY <1>2, <2>5, <3>2, <3>3, <3>4 DEF Recalls
  <2>6. QED
    BY <2>1, <2>2, <2>3, <2>4, <2>5
<1>6. ASSUME \A o \in Exec : ~plan'[o].edited, NEW e \in Exec
      PROVE  WasHistory(plan[e].history)' /\ WasHistory(job[e].now.ids)'
  <2>1. \A o \in Exec : ~plan[o].edited
    BY <1>2, <1>6 DEF Recalls
  <2>2. \A o \in Exec : /\ WasHistory(plan[o].history) /\ WasHistory(job[o].now.ids)
                        /\ OldestPart(plan[o].targets, plan[o].history)
    BY <2>1 DEF HistoriesHold
  <2>3. WasHistory({}) /\ WasHistory(snaps)
    BY <1>1 DEF WasHistory
  <2>4. \/ UNCHANGED <<snaps, last>>
        \/ last' = last + 1 /\ snaps' = snaps \cup {last'}
        \/ /\ UNCHANGED last
           /\ \E T, G : OldestPart(T, G) /\ WasHistory(G) /\ snaps' = snaps \ (T \cup Outdated)
    BY <2>2, TableSteps DEF TableSame, TableAges, TableGrows, TableExpires, Expired
  <2>5. ASSUME NEW H, WasHistory(H)
        PROVE  /\ H \subseteq 1..last'
               /\ \A s \in snaps', t \in H : s <= t => s \in H
               /\ \A s \in snaps', t \in H \ snaps' : t < s \/ t <= aged'
    BY <1>1, <2>4, <2>5, TimePasses, HistoryStays DEF WasHistory
  <2>6. WasHistory(plan'[e].history) /\ WasHistory(job'[e].now.ids)
    BY <1>2, <2>2, <2>3 DEF Recalls
  <2>7. QED
    BY <2>5, <2>6 DEF WasHistory
<1>7. QED
  BY <1>4, <1>5, <1>6 DEF HistoriesHold

-----------------------------------------------------------------------------
(* What a job knows of the commits beside it.                              *)

\* SucceededAlone for one operator.
Alone(e) ==
  plan[e].kind = "expire" /\ job[e].status = "succeeded" =>
    ~job[e].more /\ (Unedited(e) => ~job[e].beside)

\* All that is said of one operator's job.
Knows(e) == JobTimes(e) /\ JobReads(e) /\ JobKnows(e) /\ Alone(e)

\* A job that runs on, as j: it began when it began, it remembers what it has read, and its
\* procedure takes too much only when it expires.
Goes(e, j) ==
  j.pc \in Running =>
    /\ job[e].pc \in Running /\ j.since = job[e].since
    /\ plan'[e].history = plan[e].history /\ plan'[e].targets = plan[e].targets
    /\ j.beside => job[e].beside \/ last' = last + 1
    /\ \/ j.before = job[e].before /\ (j.pc = "check" => job[e].pc = "check")
       \/ /\ job[e].pc = "counts" /\ job[e].before = Unread
          /\ j.pc = "check" /\ j.before.ids = job[e].now.ids
    /\ j.pc = "counts" =>
         j.now.ids = snaps' \/ (job[e].pc = "counts" /\ j.now.ids = job[e].now.ids)
    /\ j.more => \/ job[e].more
                 \/ /\ j.pc = "delete"
                    /\ \E s \in j.before.ids \ plan[e].targets : s <= last /\ s \notin snaps'

\* What such a job has read is still what there was when it began.
LEMMA ReadsKept ==
  ASSUME TypeOK, HistoriesHold, [Next]_vars, NEW e \in Exec, JobTimes(e), JobReads(e),
         NEW j, j = job'[e], Goes(e, j)
  PROVE  JobTimes(e)' /\ JobReads(e)'
<1>1. CASE j.pc \notin Running
  <2>1. job'[e].pc \notin Running /\ "counts" \in Running
    BY <1>1 DEF Running
  <2>2. QED
    BY <2>1 DEF JobTimes, JobReads
<1>2. CASE j.pc \in Running
  <2> DEFINE k == job[e]
  <2>1. /\ k.pc \in Running /\ j.since = k.since
        /\ plan'[e].history = plan[e].history /\ plan'[e].targets = plan[e].targets
        /\ j.beside => k.beside \/ last' = last + 1
    BY <1>2 DEF Goes
  <2>2. \/ j.before = k.before /\ (j.pc = "check" => k.pc = "check")
        \/ /\ k.pc = "counts" /\ k.before = Unread
           /\ j.pc = "check" /\ j.before.ids = k.now.ids
    BY <1>2 DEF Goes
  <2>3. j.pc = "counts" => j.now.ids = snaps' \/ (k.pc = "counts" /\ j.now.ids = k.now.ids)
    BY <1>2 DEF Goes
  <2>4. /\ k.since \in Nat /\ last \in Nat /\ aged \in Nat
        /\ k.before.ids \subseteq Nat
    BY Bounds DEF TypeOK, Jobs, State
  <2>5. /\ plan[e].history \subseteq 1..k.since /\ aged <= k.since /\ k.since <= last
        /\ k.beside => k.since < last
    BY <2>1 DEF JobTimes
  <2>6. JobTimes(e)'
    <3>1. /\ aged' \in Nat
          /\ last' = last \/ last' = last + 1
          /\ aged' = aged \/ aged' <= k.since
      BY <2>1, TimePasses
    <3>2. aged' <= k.since /\ k.since <= last'
      BY <2>4, <2>5, <3>1
    <3>3. j.beside => k.since < last'
      BY <2>1, <2>4, <2>5, <3>1
    <3>4. QED
      BY <2>1, <2>5, <3>2, <3>3 DEF JobTimes
  <2>7. ASSUME NEW s \in snaps', s <= k.since
        PROVE  /\ j.pc = "check" \/ j.before # Unread => s \in j.before.ids
               /\ j.pc = "counts" => s \in j.now.ids
    <3>1. s \in snaps
      <4>1. s # last + 1
        BY <2>4, <2>5, <2>7
      <4>2. QED
        BY <4>1, TimePasses
    <3>2. /\ k.pc = "check" \/ k.before # Unread => s \in k.before.ids
          /\ k.pc = "counts" => s \in k.now.ids
      BY <2>1, <2>7, <3>1 DEF JobReads
    <3>3. QED
      BY <2>2, <2>3, <2>7, <3>2
  <2>8. ASSUME j.more
        PROVE  \E s \in j.before.ids \ plan[e].targets :
                 s <= last' /\ s \notin snaps' /\ (j.pc = "counts" => s \notin j.now.ids)
    <3>1. last <= last'
      BY <2>4, TimePasses
    <3>2. CASE k.more
      <4>1. PICK s \in k.before.ids \ plan[e].targets :
              s <= last /\ s \notin snaps /\ (k.pc = "counts" => s \notin k.now.ids)
        BY <2>1, <3>2 DEF JobReads
      <4>2. s \in Nat /\ s <= last' /\ s # last + 1
        BY <2>4, <3>1, <4>1, TimePasses
      <4>3. s \notin snaps'
        BY <4>1, <4>2, TimePasses
      <4>4. Unread.ids = {}
        BY DEF Unread
      <4>5. s \in j.before.ids
        BY <2>2, <4>1, <4>4
      <4>6. QED
        BY <2>3, <4>1, <4>2, <4>3, <4>5
    <3>3. CASE j.pc = "delete" /\ \E s \in j.before.ids \ plan[e].targets :
                                    s <= last /\ s \notin snaps'
      <4>1. PICK s \in j.before.ids \ plan[e].targets : s <= last /\ s \notin snaps'
        BY <3>3
      <4>2. s \in Nat
        <5>1. j.pc # "check"
          BY <3>3
        <5>2. QED
          BY <2>2, <2>4, <4>1, <5>1
      <4>3. s <= last'
        BY <2>4, <3>1, <4>1, <4>2, TimePasses
      <4>4. j.pc # "counts"
        BY <3>3
      <4>5. QED
        BY <4>1, <4>3, <4>4
    <3>4. QED
      BY <1>2, <2>8, <3>2, <3>3 DEF Goes
  <2>9. JobReads(e)'
    BY <1>2, <2>1, <2>7, <2>8 DEF JobReads
  <2>10. QED
    BY <2>6, <2>9
<1>3. QED
  BY <1>1, <1>2

\* A job that does not run has nothing to know.
LEMMA StillKnows ==
  ASSUME NEW e \in Exec, job'[e].pc \notin Running, Alone(e)'
  PROVE  Knows(e)'
<1>1. \A pc \in {"snapshots", "counts", "check", "scan", "delete", "again"} : job'[e].pc # pc
  BY DEF Running
<1>2. JobTimes(e)' /\ JobReads(e)' /\ JobKnows(e)'
  BY <1>1 DEF JobTimes, JobReads, JobKnows
<1>3. QED
  BY <1>2 DEF Knows

\* A commit beside a job stays in the table until another operator's edited plan expires it.
LEMMA BesideKept ==
  ASSUME TypeOK, HistoriesHold, [Next]_vars, NEW e \in Exec, JobTimes(e), JobKnows(e),
         job[e].pc \in Running, job[e].beside, Unedited(e)'
  PROVE  last' \in snaps'
<1>1. Unedited(e)
  BY RecallSteps DEF Unedited, Recalls
<1>2. last \in snaps
  BY <1>1 DEF JobKnows
<1>3. /\ last \in Nat /\ aged \in Nat /\ job[e].since \in Nat
  BY Bounds DEF TypeOK, Jobs
<1>4. plan[e].history \subseteq 1..job[e].since /\ aged <= job[e].since /\ job[e].since < last
  BY DEF JobTimes
<1>5. last \notin Outdated /\ last \notin plan[e].history
  BY <1>3, <1>4 DEF Outdated
<1>6. ASSUME NEW x \in Exec, plan[x].targets \subseteq plan[x].history
      PROVE  last \notin plan[x].targets
  <2>1. CASE x = e
    BY <1>5, <1>6, <2>1
  <2>2. CASE x # e
    <3>1. OldestPart(plan[x].targets, plan[x].history) /\ plan[x].history \subseteq 1..last
      BY <1>1, <2>2 DEF Unedited, HistoriesHold
    <3>2. {u \in plan[x].history : u > last} = {}
      BY <1>3, <3>1
    <3>3. ~(Keep <= Cardinality({u \in plan[x].history : u > last}))
      BY <3>2, FS_EmptySet, PolicyAssumption
    <3>4. QED
      BY <3>1, <3>3 DEF OldestPart
  <2>3. QED
    BY <2>1, <2>2
<1>7. CASE TableSame \/ TableAges \/ TableGrows
  BY <1>2, <1>7 DEF TableSame, TableAges, TableGrows
<1>8. ASSUME NEW x \in Exec, TableExpires(x) PROVE last' \in snaps'
  BY <1>2, <1>5, <1>6, <1>8 DEF TableExpires, Expired
<1>9. QED
  BY <1>7, <1>8, TableSteps

\* A job that goes on knows what it knew, and what it has looked at.
LEMMA MoveKnows ==
  ASSUME TypeOK, HistoriesHold, [Next]_vars, NEW e \in Exec, Knows(e),
         plan'[e].history = plan[e].history, plan'[e].kind = plan[e].kind,
         NEW j, j = job'[e], Goes(e, j), j.beside = job[e].beside, j.status = job[e].status,
         j.more = job[e].more \/ job[e].pc \in Running,
         j.pc \in Running => job[e].pc \in Running,
         j.pc = "scan" => plan[e].kind = "orphans",
         plan[e].kind = "expire" /\ (\/ j.pc \in {"delete", "again"}
                                     \/ j.pc \in {"snapshots", "counts"} /\ j.before # Unread)
           => j.before.ids = plan[e].history,
         j.pc = "counts" /\ j.before # Unread /\ j.beside /\ Unedited(e) =>
           \E t \in j.now.ids : \A h \in plan[e].history : h < t
  PROVE  Knows(e)'
<1>1. JobTimes(e) /\ JobReads(e) /\ JobKnows(e) /\ Alone(e)
  BY DEF Knows
<1>2. Unedited(e)' => Unedited(e)
  BY RecallSteps DEF Unedited, Recalls
<1>3. Alone(e)'
  <2>1. job[e].status = "succeeded" => job[e].pc \notin Running
    BY <1>1 DEF JobKnows
  <2>2. QED
    BY <1>1, <1>2, <2>1 DEF Alone
<1>4. job'[e].pc \in Running => job'[e].status = "none"
  BY <1>1 DEF JobKnows
<1>5. job'[e].pc = "scan" => plan'[e].kind = "orphans"
  OBVIOUS
<1>6. job'[e].pc \in Running /\ job'[e].beside /\ Unedited(e)' => last' \in snaps'
  BY <1>1, BesideKept
<1>7. plan'[e].kind = "expire" /\ (\/ job'[e].pc \in {"delete", "again"}
                                   \/ job'[e].pc \in {"snapshots", "counts"} /\ job'[e].before # Unread)
        => job'[e].before.ids = plan'[e].history
  OBVIOUS
<1>8. job'[e].pc = "counts" /\ job'[e].before # Unread /\ job'[e].beside /\ Unedited(e)' =>
        \E t \in job'[e].now.ids : \A h \in plan'[e].history : h < t
  BY <1>2
<1>9. JobKnows(e)'
  BY <1>4, <1>5, <1>6, <1>7, <1>8 DEF JobKnows
<1>10. JobTimes(e)' /\ JobReads(e)'
  BY <1>1, ReadsKept
<1>11. QED
  BY <1>3, <1>9, <1>10 DEF Knows

\* So does one that does nothing; its plan is not edited meanwhile.
LEMMA IdleKnows ==
  ASSUME TypeOK, HistoriesHold, [Next]_vars, NEW e \in Exec, Knows(e),
         plan'[e].history = plan[e].history, plan'[e].kind = plan[e].kind, job'[e] = job[e],
         plan'[e] = plan[e] \/ job[e].pc \notin Running
  PROVE  Knows(e)'
<1> DEFINE j == job[e]
<1>1. Goes(e, j)
  BY DEF Goes
<1>2. /\ j.pc = "scan" => plan[e].kind = "orphans"
      /\ plan[e].kind = "expire" /\ (\/ j.pc \in {"delete", "again"}
                                     \/ j.pc \in {"snapshots", "counts"} /\ j.before # Unread)
           => j.before.ids = plan[e].history
      /\ j.pc = "counts" /\ j.before # Unread /\ j.beside /\ Unedited(e) =>
           \E t \in j.now.ids : \A h \in plan[e].history : h < t
  BY DEF Knows, JobKnows
<1>3. QED
  BY <1>1, <1>2, MoveKnows

\* And one that another commit passes.
LEMMA PassedKnows ==
  ASSUME TypeOK, HistoriesHold, [Next]_vars, NEW e \in Exec, Knows(e),
         plan'[e] = plan[e], job'[e] = Passed(e), last' = last + 1, snaps' = snaps \cup {last'}
  PROVE  Knows(e)'
<1>1. CASE Passed(e) = job[e]
  BY <1>1, IdleKnows
<1>2. CASE /\ Passed(e) = [job[e] EXCEPT !.beside = TRUE]
           /\ job[e].pc \in Running /\ ~(job[e].pc = "counts" /\ job[e].before # Unread)
  <2>1. /\ job'[e].pc = job[e].pc /\ job'[e].before = job[e].before /\ job'[e].now = job[e].now
        /\ job'[e].status = job[e].status /\ job'[e].since = job[e].since
        /\ job'[e].more = job[e].more
    BY <1>2 DEF TypeOK, Jobs
  <2>2. JobTimes(e) /\ JobReads(e) /\ JobKnows(e)
    BY DEF Knows
  <2> DEFINE j == job'[e]
  <2>3. j = job'[e] /\ Goes(e, j)
    BY <2>1 DEF Goes
  <2> HIDE DEF j
  <2>4. JobTimes(e)' /\ JobReads(e)'
    BY <2>2, <2>3, ReadsKept
  <2>5. job[e].status = "none" /\ last' \in snaps'
    BY <1>2, <2>2 DEF JobKnows
  <2>6. JobKnows(e)'
    BY <1>2, <2>1, <2>2, <2>5 DEF JobKnows
  <2>7. QED
    BY <2>1, <2>4, <2>5, <2>6 DEF Knows, Alone
<1>3. QED
  BY <1>1, <1>2, PassedType

\* A job begins with what there is.
LEMMA BeginKnows ==
  ASSUME TypeOK, HistoriesHold, NEW e \in Exec, NEW apply \in BOOLEAN, Begin(e, apply)
  PROVE  Knows(e)'
<1> DEFINE j == [NoJob EXCEPT !.pc = "snapshots", !.apply = apply, !.now.current = current,
                              !.since = last]
<1>1. /\ job' = [job EXCEPT ![e] = j] /\ UNCHANGED <<plan, snaps, last, aged>>
  BY DEF Begin, table
<1>2. /\ j.pc = "snapshots" /\ j.before = Unread /\ j.since = last
      /\ ~j.beside /\ ~j.more /\ j.status = "none"
  BY DEF NoJob
<1> HIDE DEF j
<1>3. job'[e] = j
  BY <1>1 DEF TypeOK
<1>4. plan[e].history \subseteq 1..last /\ aged <= last /\ last <= last
  BY Bounds DEF HistoriesHold, TypeOK
<1>5. JobTimes(e)' /\ JobReads(e)'
  BY <1>1, <1>2, <1>3, <1>4 DEF JobTimes, JobReads
<1>6. JobKnows(e)' /\ Alone(e)'
  BY <1>1, <1>2, <1>3 DEF JobKnows, Alone
<1>7. QED
  BY <1>5, <1>6 DEF Knows

\* What every job knows stays true, and so does what is reported.
LEMMA KnowsInv ==
  TypeOK /\ HistoriesHold /\ (\A e \in Exec : Knows(e)) /\ [Next]_vars
    => \A e \in Exec : Knows(e)'
<1> SUFFICES ASSUME TypeOK, HistoriesHold, \A e \in Exec : Knows(e), [Next]_vars
             PROVE  \A e \in Exec : Knows(e)'
  OBVIOUS
<1> DEFINE Good(o) == Knows(o)'
<1>1. /\ plan \in [Exec -> Plans] /\ job \in [Exec -> Jobs]
      /\ \A o \in Exec : job[o].now \in State
  BY DEF TypeOK, Jobs
<1>2. ASSUME NEW o \in Exec, plan'[o] = plan[o], job'[o] = job[o] PROVE Good(o)
  BY <1>2, IdleKnows
<1>3. CASE UNCHANGED vars
  BY <1>2, <1>3 DEF vars
<1>4. CASE \/ \E d \in Data : Upload(d) \/ Abort(d)
           \/ Age \/ \E s \in Id : Outdate(s) \/ SetCurrent(s) \/ Tag(s)
  BY <1>2, <1>4 DEF Upload, Abort, Age, Outdate, SetCurrent, Tag
<1>5. ASSUME NEW d \in Data, Append(d) PROVE \A o \in Exec : Good(o)
  <2>1. /\ UNCHANGED plan /\ \A o \in Exec : job'[o] = Passed(o)
        /\ last' = last + 1 /\ snaps' = snaps \cup {last'}
    BY <1>5 DEF Append, CommitFiles
  <2>2. QED
    BY <2>1, PassedKnows
<1>6. ASSUME NEW e \in Exec, Quietly(e) \/ Beyond(e), UNCHANGED scenario, ~Rewrite(e)
      PROVE  \A o \in Exec \ {e} : Good(o)
  <2>1. \A o \in Exec \ {e} : plan'[o] = plan[o]
    BY <1>6, QuietType, BeyondFiles DEF Quiet
  <2>2. \A o \in Exec \ {e} : job'[o] = job[o]
    <3>1. CASE Quietly(e)
      BY <1>6, <3>1, QuietType DEF Quiet
    <3>2. ASSUME NEW kind \in Kinds, NEW c \in Id, Plan(e, kind, c)
          PROVE  \A o \in Exec \ {e} : job'[o] = job[o]
      BY <1>1, <3>2 DEF Plan
    <3>3. CASE Inspect(e)
      BY <3>3, EndsType DEF Inspect
    <3>4. CASE Scan(e)
      BY <1>1, <3>4 DEF Scan
    <3>5. CASE Delete(e)
      BY <1>1, <3>5, EndsType DEF Delete
    <3>6. CASE Expire(e)
      BY <1>1, <3>6, EndsType, ExpireCases
    <3>7. QED
      BY <1>6, <3>1, <3>2, <3>3, <3>4, <3>5, <3>6 DEF Beyond
  <2>3. QED
    BY <1>2, <2>1, <2>2
<1>7. ASSUME NEW e \in Exec,
             \E x \in {"stopped", "dry_run", "inspected", "noop", "reconciliation_failed"} : Ends(e, x)
      PROVE  Good(e)
  <2>1. PICK x \in {"stopped", "dry_run", "inspected", "noop", "reconciliation_failed"} : Ends(e, x)
    BY <1>7
  <2>2. job'[e].pc = "ready" /\ job'[e].status = x
    BY <1>1, <2>1 DEF Ends, Jobs
  <2>3. QED
    BY <2>1, <2>2, StillKnows DEF Alone, Running
<1>8. ASSUME NEW e \in Exec, NEW j, job' = [job EXCEPT ![e] = j], j.pc \notin Running,
             j.status = "none"
      PROVE  Good(e)
  <2>1. j = job'[e]
    BY <1>1, <1>8
  <2>2. QED
    BY <1>8, <2>1, StillKnows DEF Alone
<1>9. ASSUME NEW e \in Exec, Collect(e) PROVE Good(e)
  <2> DEFINE j == [NoJob EXCEPT !.pc = "collect", !.now.current = current]
  <2>1. job' = [job EXCEPT ![e] = j]
    BY <1>9 DEF Collect
  <2>2. j.pc \notin Running /\ j.status = "none"
    BY DEF NoJob, Running
  <2> HIDE DEF j
  <2>3. QED
    BY <1>8, <2>1, <2>2
<1>10. ASSUME NEW e \in Exec, NEW apply \in BOOLEAN, Begin(e, apply) PROVE Good(e)
  BY <1>10, BeginKnows
<1>11. ASSUME NEW e \in Exec, NEW kind \in Kinds, NEW c \in Id, Plan(e, kind, c) PROVE Good(e)
  <2> DEFINE j == [NoJob EXCEPT !.pc = "ready"]
  <2>1. job' = [job EXCEPT ![e] = j]
    BY <1>11 DEF Plan
  <2>2. j.pc \notin Running /\ j.status = "none"
    BY DEF NoJob, Running
  <2> HIDE DEF j
  <2>3. QED
    BY <1>8, <2>1, <2>2
<1>12. ASSUME NEW e \in Exec, Die(e) PROVE Good(e)
  <2>1. CASE job' = [job EXCEPT ![e] = NoJob]
    <3>1. NoJob.pc \notin Running /\ NoJob.status = "none"
      BY DEF NoJob, Running
    <3>2. QED
      BY <1>8, <2>1, <3>1
  <2>2. QED
    BY <1>7, <1>12, <2>1 DEF Die
<1>13. ASSUME NEW e \in Exec, Refuse(e) \/ DryRun(e) \/ Inspect(e) PROVE Good(e)
  BY <1>7, <1>13 DEF Refuse, DryRun, Inspect
<1>14. ASSUME NEW e \in Exec, NEW T \in SUBSET plan[e].history, EditPlan(e, T) PROVE Good(e)
  <2>1. /\ UNCHANGED job /\ plan' = [plan EXCEPT ![e].targets = T, ![e].edited = TRUE]
        /\ job[e].pc \notin Running
    BY <1>14 DEF EditPlan, Running
  <2>2. plan'[e].history = plan[e].history /\ plan'[e].kind = plan[e].kind
    BY <1>1, <2>1 DEF Plans
  <2>3. QED
    BY <2>1, <2>2, IdleKnows
\* A job that goes on keeps what it has counted against it.
<1>15. ASSUME NEW e \in Exec, UNCHANGED plan, NEW j, job' = [job EXCEPT ![e] = j], Goes(e, j),
              j.beside = job[e].beside, j.status = job[e].status,
              j.more = job[e].more \/ job[e].pc \in Running,
              j.pc \in Running => job[e].pc \in Running,
              j.pc = "scan" => plan[e].kind = "orphans",
              plan[e].kind = "expire" /\ (\/ j.pc \in {"delete", "again"}
                                          \/ j.pc \in {"snapshots", "counts"} /\ j.before # Unread)
                => j.before.ids = plan[e].history,
              j.pc = "counts" /\ j.before # Unread /\ j.beside /\ Unedited(e) =>
                \E t \in j.now.ids : \A h \in plan[e].history : h < t
       PROVE  Good(e)
  <2>1. j = job'[e]
    BY <1>1, <1>15
  <2>2. QED
    BY <1>15, <2>1, MoveKnows
<1>16. ASSUME NEW e \in Exec, ReadHistory(e) PROVE Good(e)
  <2> DEFINE m == [job[e].now EXCEPT !.ids = snaps]
             j == [job[e] EXCEPT !.pc = "history", !.now = m]
  <2>1. job' = [job EXCEPT ![e] = j] /\ UNCHANGED plan
    BY <1>1, <1>16 DEF ReadHistory, Jobs
  <2> HIDE DEF m
  <2>2. /\ j.beside = job[e].beside /\ j.status = job[e].status /\ j.more = job[e].more
        /\ j.pc = "history"
    BY <1>1 DEF Jobs
  <2> HIDE DEF j
  <2>3. Goes(e, j)
    BY <2>2 DEF Goes, Running
  <2>4. QED
    BY <1>15, <2>1, <2>2, <2>3 DEF Running
<1>17. ASSUME NEW e \in Exec, ReadSnapshots(e) PROVE Good(e)
  <2> DEFINE m == [job[e].now EXCEPT !.ids = snaps]
             j == [job[e] EXCEPT !.pc = "counts", !.now = m]
  <2>1. /\ job' = [job EXCEPT ![e] = j] /\ UNCHANGED <<plan, snaps>>
        /\ job[e].pc = "snapshots" /\ job[e].pc \in Running
    BY <1>1, <1>17 DEF ReadSnapshots, Jobs, table, Running
  <2>2. m.ids = snaps
    BY <1>1 DEF State
  <2> HIDE DEF m
  <2>3. /\ j.beside = job[e].beside /\ j.status = job[e].status /\ j.pc = "counts"
        /\ j.before = job[e].before /\ j.now = m /\ j.since = job[e].since /\ j.more = job[e].more
    BY <1>1 DEF Jobs
  <2> HIDE DEF j
  <2>4. plan[e].kind = "expire" /\ j.before # Unread => j.before.ids = plan[e].history
    BY <2>1, <2>3 DEF Knows, JobKnows
  <2>5. ASSUME j.beside, Unedited(e) PROVE \E t \in j.now.ids : \A h \in plan[e].history : h < t
    <3>1. last \in snaps
      BY <2>1, <2>3, <2>5 DEF Knows, JobKnows
    <3>2. plan[e].history \subseteq 1..job[e].since /\ job[e].since < last
      BY <2>1, <2>3, <2>5 DEF Knows, JobTimes
    <3>3. job[e].since \in Nat /\ last \in Nat
      BY Bounds DEF TypeOK, Jobs
    <3>4. \A h \in plan[e].history : h < last
      BY <3>2, <3>3
    <3>5. QED
      BY <2>2, <2>3, <3>1, <3>4
  <2>6. Goes(e, j)
    BY <2>1, <2>2, <2>3 DEF Goes
  <2>7. QED
    BY <1>15, <2>1, <2>3, <2>4, <2>5, <2>6
<1>18. ASSUME NEW e \in Exec, ReadCurrent(e) PROVE Good(e)
  <2> DEFINE m == [Unread EXCEPT !.current = current]
             j == [job[e] EXCEPT !.pc = "snapshots", !.now = m]
  <2>1. /\ job' = [job EXCEPT ![e] = j] /\ UNCHANGED plan
        /\ job[e].pc = "again" /\ job[e].pc \in Running
    BY <1>1, <1>18 DEF ReadCurrent, Jobs, Running
  <2> HIDE DEF m
  <2>2. /\ j.beside = job[e].beside /\ j.status = job[e].status /\ j.pc = "snapshots"
        /\ j.before = job[e].before /\ j.since = job[e].since /\ j.more = job[e].more
    BY <1>1 DEF Jobs
  <2> HIDE DEF j
  <2>3. plan[e].kind = "expire" => j.before.ids = plan[e].history
    BY <2>1, <2>2 DEF Knows, JobKnows
  <2>4. Goes(e, j)
    BY <2>1, <2>2 DEF Goes
  <2>5. QED
    BY <1>15, <2>1, <2>2, <2>3, <2>4
<1>19. ASSUME NEW e \in Exec, Verify(e) PROVE Good(e)
  <2>1. /\ UNCHANGED plan /\ plan[e].kind = "orphans"
        /\ job[e].pc = "check" /\ job[e].pc \in Running
    BY <1>19 DEF Verify, Checked, Running
  <2>2. CASE job' = [job EXCEPT ![e].pc = "scan"]
    <3> DEFINE j == [job[e] EXCEPT !.pc = "scan"]
    <3>1. job' = [job EXCEPT ![e] = j]
      BY <1>1, <2>2
    <3>2. /\ j.beside = job[e].beside /\ j.status = job[e].status /\ j.pc = "scan"
          /\ j.before = job[e].before /\ j.since = job[e].since /\ j.more = job[e].more
      BY <1>1 DEF Jobs
    <3> HIDE DEF j
    <3>3. Goes(e, j)
      BY <2>1, <3>2 DEF Goes
    <3>4. QED
      BY <1>15, <2>1, <3>1, <3>2, <3>3
  <2>3. QED
    BY <1>7, <1>19, <2>1, <2>2 DEF Verify
<1>20. ASSUME NEW e \in Exec, Scan(e) PROVE Good(e)
  <2> DEFINE j == [job[e] EXCEPT !.pc = "delete", !.del = review[e].found \ Held(snaps)]
  <2>1. /\ job' = [job EXCEPT ![e] = j] /\ UNCHANGED plan
        /\ job[e].pc = "scan" /\ job[e].pc \in Running
    BY <1>1, <1>20 DEF Scan, Jobs, Running
  <2>2. /\ j.beside = job[e].beside /\ j.status = job[e].status /\ j.pc = "delete"
        /\ j.before = job[e].before /\ j.since = job[e].since /\ j.more = job[e].more
    BY <1>1 DEF Jobs
  <2> HIDE DEF j
  <2>3. plan[e].kind # "expire"
    BY <2>1 DEF Knows, JobKnows
  <2>4. Goes(e, j)
    BY <2>1, <2>2 DEF Goes
  <2>5. QED
    BY <1>15, <2>1, <2>2, <2>3, <2>4
<1>21. ASSUME NEW e \in Exec, Expire(e) PROVE Good(e)
  <2>1. /\ UNCHANGED <<plan, last>> /\ job[e].before.ids = plan[e].history
        /\ job[e].pc = "check" /\ job[e].pc \in Running
    BY <1>21, ExpireCases DEF Checked, Allowed, Running
  <2>2. ASSUME job' = [job EXCEPT ![e] = [job[e] EXCEPT !.pc = "delete", !.del = Dropped(e),
                                                        !.more = More(e)]],
               snaps' = snaps \ Expired(e)
        PROVE  Good(e)
    <3> DEFINE j == [job[e] EXCEPT !.pc = "delete", !.del = Dropped(e), !.more = More(e)]
    <3>1. /\ j.beside = job[e].beside /\ j.status = job[e].status /\ j.pc = "delete"
          /\ j.before = job[e].before /\ j.since = job[e].since /\ j.more = More(e)
      BY <1>1 DEF Jobs
    <3>2. job' = [job EXCEPT ![e] = j]
      BY <2>2
    <3> HIDE DEF j
    <3>3. ASSUME j.more PROVE \E s \in j.before.ids \ plan[e].targets : s <= last /\ s \notin snaps'
      <4>1. PICK s \in Outdated \ plan[e].targets : TRUE
        BY <3>1, <3>3 DEF More
      <4>2. s \in snaps /\ s <= aged /\ s \notin snaps' /\ s <= last
        BY <2>2, <4>1 DEF Outdated, Expired, HistoriesHold
      <4>3. aged <= job[e].since /\ s \in Nat /\ aged \in Nat /\ job[e].since \in Nat
        BY <2>1, <4>2, Bounds DEF Knows, JobTimes, TypeOK, Jobs
      <4>4. s <= job[e].since
        BY <4>2, <4>3
      <4>5. s \in job[e].before.ids
        BY <2>1, <4>2, <4>4 DEF Knows, JobReads
      <4>6. QED
        BY <3>1, <4>1, <4>2, <4>5
    <3>4. Goes(e, j)
      BY <2>1, <3>1, <3>3 DEF Goes
    <3>5. QED
      BY <1>15, <2>1, <3>1, <3>2, <3>4
  <2>3. QED
    BY <1>7, <1>21, <2>2, ExpireCases
<1>22. ASSUME NEW e \in Exec, Delete(e) PROVE Good(e)
  <2>1. UNCHANGED plan /\ job[e].pc = "delete" /\ job[e].pc \in Running
    BY <1>22 DEF Delete, Running
  <2>2. CASE job' = [job EXCEPT ![e].pc = "again"]
    <3> DEFINE j == [job[e] EXCEPT !.pc = "again"]
    <3>1. /\ j.beside = job[e].beside /\ j.status = job[e].status /\ j.pc = "again"
          /\ j.before = job[e].before /\ j.since = job[e].since /\ j.more = job[e].more
      BY <1>1 DEF Jobs
    <3>2. job' = [job EXCEPT ![e] = j]
      BY <1>1, <2>2
    <3> HIDE DEF j
    <3>3. plan[e].kind = "expire" => j.before.ids = plan[e].history
      BY <2>1, <3>1 DEF Knows, JobKnows
    <3>4. Goes(e, j)
      BY <2>1, <3>1 DEF Goes
    <3>5. QED
      BY <1>15, <2>1, <3>1, <3>2, <3>3, <3>4
  <2>3. QED
    BY <1>7, <1>22, <2>2 DEF Delete
<1>23. ASSUME NEW e \in Exec, ReadCounts(e) PROVE Good(e)
  <2>1. UNCHANGED plan /\ job[e].pc = "counts" /\ job[e].pc \in Running
    BY <1>23 DEF ReadCounts, Running
  <2>2. ASSUME job[e].before = Unread,
               job' = [job EXCEPT ![e].pc = "check", ![e].before = Seen(e), ![e].now = Unread]
        PROVE  Good(e)
    <3> DEFINE j == [job[e] EXCEPT !.pc = "check", !.before = Seen(e), !.now = Unread]
    <3>1. job' = [job EXCEPT ![e] = j]
      BY <1>1, <2>2 DEF Jobs
    <3>2. /\ j.beside = job[e].beside /\ j.status = job[e].status /\ j.pc = "check"
          /\ j.before = Seen(e) /\ j.since = job[e].since /\ j.more = job[e].more
      BY <1>1 DEF Jobs
    <3> HIDE DEF j
    <3>3. j.before.ids = job[e].now.ids
      BY <3>2, SeenType
    <3>4. Goes(e, j)
      BY <2>1, <2>2, <3>2, <3>3 DEF Goes
    <3>5. QED
      BY <1>15, <2>1, <3>1, <3>2, <3>4
  <2>3. ASSUME job[e].before # Unread, Ends(e, Status(e, job[e].before, Seen(e)))
        PROVE  Good(e)
    <3> DEFINE x == Status(e, job[e].before, Seen(e))
    <3>1. x \in {"noop", "succeeded", "reconciliation_failed"}
      BY DEF Status
    <3>2. CASE x # "succeeded"
      BY <1>7, <2>3, <3>1, <3>2
    <3>3. CASE x = "succeeded"
      <4>1. /\ job'[e].pc = "ready" /\ job'[e].beside = job[e].beside
            /\ job'[e].more = job[e].more
        BY <2>3, <3>3, EndsType
      <4>2. plan[e].kind = "expire" =>
              /\ job[e].now.ids = job[e].before.ids \ plan[e].targets
              /\ job[e].before.ids = plan[e].history
        <5>1. ASSUME plan[e].kind = "expire" PROVE Reconciled(e, job[e].before, Seen(e))
          BY <3>3, <5>1 DEF Status
        <5>2. ASSUME plan[e].kind = "expire" PROVE Seen(e).ids = job[e].before.ids \ plan[e].targets
          BY <5>1, <5>2 DEF Reconciled
        <5>3. plan[e].kind = "expire" => job[e].before.ids = plan[e].history
          BY <2>1, <2>3 DEF Knows, JobKnows
        <5>4. QED
          BY <5>2, <5>3, SeenType
      <4>3. ASSUME plan[e].kind = "expire", Unedited(e), job[e].beside PROVE FALSE
        <5>1. PICK t \in job[e].now.ids : \A h \in plan[e].history : h < t
          BY <2>1, <2>3, <4>3 DEF Knows, JobKnows
        <5>2. t \in plan[e].history /\ t \in Nat
          BY <1>1, <4>2, <4>3, <5>1, Bounds DEF TypeOK, State
        <5>3. ~(t < t)
          BY <5>2
        <5>4. QED
          BY <5>1, <5>2, <5>3
      <4>4. ASSUME plan[e].kind = "expire", job[e].more PROVE FALSE
        BY <2>1, <4>2, <4>4 DEF Knows, JobReads
      <4>5. Alone(e)'
        <5>1. Unedited(e)' => Unedited(e)
          BY <2>1 DEF Unedited
        <5>2. QED
          BY <2>1, <4>1, <4>3, <4>4, <5>1 DEF Alone
      <4>6. QED
        BY <4>1, <4>5, StillKnows DEF Running
    <3>4. QED
      BY <3>2, <3>3
  <2>4. CASE Ends(e, "stopped")
    BY <1>7, <2>4
  <2>5. QED
    BY <1>23, <2>2, <2>3, <2>4 DEF ReadCounts
<1>24. ASSUME NEW e \in Exec, Rewrite(e) PROVE \A o \in Exec : Good(o)
  <2>1. /\ UNCHANGED plan /\ plan[e].kind = "rewrite"
        /\ job[e].pc = "check" /\ job[e].pc \in Running
    BY <1>24, RewriteCases DEF Running
  <2> DEFINE a == [job[e] EXCEPT !.pc = "again"]
             k == [job[e] EXCEPT !.pc = "again", !.del = files[current]]
  <2>2. ASSUME NEW j \in {a, k}
        PROVE  /\ j.beside = job[e].beside /\ j.status = job[e].status /\ j.pc = "again"
               /\ j.more = job[e].more /\ Goes(e, j)
    <3>1. /\ j.beside = job[e].beside /\ j.status = job[e].status /\ j.pc = "again"
          /\ j.before = job[e].before /\ j.since = job[e].since /\ j.more = job[e].more
      BY <1>1, <2>2 DEF Jobs
    <3>2. QED
      BY <2>1, <3>1 DEF Goes
  <2>3. CASE job' = [job EXCEPT ![e] = a]
    <3> HIDE DEF a, k
    <3>1. Good(e)
      <4>1. /\ a.beside = job[e].beside /\ a.status = job[e].status /\ a.pc = "again"
            /\ a.more = job[e].more /\ Goes(e, a)
        BY <2>2
      <4>2. QED
        BY <1>15, <2>1, <2>3, <4>1
    <3>2. QED
      BY <1>1, <1>2, <2>1, <2>3, <3>1
  <2>4. CASE Ends(e, "stopped")
    <3>1. \A o \in Exec \ {e} : plan'[o] = plan[o] /\ job'[o] = job[o]
      BY <2>1, <2>4, EndsType
    <3>2. Good(e)
      BY <1>7, <2>4
    <3>3. QED
      BY <1>2, <3>1, <3>2
  <2>5. ASSUME job' = [o \in Exec |-> IF o = e THEN k ELSE Passed(o)],
               last' = last + 1, snaps' = snaps \cup {last'}
        PROVE  \A o \in Exec : Good(o)
    <3> HIDE DEF a, k
    <3>1. job'[e] = k /\ \A o \in Exec \ {e} : job'[o] = Passed(o)
      BY <2>5
    <3>2. \A o \in Exec \ {e} : Good(o)
      BY <2>1, <2>5, <3>1, PassedKnows
    <3>3. Good(e)
      <4>1. /\ k.beside = job[e].beside /\ k.status = job[e].status /\ k.pc = "again"
            /\ k.more = job[e].more /\ Goes(e, k)
        BY <2>2
      <4>2. QED
        BY <2>1, <3>1, <4>1, MoveKnows
    <3>4. QED
      BY <3>2, <3>3
  <2>6. QED
    BY <1>24, <2>3, <2>4, <2>5, RewriteCases DEF CommitFiles
<1>25. QED
  BY <1>3, <1>4, <1>5, <1>6, <1>9, <1>10, <1>11, <1>12, <1>13, <1>14, <1>16, <1>17, <1>18, <1>19,
     <1>20, <1>21, <1>22, <1>23, <1>24, Steps DEF Quietly, Beyond

-----------------------------------------------------------------------------
(* The theorems.                                                           *)

LEMMA InitInv == Init => IInv
<1> SUFFICES ASSUME Init PROVE IInv
  OBVIOUS
<1>1. /\ scenario \in Scenarios /\ snaps = {1} /\ files = [s \in Id |-> {}] /\ current = 1
      /\ tags = {} /\ last = 1 /\ store = {} /\ old = {} /\ writer = [d \in Data |-> "new"]
      /\ plan = [e \in Exec |-> NoPlan] /\ review = [e \in Exec |-> NoReview]
      /\ job = [e \in Exec |-> NoJob] /\ aged = 0
  BY DEF Init
<1>2. TypeOK
  BY <1>1, Blanks, Bounds DEF TypeOK
<1>3. /\ NoPlan.old = {} /\ NoReview.found = {} /\ NoJob.del = {} /\ NoPlan.history = {}
      /\ NoPlan.targets = {} /\ NoJob.now.ids = {} /\ NoJob.pc = "off" /\ ~NoJob.beside
      /\ NoJob.status = "none" /\ NoJob.since = 0
  BY DEF NoPlan, NoReview, NoJob, Unread
<1>4. Settled /\ UploadsSurvive
  BY <1>1, <1>3 DEF Settled, UploadsSurvive
<1>5. SnapshotsReadable /\ DeletesUnheld
  <2>1. Held(snaps) = {}
    BY <1>1, <1>2 DEF Held, TypeOK
  <2>2. QED
    BY <1>1, <1>3, <2>1 DEF SnapshotsReadable, DeletesUnheld
<1>6. HistoriesHold
  <2>1. \A e \in Exec : plan[e].history = {} /\ plan[e].targets = {} /\ job[e].now.ids = {}
    BY <1>1, <1>3
  <2>2. WasHistory({}) /\ OldestPart({}, {})
    BY DEF WasHistory, OldestPart
  <2>3. aged <= last /\ \A s \in snaps : s <= last
    BY <1>1
  <2>4. QED
    BY <2>1, <2>2, <2>3 DEF HistoriesHold
<1>7. (\A e \in Exec : JobTimes(e) /\ JobReads(e) /\ JobKnows(e)) /\ SucceededAlone
  BY <1>1, <1>3 DEF JobTimes, JobReads, JobKnows, SucceededAlone, Running
<1>8. QED
  BY <1>2, <1>4, <1>5, <1>6, <1>7 DEF IInv

LEMMA NextInv == IInv /\ [Next]_vars => IInv'
<1> SUFFICES ASSUME IInv, [Next]_vars PROVE IInv'
  OBVIOUS
<1>1. TypeOK /\ Settled /\ UploadsSurvive /\ HistoriesHold
  BY DEF IInv
<1>2. \A e \in Exec : Knows(e)
  BY DEF IInv, SucceededAlone, Knows, Alone
<1>3. TypeOK' /\ Settled' /\ UploadsSurvive' /\ HistoriesHold'
  BY <1>1, TypeInv, SettledInv, UploadsInv, HistoriesInv
<1>4. SnapshotsReadable' /\ DeletesUnheld'
  BY ReadableInv
<1>5. \A e \in Exec : JobTimes(e)' /\ JobReads(e)' /\ JobKnows(e)' /\ Alone(e)'
  BY <1>1, <1>2, KnowsInv DEF Knows
<1>6. SucceededAlone'
  BY <1>5 DEF SucceededAlone, Alone
<1>7. QED
  BY <1>3, <1>4, <1>5, <1>6 DEF IInv

\* The inductive invariant holds of every behaviour of writers, operators and procedures.
THEOREM Invariant == Spec => []IInv
  BY InitInv, NextInv, PTL DEF Spec

\* Every variable keeps its type, whatever collectors, planners and executors do.
THEOREM TypeCorrect == Spec => []TypeOK
<1>1. IInv => TypeOK
  BY DEF IInv
<1>2. QED
  BY <1>1, Invariant, PTL

\* No file that a snapshot holds is ever missing, whatever rewrite_data_files,
\* expire_snapshots and remove_orphan_files do beside each other or leave half done.
THEOREM TablesRead == Spec => []SnapshotsReadable
<1>1. IInv => SnapshotsReadable
  BY DEF IInv
<1>2. QED
  BY <1>1, Invariant, PTL

\* remove_orphan_files never takes a file whose writer has still to commit it.
THEOREM UploadsStay == Spec => []UploadsSurvive
<1>1. IInv => UploadsSurvive
  BY DEF IInv
<1>2. QED
  BY <1>1, Invariant, PTL

\* _reconcile reports no expiration as succeeded that took more than its targets; nor one that
\* another commit came between, as long as no other operator's plan was edited.
THEOREM SuccessAlone == Spec => []SucceededAlone
<1>1. IInv => SucceededAlone
  BY DEF IInv
<1>2. QED
  BY <1>1, Invariant, PTL

\* expire_snapshots takes no snapshot that a reference names. What it takes is too old for the
\* table itself, or, unless somebody has edited a plan, none of the newest
\* min_snapshots_to_keep of the table as it is then.
THEOREM RetentionHolds == Spec => RetentionKept
<1> DEFINE Kept == \A s \in snaps \ snaps' :
                     /\ s # current /\ s \notin tags
                     /\ s \in Newest(snaps, Keep) => s <= aged \/ \E e \in Exec : plan[e].edited
<1>1. IInv /\ [Next]_vars => Kept
  <2> SUFFICES ASSUME IInv, [Next]_vars, NEW s \in snaps \ snaps'
               PROVE  /\ s # current /\ s \notin tags
                      /\ s \in Newest(snaps, Keep) => s <= aged \/ \E e \in Exec : plan[e].edited
    OBVIOUS
  <2>1. TypeOK /\ HistoriesHold
    BY DEF IInv
  <2>2. PICK x \in Exec : TableExpires(x)
    BY <2>1, TableSteps DEF TableSame, TableGrows, TableAges
  <2>3. s \in Expired(x) /\ s \notin Referenced
    BY <2>2 DEF TableExpires
  <2>4. ASSUME ~(s <= aged), \A e \in Exec : ~plan[e].edited PROVE s \notin Newest(snaps, Keep)
    <3> DEFINE H == plan[x].history
               above == {u \in H : u > s}
               newer == {u \in snaps : u > s}
    <3>1. s \in plan[x].targets
      BY <2>3, <2>4 DEF Expired, Outdated
    <3>2. OldestPart(plan[x].targets, H) /\ WasHistory(H)
      BY <2>1, <2>4 DEF HistoriesHold
    <3>3. Keep <= Cardinality(above) /\ H \subseteq 1..last
      BY <3>1, <3>2 DEF OldestPart, WasHistory
    <3>4. /\ last \in Nat /\ s \in Nat /\ H \subseteq Nat /\ snaps \in SUBSET (1..last)
          /\ aged \in Nat
      BY <2>1, <3>3, Bounds DEF TypeOK, HistoriesHold, Id
    <3>5. \A u \in H \ snaps : u < s \/ u <= aged
      BY <3>2 DEF WasHistory
    <3>6. \A u \in H : u \in Nat /\ ~(u < s /\ u > s) /\ ~(u <= aged /\ u > s)
      BY <2>4, <3>4
    <3>7. above \subseteq newer
      BY <3>5, <3>6
    <3>8. newer \in SUBSET snaps
      OBVIOUS
    <3>9. /\ Cardinality(above) \in Nat /\ Cardinality(newer) \in Nat
          /\ Cardinality(above) <= Cardinality(newer)
      BY <3>4, <3>7, <3>8, PartCounts
    <3>10. ~(Cardinality(newer) < Keep)
      BY <3>3, <3>9, PolicyAssumption
    <3>11. QED
      BY <3>10 DEF Newest
  <2>5. QED
    BY <2>3, <2>4 DEF Referenced
<1>2. IInv /\ [Next]_vars => [Kept]_vars
  BY <1>1
<1>3. QED
  BY <1>2, Invariant, PTL DEF Spec, RetentionKept

-----------------------------------------------------------------------------
(* lakeops sync-ranger-policy (RangerSync).                                  *)

\* Every non-empty set of numbers has a least element.
LEMMA LeastName ==
  ASSUME NEW T, T \subseteq Nat, T # {}
  PROVE  \E x \in T : \A y \in T : x <= y
<1> DEFINE R == OpToRel(<, Nat)
<1>1. IsWellFoundedOn(R, Nat)
  BY NatLessThanWellFounded
<1>2. \A x, y \in Nat : y < x => <<y, x>> \in R
  BY DEF OpToRel
<1> HIDE DEF R
<1>3. PICK x \in T : \A y \in T : ~ (<<y, x>> \in R)
  BY <1>1, WFMin
<1>4. \A y \in T : ~(y < x)
  BY <1>2, <1>3
<1>5. \A y \in T : x <= y
  BY <1>4
<1>6. QED
  BY <1>5

\* What the guards of an edition are called.
LEMMA WantedNames ==
  ASSUME NEW m \in DOMAIN Models
  PROVE  /\ \A w \in Wanted(m) : /\ w.name \in Nat \ {0} /\ w.res \in Resource
                                 /\ w = [name |-> w.name, res |-> w.res]
                                 /\ \A x \in Resource : w.name # AccessName[x]
         /\ \A v, w \in Wanted(m) : v.name = w.name => v = w
         /\ Granted(m) \subseteq Resource
<1>1. ASSUME NEW w \in Wanted(m)
      PROVE  \E r \in Role : \E i \in DOMAIN Models[m].guards[r] :
               /\ i \in DOMAIN GuardName[r] /\ Models[m].guards[r][i].res \in Resource
               /\ w = [name |-> GuardName[r][i], res |-> Models[m].guards[r][i].res]
  BY ModelAssumption DEF Wanted, Guard
<1>2. \A w \in Wanted(m) : /\ w.name \in Nat \ {0} /\ w.res \in Resource
                           /\ w = [name |-> w.name, res |-> w.res]
                           /\ \A x \in Resource : w.name # AccessName[x]
  BY <1>1, NamesAssumption
<1>3. \A v, w \in Wanted(m) : v.name = w.name => v = w
  BY <1>1, NamesAssumption
<1>4. Granted(m) \subseteq Resource
  BY ModelAssumption DEF Granted
<1>5. QED
  BY <1>2, <1>3, <1>4

\* What the sync compiles.
LEMMA Compiled ==
  ASSUME RangerTypeOK
  PROVE  /\ Desired \subseteq Policy
         /\ \A p \in Desired : p.owner = "ours" /\ p.name > 0 /\ OfEdition(p, edition)
         /\ \A p, q \in Desired : p.name = q.name => p = q
         /\ BootGranted => \A x \in BootRes : \E p \in Desired : p.type = 0 /\ p.res = x
<1>1. edition \in DOMAIN Models /\ \A r \in Role : Bound(r) \subseteq User
  BY LeaseAssumption, ModelAssumption DEF RangerTypeOK, Bound
<1>2. ASSUME NEW p \in AccessPolicies
      PROVE  \E x \in Resource :
               /\ \E r \in Role : x \in Models[edition].grants[r]
               /\ p = [name |-> AccessName[x], type |-> 0, res |-> x, owner |-> "ours",
                       users |-> UNION {Bound(r) : r \in Granting(x)}]
  BY DEF AccessPolicies, Granting
<1>3. ASSUME NEW p \in GuardPolicies
      PROVE  \E r \in Role : \E i \in DOMAIN Models[edition].guards[r] :
               p = [name |-> GuardName[r][i], type |-> Models[edition].guards[r][i].type,
                    res |-> Models[edition].guards[r][i].res, owner |-> "ours", users |-> Bound(r)]
  BY DEF GuardPolicies
<1>4. \A r \in Role : \A i \in DOMAIN Models[edition].guards[r] :
        /\ i \in DOMAIN GuardName[r] /\ Models[edition].guards[r][i].type \in {1, 2}
        /\ Models[edition].guards[r][i].res \in Resource
  BY <1>1, ModelAssumption DEF Guard
<1>5. ASSUME NEW p \in AccessPolicies
      PROVE  /\ p \in Policy /\ p.owner = "ours" /\ p.name > 0 /\ p.type = 0
             /\ p.res \in Resource /\ p.name = AccessName[p.res]
             /\ p.res \in Granted(edition)
  <2>1. PICK x \in Resource :
               /\ \E r \in Role : x \in Models[edition].grants[r]
               /\ p = [name |-> AccessName[x], type |-> 0, res |-> x, owner |-> "ours",
                       users |-> UNION {Bound(r) : r \in Granting(x)}]
    BY <1>2
  <2>2. UNION {Bound(r) : r \in Granting(x)} \subseteq User
    BY <1>1 DEF Granting
  <2>3. AccessName[x] \in Nat /\ AccessName[x] > 0 /\ x \in Granted(edition)
    BY <2>1, NamesAssumption DEF Granted
  <2>4. QED
    BY <2>1, <2>2, <2>3 DEF Policy
<1>6. ASSUME NEW p \in GuardPolicies
      PROVE  /\ p \in Policy /\ p.owner = "ours" /\ p.name > 0 /\ p.type # 0
             /\ \E w \in Wanted(edition) : w.name = p.name /\ w.res = p.res
             /\ \A x \in Resource : p.name # AccessName[x]
  <2>1. PICK r \in Role : \E i \in DOMAIN Models[edition].guards[r] :
               p = [name |-> GuardName[r][i], type |-> Models[edition].guards[r][i].type,
                    res |-> Models[edition].guards[r][i].res, owner |-> "ours", users |-> Bound(r)]
    BY <1>3
  <2>2. PICK i \in DOMAIN Models[edition].guards[r] :
               p = [name |-> GuardName[r][i], type |-> Models[edition].guards[r][i].type,
                    res |-> Models[edition].guards[r][i].res, owner |-> "ours", users |-> Bound(r)]
    BY <2>1
  <2>3. GuardName[r][i] \in Nat \ {0} /\ \A x \in Resource : GuardName[r][i] # AccessName[x]
    BY <1>4, NamesAssumption
  <2>4. p \in Policy
    BY <1>1, <1>4, <2>2, <2>3 DEF Policy
  <2>5. [name |-> GuardName[r][i], res |-> Models[edition].guards[r][i].res] \in Wanted(edition)
    BY <2>2 DEF Wanted
  <2>6. QED
    BY <1>4, <2>2, <2>3, <2>4, <2>5
<1>7. \A p, q \in Desired : p.name = q.name => p = q
  <2>1. ASSUME NEW p \in AccessPolicies, NEW q \in AccessPolicies, p.name = q.name
        PROVE  p = q
    <3>1. p.res = q.res
      BY <1>5, <2>1, NamesAssumption
    <3>2. \A o \in AccessPolicies :
            o = [name |-> AccessName[o.res], type |-> 0, res |-> o.res, owner |-> "ours",
                 users |-> UNION {Bound(r) : r \in Granting(o.res)}]
      BY <1>2
    <3>3. QED
      BY <3>1, <3>2
  <2>2. \A p, q \in GuardPolicies : p.name = q.name => p = q
    BY <1>3, <1>4, NamesAssumption
  <2>3. QED
    BY <1>5, <1>6, <2>1, <2>2 DEF Desired
<1>8. ASSUME BootGranted, NEW x \in BootRes PROVE \E p \in Desired : p.type = 0 /\ p.res = x
  <2>1. PICK r \in Role : x \in Models[edition].grants[r] /\ Models[edition].users[r] # {}
    BY <1>1, <1>8 DEF BootGranted
  <2>2. r \in Granting(x) /\ x \in Resource
    BY <2>1, OthersAssumption DEF Granting, Bound
  <2>3. [name |-> AccessName[x], type |-> 0, res |-> x, owner |-> "ours",
         users |-> UNION {Bound(o) : o \in Granting(x)}] \in AccessPolicies
    BY <2>2 DEF AccessPolicies
  <2>4. QED
    BY <2>3 DEF Desired
<1>9. QED
  BY <1>5, <1>6, <1>7, <1>8 DEF Desired, OfEdition

\* What the sync finds for a policy it has not used yet, and it is still in place.
LEMMA Fresh ==
  ASSUME SyncIInv, Orderly, sync.pc \in {"apply", "again"}, NEW p \in NextPolicy,
         NEW q \in Current(p)
  PROVE  /\ q \in sync.existing /\ q.id \notin sync.consumed /\ q \in server
         /\ q.name = p.name \/ (q.owner = "ours" /\ q.res = p.res)
<1>1. /\ q \in sync.existing /\ p \in sync.desired /\ p.name > sync.at
      /\ q.name = p.name \/ (q.owner = "ours" /\ q.res = p.res /\ q.id \notin sync.consumed)
  BY DEF Current, Reusable, NextPolicy
<1>2. p.name \in Nat /\ sync.at \in Nat /\ \A b \in Behind : b.name \in Nat
  BY <1>1 DEF SyncIInv, RangerTypeOK, Behind, Policy
<1>3. q.id \notin sync.consumed
  <2> SUFFICES ASSUME q.id \in sync.consumed PROVE FALSE
    OBVIOUS
  <2>1. q.name = p.name
    BY <1>1
  <2>2. PICK b \in Behind : q.name = b.name \/ (q.owner = "ours" /\ q.res = b.res)
    BY <1>1 DEF SyncIInv, ApplyKnown
  <2>3. b \in sync.desired /\ b.name < p.name /\ q.owner = "ours" /\ q.res = b.res
    BY <1>1, <1>2, <2>1, <2>2 DEF Behind
  <2>4. PICK m \in DOMAIN Models :
          /\ \A o \in sync.desired : OfEdition(o, m)
          /\ \A o \in Ours(server \cup sync.existing) :
               \E n \in DOMAIN Models : n <= m /\ OfEdition(o, n)
    BY DEF SyncIInv, EditionsKnown
  <2>5. PICK n \in DOMAIN Models : n <= m /\ OfEdition(q, n)
    BY <1>1, <2>3, <2>4 DEF Ours
  <2>6. OfEdition(p, m) /\ OfEdition(b, m)
    BY <1>1, <2>3, <2>4
  <2>7. b.type # 0 /\ q.type # 0
    <3>1. \A w \in Wanted(n) : w.res \notin Granted(m)
      BY DEF Orderly, GuardsApart
    <3>2. \A w \in Wanted(m) : w.res \notin Granted(n)
      BY DEF Orderly, GuardsApart
    <3>3. ~(b.type = 0 /\ q.type = 0)
      BY <2>1, <2>3, <2>5, <2>6, <1>2 DEF OfEdition
    <3>4. QED
      BY <2>3, <2>5, <2>6, <3>1, <3>2, <3>3 DEF OfEdition
  <2>8. PICK v \in Wanted(m) : v.name = b.name /\ v.res = b.res
    BY <2>6, <2>7 DEF OfEdition
  <2>9. PICK w \in Wanted(n) : w.name = q.name /\ w.res = q.res
    BY <2>5, <2>7 DEF OfEdition
  <2>10. \A o \in Wanted(m) : o.name # p.name
    BY <2>1, <2>3, <2>5, <2>8, <2>9 DEF Orderly, GuardsMoveUp
  <2>11. p.type = 0 /\ p.name = AccessName[p.res] /\ p.res \in Resource
    BY <2>6, <2>10, WantedNames DEF OfEdition
  <2>12. QED
    BY <2>1, <2>9, <2>11, WantedNames
<1>4. QED
  BY <1>1, <1>3 DEF SyncIInv, ApplyKnown

\* The policies are applied in the order of their names.
LEMMA Advances ==
  ASSUME RangerTypeOK, DesiredKnown, NEW p \in NextPolicy
  PROVE  /\ p \in sync.desired /\ p \in Policy /\ p.name > sync.at /\ p \notin Behind
         /\ {b \in sync.desired : b.name <= p.name} = Behind \cup {p}
<1>1. p \in sync.desired /\ p.name > sync.at
      /\ \A q \in sync.desired : q.name > sync.at => p.name <= q.name
  BY DEF NextPolicy
<1>2. sync.at \in Nat /\ \A q \in sync.desired : q \in Policy /\ q.name \in Nat
  BY DEF RangerTypeOK, Policy
<1>3. \A b \in sync.desired : b.name <= p.name <=> b.name <= sync.at \/ b = p
  BY <1>1, <1>2 DEF DesiredKnown
<1>4. QED
  BY <1>1, <1>2, <1>3 DEF Behind

\* When no policy is left to apply, all of them are behind the sync.
LEMMA Exhausted ==
  ASSUME RangerTypeOK, NextPolicy = {}
  PROVE  Behind = sync.desired
<1>1. sync.at \in Nat /\ \A q \in sync.desired : q.name \in Nat
  BY DEF RangerTypeOK, Policy
<1> DEFINE T == {p.name : p \in {q \in sync.desired : q.name > sync.at}}
<1>2. T \subseteq Nat
  BY <1>1
<1>3. T = {}
  <2> SUFFICES ASSUME T # {} PROVE FALSE
    OBVIOUS
  <2>1. PICK x \in T : \A y \in T : x <= y
    BY <1>2, LeastName
  <2>2. PICK p \in sync.desired : p.name > sync.at /\ x = p.name
    BY <2>1
  <2>3. p \in NextPolicy
    BY <2>1, <2>2 DEF NextPolicy
  <2>4. QED
    BY <2>3
<1>4. QED
  BY <1>1, <1>3 DEF Behind

\* A sync of what the last one left finds every policy as it wants it.
LEMMA NothingToDo ==
  ASSUME SyncIInv, settled # {}, sync.pc \in {"apply", "again"}, NEW p \in NextPolicy
  PROVE  \E q \in server : Projection(q) = p /\ Current(p) = {q}
<1>1. p \in sync.desired /\ p \notin Behind
  BY Advances DEF SyncIInv
<1>2. settled = sync.desired /\ p.owner = "ours"
  BY <1>1 DEF SyncIInv, SettledKnown, DesiredKnown
<1>3. PICK q \in server : Projection(q) = p
  BY <1>1, <1>2 DEF SyncIInv, SettledKnown, InForce
<1>4. q.name = p.name /\ q.owner = "ours"
  BY <1>2, <1>3 DEF Projection
<1>5. q \in sync.existing
  BY <1>1, <1>3, <1>4 DEF SyncIInv, ApplyKnown, Ours
<1>6. \A o \in sync.existing : o.name = p.name => o = q
  BY <1>4, <1>5 DEF SyncIInv, ListedKnown
<1>7. {o \in sync.existing : o.name = p.name} = {q}
  BY <1>4, <1>5, <1>6
<1>8. QED
  BY <1>3, <1>7 DEF Current

\* What the sync has applied once it has applied one policy more: the policies U that it has
\* used make room for one with its content.
LEMMA Applies ==
  ASSUME SyncIInv, Orderly, sync.pc \in {"apply", "again"}, NEW p \in NextPolicy,
         NEW U, U \subseteq Current(p), U = {} => Current(p) = {},
         NEW q, Projection(q) = p, server' = (server \ U) \cup {q},
         sync' \in [pc : {"apply"}, desired : {sync.desired}, existing : {sync.existing},
                    at : {p.name}, consumed : {sync.consumed \cup {u.id : u \in U}},
                    todo : {sync.todo}]
  PROVE  ApplyKnown'
<1>1. /\ sync'.pc = "apply" /\ sync'.desired = sync.desired /\ sync'.existing = sync.existing
      /\ sync'.at = p.name /\ sync'.consumed = sync.consumed \cup {u.id : u \in U}
      /\ sync'.todo = sync.todo
  OBVIOUS
<1>2. Behind' = Behind \cup {p} /\ p \in sync.desired /\ p.name > sync.at
  BY <1>1, Advances DEF SyncIInv, Behind
<1>3. \A u \in U : /\ u \in sync.existing /\ u.id \notin sync.consumed /\ u \in server
                   /\ u.name = p.name \/ (u.owner = "ours" /\ u.res = p.res)
  BY Fresh
<1>4. /\ \A x, y \in sync.existing : x.id = y.id \/ x.name = y.name => x = y
      /\ \A x, y \in server : x.id = y.id => x = y
  BY DEF SyncIInv, ListedKnown, ServerKnown
<1>a. /\ \A b \in Behind : InForce(b)
      /\ \A x \in sync.existing : x.id \notin sync.consumed => x \in server
      /\ \A x \in sync.existing :
           /\ \A b \in Behind : x.name = b.name => x.id \in sync.consumed
           /\ x.id \in sync.consumed =>
                \E b \in Behind : x.name = b.name \/ (x.owner = "ours" /\ x.res = b.res)
      /\ \A x \in Ours(server) : \/ x \in sync.existing /\ x.id \notin sync.consumed
                                 \/ Projection(x) \in Behind
      /\ \A x \in sync.todo : x.owner = "boot"
  BY DEF SyncIInv, ApplyKnown
<1>5. ASSUME NEW b \in Behind' PROVE InForce(b)'
  <2>1. CASE b = p
    BY <2>1 DEF InForce, Projection
  <2>2. CASE b \in Behind
    <3>1. PICK x \in server : Projection(x) = b
      BY <1>a, <2>2 DEF InForce
    <3>2. x.name = b.name
      BY <3>1 DEF Projection
    <3>3. x \notin U
      BY <1>3, <1>a, <2>2, <3>2
    <3>4. QED
      BY <3>1, <3>3 DEF InForce, Projection
  <2>3. QED
    BY <1>2, <2>1, <2>2
<1>6. ASSUME NEW x \in sync.existing, x.id \notin sync'.consumed PROVE x \in server'
  BY <1>1, <1>6, <1>a
<1>7. ASSUME NEW x \in sync.existing
      PROVE  /\ \A b \in Behind' : x.name = b.name => x.id \in sync'.consumed
             /\ x.id \in sync'.consumed =>
                  \E b \in Behind' : x.name = b.name \/ (x.owner = "ours" /\ x.res = b.res)
  <2>1. ASSUME x.name = p.name PROVE x.id \in sync'.consumed
    <3>1. Current(p) = {y \in sync.existing : y.name = p.name}
      BY <2>1 DEF Current
    <3>2. x \in Current(p)
      BY <2>1, <3>1
    <3>3. PICK u \in U : TRUE
      BY <3>2
    <3>4. u = x
      BY <1>4, <2>1, <3>1
    <3>5. QED
      BY <1>1, <3>3, <3>4
  <2>2. ASSUME x.id \in sync'.consumed
        PROVE  \E b \in Behind' : x.name = b.name \/ (x.owner = "ours" /\ x.res = b.res)
    <3>1. CASE x.id \in sync.consumed
      BY <1>2, <1>a, <3>1
    <3>2. CASE \E u \in U : x.id = u.id
      <4>1. x \in U
        BY <1>3, <1>4, <3>2
      <4>2. QED
        BY <1>2, <1>3, <4>1
    <3>3. QED
      BY <1>1, <2>2, <3>1, <3>2
  <2>3. QED
    BY <1>1, <1>2, <1>a, <2>1, <2>2
<1>8. ASSUME NEW x \in Ours(server')
      PROVE  \/ x \in sync.existing /\ x.id \notin sync'.consumed
             \/ Projection(x) \in Behind'
  <2>1. CASE x = q
    BY <1>2, <2>1
  <2>2. CASE x \in server \ U
    <3>1. x.id \notin {u.id : u \in U}
      BY <1>3, <1>4, <2>2
    <3>2. x \in Ours(server)
      BY <2>2 DEF Ours
    <3>3. QED
      BY <1>1, <1>2, <1>a, <3>1, <3>2
  <2>3. QED
    BY <2>1, <2>2 DEF Ours
<1>9. QED
  BY <1>1, <1>5, <1>6, <1>7, <1>8, <1>a DEF ApplyKnown, Ours, Projection

\* A policy is stored, as a new one or in the place of one that Ranger has.
LEMMA Stores ==
  ASSUME RangerTypeOK, ServerKnown, NEW p \in Policy, NEW i \in 1..ids', ids' \in Nat, ids <= ids',
         server' = {q \in server : q.id # i} \cup {Stored(p, i)}, ~Taken(p, i),
         p.owner = "boot" => p.type = 0 /\ p.res \in BootRes /\ p.users = {},
         p.owner # "boot" => \A q \in server : q.id # i => q.name # p.name
  PROVE  /\ ServerKnown' /\ server' \subseteq StoredPolicy
         /\ Projection(Stored(p, i)) = p
<1>1. ids \in Nat /\ server \subseteq StoredPolicy
  BY DEF RangerTypeOK
<1> DEFINE s == Stored(p, i)
<1>2. /\ s \in StoredPolicy /\ s.id = i /\ s.name = p.name /\ s.type = p.type /\ s.res = p.res
      /\ s.owner = p.owner /\ s.users = p.users /\ Projection(s) = p
  BY DEF Stored, StoredPolicy, Policy, Projection
<1> HIDE DEF s
<1>3. server' = {q \in server : q.id # i} \cup {s}
  BY DEF s
<1>4. \A q \in server' : q = s \/ (q \in server /\ q.id # i)
  BY <1>3
<1>5. \A x, y \in server' : x.id = y.id \/ (x.type = y.type /\ x.res = y.res) => x = y
  BY <1>2, <1>4 DEF ServerKnown, Taken
<1>6. \A x, y \in server' : x.owner # "boot" /\ y.owner # "boot" /\ x.name = y.name => x = y
  BY <1>2, <1>4 DEF ServerKnown, Bootstraps
<1>7. \A x \in server' : x.id \in 1..ids'
  BY <1>1, <1>2, <1>4 DEF ServerKnown
<1>8. \A x \in server' : x.owner = "boot" => x.type = 0 /\ x.res \in BootRes /\ x.users = {}
  BY <1>2, <1>4 DEF ServerKnown, Bootstraps
<1>9. ServerKnown'
  BY <1>5, <1>6, <1>7, <1>8 DEF ServerKnown, Bootstraps
<1>10. server' \subseteq StoredPolicy
  BY <1>1, <1>2, <1>4
<1>11. QED
  BY <1>2, <1>9, <1>10 DEF s

\* A sync is over, however, and what the service has is as before.
LEMMA SyncStops ==
  ASSUME SyncIInv, sync' = Off, UNCHANGED <<server, ids>>, edition' = edition
  PROVE  /\ EditionsKnown' /\ ServerKnown' /\ DesiredKnown' /\ ListedKnown' /\ ApplyKnown'
         /\ RemoveKnown' /\ (settled' \in {settled, {}} => SettledKnown')
<1>1. EditionsKnown'
  BY DEF SyncIInv, EditionsKnown, Off, Ours, OfEdition, Granted, Wanted
<1>2. ServerKnown'
  BY DEF SyncIInv, ServerKnown, Bootstraps
<1>3. DesiredKnown' /\ ListedKnown' /\ ApplyKnown' /\ RemoveKnown'
  BY DEF DesiredKnown, ListedKnown, ApplyKnown, RemoveKnown, Off
<1>4. ASSUME settled' \in {settled, {}} PROVE SettledKnown'
  BY <1>4 DEF SyncIInv, SettledKnown, InForce, Projection, Bootstraps, Ours, Off
<1>5. QED
  BY <1>1, <1>2, <1>3, <1>4

\* Every variable keeps its type.
LEMMA SyncTypes ==
  RangerTypeOK /\ [RangerNext]_rangerVars => RangerTypeOK'
<1> SUFFICES ASSUME RangerTypeOK, [RangerNext]_rangerVars PROVE RangerTypeOK'
  OBVIOUS
<1> DEFINE Sync == [pc : {"off", "service", "users", "list", "purge", "apply", "conflict", "again",
                          "remove"},
                    desired : SUBSET Policy, existing : SUBSET StoredPolicy, at : Nat,
                    consumed : SUBSET Nat, todo : SUBSET StoredPolicy]
<1> DEFINE World == /\ edition \in DOMAIN Models
                    /\ lease \in {"early", "active", "over"}
                    /\ service \in BOOLEAN
                    /\ registered \subseteq User
                    /\ unborn \subseteq BootRes
                    /\ faults \in 0..MaxFaults /\ drift \in 0..MaxDrift
<1> DEFINE Store == ids \in Nat /\ server \subseteq StoredPolicy /\ settled \subseteq Policy
<1>1. RangerTypeOK <=> World /\ Store /\ sync \in Sync
  BY DEF RangerTypeOK
<1>2. RangerTypeOK' <=> World' /\ Store' /\ sync' \in Sync
  BY DEF RangerTypeOK
<1>3. Off \in Sync
  BY DEF Off
<1>4. Desired \subseteq Policy
  BY Compiled
<1>5. \A p \in Policy, i \in Nat : Stored(p, i) \in StoredPolicy
  BY DEF Policy, Stored, StoredPolicy
<1>6. World'
  <2> USE OthersAssumption DEF world
  <2>1. CASE EnsureUsers
    <3>1. \A p \in sync.desired : p.users \subseteq User
      BY <1>1 DEF Policy
    <3>2. QED
      BY <1>1, <2>1, <3>1 DEF EnsureUsers
  <2>2. CASE Time
    BY <1>1, <2>2 DEF Time
  <2>3. CASE EditModel
    BY <1>1, <2>3 DEF EditModel
  <2>4. CASE SyncDies
    BY <1>1, <2>4 DEF SyncDies
  <2>5. CASE \E x \in BootRes : Bootstrap(x)
    BY <1>1, <2>5 DEF Bootstrap
  <2>6. CASE \E p \in Foreign : AddForeign(p)
    BY <1>1, <2>6 DEF AddForeign
  <2>7. CASE \E p \in server : DropManaged(p)
    BY <1>1, <2>7 DEF DropManaged
  <2>8. CASE EnsureService
    BY <1>1, <2>8 DEF EnsureService
  <2>9. CASE UNCHANGED <<edition, lease, unborn, service, registered, faults, drift>>
    BY <1>1, <2>9
  <2>10. CASE SyncBegins \/ ListPolicies \/ ListLate \/ Purged \/ Applied \/ SyncEnds
    BY <2>9, <2>10 DEF SyncBegins, ListPolicies, ListLate, Purged, Applied, SyncEnds
  <2>11. CASE \E p \in sync.todo : Purge(p) \/ Remove(p)
    BY <2>9, <2>11 DEF Purge, Remove
  <2>12. CASE \E p \in NextPolicy : Create(p) \/ KeepPolicy(p) \/ Update(p)
    BY <2>9, <2>12 DEF Create, KeepPolicy, Update
  <2>13. CASE UNCHANGED rangerVars
    BY <2>9, <2>13 DEF rangerVars
  <2>14. QED
    BY <2>1, <2>2, <2>3, <2>4, <2>5, <2>6, <2>7, <2>8, <2>10, <2>11, <2>12, <2>13
       DEF RangerNext, Step, Others
<1>7. Store' /\ sync' \in Sync
  <2>1. CASE SyncBegins
    BY <1>1, <1>3, <1>4, <2>1 DEF SyncBegins, Off
  <2>2. CASE EnsureService \/ EnsureUsers \/ ListPolicies \/ ListLate \/ Purged
    <3>1. Bootstraps \subseteq StoredPolicy
      BY <1>1 DEF Bootstraps
    <3>2. Store'
      BY <1>1, <2>2 DEF EnsureService, EnsureUsers, ListPolicies, ListLate, Purged
    <3>3. CASE EnsureService \/ EnsureUsers \/ Purged
      BY <1>1, <3>2, <3>3 DEF EnsureService, EnsureUsers, Purged
    <3>4. CASE ListPolicies
      BY <1>1, <3>1, <3>2, <3>4 DEF ListPolicies
    <3>5. CASE ListLate
      BY <1>1, <1>3, <3>1, <3>2, <3>5 DEF ListLate, Fails
    <3>6. QED
      BY <2>2, <3>3, <3>4, <3>5
  <2>3. ASSUME NEW p \in sync.todo, Purge(p) \/ Remove(p) PROVE Store' /\ sync' \in Sync
    BY <1>1, <1>3, <2>3 DEF Purge, Remove, DeletePolicy, Fails
  <2>4. ASSUME NEW p \in NextPolicy, Create(p) \/ KeepPolicy(p) \/ Update(p)
        PROVE  Store' /\ sync' \in Sync
    <3>1. p \in Policy /\ p.name \in Nat
      BY <1>1 DEF NextPolicy, Policy
    <3>2. \A q \in Current(p) : q \in StoredPolicy /\ q.id \in Nat
      BY <1>1 DEF Current, Reusable, StoredPolicy
    <3>3. Stored(p, ids + 1) \in StoredPolicy /\ \A q \in Current(p) : Stored(p, q.id) \in StoredPolicy
      BY <1>1, <1>5, <3>1, <3>2
    <3>4. CASE Create(p)
      <4>1. Store'
        <5>1. settled' = settled
          BY <3>4 DEF Create
        <5>2. \/ ids' = ids + 1 /\ server' = server \cup {Stored(p, ids + 1)}
              \/ ids' = ids /\ server' = server
          BY <3>4 DEF Create
        <5>3. QED
          BY <1>1, <3>3, <5>1, <5>2
      <4>2. \/ sync' = [sync EXCEPT !.pc = "apply", !.at = p.name]
            \/ sync' = [sync EXCEPT !.pc = "conflict"]
            \/ sync' = Off
        BY <3>4 DEF Create, Fails
      <4>3. sync' \in Sync
        BY <1>1, <1>3, <3>1, <4>2
      <4>4. QED
        BY <4>1, <4>3
    <3>5. CASE KeepPolicy(p)
      <4>1. PICK q \in Current(p) :
              sync' = [sync EXCEPT !.at = p.name, !.consumed = @ \cup {q.id}]
        BY <3>5 DEF KeepPolicy
      <4>2. sync' \in Sync
        BY <1>1, <3>1, <3>2, <4>1
      <4>3. Store'
        BY <1>1, <3>5 DEF KeepPolicy
      <4>4. QED
        BY <4>2, <4>3
    <3>6. CASE Update(p)
      <4>1. PICK q \in Current(p) :
              \/ /\ server' = {s \in server : s.id # q.id} \cup {Stored(p, q.id)}
                 /\ sync' = [sync EXCEPT !.at = p.name, !.consumed = @ \cup {q.id}]
              \/ Fails /\ UNCHANGED server
        BY <3>6 DEF Update
      <4>2. ids' = ids /\ settled' = settled
        BY <3>6 DEF Update
      <4>3. sync' = [sync EXCEPT !.at = p.name, !.consumed = @ \cup {q.id}] \/ sync' = Off
        BY <4>1 DEF Fails
      <4>s. sync' \in Sync
        <5>1. q.id \in Nat
          BY <3>2
        <5>2. [sync EXCEPT !.at = p.name, !.consumed = @ \cup {q.id}] \in Sync
          BY <1>1, <3>1, <5>1
        <5>3. QED
          BY <1>3, <4>3, <5>2
      <4>4. Store'
        BY <1>1, <3>3, <4>1, <4>2
      <4>5. QED
        BY <4>s, <4>4
    <3>7. QED
      BY <2>4, <3>4, <3>5, <3>6
  <2>5. CASE Applied
    <3>1. Stale \subseteq StoredPolicy
      BY <1>1 DEF Stale
    <3>2. QED
      BY <1>1, <2>5, <3>1 DEF Applied
  <2>6. CASE SyncEnds \/ SyncDies
    BY <1>1, <1>3, <2>6 DEF SyncEnds, SyncDies, Fails
  <2>7. CASE Time \/ EditModel
    BY <1>1, <2>7 DEF Time, EditModel
  <2>8. ASSUME NEW p \in Policy, Insert(p), sync' = sync, settled' \in {settled, {}}
        PROVE  Store' /\ sync' \in Sync
    BY <1>1, <1>5, <2>8 DEF Insert
  <2>9. ASSUME NEW x \in BootRes, Bootstrap(x) PROVE Store' /\ sync' \in Sync
    <3>1. [name |-> 1000 + AccessName[x], type |-> 0, res |-> x, owner |-> "boot", users |-> {}] \in Policy
      BY OthersAssumption, NamesAssumption DEF Policy
    <3>2. QED
      BY <2>8, <2>9, <3>1 DEF Bootstrap
  <2>10. ASSUME NEW p \in Foreign, AddForeign(p) PROVE Store' /\ sync' \in Sync
    <3>1. p \in Policy
      BY OthersAssumption DEF Policy
    <3>2. QED
      BY <2>8, <2>10, <3>1 DEF AddForeign
  <2>11. ASSUME NEW p \in server, DropManaged(p) PROVE Store' /\ sync' \in Sync
    BY <1>1, <2>11 DEF DropManaged
  <2>12. CASE UNCHANGED rangerVars
    BY <1>1, <2>12 DEF rangerVars
  <2>13. QED
    BY <2>1, <2>2, <2>3, <2>4, <2>5, <2>6, <2>7, <2>9, <2>10, <2>11, <2>12
       DEF RangerNext, Step, Others
<1>8. QED
  BY <1>2, <1>6, <1>7

\* Editions are constants.
LEMMA SameEditions ==
  ASSUME NEW m \in DOMAIN Models, m <= edition', \A o \in sync'.desired : OfEdition(o, m),
         \A o \in Ours(server' \cup sync'.existing) :
           \E n \in DOMAIN Models : n <= m /\ OfEdition(o, n)
  PROVE  EditionsKnown'
  BY DEF EditionsKnown, Ours, OfEdition, Granted, Wanted

\* A step of the sync that changes nothing in Ranger, or one of somebody else's, but what
\* the sync applies and the listing are the same.
LEMMA Rests ==
  ASSUME SyncIInv, UNCHANGED <<server, ids, settled>>,
         edition \in Nat, edition' \in Nat, edition <= edition',
         sync'.desired = sync.desired, sync'.existing = sync.existing,
         sync'.pc = "off" <=> sync.pc = "off",
         sync'.pc \in {"service", "users", "list", "purge"} => sync'.at = 0 /\ sync'.consumed = {}
  PROVE  EditionsKnown' /\ ServerKnown' /\ DesiredKnown' /\ ListedKnown' /\ SettledKnown'
<1>1. EditionsKnown'
  <2>1. PICK m \in DOMAIN Models :
          /\ m <= edition
          /\ \A p \in sync.desired : OfEdition(p, m)
          /\ \A q \in Ours(server \cup sync.existing) :
               \E n \in DOMAIN Models : n <= m /\ OfEdition(q, n)
    BY DEF SyncIInv, EditionsKnown
  <2>2. m <= edition'
    BY <2>1, ModelAssumption
  <2>3. QED
    BY <2>1, <2>2 DEF EditionsKnown, Ours, OfEdition, Granted, Wanted
<1>2. ServerKnown'
  BY DEF SyncIInv, ServerKnown, Bootstraps
<1>3. DesiredKnown'
  BY DEF SyncIInv, DesiredKnown, BootGranted
<1>4. ListedKnown'
  BY DEF SyncIInv, ListedKnown
<1>5. SettledKnown'
  BY DEF SyncIInv, SettledKnown, InForce, Projection, Ours, Bootstraps
<1>6. QED
  BY <1>1, <1>2, <1>3, <1>4, <1>5

\* The sync does not take anything but the bootstrap policies and those that are stale.
LEMMA Removes ==
  ASSUME SyncIInv, RangerTypeOK', NEW q \in sync.todo, sync.pc \in {"purge", "again", "remove"},
         q \in server, server' = server \ {q}, sync' = [sync EXCEPT !.todo = @ \ {q}],
         UNCHANGED <<edition, ids, settled>>
  PROVE  SyncIInv' /\ settled = {}
<1>1. /\ sync'.pc = sync.pc /\ sync'.desired = sync.desired /\ sync'.existing = sync.existing
      /\ sync'.at = sync.at /\ sync'.consumed = sync.consumed /\ sync'.todo = sync.todo \ {q}
  BY DEF SyncIInv, RangerTypeOK
<1>2. \A p \in sync.desired : p.owner = "ours"
  BY DEF SyncIInv, DesiredKnown
<1>3. EditionsKnown'
  <2>1. PICK m \in DOMAIN Models :
          /\ m <= edition
          /\ \A p \in sync.desired : OfEdition(p, m)
          /\ \A o \in Ours(server \cup sync.existing) :
               \E n \in DOMAIN Models : n <= m /\ OfEdition(o, n)
    BY DEF SyncIInv, EditionsKnown
  <2>2. Ours(server' \cup sync.existing) \subseteq Ours(server \cup sync.existing)
    BY DEF Ours
  <2>3. QED
    BY <1>1, <2>1, <2>2 DEF EditionsKnown, Ours, OfEdition, Granted, Wanted
<1>4. ServerKnown'
  BY DEF SyncIInv, ServerKnown, Bootstraps
<1>5. DesiredKnown' /\ ListedKnown'
  BY <1>1 DEF SyncIInv, DesiredKnown, ListedKnown, BootGranted
<1>6. settled = {}
  <2> SUFFICES ASSUME settled # {} PROVE FALSE
    OBVIOUS
  <2>1. CASE sync.pc = "remove"
    <3>1. q.owner = "ours" /\ \A p \in sync.desired : p.name # q.name
      BY <2>1 DEF SyncIInv, RemoveKnown
    <3>2. Projection(q) \in sync.desired
      BY <2>1, <3>1 DEF SyncIInv, SettledKnown, Ours
    <3>3. QED
      BY <3>1, <3>2 DEF Projection
  <2>2. CASE sync.pc \in {"purge", "again"}
    BY <2>2 DEF SyncIInv, SettledKnown, ApplyKnown, Bootstraps
  <2>3. QED
    BY <2>1, <2>2
<1>7. ApplyKnown'
  <2> SUFFICES ASSUME sync.pc \in {"purge", "again"} PROVE ApplyKnown'
    BY <1>1 DEF ApplyKnown
  <2>1. q.owner = "boot" /\ q \notin sync.existing
    BY DEF SyncIInv, ApplyKnown, ListedKnown
  <2>2. Behind' = Behind /\ Behind \subseteq sync.desired
    BY <1>1 DEF Behind
  <2>3. \A p \in Behind : InForce(p) => InForce(p)'
    BY <1>2, <2>1, <2>2 DEF InForce, Projection
  <2>4. QED
    BY <1>1, <2>1, <2>2, <2>3 DEF SyncIInv, ApplyKnown, Ours, Projection
<1>8. RemoveKnown'
  <2> SUFFICES ASSUME sync.pc = "remove" PROVE RemoveKnown'
    BY <1>1 DEF RemoveKnown
  <2>1. \A p \in sync.desired : p.name # q.name
    BY DEF SyncIInv, RemoveKnown
  <2>2. \A p \in sync.desired : InForce(p) => InForce(p)'
    BY <2>1 DEF InForce, Projection
  <2>3. QED
    BY <1>1, <2>2 DEF SyncIInv, RemoveKnown, Ours, Projection
<1>9. SettledKnown'
  BY <1>6 DEF SettledKnown
<1>10. QED
  BY <1>3, <1>4, <1>5, <1>6, <1>7, <1>8, <1>9 DEF SyncIInv

\* Others add a policy of their own.
LEMMA Inserts ==
  ASSUME SyncIInv, RangerTypeOK', NEW p \in Policy, p.owner # "ours", Insert(p), sync' = sync,
         edition' = edition,
         p.owner = "boot" => p.type = 0 /\ p.res \in BootRes /\ p.users = {},
         p.owner # "boot" => \A q \in server : q.name # p.name,
         (settled' = settled /\ p.owner = "other") \/ settled' = {}
  PROVE  SyncIInv'
<1>1. ids \in Nat /\ \A q \in server : q.id \in 1..ids
  BY DEF SyncIInv, RangerTypeOK, ServerKnown
<1>2. /\ ids' = ids + 1 /\ server' = server \cup {Stored(p, ids')}
      /\ server' = {q \in server : q.id # ids'} \cup {Stored(p, ids')}
  BY <1>1 DEF Insert
<1>3. ~Taken(p, ids')
  <2>1. \A q \in server : q.id # 0
    BY <1>1
  <2>2. QED
    BY <2>1 DEF Insert, Taken
<1>4. ServerKnown'
  <2>1. ids' \in Nat /\ ids <= ids' /\ ids' \in 1..ids'
    BY <1>1, <1>2
  <2>2. RangerTypeOK /\ ServerKnown
    BY DEF SyncIInv
  <2>3. QED
    BY <1>2, <1>3, <2>1, <2>2, Stores
<1> DEFINE s == Stored(p, ids')
<1>5. s.owner = p.owner
  BY DEF Stored
<1> HIDE DEF s
<1>6. server' = server \cup {s}
  BY <1>2 DEF s
<1>7. Ours(server') = Ours(server) /\ Ours(server' \cup sync.existing) = Ours(server \cup sync.existing)
  BY <1>5, <1>6 DEF Ours
<1>8. EditionsKnown'
  BY <1>7 DEF SyncIInv, EditionsKnown, Ours, OfEdition, Granted, Wanted
<1>9. DesiredKnown' /\ ListedKnown'
  BY <1>1, <1>2 DEF SyncIInv, DesiredKnown, ListedKnown, BootGranted
<1>10. \A o : InForce(o) => InForce(o)'
  BY <1>6 DEF InForce, Projection
<1>11. ApplyKnown'
  <2>1. Behind' = Behind
    BY DEF Behind
  <2>2. QED
    BY <1>6, <1>7, <1>10, <2>1 DEF SyncIInv, ApplyKnown, Ours, Projection
<1>12. RemoveKnown'
  BY <1>7, <1>10 DEF SyncIInv, RemoveKnown, Ours, Projection
<1>13. SettledKnown'
  <2>1. CASE settled' = {}
    BY <2>1 DEF SettledKnown
  <2>2. CASE settled' = settled /\ p.owner = "other"
    <3>1. Bootstraps' = Bootstraps
      BY <1>5, <1>6, <2>2 DEF Bootstraps
    <3>2. QED
      BY <1>7, <1>10, <2>2, <3>1 DEF SyncIInv, SettledKnown, Ours, Projection
  <2>3. QED
    BY <2>1, <2>2
<1>14. QED
  BY <1>4, <1>8, <1>9, <1>11, <1>12, <1>13 DEF SyncIInv

\* A sync begins: what it compiles is of the edition in force.
LEMMA BeginInv ==
  ASSUME SyncIInv, RangerTypeOK', SyncBegins
  PROVE  SyncIInv'
<1>1. /\ sync'.pc = "service" /\ sync'.desired = Desired /\ sync'.existing = {} /\ sync'.at = 0
      /\ sync'.consumed = {} /\ sync'.todo = {} /\ UNCHANGED <<edition, server, ids>>
  BY DEF SyncBegins, Off, world
<1>2. /\ \A p \in Desired : p.owner = "ours" /\ p.name > 0 /\ OfEdition(p, edition)
      /\ \A p, q \in Desired : p.name = q.name => p = q
      /\ BootGranted => \A x \in BootRes : \E p \in Desired : p.type = 0 /\ p.res = x
  BY Compiled DEF SyncIInv
<1>3. EditionsKnown'
  <2>1. PICK m \in DOMAIN Models :
          /\ m <= edition
          /\ \A o \in Ours(server \cup sync.existing) :
               \E n \in DOMAIN Models : n <= m /\ OfEdition(o, n)
    BY DEF SyncIInv, EditionsKnown
  <2>2. PICK e \in DOMAIN Models : e = edition /\ e \in Nat /\ m \in Nat
    BY ModelAssumption DEF SyncIInv, RangerTypeOK
  <2>3. \A q \in Ours(server) : \E n \in DOMAIN Models : n <= e /\ OfEdition(q, n)
    BY <2>1, <2>2, ModelAssumption DEF Ours
  <2>4. Ours(server' \cup sync'.existing) = Ours(server)
    BY <1>1
  <2>5. \A p : \A n \in DOMAIN Models : OfEdition(p, n)' <=> OfEdition(p, n)
    BY DEF OfEdition, Granted, Wanted
  <2>6. \A p \in sync'.desired : OfEdition(p, e)'
    BY <1>1, <1>2, <2>2, <2>5
  <2>7. \A q \in Ours(server' \cup sync'.existing) :
           \E n \in DOMAIN Models : n <= e /\ OfEdition(q, n)'
    BY <2>3, <2>4, <2>5
  <2>8. e <= edition'
    BY <1>1, <2>2
  <2>9. QED
    BY <2>6, <2>7, <2>8 DEF EditionsKnown, Ours
<1>4. ServerKnown'
  BY <1>1 DEF SyncIInv, ServerKnown, Bootstraps
<1>5. DesiredKnown' /\ ListedKnown'
  BY <1>1, <1>2 DEF DesiredKnown, ListedKnown, BootGranted
<1>6. ApplyKnown' /\ RemoveKnown'
  BY <1>1 DEF ApplyKnown, RemoveKnown
<1>7. SettledKnown'
  <2>1. CASE settled' = {}
    BY <2>1 DEF SettledKnown
  <2>2. CASE settled' = settled /\ settled = Desired
    BY <1>1, <2>2 DEF SyncIInv, SettledKnown, InForce, Projection, Ours, Bootstraps
  <2>3. QED
    BY <2>1, <2>2 DEF SyncBegins
<1>8. QED
  BY <1>3, <1>4, <1>5, <1>6, <1>7 DEF SyncIInv

\* Before and after the purge nothing that the invariant speaks of changes.
LEMMA PrepareInv ==
  ASSUME SyncIInv, RangerTypeOK', EnsureService \/ EnsureUsers \/ Purged
  PROVE  SyncIInv'
<1>1. /\ UNCHANGED <<edition, server, ids, settled>>
      /\ sync'.desired = sync.desired /\ sync'.existing = sync.existing /\ sync'.at = sync.at
      /\ sync'.consumed = sync.consumed /\ sync'.todo = sync.todo
      /\ \/ sync.pc = "service" /\ sync'.pc = "users"
         \/ sync.pc = "users" /\ sync'.pc = "list"
         \/ sync.pc = "purge" /\ sync'.pc = "apply"
  BY DEF SyncIInv, RangerTypeOK, EnsureService, EnsureUsers, Purged, world
<1>2. edition \in Nat /\ edition' \in Nat /\ edition <= edition'
  BY <1>1, ModelAssumption DEF SyncIInv, RangerTypeOK
<1>3. sync'.pc \in {"service", "users", "list", "purge"} => sync'.at = 0 /\ sync'.consumed = {}
  BY <1>1 DEF SyncIInv, DesiredKnown
<1>4. EditionsKnown' /\ ServerKnown' /\ DesiredKnown' /\ ListedKnown' /\ SettledKnown'
  BY <1>1, <1>2, <1>3, Rests
<1>5. ApplyKnown' /\ RemoveKnown'
  BY <1>1 DEF SyncIInv, ApplyKnown, RemoveKnown, Behind, InForce, Projection, Ours
<1>6. QED
  BY <1>4, <1>5 DEF SyncIInv

\* The listing: nothing is behind the sync yet, and everything is as it was listed.
LEMMA ListInv ==
  ASSUME SyncIInv, RangerTypeOK', ListPolicies
  PROVE  SyncIInv'
<1>1. /\ UNCHANGED <<edition, server, ids, settled>>
      /\ sync.pc = "list" /\ sync'.pc = "purge" /\ sync'.desired = sync.desired
      /\ sync'.existing = server \ Bootstraps /\ sync'.todo = Bootstraps
      /\ sync'.at = 0 /\ sync'.consumed = {}
  BY DEF SyncIInv, RangerTypeOK, DesiredKnown, ListPolicies, world
<1>2. \A q \in server \ Bootstraps : q.owner # "boot"
  BY DEF Bootstraps
<1>3. EditionsKnown'
  <2>1. PICK m \in DOMAIN Models :
          /\ m <= edition
          /\ \A p \in sync.desired : OfEdition(p, m)
          /\ \A o \in Ours(server \cup sync.existing) :
               \E n \in DOMAIN Models : n <= m /\ OfEdition(o, n)
    BY DEF SyncIInv, EditionsKnown
  <2>2. Ours(server' \cup sync'.existing) \subseteq Ours(server \cup sync.existing)
    BY <1>1 DEF Ours
  <2>3. QED
    BY <1>1, <2>1, <2>2 DEF EditionsKnown, Ours, OfEdition, Granted, Wanted
<1>4. ServerKnown'
  BY <1>1 DEF SyncIInv, ServerKnown, Bootstraps
<1>5. DesiredKnown'
  BY <1>1 DEF SyncIInv, DesiredKnown, BootGranted
<1>6. ListedKnown'
  BY <1>1, <1>2 DEF SyncIInv, ListedKnown, ServerKnown
<1>7. ApplyKnown'
  <2>1. Behind' = {}
    BY <1>1 DEF SyncIInv, DesiredKnown, Behind, RangerTypeOK, Policy
  <2>2. \A q \in Bootstraps : q.owner = "boot"
    BY DEF Bootstraps
  <2>3. \A q \in Ours(server) : q \in server \ Bootstraps
    BY DEF Ours, Bootstraps
  <2>4. QED
    BY <1>1, <2>1, <2>2, <2>3 DEF ApplyKnown, Ours
<1>8. RemoveKnown'
  BY <1>1 DEF RemoveKnown
<1>9. SettledKnown'
  BY <1>1 DEF SyncIInv, SettledKnown, InForce, Projection, Ours, Bootstraps
<1>10. QED
  BY <1>3, <1>4, <1>5, <1>6, <1>7, <1>8, <1>9 DEF SyncIInv

\* The listing after a conflict finds bootstrap policies alone.
LEMMA ListLateInv ==
  ASSUME SyncIInv, RangerTypeOK', ListLate
  PROVE  SyncIInv'
<1>1. CASE Fails
  BY <1>1, SyncStops DEF SyncIInv, ListLate, Fails, world
<1>2. CASE sync' = [sync EXCEPT !.pc = "again", !.todo = Bootstraps]
  <2>1. /\ UNCHANGED <<edition, server, ids, settled>>
        /\ sync'.desired = sync.desired /\ sync'.existing = sync.existing /\ sync'.at = sync.at
        /\ sync'.consumed = sync.consumed /\ sync'.todo = Bootstraps
        /\ sync.pc = "conflict" /\ sync'.pc = "again"
    BY <1>2 DEF SyncIInv, RangerTypeOK, ListLate, world
  <2>2. edition \in Nat /\ edition' \in Nat /\ edition <= edition'
    BY <2>1, ModelAssumption DEF SyncIInv, RangerTypeOK
  <2>3. EditionsKnown' /\ ServerKnown' /\ DesiredKnown' /\ ListedKnown' /\ SettledKnown'
    BY <2>1, <2>2, Rests
  <2>4. ApplyKnown' /\ RemoveKnown'
    BY <2>1 DEF SyncIInv, ApplyKnown, RemoveKnown, Behind, InForce, Projection, Ours, Bootstraps
  <2>5. QED
    BY <2>3, <2>4 DEF SyncIInv
<1>3. QED
  BY <1>1, <1>2 DEF ListLate

\* A policy is deleted: a bootstrap policy, or a stale one that the model does not want. After a
\* settled sync with the same model there is none.
LEMMA DeleteInv ==
  ASSUME SyncIInv, RangerTypeOK', NEW q \in sync.todo, Purge(q) \/ Remove(q)
  PROVE  SyncIInv' /\ (settled # {} => server' = server)
<1>1. /\ sync.pc \in {"purge", "again", "remove"} /\ UNCHANGED <<edition, ids, settled>>
      /\ DeletePolicy(q)
  BY DEF Purge, Remove, world
<1>2. CASE q \in server
  BY <1>1, <1>2, Removes DEF DeletePolicy
<1>3. CASE q \notin server
  BY <1>1, <1>3, SyncStops DEF SyncIInv, DeletePolicy, Fails
<1>4. QED
  BY <1>2, <1>3

\* A policy is created; after a settled sync with the same model none is.
LEMMA CreateInv ==
  ASSUME SyncIInv, Orderly, RangerTypeOK', NEW p \in NextPolicy, Create(p)
  PROVE  SyncIInv' /\ (settled # {} => server' = server)
<1>1. sync.pc \in {"apply", "again"} /\ Current(p) = {} /\ UNCHANGED <<edition, settled>>
  BY DEF Create, world
<1>2. settled = {}
  BY <1>1, NothingToDo
<1>3. CASE sync' = Off /\ UNCHANGED <<server, ids>>
  BY <1>1, <1>3, SyncStops DEF SyncIInv
<1>4. CASE /\ sync.pc = "apply" /\ sync' = [sync EXCEPT !.pc = "conflict"]
           /\ UNCHANGED <<server, ids>>
  <2>1. /\ sync'.desired = sync.desired /\ sync'.existing = sync.existing /\ sync'.at = sync.at
        /\ sync'.consumed = sync.consumed /\ sync'.todo = sync.todo
        /\ sync.pc = "apply" /\ sync'.pc = "conflict"
    BY <1>4 DEF SyncIInv, RangerTypeOK
  <2>2. edition \in Nat /\ edition' \in Nat /\ edition <= edition'
    BY <1>1, ModelAssumption DEF SyncIInv, RangerTypeOK
  <2>3. EditionsKnown' /\ ServerKnown' /\ DesiredKnown' /\ ListedKnown' /\ SettledKnown'
    BY <1>1, <1>4, <2>1, <2>2, Rests
  <2>4. ApplyKnown' /\ RemoveKnown'
    BY <1>4, <2>1 DEF SyncIInv, ApplyKnown, RemoveKnown, Behind, InForce, Projection, Ours
  <2>5. QED
    BY <1>2, <2>3, <2>4 DEF SyncIInv
<1>5. CASE /\ Accepted(p, 0) /\ ids' = ids + 1 /\ server' = server \cup {Stored(p, ids + 1)}
           /\ sync' = [sync EXCEPT !.pc = "apply", !.at = p.name]
  <2>1. /\ sync'.pc = "apply" /\ sync'.desired = sync.desired /\ sync'.existing = sync.existing
        /\ sync'.at = p.name /\ sync'.consumed = sync.consumed /\ sync'.todo = sync.todo
        /\ sync' \in [pc : {"apply"}, desired : {sync.desired}, existing : {sync.existing},
                      at : {p.name}, consumed : {sync.consumed}, todo : {sync.todo}]
    BY <1>5 DEF SyncIInv, RangerTypeOK
  <2>2. /\ p \in sync.desired /\ p \in Policy /\ p.owner = "ours"
        /\ ids \in Nat /\ \A q \in server : q.id \in 1..ids
    BY Advances DEF SyncIInv, RangerTypeOK, ServerKnown, DesiredKnown
  <2>3. /\ ids + 1 \in 1..ids' /\ ids' \in Nat /\ ids <= ids'
        /\ \A q \in server : q.id # ids + 1 /\ q.id # 0
    BY <1>5, <2>2
  <2>4. server' = {q \in server : q.id # ids + 1} \cup {Stored(p, ids + 1)}
    BY <1>5, <2>3
  <2>5. ~Taken(p, ids + 1) /\ \A q \in server : q.name # p.name
    BY <1>5, <2>3 DEF Accepted, Taken
  <2>6. ServerKnown' /\ Projection(Stored(p, ids + 1)) = p
    BY <2>2, <2>3, <2>4, <2>5, Stores DEF SyncIInv
  <2>7. ApplyKnown'
    <3>1. PICK U : U = {}
      OBVIOUS
    <3>2. sync' \in [pc : {"apply"}, desired : {sync.desired}, existing : {sync.existing},
                     at : {p.name}, consumed : {sync.consumed \cup {u.id : u \in U}},
                     todo : {sync.todo}]
      BY <2>1, <3>1
    <3>3. server' = (server \ U) \cup {Stored(p, ids + 1)} /\ U \subseteq Current(p)
      BY <1>5, <3>1
    <3>4. QED
      BY <1>1, <2>6, <3>2, <3>3, Applies
  <2>8. EditionsKnown'
    <3>1. PICK m \in DOMAIN Models :
            /\ m <= edition
            /\ \A o \in sync.desired : OfEdition(o, m)
            /\ \A o \in Ours(server \cup sync.existing) :
                 \E n \in DOMAIN Models : n <= m /\ OfEdition(o, n)
      BY DEF SyncIInv, EditionsKnown
    <3>2. OfEdition(Stored(p, ids + 1), m) /\ m <= m /\ m <= edition'
      BY <1>1, <2>2, <3>1, ModelAssumption DEF OfEdition, Stored
    <3>3. \A o \in Ours(server' \cup sync'.existing) :
             o = Stored(p, ids + 1) \/ o \in Ours(server \cup sync.existing)
      BY <1>5, <2>1 DEF Ours
    <3>4. \A o \in Ours(server' \cup sync'.existing) :
             \E n \in DOMAIN Models : n <= m /\ OfEdition(o, n)
      BY <3>1, <3>2, <3>3
    <3>5. QED
      BY <2>1, <3>1, <3>2, <3>4, SameEditions
  <2>9. DesiredKnown' /\ ListedKnown' /\ RemoveKnown' /\ SettledKnown'
    <3>1. ListedKnown'
      BY <2>1, <2>2, <2>3 DEF SyncIInv, ListedKnown
    <3>2. DesiredKnown'
      BY <1>1, <2>1 DEF SyncIInv, DesiredKnown, BootGranted
    <3>3. QED
      BY <1>1, <1>2, <2>1, <3>1, <3>2 DEF RemoveKnown, SettledKnown
  <2>10. QED
    BY <1>2, <2>6, <2>7, <2>8, <2>9 DEF SyncIInv
<1>6. QED
  BY <1>1, <1>3, <1>4, <1>5 DEF Create, Fails

\* A policy that is in force already is kept.
LEMMA KeepInv ==
  ASSUME SyncIInv, Orderly, RangerTypeOK', NEW p \in NextPolicy, KeepPolicy(p)
  PROVE  SyncIInv'
<1>1. PICK q \in Current(p) : /\ Projection(q) = p
                              /\ sync' = [sync EXCEPT !.at = p.name, !.consumed = @ \cup {q.id}]
  BY DEF KeepPolicy
<1>2. /\ sync.pc = "apply" /\ UNCHANGED <<edition, server, ids, settled>>
      /\ sync'.pc = "apply" /\ sync'.desired = sync.desired /\ sync'.existing = sync.existing
      /\ sync'.at = p.name /\ sync'.consumed = sync.consumed \cup {q.id} /\ sync'.todo = sync.todo
      /\ sync' \in [pc : {"apply"}, desired : {sync.desired}, existing : {sync.existing},
                    at : {p.name}, consumed : {sync.consumed \cup {q.id}}, todo : {sync.todo}]
  BY <1>1 DEF SyncIInv, RangerTypeOK, KeepPolicy, world
<1>3. q \in server
  BY <1>2, Fresh
<1>4. ApplyKnown'
  <2>1. PICK U : U = {q}
    OBVIOUS
  <2>2. {u.id : u \in U} = {q.id} /\ server' = (server \ U) \cup {q}
    BY <1>2, <1>3, <2>1
  <2>3. U \subseteq Current(p) /\ U # {}
    BY <2>1
  <2>4. sync' \in [pc : {"apply"}, desired : {sync.desired}, existing : {sync.existing},
                   at : {p.name}, consumed : {sync.consumed \cup {u.id : u \in U}},
                   todo : {sync.todo}]
    BY <1>2, <2>2
  <2>5. QED
    BY <1>1, <1>2, <2>2, <2>3, <2>4, Applies
<1>5. edition \in Nat /\ edition' \in Nat /\ edition <= edition'
  BY <1>2, ModelAssumption DEF SyncIInv, RangerTypeOK
<1>6. EditionsKnown' /\ ServerKnown' /\ DesiredKnown' /\ ListedKnown' /\ SettledKnown'
  BY <1>2, <1>5, Rests
<1>7. RemoveKnown'
  BY <1>2 DEF RemoveKnown
<1>8. QED
  BY <1>4, <1>6, <1>7 DEF SyncIInv

\* A policy replaces one that nobody has replaced before it (Fresh).
LEMMA UpdateInv ==
  ASSUME SyncIInv, Orderly, RangerTypeOK', NEW p \in NextPolicy, Update(p)
  PROVE  SyncIInv' /\ settled = {}
<1>1. sync.pc = "apply" /\ UNCHANGED <<edition, ids, settled>>
  BY DEF Update, world
<1>2. PICK q \in Current(p) :
        /\ Projection(q) # p
        /\ IF Accepted(p, q.id) /\ \E s \in server : s.id = q.id
           THEN /\ server' = {s \in server : s.id # q.id} \cup {Stored(p, q.id)}
                /\ sync' = [sync EXCEPT !.at = p.name, !.consumed = @ \cup {q.id}]
           ELSE Fails /\ UNCHANGED server
  BY DEF Update
<1>3. settled = {}
  <2> SUFFICES ASSUME settled # {} PROVE FALSE
    OBVIOUS
  <2>1. PICK o \in server : Projection(o) = p /\ Current(p) = {o}
    BY <1>1, NothingToDo
  <2>2. QED
    BY <1>2, <2>1
<1>4. q \in server /\ q.id \notin sync.consumed
  BY <1>1, Fresh
<1>5. CASE Fails /\ UNCHANGED server
  BY <1>1, <1>3, <1>5, SyncStops DEF SyncIInv, Fails
<1>6. CASE /\ Accepted(p, q.id)
           /\ server' = {s \in server : s.id # q.id} \cup {Stored(p, q.id)}
           /\ sync' = [sync EXCEPT !.at = p.name, !.consumed = @ \cup {q.id}]
  <2>1. /\ sync'.pc = "apply" /\ sync'.desired = sync.desired /\ sync'.existing = sync.existing
        /\ sync'.at = p.name /\ sync'.consumed = sync.consumed \cup {q.id} /\ sync'.todo = sync.todo
        /\ sync' \in [pc : {"apply"}, desired : {sync.desired}, existing : {sync.existing},
                      at : {p.name}, consumed : {sync.consumed \cup {q.id}}, todo : {sync.todo}]
    BY <1>1, <1>6 DEF SyncIInv, RangerTypeOK
  <2>2. /\ p \in sync.desired /\ p \in Policy /\ p.owner = "ours"
        /\ ids \in Nat /\ \A s \in server : s.id \in 1..ids
        /\ \A x, y \in server : x.id = y.id => x = y
    BY Advances DEF SyncIInv, RangerTypeOK, ServerKnown, DesiredKnown
  <2>3. q.id \in 1..ids' /\ ids' \in Nat /\ ids <= ids'
    BY <1>1, <1>4, <2>2
  <2>4. ~Taken(p, q.id) /\ \A s \in server : s.id # q.id => s.name # p.name
    BY <1>6 DEF Accepted
  <2>5. ServerKnown' /\ Projection(Stored(p, q.id)) = p
    BY <1>6, <2>2, <2>3, <2>4, Stores DEF SyncIInv
  <2>6. ApplyKnown'
    <3>1. PICK U : U = {q}
      OBVIOUS
    <3>2. {u.id : u \in U} = {q.id} /\ server' = (server \ U) \cup {Stored(p, q.id)}
      <4>1. {s \in server : s.id # q.id} = server \ {q}
        BY <1>4, <2>2
      <4>2. QED
        BY <1>6, <3>1, <4>1
    <3>3. U \subseteq Current(p) /\ U # {}
      BY <3>1
    <3>4. sync' \in [pc : {"apply"}, desired : {sync.desired}, existing : {sync.existing},
                     at : {p.name}, consumed : {sync.consumed \cup {u.id : u \in U}},
                     todo : {sync.todo}]
      BY <2>1, <3>2
    <3>5. QED
      BY <1>1, <2>5, <3>2, <3>3, <3>4, Applies
  <2>7. EditionsKnown'
    <3>1. PICK m \in DOMAIN Models :
            /\ m <= edition
            /\ \A o \in sync.desired : OfEdition(o, m)
            /\ \A o \in Ours(server \cup sync.existing) :
                 \E n \in DOMAIN Models : n <= m /\ OfEdition(o, n)
      BY DEF SyncIInv, EditionsKnown
    <3>2. OfEdition(Stored(p, q.id), m) /\ m <= m /\ m <= edition'
      BY <1>1, <2>2, <3>1, ModelAssumption DEF OfEdition, Stored
    <3>3. \A o \in Ours(server' \cup sync'.existing) :
             o = Stored(p, q.id) \/ o \in Ours(server \cup sync.existing)
      BY <1>6, <2>1 DEF Ours
    <3>4. \A o \in Ours(server' \cup sync'.existing) :
             \E n \in DOMAIN Models : n <= m /\ OfEdition(o, n)
      BY <3>1, <3>2, <3>3
    <3>5. QED
      BY <2>1, <3>1, <3>2, <3>4, SameEditions
  <2>8. DesiredKnown' /\ ListedKnown'
    BY <1>1, <2>1 DEF SyncIInv, DesiredKnown, ListedKnown, BootGranted
  <2>9. RemoveKnown' /\ SettledKnown'
    BY <1>1, <1>3, <2>1 DEF RemoveKnown, SettledKnown
  <2>10. QED
    BY <1>3, <2>5, <2>6, <2>7, <2>8, <2>9 DEF SyncIInv
<1>7. QED
  BY <1>2, <1>5, <1>6

\* All policies are applied: what the sync removes now is what none of them has reused.
LEMMA AppliedInv ==
  ASSUME SyncIInv, RangerTypeOK', Applied
  PROVE  SyncIInv'
<1>1. /\ sync.pc = "apply" /\ NextPolicy = {} /\ UNCHANGED <<edition, server, ids, settled>>
      /\ sync'.pc = "remove" /\ sync'.desired = sync.desired /\ sync'.existing = sync.existing
      /\ sync'.todo = Stale
  BY DEF SyncIInv, RangerTypeOK, Applied, world
<1>2. edition \in Nat /\ edition' \in Nat /\ edition <= edition'
  BY <1>1, ModelAssumption DEF SyncIInv, RangerTypeOK
<1>3. EditionsKnown' /\ ServerKnown' /\ DesiredKnown' /\ ListedKnown' /\ SettledKnown'
  BY <1>1, <1>2, Rests
<1>4. Behind = sync.desired
  BY <1>1, Exhausted DEF SyncIInv
<1>5. RemoveKnown'
  <2>1. \A p \in sync.desired : InForce(p)'
    BY <1>1, <1>4 DEF SyncIInv, ApplyKnown, InForce, Projection
  <2>2. \A q \in Ours(server) : q \in Stale \/ Projection(q) \in sync.desired
    BY <1>1, <1>4 DEF SyncIInv, ApplyKnown, Stale, Ours
  <2>3. \A q \in Stale : q.owner = "ours" /\ \A p \in sync.desired : p.name # q.name
    BY DEF Stale
  <2>4. QED
    BY <1>1, <2>1, <2>2, <2>3 DEF RemoveKnown, Ours, Projection
<1>6. ApplyKnown'
  BY <1>1 DEF ApplyKnown
<1>7. QED
  BY <1>3, <1>5, <1>6 DEF SyncIInv

\* What a sync leaves is what it wanted; the policies of its own that Ranger would add have
\* resources that are taken.
LEMMA EndInv ==
  ASSUME SyncIInv, BootGranted, RangerTypeOK', SyncEnds
  PROVE  SyncIInv'
<1>1. /\ sync.pc = "remove" /\ sync.todo = {} /\ UNCHANGED <<edition, server, ids>>
      /\ sync' = Off /\ settled' = sync.desired
  BY DEF SyncEnds, world
<1>2. EditionsKnown' /\ ServerKnown' /\ DesiredKnown' /\ ListedKnown' /\ ApplyKnown' /\ RemoveKnown'
  BY <1>1, SyncStops
<1>3. /\ \A p \in sync.desired : InForce(p)
      /\ \A q \in Ours(server) : Projection(q) \in sync.desired
  BY <1>1 DEF SyncIInv, RemoveKnown
<1>4. Bootstraps = {}
  <2> SUFFICES ASSUME NEW q \in Bootstraps PROVE FALSE
    OBVIOUS
  <2>1. q \in server /\ q.owner = "boot" /\ q.type = 0 /\ q.res \in BootRes
    BY DEF Bootstraps, SyncIInv, ServerKnown
  <2>2. PICK p \in sync.desired : p.type = 0 /\ p.res = q.res
    BY <1>1, <2>1 DEF SyncIInv, DesiredKnown
  <2>3. PICK s \in server : Projection(s) = p
    BY <1>3 DEF InForce
  <2>4. s.type = q.type /\ s.res = q.res /\ s.owner = "ours"
    BY <2>1, <2>2, <2>3 DEF Projection, SyncIInv, DesiredKnown
  <2>5. QED
    BY <2>1, <2>4 DEF SyncIInv, ServerKnown
<1>5. SettledKnown'
  BY <1>1, <1>3, <1>4 DEF SettledKnown, InForce, Projection, Ours, Bootstraps, Off
<1>6. QED
  BY <1>2, <1>5 DEF SyncIInv

\* Time passes or the model is edited: what runs goes on with what it has compiled.
LEMMA ModelInv ==
  ASSUME SyncIInv, RangerTypeOK', Time \/ EditModel
  PROVE  SyncIInv'
<1>1. UNCHANGED <<server, ids, settled, sync>> /\ (edition' = edition \/ edition' = edition + 1)
  BY DEF Time, EditModel
<1>2. edition \in Nat /\ edition' \in Nat /\ edition <= edition'
  BY <1>1, ModelAssumption DEF SyncIInv, RangerTypeOK
<1>3. sync'.pc \in {"service", "users", "list", "purge"} => sync'.at = 0 /\ sync'.consumed = {}
  BY <1>1 DEF SyncIInv, DesiredKnown
<1>4. EditionsKnown' /\ ServerKnown' /\ DesiredKnown' /\ ListedKnown' /\ SettledKnown'
  BY <1>1, <1>2, <1>3, Rests
<1>5. ApplyKnown' /\ RemoveKnown'
  BY <1>1 DEF SyncIInv, ApplyKnown, RemoveKnown, Behind, InForce, Projection, Ours
<1>6. QED
  BY <1>4, <1>5 DEF SyncIInv

\* Ranger creates a policy of its own, which has no users.
LEMMA BootstrapInv ==
  ASSUME SyncIInv, RangerTypeOK', NEW x \in BootRes, Bootstrap(x)
  PROVE  SyncIInv'
<1> DEFINE b == [name |-> 1000 + AccessName[x], type |-> 0, res |-> x, owner |-> "boot",
                 users |-> {}]
<1>1. b \in Policy
  BY OthersAssumption, NamesAssumption DEF Policy
<1>2. Insert(b) /\ sync' = sync /\ edition' = edition /\ settled' = {}
  BY DEF Bootstrap
<1>3. b.owner = "boot" /\ b.type = 0 /\ b.res \in BootRes /\ b.users = {}
  OBVIOUS
<1> HIDE DEF b
<1>4. QED
  BY <1>1, <1>2, <1>3, Inserts

\* An operator adds a policy of his own.
LEMMA ForeignInv ==
  ASSUME SyncIInv, RangerTypeOK', NEW p \in Foreign, AddForeign(p)
  PROVE  SyncIInv'
<1>1. p \in Policy /\ p.owner = "other"
  BY OthersAssumption DEF Policy
<1>2. /\ Insert(p) /\ sync' = sync /\ edition' = edition /\ settled' = settled
      /\ \A q \in server : q.name # p.name
  BY DEF AddForeign, world
<1>3. QED
  BY <1>1, <1>2, Inserts

\* A managed policy is deleted by hand, between two syncs.
LEMMA DropInv ==
  ASSUME SyncIInv, RangerTypeOK', NEW q \in server, DropManaged(q)
  PROVE  SyncIInv'
<1>1. /\ sync.pc = "off" /\ server' = server \ {q} /\ settled' = {}
      /\ UNCHANGED <<edition, ids, sync>>
  BY DEF DropManaged, world
<1>2. PICK m \in DOMAIN Models :
        /\ m <= edition
        /\ \A o \in sync.desired : OfEdition(o, m)
        /\ \A o \in Ours(server \cup sync.existing) :
             \E n \in DOMAIN Models : n <= m /\ OfEdition(o, n)
  BY DEF SyncIInv, EditionsKnown
<1>3. Ours(server' \cup sync'.existing) \subseteq Ours(server \cup sync.existing)
  BY <1>1 DEF Ours
<1>4. EditionsKnown'
  BY <1>1, <1>2, <1>3, SameEditions
<1>5. ServerKnown'
  BY <1>1 DEF SyncIInv, ServerKnown, Bootstraps
<1>6. DesiredKnown' /\ ListedKnown'
  BY <1>1 DEF SyncIInv, DesiredKnown, ListedKnown, BootGranted
<1>7. ApplyKnown' /\ RemoveKnown' /\ SettledKnown'
  BY <1>1 DEF ApplyKnown, RemoveKnown, SettledKnown
<1>8. QED
  BY <1>4, <1>5, <1>6, <1>7 DEF SyncIInv

\* Before the first sync there is nothing.
LEMMA SyncInit ==
  RangerInit => SyncIInv
<1> SUFFICES ASSUME RangerInit PROVE SyncIInv
  OBVIOUS
<1>1. RangerTypeOK
  <2>1. /\ edition \in DOMAIN Models /\ lease \in {"early", "active", "over"} /\ service \in BOOLEAN
        /\ ids \in Nat /\ faults \in 0..MaxFaults /\ drift \in 0..MaxDrift
    <3>1. edition = 1 /\ lease = "early" /\ service = FALSE /\ ids = 0 /\ faults = 0 /\ drift = 0
      BY DEF RangerInit
    <3>2. 1 \in DOMAIN Models
      BY ModelAssumption
    <3>3. 0 \in 0..MaxFaults /\ 0 \in 0..MaxDrift
      BY OthersAssumption
    <3>4. QED
      BY <3>1, <3>2, <3>3
  <2>2. registered = {} /\ unborn = BootRes /\ server = {} /\ settled = {} /\ sync = Off
    BY DEF RangerInit
  <2>3. Off \in [pc : {"off"}, desired : {{}}, existing : {{}}, at : {0}, consumed : {{}}, todo : {{}}]
    BY DEF Off
  <2>4. sync \in [pc : {"off", "service", "users", "list", "purge", "apply", "conflict", "again",
                        "remove"},
                  desired : SUBSET Policy, existing : SUBSET StoredPolicy, at : Nat,
                  consumed : SUBSET Nat, todo : SUBSET StoredPolicy]
    BY <2>2, <2>3
  <2>5. QED
    BY <2>1, <2>2, <2>4 DEF RangerTypeOK
<1>2. server = {} /\ sync = Off /\ settled = {} /\ edition = 1
  BY DEF RangerInit
<1>3. EditionsKnown
  BY <1>2, ModelAssumption DEF EditionsKnown, Off, Ours
<1>4. ServerKnown /\ DesiredKnown /\ ListedKnown /\ ApplyKnown /\ RemoveKnown /\ SettledKnown
  BY <1>2 DEF ServerKnown, DesiredKnown, ListedKnown, ApplyKnown, RemoveKnown, SettledKnown, Off,
              Bootstraps
<1>5. QED
  BY <1>1, <1>3, <1>4 DEF SyncIInv

\* Every step keeps the invariant.
LEMMA SyncNext ==
  Orderly /\ BootGranted /\ SyncIInv /\ [RangerNext]_rangerVars => SyncIInv'
<1> SUFFICES ASSUME Orderly, BootGranted, SyncIInv, [RangerNext]_rangerVars PROVE SyncIInv'
  OBVIOUS
<1>1. RangerTypeOK'
  BY SyncTypes DEF SyncIInv
<1>2. CASE SyncBegins
  BY <1>1, <1>2, BeginInv
<1>3. CASE EnsureService \/ EnsureUsers \/ Purged
  BY <1>1, <1>3, PrepareInv
<1>4. CASE ListPolicies
  BY <1>1, <1>4, ListInv
<1>5. CASE ListLate
  BY <1>1, <1>5, ListLateInv
<1>6. CASE \E q \in sync.todo : Purge(q) \/ Remove(q)
  BY <1>1, <1>6, DeleteInv
<1>7. CASE \E p \in NextPolicy : Create(p) \/ KeepPolicy(p) \/ Update(p)
  BY <1>1, <1>7, CreateInv, KeepInv, UpdateInv
<1>8. CASE Applied
  BY <1>1, <1>8, AppliedInv
<1>9. CASE SyncEnds
  BY <1>1, <1>9, EndInv
<1>10. CASE SyncDies
  BY <1>1, <1>10, SyncStops DEF SyncIInv, SyncDies, Fails, world
<1>11. CASE Time \/ EditModel
  BY <1>1, <1>11, ModelInv
<1>12. CASE \E x \in BootRes : Bootstrap(x)
  BY <1>1, <1>12, BootstrapInv
<1>13. CASE \E p \in Foreign : AddForeign(p)
  BY <1>1, <1>13, ForeignInv
<1>14. CASE \E q \in server : DropManaged(q)
  BY <1>1, <1>14, DropInv
<1>15. CASE UNCHANGED rangerVars
  <2>1. UNCHANGED <<edition, server, ids, sync, settled>>
    BY <1>15 DEF rangerVars, world
  <2>2. edition \in Nat
    BY ModelAssumption DEF SyncIInv, RangerTypeOK
  <2>3. EditionsKnown' /\ ServerKnown' /\ DesiredKnown' /\ ListedKnown' /\ SettledKnown'
    BY <2>1, <2>2, Rests DEF SyncIInv, DesiredKnown
  <2>4. ApplyKnown' /\ RemoveKnown'
    BY <2>1 DEF SyncIInv, ApplyKnown, RemoveKnown, Behind, InForce, Projection, Ours
  <2>5. QED
    BY <1>1, <2>3, <2>4 DEF SyncIInv
<1>16. QED
  BY <1>2, <1>3, <1>4, <1>5, <1>6, <1>7, <1>8, <1>9, <1>10, <1>11, <1>12, <1>13, <1>14, <1>15
     DEF RangerNext, Step, Others

\* The inductive invariant of the sync: what is behind it is in force whatever it reuses, and
\* undisturbed policies are those of the last report (RangerAdminClient.sync, ranger.py).
THEOREM SyncInvariant ==
  ASSUME Orderly, BootGranted
  PROVE  RangerSpec => []SyncIInv
<1>1. SyncIInv /\ [RangerNext]_rangerVars => SyncIInv'
  BY SyncNext
<1>2. QED
  BY <1>1, SyncInit, PTL DEF RangerSpec

\* Where the guards sort before the access policies, no request of a sync gives a user access
\* before his guards are in force, whatever failed before (compile_ranger_policies, sync).
THEOREM GuardsComeFirst ==
  ASSUME GuardsAhead, Orderly, BootGranted
  PROVE  RangerSpec => GuardedFirst
<1> DEFINE A == sync' # sync =>
     \A reader \in Readers(server') \ Readers(server) : Guarded(reader[1], server')
<1>1. ASSUME SyncIInv, SyncIInv', [RangerNext]_rangerVars PROVE [A]_<<server, sync>>
  <2> SUFFICES ASSUME sync' # sync, NEW reader \in Readers(server') \ Readers(server)
               PROVE  Guarded(reader[1], server')
    BY DEF Guarded
  <2>1. PICK o \in server' : o.type = 0 /\ o \notin server /\ \E u \in o.users : reader = <<u, o.res>>
    BY DEF Readers
  <2>2. ASSUME NEW p \in NextPolicy, Create(p) \/ Update(p), server' # server
        PROVE  Guarded(reader[1], server')
    <3>1. /\ sync.pc \in {"apply", "again"} /\ sync'.pc = "apply"
          /\ sync'.desired = sync.desired /\ sync'.at = p.name
          /\ \A s \in server' : s \in server \/ \E i : s = Stored(p, i)
      <4>1. CASE Create(p)
        <5>1. /\ sync.pc \in {"apply", "again"}
              /\ server' = server \cup {Stored(p, ids + 1)}
              /\ sync' = [sync EXCEPT !.pc = "apply", !.at = p.name]
          BY <2>2, <4>1 DEF Create
        <5>2. \A s \in server' : s \in server \/ \E i : s = Stored(p, i)
          BY <5>1
        <5>3. QED
          BY <1>1, <5>1, <5>2 DEF SyncIInv, RangerTypeOK
      <4>2. CASE Update(p)
        <5>1. PICK q \in Current(p) :
                /\ server' = {s \in server : s.id # q.id} \cup {Stored(p, q.id)}
                /\ sync' = [sync EXCEPT !.at = p.name, !.consumed = @ \cup {q.id}]
          BY <2>2, <4>2 DEF Update
        <5>2. sync.pc = "apply"
          BY <4>2 DEF Update
        <5>3. QED
          BY <1>1, <5>1, <5>2 DEF SyncIInv, RangerTypeOK
      <4>3. QED
        BY <2>2, <4>1, <4>2
    <3>2. p.type = 0 /\ p \in sync.desired
      BY <2>1, <3>1 DEF Stored, NextPolicy
    <3>3. PICK m \in DOMAIN Models : \A b \in sync.desired : OfEdition(b, m)
      BY <1>1 DEF SyncIInv, EditionsKnown
    <3>4. ASSUME NEW b \in sync.desired, b.type # 0 PROVE b.name <= p.name
      <4>1. PICK r \in Role : \E i \in DOMAIN GuardName[r] : b.name = GuardName[r][i]
        BY <3>3, <3>4, ModelAssumption DEF OfEdition, Wanted
      <4>2. p.name = AccessName[p.res] /\ p.res \in Resource
        BY <3>2, <3>3, WantedNames DEF OfEdition
      <4>3. b.name \in Nat /\ p.name \in Nat
        BY <1>1, <3>2 DEF SyncIInv, RangerTypeOK, Policy
      <4>4. QED
        BY <4>1, <4>2, <4>3 DEF GuardsAhead
    <3>5. \A b \in sync.desired : b.type # 0 => InForce(b)'
      BY <1>1, <3>1, <3>4 DEF SyncIInv, ApplyKnown, Behind
    <3>6. QED
      BY <3>1, <3>5 DEF Guarded, InForce, Projection
  <2>3. CASE \E q \in sync.todo : Purge(q) \/ Remove(q)
    BY <2>1, <2>3 DEF Purge, Remove, DeletePolicy
  <2>4. CASE server' = server
    BY <2>1, <2>4
  <2>5. CASE SyncBegins \/ EnsureService \/ EnsureUsers \/ ListPolicies \/ ListLate \/ Purged
    BY <2>4, <2>5 DEF SyncBegins, EnsureService, EnsureUsers, ListPolicies, ListLate, Purged
  <2>6. CASE \E p \in NextPolicy : Create(p) \/ KeepPolicy(p) \/ Update(p)
    BY <2>2, <2>4, <2>6 DEF KeepPolicy
  <2>7. CASE Applied \/ SyncEnds \/ SyncDies
    BY <2>4, <2>7 DEF Applied, SyncEnds, SyncDies
  <2>8. CASE Time \/ Others
    BY <2>8 DEF Time, Others, EditModel, Bootstrap, AddForeign, DropManaged
  <2>9. QED
    BY <1>1, <2>3, <2>5, <2>6, <2>7, <2>8 DEF RangerNext, Step, rangerVars
<1>2. QED
  BY <1>1, SyncInvariant, PTL DEF RangerSpec, GuardedFirst

\* A sync of what the last one left changes nothing (docs/runbooks/ranger-admin.md).
THEOREM SecondRunQuiet ==
  ASSUME Orderly, BootGranted
  PROVE  RangerSpec => SecondRunIsQuiet
<1> DEFINE A == settled # {} /\ settled = sync.desired /\ sync' # sync => server' = server
<1>1. ASSUME SyncIInv, SyncIInv', [RangerNext]_rangerVars PROVE [A]_<<server, sync>>
  <2> SUFFICES ASSUME settled # {}, sync' # sync PROVE server' = server
    OBVIOUS
  <2>1. RangerTypeOK'
    BY <1>1 DEF SyncIInv
  <2>2. CASE \E q \in sync.todo : Purge(q) \/ Remove(q)
    BY <1>1, <2>1, <2>2, DeleteInv
  <2>3. CASE \E p \in NextPolicy : Create(p) \/ KeepPolicy(p) \/ Update(p)
    BY <1>1, <2>1, <2>3, CreateInv, UpdateInv DEF KeepPolicy
  <2>4. CASE SyncBegins \/ EnsureService \/ EnsureUsers \/ ListPolicies \/ ListLate \/ Purged
    BY <2>4 DEF SyncBegins, EnsureService, EnsureUsers, ListPolicies, ListLate, Purged
  <2>5. CASE Applied \/ SyncEnds \/ SyncDies
    BY <2>5 DEF Applied, SyncEnds, SyncDies
  <2>6. CASE Time \/ Others
    BY <2>6 DEF Time, Others, EditModel, Bootstrap, AddForeign, DropManaged
  <2>7. QED
    BY <1>1, <2>2, <2>3, <2>4, <2>5, <2>6 DEF RangerNext, Step, rangerVars
<1>2. QED
  BY <1>1, SyncInvariant, PTL DEF RangerSpec, SecondRunIsQuiet
=============================================================================
