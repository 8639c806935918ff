---------------------------- MODULE BatchTables ------------------------------
(***************************************************************************)
(* The Spark jobs that turn one landed commerce batch into bronze tables,    *)
(* silver tables with their rejects, and the daily mart (jobs/spark/         *)
(* bronze_commerce.py, silver_commerce_*.py, gold_commerce_daily.py), under  *)
(* the runner that starts them in order and under operators who start one    *)
(* by hand. Every job is insert-only and made to be repeated: a job may die   *)
(* between any two of its commits, and a dead runner leaves its job behind.  *)
(*                                                                         *)
(* A row stands for a line of the file: h is the rank of its hash, copy its   *)
(* occurrence among identical lines, empty says that a required value is     *)
(* missing, bad that a rule on the row alone is broken. One job of a stage    *)
(* runs at a time, and a MERGE is one commit.                               *)
(***************************************************************************)
EXTENDS Integers, FiniteSets, Sequences

CONSTANTS
  Landing,    \* the contents a batch may have: a set of rows for every table
  Hand,       \* stages that operators start by hand
  MaxFaults,  \* bound on deaths and failed queries
  MaxHand     \* bound on the jobs started by hand

ASSUME BoundAssumption == MaxFaults \in Nat /\ MaxHand \in Nat

Table == {"customers", "orders", "payments", "products"}
BronzeOrder == <<"customers", "orders", "payments", "products">>
Stages == <<"bronze", "payments", "orders", "products", "customers", "gold">>
Stage == Table \cup {"bronze", "gold"}

ASSUME HandAssumption == Hand \subseteq Stage

\* A line and its occurrence make a row: the hash is over the line, the occurrence number
\* is counted among identical lines.
ASSUME LandingAssumption ==
  \A l \in Landing : \A t \in Table :
    /\ IsFiniteSet(l[t])
    /\ \A r \in l[t] : r.h \in Nat /\ r.copy \in Nat /\ (t = "orders" => r.at \in Nat)
    /\ \A r, s \in l[t] : r.h = s.h /\ r.copy = s.copy => r = s

VARIABLES
  landed,    \* the content of the batch under landing/
  bronze, silver, rejects,
  gold,      \* rows of gold.commerce_daily of the batch
  job,       \* for every stage: its job, and what the job has cached
  run,       \* the stage the runner is at, 0 for no runner
  recorded,  \* the batch is in the checkpoint
  faults, hands

vars == <<landed, bronze, silver, rejects, gold, job, run, recorded, faults, hands>>

NoTables == [t \in Table |-> {}]
\* A job at one of its steps, with the rows that it has cached.
Job(pc, valid, rejected) == [pc |-> pc, at |-> 1, valid |-> valid, rejected |-> rejected]
Off == Job("off", {}, {})

Init ==
  /\ landed \in Landing
  /\ bronze = NoTables
  /\ silver = NoTables
  /\ rejects = NoTables
  /\ gold = {}
  /\ job = [s \in Stage |-> Off]
  /\ run = 0
  /\ recorded = FALSE
  /\ faults = 0
  /\ hands = 0

Go(s, pc) == job' = [job EXCEPT ![s].pc = pc]
Fail(s) == job' = [job EXCEPT ![s] = Job("failed", {}, {})]
Done(s) == job' = [job EXCEPT ![s] = Job("done", {}, {})]
Running(s) == job[s].pc \notin {"off", "done", "failed"}

-----------------------------------------------------------------------------
(* Bronze: table after table, each in one MERGE.                           *)

BronzeStep ==
  LET t == BronzeOrder[job["bronze"].at] IN
  /\ job["bronze"].pc = "begin"
  /\ IF \E r \in landed[t] : r.empty
     THEN Fail("bronze") /\ UNCHANGED bronze
     ELSE /\ bronze' = [bronze EXCEPT ![t] = @ \cup landed[t]]
          /\ IF Cardinality(bronze'[t]) # Cardinality(landed[t]) THEN Fail("bronze")
             ELSE IF t = "products" THEN Done("bronze")
             ELSE job' = [job EXCEPT !["bronze"].at = @ + 1]
  /\ UNCHANGED <<landed, silver, rejects, gold, run, recorded, faults, hands>>

-----------------------------------------------------------------------------
(* Silver: classify the bronze rows once, then two commits.                *)

\* The order of the window that ranks the rows of one id.
Ahead(t, r, s) ==
  \/ t = "orders" /\ r.at > s.at
  \/ /\ t = "orders" => r.at = s.at
     /\ r.h > s.h \/ (r.h = s.h /\ r.copy < s.copy)

Same(t, r) == {s \in bronze[t] : s.id = r.id}
Rank(t, r) == 1 + Cardinality({s \in Same(t, r) : Ahead(t, s, r)})

Ids(rows) == {r.id : r \in rows}
Unknown(o) == \/ o.customer \notin Ids(bronze["customers"])
              \/ o.product \notin Ids(bronze["products"])

\* Of the rows with one id the first is kept, of the payments none.
CustomerErrors(r) == r.bad \/ Rank("customers", r) > 1
ProductErrors(r) == r.bad \/ Rank("products", r) > 1
OrderErrors(r) == r.bad \/ Unknown(r) \/ Rank("orders", r) > 1
PaymentErrors(r) == r.bad \/ Cardinality(Same("payments", r)) > 1

\* Mutant: rows are ranked after the broken ones are filtered out.
MutErrors(t, r) == \/ r.bad
                   \/ t = "orders" /\ Unknown(r)
                   \/ \E s \in Same(t, r) : s # r /\ ~s.bad /\ (t = "payments" \/ Ahead(t, s, r))

Errors(t, r) == CASE t = "customers" -> CustomerErrors(r)
                  [] t = "products" -> ProductErrors(r)
                  [] t = "orders" -> OrderErrors(r)
                  [] t = "payments" -> PaymentErrors(r)

Classify(t) ==
  /\ job[t].pc = "begin"
  /\ IF bronze[t] = {} THEN Fail(t)
     ELSE LET rejected == {r \in bronze[t] : Errors(t, r)} IN
          job' = [job EXCEPT ![t] = Job("valid", bronze[t] \ rejected, rejected)]
  /\ UNCHANGED <<landed, bronze, silver, rejects, gold, run, recorded, faults, hands>>

MergeValid(t) ==
  /\ job[t].pc = "valid"
  /\ silver' = [silver EXCEPT ![t] = @ \cup {r \in job[t].valid : r.id \notin Ids(@)}]
  /\ Go(t, "rejects")
  /\ UNCHANGED <<landed, bronze, rejects, gold, run, recorded, faults, hands>>

MergeRejects(t) ==
  /\ job[t].pc = "rejects"
  /\ rejects' = [rejects EXCEPT ![t] = @ \cup job[t].rejected]
  /\ Go(t, "check")
  /\ UNCHANGED <<landed, bronze, silver, gold, run, recorded, faults, hands>>

PostCondition(t) ==
  /\ Cardinality(silver[t]) = Cardinality(job[t].valid)
  /\ Cardinality(rejects[t]) = Cardinality(job[t].rejected)

CheckSilver(t) ==
  /\ job[t].pc = "check"
  /\ IF PostCondition(t) THEN Done(t) ELSE Fail(t)
  /\ UNCHANGED <<landed, bronze, silver, rejects, gold, run, recorded, faults, hands>>

Silver(t) == Classify(t) \/ MergeValid(t) \/ MergeRejects(t) \/ CheckSilver(t)

CustomerSilver == Silver("customers")
ProductSilver == Silver("products")
OrderSilver == Silver("orders")
PaymentSilver == Silver("payments")

-----------------------------------------------------------------------------
(* The daily mart.                                                         *)

Reconciled(t) ==
  Cardinality(silver[t]) + Cardinality(rejects[t]) = Cardinality(bronze[t])

References == \A o \in silver["orders"] : /\ o.customer \in Ids(silver["customers"])
                                          /\ o.product \in Ids(silver["products"])

Sources ==
  /\ silver["orders"] # {}
  /\ bronze["payments"] # {}
  /\ Reconciled("orders")
  /\ Reconciled("payments")
  /\ \A o, p \in silver["orders"] : o.id = p.id => o = p
  /\ {p.order : p \in silver["payments"] \cup rejects["payments"]} \subseteq Ids(silver["orders"])
  /\ References

\* A row of the mart: the members that its counts and sums are taken over.
DayRow(day, orders, paid, refused) ==
  LET ids == Ids(orders) IN
  [day |-> day, orders |-> ids, buyers |-> {o.customer : o \in orders},
   captured |-> {p \in paid : p.order \in ids /\ p.captured},
   other |-> {p \in paid : p.order \in ids /\ ~p.captured},
   rejected |-> {p \in refused : p.order \in ids},
   missing |-> ids \ {p.order : p \in paid \cup refused}]

Summary ==
  {DayRow(d, {o \in silver["orders"] : o.day = d}, silver["payments"], rejects["payments"]) :
     d \in {o.day : o \in silver["orders"]}}

\* Mutant: a batch is summarized once.
MutExpected == gold = {}

\* Rows of an earlier job are those this one computes.
Expected == gold \subseteq Summary

Summarize ==
  /\ job["gold"].pc = "begin"
  /\ IF Sources /\ Expected
     THEN job' = [job EXCEPT !["gold"] = Job("merge", Summary, {})]
     ELSE Fail("gold")
  /\ UNCHANGED <<landed, bronze, silver, rejects, gold, run, recorded, faults, hands>>

MergeGold ==
  /\ job["gold"].pc = "merge"
  /\ gold' = gold \cup {d \in job["gold"].valid : \A g \in gold : g.day # d.day}
  /\ IF gold' = job["gold"].valid THEN Done("gold") ELSE Fail("gold")
  /\ UNCHANGED <<landed, bronze, silver, rejects, run, recorded, faults, hands>>

-----------------------------------------------------------------------------
(* Who starts the jobs.                                                    *)

Begin(s) == job' = [job EXCEPT ![s] = Job("begin", {}, {})]

Launch ==
  /\ run = 0
  /\ ~recorded
  /\ ~Running("bronze")
  /\ Begin("bronze")
  /\ run' = 1
  /\ UNCHANGED <<landed, bronze, silver, rejects, gold, recorded, faults, hands>>

\* Mutant: the exit status of a stage is not looked at.
MutSucceeded(s) == job[s].pc \in {"done", "failed"}

Succeeded(s) == job[s].pc = "done"

NextStage ==
  /\ run \in 1..(Len(Stages) - 1)
  /\ Succeeded(Stages[run])
  /\ ~Running(Stages[run + 1])
  /\ Begin(Stages[run + 1])
  /\ run' = run + 1
  /\ UNCHANGED <<landed, bronze, silver, rejects, gold, recorded, faults, hands>>

StageFailed ==
  /\ run # 0
  /\ job[Stages[run]].pc = "failed"
  /\ run' = 0
  /\ UNCHANGED <<landed, bronze, silver, rejects, gold, job, recorded, faults, hands>>

\* The gate asks for days and orders, then the planner records the batch.
Gate == gold # {} /\ \A g \in gold : g.orders # {}

Commit ==
  /\ run = Len(Stages)
  /\ Succeeded("gold")
  /\ recorded' = (recorded \/ Gate)
  /\ run' = 0
  /\ UNCHANGED <<landed, bronze, silver, rejects, gold, job, faults, hands>>

ByHand(s) ==
  /\ hands < MaxHand
  /\ ~Running(s)
  /\ ~(run # 0 /\ Stages[run] = s)
  /\ Begin(s)
  /\ hands' = hands + 1
  /\ UNCHANGED <<landed, bronze, silver, rejects, gold, run, recorded, faults>>

\* A container dies; the runner sees a failed stage.
JobDies(s) ==
  /\ faults < MaxFaults
  /\ Running(s)
  /\ Fail(s)
  /\ faults' = faults + 1
  /\ UNCHANGED <<landed, bronze, silver, rejects, gold, run, recorded, hands>>

\* The runner dies, runs out of time, or its gate query fails; its job goes on.
RunnerDies ==
  /\ faults < MaxFaults
  /\ run # 0
  /\ run' = 0
  /\ faults' = faults + 1
  /\ UNCHANGED <<landed, bronze, silver, rejects, gold, job, recorded, hands>>

Work == \/ BronzeStep \/ CustomerSilver \/ ProductSilver \/ OrderSilver \/ PaymentSilver
        \/ Summarize \/ MergeGold
Runner == Launch \/ NextStage \/ StageFailed \/ Commit

Next == \/ Work \/ Runner \/ RunnerDies
        \/ \E s \in Hand : ByHand(s)
        \/ \E s \in Stage : JobDies(s)

Spec == Init /\ [][Next]_vars
FairSpec == Spec /\ WF_vars(Work) /\ WF_vars(Runner)

-----------------------------------------------------------------------------
(* Properties.                                                             *)

\* Every variable has its type: a table a set of landed rows, a job its fields.
TypeOK ==
  /\ landed \in Landing
  /\ \A tables \in {bronze, silver, rejects} :
       tables = [t \in Table |-> tables[t] \cap landed[t]]
  /\ job = [s \in Stage |-> [pc |-> job[s].pc, at |-> job[s].at, valid |-> job[s].valid,
                             rejected |-> job[s].rejected]]
  /\ \A s \in Stage : /\ job[s].pc \in {"off", "begin", "done", "failed"} \cup
                                        (IF s = "bronze" THEN {} ELSE
                                         IF s = "gold" THEN {"merge"} ELSE
                                         {"valid", "rejects", "check"})
                      /\ job[s].at \in 1..Len(BronzeOrder)
  /\ \A t \in Table : job[t].valid \cup job[t].rejected \subseteq landed[t]
  /\ run \in 0..Len(Stages)
  /\ recorded \in BOOLEAN
  /\ faults \in 0..MaxFaults
  /\ hands \in 0..MaxHand

\* What a batch of this content should keep, whatever the jobs have read so far.
Kept(t) ==
  {r \in landed[t] :
     /\ ~r.bad
     /\ \A s \in landed[t] \ {r} : s.id = r.id => t # "payments" /\ Ahead(t, r, s)
     /\ t = "orders" => /\ r.customer \in Ids(landed["customers"])
                        /\ r.product \in Ids(landed["products"])}

\* A batch whose mart may be published: complete rows, no payment without its order
\* and no order without its customer and product.
Publishable ==
  /\ \A t \in Table : \A r \in landed[t] : ~r.empty
  /\ Kept("orders") # {}
  /\ \A p \in landed["payments"] : p.order \in Ids(Kept("orders"))
  /\ \A o \in Kept("orders") : /\ o.customer \in Ids(Kept("customers"))
                               /\ o.product \in Ids(Kept("products"))

\* Whatever order the jobs run in and wherever they die, the mart has rows of a batch
\* only when the batch is publishable, and then every kept order is in the row of its
\* day and nowhere else, and every landed payment is counted once, as what it is
\* (gold_commerce_daily.validate_sources, summarize and the MERGE).
GoldIsTrue ==
  gold # {} =>
    /\ Publishable
    /\ UNION {g.orders : g \in gold} = Ids(Kept("orders"))
    /\ \A g \in gold : \A o \in Kept("orders") : o.id \in g.orders <=> o.day = g.day
    /\ \A p \in landed["payments"] :
         /\ Cardinality({g \in gold : p \in g.captured \cup g.other \cup g.rejected}) = 1
         /\ \A g \in gold : /\ p \in g.rejected => p \notin Kept("payments")
                            /\ p \in g.captured \cup g.other => p \in Kept("payments")
                            /\ p \in g.captured => p.captured

\* A recorded batch has every landed row of every table exactly once, in silver if it
\* is kept and in the rejects otherwise: the runner records only what all stages of
\* one run have finished (run_commerce_batch over the silver post-conditions).
RecordedIsComplete ==
  recorded => \A t \in Table : /\ bronze[t] = landed[t]
                               /\ silver[t] = Kept(t)
                               /\ rejects[t] = landed[t] \ Kept(t)

-----------------------------------------------------------------------------
(* The inductive invariant.                                                *)

Whole(t) == bronze[t] = landed[t]
AllWhole == \A t \in Table : Whole(t)

\* A bronze table is merged in one piece, and not before its rows are complete.
BronzeKnown ==
  /\ \A t \in Table : bronze[t] # {} => Whole(t) /\ \A r \in landed[t] : ~r.empty
  /\ job["bronze"].pc = "begin" => \A i \in 1..(job["bronze"].at - 1) : Whole(BronzeOrder[i])
  /\ job["bronze"].pc = "done" => AllWhole

Refused(t) == landed[t] \ Kept(t)
Classified(t) == job[t].pc \in {"valid", "rejects", "check"}
\* A job that found its sources whole.
InTime(t) == Classified(t) => job[t].valid = Kept(t) /\ job[t].rejected = Refused(t)

\* Orders that were classified before all customers and products were there are all unknown.
SilverKnown(t) ==
  /\ Classified(t) => /\ bronze[t] # {}
                      /\ \/ InTime(t)
                         \/ t = "orders" /\ job[t].valid = {} /\ job[t].rejected = landed[t]
  /\ silver[t] \in {{}, Kept(t)}
  /\ silver[t] # {} => bronze[t] # {}
  /\ rejects[t] \in {{}, Refused(t)} \cup (IF t = "orders" THEN {landed[t]} ELSE {})
  /\ job[t].pc \in {"rejects", "check"} => job[t].valid \subseteq silver[t]
  /\ job[t].pc = "check" => job[t].rejected \subseteq rejects[t]

Complete(t) == silver[t] = Kept(t) /\ rejects[t] = Refused(t)

\* The runner starts a stage when those before it have done their part, and one that it
\* waits for is its own. What is complete stays so, whoever repeats a stage.
RunKnown ==
  /\ run > 1 => AllWhole
  /\ \A i \in 2..5 : /\ run >= i => InTime(Stages[i])
                     /\ run > i => Complete(Stages[i])
                     /\ run = i /\ job[Stages[i]].pc = "done" => Complete(Stages[i])
  /\ recorded => AllWhole /\ \A t \in Table : InTime(t) /\ Complete(t)

\* The mart of a batch that keeps what it should.
Daily ==
  {DayRow(d, {o \in Kept("orders") : o.day = d}, Kept("payments"), Refused("payments")) :
     d \in {o.day : o \in Kept("orders")}}

GoldKnown ==
  /\ gold \in {{}, Daily}
  /\ gold # {} => Publishable
  /\ job["gold"].pc = "merge" => Publishable /\ job["gold"].valid = Daily

IInv == /\ TypeOK /\ BronzeKnown
        /\ \A t \in Table : SilverKnown(t)
        /\ RunKnown /\ GoldKnown

-----------------------------------------------------------------------------
(* Liveness.                                                               *)

\* The order stage was run by hand before all products were in bronze: orders are
\* among the rejects that should be kept.
TooEarly == rejects["orders"] \cap Kept("orders") # {}

\* Whatever died on the way, a publishable batch is recorded in the end, unless its
\* orders were classified too early, which no later run can repair.
PublishableIsRecorded == Publishable ~> (recorded \/ TooEarly)
=============================================================================
