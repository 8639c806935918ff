--------------------------- MODULE WeatherPipeline ----------------------------
(***************************************************************************)
(* Weather forecasts from the source to the silver table: workers that fetch *)
(* a forecast and land it as an immutable object (ingestion/open_meteo.py,   *)
(* batch.py, landing.py, s3_landing.py), the audit of the landing zone        *)
(* (audit.py), the copy for Spark (sync_bronze_input.sh) and the bronze and   *)
(* silver jobs (jobs/spark/bronze_weather.py, silver_weather.py).            *)
(*                                                                         *)
(* A forecast is a content: two answers with one checksum are one content,   *)
(* whatever their generationtime_ms. Its stamp is ingested_at, a date and a    *)
(* number that no other forecast has; the key of an object is its date and     *)
(* its content. A worker, a job or a call may be lost, and somebody may       *)
(* damage an object. A MERGE is one commit, and one bronze job runs at a      *)
(* time.                                                                   *)
(***************************************************************************)
EXTENDS Integers, FiniteSets

CONSTANTS
  Workers,      \* forecasts that may be under way at the same time
  SilverJob,    \* silver jobs that may run at the same time
  Content,      \* the forecasts the source may answer
  Place,        \* the location of a content
  Hours,        \* the rows of a content: hour, and whether its values are in range
  Backends,     \* the landing zones to look at: "file", "s3"
  MaxDay,       \* bound on the dates of the stamps
  MaxFetch,     \* bound on the forecasts that are fetched
  MaxAttempts,  \* requests per forecast (OpenMeteoClient.max_attempts)
  MaxFaults     \* bound on deaths, lost answers and damaged objects

ASSUME PipelineAssumption ==
  /\ Backends \subseteq {"file", "s3"}
  /\ Workers \in Nat /\ MaxFetch \in Nat /\ MaxDay \in Nat \ {0}
  /\ MaxAttempts \in Nat \ {0} /\ MaxFaults \in Nat
  /\ \A c \in Content : \A h \in Hours[c] : h.ok \in BOOLEAN

VARIABLES
  backend,  \* the adapter in use
  calls,    \* the forecasts under way
  fetches,  \* forecasts asked for so far
  clock,    \* the last stamp given, and its date
  landing,  \* the objects of the landing zone
  acks,     \* the results that workers returned
  audit,    \* a pass of the audit over the landing zone
  input,    \* the copy of the landing zone that Spark reads
  bronzeJob, bronze,
  silverJob, silver, rejects,
  faults

store == <<backend, landing, acks>>
source == <<calls, fetches, clock>>
tables == <<input, bronzeJob, bronze, silverJob, silver, rejects>>
vars == <<backend, calls, fetches, clock, landing, acks, audit, tables, faults>>

NoAudit == [pc |-> "off", todo |-> {}, invalid |-> {}, damaged |-> {}]
NoJob == [pc |-> "off", rows |-> {}]

Init ==
  /\ backend \in Backends
  /\ calls = {}
  /\ fetches = 0
  /\ clock = [stamp |-> 0, day |-> 1]
  /\ landing = {}
  /\ acks = {}
  /\ audit = NoAudit
  /\ input = {}
  /\ bronzeJob = NoJob
  /\ bronze = {}
  /\ silverJob = [j \in SilverJob |-> NoJob]
  /\ silver = {}
  /\ rejects = {}
  /\ faults = 0

Fault == /\ faults < MaxFaults
         /\ faults' = faults + 1

-----------------------------------------------------------------------------
(* Fetch a forecast.                                                       *)

\* The call x goes on as y, or is over.
Goes(x, y) == calls' = (calls \ {x}) \cup {y}
Over(x) == calls' = calls \ {x}

StartFetch ==
  /\ Cardinality(calls) < Workers
  /\ fetches < MaxFetch
  /\ fetches' = fetches + 1
  /\ calls' = calls \cup {[id |-> fetches', pc |-> "fetch", tries |-> 1]}
  /\ UNCHANGED <<clock, store, audit, tables, faults>>

\* A valid answer; the object is stamped and its key computed.
FetchAnswers(x, c, d) ==
  /\ x.pc = "fetch"
  /\ d >= clock.day
  /\ clock' = [stamp |-> clock.stamp + 1, day |-> d]
  /\ Goes(x, [id |-> x.id, pc |-> "write", content |-> c, stamp |-> clock'.stamp, day |-> d])
  /\ UNCHANGED <<fetches, store, audit, tables, faults>>

LastAttempt(x) == x.tries = MaxAttempts

\* A transient status or a transport error is tried again.
FetchRetries(x) ==
  /\ x.pc = "fetch"
  /\ ~LastAttempt(x)
  /\ Goes(x, [x EXCEPT !.tries = @ + 1])
  /\ UNCHANGED <<fetches, clock, store, audit, tables, faults>>

\* The last attempt, a refusal of the source or a malformed answer; the other items of
\* the batch go on.
FetchFails(x) ==
  /\ x.pc = "fetch"
  /\ Over(x)
  /\ UNCHANGED <<fetches, clock, store, audit, tables, faults>>

-----------------------------------------------------------------------------
(* Land it.                                                                *)

Key(o) == <<o.day, o.content>>
AtKey(x) == {o \in landing : Key(o) = Key(x)}

NewObject(x) == [content |-> x.content, stamp |-> x.stamp, day |-> x.day, form |-> "good"]
Ack(x, created) == [content |-> x.content, stamp |-> x.stamp, day |-> x.day, created |-> created]

\* The file adapter looks first, and writes a private temporary file.
Look(x) ==
  /\ backend = "file"
  /\ x.pc = "write"
  /\ Goes(x, [x EXCEPT !.pc = IF AtKey(x) # {} THEN "replay" ELSE "publish"])
  /\ UNCHANGED <<fetches, clock, store, audit, tables, faults>>

Prepared(x) == x.pc = IF backend = "file" THEN "publish" ELSE "write"

\* Mutant: the name is replaced, as os.replace would do.
MutPublish(x) ==
  /\ Prepared(x)
  /\ landing' = (landing \ AtKey(x)) \cup {NewObject(x)}
  /\ acks' = acks \cup {Ack(x, TRUE)}
  /\ Over(x)
  /\ UNCHANGED <<backend, fetches, clock, audit, tables, faults>>

\* os.link or put_object with IfNoneMatch: only an absent name is published.
Publish(x) ==
  /\ Prepared(x)
  /\ IF AtKey(x) # {}
     THEN /\ Goes(x, [x EXCEPT !.pc = "replay"])
          /\ UNCHANGED <<landing, acks>>
     ELSE /\ landing' = landing \cup {NewObject(x)}
          /\ acks' = acks \cup {Ack(x, TRUE)}
          /\ Over(x)
  /\ UNCHANGED <<backend, fetches, clock, audit, tables, faults>>

\* The answer to a put is lost; the client sends it again and finds its own object.
AnswerLost(x) ==
  /\ backend = "s3"
  /\ x.pc = "write"
  /\ AtKey(x) = {}
  /\ landing' = landing \cup {NewObject(x)}
  /\ Goes(x, [x EXCEPT !.pc = "replay"])
  /\ Fault
  /\ UNCHANGED <<backend, fetches, clock, acks, audit, tables>>

\* Mutant: layout and JSON are looked at, checksums are not.
MutValid(o) == o.form # "broken"

\* audit_landing_content: JSON, layout, payload, checksums, location and date.
Valid(o) == o.form = "good"

\* The object that is there is audited before the forecast counts as landed.
Replay(x) ==
  /\ x.pc = "replay"
  /\ acks' = IF \A o \in AtKey(x) : Valid(o) THEN acks \cup {Ack(x, FALSE)} ELSE acks
  /\ Over(x)
  /\ UNCHANGED <<backend, fetches, clock, landing, audit, tables, faults>>

WorkerDies(x) ==
  /\ Over(x)
  /\ Fault
  /\ UNCHANGED <<fetches, clock, store, audit, tables>>

\* Somebody edits a published object: it is no document any more, or another one.
Damage(o, form) ==
  /\ o.form = "good"
  /\ landing' = (landing \ {o}) \cup {[o EXCEPT !.form = form]}
  /\ Fault
  /\ UNCHANGED <<backend, source, acks, audit, tables>>

-----------------------------------------------------------------------------
(* Audit the landing zone: list the keys, then read object after object.   *)

Damaged == {Key(o) : o \in {p \in landing : p.form # "good"}}

AuditBegins ==
  /\ audit.pc = "off"
  /\ audit' = [pc |-> "read", todo |-> {Key(o) : o \in landing}, invalid |-> {},
               damaged |-> Damaged]
  /\ UNCHANGED <<source, store, tables, faults>>

AuditReads(k) ==
  /\ k \in audit.todo
  /\ audit' = [audit EXCEPT !.todo = @ \ {k},
                            !.invalid = @ \cup {Key(o) : o \in {p \in landing : Key(p) = k /\ ~Valid(p)}}]
  /\ UNCHANGED <<source, store, tables, faults>>

AuditEnds ==
  /\ audit.pc = "read"
  /\ audit.todo = {}
  /\ audit' = NoAudit
  /\ UNCHANGED <<source, store, tables, faults>>

-----------------------------------------------------------------------------
(* Copy, bronze, silver.                                                   *)

\* mc mirror --overwrite, object after object; it may stop after any of them.
Sync(o) ==
  /\ o \in landing \ input
  /\ input' = {p \in input : Key(p) # Key(o)} \cup {o}
  /\ UNCHANGED <<source, store, audit, bronzeJob, bronze, silverJob, silver,
                 rejects, faults>>

RowsOf(o) == {[content |-> o.content, stamp |-> o.stamp, obs |-> h.obs, ok |-> h.ok] :
                h \in Hours[o.content]}

\* One malformed document stops the whole job.
ReadInput ==
  /\ bronzeJob.pc = "off"
  /\ input # {}
  /\ \A o \in input : o.form # "broken"
  /\ bronzeJob' = [pc |-> "merge", rows |-> UNION {RowsOf(o) : o \in input}]
  /\ UNCHANGED <<source, store, audit, input, bronze, silverJob, silver,
                 rejects, faults>>

\* Rows are matched by checksum and hour with the target, never with one another.
MergeBronze ==
  /\ bronzeJob.pc = "merge"
  /\ bronze' = bronze \cup {r \in bronzeJob.rows :
                              \A b \in bronze : b.content = r.content => b.obs # r.obs}
  /\ bronzeJob' = NoJob
  /\ UNCHANGED <<source, store, audit, input, silverJob, silver, rejects, faults>>

SameHour(r, s) == Place[r.content] = Place[s.content] /\ r.obs = s.obs

\* Mutant: the survivor is the row that was landed first.
MutAhead(r, s) == r.stamp < s.stamp

\* ingested_at descending; a stamp is given once, so that checksums need not decide.
Ahead(r, s) == r.stamp > s.stamp

Survivors(rows) ==
  {r \in rows : r.ok /\ \A s \in rows : s # r /\ s.ok /\ SameHour(r, s) => Ahead(r, s)}

\* A missing name or time, coordinates or values out of range.
Rejected(rows) == {r \in rows : ~r.ok}

\* Bronze is read and classified once.
ReadBronze(j) ==
  /\ silverJob[j].pc = "off"
  /\ bronze # {}
  /\ silverJob' = [silverJob EXCEPT ![j] = [pc |-> "silver", rows |-> bronze]]
  /\ UNCHANGED <<source, store, audit, input, bronzeJob, bronze, silver,
                 rejects, faults>>

MergeSilver(j) ==
  LET best == Survivors(silverJob[j].rows) IN
  /\ silverJob[j].pc = "silver"
  /\ silver' = {s \in silver : \A r \in best : SameHour(r, s) => r.content = s.content}
               \cup {r \in best : \A s \in silver : SameHour(r, s) => r.content # s.content}
  /\ silverJob' = [silverJob EXCEPT ![j] = [pc |-> "rejects", rows |-> Rejected(@.rows)]]
  /\ UNCHANGED <<source, store, audit, input, bronzeJob, bronze, rejects, faults>>

MergeRejects(j) ==
  /\ silverJob[j].pc = "rejects"
  /\ rejects' = rejects \cup silverJob[j].rows
  /\ silverJob' = [silverJob EXCEPT ![j] = NoJob]
  /\ UNCHANGED <<source, store, audit, input, bronzeJob, bronze, silver, faults>>

JobDies ==
  /\ \/ bronzeJob.pc # "off" /\ bronzeJob' = NoJob /\ UNCHANGED silverJob
     \/ \E j \in SilverJob : /\ silverJob[j].pc # "off"
                             /\ silverJob' = [silverJob EXCEPT ![j] = NoJob]
                             /\ UNCHANGED bronzeJob
  /\ Fault
  /\ UNCHANGED <<source, store, audit, input, bronze, silver, rejects>>

-----------------------------------------------------------------------------

Call(x) == \/ \E c \in Content, d \in 1..MaxDay : FetchAnswers(x, c, d)
           \/ FetchRetries(x) \/ FetchFails(x)
           \/ Look(x) \/ Publish(x) \/ AnswerLost(x) \/ Replay(x) \/ WorkerDies(x)

Audit == AuditBegins \/ AuditEnds \/ \E k \in audit.todo : AuditReads(k)
Copy == \E o \in landing : Sync(o)
Bronze == ReadInput \/ MergeBronze
Silver(j) == ReadBronze(j) \/ MergeSilver(j) \/ MergeRejects(j)

Next == \/ StartFetch
        \/ \E x \in calls : Call(x)
        \/ \E o \in landing, form \in {"altered", "broken"} : Damage(o, form)
        \/ Audit \/ Copy \/ Bronze \/ JobDies
        \/ \E j \in SilverJob : Silver(j)

Spec == Init /\ [][Next]_vars

\* The operators run the copy and the jobs again and again, and a started job ends.
FairSpec == /\ Spec
            /\ WF_vars(Copy) /\ WF_vars(Bronze)
            /\ \A j \in SilverJob : WF_vars(Silver(j))

-----------------------------------------------------------------------------
(* Properties.                                                             *)

Date == 1..MaxDay
Object == [content : Content, stamp : 1..MaxFetch, day : Date, form : {"good", "altered", "broken"}]
Slot == Date \X Content  \* the keys
Fetching == [id : Nat, pc : {"fetch"}, tries : 1..MaxAttempts]
Stamp == 1..clock.stamp
Landing == [id : Nat, pc : {"write", "publish", "replay"}, content : Content, stamp : Stamp,
            day : Date]

\* Every variable has its type, and no forecast is asked for more often than configured
\* (OpenMeteoClient.fetch).
TypeOK ==
  /\ backend \in Backends
  /\ calls \subseteq Fetching \cup Landing
  /\ fetches \in 0..MaxFetch
  /\ clock \in [stamp : 0..fetches, day : Date]
  /\ landing \subseteq Object /\ input \subseteq Object
  /\ acks \subseteq [content : Content, stamp : Stamp, day : Date, created : BOOLEAN]
  /\ audit \in [pc : {"off", "read"}, todo : SUBSET Slot, invalid : SUBSET Slot,
                damaged : SUBSET Slot]
  /\ bronzeJob.pc \in {"off", "merge"}
  /\ silverJob \in [SilverJob -> [pc : {"off", "silver", "rejects"}, rows : SUBSET bronze]]
  /\ silver \cup rejects \subseteq bronze
  /\ faults \in 0..MaxFaults

\* Whatever writers meet at one key and whichever of them die, no two of them are told
\* that they created it, the object keeps the bytes of the one that did, and a forecast
\* that is reported as landed is in the landing zone, under its own date
\* (FileLandingZone.write, S3LandingZone.write).
LandedOnce ==
  /\ \A a, b \in acks : a.created /\ b.created /\ Key(a) = Key(b) => a = b
  /\ \A a \in acks : \E o \in landing : Key(o) = Key(a) /\ (a.created => o.stamp = a.stamp)

\* An audit that has read all it listed has found every object that was damaged before it began, even
\* if writers landed others meanwhile (audit_file_landing, audit_s3_landing); an audit
\* that reports no invalid object is used as the precondition of the jobs.
AuditFinds == audit.pc = "read" /\ audit.todo = {} => audit.damaged \subseteq audit.invalid

\* What keeps them so: a stamp is given to one answer only, a key has one object at most and
\* keeps it, and the audit has still to read what was damaged and not yet found.
Asking == {x \in calls : x.pc = "fetch"}
Counted == IsFiniteSet(calls) /\ clock.stamp + Cardinality(Asking) <= fetches
OneObject == \A o, p \in landing : Key(o) = Key(p) => o = p
ReplaysExist == \A x \in calls : x.pc = "replay" => AtKey(x) # {}
AckedExist == \A a \in acks : \E o \in landing : Key(o) = Key(a) /\ (a.created => o.stamp = a.stamp)
AuditKnows ==
  audit.pc = "read" => \A k \in audit.damaged \ audit.invalid :
                         k \in audit.todo /\ \E o \in landing : Key(o) = k /\ o.form # "good"

IInv == TypeOK /\ Counted /\ OneObject /\ ReplaysExist /\ AckedExist /\ AuditKnows

\* The forecast of this object is older than its stamp says: the same content was
\* landed on an earlier date, and bronze keeps the earlier row.
Returned(o) == \E p \in landing : p.content = o.content /\ p.stamp < o.stamp

Blocked == \E o \in landing : o.form = "broken"

Shown(o, h) ==
  IF h.ok THEN \E s \in silver : /\ Place[s.content] = Place[o.content]
                                 /\ s.obs = h.obs
                                 /\ s.stamp >= o.stamp
          ELSE \E r \in rejects : r.content = o.content /\ r.obs = h.obs

OneSurvivor == \A r, s \in silver : SameHour(r, s) => r = s

\* Jobs may overlap, die between their two commits and overwrite a newer row with an
\* older one they read before; run again often enough they still end with one row for
\* every hour, of the newest valid forecast that was landed for it, and with every
\* invalid row among the rejects, unless a document is broken (write_bronze,
\* select_survivors, write_silver). A forecast that returns to an earlier content is
\* the exception: neither its landing nor bronze gives it its new stamp.
NewestIsShown ==
  <>[](~Blocked => /\ OneSurvivor
                   /\ \A o \in landing : ~Returned(o) => \A h \in Hours[o.content] : Shown(o, h))
=============================================================================
