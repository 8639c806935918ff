--------------------------- MODULE CommerceLanding ---------------------------
(***************************************************************************)
(* CommerceS3LandingZone.write (ingestion/commerce_s3_landing.py): writers  *)
(* upload the tables of one batch id and then its manifest, the commit      *)
(* marker, with conditional puts. Several writers may carry different       *)
(* fixtures of the same batch id, die anywhere, lose the answer of a put    *)
(* that was stored, or have their fixture edited under them. A reader is    *)
(* bronze-input-sync and the bronze job that checks its copy.               *)
(***************************************************************************)
EXTENDS Integers

CONSTANTS
  T,         \* number of table objects, uploaded in the order 1..T
  Content,   \* contents of an object, identified with their checksums
  Absent,    \* no object under a key
  Writer,
  Reader,
  Fixture,   \* the fixtures that exist: what a manifest lists, and its config
  MaxFaults  \* bound on deaths, lost answers and edits

ASSUME SizeAssumption == T \in Nat \ {0} /\ MaxFaults \in Nat
ASSUME ContentAssumption ==
  Absent \notin Content /\ Absent \notin Fixture /\ Absent \notin [1..T -> Content]
ASSUME FixtureAssumption == \A f \in Fixture : f.tables \in [1..T -> Content]

VARIABLES
  bucket,    \* table objects under the prefix of the batch
  marker,    \* manifest.json of the batch
  fixture,   \* the directory of each writer: its manifest and its table files
  writer,    \* the memory of each write()
  reader,    \* each reader: its step, and its local copy
  faults

vars == <<bucket, marker, fixture, writer, reader, faults>>

Object == Content \cup {Absent}
Copy == [tables : [1..T -> Object], marker : Fixture \cup {Absent}]

TypeOK ==
  /\ bucket \in [1..T -> Object]
  /\ marker \in Fixture \cup {Absent}
  /\ fixture \in [Writer -> [manifest : Fixture, files : [1..T -> Content]]]
  /\ writer \in [Writer -> [pc : {"off", "put", "compare", "done"}, at : 1..(T + 1),
                            plan : Fixture \cup {Absent}]]
  /\ reader \in [Reader -> [pc : {"off", "mirror", "load", "loaded", "refused"}, copy : Copy]]
  /\ faults \in 0..MaxFaults

Idle == [pc |-> "off", at |-> 1, plan |-> Absent]
NoCopy == [tables |-> [i \in 1..T |-> Absent], marker |-> Absent]

\* A directory starts as the generator writes it: files as its manifest lists them.
Init ==
  /\ bucket = [i \in 1..T |-> Absent]
  /\ marker = Absent
  /\ \E f \in [Writer -> Fixture] :
       fixture = [w \in Writer |-> [manifest |-> f[w], files |-> f[w].tables]]
  /\ writer = [w \in Writer |-> Idle]
  /\ reader = [r \in Reader |-> [pc |-> "off", copy |-> NoCopy]]
  /\ faults = 0

-----------------------------------------------------------------------------
(* A writer.                                                               *)

\* Every error ends the call; the next one starts from the first object.
Fail(w) == writer' = [writer EXCEPT ![w] = Idle]

\* _load_fixture verifies every file against the manifest before any upload.
Load(w) ==
  /\ writer[w].pc \in {"off", "done"}
  /\ IF fixture[w].files = fixture[w].manifest.tables
     THEN writer' = [writer EXCEPT ![w] = [pc |-> "put", at |-> 1, plan |-> fixture[w].manifest]]
     ELSE Fail(w)
  /\ UNCHANGED <<bucket, marker, fixture, reader, faults>>

\* Each file, and the manifest, is read again and must be what was verified.
Unchanged(w) ==
  LET i == writer[w].at IN
  IF i <= T THEN fixture[w].files[i] = writer[w].plan.tables[i]
  ELSE fixture[w].manifest = writer[w].plan

\* After the last object write() returns.
Advance(w) ==
  IF writer[w].at <= T
  THEN writer' = [writer EXCEPT ![w].pc = "put", ![w].at = @ + 1]
  ELSE writer' = [writer EXCEPT ![w].pc = "done"]

\* Mutant: the put has no If-None-Match.
MutTaken(w) == FALSE

\* The key the writer is at, and what it uploads there: what it has just read.
Taken(w) == IF writer[w].at <= T THEN bucket[writer[w].at] # Absent ELSE marker # Absent
Store(w) ==
  IF writer[w].at <= T
  THEN bucket' = [bucket EXCEPT ![writer[w].at] = fixture[w].files[writer[w].at]]
       /\ UNCHANGED marker
  ELSE marker' = fixture[w].manifest /\ UNCHANGED bucket

\* _put_once with If-None-Match: created, or 412 and the object is read back.
Put(w) ==
  /\ writer[w].pc = "put"
  /\ \/ ~Unchanged(w) /\ Fail(w) /\ UNCHANGED <<bucket, marker>>
     \/ Unchanged(w) /\ ~Taken(w) /\ Store(w) /\ Advance(w)
     \/ /\ Unchanged(w) /\ Taken(w)
        /\ writer' = [writer EXCEPT ![w].pc = "compare"]
        /\ UNCHANGED <<bucket, marker>>
  /\ UNCHANGED <<fixture, reader, faults>>

\* The put is stored and its answer is lost: write() raises.
PutLost(w) ==
  /\ writer[w].pc = "put"
  /\ Unchanged(w) /\ ~Taken(w) /\ Store(w) /\ Fail(w)
  /\ faults < MaxFaults /\ faults' = faults + 1
  /\ UNCHANGED <<fixture, reader>>

\* Mutant: any existing object will do.
MutSame(w) == TRUE

\* An existing object must have the checksum of the fixture's.
Same(w) ==
  IF writer[w].at <= T
  THEN bucket[writer[w].at] = writer[w].plan.tables[writer[w].at]
  ELSE marker = writer[w].plan

\* Mutant: an object that exists is an error.
MutCompare(w) ==
  /\ writer[w].pc = "compare"
  /\ Fail(w)
  /\ UNCHANGED <<bucket, marker, fixture, reader, faults>>

Compare(w) ==
  /\ writer[w].pc = "compare"
  /\ IF Same(w) THEN Advance(w) ELSE Fail(w)
  /\ UNCHANGED <<bucket, marker, fixture, reader, faults>>

Die(w) ==
  /\ writer[w].pc \in {"put", "compare"}
  /\ faults < MaxFaults /\ faults' = faults + 1
  /\ Fail(w)
  /\ UNCHANGED <<bucket, marker, fixture, reader>>

\* Somebody edits or regenerates a fixture, whether or not it is being uploaded.
EditFile(w, i, c) ==
  /\ faults < MaxFaults /\ faults' = faults + 1
  /\ fixture' = [fixture EXCEPT ![w].files[i] = c]
  /\ UNCHANGED <<bucket, marker, writer, reader>>

Regenerate(w, f) ==
  /\ faults < MaxFaults /\ faults' = faults + 1
  /\ fixture' = [fixture EXCEPT ![w] = [manifest |-> f, files |-> f.tables]]
  /\ UNCHANGED <<bucket, marker, writer, reader>>

-----------------------------------------------------------------------------
(* A reader.                                                               *)

\* The sync job of one selected batch goes on only when it finds a .json object under
\* the prefix of the batch: the marker.
Find(r) ==
  /\ reader[r].pc = "off"
  /\ marker # Absent
  /\ reader' = [reader EXCEPT ![r].pc = "mirror"]
  /\ UNCHANGED <<bucket, marker, fixture, writer, faults>>

\* `mc mirror` copies what there is, one object at a time.
Mirror(r) ==
  /\ reader[r].pc = "mirror"
  /\ \/ \E i \in 1..T :
          reader[r].copy.tables[i] # bucket[i]
          /\ reader' = [reader EXCEPT ![r].copy.tables[i] = bucket[i]]
     \/ reader[r].copy.marker # marker /\ reader' = [reader EXCEPT ![r].copy.marker = marker]
     \/ /\ reader[r].copy = [tables |-> bucket, marker |-> marker]
        /\ reader' = [reader EXCEPT ![r].pc = "load"]
  /\ UNCHANGED <<bucket, marker, fixture, writer, faults>>

\* load_commerce_batch: every table the manifest lists, with its checksum.
Check(r) ==
  /\ reader[r].pc = "load"
  /\ LET c == reader[r].copy
         good == c.marker # Absent /\ c.tables = c.marker.tables
     IN reader' = [reader EXCEPT ![r].pc = IF good THEN "loaded" ELSE "refused"]
  /\ UNCHANGED <<bucket, marker, fixture, writer, faults>>

-----------------------------------------------------------------------------

WriterStep(w) == Load(w) \/ Put(w) \/ PutLost(w) \/ Compare(w) \/ Die(w)
ReaderStep(r) == Find(r) \/ Mirror(r) \/ Check(r)

Next ==
  \/ \E w \in Writer : WriterStep(w)
  \/ \E w \in Writer, i \in 1..T, c \in Content : EditFile(w, i, c)
  \/ \E w \in Writer, f \in Fixture : Regenerate(w, f)
  \/ \E r \in Reader : ReaderStep(r)

Spec == Init /\ [][Next]_vars
FairSpec ==
  /\ Spec
  /\ \A w \in Writer : WF_vars(Load(w) \/ Put(w) \/ Compare(w))
  /\ \A r \in Reader : WF_vars(ReaderStep(r))

-----------------------------------------------------------------------------
(* What a landing promises.                                                *)

\* The marker never covers a table that is missing or that another fixture wrote,
\* although the writers share every key and stop anywhere: it goes up last, and each
\* object before it was created by this write() or compared with it.
MarkerCoversTables == marker # Absent => bucket = marker.tables

\* write() returns only when what it was given is what the bucket holds.
ReturnedIsLanded ==
  \A w \in Writer : writer[w].pc = "done" =>
    marker = writer[w].plan /\ bucket = writer[w].plan.tables

\* A sync that found the marker is never refused by bronze.
FoundIsLoadable == \A r \in Reader : reader[r].pc # "refused"

\* Readers see the whole batch at once and see it unchanged ever after.
Promise == INSTANCE LandingPromise WITH
  Tables <- {f.tables : f \in Fixture}, Nothing <- Absent,
  visible <- IF marker = Absent THEN Absent ELSE bucket
ImplementsPromise == Promise!Spec

\* A writer whose fixture agrees with what is stored lands it in the end, though the
\* objects were left there by a write() that died or lost its answer.
Agrees(w) ==
  /\ fixture[w].files = fixture[w].manifest.tables
  /\ \A i \in 1..T : bucket[i] \in {Absent, fixture[w].files[i]}
  /\ marker \in {Absent, fixture[w].manifest}
RetryLands ==
  \A w \in Writer : (<>[]Agrees(w)) => <>(marker = fixture[w].manifest)

\* Before its marker a writer has left each object as its fixture lists it.
WriterKnows(w) ==
  /\ writer[w].pc # "off" => writer[w].plan \in Fixture
  /\ writer[w].pc # "off" =>
       \A i \in 1..T : i < writer[w].at => bucket[i] = writer[w].plan.tables[i]
  /\ writer[w].pc = "done" =>
       writer[w].at = T + 1 /\ marker = writer[w].plan

\* A copy under way holds nothing but what the bucket holds.
ReaderKnows(r) ==
  /\ reader[r].pc # "off" => marker # Absent
  /\ \A i \in 1..T : reader[r].copy.tables[i] \in {Absent, bucket[i]}
  /\ reader[r].copy.marker \in {Absent, marker}
  /\ reader[r].pc = "load" => reader[r].copy = [tables |-> bucket, marker |-> marker]

IInv ==
  /\ TypeOK
  /\ MarkerCoversTables
  /\ \A w \in Writer : WriterKnows(w)
  /\ \A r \in Reader : ReaderKnows(r)
  /\ FoundIsLoadable
=============================================================================
