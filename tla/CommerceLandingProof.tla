------------------------- MODULE CommerceLandingProof -------------------------
(* Theorems about CommerceLanding, for every number of tables, writers and    *)
(* readers and for all fixtures.                                              *)
EXTENDS CommerceLanding, TLAPS

\* The initial state satisfies the invariant.
LEMMA InitInv == Init => IInv
<1> SUFFICES ASSUME Init PROVE IInv
  OBVIOUS
<1> USE SizeAssumption, ContentAssumption, FixtureAssumption DEF Init
<1>1. PICK f \in [Writer -> Fixture] :
        fixture = [w \in Writer |-> [manifest |-> f[w], files |-> f[w].tables]]
  OBVIOUS
<1>2. fixture \in [Writer -> [manifest : Fixture, files : [1..T -> Content]]]
  BY <1>1
<1>3. TypeOK
  BY <1>2 DEF TypeOK, Idle, NoCopy, Copy, Object
<1>4. MarkerCoversTables /\ FoundIsLoadable
  BY DEF MarkerCoversTables, FoundIsLoadable
<1>5. \A w \in Writer : WriterKnows(w)
  BY DEF WriterKnows, Idle
<1>6. \A r \in Reader : ReaderKnows(r)
  BY DEF ReaderKnows, NoCopy
<1>7. QED
  BY <1>3, <1>4, <1>5, <1>6 DEF IInv

\* The upload of a table creates what the writer's manifest lists, where nothing was.
LEMMA StoreTable ==
  ASSUME IInv, NEW w \in Writer, writer[w].pc = "put",
         Unchanged(w), ~Taken(w), Store(w), writer[w].at <= T
  PROVE  /\ marker' = marker /\ marker = Absent
         /\ writer[w].at \in 1..T /\ bucket[writer[w].at] = Absent
         /\ bucket' = [bucket EXCEPT ![writer[w].at] = writer[w].plan.tables[writer[w].at]]
         /\ writer[w].plan \in Fixture
<1>1. writer[w].at \in 1..T /\ writer[w].plan \in Fixture
  BY SizeAssumption DEF IInv, TypeOK, WriterKnows
<1>2. bucket[writer[w].at] = Absent /\ marker' = marker
  BY <1>1 DEF Taken, Store
<1>3. bucket' = [bucket EXCEPT ![writer[w].at] = writer[w].plan.tables[writer[w].at]]
  BY <1>1 DEF Store, Unchanged
<1>4. marker = Absent
  <2> SUFFICES ASSUME marker # Absent PROVE FALSE
    OBVIOUS
  <2>1. bucket = marker.tables /\ marker \in Fixture
    BY DEF IInv, TypeOK, MarkerCoversTables
  <2>2. QED
    BY <1>1, <1>2, <2>1, FixtureAssumption, ContentAssumption
<1>5. QED
  BY <1>1, <1>2, <1>3, <1>4

\* Two maps that agree on every table are one.
LEMMA SameTables ==
  ASSUME NEW x \in [1..T -> Object], NEW y \in [1..T -> Object],
         \A i \in 1..T : x[i] = y[i]
  PROVE  x = y
<1>1. x = [i \in 1..T |-> x[i]] /\ y = [i \in 1..T |-> y[i]]
  OBVIOUS
<1>2. [i \in 1..T |-> x[i]] = [i \in 1..T |-> y[i]]
  BY Zenon
<1>3. QED
  BY <1>1, <1>2

\* The marker goes up when every table of the manifest is in place.
LEMMA StoreMarker ==
  ASSUME IInv, NEW w \in Writer, writer[w].pc = "put",
         Unchanged(w), ~Taken(w), Store(w), ~(writer[w].at <= T)
  PROVE  /\ bucket' = bucket /\ marker = Absent /\ marker' = writer[w].plan
         /\ writer[w].at = T + 1 /\ bucket = writer[w].plan.tables
         /\ writer[w].plan \in Fixture
<1>1. writer[w].at = T + 1 /\ writer[w].plan \in Fixture
  BY SizeAssumption DEF IInv, TypeOK, WriterKnows
<1>2. bucket' = bucket /\ marker = Absent /\ marker' = writer[w].plan
  BY DEF Store, Taken, Unchanged
<1>3. \A i \in 1..T : bucket[i] = writer[w].plan.tables[i]
  BY <1>1, SizeAssumption DEF IInv, WriterKnows
<1>4. bucket = writer[w].plan.tables
  <2>1. writer[w].plan.tables \in [1..T -> Object] /\ bucket \in [1..T -> Object]
    BY <1>1, FixtureAssumption DEF IInv, TypeOK, Object
  <2>2. QED
    BY <1>3, <2>1, SameTables
<1>5. QED
  BY <1>1, <1>2, <1>4

\* No step but an upload changes the bucket.
LEMMA BucketEffect ==
  ASSUME IInv, [Next]_vars
  PROVE  \/ bucket' = bucket /\ marker' = marker
         \/ /\ UNCHANGED reader
            /\ \E w \in Writer : /\ writer[w].pc = "put" /\ Unchanged(w) /\ ~Taken(w) /\ Store(w)
                                 /\ Advance(w) \/ Fail(w)
  BY Zenon DEF Next, vars, WriterStep, ReaderStep, Load, Put, PutLost, Compare, Die, EditFile,
         Regenerate, Find, Mirror, Check

\* An object that is there is never replaced, and the marker neither.
LEMMA Immutable ==
  ASSUME IInv, [Next]_vars
  PROVE  /\ \A i \in 1..T : bucket[i] # Absent => bucket'[i] = bucket[i]
         /\ marker # Absent => marker' = marker /\ bucket' = bucket
<1>1. CASE bucket' = bucket /\ marker' = marker
  BY <1>1
<1>2. ASSUME NEW w \in Writer, writer[w].pc = "put", Unchanged(w), ~Taken(w), Store(w)
      PROVE  /\ \A i \in 1..T : bucket[i] # Absent => bucket'[i] = bucket[i]
             /\ marker # Absent => marker' = marker /\ bucket' = bucket
  <2>1. CASE writer[w].at <= T
    BY <1>2, <2>1, StoreTable DEF IInv, TypeOK
  <2>2. CASE ~(writer[w].at <= T)
    BY <1>2, <2>2, StoreMarker
  <2>3. QED
    BY <2>1, <2>2
<1>3. QED
  BY <1>1, <1>2, BucketEffect

\* The moves of a writer.
LEMMA WriterMoves ==
  ASSUME IInv, NEW w \in Writer, Fail(w) \/ Advance(w)
  PROVE  /\ writer' = [writer EXCEPT ![w] = writer'[w]]
         /\ \/ writer'[w] = Idle
            \/ /\ writer[w].at <= T
               /\ writer'[w] = [writer[w] EXCEPT !.pc = "put", !.at = writer[w].at + 1]
            \/ ~(writer[w].at <= T) /\ writer'[w] = [writer[w] EXCEPT !.pc = "done"]
<1>0. writer \in [Writer -> [pc : {"off", "put", "compare", "done"}, at : 1..(T + 1),
                            plan : Fixture \cup {Absent}]]
  BY DEF IInv, TypeOK
<1>1. CASE Fail(w)
  BY <1>0, <1>1 DEF Fail
<1>2. CASE Advance(w)
  BY <1>0, <1>2 DEF Advance
<1>3. QED
  BY <1>1, <1>2

\* Every variable keeps its type.
LEMMA NextType == IInv /\ [Next]_vars => TypeOK'
<1> SUFFICES ASSUME IInv, [Next]_vars PROVE TypeOK'
  OBVIOUS
<1> USE SizeAssumption
<1>0. TypeOK
  BY DEF IInv
<1>1. bucket' \in [1..T -> Object] /\ marker' \in Fixture \cup {Absent}
  <2>1. ASSUME NEW w \in Writer, writer[w].pc = "put", Unchanged(w), ~Taken(w), Store(w)
        PROVE  bucket' \in [1..T -> Object] /\ marker' \in Fixture \cup {Absent}
    <3>1. CASE writer[w].at <= T
      <4>1. writer[w].plan.tables[writer[w].at] \in Object
        BY <2>1, <3>1, StoreTable, FixtureAssumption DEF Object
      <4>2. QED
        BY <1>0, <2>1, <3>1, <4>1, StoreTable DEF TypeOK
    <3>2. CASE ~(writer[w].at <= T)
      BY <1>0, <2>1, <3>2, StoreMarker DEF TypeOK
    <3>3. QED
      BY <3>1, <3>2
  <2>2. QED
    BY <1>0, <2>1, BucketEffect DEF TypeOK
<1>2. writer' \in [Writer -> [pc : {"off", "put", "compare", "done"}, at : 1..(T + 1),
                              plan : Fixture \cup {Absent}]]
  <2>1. ASSUME NEW w \in Writer, WriterStep(w)
        PROVE  writer' \in [Writer -> [pc : {"off", "put", "compare", "done"},
                                      at : 1..(T + 1), plan : Fixture \cup {Absent}]]
    <3>0. /\ writer[w] \in [pc : {"off", "put", "compare", "done"}, at : 1..(T + 1),
                           plan : Fixture \cup {Absent}]
          /\ fixture[w].manifest \in Fixture
      BY <1>0 DEF TypeOK
    <3>1. ASSUME NEW x \in [pc : {"off", "put", "compare", "done"}, at : 1..(T + 1),
                           plan : Fixture \cup {Absent}],
                 writer' = [writer EXCEPT ![w] = x]
          PROVE  writer' \in [Writer -> [pc : {"off", "put", "compare", "done"},
                                        at : 1..(T + 1), plan : Fixture \cup {Absent}]]
      BY <1>0, <3>1 DEF TypeOK
    <3>2. Idle \in [pc : {"off", "put", "compare", "done"}, at : 1..(T + 1),
                   plan : Fixture \cup {Absent}]
      BY DEF Idle
    <3>3. CASE Fail(w) \/ Advance(w)
      <4>1. CASE writer'[w] = Idle
        BY <3>1, <3>2, <3>3, <4>1, WriterMoves
      <4>2. CASE writer[w].at <= T
                 /\ writer'[w] = [writer[w] EXCEPT !.pc = "put", !.at = writer[w].at + 1]
        <5>1. writer[w].at + 1 \in 1..(T + 1)
          BY <3>0, <4>2
        <5>2. writer'[w] \in [pc : {"off", "put", "compare", "done"}, at : 1..(T + 1),
                             plan : Fixture \cup {Absent}]
          BY <3>0, <4>2, <5>1
        <5>3. QED
          BY <3>1, <3>3, <5>2, WriterMoves
      <4>3. CASE writer'[w] = [writer[w] EXCEPT !.pc = "done"]
        <5>1. writer'[w] \in [pc : {"off", "put", "compare", "done"}, at : 1..(T + 1),
                             plan : Fixture \cup {Absent}]
          BY <3>0, <4>3
        <5>2. QED
          BY <3>1, <3>3, <5>1, WriterMoves
      <4>4. QED
        BY <3>3, <4>1, <4>2, <4>3, WriterMoves
    <3>4. CASE writer' = [writer EXCEPT ![w] = [pc |-> "put", at |-> 1, plan |-> fixture[w].manifest]]
      <4>1. [pc |-> "put", at |-> 1, plan |-> fixture[w].manifest]
              \in [pc : {"off", "put", "compare", "done"}, at : 1..(T + 1),
                   plan : Fixture \cup {Absent}]
        BY <3>0
      <4>2. QED
        BY <3>1, <3>4, <4>1
    <3>5. CASE writer' = [writer EXCEPT ![w].pc = "compare"]
      BY <1>0, <3>5 DEF TypeOK
    <3>6. QED
      BY <2>1, <3>3, <3>4, <3>5 DEF WriterStep, Load, Put, PutLost, Compare, Die
  <2>2. QED
    BY <1>0, <2>1 DEF Next, vars, TypeOK, EditFile, Regenerate, ReaderStep, Find, Mirror, Check
<1>3. fixture' \in [Writer -> [manifest : Fixture, files : [1..T -> Content]]]
  <2>1. ASSUME NEW w \in Writer, NEW i \in 1..T, NEW c \in Content, EditFile(w, i, c)
        PROVE  fixture' \in [Writer -> [manifest : Fixture, files : [1..T -> Content]]]
    BY <1>0, <2>1 DEF EditFile, TypeOK
  <2>2. ASSUME NEW w \in Writer, NEW f \in Fixture, Regenerate(w, f)
        PROVE  fixture' \in [Writer -> [manifest : Fixture, files : [1..T -> Content]]]
    BY <1>0, <2>2, FixtureAssumption DEF Regenerate, TypeOK
  <2>3. QED
    BY <1>0, <2>1, <2>2 DEF Next, vars, TypeOK, WriterStep, ReaderStep, Load, Put, PutLost,
       Compare, Die, Find, Mirror, Check
<1>4. reader' \in [Reader -> [pc : {"off", "mirror", "load", "loaded", "refused"}, copy : Copy]]
  <2>1. ASSUME NEW r \in Reader, ReaderStep(r)
        PROVE  reader' \in [Reader -> [pc : {"off", "mirror", "load", "loaded", "refused"},
                                      copy : Copy]]
    <3>1. reader[r] \in [pc : {"off", "mirror", "load", "loaded", "refused"}, copy : Copy]
      BY <1>0 DEF TypeOK
    <3>2. CASE Find(r) \/ Check(r)
      <4>1. PICK pc \in {"mirror", "loaded", "refused"} : reader' = [reader EXCEPT ![r].pc = pc]
        BY <3>2 DEF Find, Check
      <4>2. QED
        BY <1>0, <4>1 DEF TypeOK
    <3>3. CASE \E i \in 1..T : reader' = [reader EXCEPT ![r].copy.tables[i] = bucket[i]]
      <4>1. PICK i \in 1..T : reader' = [reader EXCEPT ![r].copy.tables[i] = bucket[i]]
        BY <3>3
      <4>2. [reader[r].copy EXCEPT !.tables[i] = bucket[i]] \in Copy
        BY <1>0, <3>1 DEF TypeOK, Copy
      <4>3. [reader[r] EXCEPT !.copy = [reader[r].copy EXCEPT !.tables[i] = bucket[i]]]
              \in [pc : {"off", "mirror", "load", "loaded", "refused"}, copy : Copy]
        BY <3>1, <4>2
      <4>4. QED
        BY <1>0, <4>1, <4>3 DEF TypeOK
    <3>4. CASE reader' = [reader EXCEPT ![r].copy.marker = marker]
      <4>1. [reader[r].copy EXCEPT !.marker = marker] \in Copy
        BY <1>0, <3>1 DEF TypeOK, Copy
      <4>2. [reader[r] EXCEPT !.copy = [reader[r].copy EXCEPT !.marker = marker]]
              \in [pc : {"off", "mirror", "load", "loaded", "refused"}, copy : Copy]
        BY <3>1, <4>1
      <4>3. QED
        BY <1>0, <3>4, <4>2 DEF TypeOK
    <3>5. CASE reader' = [reader EXCEPT ![r].pc = "load"]
      BY <1>0, <3>5 DEF TypeOK
    <3>6. QED
      BY <2>1, <3>2, <3>3, <3>4, <3>5 DEF ReaderStep, Mirror
  <2>2. QED
    BY <1>0, <2>1 DEF Next, vars, TypeOK, EditFile, Regenerate, WriterStep, Load, Put, PutLost,
       Compare, Die
<1>5. faults' \in 0..MaxFaults
  BY <1>0 DEF Next, vars, TypeOK, EditFile, Regenerate, WriterStep, ReaderStep, Load, Put,
     PutLost, Compare, Die, Find, Mirror, Check
<1>6. QED
  BY <1>1, <1>2, <1>3, <1>4, <1>5 DEF TypeOK

\* The marker still covers the tables after every step.
LEMMA MarkerNext == IInv /\ [Next]_vars => MarkerCoversTables'
<1> SUFFICES ASSUME IInv, [Next]_vars PROVE MarkerCoversTables'
  OBVIOUS
<1>1. CASE bucket' = bucket /\ marker' = marker
  BY <1>1 DEF IInv, MarkerCoversTables
<1>2. ASSUME NEW w \in Writer, writer[w].pc = "put", Unchanged(w), ~Taken(w), Store(w)
      PROVE  MarkerCoversTables'
  BY <1>2, StoreTable, StoreMarker DEF MarkerCoversTables
<1>3. QED
  BY <1>1, <1>2, BucketEffect

\* A writer that does not move keeps what it knows: what it relies on is immutable.
LEMMA WriterKept ==
  ASSUME IInv, [Next]_vars, NEW w \in Writer, writer'[w] = writer[w]
  PROVE  WriterKnows(w)'
<1>1. WriterKnows(w) /\ writer[w].at \in 1..(T + 1)
  BY DEF IInv, TypeOK
<1>2. ASSUME writer[w].pc # "off", NEW i \in 1..T, i < writer[w].at
      PROVE  bucket'[i] = writer[w].plan.tables[i]
  <2>1. bucket[i] = writer[w].plan.tables[i] /\ writer[w].plan \in Fixture
    BY <1>1, <1>2 DEF WriterKnows
  <2>2. bucket[i] # Absent
    BY <2>1, FixtureAssumption, ContentAssumption
  <2>3. QED
    BY <2>1, <2>2, Immutable
<1>3. writer[w].pc = "done" => marker' = writer[w].plan
  BY <1>1, Immutable, ContentAssumption DEF WriterKnows
<1>4. QED
  BY <1>1, <1>2, <1>3 DEF WriterKnows

\* A writer knows that all it has passed is in place.
LEMMA WriterNext == IInv /\ [Next]_vars => (\A w \in Writer : WriterKnows(w))'
<1> SUFFICES ASSUME IInv, [Next]_vars, NEW w \in Writer PROVE WriterKnows(w)'
  OBVIOUS
<1> USE SizeAssumption
<1>0. TypeOK /\ WriterKnows(w)
  BY DEF IInv
<1>1. CASE writer'[w] = writer[w]
  BY <1>1, WriterKept
<1>2. CASE Load(w)
  BY <1>0, <1>2 DEF Load, Fail, Idle, TypeOK, WriterKnows
<1>3. CASE writer' = [writer EXCEPT ![w].pc = "compare"] /\ writer[w].pc = "put"
           /\ UNCHANGED <<bucket, marker>>
  BY <1>0, <1>3 DEF TypeOK, WriterKnows
<1>4. CASE Fail(w)
  BY <1>0, <1>4 DEF Fail, Idle, TypeOK, WriterKnows
<1>5. CASE Advance(w) /\ writer[w].pc # "off"
           /\ (writer[w].at <= T => bucket'[writer[w].at] = writer[w].plan.tables[writer[w].at])
           /\ (~(writer[w].at <= T) => marker' = writer[w].plan)
  <2>1. writer[w].plan \in Fixture /\ writer[w].at \in 1..(T + 1)
    BY <1>0, <1>5 DEF TypeOK, WriterKnows
  <2>2. ASSUME NEW i \in 1..T, i < writer[w].at PROVE bucket'[i] = writer[w].plan.tables[i]
    <3>1. bucket[i] = writer[w].plan.tables[i]
      BY <1>0, <1>5, <2>2 DEF WriterKnows
    <3>2. bucket[i] # Absent
      BY <2>1, <3>1, FixtureAssumption, ContentAssumption
    <3>3. QED
      BY <3>1, <3>2, Immutable
  <2>3. CASE writer[w].at <= T
    <3>1. /\ writer'[w].pc = "put" /\ writer'[w].at = writer[w].at + 1
          /\ writer'[w].plan = writer[w].plan
      BY <1>0, <1>5, <2>3 DEF Advance, TypeOK
    <3>2. ASSUME NEW i \in 1..T, i < writer[w].at + 1
          PROVE  bucket'[i] = writer[w].plan.tables[i]
      BY <1>5, <2>1, <2>2, <2>3, <3>2
    <3>3. QED
      BY <2>1, <3>1, <3>2 DEF WriterKnows
  <2>4. CASE ~(writer[w].at <= T)
    <3>1. /\ writer'[w].pc = "done" /\ writer'[w].at = writer[w].at
          /\ writer'[w].plan = writer[w].plan
      BY <1>0, <1>5, <2>4 DEF Advance, TypeOK
    <3>2. QED
      BY <1>5, <2>1, <2>2, <2>4, <3>1 DEF WriterKnows
  <2>5. QED
    BY <2>3, <2>4
<1>6. CASE Put(w)
  <2>1. CASE Unchanged(w) /\ ~Taken(w) /\ Store(w) /\ Advance(w)
    <3>1. writer[w].at <= T => bucket'[writer[w].at] = writer[w].plan.tables[writer[w].at]
      BY <1>0, <1>6, <2>1, StoreTable DEF Put, TypeOK
    <3>2. ~(writer[w].at <= T) => marker' = writer[w].plan
      BY <1>6, <2>1, StoreMarker DEF Put
    <3>3. QED
      BY <1>5, <1>6, <2>1, <3>1, <3>2 DEF Put
  <2>2. QED
    BY <1>3, <1>4, <1>6, <2>1 DEF Put
<1>7. CASE Compare(w)
  <2>1. CASE Same(w) /\ Advance(w)
    BY <1>5, <1>7, <2>1 DEF Compare, Same
  <2>2. QED
    BY <1>4, <1>7, <2>1 DEF Compare
<1>8. ASSUME NEW v \in Writer, WriterStep(v), v # w PROVE WriterKnows(w)'
  <2>1. writer'[w] = writer[w]
    BY <1>0, <1>8 DEF WriterStep, Load, Put, PutLost, Compare, Die, Fail, Advance, TypeOK
  <2>2. QED
    BY <1>1, <2>1
<1>9. CASE ~(\E v \in Writer : WriterStep(v))
  <2>1. writer' = writer
    BY <1>9 DEF Next, vars, EditFile, Regenerate, ReaderStep, Find, Mirror, Check
  <2>2. QED
    BY <1>1, <2>1
<1>10. QED
  BY <1>2, <1>4, <1>6, <1>7, <1>8, <1>9 DEF WriterStep, PutLost, Die

\* A reader that does not move keeps what it knows: objects it copied stay.
LEMMA ReaderKept ==
  ASSUME IInv, [Next]_vars, NEW r \in Reader, reader'[r] = reader[r]
  PROVE  ReaderKnows(r)'
<1>1. ReaderKnows(r)
  BY DEF IInv
<1>2. reader[r].pc # "off" => marker' # Absent /\ marker' = marker /\ bucket' = bucket
  BY <1>1, Immutable DEF ReaderKnows
<1>3. ASSUME NEW i \in 1..T PROVE reader[r].copy.tables[i] \in {Absent, bucket'[i]}
  BY <1>1, Immutable DEF ReaderKnows
<1>4. reader[r].copy.marker \in {Absent, marker'}
  BY <1>1, Immutable DEF ReaderKnows
<1>5. QED
  BY <1>1, <1>2, <1>3, <1>4 DEF ReaderKnows

\* The effect of a step of a reader on that reader.
LEMMA ReaderMoves ==
  ASSUME IInv, NEW r \in Reader, ReaderStep(r)
  PROVE  /\ bucket' = bucket /\ marker' = marker /\ marker # Absent
         /\ \A q \in Reader : q # r => reader'[q] = reader[q]
         /\ \/ reader'[r].pc \in {"mirror", "loaded", "refused"} /\ reader'[r].copy = reader[r].copy
            \/ /\ reader'[r].pc = "mirror"
               /\ reader'[r].copy.marker = reader[r].copy.marker
               /\ \A i \in 1..T :
                    reader'[r].copy.tables[i] \in {reader[r].copy.tables[i], bucket[i]}
            \/ /\ reader'[r].pc = "mirror"
               /\ reader'[r].copy.marker = marker
               /\ reader'[r].copy.tables = reader[r].copy.tables
            \/ /\ reader'[r].pc = "load" /\ reader'[r].copy = reader[r].copy
               /\ reader[r].copy = [tables |-> bucket, marker |-> marker]
         /\ reader'[r].pc = "refused" =>
              reader[r].pc = "load"
              /\ ~(reader[r].copy.marker # Absent
                   /\ reader[r].copy.tables = reader[r].copy.marker.tables)
<1>1. /\ reader \in [Reader -> [pc : {"off", "mirror", "load", "loaded", "refused"}, copy : Copy]]
      /\ reader[r] \in [pc : {"off", "mirror", "load", "loaded", "refused"}, copy : Copy]
      /\ reader[r].copy \in Copy /\ ReaderKnows(r)
  BY DEF IInv, TypeOK
<1>2. CASE Find(r)
  BY <1>1, <1>2 DEF Find
<1>3. CASE Check(r)
  BY <1>1, <1>3 DEF Check, ReaderKnows
<1>4. ASSUME reader[r].pc = "mirror", UNCHANGED <<bucket, marker>>, NEW i \in 1..T,
             reader' = [reader EXCEPT ![r].copy.tables[i] = bucket[i]]
      PROVE  /\ reader'[r].pc = "mirror" /\ reader'[r].copy.marker = reader[r].copy.marker
             /\ \A j \in 1..T :
                  reader'[r].copy.tables[j] \in {reader[r].copy.tables[j], bucket[j]}
             /\ \A q \in Reader : q # r => reader'[q] = reader[q]
  BY <1>1, <1>4 DEF Copy
<1>5. CASE Mirror(r)
  <2>1. marker # Absent /\ UNCHANGED <<bucket, marker>> /\ reader[r].pc = "mirror"
    BY <1>1, <1>5 DEF Mirror, ReaderKnows
  <2>2. CASE \E i \in 1..T : reader' = [reader EXCEPT ![r].copy.tables[i] = bucket[i]]
    BY <1>4, <2>1, <2>2
  <2>3. CASE reader' = [reader EXCEPT ![r].copy.marker = marker]
    BY <1>1, <2>1, <2>3 DEF Copy
  <2>4. CASE reader' = [reader EXCEPT ![r].pc = "load"]
             /\ reader[r].copy = [tables |-> bucket, marker |-> marker]
    BY <1>1, <2>1, <2>4
  <2>5. QED
    BY <1>5, <2>2, <2>3, <2>4 DEF Mirror
<1>6. QED
  BY <1>2, <1>3, <1>5 DEF ReaderStep

\* A copy holds only what the bucket holds, and a whole copy is never refused.
LEMMA ReaderNext ==
  ASSUME IInv, [Next]_vars
  PROVE  /\ \A r \in Reader : ReaderKnows(r)'
         /\ FoundIsLoadable'
<1>1. ASSUME NEW r \in Reader, ReaderStep(r)
      PROVE  ReaderKnows(r)' /\ reader'[r].pc # "refused"
  <2>1. ReaderKnows(r) /\ MarkerCoversTables
    BY DEF IInv
  <2>2. ReaderKnows(r)'
    BY <1>1, <2>1, ReaderMoves DEF ReaderKnows
  <2>3. reader'[r].pc # "refused"
    BY <1>1, <2>1, ReaderMoves DEF ReaderKnows, MarkerCoversTables
  <2>4. QED
    BY <2>2, <2>3
<1>2. ASSUME NEW r \in Reader, reader'[r] = reader[r]
      PROVE  ReaderKnows(r)' /\ reader'[r].pc # "refused"
  BY <1>2, ReaderKept DEF IInv, FoundIsLoadable
<1>3. ASSUME NEW r \in Reader PROVE reader'[r] = reader[r] \/ ReaderStep(r)
  <2>1. CASE \E q \in Reader : ReaderStep(q)
    BY <2>1, ReaderMoves
  <2>2. CASE ~(\E q \in Reader : ReaderStep(q))
    BY <2>2 DEF Next, vars, EditFile, Regenerate, WriterStep, Load, Put, PutLost, Compare, Die
  <2>3. QED
    BY <2>1, <2>2
<1>4. QED
  BY <1>1, <1>2, <1>3 DEF FoundIsLoadable

\* The invariant is inductive.
THEOREM Invariant == Spec => []IInv
<1>1. IInv /\ [Next]_vars => IInv'
  BY NextType, MarkerNext, WriterNext, ReaderNext DEF IInv
<1>2. QED
  BY InitInv, <1>1, PTL DEF Spec

\* The commit marker never covers a missing or a foreign table.
THEOREM MarkerCovers == Spec => []MarkerCoversTables
<1>1. IInv => MarkerCoversTables
  BY DEF IInv
<1>2. QED
  BY <1>1, Invariant, PTL

\* write() returns only when the bucket holds what it was given.
THEOREM ReturnedLanded == Spec => []ReturnedIsLanded
<1>1. ASSUME IInv, NEW w \in Writer, writer[w].pc = "done"
      PROVE  marker = writer[w].plan /\ bucket = writer[w].plan.tables
  <2>1. WriterKnows(w) /\ MarkerCoversTables
    BY <1>1 DEF IInv
  <2>2. marker = writer[w].plan /\ writer[w].plan \in Fixture
    BY <1>1, <2>1 DEF WriterKnows
  <2>3. QED
    BY <2>1, <2>2, ContentAssumption DEF MarkerCoversTables
<1>2. IInv => ReturnedIsLanded
  BY <1>1 DEF ReturnedIsLanded
<1>3. QED
  BY <1>2, Invariant, PTL

\* Bronze never refuses a copy of a batch whose marker was found.
THEOREM FoundLoadable == Spec => []FoundIsLoadable
<1>1. IInv => FoundIsLoadable
  BY DEF IInv
<1>2. QED
  BY <1>1, Invariant, PTL

\* Writers that race, die and lose answers still implement the promise: the batch
\* appears at once and never changes.
THEOREM Refinement == Spec => ImplementsPromise
<1>1. Init => Promise!Init
  BY DEF Init, Promise!Init
<1>2. IInv /\ [Next]_vars => [Promise!Next]_(IF marker = Absent THEN Absent ELSE bucket)
  <2> SUFFICES ASSUME IInv, [Next]_vars
               PROVE  [Promise!Next]_(IF marker = Absent THEN Absent ELSE bucket)
    OBVIOUS
  <2>1. CASE marker # Absent
    BY <2>1, Immutable
  <2>2. CASE marker = Absent /\ marker' = Absent
    BY <2>2
  <2>3. CASE marker = Absent /\ marker' # Absent
    <3>1. MarkerCoversTables' /\ marker' \in Fixture
      BY <2>3, MarkerNext, NextType DEF TypeOK
    <3>2. bucket' \in {f.tables : f \in Fixture}
      BY <2>3, <3>1 DEF MarkerCoversTables
    <3>3. QED
      BY <2>3, <3>2 DEF Promise!Next, Promise!Land
  <2>4. QED
    BY <2>1, <2>2, <2>3
<1>3. QED
  BY <1>1, <1>2, Invariant, PTL DEF Spec, ImplementsPromise, Promise!Spec

=============================================================================
