------------------------- MODULE WeatherPipelineProof -------------------------
(* Theorems about WeatherPipeline, for any number of workers, of forecasts and  *)
(* of damaged objects.                                                       *)
EXTENDS WeatherPipeline, FiniteSetTheorems, TLAPS

\* The bounds are numbers.
LEMMA Bounds ==
  /\ Workers \in Nat /\ MaxFetch \in Nat /\ MaxDay \in Nat /\ 1 \in Date
  /\ MaxAttempts \in Nat /\ 1 \in 1..MaxAttempts /\ MaxFaults \in Nat
  BY PipelineAssumption DEF Date

\* What a call that is under way is.
LEMMA CallKinds ==
  ASSUME TypeOK, NEW x \in calls
  PROVE  /\ x.pc = "fetch" => x \in Fetching
         /\ x.pc # "fetch" => x \in Landing
         /\ x \in Fetching => x.pc = "fetch" /\ x.tries \in 1..MaxAttempts /\ x.id \in Nat
         /\ x \in Landing => /\ x.pc \in {"write", "publish", "replay"} /\ x.content \in Content
                             /\ x.stamp \in 1..clock.stamp /\ x.day \in Date /\ x.id \in Nat
  BY DEF TypeOK, Fetching, Landing, Stamp

\* The object that a call lands.
LEMMA NewType ==
  ASSUME TypeOK, NEW x \in calls, x.pc # "fetch"
  PROVE  /\ NewObject(x) \in Object /\ NewObject(x).form = "good"
         /\ Key(NewObject(x)) = Key(x) /\ NewObject(x).stamp = x.stamp
<1>1. x \in Landing /\ x.stamp \in 1..clock.stamp
  BY CallKinds
<1>2. clock.stamp \in 0..fetches /\ fetches \in 0..MaxFetch
  BY DEF TypeOK
<1>3. x.stamp \in 1..MaxFetch
  BY <1>1, <1>2, Bounds
<1>4. QED
  BY <1>1, <1>3 DEF NewObject, Object, Landing, Key

-----------------------------------------------------------------------------
(* The landing zone.                                                       *)

\* A step adds an object at a key that has none, damages one, or leaves all as they are.
LEMMA Lands ==
  ASSUME TypeOK, [Next]_vars
  PROVE  \/ UNCHANGED landing
         \/ \E x \in calls : /\ x.pc # "fetch" /\ AtKey(x) = {}
                             /\ landing' = landing \cup {NewObject(x)}
         \/ \E o \in landing, form \in {"altered", "broken"} : Damage(o, form)
<1>1. CASE UNCHANGED vars
  BY <1>1 DEF vars, store
<1>2. CASE StartFetch
  BY <1>2 DEF StartFetch, store
<1>3. ASSUME NEW x \in calls, Call(x)
      PROVE  \/ UNCHANGED landing
             \/ /\ x.pc # "fetch" /\ AtKey(x) = {}
                /\ landing' = landing \cup {NewObject(x)}
  BY <1>3 DEF Call, FetchAnswers, FetchRetries, FetchFails, Look, Publish, Prepared, AnswerLost,
     Replay, WorkerDies, store
<1>4. CASE \E o \in landing, form \in {"altered", "broken"} : Damage(o, form)
  BY <1>4
<1>5. CASE Audit \/ Copy \/ Bronze \/ JobDies \/ \E j \in SilverJob : Silver(j)
  BY <1>5 DEF Audit, AuditBegins, AuditEnds, AuditReads, Copy, Sync, Bronze, ReadInput,
     MergeBronze, JobDies, Silver, ReadBronze, MergeSilver, MergeRejects, store
<1>6. QED
  BY <1>1, <1>2, <1>3, <1>4, <1>5 DEF Next

\* An object that somebody damages keeps its key and its stamp.
LEMMA DamageKeeps ==
  ASSUME TypeOK, NEW o \in landing, NEW form \in {"altered", "broken"}, Damage(o, form)
  PROVE  LET n == [o EXCEPT !.form = form]
         IN  /\ landing' = (landing \ {o}) \cup {n} /\ n \in Object
             /\ Key(n) = Key(o) /\ n.stamp = o.stamp /\ n.form # "good"
<1>1. o \in Object
  BY DEF TypeOK
<1>2. QED
  BY <1>1 DEF Damage, Object, Key

\* Every object stays at its key with its stamp, and stays damaged when it is.
LEMMA ObjectsStay ==
  ASSUME TypeOK, [Next]_vars, NEW o \in landing
  PROVE  \E p \in landing' : Key(p) = Key(o) /\ p.stamp = o.stamp
                             /\ (o.form # "good" => p.form # "good")
<1>1. CASE UNCHANGED landing
  BY <1>1
<1>2. ASSUME NEW x \in calls, landing' = landing \cup {NewObject(x)}
      PROVE  o \in landing'
  BY <1>2
<1>3. ASSUME NEW q \in landing, NEW form \in {"altered", "broken"}, Damage(q, form)
      PROVE  \E p \in landing' : Key(p) = Key(o) /\ p.stamp = o.stamp
                                 /\ (o.form # "good" => p.form # "good")
  <2> DEFINE n == [q EXCEPT !.form = form]
  <2>1. /\ landing' = (landing \ {q}) \cup {n}
        /\ Key(n) = Key(q) /\ n.stamp = q.stamp /\ n.form # "good"
    BY <1>3, DamageKeeps
  <2> HIDE DEF n
  <2>2. QED
    BY <2>1
<1>4. QED
  BY <1>1, <1>2, <1>3, Lands

\* No two objects share a key.
LEMMA OneObjectInv == TypeOK /\ OneObject /\ [Next]_vars => OneObject'
<1> SUFFICES ASSUME TypeOK, OneObject, [Next]_vars PROVE OneObject'
  OBVIOUS
<1>1. CASE UNCHANGED landing
  BY <1>1 DEF OneObject, Key
<1>2. ASSUME NEW x \in calls, x.pc # "fetch", AtKey(x) = {}, landing' = landing \cup {NewObject(x)}
      PROVE  OneObject'
  <2>1. Key(NewObject(x)) = Key(x)
    BY <1>2, NewType
  <2>2. \A o \in landing : Key(o) # Key(x)
    BY <1>2 DEF AtKey
  <2>3. ASSUME NEW p \in landing', NEW q \in landing', Key(p) = Key(q)
        PROVE  p = q
    BY <1>2, <2>1, <2>2, <2>3, Zenon DEF OneObject
  <2>4. QED
    BY <2>3 DEF OneObject, Key
<1>3. ASSUME NEW o \in landing, NEW form \in {"altered", "broken"}, Damage(o, form)
      PROVE  OneObject'
  <2> DEFINE n == [o EXCEPT !.form = form]
  <2>1. landing' = (landing \ {o}) \cup {n} /\ Key(n) = Key(o)
    BY <1>3, DamageKeeps
  <2> HIDE DEF n
  <2>2. ASSUME NEW p \in landing', NEW q \in landing', Key(p) = Key(q)
        PROVE  p = q
    BY <2>1, <2>2, Zenon DEF OneObject
  <2>3. QED
    BY <2>2 DEF OneObject, Key
<1>4. QED
  BY <1>1, <1>2, <1>3, Lands

\* A result that is new has its object: the one just created, or one that was audited.
LEMMA AckedExistInv == IInv /\ [Next]_vars => AckedExist'
<1> SUFFICES ASSUME IInv, [Next]_vars PROVE AckedExist'
  OBVIOUS
<1>1. TypeOK
  BY DEF IInv
<1>2. ASSUME NEW a \in acks
      PROVE  \E o \in landing' : Key(o) = Key(a) /\ (a.created => o.stamp = a.stamp)
  <2>1. PICK o \in landing : Key(o) = Key(a) /\ (a.created => o.stamp = a.stamp)
    BY DEF IInv, AckedExist
  <2>2. QED
    BY <1>1, <2>1, ObjectsStay
<1>3. ASSUME NEW a \in acks' \ acks
      PROVE  \E o \in landing' : Key(o) = Key(a) /\ (a.created => o.stamp = a.stamp)
  <2>1. PICK x \in calls : Publish(x) \/ Replay(x)
    BY <1>3 DEF Next, vars, StartFetch, Call, FetchAnswers, FetchRetries, FetchFails, Look,
       AnswerLost, WorkerDies, Damage, Audit, AuditBegins, AuditEnds, AuditReads, Copy, Sync,
       Bronze, ReadInput, MergeBronze, JobDies, Silver, ReadBronze, MergeSilver, MergeRejects,
       store
  <2>2. CASE Publish(x)
    <3>1. a = Ack(x, TRUE) /\ landing' = landing \cup {NewObject(x)} /\ x.pc # "fetch"
      BY <1>3, <2>2 DEF Publish, Prepared
    <3>2. Key(NewObject(x)) = Key(x) /\ NewObject(x).stamp = x.stamp
      BY <1>1, <3>1, NewType
    <3>3. Key(a) = Key(x) /\ a.stamp = x.stamp
      BY <3>1 DEF Ack, Key
    <3>4. QED
      BY <3>1, <3>2, <3>3
  <2>3. CASE Replay(x)
    <3>1. a = Ack(x, FALSE) /\ x.pc = "replay" /\ UNCHANGED landing
      BY <1>3, <2>3 DEF Replay
    <3>2. PICK o \in landing : Key(o) = Key(x)
      BY <3>1 DEF IInv, ReplaysExist, AtKey
    <3>3. Key(a) = Key(x) /\ a.created = FALSE
      BY <3>1 DEF Ack, Key
    <3>4. QED
      BY <3>1, <3>2, <3>3
  <2>4. QED
    BY <2>1, <2>2, <2>3
<1>4. QED
  BY <1>2, <1>3 DEF AckedExist, Key

-----------------------------------------------------------------------------
(* The calls.                                                              *)

\* A step of a call ends it, answers it, tries again or goes on landing at the same key; it
\* meets an object there before it audits one.
LEMMA CallMoves ==
  ASSUME TypeOK, NEW x \in calls, Call(x)
  PROVE  /\ UNCHANGED fetches
         /\ \/ Over(x) /\ UNCHANGED clock
            \/ \E c \in Content, d \in Date : FetchAnswers(x, c, d)
            \/ /\ x.pc = "fetch" /\ UNCHANGED clock
               /\ \E y \in Fetching : Goes(x, y)
            \/ /\ x.pc # "fetch" /\ UNCHANGED clock
               /\ \E y \in Landing : /\ Goes(x, y) /\ Key(y) = Key(x)
                                     /\ y.pc = "replay" => \E o \in landing' : Key(o) = Key(x)
<1> USE CallKinds
<1>1. CASE FetchFails(x) \/ Replay(x) \/ WorkerDies(x)
  BY <1>1 DEF FetchFails, Replay, WorkerDies
<1>2. CASE \E c \in Content, d \in 1..MaxDay : FetchAnswers(x, c, d)
  BY <1>2 DEF FetchAnswers, Date
<1>3. CASE FetchRetries(x)
  <2>1. x \in Fetching /\ x.tries # MaxAttempts /\ x.tries \in 1..MaxAttempts
    BY <1>3 DEF FetchRetries, LastAttempt
  <2>2. x.tries + 1 \in 1..MaxAttempts
    BY <2>1, Bounds
  <2>3. [x EXCEPT !.tries = x.tries + 1] \in Fetching
    BY <2>1, <2>2 DEF Fetching
  <2>4. Goes(x, [x EXCEPT !.tries = x.tries + 1]) /\ x.pc = "fetch" /\ UNCHANGED <<clock, fetches>>
    BY <1>3 DEF FetchRetries
  <2>5. QED
    BY <2>3, <2>4
<1>4. ASSUME x.pc # "fetch", NEW pc \in {"publish", "replay"}
      PROVE  /\ [x EXCEPT !.pc = pc] \in Landing /\ Key([x EXCEPT !.pc = pc]) = Key(x)
             /\ [x EXCEPT !.pc = pc].pc = pc
  <2>1. x \in Landing
    BY <1>4
  <2>2. QED
    BY <2>1 DEF Landing, Key
<1>5. CASE Look(x)
  <2>1. CASE AtKey(x) # {}
    <3>1. x.pc = "write" /\ Goes(x, [x EXCEPT !.pc = "replay"]) /\ UNCHANGED <<clock, fetches, landing>>
      BY <1>5, <2>1 DEF Look, store
    <3>2. \E o \in landing' : Key(o) = Key(x)
      BY <2>1, <3>1 DEF AtKey
    <3>3. QED
      BY <1>4, <3>1, <3>2
  <2>2. CASE AtKey(x) = {}
    <3>1. x.pc = "write" /\ Goes(x, [x EXCEPT !.pc = "publish"]) /\ UNCHANGED <<clock, fetches>>
      BY <1>5, <2>2 DEF Look
    <3>2. QED
      BY <1>4, <3>1
  <2>3. QED
    BY <2>1, <2>2
<1>6. CASE Publish(x)
  <2>1. CASE AtKey(x) # {}
    <3>1. /\ x.pc # "fetch" /\ Goes(x, [x EXCEPT !.pc = "replay"])
          /\ UNCHANGED <<clock, fetches, landing>>
      BY <1>6, <2>1 DEF Publish, Prepared
    <3>2. \E o \in landing' : Key(o) = Key(x)
      BY <2>1, <3>1 DEF AtKey
    <3>3. QED
      BY <1>4, <3>1, <3>2
  <2>2. CASE AtKey(x) = {}
    BY <1>6, <2>2 DEF Publish
  <2>3. QED
    BY <2>1, <2>2
<1>7. CASE AnswerLost(x)
  <2>1. /\ x.pc = "write" /\ Goes(x, [x EXCEPT !.pc = "replay"]) /\ UNCHANGED <<clock, fetches>>
        /\ landing' = landing \cup {NewObject(x)}
    BY <1>7 DEF AnswerLost
  <2>2. \E o \in landing' : Key(o) = Key(x)
    BY <2>1, NewType
  <2>3. QED
    BY <1>4, <2>1, <2>2
<1>8. QED
  BY <1>1, <1>2, <1>3, <1>5, <1>6, <1>7 DEF Call

\* Nothing else moves a call.
LEMMA OthersCall ==
  ASSUME [Next]_vars
  PROVE  UNCHANGED <<calls, fetches, clock>> \/ StartFetch \/ \E x \in calls : Call(x)
  BY DEF Next, vars, Damage, Audit, AuditBegins, AuditEnds, AuditReads, Copy, Sync, Bronze,
     ReadInput, MergeBronze, JobDies, Silver, ReadBronze, MergeSilver, MergeRejects, source

\* A call that finds its key taken, or has taken it itself, finds an object there later.
LEMMA ReplaysExistInv == TypeOK /\ ReplaysExist /\ [Next]_vars => ReplaysExist'
<1> SUFFICES ASSUME TypeOK, ReplaysExist, [Next]_vars, NEW y \in calls', y.pc = "replay"
             PROVE  \E o \in landing' : Key(o) = Key(y)
  BY DEF ReplaysExist, AtKey, Key
<1>1. ASSUME NEW o \in landing, Key(o) = Key(y)
      PROVE  \E p \in landing' : Key(p) = Key(y)
  BY <1>1, ObjectsStay
<1>2. CASE y \in calls
  BY <1>1, <1>2 DEF ReplaysExist, AtKey
<1>3. ASSUME StartFetch PROVE y \in calls
  BY <1>3 DEF StartFetch
<1>4. ASSUME NEW x \in calls, Call(x), y \notin calls
      PROVE  \E o \in landing' : Key(o) = Key(y)
  <2>1. ~Over(x)
    BY <1>4 DEF Over
  <2>2. ASSUME NEW c \in Content, NEW d \in Date PROVE ~FetchAnswers(x, c, d)
    BY <1>4 DEF FetchAnswers, Goes
  <2>3. ASSUME NEW z \in Fetching PROVE ~Goes(x, z)
    BY <1>4 DEF Goes, Fetching
  <2>4. PICK z \in Landing : /\ Goes(x, z) /\ Key(z) = Key(x)
                             /\ z.pc = "replay" => \E o \in landing' : Key(o) = Key(x)
    BY <1>4, <2>1, <2>2, <2>3, CallMoves
  <2>5. y = z
    BY <1>4, <2>4 DEF Goes
  <2>6. QED
    BY <2>4, <2>5
<1>5. QED
  BY <1>2, <1>3, <1>4, OthersCall

\* Each answer uses a forecast that was asked for up: there are no more stamps than those.
LEMMA CountedInv == TypeOK /\ Counted /\ [Next]_vars => Counted'
<1> SUFFICES ASSUME TypeOK, Counted, [Next]_vars PROVE Counted'
  OBVIOUS
<1> DEFINE n == Cardinality(Asking)
<1>1. IsFiniteSet(Asking) /\ n \in Nat /\ clock.stamp \in Nat /\ fetches \in Nat
  <2>1. IsFiniteSet(Asking)
    BY FS_Subset DEF Counted, Asking
  <2>2. QED
    BY <2>1, FS_CardinalityType DEF TypeOK
<1>2. clock.stamp + n <= fetches /\ IsFiniteSet(calls)
  BY DEF Counted
<1>3. ASSUME NEW S, NEW y, IsFiniteSet(S)
      PROVE  /\ IsFiniteSet(S \cup {y}) /\ Cardinality(S \cup {y}) \in Nat
             /\ Cardinality(S \cup {y}) <= Cardinality(S) + 1
  <2>1. IsFiniteSet(S \cup {y}) /\ Cardinality(S) \in Nat
    BY <1>3, FS_AddElement, FS_CardinalityType
  <2>2. Cardinality(S \cup {y}) \in {Cardinality(S), Cardinality(S) + 1}
    BY <1>3, FS_AddElement
  <2>3. QED
    BY <2>1, <2>2
<1>4. ASSUME NEW S, NEW x, IsFiniteSet(S)
      PROVE  /\ IsFiniteSet(S \ {x}) /\ Cardinality(S \ {x}) \in Nat
             /\ Cardinality(S \ {x}) <= Cardinality(S)
             /\ x \in S => Cardinality(S \ {x}) = Cardinality(S) - 1
  <2>1. IsFiniteSet(S \ {x}) /\ Cardinality(S) \in Nat
    BY <1>4, FS_RemoveElement, FS_CardinalityType
  <2>2. Cardinality(S \ {x}) = IF x \in S THEN Cardinality(S) - 1 ELSE Cardinality(S)
    BY <1>4, FS_RemoveElement
  <2>3. Cardinality(S \ {x}) \in Nat
    BY <2>1, FS_CardinalityType
  <2>4. QED
    BY <2>1, <2>2, <2>3
<1> HIDE DEF n
<1>5. CASE UNCHANGED <<calls, fetches, clock>>
  BY <1>5 DEF Counted, Asking
<1>6. CASE StartFetch
  <2>1. PICK y : calls' = calls \cup {y}
    BY <1>6 DEF StartFetch
  <2>2. Asking' = Asking \/ Asking' = Asking \cup {y}
    BY <2>1 DEF Asking
  <2>3. IsFiniteSet(calls') /\ Cardinality(Asking') \in Nat /\ Cardinality(Asking') <= n + 1
    <3>1. IsFiniteSet(calls')
      BY <1>2, <1>3, <2>1
    <3>2. Cardinality(Asking \cup {y}) \in Nat /\ Cardinality(Asking \cup {y}) <= n + 1
      BY <1>1, <1>3 DEF n
    <3>3. n \in Nat /\ n <= n + 1 /\ Cardinality(Asking) = n
      BY <1>1 DEF n
    <3>4. QED
      BY <2>2, <3>1, <3>2, <3>3
  <2>4. UNCHANGED clock /\ fetches' = fetches + 1
    BY <1>6 DEF StartFetch
  <2>5. QED
    BY <1>1, <1>2, <2>3, <2>4 DEF Counted
<1>7. ASSUME NEW x \in calls, Call(x)
      PROVE  Counted'
  <2>1. UNCHANGED fetches
    BY <1>7, CallMoves
  <2>2. CASE Over(x) /\ UNCHANGED clock
    <3>1. calls' = calls \ {x} /\ Asking' = Asking \ {x}
      BY <2>2 DEF Over, Asking
    <3>2. IsFiniteSet(calls') /\ Cardinality(Asking') \in Nat /\ Cardinality(Asking') <= n
      BY <1>1, <1>2, <1>4, <3>1 DEF n
    <3>3. QED
      BY <1>1, <1>2, <2>1, <2>2, <3>2 DEF Counted
  <2>3. ASSUME NEW c \in Content, NEW d \in Date, FetchAnswers(x, c, d)
        PROVE  Counted'
    <3>1. x \in Asking /\ clock'.stamp = clock.stamp + 1
      BY <2>3 DEF FetchAnswers, Asking
    <3>2. Asking' = Asking \ {x}
      BY <2>3 DEF FetchAnswers, Goes, Asking
    <3>3. IsFiniteSet(calls')
      BY <1>2, <1>3, <1>4, <2>3 DEF FetchAnswers, Goes
    <3>4. Cardinality(Asking') \in Nat /\ Cardinality(Asking') = n - 1
      BY <1>1, <1>4, <3>1, <3>2 DEF n
    <3>5. QED
      BY <1>1, <1>2, <2>1, <3>1, <3>3, <3>4 DEF Counted
  <2>4. ASSUME x.pc = "fetch", UNCHANGED clock, NEW y, Goes(x, y)
        PROVE  Counted'
    <3>1. calls' = (calls \ {x}) \cup {y} /\ x \in Asking
      BY <2>4 DEF Goes, Asking
    <3>2. Asking' = Asking \ {x} \/ Asking' = (Asking \ {x}) \cup {y}
      BY <2>4 DEF Goes, Asking
    <3>3. IsFiniteSet(calls')
      BY <1>2, <1>3, <1>4, <3>1
    <3>4. IsFiniteSet(Asking \ {x}) /\ Cardinality(Asking \ {x}) = n - 1
      BY <1>1, <1>4, <3>1 DEF n
    <3>5. Cardinality(Asking') \in Nat /\ Cardinality(Asking') <= n
      <4> DEFINE A == Asking \ {x}
      <4>1. IsFiniteSet(A) /\ Cardinality(A) = n - 1 /\ n - 1 \in Nat
        BY <1>1, <1>4, <3>4
      <4> HIDE DEF A
      <4>2. Cardinality(A \cup {y}) \in Nat /\ Cardinality(A \cup {y}) <= n
        <5>1. /\ Cardinality(A \cup {y}) \in Nat
              /\ Cardinality(A \cup {y}) <= Cardinality(A) + 1
          BY <1>3, <4>1
        <5>2. QED
          BY <1>1, <4>1, <5>1
      <4>3. QED
        BY <1>1, <3>2, <4>1, <4>2 DEF A
    <3>6. QED
      BY <1>1, <1>2, <2>1, <2>4, <3>3, <3>5 DEF Counted
  <2>5. ASSUME x.pc # "fetch", UNCHANGED clock, NEW y \in Landing, Goes(x, y)
        PROVE  Counted'
    <3>1. calls' = (calls \ {x}) \cup {y} /\ Asking' = Asking
      BY <2>5 DEF Goes, Asking, Landing
    <3>2. IsFiniteSet(calls')
      BY <1>2, <1>3, <1>4, <3>1
    <3>3. QED
      BY <1>2, <2>1, <2>5, <3>1, <3>2 DEF Counted
  <2>6. QED
    BY <1>7, <2>2, <2>3, <2>4, <2>5, CallMoves
<1>8. QED
  BY <1>5, <1>6, <1>7, OthersCall

\* The clock goes on by one stamp at a time, and never past the forecasts asked for.
LEMMA ClockInv ==
  ASSUME IInv, [Next]_vars
  PROVE  /\ fetches' \in 0..MaxFetch /\ clock' \in [stamp : 0..fetches', day : Date]
         /\ clock.stamp \in Nat /\ clock.stamp <= clock'.stamp
<1> USE Bounds
<1>1. /\ TypeOK /\ clock \in [stamp : 0..fetches, day : Date] /\ fetches \in 0..MaxFetch
      /\ clock.stamp \in Nat
  BY DEF IInv, TypeOK
<1>2. fetches' \in 0..MaxFetch
  <2>1. UNCHANGED fetches \/ (fetches < MaxFetch /\ fetches' = fetches + 1)
    BY <1>1, OthersCall, CallMoves DEF StartFetch
  <2>2. QED
    BY <1>1, <2>1
<1>3. clock' \in [stamp : Nat, day : Date] /\ clock.stamp <= clock'.stamp
  <2>1. \/ UNCHANGED clock
        \/ \E x \in calls, c \in Content, d \in Date : FetchAnswers(x, c, d)
    BY <1>1, OthersCall, CallMoves DEF StartFetch
  <2>2. CASE UNCHANGED clock
    BY <1>1, <2>2
  <2>3. ASSUME NEW x \in calls, NEW c \in Content, NEW d \in Date, FetchAnswers(x, c, d)
        PROVE  clock' \in [stamp : Nat, day : Date] /\ clock.stamp <= clock'.stamp
    BY <1>1, <2>3 DEF FetchAnswers
  <2>4. QED
    BY <2>1, <2>2, <2>3
<1>4. clock'.stamp <= fetches'
  <2>1. Counted' /\ IsFiniteSet(Asking')
    <3>1. Counted'
      BY <1>1, CountedInv DEF IInv
    <3>2. QED
      BY <3>1, FS_Subset DEF Counted, Asking
  <2>2. Cardinality(Asking') \in Nat
    BY <2>1, FS_CardinalityType
  <2>3. QED
    BY <1>2, <1>3, <2>1, <2>2 DEF Counted
<1>5. QED
  BY <1>1, <1>2, <1>3, <1>4

\* The calls, and what they return, keep their types.
LEMMA CallTypeInv ==
  ASSUME IInv, [Next]_vars
  PROVE  /\ calls' \subseteq Fetching \cup Landing'
         /\ acks' \subseteq [content : Content, stamp : Stamp', day : Date, created : BOOLEAN]
<1>1. TypeOK
  BY DEF IInv
<1>2. Stamp \subseteq Stamp' /\ Landing \subseteq Landing'
  <2>1. Stamp \subseteq Stamp'
    BY ClockInv DEF Stamp
  <2>2. QED
    BY <2>1 DEF Landing
<1>3. calls \subseteq Fetching \cup Landing'
  BY <1>1, <1>2 DEF TypeOK
<1>4. calls' \subseteq Fetching \cup Landing'
  <2>1. CASE UNCHANGED calls
    BY <1>3, <2>1
  <2>2. CASE StartFetch
    <3>1. fetches' \in Nat /\ 1 \in 1..MaxAttempts
      BY ClockInv, Bounds
    <3>2. calls' = calls \cup {[id |-> fetches', pc |-> "fetch", tries |-> 1]}
      BY <2>2 DEF StartFetch
    <3>3. QED
      BY <1>3, <3>1, <3>2 DEF Fetching
  <2>3. ASSUME NEW x \in calls, Call(x)
        PROVE  calls' \subseteq Fetching \cup Landing'
    <3>1. ASSUME NEW y \in Fetching \cup Landing', Goes(x, y) \/ Over(x)
          PROVE  calls' \subseteq Fetching \cup Landing'
      BY <1>3, <3>1 DEF Goes, Over
    <3>2. ASSUME NEW c \in Content, NEW d \in Date, FetchAnswers(x, c, d)
          PROVE  calls' \subseteq Fetching \cup Landing'
      <4> DEFINE y == [id |-> x.id, pc |-> "write", content |-> c, stamp |-> clock'.stamp,
                       day |-> d]
      <4>1. Goes(x, y) /\ clock'.stamp = clock.stamp + 1
        BY <3>2 DEF FetchAnswers
      <4>2. clock'.stamp \in Stamp'
        BY <4>1, ClockInv DEF Stamp
      <4>3. x.id \in Nat
        BY <1>1, <3>2, CallKinds DEF FetchAnswers
      <4>4. y \in Landing'
        BY <4>2, <4>3 DEF Landing
      <4> HIDE DEF y
      <4>5. QED
        BY <3>1, <4>1, <4>4
    <3>3. x \in Fetching \cup Landing'
      BY <1>3
    <3>4. QED
      BY <1>1, <1>2, <2>3, <3>1, <3>2, <3>3, CallMoves
  <2>4. QED
    BY <2>1, <2>2, <2>3, OthersCall
<1>5. ASSUME NEW x \in calls, x.pc # "fetch", NEW created \in BOOLEAN
      PROVE  Ack(x, created) \in [content : Content, stamp : Stamp', day : Date,
                                  created : BOOLEAN]
  <2>1. x \in Landing'
    BY <1>1, <1>2, <1>5, CallKinds
  <2>2. QED
    BY <2>1 DEF Landing, Ack
<1>6. acks \subseteq [content : Content, stamp : Stamp', day : Date, created : BOOLEAN]
  BY <1>1, <1>2 DEF TypeOK
<1>7. \/ UNCHANGED acks
      \/ \E x \in calls, created \in BOOLEAN : x.pc # "fetch"
                                              /\ acks' = acks \cup {Ack(x, created)}
  BY DEF Next, vars, StartFetch, Call, FetchAnswers, FetchRetries, FetchFails, Look, Publish,
     Prepared, AnswerLost, Replay, WorkerDies, Damage, Audit, AuditBegins, AuditEnds, AuditReads,
     Copy, Sync, Bronze, ReadInput, MergeBronze, JobDies, Silver, ReadBronze, MergeSilver,
     MergeRejects, store
<1>8. QED
  BY <1>4, <1>5, <1>6, <1>7

-----------------------------------------------------------------------------
(* The audit, the tables and the whole.                                    *)

\* Objects keep their type, in the landing zone and in the copy.
LEMMA ObjectTypeInv == TypeOK /\ [Next]_vars => landing' \subseteq Object /\ input' \subseteq Object
<1> SUFFICES ASSUME TypeOK, [Next]_vars PROVE landing' \subseteq Object /\ input' \subseteq Object
  OBVIOUS
<1>1. landing \subseteq Object /\ input \subseteq Object
  BY DEF TypeOK
<1>2. ASSUME NEW o \in landing, NEW form \in {"altered", "broken"}, Damage(o, form)
      PROVE  landing' \subseteq Object
  BY <1>1, <1>2, DamageKeeps
<1>3. landing' \subseteq Object
  BY <1>1, <1>2, Lands, NewType
<1>4. UNCHANGED input \/ \E o \in landing : Sync(o)
  BY DEF Next, vars, StartFetch, Call, FetchAnswers, FetchRetries, FetchFails, Look, Publish,
     AnswerLost, Replay, WorkerDies, Damage, Audit, AuditBegins, AuditEnds, AuditReads, Copy,
     Bronze, ReadInput, MergeBronze, JobDies, Silver, ReadBronze, MergeSilver, MergeRejects,
     tables
<1>5. ASSUME NEW o \in landing, Sync(o) PROVE input' \subseteq Object
  BY <1>1, <1>5 DEF Sync
<1>6. QED
  BY <1>1, <1>3, <1>4, <1>5

\* The audit is not moved by what happens to the landing zone meanwhile.
LEMMA OthersAudit ==
  ASSUME [Next]_vars
  PROVE  UNCHANGED audit \/ (Audit /\ UNCHANGED <<landing, acks>>)
  BY DEF Next, vars, StartFetch, Call, FetchAnswers, FetchRetries, FetchFails, Look, Publish,
     AnswerLost, Replay, WorkerDies, Damage, Audit, AuditBegins, AuditEnds, AuditReads, Copy,
     Sync, Bronze, ReadInput, MergeBronze, JobDies, Silver, ReadBronze, MergeSilver,
     MergeRejects, store

\* The keys the audit holds are keys.
LEMMA AuditTypeInv ==
  ASSUME TypeOK, [Next]_vars
  PROVE  audit' \in [pc : {"off", "read"}, todo : SUBSET Slot, invalid : SUBSET Slot,
                     damaged : SUBSET Slot]
<1>1. \A o \in landing : Key(o) \in Slot
  BY DEF TypeOK, Object, Key, Slot
<1>2. CASE UNCHANGED audit
  BY <1>2 DEF TypeOK
<1>3. CASE AuditBegins
  BY <1>1, <1>3 DEF AuditBegins, Damaged
<1>4. ASSUME NEW k \in audit.todo, AuditReads(k)
      PROVE  audit' \in [pc : {"off", "read"}, todo : SUBSET Slot, invalid : SUBSET Slot,
                         damaged : SUBSET Slot]
  <2> DEFINE bad == {Key(o) : o \in {p \in landing : Key(p) = k /\ ~Valid(p)}}
  <2>1. bad \in SUBSET Slot
    BY <1>1
  <2>2. audit' = [audit EXCEPT !.todo = @ \ {k}, !.invalid = @ \cup bad]
    BY <1>4 DEF AuditReads
  <2> HIDE DEF bad
  <2>3. QED
    BY <2>1, <2>2 DEF TypeOK
<1>5. CASE AuditEnds
  BY <1>5 DEF AuditEnds, NoAudit
<1>6. QED
  BY <1>2, <1>3, <1>4, <1>5, OthersAudit DEF Audit

\* What was damaged before the audit began, and is not found, is still there to be read.
LEMMA AuditKnowsInv == TypeOK /\ AuditKnows /\ [Next]_vars => AuditKnows'
<1> SUFFICES ASSUME TypeOK, AuditKnows, [Next]_vars, audit'.pc = "read",
                    NEW k \in audit'.damaged \ audit'.invalid
             PROVE  k \in audit'.todo /\ \E o \in landing' : Key(o) = k /\ o.form # "good"
  BY DEF AuditKnows, Key
<1>1. ASSUME \E o \in landing : Key(o) = k /\ o.form # "good"
      PROVE  \E o \in landing' : Key(o) = k /\ o.form # "good"
  BY <1>1, ObjectsStay
<1>2. CASE UNCHANGED audit
  BY <1>1, <1>2 DEF AuditKnows
<1>3. CASE AuditBegins
  <2>1. k \in Damaged /\ audit'.todo = {Key(o) : o \in landing}
    BY <1>3 DEF AuditBegins
  <2>2. PICK o \in landing : Key(o) = k /\ o.form # "good"
    BY <2>1 DEF Damaged
  <2>3. QED
    BY <1>1, <2>1, <2>2
<1>4. ASSUME NEW q \in audit.todo, AuditReads(q)
      PROVE  k \in audit'.todo /\ \E o \in landing' : Key(o) = k /\ o.form # "good"
  <2> DEFINE bad == {Key(o) : o \in {p \in landing : Key(p) = q /\ ~Valid(p)}}
  <2>1. audit' = [audit EXCEPT !.todo = @ \ {q}, !.invalid = @ \cup bad]
    BY <1>4 DEF AuditReads
  <2>2. bad = {Key(o) : o \in {p \in landing : Key(p) = q /\ p.form # "good"}}
    BY DEF Valid
  <2> HIDE DEF bad
  <2>3. /\ audit'.pc = audit.pc /\ audit'.todo = audit.todo \ {q}
        /\ audit'.invalid = audit.invalid \cup bad /\ audit'.damaged = audit.damaged
    BY <2>1 DEF TypeOK
  <2>4. k \in audit.todo /\ \E o \in landing : Key(o) = k /\ o.form # "good"
    BY <2>3 DEF AuditKnows
  <2>5. k # q
    BY <2>2, <2>3, <2>4
  <2>6. QED
    BY <1>1, <2>3, <2>4, <2>5
<1>5. CASE AuditEnds
  BY <1>5 DEF AuditEnds, NoAudit
<1>6. QED
  BY <1>2, <1>3, <1>4, <1>5, OthersAudit DEF Audit

\* Silver and the rejects come from bronze, which only grows.
LEMMA TablesTypeInv ==
  ASSUME TypeOK, [Next]_vars
  PROVE  /\ bronzeJob'.pc \in {"off", "merge"}
         /\ silverJob' \in [SilverJob -> [pc : {"off", "silver", "rejects"}, rows : SUBSET bronze']]
         /\ silver' \cup rejects' \subseteq bronze'
<1> USE DEF TypeOK
<1>1. CASE UNCHANGED <<bronzeJob, bronze, silverJob, silver, rejects>>
  BY <1>1
<1>2. CASE ReadInput
  BY <1>2 DEF ReadInput
<1>3. CASE MergeBronze
  <2>1. bronze \subseteq bronze' /\ bronzeJob' = NoJob /\ UNCHANGED <<silverJob, silver, rejects>>
    BY <1>3 DEF MergeBronze
  <2>2. QED
    BY <2>1 DEF NoJob
<1>4. ASSUME NEW j \in SilverJob, ReadBronze(j)
      PROVE  /\ silverJob' \in [SilverJob -> [pc : {"off", "silver", "rejects"},
                                              rows : SUBSET bronze']]
             /\ UNCHANGED <<bronzeJob, bronze, silver, rejects>>
  BY <1>4 DEF ReadBronze
<1>5. ASSUME NEW j \in SilverJob, MergeSilver(j)
      PROVE  /\ silverJob' \in [SilverJob -> [pc : {"off", "silver", "rejects"},
                                              rows : SUBSET bronze']]
             /\ silver' \subseteq bronze' /\ UNCHANGED <<bronzeJob, bronze, rejects>>
  <2>1. silverJob[j].rows \subseteq bronze
    OBVIOUS
  <2>2. Survivors(silverJob[j].rows) \subseteq bronze /\ Rejected(silverJob[j].rows) \subseteq bronze
    BY <2>1 DEF Survivors, Rejected
  <2>3. silver' \subseteq silver \cup Survivors(silverJob[j].rows)
    BY <1>5 DEF MergeSilver
  <2>4. /\ silverJob' = [silverJob EXCEPT ![j] = [pc |-> "rejects",
                                                  rows |-> Rejected(silverJob[j].rows)]]
        /\ UNCHANGED <<bronzeJob, bronze, rejects>>
    BY <1>5 DEF MergeSilver
  <2>5. QED
    BY <2>2, <2>3, <2>4
<1>6. ASSUME NEW j \in SilverJob, MergeRejects(j)
      PROVE  /\ silverJob' \in [SilverJob -> [pc : {"off", "silver", "rejects"},
                                              rows : SUBSET bronze']]
             /\ rejects' \subseteq bronze' /\ UNCHANGED <<bronzeJob, bronze, silver>>
  BY <1>6 DEF MergeRejects, NoJob
<1>7. CASE JobDies
  BY <1>7 DEF JobDies, NoJob
<1>8. QED
  BY <1>1, <1>2, <1>3, <1>4, <1>5, <1>6, <1>7 DEF Next, vars, StartFetch, Call, FetchAnswers,
     FetchRetries, FetchFails, Look, Publish, AnswerLost, Replay, WorkerDies, Damage, Audit,
     AuditBegins, AuditEnds, AuditReads, Copy, Sync, Bronze, Silver, tables

\* Every variable keeps its type.
LEMMA TypeInv == IInv /\ [Next]_vars => TypeOK'
<1> SUFFICES ASSUME IInv, [Next]_vars PROVE TypeOK'
  OBVIOUS
<1>1. TypeOK
  BY DEF IInv
<1>2. backend' \in Backends /\ faults' \in 0..MaxFaults
  <2>1. UNCHANGED backend /\ (UNCHANGED faults \/ Fault)
    BY DEF Next, vars, StartFetch, Call, FetchAnswers, FetchRetries, FetchFails, Look, Publish,
       AnswerLost, Replay, WorkerDies, Damage, Audit, AuditBegins, AuditEnds, AuditReads, Copy,
       Sync, Bronze, ReadInput, MergeBronze, JobDies, Silver, ReadBronze, MergeSilver,
       MergeRejects, store
  <2>2. faults \in 0..MaxFaults /\ backend \in Backends
    BY <1>1 DEF TypeOK
  <2>3. QED
    BY <2>1, <2>2, Bounds DEF Fault
<1>3. QED
  BY <1>1, <1>2, ClockInv, CallTypeInv, ObjectTypeInv, AuditTypeInv, TablesTypeInv DEF TypeOK

\* The initial state satisfies the invariant.
LEMMA InitInv == Init => IInv
<1> SUFFICES ASSUME Init PROVE IInv
  OBVIOUS
<1> USE Bounds DEF Init, NoAudit, NoJob
<1>1. TypeOK
  BY DEF TypeOK
<1>2. Asking = {}
  BY DEF Asking
<1>3. Counted
  BY <1>2, FS_EmptySet DEF Counted
<1>4. OneObject /\ ReplaysExist /\ AckedExist /\ AuditKnows
  BY DEF OneObject, ReplaysExist, AckedExist, AuditKnows
<1>5. QED
  BY <1>1, <1>3, <1>4 DEF IInv

\* Every step keeps it.
LEMMA NextInv == IInv /\ [Next]_vars => IInv'
<1> SUFFICES ASSUME IInv, [Next]_vars PROVE IInv'
  OBVIOUS
<1>1. TypeOK /\ Counted /\ OneObject /\ ReplaysExist /\ AckedExist /\ AuditKnows
  BY DEF IInv
<1>2. TypeOK' /\ Counted'
  BY <1>1, TypeInv, CountedInv
<1>3. OneObject' /\ ReplaysExist' /\ AckedExist' /\ AuditKnows'
  BY <1>1, OneObjectInv, ReplaysExistInv, AckedExistInv, AuditKnowsInv
<1>4. QED
  BY <1>2, <1>3 DEF IInv

\* In every state a key has one object, every result its object, and the audit has still to
\* read what it has not found.
THEOREM Invariant == Spec => []IInv
  BY InitInv, NextInv, PTL DEF Spec

\* The variables have their types: no forecast is asked for more often than configured, none
\* gives two objects, and silver shows no row that bronze does not have.
THEOREM TypeCorrect == Spec => []TypeOK
<1>1. IInv => TypeOK
  BY DEF IInv
<1>2. QED
  BY <1>1, Invariant, PTL

\* FileLandingZone.write and S3LandingZone.write: however many workers meet at a key, die or
\* lose an answer, one at most is told that it created the object, the object keeps its stamp,
\* and what is reported as landed is there.
THEOREM LandsOnce == Spec => []LandedOnce
<1>1. IInv => LandedOnce
  <2>1. SUFFICES ASSUME IInv PROVE LandedOnce
    OBVIOUS
  <2>2. ASSUME NEW a \in acks, NEW b \in acks, a.created, b.created, Key(a) = Key(b)
        PROVE  a = b
    <3>1. PICK o \in landing : Key(o) = Key(a) /\ o.stamp = a.stamp
      BY <2>1, <2>2 DEF IInv, AckedExist
    <3>2. PICK p \in landing : Key(p) = Key(b) /\ p.stamp = b.stamp
      BY <2>1, <2>2 DEF IInv, AckedExist
    <3>3. o = p
      BY <2>1, <2>2, <3>1, <3>2 DEF IInv, OneObject
    <3>4. a.stamp = b.stamp /\ a.day = b.day /\ a.content = b.content
      BY <2>2, <3>1, <3>2, <3>3 DEF Key
    <3>5. QED
      BY <2>1, <2>2, <3>4 DEF IInv, TypeOK
  <2>3. QED
    BY <2>1, <2>2 DEF LandedOnce, IInv, AckedExist
<1>2. QED
  BY <1>1, Invariant, PTL

\* audit_file_landing and audit_s3_landing: whatever is landed or damaged while the audit goes
\* from key to key, it finds all that was damaged before.
THEOREM AuditIsComplete == Spec => []AuditFinds
<1>1. IInv => AuditFinds
  BY DEF IInv, AuditKnows, AuditFinds
<1>2. QED
  BY <1>1, Invariant, PTL
=============================================================================
