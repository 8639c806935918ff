------------------------ MODULE CustomerHistoryProof -------------------------
(***************************************************************************)
(* Proofs about CustomerHistory: the incremental MERGE and the rebuild       *)
(* compute one table, whose periods never overlap; the mart is the newest    *)
(* recorded snapshot; and no publication forgets since when a customer is    *)
(* known.                                                                  *)
(***************************************************************************)
EXTENDS CustomerHistory, WellFoundedInduction, TLAPS

-----------------------------------------------------------------------------
(* Batches and their times.                                                *)

\* A non-empty set of numbers has a least one.
LEMMA LeastNumber ==
  ASSUME NEW T, T \subseteq Nat, T # {}
  PROVE  \E x \in T : \A y \in T : x <= y
  <1> DEFINE R == OpToRel(<, Nat)
  <1>1. IsWellFoundedOn(R, Nat)
    BY NatLessThanWellFounded
  <1>2. \A x, y \in Nat : y < x => <<y, x>> \in R
    BY DEF OpToRel
  <1> HIDE DEF R
  <1>3. PICK x \in T : \A y \in T : ~ (<<y, x>> \in R)
    BY <1>1, WFMin
  <1>4. \A y \in T : ~(y < x)
    BY <1>2, <1>3
  <1>5. \A y \in T : x <= y
    BY <1>4
  <1> QED
    BY <1>5

\* What may land has times, and rows of customers with attributes.
LEMMA WhatLands ==
  ASSUME scenario \in Scenario
  PROVE  /\ At \in [Batch -> Nat] /\ Full \subseteq Batch
         /\ \A b \in Batch : DOMAIN Row[b] \subseteq Customer
         /\ \A b \in Batch : \A c \in DOMAIN Row[b] : Row[b][c] \in Attribute
  BY ScenarioAssumption DEF At, Full, Row

\* Some batches have an earliest one.
LEMMA Earliest ==
  ASSUME scenario \in Scenario, NEW S, S \subseteq Batch, S # {}
  PROVE  \E s \in S : \A x \in S : At[s] <= At[x]
  <1> DEFINE T == {At[x] : x \in S}
  <1>1. At \in [Batch -> Nat]
    BY WhatLands
  <1>2. T \subseteq Nat /\ T # {}
    BY <1>1
  <1>3. PICK n \in T : \A y \in T : n <= y
    BY <1>2, LeastNumber
  <1>4. PICK s \in S : n = At[s]
    OBVIOUS
  <1>5. \A x \in S : At[s] <= At[x]
    BY <1>3, <1>4
  <1> QED
    BY <1>5

\* Some batches that are not later than another one have a latest one.
LEMMA Latest ==
  ASSUME scenario \in Scenario, NEW S, S \subseteq Batch, S # {}, NEW b \in Batch,
         \A x \in S : At[x] <= At[b]
  PROVE  \E s \in S : \A x \in S : At[x] <= At[s]
  <1> DEFINE T == {At[b] - At[x] : x \in S}
  <1>1. At \in [Batch -> Nat]
    BY WhatLands
  <1>2. T \subseteq Nat /\ T # {}
    <2>1. \A x \in S : At[b] \in Nat /\ At[x] \in Nat /\ At[x] <= At[b]
      BY <1>1
    <2>2. \A x \in S : At[b] - At[x] \in Nat
      BY <2>1
    <2> QED
      BY <2>2
  <1>3. PICK n \in T : \A y \in T : n <= y
    BY <1>2, LeastNumber
  <1>4. PICK s \in S : n = At[b] - At[s]
    OBVIOUS
  <1>5. \A x \in S : At[x] <= At[s]
    <2> TAKE x \in S
    <2>1. At[b] - At[s] <= At[b] - At[x]
      BY <1>3, <1>4
    <2>2. At[b] \in Nat /\ At[x] \in Nat /\ At[s] \in Nat
      BY <1>1
    <2> QED
      BY <2>1, <2>2
  <1> QED
    BY <1>5

-----------------------------------------------------------------------------
(* The canonical history of one customer.                                  *)

\* No two observations of the customer have one time.
Apart(S, c) == \A p, q \in Observed(S, c) : At[p] = At[q] => p = q

LEMMA Observations ==
  ASSUME NEW S, S \subseteq Batch, NEW c
  PROVE  Starts(S, c) \subseteq Observed(S, c) /\ Observed(S, c) \subseteq S
  BY DEF Starts, Observed

\* The first observation of a customer begins a version.
LEMMA FirstStarts ==
  ASSUME scenario \in Scenario, NEW S, S \subseteq Batch, NEW c, Observed(S, c) # {}
  PROVE  \E s \in Starts(S, c) : \A q \in Observed(S, c) : At[s] <= At[q]
  <1>1. At \in [Batch -> Nat] /\ Observed(S, c) \subseteq Batch
    BY WhatLands, Observations
  <1>2. PICK s \in Observed(S, c) : \A q \in Observed(S, c) : At[s] <= At[q]
    BY <1>1, Earliest
  <1>3. \A p \in Observed(S, c) : ~(At[p] < At[s])
    BY <1>1, <1>2
  <1>4. s \in Starts(S, c)
    BY <1>2, <1>3 DEF Starts, Follows
  <1> QED
    BY <1>2, <1>4

\* A version ends where the next one starts.
LEMMA EndIsNext ==
  ASSUME scenario \in Scenario, NEW S, S \subseteq Batch, NEW c, NEW b \in Batch
  PROVE  \/ /\ Ends(S, c, b) = {}
            /\ \A r \in Starts(S, c) : At[r] <= At[b]
         \/ \E s \in Starts(S, c) :
              /\ Ends(S, c, b) = {At[s]} /\ At[b] < At[s]
              /\ \A r \in Starts(S, c) : At[b] < At[r] => At[s] <= At[r]
  <1>1. At \in [Batch -> Nat] /\ Starts(S, c) \subseteq Batch
    BY WhatLands, Observations
  <1> DEFINE Later == {r \in Starts(S, c) : At[b] < At[r]}
  <1>2. CASE Later = {}
    <2>1. Ends(S, c, b) = {}
      BY <1>2 DEF Ends
    <2>2. \A r \in Starts(S, c) : At[r] <= At[b]
      BY <1>1, <1>2
    <2> QED
      BY <2>1, <2>2
  <1>3. CASE Later # {}
    <2>1. Later \subseteq Batch
      BY <1>1
    <2> HIDE DEF Later
    <2>2. PICK s \in Later : \A r \in Later : At[s] <= At[r]
      BY <1>3, <2>1, Earliest
    <2> USE DEF Later
    <2>3. s \in Starts(S, c) /\ At[b] < At[s]
      BY <2>2
    <2>4. \A r \in Starts(S, c) : At[b] < At[r] => At[s] <= At[r]
      BY <2>2
    <2>5. \A q \in Starts(S, c) :
            At[b] < At[q] /\ (\A r \in Starts(S, c) : At[b] < At[r] => At[q] <= At[r])
              => At[q] = At[s]
      BY <1>1, <2>3, <2>4
    <2>6. Ends(S, c, b) = {At[s]}
      BY <2>3, <2>4, <2>5 DEF Ends
    <2> QED
      BY <2>3, <2>4, <2>6
  <1> QED
    BY <1>2, <1>3

\* The last version says what was observed last.
LEMMA LastSaysLast ==
  ASSUME scenario \in Scenario, NEW S, S \subseteq Batch, NEW c, Apart(S, c),
         NEW p \in Observed(S, c), \A q \in Observed(S, c) : At[q] <= At[p],
         NEW s \in Starts(S, c), \A r \in Starts(S, c) : At[r] <= At[s]
  PROVE  Row[p][c] = Row[s][c]
  <1> SUFFICES ASSUME Row[p][c] # Row[s][c]
               PROVE  FALSE
    OBVIOUS
  <1>1. /\ At \in [Batch -> Nat] /\ Observed(S, c) \subseteq Batch
        /\ s \in Observed(S, c)
    BY WhatLands, Observations
  <1> DEFINE Other == {x \in Observed(S, c) : At[s] < At[x] /\ Row[x][c] # Row[s][c]}
  <1>2. p \in Other
    <2>1. At[s] <= At[p] /\ At[s] # At[p]
      BY <1>1 DEF Apart
    <2> QED
      BY <1>1, <2>1
  <1>3. Other \subseteq Batch /\ Other # {}
    BY <1>1, <1>2
  <1> HIDE DEF Other
  <1>4. PICK q \in Other : \A x \in Other : At[q] <= At[x]
    BY <1>3, Earliest
  <1> USE DEF Other
  <1>5. q \in Observed(S, c) /\ At[s] < At[q] /\ Row[q][c] # Row[s][c]
    OBVIOUS
  <1>6. q \notin Starts(S, c)
    BY <1>1, <1>5
  <1>7. PICK x \in Observed(S, c) : Follows(S, c, x, q) /\ Row[x][c] = Row[q][c]
    BY <1>5, <1>6 DEF Starts
  <1>8. At[x] < At[q] /\ ~(At[x] < At[s])
    BY <1>1, <1>5, <1>7 DEF Follows
  <1>9. x # s
    BY <1>5, <1>7
  <1>10. At[x] # At[s]
    BY <1>1, <1>9 DEF Apart
  <1>11. At[s] < At[x]
    BY <1>1, <1>8, <1>10
  <1>12. x \in Other
    BY <1>5, <1>7, <1>11
  <1>13. At[q] <= At[x]
    BY <1>4, <1>12
  <1> QED
    BY <1>1, <1>5, <1>8, <1>13
-----------------------------------------------------------------------------
(* The MERGE of a batch that is later than all that the history has.       *)

\* What is a version of a canonical history, and which are current.
LEMMA CanonicalVersions ==
  ASSUME NEW S, NEW v
  PROVE  v \in Canonical(S) <=>
           \E c \in Customer : \E x \in Starts(S, c) : v = Version(c, x, Ends(S, c, x))
  BY DEF Canonical

LEMMA VersionFields ==
  ASSUME NEW c, NEW b, NEW to
  PROVE  /\ Version(c, b, to).customer = c /\ Version(c, b, to).attr = Row[b][c]
         /\ Version(c, b, to).batch = b /\ Version(c, b, to).from = At[b]
         /\ Version(c, b, to).to = to
  BY DEF Version

LEMMA NoVersionIsEmpty == \A t : {t} # {}
  OBVIOUS

\* Every observed customer has one current version, which is the last one.
LEMMA LastIsCurrent ==
  ASSUME scenario \in Scenario, NEW S, S \subseteq Batch, NEW c \in Customer,
         NEW b \in Batch, \A x \in S : At[x] <= At[b], Observed(S, c) # {}, Apart(S, c)
  PROVE  \E s \in Starts(S, c) :
           /\ \A r \in Starts(S, c) : At[r] <= At[s]
           /\ \A x \in Starts(S, c) : Ends(S, c, x) = {} <=> x = s
           /\ \A p \in Observed(S, c) :
                (\A q \in Observed(S, c) : At[q] <= At[p]) => Row[p][c] = Row[s][c]
  <1>1. /\ At \in [Batch -> Nat] /\ Observed(S, c) \subseteq S
        /\ Starts(S, c) \subseteq Observed(S, c)
    BY WhatLands, Observations
  <1>2. Starts(S, c) # {}
    BY FirstStarts
  <1>3. Starts(S, c) \subseteq Batch /\ \A x \in Starts(S, c) : At[x] <= At[b]
    BY <1>1
  <1>4. PICK s \in Starts(S, c) : \A r \in Starts(S, c) : At[r] <= At[s]
    BY <1>2, <1>3, Latest
  <1>5. ASSUME NEW x \in Starts(S, c)
        PROVE  Ends(S, c, x) = {} <=> x = s
    <2>1. x \in Batch /\ s \in Batch
      BY <1>3
    <2>2. CASE x = s
      <3>1. \A r \in Starts(S, c) : ~(At[x] < At[r])
        BY <1>1, <1>3, <1>4, <2>2
      <3>2. Ends(S, c, x) = {}
        BY <2>1, <3>1, EndIsNext
      <3> QED
        BY <2>2, <3>2
    <2>3. CASE x # s
      <3>1. At[x] # At[s]
        BY <1>1, <2>3 DEF Apart
      <3>2. At[x] < At[s]
        BY <1>1, <1>4, <2>1, <3>1
      <3>3. ~(At[s] <= At[x])
        BY <1>1, <2>1, <3>2
      <3>4. \E r \in Starts(S, c) : Ends(S, c, x) = {At[r]}
        BY <2>1, <3>3, EndIsNext
      <3> QED
        BY <2>3, <3>4
    <2> QED
      BY <2>2, <2>3
  <1>6. \A p \in Observed(S, c) :
          (\A q \in Observed(S, c) : At[q] <= At[p]) => Row[p][c] = Row[s][c]
    BY <1>4, LastSaysLast
  <1> QED
    BY <1>4, <1>5, <1>6

\* Changed, of a canonical history: the last observation says something else.
LEMMA ChangedIsDifferent ==
  ASSUME scenario \in Scenario, NEW S, S \subseteq Batch, NEW b \in Batch,
         \A x \in S : At[x] <= At[b], NEW c \in DOMAIN Row[b], Apart(S, c),
         NEW p \in Observed(S, c), \A q \in Observed(S, c) : At[q] <= At[p]
  PROVE  c \in Changed(Canonical(S), b) <=> Row[p][c] # Row[b][c]
  <1>1. c \in Customer
    BY WhatLands
  <1>2. PICK s \in Starts(S, c) :
          /\ \A x \in Starts(S, c) : Ends(S, c, x) = {} <=> x = s
          /\ Row[p][c] = Row[s][c]
    BY <1>1, LastIsCurrent
  <1>3. \A v \in Current(Canonical(S)) : v.customer = c => v.attr = Row[s][c]
    <2> SUFFICES ASSUME NEW v \in Canonical(S), v.to = {}, v.customer = c
                 PROVE  v.attr = Row[s][c]
      BY DEF Current
    <2>1. PICK d \in Customer : \E x \in Starts(S, d) : v = Version(d, x, Ends(S, d, x))
      BY CanonicalVersions
    <2>2. PICK x \in Starts(S, d) : v = Version(d, x, Ends(S, d, x))
      BY <2>1
    <2>3. d = c /\ Ends(S, d, x) = {} /\ v.attr = Row[x][d]
      BY <2>2, VersionFields
    <2> QED
      BY <1>2, <2>2, <2>3
  <1>4. Version(c, s, {}) \in Current(Canonical(S))
    <2>1. Version(c, s, {}) \in Canonical(S)
      BY <1>1, <1>2, CanonicalVersions
    <2> QED
      BY <2>1, VersionFields DEF Current
  <1>5. Version(c, s, {}).customer = c
    BY VersionFields
  <1>6. c \in Changed(Canonical(S), b) <=> Row[s][c] # Row[b][c]
    BY <1>3, <1>4, <1>5 DEF Changed
  <1> QED
    BY <1>2, <1>6

\* A MERGE that is repeated changes nothing.
LEMMA MergeAgain ==
  ASSUME scenario \in Scenario, NEW S, S \subseteq Batch, \A c \in Customer : Apart(S, c),
         NEW b \in S, \A x \in S : At[x] <= At[b]
  PROVE  Merged(Canonical(S), b) = Canonical(S)
  <1>1. b \in Batch
    OBVIOUS
  <1>2. Changed(Canonical(S), b) = {}
    <2> SUFFICES ASSUME NEW c \in Changed(Canonical(S), b)
                 PROVE  FALSE
      OBVIOUS
    <2>1. c \in DOMAIN Row[b]
      BY DEF Changed
    <2>2. c \in Customer
      BY <1>1, <2>1, WhatLands
    <2>3. b \in Observed(S, c)
      BY <2>1 DEF Observed
    <2>4. \A q \in Observed(S, c) : At[q] <= At[b]
      BY Observations
    <2>5. Apart(S, c)
      BY <2>2
    <2> QED
      BY <1>1, <2>1, <2>3, <2>4, <2>5, ChangedIsDifferent
  <1> QED
    BY <1>2 DEF Merged

\* What a later batch adds to the observations of a customer, and to its versions.
LEMMA LaterBatch ==
  ASSUME scenario \in Scenario, NEW S, S \subseteq Batch, NEW b \in Batch,
         \A x \in S : At[x] < At[b], NEW c \in Customer, Apart(S, c)
  PROVE  /\ \A x \in S : x \in Starts(S \cup {b}, c) <=> x \in Starts(S, c)
         /\ b \in Starts(S \cup {b}, c) <=> c \in Changed(Canonical(S), b)
  <1> DEFINE T == S \cup {b}
  <1>1. /\ At \in [Batch -> Nat] /\ Observed(S, c) \subseteq S
        /\ Starts(S, c) \subseteq Observed(S, c)
    BY WhatLands, Observations
  <1>2. \A x \in S : At[x] \in Nat /\ At[b] \in Nat /\ At[x] < At[b]
    BY <1>1
  <1>3. \A x \in T : x \in Observed(T, c) <=> x \in Observed(S, c) \/ (x = b /\ c \in DOMAIN Row[b])
    BY <1>2 DEF Observed
  <1>4. Observed(S, c) \subseteq Observed(T, c) /\ Observed(T, c) \subseteq T
    BY DEF Observed
  <1>5. \A x \in S, p \in Observed(T, c) : Follows(T, c, p, x) <=> p \in Observed(S, c) /\ Follows(S, c, p, x)
    <2> SUFFICES ASSUME NEW x \in S, NEW p \in Observed(T, c)
                 PROVE  Follows(T, c, p, x) <=> p \in Observed(S, c) /\ Follows(S, c, p, x)
      OBVIOUS
    <2>1. ~(At[b] < At[x])
      BY <1>2
    <2>2. p = b \/ p \in Observed(S, c)
      BY <1>3, <1>4
    <2>3. (\E q \in Observed(T, c) : At[p] < At[q] /\ At[q] < At[x])
            <=> \E q \in Observed(S, c) : At[p] < At[q] /\ At[q] < At[x]
      BY <1>3, <1>4, <2>1
    <2>4. p = b => ~(At[p] < At[x]) /\ p \notin Observed(S, c)
      BY <1>1, <1>2, <2>1
    <2> QED
      BY <2>2, <2>3, <2>4 DEF Follows
  <1>6. \A x \in S : x \in Starts(T, c) <=> x \in Starts(S, c)
    BY <1>2, <1>3, <1>4, <1>5 DEF Starts
  <1>7. b \in Starts(T, c) <=> c \in Changed(Canonical(S), b)
    <2>1. CASE c \notin DOMAIN Row[b]
      <3>1. b \notin Observed(T, c)
        BY <2>1 DEF Observed
      <3> QED
        BY <2>1, <3>1 DEF Starts, Changed
    <2>2. CASE c \in DOMAIN Row[b] /\ Observed(S, c) = {}
      <3>1. Starts(S, c) = {}
        BY <1>1, <2>2
      <3>2. \A v \in Canonical(S) : v.customer # c
        <4> SUFFICES ASSUME NEW v \in Canonical(S)
                     PROVE  v.customer # c
          OBVIOUS
        <4>1. PICK d \in Customer : \E x \in Starts(S, d) : v = Version(d, x, Ends(S, d, x))
          BY CanonicalVersions
        <4>2. v.customer = d
          BY <4>1, VersionFields
        <4> QED
          BY <3>1, <4>1, <4>2
      <3>3. c \in Changed(Canonical(S), b)
        BY <2>2, <3>2 DEF Changed, Current
      <3>4. Observed(T, c) = {b}
        BY <1>3, <1>4, <2>2
      <3>5. ~(At[b] < At[b])
        BY <1>1
      <3>6. b \in Starts(T, c)
        BY <3>4, <3>5 DEF Starts, Follows
      <3> QED
        BY <3>3, <3>6
    <2>3. CASE c \in DOMAIN Row[b] /\ Observed(S, c) # {}
      <3>1. \A x \in Observed(S, c) : At[x] <= At[b] /\ x \in Batch
        BY <1>1, <1>2
      <3>2. PICK p \in Observed(S, c) : \A q \in Observed(S, c) : At[q] <= At[p]
        BY <2>3, <3>1, Latest
      <3>3. \A q \in Observed(T, c) : Follows(T, c, q, b) <=> q = p
        <4> SUFFICES ASSUME NEW q \in Observed(T, c)
                     PROVE  Follows(T, c, q, b) <=> q = p
          OBVIOUS
        <4>1. ASSUME q = p
              PROVE  Follows(T, c, q, b)
          <5>1. \A r \in Observed(T, c) : ~(At[p] < At[r] /\ At[r] < At[b])
            <6> SUFFICES ASSUME NEW r \in Observed(T, c), At[p] < At[r], At[r] < At[b]
                         PROVE  FALSE
              OBVIOUS
            <6>1. r # b
              BY <1>1
            <6>2. r \in Observed(S, c)
              BY <1>3, <1>4, <6>1
            <6> QED
              BY <1>1, <1>2, <3>2, <6>2
          <5> QED
            BY <1>1, <1>2, <3>2, <4>1, <5>1 DEF Follows
        <4>2. ASSUME Follows(T, c, q, b)
              PROVE  q = p
          <5>1. At[q] < At[b] /\ ~(At[q] < At[p] /\ At[p] < At[b])
            BY <1>4, <3>2, <4>2 DEF Follows
          <5>2. q \in Observed(S, c)
            <6>1. At[q] < At[b]
              BY <5>1
            <6>2. q # b
              BY <1>1, <6>1
            <6> QED
              BY <1>3, <1>4, <6>2
          <5>3. At[q] = At[p]
            BY <1>1, <1>2, <3>2, <5>1, <5>2
          <5> QED
            BY <5>2, <5>3 DEF Apart
        <4> QED
          BY <4>1, <4>2
      <3>4. b \in Observed(T, c) /\ p \in Observed(T, c)
        BY <1>3, <1>4, <2>3
      <3>5. b \in Starts(T, c) <=> Row[p][c] # Row[b][c]
        BY <3>3, <3>4 DEF Starts
      <3>6. \A x \in S : At[x] <= At[b]
        BY <1>2
      <3>7. c \in Changed(Canonical(S), b) <=> Row[p][c] # Row[b][c]
        BY <2>3, <3>2, <3>6, ChangedIsDifferent
      <3> QED
        BY <3>5, <3>7
    <2> QED
      BY <2>1, <2>2, <2>3
  <1> QED
    BY <1>6, <1>7

\* What it does to the ends of the versions that are there.
Ended(S, b, c) ==
  /\ Ends(S \cup {b}, c, b) = {}
  /\ \A x \in Starts(S, c) :
       /\ Ends(S, c, x) = {} /\ c \in Changed(Canonical(S), b) => Ends(S \cup {b}, c, x) = {At[b]}
       /\ ~(Ends(S, c, x) = {} /\ c \in Changed(Canonical(S), b)) =>
            Ends(S \cup {b}, c, x) = Ends(S, c, x)

LEMMA LaterEnds ==
  ASSUME scenario \in Scenario, NEW S, S \subseteq Batch, NEW b \in Batch,
         \A x \in S : At[x] < At[b], NEW c \in Customer, Apart(S, c)
  PROVE  Ended(S, b, c)
  <1> DEFINE T == S \cup {b}
  <1>0. T \subseteq Batch
    OBVIOUS
  <1>1. /\ At \in [Batch -> Nat] /\ T \subseteq Batch
        /\ Starts(S, c) \subseteq S /\ Starts(T, c) \subseteq T
    <2> HIDE DEF T
    <2> QED
      BY <1>0, WhatLands, Observations
  <1>2. \A x \in S : At[x] \in Nat /\ At[b] \in Nat /\ At[x] < At[b]
    BY <1>1
  <1>3. \A x \in S : x \in Starts(T, c) <=> x \in Starts(S, c)
    BY LaterBatch
  <1>4. b \in Starts(T, c) <=> c \in Changed(Canonical(S), b)
    BY LaterBatch
  <1> HIDE DEF T
  <1>5. \A r \in Starts(T, c) : r = b \/ r \in Starts(S, c)
    BY <1>1, <1>3 DEF T
  <1>6. Ends(T, c, b) = {}
    <2>1. \A r \in Starts(T, c) : ~(At[b] < At[r])
      BY <1>1, <1>2, <1>5
    <2> QED
      BY <1>1, <2>1, EndIsNext
  <1>7. ASSUME NEW x \in Starts(S, c)
        PROVE  /\ Ends(S, c, x) = {} /\ c \in Changed(Canonical(S), b) =>
                    Ends(T, c, x) = {At[b]}
               /\ ~(Ends(S, c, x) = {} /\ c \in Changed(Canonical(S), b)) =>
                    Ends(T, c, x) = Ends(S, c, x)
    <2>1. x \in S /\ x \in Batch
      BY <1>1
    <2>2. CASE Ends(S, c, x) # {}
      <3>1. PICK s \in Starts(S, c) :
              /\ Ends(S, c, x) = {At[s]} /\ At[x] < At[s]
              /\ \A r \in Starts(S, c) : At[x] < At[r] => At[s] <= At[r]
        BY <2>1, <2>2, EndIsNext
      <3>2. s \in Starts(T, c) /\ s \in S /\ s \in Batch
        BY <1>1, <1>3, <3>1
      <3>3. PICK u \in Starts(T, c) :
              /\ Ends(T, c, x) = {At[u]} /\ At[x] < At[u]
              /\ \A r \in Starts(T, c) : At[x] < At[r] => At[u] <= At[r]
        <4>1. ~(At[s] <= At[x])
          BY <1>1, <2>1, <3>1, <3>2
        <4> QED
          BY <1>1, <2>1, <3>2, <4>1, EndIsNext
      <3>4. At[u] <= At[s]
        BY <3>1, <3>2, <3>3
      <3>5. u # b
        BY <1>2, <3>2, <3>4
      <3>6. u \in Starts(S, c)
        BY <1>5, <3>3, <3>5
      <3>7. At[s] <= At[u]
        BY <3>1, <3>3, <3>6
      <3>8. At[s] = At[u]
        BY <1>1, <3>2, <3>3, <3>4, <3>7
      <3> QED
        BY <2>2, <3>1, <3>3, <3>8
    <2>3. CASE Ends(S, c, x) = {}
      <3>1. \A r \in Starts(S, c) : At[r] <= At[x]
        BY <2>1, <2>3, NoVersionIsEmpty, EndIsNext
      <3>2. \A r \in Starts(T, c) : At[x] < At[r] => r = b
        BY <1>1, <1>2, <1>5, <2>1, <3>1
      <3>3. CASE b \in Starts(T, c)
        <4>1. ~(At[b] <= At[x])
          BY <1>2, <2>1
        <4>2. PICK u \in Starts(T, c) : Ends(T, c, x) = {At[u]} /\ At[x] < At[u]
          BY <1>1, <2>1, <3>3, <4>1, EndIsNext
        <4>3. Ends(T, c, x) = {At[b]}
          BY <3>2, <4>2
        <4> QED
          BY <1>4, <2>3, <3>3, <4>3
      <3>4. CASE b \notin Starts(T, c)
        <4>1. \A r \in Starts(T, c) : ~(At[x] < At[r])
          BY <3>2, <3>4
        <4>2. Ends(T, c, x) = {}
          BY <1>1, <2>1, <4>1, EndIsNext
        <4> QED
          BY <1>4, <2>3, <3>4, <4>2
      <3> QED
        BY <3>3, <3>4
    <2> QED
      BY <2>2, <2>3
  <1> QED
    BY <1>6, <1>7 DEF T, Ended

\* What a MERGE leaves, closes and inserts.
LEMMA MergedVersions ==
  ASSUME NEW h, NEW b, NEW v
  PROVE  v \in Merged(h, b) <=>
           \/ v \in h /\ ~(v.to = {} /\ v.customer \in Changed(h, b))
           \/ \E u \in h : /\ u.to = {} /\ u.customer \in Changed(h, b)
                           /\ v = [u EXCEPT !.to = {At[b]}]
           \/ \E c \in Changed(h, b) : v = Version(c, b, {})
  BY DEF Merged, Current

\* The MERGE of a batch on time and the rebuild from all batches compute one table.
LEMMA MergeIsRebuild ==
  ASSUME scenario \in Scenario, NEW S, S \subseteq Batch, \A c \in Customer : Apart(S, c),
         NEW b \in Batch, \A x \in S : At[x] < At[b]
  PROVE  Merged(Canonical(S), b) = Canonical(S \cup {b})
  <1> DEFINE h == Canonical(S)
             T == S \cup {b}
             C == Changed(h, b)
  <1>1. C \subseteq Customer
    BY WhatLands DEF Changed
  <1>2. \A c \in Customer : /\ \A x \in S : x \in Starts(T, c) <=> x \in Starts(S, c)
                            /\ b \in Starts(T, c) <=> c \in C
    BY LaterBatch
  <1>3. \A c \in Customer :
          /\ Ends(T, c, b) = {}
          /\ \A x \in Starts(S, c) :
               /\ Ends(S, c, x) = {} /\ c \in C => Ends(T, c, x) = {At[b]}
               /\ ~(Ends(S, c, x) = {} /\ c \in C) => Ends(T, c, x) = Ends(S, c, x)
    <2>1. \A c \in Customer : Ended(S, b, c)
      BY LaterEnds
    <2> QED
      BY <2>1 DEF Ended
  <1>4. \A c : Starts(S, c) \subseteq S
    BY Observations
  <1>5. \A c : Starts(T, c) \subseteq T
    <2>1. T \subseteq Batch
      OBVIOUS
    <2> HIDE DEF T
    <2> QED
      BY <2>1, Observations
  <1>6. \A v : v \in h <=> \E c \in Customer : \E x \in Starts(S, c) : v = Version(c, x, Ends(S, c, x))
    BY CanonicalVersions
  <1>7. \A v : v \in Canonical(T) <=>
                 \E c \in Customer : \E x \in Starts(T, c) : v = Version(c, x, Ends(T, c, x))
    BY CanonicalVersions
  <1>8. \A v : v \in Merged(h, b) <=>
           \/ v \in h /\ ~(v.to = {} /\ v.customer \in C)
           \/ \E u \in h : u.to = {} /\ u.customer \in C /\ v = [u EXCEPT !.to = {At[b]}]
           \/ \E c \in C : v = Version(c, b, {})
    BY MergedVersions
  <1> HIDE DEF h, T, C
  <1>9. ASSUME NEW v \in Merged(h, b)
        PROVE  v \in Canonical(T)
    <2>1. CASE v \in h /\ ~(v.to = {} /\ v.customer \in C)
      <3>1. PICK c \in Customer : \E x \in Starts(S, c) : v = Version(c, x, Ends(S, c, x))
        BY <1>6, <2>1
      <3>2. PICK x \in Starts(S, c) : v = Version(c, x, Ends(S, c, x))
        BY <3>1
      <3>3. ~(Ends(S, c, x) = {} /\ c \in C)
        BY <2>1, <3>2, VersionFields
      <3>4. Ends(T, c, x) = Ends(S, c, x)
        BY <1>3, <3>3
      <3>5. x \in Starts(T, c)
        BY <1>2, <1>4
      <3> QED
        BY <1>7, <3>2, <3>4, <3>5
    <2>2. CASE \E u \in h : u.to = {} /\ u.customer \in C /\ v = [u EXCEPT !.to = {At[b]}]
      <3>1. PICK u \in h : u.to = {} /\ u.customer \in C /\ v = [u EXCEPT !.to = {At[b]}]
        BY <2>2
      <3>2. PICK c \in Customer : \E x \in Starts(S, c) : u = Version(c, x, Ends(S, c, x))
        BY <1>6
      <3>3. PICK x \in Starts(S, c) : u = Version(c, x, Ends(S, c, x))
        BY <3>2
      <3>4. Ends(S, c, x) = {} /\ c \in C
        BY <3>1, <3>3, VersionFields
      <3>5. v = Version(c, x, {At[b]})
        BY <3>1, <3>3 DEF Version
      <3>6. Ends(T, c, x) = {At[b]}
        BY <1>3, <3>4
      <3>7. x \in Starts(T, c)
        BY <1>2, <1>4
      <3> QED
        BY <1>7, <3>5, <3>6, <3>7
    <2>3. CASE \E c \in C : v = Version(c, b, {})
      BY <1>1, <1>2, <1>3, <1>7, <2>3
    <2> QED
      BY <1>8, <2>1, <2>2, <2>3
  <1>10. ASSUME NEW v \in Canonical(T)
         PROVE  v \in Merged(h, b)
    <2>1. PICK c \in Customer : \E x \in Starts(T, c) : v = Version(c, x, Ends(T, c, x))
      BY <1>7
    <2>2. PICK x \in Starts(T, c) : v = Version(c, x, Ends(T, c, x))
      BY <2>1
    <2>3. CASE x = b
      BY <1>2, <1>3, <1>8, <2>2, <2>3
    <2>4. CASE x \in S
      <3>1. x \in Starts(S, c)
        BY <1>2, <2>4
      <3> DEFINE u == Version(c, x, Ends(S, c, x))
      <3>2. u \in h /\ u.to = Ends(S, c, x) /\ u.customer = c
        BY <1>6, <3>1, VersionFields
      <3>3. CASE Ends(S, c, x) = {} /\ c \in C
        <4>1. v = Version(c, x, {At[b]})
          BY <1>3, <2>2, <3>1, <3>3
        <4>2. [u EXCEPT !.to = {At[b]}] = Version(c, x, {At[b]})
          BY DEF Version
        <4> QED
          BY <1>8, <3>2, <3>3, <4>1, <4>2
      <3>4. CASE ~(Ends(S, c, x) = {} /\ c \in C)
        <4>1. v = u
          BY <1>3, <2>2, <3>1, <3>4
        <4> QED
          BY <1>8, <3>2, <3>4, <4>1
      <3> QED
        BY <3>3, <3>4
    <2> QED
      BY <1>5, <2>3, <2>4 DEF T
  <1>11. Merged(h, b) = Canonical(T)
    BY <1>9, <1>10
  <1> QED
    BY <1>11 DEF h, T

-----------------------------------------------------------------------------
(* What both computations keep.                                            *)

\* A version of a customer that one of the batches observes.
IsVersion(v, L) ==
  \E c \in Customer, b \in L, t \in {{}} \cup {{At[q]} : q \in L} :
    c \in DOMAIN Row[b] /\ v = Version(c, b, t)

LEMMA CanonicalTyped ==
  ASSUME scenario \in Scenario, NEW L, L \subseteq Batch, NEW S, S \subseteq L,
         NEW v \in Canonical(S)
  PROVE  IsVersion(v, L)
  <1>1. PICK c \in Customer : \E x \in Starts(S, c) : v = Version(c, x, Ends(S, c, x))
    BY CanonicalVersions
  <1>2. PICK x \in Starts(S, c) : v = Version(c, x, Ends(S, c, x))
    BY <1>1
  <1>3. Starts(S, c) \subseteq S /\ x \in L /\ x \in Batch
    BY Observations
  <1>4. c \in DOMAIN Row[x]
    BY DEF Starts, Observed
  <1>5. Ends(S, c, x) \in {{}} \cup {{At[q]} : q \in L}
    <2>1. Ends(S, c, x) = {} \/ \E s \in Starts(S, c) : Ends(S, c, x) = {At[s]}
      BY <1>3, EndIsNext
    <2> QED
      BY <1>3, <2>1
  <1> QED
    BY <1>2, <1>3, <1>4, <1>5 DEF IsVersion

LEMMA MergedTyped ==
  ASSUME scenario \in Scenario, NEW L, L \subseteq Batch, NEW h, \A v \in h : IsVersion(v, L),
         NEW b \in L, NEW v \in Merged(h, b)
  PROVE  IsVersion(v, L)
  <1>1. CASE v \in h
    BY <1>1
  <1>2. CASE \E u \in h : v = [u EXCEPT !.to = {At[b]}]
    <2>1. PICK u \in h : v = [u EXCEPT !.to = {At[b]}]
      BY <1>2
    <2>2. PICK c \in Customer, x \in L, t \in {{}} \cup {{At[q]} : q \in L} :
            c \in DOMAIN Row[x] /\ u = Version(c, x, t)
      BY DEF IsVersion
    <2>3. v = Version(c, x, {At[b]})
      BY <2>1, <2>2 DEF Version
    <2> QED
      BY <2>2, <2>3 DEF IsVersion
  <1>3. CASE \E c \in Changed(h, b) : v = Version(c, b, {})
    <2>1. PICK c \in Changed(h, b) : v = Version(c, b, {})
      BY <1>3
    <2>2. c \in DOMAIN Row[b] /\ c \in Customer
      BY WhatLands DEF Changed
    <2> QED
      BY <2>1, <2>2 DEF IsVersion
  <1> QED
    BY <1>1, <1>2, <1>3, MergedVersions

\* The period of v is over before that of w begins.
Precedes(v, w) == v.to # {} /\ \A t \in v.to : v.from < t /\ t <= w.from
Disjoint(h) ==
  \A v, w \in h : v.customer = w.customer /\ v # w => Precedes(v, w) \/ Precedes(w, v)

\* In a rebuilt history each version of a customer ends before or where the next one begins.
LEMMA CanonicalDisjoint ==
  ASSUME scenario \in Scenario, NEW S, S \subseteq Batch, ~Ambiguous(S)
  PROVE  Disjoint(Canonical(S))
  <1>1. At \in [Batch -> Nat]
    BY WhatLands
  <1>2. ASSUME NEW c \in Customer, NEW x \in Starts(S, c), NEW y \in Starts(S, c), At[x] < At[y]
        PROVE  Precedes(Version(c, x, Ends(S, c, x)), Version(c, y, Ends(S, c, y)))
    <2>1. x \in Batch /\ y \in Batch /\ ~(At[y] <= At[x])
      BY <1>1, <1>2, Observations
    <2>2. PICK s \in Starts(S, c) :
            /\ Ends(S, c, x) = {At[s]} /\ At[x] < At[s]
            /\ \A r \in Starts(S, c) : At[x] < At[r] => At[s] <= At[r]
      BY <2>1, EndIsNext
    <2>3. At[s] <= At[y]
      BY <1>2, <2>2
    <2>4. \A t \in Ends(S, c, x) : At[x] < t /\ t <= At[y]
      BY <2>2, <2>3
    <2>5. Ends(S, c, x) # {}
      BY <2>2
    <2> QED
      BY <2>4, <2>5, VersionFields DEF Precedes
  <1> SUFFICES ASSUME NEW v \in Canonical(S), NEW w \in Canonical(S),
                      v.customer = w.customer, v # w
               PROVE  Precedes(v, w) \/ Precedes(w, v)
    BY DEF Disjoint
  <1>3. PICK c \in Customer : \E x \in Starts(S, c) : v = Version(c, x, Ends(S, c, x))
    BY CanonicalVersions
  <1>4. PICK x \in Starts(S, c) : v = Version(c, x, Ends(S, c, x))
    BY <1>3
  <1>5. PICK d \in Customer : \E y \in Starts(S, d) : w = Version(d, y, Ends(S, d, y))
    BY CanonicalVersions
  <1>6. PICK y \in Starts(S, d) : w = Version(d, y, Ends(S, d, y))
    BY <1>5
  <1>7. d = c
    BY <1>4, <1>6, VersionFields
  <1>8. x # y
    BY <1>4, <1>6, <1>7
  <1>9. /\ x \in Observed(S, c) /\ y \in Observed(S, c) /\ y \in Starts(S, c)
        /\ x \in Batch /\ y \in Batch
    BY <1>7, Observations
  <1>10. At[x] # At[y]
    BY <1>8, <1>9 DEF Ambiguous
  <1>11. At[x] < At[y] \/ At[y] < At[x]
    BY <1>1, <1>9, <1>10
  <1> QED
    BY <1>2, <1>4, <1>6, <1>7, <1>9, <1>11

\* A MERGE that is in order puts the new versions after all that is there.
LEMMA MergedDisjoint ==
  ASSUME scenario \in Scenario, NEW L, L \subseteq Batch, NEW h, \A v \in h : IsVersion(v, L),
         NEW b \in Batch, Valid(h), ~OutOfOrder(h, b), Disjoint(h)
  PROVE  Disjoint(Merged(h, b))
  <1> DEFINE Closing(u) == u \in h /\ u.to = {} /\ u.customer \in Changed(h, b)
             Left(v) == v \in h /\ ~(v.to = {} /\ v.customer \in Changed(h, b))
             Closed(v, u) == Closing(u) /\ v = [u EXCEPT !.to = {At[b]}]
             New(v) == \E c \in Changed(h, b) : v = Version(c, b, {})
  <1>1. At \in [Batch -> Nat]
    BY WhatLands
  <1>2. \A v \in h : v.from \in Nat /\ (v.to = {} \/ \E n \in Nat : v.to = {n})
    <2> TAKE v \in h
    <2>1. PICK c \in Customer, x \in L, t \in {{}} \cup {{At[q]} : q \in L} : v = Version(c, x, t)
      BY DEF IsVersion
    <2>2. v.from = At[x] /\ v.to = t
      BY <2>1, VersionFields
    <2> QED
      BY <1>1, <2>2
  <1>3. \A u : Closing(u) => u.from < At[b]
    <2>1. \A u : Closing(u) => u.from \in Nat /\ ~(At[b] <= u.from)
      BY <1>2 DEF OutOfOrder, Current
    <2> QED
      BY <1>1, <2>1
  <1>4. \A v, u : Closed(v, u) => v.customer = u.customer /\ v.from = u.from /\ v.to = {At[b]}
    <2> SUFFICES ASSUME NEW v, NEW u, Closed(v, u)
                 PROVE  v.customer = u.customer /\ v.from = u.from /\ v.to = {At[b]}
      OBVIOUS
    <2>1. PICK c \in Customer, x \in L, t \in {{}} \cup {{At[q]} : q \in L} : u = Version(c, x, t)
      BY DEF IsVersion
    <2>2. v = Version(c, x, {At[b]})
      BY <2>1 DEF Version
    <2> QED
      BY <2>1, <2>2, VersionFields
  <1>5. \A v : New(v) => v.from = At[b] /\ v.customer \in Changed(h, b)
    BY VersionFields
  <1>6. \A v : v \in Merged(h, b) <=> Left(v) \/ (\E u : Closed(v, u)) \/ New(v)
    BY MergedVersions
  <1>7. \A v, w : Left(v) /\ Left(w) /\ v.customer = w.customer /\ v # w
                    => Precedes(v, w) \/ Precedes(w, v)
    BY DEF Disjoint
  <1>8. ASSUME NEW v, Left(v), NEW u, Closing(u), v.customer = u.customer
        PROVE  v.to # {} /\ \A t \in v.to : v.from < t /\ t <= u.from
    BY <1>8 DEF Disjoint, Precedes
  <1>9. \A v, w, u : Left(v) /\ Closed(w, u) /\ v.customer = w.customer => Precedes(v, w)
    BY <1>4, <1>8 DEF Precedes
  <1>10. ASSUME NEW v, NEW w, Left(v), New(w), v.customer = w.customer
         PROVE  Precedes(v, w)
    <2>1. PICK u \in Current(h) : u.customer = v.customer
      BY <1>10 DEF Valid
    <2>2. Closing(u)
      BY <1>5, <1>10, <2>1 DEF Current
    <2>3. v.to # {} /\ \A t \in v.to : v.from < t /\ t <= u.from
      BY <1>8, <1>10, <2>1, <2>2
    <2>4. u.from < At[b] /\ u.from \in Nat /\ At[b] \in Nat
      BY <1>1, <1>2, <1>3, <2>2
    <2>5. \A t \in v.to : t \in Nat
      BY <1>2, <1>10
    <2>6. \A t \in v.to : v.from < t /\ t <= At[b]
      BY <2>3, <2>4, <2>5
    <2> QED
      BY <1>5, <1>10, <2>3, <2>6 DEF Precedes
  <1>11. ASSUME NEW v, NEW u, NEW w, Closed(v, u), New(w)
         PROVE  Precedes(v, w)
    <2>1. v.to = {At[b]} /\ v.from < At[b] /\ w.from = At[b] /\ At[b] \in Nat
      BY <1>1, <1>3, <1>4, <1>5, <1>11
    <2> QED
      BY <2>1 DEF Precedes
  <1>12. \A v, w, u, x : Closed(v, u) /\ Closed(w, x) /\ v.customer = w.customer => v = w
    <2>1. \A u, x : Closing(u) /\ Closing(x) /\ u.customer = x.customer => u = x
      BY DEF Valid, Current
    <2> QED
      BY <1>4, <2>1
  <1>13. \A v, w : New(v) /\ New(w) /\ v.customer = w.customer => v = w
    BY VersionFields
  <1> HIDE DEF Left, Closed, New, Closing
  <1>14. \A v, w \in Merged(h, b) :
           v.customer = w.customer /\ v # w => Precedes(v, w) \/ Precedes(w, v)
    BY <1>6, <1>7, <1>9, <1>10, <1>11, <1>12, <1>13
  <1> QED
    BY <1>14 DEF Disjoint

\* KnownSinceKept, of a MERGE.
LEMMA MergedKnown ==
  ASSUME NEW L, NEW h, \A v \in h : IsVersion(v, L), NEW b, NEW v \in h
  PROVE  \E w \in Merged(h, b) : w.customer = v.customer /\ w.from = v.from
  <1>1. CASE v.to = {} /\ v.customer \in Changed(h, b)
    <2> DEFINE w == [v EXCEPT !.to = {At[b]}]
    <2>1. w \in Merged(h, b)
      BY <1>1, MergedVersions
    <2>2. PICK c \in Customer, x \in L, t \in {{}} \cup {{At[q]} : q \in L} : v = Version(c, x, t)
      BY DEF IsVersion
    <2>3. w = Version(c, x, {At[b]})
      BY <2>2 DEF Version
    <2>4. w.customer = v.customer /\ w.from = v.from
      BY <2>2, <2>3, VersionFields
    <2> QED
      BY <2>1, <2>4
  <1>2. CASE ~(v.to = {} /\ v.customer \in Changed(h, b))
    <2>1. v \in Merged(h, b)
      BY <1>2, MergedVersions
    <2> QED
      BY <2>1
  <1> QED
    BY <1>1, <1>2

\* KnownSinceKept, of a rebuild: the first observation that silver still has begins a version.
LEMMA CanonicalKnown ==
  ASSUME scenario \in Scenario, NEW L, L \subseteq Batch, NEW h, \A v \in h : IsVersion(v, L),
         NEW S, S \subseteq Batch, Covers(h, S), NEW v \in h
  PROVE  \E w \in Canonical(S) : w.customer = v.customer /\ w.from <= v.from
  <1> DEFINE c == v.customer
  <1>1. At \in [Batch -> Nat] /\ Observed(S, c) \subseteq S
    BY WhatLands, Observations
  <1>2. PICK d \in Customer, x \in L, t \in {{}} \cup {{At[q]} : q \in L} : v = Version(d, x, t)
    BY DEF IsVersion
  <1>3. c \in Customer /\ v.from \in Nat
    BY <1>1, <1>2, VersionFields
  <1>4. PICK p \in Observed(S, c) : At[p] <= v.from
    BY DEF Covers
  <1>5. PICK s \in Starts(S, c) : \A q \in Observed(S, c) : At[s] <= At[q]
    <2>1. Observed(S, c) # {}
      BY <1>4
    <2> HIDE DEF c
    <2> QED
      BY <2>1, FirstStarts
  <1>6. s \in Batch /\ p \in Batch
    BY <1>1, <1>5, Observations
  <1>7. At[s] <= v.from
    BY <1>1, <1>3, <1>4, <1>5, <1>6
  <1> DEFINE w == Version(c, s, Ends(S, c, s))
  <1>8. w \in Canonical(S)
    BY <1>3, CanonicalVersions
  <1>9. w.customer = v.customer /\ w.from = At[s]
    BY VersionFields
  <1> QED
    BY <1>7, <1>8, <1>9

-----------------------------------------------------------------------------
(* The inductive invariant.                                                *)

\* The scenario never changes, so that definitions over it mean the same after a step.
LEMMA SameScenario ==
  ASSUME [Next]_vars
  PROVE  scenario' = scenario
  BY DEF Next, Stage, Land, Select, Maintain, Expire, Silver, History, HistoryRefused, CurrentMart,
         MartRefused, Commit, Fail, RebuildByHand, vars

LEMMA SameCanonical ==
  ASSUME scenario' = scenario, NEW S, S = applied'
  PROVE  HistoryIsCanonical' <=> history' = Canonical(S)
  BY DEF HistoryIsCanonical, Canonical, Version, Starts, Ends, Observed, Follows, At, Row

LEMMA SameDisjoint == PeriodsDisjoint <=> Disjoint(history)
  BY DEF PeriodsDisjoint, Disjoint, Precedes

LEMMA SameDisjointPrime ==
  ASSUME NEW h, h = history'
  PROVE  PeriodsDisjoint' <=> Disjoint(h)
  BY DEF PeriodsDisjoint, Disjoint, Precedes

\* TypeOK in two halves: the versions of the history, and the rest.
Typed == \A v \in history : IsVersion(v, landed)
TypeRest ==
  /\ scenario \in Scenario
  /\ landed \subseteq Batch /\ processed \subseteq landed
  /\ active \in landed \cup {None}
  /\ silver \subseteq landed /\ applied \subseteq landed
  /\ mart \in (landed \cap Full) \cup {None}
  /\ attempt \in [at : {"off", "silver", "history", "current", "commit"},
                  mode : {"legacy", "forward", "rebuild"}]
  /\ attempt.at # "off" => active # None
  /\ faults \in 0..MaxFaults /\ expiries \in 0..MaxExpiries

LEMMA TypeHalves == TypeOK <=> TypeRest /\ Typed
  BY DEF TypeOK, TypeRest, Typed, IsVersion

LEMMA TypeHalvesPrime == TypeOK' <=> TypeRest' /\ Typed'
  BY DEF TypeOK, TypeRest, Typed, IsVersion

LEMMA SameTyped ==
  ASSUME scenario' = scenario, NEW h, h = history', NEW L, L = landed'
  PROVE  Typed' <=> \A v \in h : IsVersion(v, L)
  BY DEF Typed, IsVersion, Version, At, Row

\* What a step may do to the history.
Merges ==
  /\ attempt.at = "history" /\ attempt.mode # "rebuild" /\ ForwardPossible
  /\ history' = Merged(history, active) /\ applied' = applied \cup {active}
Rebuilds ==
  RebuildPossible /\ history' = Canonical(silver) /\ applied' = silver

LEMMA HistoryChanges ==
  ASSUME [Next]_vars
  PROVE  \/ history' = history /\ applied' = applied
         \/ Merges /\ History
         \/ Rebuilds /\ (History \/ RebuildByHand)
  BY DEF Next, Stage, Land, Select, Maintain, Expire, Silver, History, HistoryRefused, CurrentMart,
         MartRefused, Commit, Fail, RebuildByHand, Forward, Rebuild, Source, Merges, Rebuilds, vars

LEMMA InitInv ==
  ASSUME Init
  PROVE  IInv
  <1>1. TypeOK
    BY BoundAssumption DEF Init, TypeOK
  <1>2. AttemptKnows /\ MartKnown
    BY DEF Init, AttemptKnows, MartKnown
  <1>3. PeriodsDisjoint
    BY DEF Init, PeriodsDisjoint
  <1>4. Canonical({}) = {}
    BY DEF Canonical, Starts, Observed
  <1>5. HistoryKnown
    BY <1>4 DEF Init, HistoryKnown, HistoryIsCanonical
  <1> QED
    BY <1>1, <1>2, <1>3, <1>5 DEF IInv

LEMMA TypeRestStep ==
  ASSUME TypeRest, AttemptKnows, [Next]_vars
  PROVE  TypeRest'
  <1> USE BatchAssumption, BoundAssumption DEF TypeRest
  <1>0. scenario' = scenario /\ Full' = Full
    BY SameScenario DEF Full
  <1>1. CASE \E b \in Batch : Land(b)
    BY <1>0, <1>1 DEF Land, Full
  <1>2. CASE \E b \in Batch : Select(b)
    BY <1>0, <1>2 DEF Select, Mode
  <1>3. CASE \E b \in Batch : Maintain(b)
    BY <1>0, <1>3 DEF Maintain
  <1>4. CASE \E b \in Batch : Expire(b)
    BY <1>0, <1>4 DEF Expire
  <1>5. CASE Silver
    BY <1>0, <1>5 DEF Silver
  <1>6. CASE History
    BY <1>0, <1>6 DEF History, Idle, AfterHistory, Forward, Rebuild, Source
  <1>7. CASE HistoryRefused \/ MartRefused
    BY <1>0, <1>7 DEF HistoryRefused, MartRefused, Idle
  <1>8. CASE CurrentMart
    <2>1. active \in landed \cap Full
      BY <1>8 DEF CurrentMart, AttemptKnows
    <2> QED
      BY <1>0, <1>8, <2>1 DEF CurrentMart, Idle
  <1>9. CASE Commit \/ Fail
    BY <1>0, <1>9 DEF Commit, Fail, Idle
  <1>10. CASE RebuildByHand
    BY <1>0, <1>10 DEF RebuildByHand, Rebuild, Source
  <1>11. CASE UNCHANGED vars
    BY <1>0, <1>11 DEF vars
  <1> QED
    BY <1>1, <1>2, <1>3, <1>4, <1>5, <1>6, <1>7, <1>8, <1>9, <1>10, <1>11 DEF Next, Stage

LEMMA TypedStep ==
  ASSUME TypeOK, AttemptKnows, [Next]_vars
  PROVE  Typed'
  <1>1. TypeRest /\ Typed /\ TypeRest'
    BY TypeHalves, TypeRestStep
  <1>2. scenario \in Scenario /\ scenario' = scenario /\ landed' \subseteq Batch /\ landed \subseteq landed'
    <2>1. landed \subseteq landed'
      BY DEF Next, Stage, Land, Select, Maintain, Expire, Silver, History, HistoryRefused, CurrentMart,
             MartRefused, Commit, Fail, RebuildByHand, vars
    <2> QED
      BY <1>1, <2>1, SameScenario DEF TypeRest
  <1>3. PICK h : h = history'
    OBVIOUS
  <1>4. PICK L : L = landed'
    OBVIOUS
  <1>5. \A v \in history : IsVersion(v, L)
    BY <1>1, <1>2, <1>4 DEF Typed, IsVersion
  <1>6. CASE history' = history
    BY <1>2, <1>3, <1>4, <1>5, <1>6, SameTyped
  <1>7. CASE Merges
    <2>1. active \in L
      BY <1>1, <1>2, <1>4, <1>7 DEF Merges, TypeRest
    <2>2. \A v \in h : IsVersion(v, L)
      BY <1>2, <1>3, <1>4, <1>5, <1>7, <2>1, MergedTyped DEF Merges
    <2> QED
      BY <1>2, <1>3, <1>4, <2>2, SameTyped
  <1>8. CASE Rebuilds
    <2>1. silver \subseteq L
      BY <1>1, <1>2, <1>4 DEF TypeRest
    <2>2. \A v \in h : IsVersion(v, L)
      BY <1>2, <1>3, <1>4, <1>8, <2>1, CanonicalTyped DEF Rebuilds
    <2> QED
      BY <1>2, <1>3, <1>4, <2>2, SameTyped
  <1> QED
    BY <1>6, <1>7, <1>8, HistoryChanges

LEMMA TypeStep ==
  ASSUME TypeOK, AttemptKnows, [Next]_vars
  PROVE  TypeOK'
  BY TypeHalves, TypeHalvesPrime, TypeRestStep, TypedStep

\* The times that a step compares are those that the next one compares.
LEMMA SameTimes ==
  ASSUME [Next]_vars
  PROVE  At' = At /\ Full' = Full /\ Row' = Row
  BY SameScenario DEF At, Full, Row

LEMMA AttemptStep ==
  ASSUME TypeOK, AttemptKnows, [Next]_vars
  PROVE  AttemptKnows'
  <1> USE BatchAssumption DEF AttemptKnows, TypeRest
  <1>0. TypeRest /\ At' = At /\ Full' = Full /\ At \in [Batch -> Nat]
    BY TypeHalves, SameTimes, WhatLands
  <1>1. CASE \E b \in Batch : Land(b)
    BY <1>0, <1>1 DEF Land
  <1>2. CASE \E b \in Batch : Select(b)
    <2>1. PICK b \in Batch : Select(b)
      BY <1>2
    <2>2. Mode(b) = "legacy" <=> b \notin Full
      BY DEF Mode
    <2>3. Mode(b) = "forward" => \A p \in processed : At[p] <= At[b]
      <3>1. Mode(b) = "forward" => \A p \in processed : ~(At[b] < At[p])
        BY DEF Mode
      <3> QED
        BY <1>0, <3>1
    <2> QED
      BY <1>0, <2>1, <2>2, <2>3 DEF Select
  <1>3. CASE \E b \in Batch : Maintain(b)
    BY <1>0, <1>3 DEF Maintain
  <1>4. CASE \E b \in Batch : Expire(b)
    BY <1>0, <1>4 DEF Expire
  <1>5. CASE Silver
    BY <1>0, <1>5 DEF Silver
  <1>6. CASE History
    BY <1>0, <1>6 DEF History, Idle, AfterHistory
  <1>7. CASE HistoryRefused \/ MartRefused
    BY <1>0, <1>7 DEF HistoryRefused, MartRefused, Idle
  <1>8. CASE CurrentMart
    BY <1>0, <1>8 DEF CurrentMart, Idle
  <1>9. CASE Commit \/ Fail
    BY <1>0, <1>9 DEF Commit, Fail, Idle
  <1>10. CASE RebuildByHand
    BY <1>0, <1>10 DEF RebuildByHand
  <1>11. CASE UNCHANGED vars
    BY <1>0, <1>11 DEF vars
  <1> QED
    BY <1>1, <1>2, <1>3, <1>4, <1>5, <1>6, <1>7, <1>8, <1>9, <1>10, <1>11 DEF Next, Stage

LEMMA MartStep ==
  ASSUME TypeOK, AttemptKnows, MartKnown, [Next]_vars
  PROVE  MartKnown'
  <1> USE BatchAssumption DEF MartKnown, TypeRest
  <1>0. TypeRest /\ At' = At /\ Full' = Full /\ At \in [Batch -> Nat]
    BY TypeHalves, SameTimes, WhatLands
  <1>1. CASE \E b \in Batch : Land(b)
    BY <1>0, <1>1 DEF Land
  <1>2. CASE \E b \in Batch : Select(b)
    BY <1>0, <1>2 DEF Select
  <1>3. CASE \E b \in Batch : Maintain(b)
    BY <1>0, <1>3 DEF Maintain
  <1>4. CASE \E b \in Batch : Expire(b)
    BY <1>0, <1>4 DEF Expire
  <1>5. CASE Silver
    BY <1>0, <1>5 DEF Silver
  <1>6. CASE History
    BY <1>0, <1>6 DEF History, Idle, AfterHistory, AttemptKnows
  <1>7. CASE HistoryRefused \/ MartRefused
    BY <1>0, <1>7 DEF HistoryRefused, MartRefused, Idle
  <1>8. CASE CurrentMart
    <2>1. active \in Full /\ active \in Batch /\ active # None
      BY <1>0, <1>8 DEF CurrentMart, AttemptKnows
    <2>2. mart = None \/ mart \in Batch
      BY <1>0
    <2>3. mart' # None /\ mart' \in {active, mart} /\ At[active] <= At[mart']
          /\ (mart # None => At[mart] <= At[mart'])
      BY <1>0, <1>8, <2>1, <2>2 DEF CurrentMart, Action
    <2>4. \A p \in processed \cap Full : At[p] <= At[mart']
      <3> TAKE p \in processed \cap Full
      <3>1. mart # None /\ At[p] <= At[mart] /\ At[mart] <= At[mart']
        BY <2>3
      <3>2. p \in Batch /\ mart \in Batch /\ mart' \in Batch
        BY <1>0, <2>1, <2>2, <2>3, <3>1
      <3>3. At[p] \in Nat /\ At[mart] \in Nat /\ At[mart'] \in Nat
        BY <1>0, <3>2
      <3> QED
        BY <3>1, <3>3
    <2>5. processed' = processed /\ active' = active
      BY <1>8 DEF CurrentMart
    <2> QED
      BY <1>0, <2>3, <2>4, <2>5
  <1>9. CASE Commit
    BY <1>0, <1>9 DEF Commit, Idle
  <1>10. CASE Fail
    BY <1>0, <1>10 DEF Fail, Idle
  <1>11. CASE RebuildByHand
    BY <1>0, <1>11 DEF RebuildByHand
  <1>12. CASE UNCHANGED vars
    BY <1>0, <1>12 DEF vars
  <1> QED
    BY <1>1, <1>2, <1>3, <1>4, <1>5, <1>6, <1>7, <1>8, <1>9, <1>10, <1>11, <1>12 DEF Next, Stage

LEMMA DisjointStep ==
  ASSUME TypeOK, PeriodsDisjoint, [Next]_vars
  PROVE  PeriodsDisjoint'
  <1>1. TypeRest /\ Typed
    BY TypeHalves
  <1>2. landed \subseteq Batch /\ scenario \in Scenario
    BY <1>1 DEF TypeRest
  <1>3. Disjoint(history)
    BY SameDisjoint
  <1>4. PICK h : h = history'
    OBVIOUS
  <1>5. CASE history' = history
    BY <1>3, <1>4, <1>5, SameDisjointPrime
  <1>6. CASE Merges
    <2>1. active \in Batch /\ Valid(history) /\ ~OutOfOrder(history, active)
      BY <1>1, <1>6, BatchAssumption DEF Merges, ForwardPossible, TypeRest
    <2>2. Disjoint(h)
      BY <1>1, <1>2, <1>3, <1>4, <1>6, <2>1, MergedDisjoint DEF Merges, Typed
    <2> QED
      BY <1>4, <2>2, SameDisjointPrime
  <1>7. CASE Rebuilds
    <2>1. silver \subseteq Batch /\ ~Ambiguous(silver)
      BY <1>1, <1>7 DEF Rebuilds, RebuildPossible, TypeRest
    <2>2. Disjoint(h)
      BY <1>2, <1>4, <1>7, <2>1, CanonicalDisjoint DEF Rebuilds
    <2> QED
      BY <1>4, <2>2, SameDisjointPrime
  <1> QED
    BY <1>5, <1>6, <1>7, HistoryChanges

\* The table stays what a rebuild of all that it has taken in would give.
LEMMA CanonicalStep ==
  ASSUME IInv, [Next]_vars, Regular, expiries = 0
  PROVE  HistoryIsCanonical'
  <1>1. TypeRest /\ AttemptKnows /\ HistoryKnown
    BY TypeHalves DEF IInv
  <1>2. /\ scenario \in Scenario /\ scenario' = scenario /\ At \in [Batch -> Nat]
        /\ applied \subseteq Batch /\ silver \subseteq Batch
    BY <1>1, SameScenario, WhatLands DEF TypeRest
  <1>3. history = Canonical(applied) /\ applied \subseteq silver
    BY <1>1 DEF HistoryKnown, HistoryIsCanonical
  <1>4. PICK S : S = applied'
    OBVIOUS
  <1>5. CASE history' = history /\ applied' = applied
    BY <1>2, <1>3, <1>4, <1>5, SameCanonical
  <1>6. CASE Merges
    <2>1. active \in Batch /\ active \in Full
      BY <1>1, <1>6, BatchAssumption DEF Merges, TypeRest, Regular
    <2>2. attempt.mode = "forward"
      BY <1>1, <1>6, <2>1 DEF Merges, TypeRest, AttemptKnows
    <2>3. \A p \in processed : At[p] <= At[active]
      BY <1>1, <1>6, <2>2 DEF Merges, AttemptKnows
    <2>4. ASSUME NEW x \in applied, x # active
          PROVE  At[x] < At[active]
      <3>1. x \in silver /\ x \in Batch /\ At[x] \in Nat /\ At[active] \in Nat /\ At[x] # At[active]
        BY <1>2, <1>3, <2>1, <2>4 DEF Regular
      <3>2. x \in processed \/ \E p \in processed : At[x] < At[p]
        BY <1>1, <2>4, <3>1 DEF HistoryKnown
      <3>3. CASE x \in processed
        BY <2>3, <3>1, <3>3
      <3>4. CASE \E p \in processed : At[x] < At[p]
        <4>1. PICK p \in processed : At[x] < At[p]
          BY <3>4
        <4>2. At[p] \in Nat /\ At[p] <= At[active]
          BY <1>1, <1>2, <2>3 DEF TypeRest
        <4> QED
          BY <3>1, <4>1, <4>2
      <3> QED
        BY <3>2, <3>3, <3>4
    <2>5. \A c \in Customer : Apart(applied, c)
      BY <1>2, Observations DEF Apart, Regular
    <2>6. CASE active \in applied
      <3>1. \A x \in applied : At[x] <= At[active]
        BY <1>2, <2>1, <2>4
      <3>2. Merged(Canonical(applied), active) = Canonical(applied)
        BY <1>2, <2>5, <2>6, <3>1, MergeAgain
      <3>3. S = applied
        BY <1>4, <1>6, <2>6 DEF Merges
      <3>4. history' = Canonical(S)
        BY <1>3, <1>6, <3>2, <3>3 DEF Merges
      <3> QED
        BY <1>2, <1>4, <3>4, SameCanonical
    <2>7. CASE active \notin applied
      <3>1. \A x \in applied : At[x] < At[active]
        BY <2>4, <2>7
      <3>2. Merged(Canonical(applied), active) = Canonical(applied \cup {active})
        BY <1>2, <2>1, <2>5, <3>1, MergeIsRebuild
      <3>3. S = applied \cup {active}
        BY <1>4, <1>6 DEF Merges
      <3>4. history' = Canonical(S)
        BY <1>3, <1>6, <3>2, <3>3 DEF Merges
      <3> QED
        BY <1>2, <1>4, <3>4, SameCanonical
    <2> QED
      BY <2>6, <2>7
  <1>7. CASE Rebuilds
    BY <1>2, <1>4, <1>7, SameCanonical DEF Rebuilds
  <1> QED
    BY <1>5, <1>6, <1>7, HistoryChanges

LEMMA HistoryStep ==
  ASSUME IInv, [Next]_vars
  PROVE  HistoryKnown'
  <1> USE BatchAssumption
  <1>1. TypeRest /\ AttemptKnows
    BY TypeHalves DEF IInv
  <1>2. At' = At /\ Full' = Full
    BY SameTimes
  <1> SUFFICES ASSUME Regular', expiries' = 0
               PROVE  HistoryKnown'
    BY DEF HistoryKnown
  <1>3. Regular
    BY <1>2 DEF Regular
  <1>4. expiries = 0 /\ \A b \in Batch : ~Expire(b)
    <2>1. expiries \in Nat
      BY <1>1, BoundAssumption DEF TypeRest
    <2>2. expiries' = expiries \/ \E b \in Batch : Expire(b)
      BY DEF Next, Stage, Land, Select, Maintain, Silver, History, HistoryRefused, CurrentMart,
             MartRefused, Commit, Fail, RebuildByHand, vars
    <2>3. \A b \in Batch : Expire(b) => expiries' = expiries + 1
      BY DEF Expire
    <2> QED
      BY <2>1, <2>2, <2>3
  <1>5. HistoryIsCanonical'
    BY <1>3, <1>4, CanonicalStep
  <1>6. /\ processed \subseteq applied /\ applied \subseteq silver
        /\ attempt.at \in {"current", "commit"} => active \in applied
        /\ \A b \in silver : b \in processed \cup {active} \/ \E p \in processed : At[b] < At[p]
    BY <1>3, <1>4 DEF IInv, HistoryKnown
  <1> DEFINE Rest == /\ processed \subseteq applied /\ applied \subseteq silver
                     /\ attempt.at \in {"current", "commit"} => active \in applied
                     /\ \A b \in silver : \/ b \in processed \cup {active}
                                          \/ \E p \in processed : At[b] < At[p]
  <1> SUFFICES Rest'
    BY <1>5 DEF HistoryKnown
  <1> USE DEF TypeRest
  <1>11. CASE \E b \in Batch : Land(b)
    BY <1>2, <1>6, <1>11 DEF Land
  <1>12. CASE \E b \in Batch : Select(b)
    BY <1>1, <1>2, <1>6, <1>12 DEF Select
  <1>13. CASE \E b \in Batch : Maintain(b)
    BY <1>2, <1>6, <1>13 DEF Maintain
  <1>14. CASE Silver
    BY <1>2, <1>6, <1>14 DEF Silver
  <1>15. CASE History
    <2>1. active \in silver
      BY <1>15, <1>1 DEF History, AttemptKnows
    <2>2. applied' = applied \cup {active} \/ applied' = silver
      BY <1>15 DEF History, Forward, Rebuild, Source
    <2> QED
      BY <1>2, <1>6, <1>15, <2>1, <2>2 DEF History
  <1>16. CASE HistoryRefused \/ MartRefused
    BY <1>1, <1>2, <1>6, <1>16 DEF HistoryRefused, MartRefused, Idle
  <1>17. CASE CurrentMart
    BY <1>1, <1>2, <1>6, <1>17 DEF CurrentMart, Idle
  <1>18. CASE Commit
    BY <1>1, <1>2, <1>6, <1>18 DEF Commit, Idle
  <1>19. CASE Fail
    BY <1>1, <1>2, <1>6, <1>19 DEF Fail, Idle
  <1>20. CASE RebuildByHand
    BY <1>1, <1>2, <1>6, <1>20 DEF RebuildByHand, Rebuild, Source
  <1>21. CASE UNCHANGED vars
    BY <1>1, <1>2, <1>6, <1>21 DEF vars
  <1> QED
    BY <1>4, <1>11, <1>12, <1>13, <1>14, <1>15, <1>16, <1>17, <1>18, <1>19, <1>20, <1>21
    DEF Next, Stage

LEMMA NextInv ==
  ASSUME IInv, [Next]_vars
  PROVE  IInv'
  <1>1. TypeOK' /\ AttemptKnows' /\ MartKnown' /\ PeriodsDisjoint'
    BY TypeStep, AttemptStep, MartStep, DisjointStep DEF IInv
  <1>2. HistoryKnown'
    BY HistoryStep
  <1> QED
    BY <1>1, <1>2 DEF IInv

\* What an attempt, the mart and the history are at every step of runner and operator.
THEOREM Invariant == Spec => []IInv
  BY InitInv, NextInv, PTL DEF Spec

\* The variables keep their types: a version of the history is of a customer and a batch that
\* observes it.
THEOREM TypeCorrect == Spec => []TypeOK
  <1>1. IInv => TypeOK
    BY DEF IInv
  <1> QED
    BY <1>1, Invariant, PTL

\* apply_customer_history and rebuild_customer_history: with full snapshots of different times
\* and as long as silver keeps its rows, the table is the history of all observations it has
\* taken in, in whichever order they arrived, and no recorded batch is missing from it.
THEOREM ObservedHistory == Spec => []HistoryIsObserved
  <1>1. IInv => HistoryIsObserved
    BY DEF IInv, HistoryKnown, HistoryIsObserved
  <1> QED
    BY <1>1, Invariant, PTL

\* The periods of a customer never overlap, whatever batches there are: full or not, late, of
\* one time, with rows that have expired.
THEOREM DisjointPeriods == Spec => []PeriodsDisjoint
  <1>1. IInv => PeriodsDisjoint
    BY DEF IInv
  <1> QED
    BY <1>1, Invariant, PTL

\* publish_snapshot: once nothing is reserved, the mart is the newest snapshot that is recorded.
THEOREM NewestMart == Spec => []MartIsNewest
  <1>1. IInv => MartIsNewest
    <2> SUFFICES ASSUME IInv, active = None
                 PROVE  IF processed \cap Full = {} THEN mart = None
                        ELSE mart \in processed /\ \A p \in processed \cap Full : At[p] <= At[mart]
      BY DEF MartIsNewest
    <2>1. mart \in (landed \cap Full) \cup {None}
      BY DEF IInv, TypeOK
    <2> QED
      BY <2>1 DEF IInv, MartKnown
  <1> QED
    BY <1>1, Invariant, PTL

\* Neither the MERGE nor a rebuild from what silver still has forgets since when a customer is
\* known (Covers, the check of the existing history).
THEOREM KnownSince == Spec => KnownSinceKept
  <1> DEFINE Kept == \A v \in history : \E w \in history' :
                       w.customer = v.customer /\ w.from <= v.from
  <1>1. ASSUME IInv, [Next]_vars
        PROVE  Kept
    <2>1. TypeRest /\ Typed
      BY <1>1, TypeHalves DEF IInv
    <2>2. scenario \in Scenario /\ landed \subseteq Batch /\ silver \subseteq Batch
      BY <2>1 DEF TypeRest
    <2>3. \A v \in history : v.from \in Nat
      <3> TAKE v \in history
      <3>1. PICK c \in Customer, b \in landed, t \in {{}} \cup {{At[q]} : q \in landed} :
              v = Version(c, b, t)
        BY <2>1 DEF Typed, IsVersion
      <3> QED
        BY <2>2, <3>1, VersionFields, WhatLands
    <2>4. CASE history' = history
      BY <2>3, <2>4
    <2>5. CASE Merges
      <3>1. \A v \in history : \E w \in history' : w.customer = v.customer /\ w.from = v.from
        BY <2>1, <2>5, MergedKnown DEF Merges, Typed
      <3> QED
        BY <2>3, <3>1
    <2>6. CASE Rebuilds
      BY <2>1, <2>2, <2>6, CanonicalKnown DEF Rebuilds, RebuildPossible, Typed
    <2> QED
      BY <1>1, <2>4, <2>5, <2>6, HistoryChanges
  <1>2. IInv /\ [Next]_vars => [Kept]_vars
    BY <1>1
  <1> QED
    BY <1>2, Invariant, PTL DEF Spec, KnownSinceKept
=============================================================================
