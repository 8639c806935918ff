------------------------- MODULE RecoveryDrillsProof -------------------------
(* Theorems about RecoveryDrills and the TrinoClient in it, for any number of   *)
(* pages, snapshots and faults.                                              *)
EXTENDS RecoveryDrills, FiniteSetTheorems, TLAPS

-----------------------------------------------------------------------------
(* What a call becomes.                                                    *)

\* A call that is over.
LEMMA OverCall ==
  ASSUME NEW c \in Calls, NEW o \in Outcomes
  PROVE  /\ Over(c, o) \in Calls /\ Over(c, o).pc = "over" /\ Over(c, o).outcome = o
         /\ Over(c, o).cancellation = c.cancellation /\ Over(c, o).uri = c.uri
         /\ Over(c, o).rows = c.rows
  BY DEF Over, Calls

\* How a call without a result ends, or goes on to cancel its query.
Cancelling(c) ==
  /\ c.pc = "send" /\ c.op = "DELETE" /\ c.uri /\ c.why \in {"timeout", "page_limit"}
  /\ c.outcome = "none" /\ c.cancellation = "none"

LEMMA CancelCall ==
  ASSUME NEW c \in Calls, NEW why \in {"timeout", "page_limit"},
         c.outcome = "none", c.cancellation = "none"
  PROVE  LET d == Cancel(c, why) IN
         /\ d \in Calls /\ d.uri = c.uri
         /\ Cancelling(d) \/ (d.pc = "over" /\ d.outcome = why /\ d.cancellation = "not_available")
<1>1. CASE c.uri
  <2> DEFINE d == [c EXCEPT !.pc = "send", !.op = "DELETE", !.late = FALSE, !.why = why]
  <2>1. d \in Calls /\ d.uri = c.uri /\ Cancelling(d)
    BY <1>1 DEF Calls, Cancelling, Outcomes
  <2>2. QED
    BY <1>1, <2>1 DEF Cancel
<1>2. CASE ~c.uri
  <2> DEFINE e == Over(c, why)
  <2>1. e \in Calls /\ e.pc = "over" /\ e.outcome = why /\ e.uri = c.uri
    BY OverCall DEF Outcomes
  <2>2. Cancel(c, why) = [e EXCEPT !.cancellation = "not_available"]
    BY <1>2 DEF Cancel
  <2> HIDE DEF e
  <2>3. QED
    BY <2>1, <2>2 DEF Calls
<1>3. QED
  BY <1>1, <1>2

LEMMA TimedOutCall ==
  ASSUME NEW c \in Calls, c.outcome = "none", c.cancellation = "none",
         c.op = "DELETE" => c.why \in {"timeout", "page_limit"}
  PROVE  LET d == TimedOut(c) IN
         /\ d \in Calls /\ d.uri = c.uri
         /\ \/ Cancelling(d)
            \/ d.pc = "over" /\ d.outcome \in {"timeout", "page_limit"} /\ d.cancellation # "accepted"
<1>1. CASE c.op = "DELETE"
  <2> DEFINE e == Over(c, c.why)
  <2>1. e \in Calls /\ e.pc = "over" /\ e.outcome = c.why /\ e.uri = c.uri
    BY <1>1, OverCall DEF Outcomes
  <2>2. TimedOut(c) = [e EXCEPT !.cancellation = "transport_failed"]
    BY <1>1 DEF TimedOut
  <2> HIDE DEF e
  <2>3. QED
    BY <1>1, <2>1, <2>2 DEF Calls
<1>2. CASE c.op # "DELETE"
  BY <1>2, CancelCall DEF TimedOut
<1>3. QED
  BY <1>1, <1>2

LEMMA BrokenCall ==
  ASSUME NEW c \in Calls, c.outcome = "none", c.cancellation = "none",
         c.op = "DELETE" => c.why \in {"timeout", "page_limit"}
  PROVE  LET d == Broken(c) IN
         /\ d \in Calls /\ d.uri = c.uri
         /\ \/ Cancelling(d)
            \/ d.pc = "over" /\ d.outcome \in {"timeout", "page_limit"} /\ d.cancellation # "accepted"
            \/ c.op # "DELETE" /\ d.pc = "over" /\ d.outcome = "transport" /\ d.cancellation = "none"
<1>1. CASE c.op = "DELETE"
  BY <1>1, TimedOutCall DEF Broken
<1>2. CASE c.op # "DELETE"
  BY <1>2, OverCall DEF Broken, Outcomes
<1>3. QED
  BY <1>1, <1>2

-----------------------------------------------------------------------------
(* The invariant of a client.                                              *)

\* What the types say of a call that is asking.
LEMMA AskingCall ==
  ASSUME TrinoIInv, Asking
  PROVE  /\ call \in Calls /\ call.outcome = "none" /\ call.cancellation = "none"
         /\ call.op = "DELETE" => call.why \in {"timeout", "page_limit"} /\ call.uri
         /\ call.op = "POST" => ~call.uri /\ call.rows = <<>> /\ call.pages = 0
         /\ call.op = "GET" => call.uri /\ call.pages < PageLimit
         /\ call.op \in {"POST", "GET", "DELETE"}
<1>1. call \in Calls /\ call.pc # "over" /\ call.op \in {"POST", "GET", "DELETE"}
  BY DEF TrinoIInv, TrinoTypeOK, Asking, Calls
<1>2. call.outcome = "none" /\ call.cancellation = "none"
  BY <1>1 DEF TrinoIInv, CallKnown
<1>3. CASE call.op = "DELETE"
  BY <1>1, <1>2, <1>3 DEF TrinoIInv, CallKnown
<1>4. CASE call.op = "POST"
  BY <1>1, <1>2, <1>4 DEF TrinoIInv, CallKnown
<1>5. CASE call.op = "GET"
  BY <1>1, <1>2, <1>5 DEF TrinoIInv, CallKnown
<1>6. QED
  BY <1>1, <1>3, <1>4, <1>5

\* While a call asks, but not for a cancellation, no request of its own was given up.
LEMMA NoneGivenUp ==
  ASSUME TrinoIInv, Asking, call.op # "DELETE"
  PROVE  \A i \in Thread : Active(i) /\ reader[i].own => Waits(i)
<1>1. call.outcome = "none" /\ call.pc # "idle"
  BY AskingCall DEF Asking
<1>2. QED
  BY <1>1 DEF TrinoIInv, RequestsKnown

\* Requests that go on as they are, or are given up.
Fewer ==
  \A i \in Thread : Active(i)' =>
    /\ Active(i) /\ reader'[i].stage = reader[i].stage /\ reader'[i].op = reader[i].op
    /\ reader'[i].own = reader[i].own /\ reader'[i].given_up

NoOwn == \A i \in Thread : Active(i) => ~reader[i].own

\* No call is forgotten while it is asked.
Moves == call.pc # "idle" => call'.pc # "idle"

\* A call that gives up, or is over, keeps the invariant.
LEMMA CallEnds ==
  ASSUME TrinoIInv, UNCHANGED server, call.pc # "idle", call' \in Calls,
         reader' \in [Thread -> Readers], Fewer,
         EndKnown', call'.uri = call.uri \/ NoOwn',
         \/ Cancelling(call')
         \/ /\ call'.pc = "over" /\ call'.outcome # "none"
            /\ call'.outcome \in {"timeout", "page_limit", "raised"} \/ NoOwn'
  PROVE  TrinoIInv' /\ Moves
<1>1. TrinoTypeOK'
  BY DEF TrinoIInv, TrinoTypeOK, Queries
<1>2. RequestsKnown'
  <2>1. call'.pc \in {"send", "over"}
    BY DEF Cancelling
  <2>2. ASSUME NEW i \in Thread, Active(i)', reader'[i].own
        PROVE  \/ call'.outcome \in {"timeout", "page_limit", "raised"}
               \/ Asking' /\ call'.op = "DELETE"
    BY <2>2 DEF Cancelling, Asking, NoOwn
  <2>3. ASSUME NEW i \in Thread, Active(i)', reader'[i].own, reader'[i].stage = "started",
               reader'[i].op = "POST"
        PROVE  server'.state = "none" /\ ~call'.uri
    BY <2>3 DEF TrinoIInv, RequestsKnown, Fewer, NoOwn
  <2>4. ASSUME NEW i \in Thread, NEW j \in Thread,
               \A k \in {i, j} : Active(k)' /\ reader'[k].own /\ reader'[k].op = "POST"
        PROVE  i = j
    <3>1. \A k \in {i, j} : Active(k) /\ reader[k].own /\ reader[k].op = "POST"
      BY <2>4 DEF Fewer
    <3>2. QED
      BY <3>1 DEF TrinoIInv, RequestsKnown
  <2>5. \A i \in Thread : Active(i)' => reader'[i].given_up
    BY DEF Fewer
  <2>6. ASSUME NEW i \in Thread, Active(i)', reader'[i].own, reader'[i].op = "DELETE"
        PROVE  call'.uri
    BY <2>6 DEF TrinoIInv, RequestsKnown, Fewer, NoOwn
  <2>7. QED
    BY <2>1, <2>2, <2>3, <2>4, <2>5, <2>6 DEF RequestsKnown
<1>3. CallKnown'
  BY <1>1 DEF CallKnown, Cancelling, Unanswered, Asking
<1>4. Moves
  BY DEF Moves, Cancelling
<1>5. QED
  BY <1>1, <1>2, <1>3, <1>4 DEF TrinoIInv

\* What an action of the client does to its requests.
LEMMA FreeType == Free \in Readers /\ Idle \in Calls /\ NoQuery \in Queries /\ Nothing \in Answers
<1>1. Nothing \in Answers
  BY PagesAssumption DEF Nothing, Answers
<1>2. Free \in Readers
  BY <1>1 DEF Free, Readers
<1>3. NoQuery \in Queries
  BY PagesAssumption DEF NoQuery, Queries
<1>4. <<>> \in Seq(1..Pages)
  OBVIOUS
<1>5. Idle \in Calls
  BY <1>1, <1>4, PagesAssumption DEF Idle, Calls, Thread, Outcomes
<1>6. QED
  BY <1>1, <1>2, <1>3, <1>5

LEMMA AskInv ==
  ASSUME TrinoIInv, NEW timed \in BOOLEAN, NEW anew, Ask(timed, anew)
  PROVE  TrinoIInv'
<1> DEFINE c == [Idle EXCEPT !.pc = "send", !.timed = timed]
<1>1. /\ c \in Calls /\ c.pc = "send" /\ c.op = "POST" /\ c.rows = <<>> /\ c.pages = 0 /\ ~c.uri
      /\ c.outcome = "none" /\ c.cancellation = "none"
  BY FreeType DEF Calls, Idle
<1>2. call' = c /\ server' = NoQuery /\ call.pc = "idle"
  BY DEF Ask
<1> HIDE DEF c
<1>3. reader \in [Thread -> Readers]
  BY DEF TrinoIInv, TrinoTypeOK
<1>4. \A i \in Thread : Active(i) => reader[i].given_up
  BY <1>2 DEF TrinoIInv, RequestsKnown, Waits
<1>5. /\ reader' \in [Thread -> Readers]
      /\ \A i \in Thread : Active(i)' => ~reader'[i].own /\ reader'[i].given_up
  <2>1. CASE reader' = [i \in Thread |-> Free]
    BY <2>1, FreeType DEF Active, Free
  <2>2. CASE reader' = [i \in Thread |-> [reader[i] EXCEPT !.own = FALSE]]
    <3>1. \A i \in Thread : LET q == [reader[i] EXCEPT !.own = FALSE] IN
            /\ q \in Readers /\ q.stage = reader[i].stage /\ ~q.own
            /\ q.given_up = reader[i].given_up
      BY <1>3 DEF Readers
    <3>2. QED
      BY <1>4, <2>2, <3>1 DEF Active
  <2>3. QED
    BY <2>1, <2>2 DEF Ask
<1>6. TrinoTypeOK'
  BY <1>1, <1>2, <1>5, FreeType DEF TrinoTypeOK
<1>7. RequestsKnown'
  BY <1>1, <1>2, <1>5 DEF RequestsKnown
<1>8. AsksNext'
  <2>1. NoQuery.next = 1 /\ Len(<<>>) = 0 /\ Pages \in Nat /\ 1 <= Pages
    BY PagesAssumption DEF NoQuery
  <2>2. QED
    BY <1>1, <1>2, <2>1 DEF AsksNext, Whole
<1>9. CallKnown' /\ EndKnown'
  BY <1>1, <1>2, <1>8 DEF CallKnown, EndKnown, Asking, Unanswered
<1>10. QED
  BY <1>6, <1>7, <1>9 DEF TrinoIInv

\* The query is reset when its call is over.
Closes ==
  /\ call' = Idle /\ server' = NoQuery
  /\ (call.pc = "over" /\ UNCHANGED reader) \/ reader' = [i \in Thread |-> Free]

LEMMA CloseInv == TrinoIInv /\ Closes => TrinoIInv'
<1> SUFFICES ASSUME TrinoIInv, Closes PROVE TrinoIInv'
  OBVIOUS
<1>1. /\ Idle.pc = "idle" /\ Idle.outcome = "none" /\ Idle.cancellation = "none"
  BY DEF Idle
<1>2. reader \in [Thread -> Readers]
  BY DEF TrinoIInv, TrinoTypeOK
<1>3. /\ reader' \in [Thread -> Readers]
      /\ \A i \in Thread : Active(i)' => reader'[i].given_up
      /\ UNCHANGED reader \/ \A i \in Thread : ~Active(i)'
  <2>1. CASE reader' = [i \in Thread |-> Free]
    BY <2>1, FreeType DEF Active, Free
  <2>2. CASE call.pc = "over" /\ UNCHANGED reader
    BY <1>2, <2>2 DEF Active, TrinoIInv, RequestsKnown, Waits
  <2>3. QED
    BY <2>1, <2>2 DEF Closes
<1>4. TrinoTypeOK'
  BY <1>3, FreeType DEF TrinoTypeOK, Closes
<1>5. RequestsKnown'
  BY <1>1, <1>3 DEF RequestsKnown, Closes, TrinoIInv, Active
<1>6. CallKnown' /\ EndKnown'
  BY <1>1 DEF CallKnown, EndKnown, Asking, Unanswered, Closes
<1>7. QED
  BY <1>4, <1>5, <1>6 DEF TrinoIInv

\* Time passes, or runs out.
LEMMA ExpireInv == TrinoIInv /\ Expire => TrinoIInv' /\ Moves
<1> SUFFICES ASSUME TrinoIInv, Expire PROVE TrinoIInv' /\ Moves
  OBVIOUS
<1>1. call \in Calls /\ call' = [call EXCEPT !.late = TRUE] /\ UNCHANGED <<reader, server>>
  BY DEF Expire, TrinoIInv, TrinoTypeOK
<1>2. /\ call' \in Calls /\ call'.pc = call.pc /\ call'.op = call.op /\ call'.by = call.by
      /\ call'.told = call.told /\ call'.uri = call.uri /\ call'.pages = call.pages
      /\ call'.rows = call.rows /\ call'.why = call.why /\ call'.outcome = call.outcome
      /\ call'.cancellation = call.cancellation
  BY <1>1 DEF Calls
<1>3. TrinoTypeOK' /\ RequestsKnown' /\ EndKnown'
  BY <1>1, <1>2 DEF TrinoIInv, TrinoTypeOK, RequestsKnown, EndKnown, Active, Waits, Asking, Whole
<1>4. CallKnown'
  <2>1. UNCHANGED <<Asking, Unanswered>>
    BY <1>1, <1>2 DEF Asking, Unanswered
  <2>2. AsksNext => AsksNext'
    BY <1>1, <1>2 DEF AsksNext, Whole
  <2>3. Means(reader[call.by].answer) => Means(reader[call.by].answer)'
    BY <1>1, <1>2 DEF Means, Whole
  <2>4. Means(call.told) => Means(call.told)'
    BY <1>1, <1>2 DEF Means, Whole
  <2>5. QED
    BY <1>1, <1>2, <2>1, <2>2, <2>3, <2>4 DEF TrinoIInv, CallKnown
<1>5. QED
  BY <1>3, <1>4, <1>2 DEF TrinoIInv, Moves

LEMMA NoTimeInv == TrinoIInv /\ (NoTime \/ ThreadFails) => TrinoIInv' /\ Moves
<1> SUFFICES ASSUME TrinoIInv, NoTime \/ ThreadFails PROVE TrinoIInv' /\ Moves
  OBVIOUS
<1>1. call.pc = "send" /\ UNCHANGED <<reader, server>> /\ Asking
  BY DEF NoTime, ThreadFails, Asking
<1>2. Fewer /\ reader' \in [Thread -> Readers]
  BY <1>1 DEF Fewer, Active, Waits, TrinoIInv, TrinoTypeOK, RequestsKnown
<1>3. CASE NoTime
  <2>1. call' = TimedOut(call)
    BY <1>3 DEF NoTime
  <2>2. /\ TimedOut(call) \in Calls /\ TimedOut(call).uri = call.uri
        /\ \/ Cancelling(TimedOut(call))
           \/ /\ TimedOut(call).pc = "over" /\ TimedOut(call).outcome \in {"timeout", "page_limit"}
              /\ TimedOut(call).cancellation # "accepted"
    BY <1>1, AskingCall, TimedOutCall
  <2>3. QED
    BY <1>1, <1>2, <2>1, <2>2, CallEnds DEF EndKnown, Cancelling
<1>4. CASE ThreadFails
  <2>1. call' = Over(call, "raised")
    BY <1>4 DEF ThreadFails
  <2>2. /\ call' \in Calls /\ call'.uri = call.uri /\ call'.pc = "over" /\ call'.outcome = "raised"
        /\ call'.cancellation = "none"
    BY <1>1, <2>1, AskingCall, OverCall DEF Outcomes
  <2>3. QED
    BY <1>1, <1>2, <2>2, CallEnds DEF EndKnown
<1>5. QED
  BY <1>3, <1>4

\* A request is sent.
LEMMA SendInv == TrinoIInv /\ Send => TrinoIInv' /\ Moves
<1> SUFFICES ASSUME TrinoIInv, Send PROVE TrinoIInv' /\ Moves
  OBVIOUS
<1>1. PICK i \in Thread : /\ reader[i].stage = "free"
                         /\ call' = [call EXCEPT !.pc = "wait", !.by = i]
                         /\ reader' = [reader EXCEPT ![i] =
                              [Free EXCEPT !.stage = "started", !.op = call.op, !.own = TRUE]]
  BY DEF Send, Thread
<1>2. call.pc = "send" /\ UNCHANGED server /\ Asking
  BY DEF Send, Asking
<1>3. /\ call \in Calls /\ call.op \in {"POST", "GET", "DELETE"} /\ reader \in [Thread -> Readers]
      /\ server \in Queries
  BY DEF TrinoIInv, TrinoTypeOK, Calls
<1>4. /\ call' \in Calls /\ call'.pc = "wait" /\ call'.by = i /\ call'.op = call.op
      /\ call'.told = call.told /\ call'.uri = call.uri /\ call'.pages = call.pages
      /\ call'.rows = call.rows /\ call'.why = call.why /\ call'.outcome = call.outcome
      /\ call'.cancellation = call.cancellation
  BY <1>1, <1>3 DEF Calls
<1> DEFINE q == [Free EXCEPT !.stage = "started", !.op = call.op, !.own = TRUE]
<1>5. q \in Readers /\ q.stage = "started" /\ q.op = call.op /\ q.own /\ ~q.given_up
  BY <1>3, FreeType DEF Readers, Free
<1> HIDE DEF q
<1>6. reader' = [reader EXCEPT ![i] = q]
  BY <1>1 DEF q
<1>7. /\ reader' \in [Thread -> Readers] /\ reader'[i] = q
      /\ \A j \in Thread \ {i} : reader'[j] = reader[j]
  BY <1>3, <1>5, <1>6
<1>8. TrinoTypeOK'
  BY <1>2, <1>3, <1>4, <1>7 DEF TrinoTypeOK
<1>9. call.op # "DELETE" => AsksNext
  BY <1>2 DEF TrinoIInv, CallKnown, Unanswered
<1>10. RequestsKnown'
  <2>1. /\ Active(i)' /\ reader'[i].own /\ ~reader'[i].given_up /\ reader'[i].op = call'.op
    BY <1>4, <1>5, <1>7 DEF Active
  <2>2. ASSUME NEW j \in Thread \ {i}, Active(j)'
        PROVE  /\ Active(j) /\ reader'[j] = reader[j] /\ reader[j].given_up
               /\ reader[j].own => call.op = "DELETE"
    <3>1. Active(j) /\ reader'[j] = reader[j]
      BY <1>7, <2>2 DEF Active
    <3>2. QED
      BY <1>2, <3>1, NoneGivenUp DEF TrinoIInv, RequestsKnown, Waits
  <2>3. ASSUME NEW j \in Thread \ {i}, Active(j)', reader'[j].own, reader'[j].stage = "started",
               reader'[j].op = "POST"
        PROVE  server'.state = "none" /\ ~call'.uri
    BY <1>2, <1>4, <2>2, <2>3 DEF TrinoIInv, RequestsKnown
  <2>4. reader'[i].op = "POST" => server'.state = "none" /\ ~call'.uri
    BY <1>2, <1>4, <1>9, <2>1, AskingCall DEF AsksNext, NoQuery
  <2>5. ASSUME NEW j \in Thread, NEW k \in Thread,
               \A x \in {j, k} : Active(x)' /\ reader'[x].own /\ reader'[x].op = "POST"
        PROVE  j = k
    <3>1. CASE j = i \/ k = i
      <4>1. call.op = "POST" /\ i \in {j, k}
        BY <1>4, <2>1, <2>5, <3>1
      <4>2. \A x \in {j, k} \ {i} : Active(x)' /\ reader'[x].own
        BY <2>5
      <4>3. \A x \in {j, k} \ {i} : FALSE
        BY <2>2, <4>1, <4>2, <1>7
      <4>4. QED
        BY <4>3
    <3>2. CASE j # i /\ k # i
      <4>1. \A x \in {j, k} : Active(x) /\ reader[x].own /\ reader[x].op = "POST"
        BY <1>7, <2>2, <2>5, <3>2
      <4>2. QED
        BY <4>1 DEF TrinoIInv, RequestsKnown
    <3>3. QED
      BY <3>1, <3>2
  <2>6. Waits(i)' /\ Asking'
    BY <1>4, <2>1 DEF Waits, Asking
  <2>7. ASSUME NEW j \in Thread, Active(j)', reader'[j].own, reader'[j].op = "DELETE"
        PROVE  call'.uri
    BY <1>2, <1>4, <2>1, <2>2, <2>7, AskingCall
  <2>8. QED
    BY <1>4, <2>1, <2>2, <2>3, <2>4, <2>5, <2>6, <2>7 DEF RequestsKnown
<1>11. CallKnown'
  <2>1. call'.op # "DELETE" => AsksNext'
    BY <1>2, <1>4, <1>9 DEF AsksNext, Whole
  <2>2. reader'[call'.by].stage = "started"
    BY <1>4, <1>5, <1>7
  <2>3. QED
    BY <1>2, <1>4, <2>1, <2>2, AskingCall DEF CallKnown, Asking
<1>12. EndKnown'
  BY <1>2, <1>4, AskingCall DEF EndKnown
<1>13. QED
  BY <1>8, <1>10, <1>11, <1>12, <1>4 DEF TrinoIInv, Moves

\* The caller gives its request up.
LEMMA GiveUpInv == TrinoIInv /\ GiveUp => TrinoIInv' /\ Moves
<1> SUFFICES ASSUME TrinoIInv, GiveUp PROVE TrinoIInv' /\ Moves
  OBVIOUS
<1>1. /\ call.pc = "wait" /\ UNCHANGED server /\ Asking /\ call' = TimedOut(call)
      /\ reader' = [reader EXCEPT ![call.by].given_up = TRUE]
  BY DEF GiveUp, Asking
<1>2. reader \in [Thread -> Readers]
  BY DEF TrinoIInv, TrinoTypeOK
<1>3. /\ reader' \in [Thread -> Readers]
      /\ \A i \in Thread : /\ reader'[i].stage = reader[i].stage /\ reader'[i].op = reader[i].op
                           /\ reader'[i].own = reader[i].own
                           /\ reader'[i].given_up = (reader[i].given_up \/ i = call.by)
  <2>1. \A i \in Thread : [reader[i] EXCEPT !.given_up = TRUE] \in Readers
    BY <1>2 DEF Readers
  <2>2. \A i \in Thread : reader'[i] = IF i = call.by THEN [reader[i] EXCEPT !.given_up = TRUE]
                                     ELSE reader[i]
    BY <1>1, <1>2
  <2>3. reader' \in [Thread -> Readers]
    BY <1>1, <1>2, <2>1, <2>2
  <2>4. \A i \in Thread : reader[i].given_up \in BOOLEAN
    BY <1>2 DEF Readers
  <2>5. ASSUME NEW i \in Thread
        PROVE  /\ reader'[i].stage = reader[i].stage /\ reader'[i].op = reader[i].op
               /\ reader'[i].own = reader[i].own
               /\ reader'[i].given_up = (reader[i].given_up \/ i = call.by)
    <3>1. reader[i] \in Readers
      BY <1>2
    <3>2. CASE i = call.by
      BY <2>2, <3>1, <3>2 DEF Readers
    <3>3. CASE i # call.by
      BY <2>2, <2>4, <3>3
    <3>4. QED
      BY <3>2, <3>3
  <2>6. QED
    BY <2>3, <2>5
<1>4. Fewer
  BY <1>3 DEF Fewer, Active, Waits, TrinoIInv, RequestsKnown
<1>5. /\ TimedOut(call) \in Calls /\ TimedOut(call).uri = call.uri
      /\ \/ Cancelling(TimedOut(call))
         \/ /\ TimedOut(call).pc = "over" /\ TimedOut(call).outcome \in {"timeout", "page_limit"}
            /\ TimedOut(call).cancellation # "accepted"
  BY <1>1, AskingCall, TimedOutCall
<1>6. QED
  BY <1>1, <1>3, <1>4, <1>5, CallEnds DEF EndKnown, Cancelling

\* A request ends, and its caller with it if it waits.
LEMMA StopInv == TrinoIInv /\ (\E i \in Thread : Stop(i) \/ Break(i)) => TrinoIInv' /\ Moves
<1> SUFFICES ASSUME TrinoIInv, NEW i \in Thread, Stop(i) \/ Break(i) PROVE TrinoIInv' /\ Moves
  OBVIOUS
<1>1. /\ Active(i) /\ UNCHANGED server
      /\ reader' = [reader EXCEPT ![i].stage = "closing"]
  BY DEF Stop, Break, Active
<1>2. reader \in [Thread -> Readers] /\ call \in Calls
  BY DEF TrinoIInv, TrinoTypeOK
<1>3. /\ reader' \in [Thread -> Readers] /\ reader'[i].stage = "closing"
      /\ \A j \in Thread \ {i} : reader'[j] = reader[j]
  BY <1>1, <1>2 DEF Readers
<1>4. \A j \in Thread : Active(j)' => j # i /\ Active(j) /\ reader'[j] = reader[j]
  BY <1>3 DEF Active
<1>5. CASE Waits(i)
  <2>1. Asking /\ call.pc # "idle"
    BY <1>5 DEF Waits, Asking
  <2>2. Fewer
    BY <1>4, <1>5 DEF Fewer, TrinoIInv, RequestsKnown, Waits
  <2>3. call.op # "DELETE" => NoOwn'
    BY <1>4, <1>5, <2>1, NoneGivenUp DEF NoOwn, Waits
  <2>4. call' \in {TimedOut(call), Broken(call)}
    BY <1>5 DEF Stop, Break
  <2>5. /\ TimedOut(call) \in Calls /\ TimedOut(call).uri = call.uri
        /\ \/ Cancelling(TimedOut(call))
           \/ /\ TimedOut(call).pc = "over" /\ TimedOut(call).outcome \in {"timeout", "page_limit"}
              /\ TimedOut(call).cancellation # "accepted"
    BY <2>1, AskingCall, TimedOutCall
  <2>6. /\ Broken(call) \in Calls /\ Broken(call).uri = call.uri
        /\ \/ Cancelling(Broken(call))
           \/ /\ Broken(call).pc = "over" /\ Broken(call).outcome \in {"timeout", "page_limit"}
              /\ Broken(call).cancellation # "accepted"
           \/ /\ call.op # "DELETE" /\ Broken(call).pc = "over" /\ Broken(call).outcome = "transport"
              /\ Broken(call).cancellation = "none"
    BY <2>1, AskingCall, BrokenCall
  <2>7. EndKnown'
    BY <2>4, <2>5, <2>6 DEF EndKnown, Cancelling
  <2>8. QED
    BY <1>1, <1>3, <2>1, <2>2, <2>3, <2>4, <2>5, <2>6, <2>7, CallEnds
<1>6. CASE ~Waits(i)
  <2>1. UNCHANGED call
    BY <1>6 DEF Stop, Break
  <2>2. call.pc = "wait" => call.by # i /\ reader'[call.by] = reader[call.by]
    BY <1>1, <1>2, <1>3, <1>6 DEF TrinoIInv, RequestsKnown, Waits, Calls
  <2>3. RequestsKnown'
    <3>1. \A j \in Thread : Active(j)' => (Waits(j)' <=> Waits(j))
      BY <1>4, <2>1 DEF Waits
    <3>2. call.pc = "wait" => Active(call.by)'
      BY <2>1, <2>2 DEF Active, TrinoIInv, RequestsKnown
    <3>3. Asking' = Asking
      BY <2>1 DEF Asking
    <3>4. QED
      BY <1>1, <1>4, <2>1, <2>2, <3>1, <3>2, <3>3 DEF TrinoIInv, RequestsKnown
  <2>4. CallKnown'
    BY ZenonT(30), <1>1, <2>1, <2>2 DEF TrinoIInv, CallKnown, Asking, Unanswered, AsksNext, Means, Whole
  <2>5. EndKnown' /\ TrinoTypeOK'
    BY <1>1, <1>3, <2>1 DEF TrinoIInv, EndKnown, TrinoTypeOK, Whole
  <2>6. QED
    BY <2>3, <2>4, <2>5, <2>1 DEF TrinoIInv, Moves
<1>7. QED
  BY <1>5, <1>6

\* Nobody waits for a request that is closing.
LEMMA ReleaseInv == TrinoIInv /\ (\E i \in Thread : Release(i)) => TrinoIInv'
<1> SUFFICES ASSUME TrinoIInv, NEW i \in Thread, Release(i) PROVE TrinoIInv'
  OBVIOUS
<1>1. /\ reader[i].stage = "closing" /\ UNCHANGED <<call, server>>
      /\ reader' = [reader EXCEPT ![i] = Free]
  BY DEF Release
<1>2. reader \in [Thread -> Readers] /\ call \in Calls
  BY DEF TrinoIInv, TrinoTypeOK
<1>3. /\ reader' \in [Thread -> Readers] /\ reader'[i].stage = "free"
      /\ \A j \in Thread \ {i} : reader'[j] = reader[j]
  BY <1>1, <1>2, FreeType DEF Free
<1>4. \A j \in Thread : Active(j)' => j # i /\ Active(j) /\ reader'[j] = reader[j]
  BY <1>3 DEF Active
<1>5. call.pc = "wait" => call.by # i /\ reader'[call.by] = reader[call.by]
  BY <1>1, <1>2, <1>3 DEF TrinoIInv, RequestsKnown, Active, Calls
<1>6. RequestsKnown'
  <2>1. \A j \in Thread : Active(j)' => (Waits(j)' <=> Waits(j))
    BY <1>1, <1>4 DEF Waits
  <2>2. call.pc = "wait" => Active(call.by)'
    BY <1>1, <1>5 DEF Active, TrinoIInv, RequestsKnown
  <2>3. Asking' = Asking
    BY <1>1 DEF Asking
  <2>4. QED
    BY <1>1, <1>4, <1>5, <2>1, <2>2, <2>3 DEF TrinoIInv, RequestsKnown
<1>7. CallKnown'
  BY ZenonT(30), <1>1, <1>5 DEF TrinoIInv, CallKnown, Asking, Unanswered, AsksNext, Means, Whole
<1>8. EndKnown' /\ TrinoTypeOK'
  BY <1>1, <1>3 DEF TrinoIInv, EndKnown, TrinoTypeOK, Whole
<1>9. QED
  BY <1>6, <1>7, <1>8 DEF TrinoIInv

\* The answer of the request that the call waits for is read.
LEMMA DeliverInv == TrinoIInv /\ (\E i \in Thread : Deliver(i)) => TrinoIInv' /\ Moves
<1> SUFFICES ASSUME TrinoIInv, NEW i \in Thread, Deliver(i) PROVE TrinoIInv' /\ Moves
  OBVIOUS
<1>1. /\ reader[i].stage = "served" /\ Waits(i) /\ UNCHANGED server
      /\ call' = [call EXCEPT !.pc = "read", !.told = reader[i].answer]
      /\ reader' = [reader EXCEPT ![i].stage = "closing"] /\ Asking
  BY DEF Deliver, Waits, Asking
<1>2. reader \in [Thread -> Readers] /\ call \in Calls /\ reader[i].answer \in Answers
  BY DEF TrinoIInv, TrinoTypeOK, Readers
<1>3. /\ call' \in Calls /\ call'.pc = "read" /\ call'.told = reader[i].answer /\ call'.op = call.op
      /\ call'.uri = call.uri /\ call'.pages = call.pages /\ call'.rows = call.rows
      /\ call'.why = call.why /\ call'.outcome = call.outcome
      /\ call'.cancellation = call.cancellation
  BY <1>1, <1>2 DEF Calls
<1>4. /\ reader' \in [Thread -> Readers] /\ reader'[i].stage = "closing"
      /\ \A j \in Thread \ {i} : reader'[j] = reader[j]
  BY <1>1, <1>2 DEF Readers
<1>5. \A j \in Thread : Active(j)' => /\ j # i /\ Active(j) /\ reader'[j] = reader[j]
                                      /\ reader[j].given_up
  BY <1>1, <1>4 DEF Active, Waits, TrinoIInv, RequestsKnown
<1>6. call.outcome = "none" /\ call.cancellation = "none" /\ Asking'
  BY <1>1, <1>3, AskingCall DEF Asking
<1>7. RequestsKnown'
  BY <1>1, <1>3, <1>5, <1>6 DEF TrinoIInv, RequestsKnown, Asking
<1>8. CallKnown'
  <2>1. Means(reader[i].answer)
    BY <1>1 DEF Waits, TrinoIInv, CallKnown
  <2>2. Means(call.told)'
    BY <1>1, <1>3, <2>1 DEF Means, Whole
  <2>3. QED
    BY <1>1, <1>3, <1>6, <2>2, AskingCall DEF CallKnown, Unanswered, Asking
<1>9. EndKnown' /\ TrinoTypeOK'
  BY <1>1, <1>3, <1>4, <1>6 DEF TrinoIInv, EndKnown, TrinoTypeOK
<1>10. QED
  BY <1>7, <1>8, <1>9, <1>3 DEF TrinoIInv, Moves

\* One more page after the first n of them.
LEMMA OneMore ==
  ASSUME NEW rows \in Seq(1..Pages), NEW n \in 1..Pages, Len(rows) = n - 1,
         \A p \in 1..n - 1 : rows[p] = p
  PROVE  LET more == Append(rows, n) IN
         more \in Seq(1..Pages) /\ Len(more) = n /\ \A p \in 1..n : more[p] = p
<1>1. Append(rows, n) \in Seq(1..Pages) /\ Len(Append(rows, n)) = n
  BY PagesAssumption
<1>2. ASSUME NEW p \in 1..n PROVE Append(rows, n)[p] = p
  BY PagesAssumption
<1>3. QED
  BY <1>1, <1>2

\* A page is read.
LEMMA ReadInv == TrinoIInv /\ Read => TrinoIInv' /\ Moves
<1> SUFFICES ASSUME TrinoIInv, Read PROVE TrinoIInv' /\ Moves
  OBVIOUS
<1>1. call.pc = "read" /\ Asking /\ UNCHANGED <<reader, server>> /\ Means(call.told)
  BY DEF Read, Asking, TrinoIInv, CallKnown
<1>2. /\ call \in Calls /\ reader' \in [Thread -> Readers] /\ call.outcome = "none"
      /\ call.cancellation = "none" /\ call.pc # "idle"
  BY <1>1, AskingCall DEF TrinoIInv, TrinoTypeOK
<1>3. Fewer
  BY <1>1 DEF Fewer, Active, TrinoIInv, RequestsKnown, Waits
<1>4. CASE call.op = "DELETE"
  <2> DEFINE e == Over(call, call.why)
             x == IF call.told.kind = "ok" THEN "accepted" ELSE "http"
  <2>1. call' = [e EXCEPT !.cancellation = x]
    BY <1>4 DEF Read, Cancelled
  <2>2. /\ e \in Calls /\ e.pc = "over" /\ e.outcome = call.why /\ e.uri = call.uri
        /\ call.why \in {"timeout", "page_limit"}
    BY <1>1, <1>4, AskingCall, OverCall DEF Outcomes
  <2> HIDE DEF e
  <2>3. /\ call' \in Calls /\ call'.pc = "over" /\ call'.outcome = call.why /\ call'.uri = call.uri
        /\ call'.cancellation = x
    BY <2>1, <2>2 DEF Calls
  <2>4. EndKnown'
    BY <1>1, <1>4, <2>2, <2>3 DEF EndKnown, Means
  <2>5. QED
    BY <1>1, <1>2, <1>3, <2>2, <2>3, <2>4, CallEnds
<1>5. CASE call.op # "DELETE"
  <2>1. NoOwn'
    BY <1>1, <1>5, NoneGivenUp DEF NoOwn, Active, Waits
  <2> DEFINE told == call.told
             next == told.kind \in {"page", "rows"}
             read == [call EXCEPT !.pages = @ + 1, !.uri = next]
             kept == IF told.page > 0 THEN [read EXCEPT !.rows = Append(@, told.page)] ELSE read
  <2>2. call.pages \in Nat /\ call.pages < PageLimit /\ PageLimit \in Nat /\ Pages \in Nat
    BY <1>1, <1>2, <1>5, AskingCall, PagesAssumption DEF Calls
  <2>3. /\ read \in Calls /\ read.outcome = "none" /\ read.cancellation = "none" /\ read.uri = next
        /\ read.pages = call.pages + 1 /\ read.rows = call.rows /\ read.op = call.op
    <3>1. call.pages + 1 \in 0..PageLimit /\ next \in BOOLEAN
      BY <2>2
    <3> HIDE DEF next
    <3>2. QED
      BY <1>2, <3>1 DEF Calls
  <2>4. /\ told.kind \in {"bad", "error", "last", "rows", "page"}
        /\ told.kind = "error" => server.state = "failed"
        /\ told.kind = "last" => /\ told.page = Pages /\ Whole(Pages - 1)
                                 /\ server.state = "finished" /\ server.next = Pages + 1
        /\ told.kind = "rows" => /\ told.page \in 1..Pages - 1 /\ Whole(told.page - 1)
                                 /\ server.state \in {"finished", "failed"}
                                 /\ server.next = told.page + 1
        /\ told.kind = "page" => /\ told.page = 0 /\ Whole(server.next - 1) /\ server.next <= Pages
                                 /\ server.state \in {"running", "finished", "failed"}
    BY <1>1, <1>5 DEF Means
  <2>5. call' = ReadPage(call)
    BY <1>5 DEF Read
  <2>6. CASE told.kind = "bad"
    <3>1. call' = Over(call, "protocol")
      BY <2>5, <2>6 DEF ReadPage
    <3>2. /\ call' \in Calls /\ call'.pc = "over" /\ call'.outcome = "protocol"
          /\ call'.cancellation = "none"
      BY <1>2, <3>1, OverCall DEF Outcomes
    <3>3. QED
      BY <1>1, <1>2, <1>3, <2>1, <3>2, CallEnds DEF EndKnown
  <2>7. CASE told.kind # "bad" /\ call.late
    <3>1. call' = TimedOut(read)
      BY <2>5, <2>7 DEF ReadPage
    <3> HIDE DEF read
    <3>2. /\ TimedOut(read) \in Calls
          /\ \/ Cancelling(TimedOut(read))
             \/ /\ TimedOut(read).pc = "over" /\ TimedOut(read).outcome \in {"timeout", "page_limit"}
                /\ TimedOut(read).cancellation # "accepted"
      BY <1>5, <2>3, TimedOutCall
    <3>3. QED
      BY <1>1, <1>2, <1>3, <2>1, <3>1, <3>2, CallEnds DEF EndKnown, Cancelling
  <2>8. CASE told.kind = "error" /\ ~call.late
    <3>1. call' = Over(read, "failed")
      BY <2>5, <2>8 DEF ReadPage
    <3> HIDE DEF read
    <3>2. /\ call' \in Calls /\ call'.pc = "over" /\ call'.outcome = "failed"
          /\ call'.cancellation = "none"
      BY <2>3, <3>1, OverCall DEF Outcomes
    <3>3. QED
      BY <1>1, <1>2, <1>3, <2>1, <2>4, <2>8, <3>2, CallEnds DEF EndKnown
  <2>9. ASSUME told.kind \in {"last", "rows", "page"}
        PROVE  /\ kept \in Calls /\ kept.outcome = "none" /\ kept.cancellation = "none"
               /\ kept.uri = next /\ kept.pages = call.pages + 1 /\ kept.op = call.op
               /\ Len(kept.rows) = server.next - 1
               /\ \A p \in 1..server.next - 1 : kept.rows[p] = p
    <3>1. call.rows \in Seq(1..Pages) /\ server.next \in Nat
      BY <1>2, PagesAssumption DEF Calls, TrinoIInv, TrinoTypeOK, Queries
    <3>2. CASE told.kind = "page"
      BY <2>3, <2>4, <3>2 DEF Whole
    <3>3. CASE told.kind \in {"last", "rows"}
      <4> DEFINE more == Append(call.rows, told.page)
      <4>1. /\ told.page \in 1..Pages /\ Len(call.rows) = told.page - 1
            /\ \A p \in 1..told.page - 1 : call.rows[p] = p
            /\ server.next - 1 = told.page
        <5>1. CASE told.kind = "last"
          BY <2>2, <2>4, <5>1, PagesAssumption DEF Whole
        <5>2. CASE told.kind = "rows"
          BY <2>2, <2>4, <5>2 DEF Whole
        <5>3. QED
          BY <3>3, <5>1, <5>2
      <4>2. /\ more \in Seq(1..Pages) /\ Len(more) = told.page
            /\ \A p \in 1..told.page : more[p] = p
        BY <3>1, <4>1, OneMore
      <4>3. kept = [read EXCEPT !.rows = more]
        BY <2>3, <4>1
      <4> HIDE DEF more, read, kept
      <4>4. /\ kept \in Calls /\ kept.outcome = "none" /\ kept.cancellation = "none"
            /\ kept.uri = next /\ kept.pages = call.pages + 1 /\ kept.op = call.op
            /\ kept.rows = more
        BY <2>3, <4>2, <4>3 DEF Calls
      <4>5. QED
        BY <4>1, <4>2, <4>4
    <3>4. QED
      BY <2>9, <3>2, <3>3
  <2> HIDE DEF read
  <2>10. CASE told.kind = "last" /\ ~call.late
    <3>1. call' = Over(kept, "result")
      BY <2>5, <2>10 DEF ReadPage, read
    <3> HIDE DEF kept
    <3>2. /\ call' \in Calls /\ call'.pc = "over" /\ call'.outcome = "result"
          /\ call'.cancellation = "none" /\ call'.rows = kept.rows
      BY <2>9, <2>10, <3>1, OverCall DEF Outcomes
    <3>3. server.next = Pages + 1 /\ server.state = "finished" /\ server.next - 1 = Pages
      BY <2>2, <2>4, <2>10
    <3>4. EndKnown'
      BY <1>1, <2>9, <2>10, <3>2, <3>3 DEF EndKnown, Whole
    <3>5. QED
      BY <1>1, <1>2, <1>3, <2>1, <3>2, <3>4, CallEnds
  <2>11. CASE next /\ ~call.late /\ kept.pages = PageLimit
    <3>1. call' = Cancel(kept, "page_limit")
      BY <2>5, <2>11 DEF ReadPage, read
    <3> HIDE DEF kept
    <3>2. /\ Cancel(kept, "page_limit") \in Calls
          /\ \/ Cancelling(Cancel(kept, "page_limit"))
             \/ /\ Cancel(kept, "page_limit").pc = "over"
                /\ Cancel(kept, "page_limit").outcome = "page_limit"
                /\ Cancel(kept, "page_limit").cancellation = "not_available"
      BY <2>9, <2>11, CancelCall
    <3>3. QED
      BY <1>1, <1>2, <1>3, <2>1, <3>1, <3>2, CallEnds DEF EndKnown, Cancelling
  <2>12. CASE next /\ ~call.late /\ kept.pages # PageLimit
    <3>1. call' = [kept EXCEPT !.pc = "send", !.op = "GET"]
      BY <2>5, <2>12 DEF ReadPage, read
    <3> HIDE DEF kept
    <3>2. /\ call' \in Calls /\ call'.pc = "send" /\ call'.op = "GET" /\ call'.uri
          /\ call'.outcome = "none" /\ call'.cancellation = "none" /\ call'.rows = kept.rows
          /\ call'.pages = call.pages + 1
      BY <2>9, <2>12, <3>1 DEF Calls
    <3>3. call'.pages < PageLimit
      BY <2>2, <2>9, <2>12, <3>2
    <3>4. AsksNext'
      <4>1. server.next <= Pages /\ server.state \in {"running", "finished", "failed"}
        BY <2>2, <2>4, <2>12
      <4>2. QED
        BY <1>1, <2>9, <2>12, <3>2, <4>1 DEF AsksNext, Whole
    <3>5. TrinoTypeOK' /\ EndKnown'
      BY <1>1, <1>2, <3>2 DEF TrinoIInv, TrinoTypeOK, EndKnown
    <3>6. RequestsKnown'
      BY <1>3, <2>1, <3>2 DEF RequestsKnown, NoOwn, Fewer
    <3>7. CallKnown'
      BY <3>2, <3>3, <3>4 DEF CallKnown, Asking, Unanswered
    <3>8. QED
      BY <3>5, <3>6, <3>7, <3>2 DEF TrinoIInv, Moves
  <2>13. QED
    BY <2>4, <2>6, <2>7, <2>8, <2>10, <2>11, <2>12
<1>6. QED
  BY <1>4, <1>5

\* What a request does to its query.
LEMMA ServedQuery ==
  ASSUME server \in Queries, NEW op \in {"POST", "GET", "DELETE"}
  PROVE  /\ Served(op) \in Queries
         /\ op = "POST" => Served(op).state = "running" /\ Served(op).next = server.next
         /\ op = "GET" => /\ Served(op).state = server.state
                         /\ Served(op).next = IF server.state = "finished" /\ server.next <= Pages
                                             THEN server.next + 1 ELSE server.next
         /\ op = "DELETE" => Served(op).state = "cancelled" /\ Served(op).next = server.next
         /\ Served(op).data = server.data
<1>1. server.next \in 1..Pages + 1 /\ Pages \in Nat
  BY PagesAssumption DEF Queries
<1>2. CASE op = "POST"
  <2>1. Served(op) = [server EXCEPT !.state = "running"]
    BY <1>2 DEF Served
  <2>2. QED
    BY <1>2, <2>1 DEF Queries
<1>3. CASE op = "DELETE"
  <2>1. Served(op) = [server EXCEPT !.state = "cancelled"]
    BY <1>3 DEF Served
  <2>2. QED
    BY <1>3, <2>1 DEF Queries
<1>4. CASE op = "GET" /\ server.state = "finished" /\ server.next <= Pages
  <2>1. Served(op) = [server EXCEPT !.next = @ + 1] /\ server.next + 1 \in 1..Pages + 1
    BY <1>1, <1>4 DEF Served
  <2>2. QED
    BY <1>4, <2>1 DEF Queries
<1>5. CASE op = "GET" /\ ~(server.state = "finished" /\ server.next <= Pages)
  BY <1>5 DEF Served
<1>6. QED
  BY <1>2, <1>3, <1>4, <1>5

\* What the coordinator answers is an answer.
LEMMA AnswerType ==
  ASSUME server \in Queries, NEW op \in {"POST", "GET", "DELETE"}
  PROVE  Answer(op) \in Answers
<1>1. server.next \in 1..Pages + 1 /\ Pages \in Nat
  BY PagesAssumption DEF Queries
<1>2. QED
  BY <1>1 DEF Answer, Answers

\* A request that is answered, or spoilt, as long as the answer means what it says.
LEMMA ServedInv ==
  ASSUME TrinoIInv, NEW i \in Thread, reader[i].stage = "started", UNCHANGED call,
         NEW q \in Readers, reader' = [reader EXCEPT ![i] = q], q.stage = "served",
         q.op = reader[i].op, q.own = reader[i].own, q.given_up = reader[i].given_up,
         UNCHANGED server \/ (reader[i].own /\ server' = Served(reader[i].op)),
         Waits(i) => Means(q.answer)'
  PROVE  TrinoIInv'
<1> DEFINE op == reader[i].op
<1>1. /\ call \in Calls /\ reader \in [Thread -> Readers] /\ server \in Queries
      /\ op \in {"POST", "GET", "DELETE"}
  BY DEF TrinoIInv, TrinoTypeOK, Readers
<1>2. /\ server' \in Queries
      /\ \/ UNCHANGED server
         \/ op = "POST" /\ reader[i].own /\ server'.state = "running" /\ server'.next = server.next
         \/ op = "GET" /\ reader[i].own /\ server'.state = server.state
         \/ op = "DELETE" /\ reader[i].own /\ server'.state = "cancelled"
                         /\ server'.next = server.next
  BY <1>1, ServedQuery
<1>3. /\ reader' \in [Thread -> Readers] /\ reader'[i] = q
      /\ \A j \in Thread \ {i} : reader'[j] = reader[j]
  BY <1>1
<1>4. \A j \in Thread : /\ Active(j)' = Active(j) /\ reader'[j].op = reader[j].op
                        /\ reader'[j].own = reader[j].own /\ Waits(j)' = Waits(j)
                        /\ reader'[j].given_up = reader[j].given_up
                        /\ reader'[j].stage = "started" => j # i /\ reader[j].stage = "started"
  BY <1>3 DEF Active, Waits
<1>5. Asking' = Asking
  BY DEF Asking
<1>6. Active(i)
  BY DEF Active
<1>7. TrinoTypeOK'
  BY <1>1, <1>2, <1>3 DEF TrinoTypeOK
<1>8. RequestsKnown'
  <2>1. ASSUME NEW j \in Thread, Active(j)', reader'[j].own, reader'[j].stage = "started",
               reader'[j].op = "POST"
        PROVE  call'.pc = "idle" \/ (server'.state = "none" /\ ~call'.uri)
    <3>1. j # i /\ Active(j) /\ reader[j].own /\ reader[j].stage = "started" /\ reader[j].op = "POST"
      BY <1>4, <2>1
    <3>2. call.pc = "idle" \/ (server.state = "none" /\ ~call.uri)
      BY <3>1 DEF TrinoIInv, RequestsKnown
    <3>3. reader[i].own => op # "POST" /\ (op = "DELETE" => call.pc = "idle" \/ call.uri)
      BY <1>6, <3>1 DEF TrinoIInv, RequestsKnown
    <3>4. QED
      BY <1>2, <3>2, <3>3
  <2>2. call.pc = "wait" => /\ reader'[call.by].stage \in {"started", "served"}
                            /\ reader'[call.by].own /\ ~reader'[call.by].given_up
                            /\ reader'[call.by].op = call.op
    <3>1. HAVE call.pc = "wait"
    <3>2. /\ Active(call.by) /\ reader[call.by].own /\ ~reader[call.by].given_up
          /\ reader[call.by].op = call.op /\ call.by \in Thread
      BY <1>1, <3>1 DEF TrinoIInv, RequestsKnown, Calls
    <3>3. QED
      BY <1>4, <3>2 DEF Active
  <2>3. \A j, k \in Thread :
          (\A x \in {j, k} : Active(x)' /\ reader'[x].own /\ reader'[x].op = "POST") => j = k
    BY <1>4 DEF TrinoIInv, RequestsKnown
  <2>4. ASSUME NEW j \in Thread, Active(j)'
        PROVE  /\ reader'[j].given_up \/ Waits(j)'
               /\ reader'[j].own /\ reader'[j].given_up =>
                    \/ call'.pc = "idle" \/ call'.outcome \in {"timeout", "page_limit", "raised"}
                    \/ Asking' /\ call'.op = "DELETE"
               /\ reader'[j].own /\ reader'[j].op = "DELETE" => call'.pc = "idle" \/ call'.uri
    BY <1>4, <1>5, <2>4 DEF TrinoIInv, RequestsKnown
  <2>5. QED
    BY <2>1, <2>2, <2>3, <2>4 DEF RequestsKnown, Active
<1>9. CASE Waits(i)
  <2>1. call.pc = "wait" /\ call.by = i /\ call.outcome = "none" /\ call.cancellation = "none"
    BY <1>9, AskingCall DEF Waits, Asking
  <2>2. EndKnown'
    BY <2>1 DEF EndKnown
  <2>3. CallKnown'
    <3>1. ~Unanswered' /\ Means(reader[call.by].answer)'
      BY <1>3, <1>9, <2>1 DEF Unanswered
    <3>2. QED
      BY <1>5, <2>1, <3>1 DEF TrinoIInv, CallKnown
  <2>4. QED
    BY <1>7, <1>8, <2>2, <2>3 DEF TrinoIInv
<1>10. CASE ~Waits(i)
  <2>1. call.pc = "wait" => call.by # i /\ reader'[call.by] = reader[call.by] /\ call.by \in Thread
    BY <1>1, <1>3, <1>10 DEF Waits, TrinoIInv, RequestsKnown, Calls
  <2>2. reader[i].given_up
    BY <1>6, <1>10 DEF TrinoIInv, RequestsKnown
  <2>3. reader[i].own => \/ call.pc = "idle" \/ call.outcome \in {"timeout", "page_limit", "raised"}
                         \/ Asking /\ call.op = "DELETE"
    BY <1>6, <2>2 DEF TrinoIInv, RequestsKnown
  <2>4. CASE UNCHANGED server
    <3>1. CallKnown'
      <4>1. call' = call /\ server' = server
        BY <2>4
      <4>2. AsksNext' = AsksNext
        BY <4>1 DEF AsksNext, Whole
      <4>3. Unanswered' => Unanswered
        BY <2>1, <4>1 DEF Unanswered
      <4>4. CallKnown
        BY DEF TrinoIInv
      <4>5. call.pc = "wait" /\ reader'[call.by].stage = "served" => Means(reader[call.by].answer)'
        <5>1. HAVE call.pc = "wait" /\ reader'[call.by].stage = "served"
        <5>2. reader'[call.by] = reader[call.by]
          BY <2>1, <5>1
        <5>3. Means(reader[call.by].answer)
          BY <4>4, <5>1, <5>2 DEF CallKnown
        <5>4. QED
          BY <4>1, <5>2, <5>3 DEF Means, Whole
      <4>6. call.pc = "read" => Means(call.told)'
        <5>1. call.pc = "read" => Means(call.told)
          BY <4>4 DEF CallKnown
        <5>2. QED
          BY <4>1, <5>1 DEF Means, Whole
      <4>7. QED
        BY <1>5, <4>1, <4>2, <4>3, <4>4, <4>5, <4>6 DEF CallKnown
    <3>2. EndKnown'
      BY <2>4 DEF TrinoIInv, EndKnown, Whole
    <3>3. QED
      BY <1>7, <1>8, <3>1, <3>2 DEF TrinoIInv
  <2>5. CASE reader[i].own /\ (server'.state = server.state \/ server'.state = "cancelled" \/ op = "POST")
    <3>1. op = "POST" => call.pc = "idle" \/ (server.state = "none" /\ ~call.uri)
      BY <1>6, <2>5 DEF TrinoIInv, RequestsKnown
    <3>2. ~(Asking /\ call.op # "DELETE")
      BY <1>6, <1>10, <2>5, NoneGivenUp
    <3>3. Asking => call.uri /\ call.outcome = "none" /\ call.pc # "idle" /\ op # "POST"
      BY <3>1, <3>2, AskingCall DEF Asking
    <3>4. server.state = "cancelled" => server'.state = "cancelled" \/ call.outcome = "none"
      BY <1>1, <2>5, <3>1 DEF TrinoIInv, CallKnown, EndKnown
    <3>5. CallKnown'
      <4>1. CASE Asking
        <5>1. call.op = "DELETE" /\ server.state = "cancelled" => server'.state = "cancelled"
          BY <2>5, <3>3, <4>1
        <5>2. \A a : Means(a) => Means(a)'
          BY <3>2, <3>3, <4>1, <5>1 DEF Means
        <5>3. Unanswered' = Unanswered
          BY <2>1 DEF Unanswered
        <5>4. QED
          BY <1>5, <2>1, <3>2, <4>1, <5>2, <5>3 DEF TrinoIInv, CallKnown
      <4>2. CASE ~Asking
        BY <1>5, <4>2 DEF TrinoIInv, CallKnown, Asking, Unanswered
      <4>3. QED
        BY <4>1, <4>2
    <3>6. EndKnown'
      <4>1. call.outcome \notin {"result", "failed"}
        BY <2>3, <2>5, <3>3 DEF TrinoIInv, CallKnown
      <4>2. call.cancellation = "accepted" => server'.state = "cancelled"
        BY <2>5, <3>1, <3>4 DEF TrinoIInv, EndKnown, CallKnown
      <4>3. QED
        BY <4>1, <4>2 DEF TrinoIInv, EndKnown
    <3>7. QED
      BY <1>7, <1>8, <3>5, <3>6 DEF TrinoIInv
  <2>6. QED
    BY <1>2, <2>4, <2>5
<1>11. QED
  BY <1>9, <1>10

LEMMA ArriveInv == TrinoIInv /\ (\E i \in Thread : Arrive(i)) => TrinoIInv'
<1> SUFFICES ASSUME TrinoIInv, NEW i \in Thread, Arrive(i) PROVE TrinoIInv'
  OBVIOUS
<1> DEFINE op == reader[i].op
           r == [reader[i] EXCEPT !.stage = "served", !.answer = Answer(op)]
<1>1. /\ call \in Calls /\ reader \in [Thread -> Readers] /\ server \in Queries
      /\ reader[i] \in Readers /\ op \in {"POST", "GET", "DELETE"} /\ Answer(op) \in Answers
  BY AnswerType DEF TrinoIInv, TrinoTypeOK, Readers
<1>2. /\ reader[i].stage = "started" /\ UNCHANGED call
      /\ server' = IF reader[i].own THEN Served(op) ELSE server
  BY DEF Arrive
<1>3. /\ r \in Readers /\ r.stage = "served" /\ r.op = op /\ r.own = reader[i].own
      /\ r.given_up = reader[i].given_up /\ r.answer = Answer(op)
      /\ reader' = [reader EXCEPT ![i] = r]
  BY <1>1 DEF Arrive, Readers
<1> HIDE DEF r
<1>4. PICK q \in Readers : /\ q.stage = "served" /\ q.op = op /\ q.own = reader[i].own
                          /\ q.given_up = reader[i].given_up /\ q.answer = Answer(op)
                          /\ reader' = [reader EXCEPT ![i] = q]
  BY <1>3
<1>5. ASSUME Waits(i) PROVE Means(q.answer)'
  <2>1. /\ call.pc = "wait" /\ call.by = i /\ reader[i].own /\ op = call.op /\ Unanswered
    BY <1>2, <1>5 DEF Waits, TrinoIInv, RequestsKnown, Unanswered
  <2>2. server' = Served(op) /\ call' = call
    BY <1>2, <2>1
  <2>3. CASE op = "DELETE"
    <3>1. server'.state = "cancelled"
      BY <1>1, <2>2, <2>3, ServedQuery
    <3>2. QED
      BY <2>1, <2>2, <2>3, <3>1 DEF Means
  <2>4. CASE op # "DELETE"
    <3>1. AsksNext /\ server.next \in Nat /\ server.next >= 1 /\ Pages \in Nat
      BY <1>1, <2>1, <2>4, PagesAssumption DEF TrinoIInv, CallKnown, Queries
    <3>2. CASE op = "POST"
      <4>1. q.answer = [kind |-> "page", page |-> 0]
        BY <1>4, <3>2 DEF Answer
      <4>2. server'.state = "running" /\ server'.next = server.next
        BY <1>1, <2>2, <3>2, ServedQuery
      <4>3. QED
        BY <2>1, <2>2, <2>4, <3>1, <4>1, <4>2 DEF Means, AsksNext, Whole
    <3>3. CASE op = "GET" /\ server.state = "running"
      <4>1. q.answer = [kind |-> "page", page |-> 0]
        BY <1>4, <3>3 DEF Answer
      <4>2. server'.state = "running" /\ server'.next = server.next
        BY <1>1, <2>2, <3>3, ServedQuery
      <4>3. QED
        BY <2>1, <2>2, <2>4, <3>1, <4>1, <4>2 DEF Means, AsksNext, Whole
    <3>4. CASE op = "GET" /\ server.state = "failed"
      <4>1. q.answer = [kind |-> "error", page |-> 0]
        BY <1>4, <3>4 DEF Answer
      <4>2. server'.state = "failed"
        BY <1>1, <2>2, <3>4, ServedQuery
      <4>3. QED
        BY <2>1, <2>2, <2>4, <4>1, <4>2 DEF Means
    <3>5. CASE op = "GET" /\ server.state = "finished"
      <4>1. server.next <= Pages /\ Whole(server.next - 1)
        BY <3>1 DEF AsksNext
      <4>2. q.answer = [kind |-> IF server.next >= Pages THEN "last" ELSE "rows",
                        page |-> server.next]
        BY <1>4, <3>5 DEF Answer
      <4>3. server'.state = "finished" /\ server'.next = server.next + 1
        BY <1>1, <2>2, <3>5, <4>1, ServedQuery
      <4>4. CASE server.next >= Pages
        <5>1. server.next = Pages /\ q.answer.kind = "last" /\ q.answer.page = Pages
          BY <3>1, <4>1, <4>2, <4>4
        <5>2. QED
          BY <2>1, <2>2, <2>4, <4>1, <4>3, <5>1 DEF Means, Whole
      <4>5. CASE ~(server.next >= Pages)
        <5>1. /\ server.next \in 1..Pages - 1 /\ q.answer.kind = "rows"
              /\ q.answer.page = server.next
          BY <3>1, <4>1, <4>2, <4>5
        <5>2. QED
          BY <2>1, <2>2, <2>4, <4>1, <4>3, <5>1 DEF Means, Whole
      <4>6. QED
        BY <4>4, <4>5
    <3>6. QED
      BY <1>1, <2>1, <2>4, <3>1, <3>2, <3>3, <3>4, <3>5 DEF AsksNext
  <2>5. QED
    BY <2>3, <2>4
<1>6. QED
  BY <1>2, <1>4, <1>5, ServedInv

LEMMA SpoilInv == TrinoIInv /\ (\E i \in Thread : Spoil(i)) => TrinoIInv'
<1> SUFFICES ASSUME TrinoIInv, NEW i \in Thread, Spoil(i) PROVE TrinoIInv'
  OBVIOUS
<1> DEFINE a == [reader[i].answer EXCEPT !.kind = "bad"]
           r == [reader[i] EXCEPT !.stage = "served", !.answer = a]
<1>1. reader \in [Thread -> Readers] /\ reader[i] \in Readers /\ reader[i].answer \in Answers
  BY DEF TrinoIInv, TrinoTypeOK, Readers
<1>2. /\ reader[i].stage = "started" /\ UNCHANGED call
      /\ server' = server \/ server' = Served(reader[i].op)
      /\ ~reader[i].given_up /\ Active(i)
  BY DEF Spoil, Active
<1>3. a \in Answers /\ a.kind = "bad"
  BY <1>1 DEF Answers
<1>4. reader' = [reader EXCEPT ![i] = r]
  BY <1>1 DEF Spoil, Readers
<1> HIDE DEF a
<1>5. /\ r \in Readers /\ r.stage = "served" /\ r.op = reader[i].op /\ r.own = reader[i].own
      /\ r.given_up = reader[i].given_up /\ r.answer = a
  BY <1>1, <1>3 DEF Readers
<1> HIDE DEF r
<1>6. PICK q \in Readers : /\ q.stage = "served" /\ q.op = reader[i].op /\ q.own = reader[i].own
                          /\ q.given_up = reader[i].given_up /\ q.answer.kind = "bad"
                          /\ reader' = [reader EXCEPT ![i] = q]
  BY <1>3, <1>4, <1>5
<1>7. Means(q.answer)'
  BY <1>6 DEF Means
<1>8. reader[i].own
  BY <1>2 DEF TrinoIInv, RequestsKnown, Waits
<1>9. QED
  BY <1>2, <1>6, <1>7, <1>8, ServedInv

\* The query is executed, or fails.
LEMMA ServerInv == ASSUME TrinoIInv, (\E v \in Nat : Execute(v)) \/ Fail PROVE TrinoIInv'
<1>1. /\ server.state \in {"running", "finished"} /\ UNCHANGED <<call, reader>>
      /\ server.state = "finished" => server.next <= Pages
      /\ server'.state \in {"finished", "failed"} /\ server'.next = server.next
      /\ server' \in Queries
      /\ server.state = "running" \/ server'.state = "failed"
  <2>1. server \in Queries
    BY DEF TrinoIInv, TrinoTypeOK
  <2>2. CASE Fail
    BY <2>1, <2>2 DEF Fail, Queries
  <2>3. ASSUME NEW v \in Nat, Execute(v)
        PROVE  /\ server.state = "running" /\ UNCHANGED <<call, reader>>
               /\ server'.state = "finished" /\ server'.next = server.next /\ server' \in Queries
    BY <2>1, <2>3 DEF Execute, Queries
  <2>4. QED
    BY <2>2, <2>3
<1>2. TrinoTypeOK'
  BY <1>1 DEF TrinoIInv, TrinoTypeOK
<1>3. server.next \in Nat /\ Pages \in Nat
  BY PagesAssumption DEF TrinoIInv, TrinoTypeOK, Queries
<1>4. RequestsKnown'
  BY <1>1 DEF TrinoIInv, RequestsKnown, Active, Waits, Asking
<1>5. AsksNext /\ call.op # "DELETE" => AsksNext'
  BY <1>1 DEF AsksNext, Whole, NoQuery
<1>6. ASSUME NEW a, Means(a) PROVE Means(a)'
  <2>1. CASE call.op = "DELETE"
    BY <1>1, <1>6, <2>1 DEF Means
  <2>2. CASE call.op # "DELETE"
    BY <1>1, <1>3, <1>6, <2>2 DEF Means, Whole
  <2>3. QED
    BY <2>1, <2>2
<1>7. CallKnown'
  <2>1. UNCHANGED <<Asking, Unanswered>>
    BY <1>1 DEF Asking, Unanswered
  <2>2. QED
    BY <1>1, <1>5, <1>6, <2>1 DEF TrinoIInv, CallKnown
<1>8. EndKnown'
  BY <1>1, <1>3 DEF TrinoIInv, EndKnown
<1>9. QED
  BY <1>2, <1>4, <1>7, <1>8 DEF TrinoIInv

LEMMA StutterInv == TrinoIInv /\ UNCHANGED trino => TrinoIInv'
<1> SUFFICES ASSUME TrinoIInv, UNCHANGED trino PROVE TrinoIInv'
  OBVIOUS
<1>1. call' = call /\ reader' = reader /\ server' = server
  BY DEF trino
<1>2. TrinoTypeOK' /\ EndKnown'
  BY <1>1 DEF TrinoIInv, TrinoTypeOK, EndKnown, Whole
<1>3. RequestsKnown'
  BY <1>1 DEF TrinoIInv, RequestsKnown, Active, Waits, Asking
<1>4. CallKnown'
  BY ZenonT(30), <1>1 DEF TrinoIInv, CallKnown, Asking, Unanswered, AsksNext, Means, Whole
<1>5. QED
  BY <1>2, <1>3, <1>4 DEF TrinoIInv

\* Whatever a client and its coordinator do.
LEMMA ClientInv == TrinoIInv /\ (Proceed \/ Faulty \/ Fail) => TrinoIInv'
<1> SUFFICES ASSUME TrinoIInv, Proceed \/ Faulty \/ Fail PROVE TrinoIInv'
  OBVIOUS
<1>1. CASE Proceed
  BY <1>1, ExpireInv, SendInv, NoTimeInv, GiveUpInv, ReadInv, ArriveInv, DeliverInv, StopInv,
     ReleaseInv DEF Proceed
<1>2. CASE Faulty
  BY <1>2, NoTimeInv, SpoilInv, StopInv DEF Faulty
<1>3. QED
  BY <1>1, <1>2, ServerInv

\* What the invariant says at the end of a call.
LEMMA ClientEnds == TrinoIInv => ResultIsWhole /\ LeftIsReported
<1> SUFFICES ASSUME TrinoIInv PROVE ResultIsWhole /\ LeftIsReported
  OBVIOUS
<1>1. call \in Calls
  BY DEF TrinoIInv, TrinoTypeOK
<1>2. ResultIsWhole
  <2>1. SUFFICES ASSUME call.outcome = "result"
                 PROVE  server.state = "finished" /\ call.rows = [p \in 1..Pages |-> p]
    BY DEF ResultIsWhole
  <2>2. server.state = "finished" /\ Len(call.rows) = Pages /\ \A p \in 1..Pages : call.rows[p] = p
    BY <2>1 DEF TrinoIInv, EndKnown, Whole
  <2>3. call.rows \in [1..Pages -> 1..Pages]
    BY <1>1, <2>2 DEF Calls
  <2>4. QED
    BY <2>2, <2>3
<1>3. LeftIsReported
  <2>1. SUFFICES ASSUME call.pc = "over", server.state = "running"
                 PROVE  \/ call.outcome \in {"protocol", "transport", "raised"}
                        \/ call.outcome \in {"timeout", "page_limit"} /\ call.cancellation # "accepted"
    BY DEF LeftIsReported
  <2>2. call.outcome \in Outcomes \ {"result", "failed"} /\ call.cancellation # "accepted"
    BY <1>1, <2>1 DEF TrinoIInv, CallKnown, EndKnown, Calls
  <2>3. QED
    BY <2>2 DEF Outcomes
<1>4. QED
  BY <1>2, <1>3

-----------------------------------------------------------------------------
(* The scripts.                                                            *)

LEMMA OutagePlaces ==
  ASSUME NEW i \in DOMAIN OutageSteps
  PROVE  /\ i \in 1..9 /\ OutageSteps[i] \in {"up", "ask", "stop", "down", "refused", "start", "report"}
         /\ OutageSteps[i] = "up" <=> i \in {1, 7}
         /\ OutageSteps[i] = "ask" <=> i \in {2, 8}
         /\ OutageSteps[i] = "stop" <=> i = 3
         /\ OutageSteps[i] = "down" <=> i = 4
         /\ OutageSteps[i] = "refused" <=> i = 5
         /\ OutageSteps[i] = "start" <=> i = 6
         /\ OutageSteps[i] = "report" <=> i = 9
         /\ OutageSteps[i] # "report" => i + 1 \in DOMAIN OutageSteps
         /\ OutageSteps[i] = "ask" => Behind.outage[i + 1] = Behind.outage[i] + 1
         /\ OutageSteps[i] \notin {"ask", "report"} => Behind.outage[i + 1] = Behind.outage[i]
  BY DEF OutageSteps, Behind

LEMMA LossPlaces ==
  ASSUME NEW i \in DOMAIN LossSteps
  PROVE  /\ i \in 1..12 /\ LossSteps[i] \in {"up", "ask", "stop", "down", "backup", "drop", "gone", "restore", "start", "report"}
         /\ LossSteps[i] = "up" <=> i \in {1, 10}
         /\ LossSteps[i] = "ask" <=> i \in {2, 11}
         /\ LossSteps[i] = "stop" <=> i = 3
         /\ LossSteps[i] = "down" <=> i = 4
         /\ LossSteps[i] = "backup" <=> i = 5
         /\ LossSteps[i] = "drop" <=> i = 6
         /\ LossSteps[i] = "gone" <=> i = 7
         /\ LossSteps[i] = "restore" <=> i = 8
         /\ LossSteps[i] = "start" <=> i = 9
         /\ LossSteps[i] = "report" <=> i = 12
         /\ LossSteps[i] # "report" => i + 1 \in DOMAIN LossSteps
         /\ LossSteps[i] = "ask" => Behind.loss[i + 1] = Behind.loss[i] + 1
         /\ LossSteps[i] \notin {"ask", "report"} => Behind.loss[i + 1] = Behind.loss[i]
  BY DEF LossSteps, Behind

LEMMA UpgradePlaces ==
  ASSUME NEW i \in DOMAIN UpgradeSteps
  PROVE  /\ i \in 1..8 /\ UpgradeSteps[i] \in {"ask", "target", "source", "report"}
         /\ UpgradeSteps[i] = "ask" <=> i \in {1, 3, 5, 7}
         /\ UpgradeSteps[i] = "target" <=> i \in {2, 6}
         /\ UpgradeSteps[i] = "source" <=> i = 4
         /\ UpgradeSteps[i] = "report" <=> i = 8
         /\ UpgradeSteps[i] # "report" => i + 1 \in DOMAIN UpgradeSteps
         /\ UpgradeSteps[i] = "ask" => Behind.upgrade[i + 1] = Behind.upgrade[i] + 1
         /\ UpgradeSteps[i] \notin {"ask", "report"} => Behind.upgrade[i + 1] = Behind.upgrade[i]
  BY DEF UpgradeSteps, Behind

LEMMA WorkerPlaces ==
  ASSUME NEW i \in DOMAIN WorkerSteps
  PROVE  /\ i \in 1..8 /\ WorkerSteps[i] \in {"ask", "submit", "kill", "await", "revive", "report"}
         /\ WorkerSteps[i] = "ask" <=> i \in {1, 5, 7}
         /\ WorkerSteps[i] = "submit" <=> i = 2
         /\ WorkerSteps[i] = "kill" <=> i = 3
         /\ WorkerSteps[i] = "await" <=> i = 4
         /\ WorkerSteps[i] = "revive" <=> i = 6
         /\ WorkerSteps[i] = "report" <=> i = 8
         /\ WorkerSteps[i] # "report" => i + 1 \in DOMAIN WorkerSteps
         /\ WorkerSteps[i] = "ask" => Behind.worker[i + 1] = Behind.worker[i] + 1
         /\ WorkerSteps[i] \notin {"ask", "report"} => Behind.worker[i + 1] = Behind.worker[i]
  BY DEF WorkerSteps, Behind

LEMMA ObservePlaces ==
  ASSUME NEW i \in DOMAIN ObserveSteps
  PROVE  /\ i \in 1..3 /\ ObserveSteps[i] \in {"ask", "report"}
         /\ ObserveSteps[i] = "ask" <=> i \in {1, 2}
         /\ ObserveSteps[i] = "report" <=> i = 3
         /\ ObserveSteps[i] # "report" => i + 1 \in DOMAIN ObserveSteps
         /\ ObserveSteps[i] = "ask" => Behind.observe[i + 1] = Behind.observe[i] + 1
         /\ ObserveSteps[i] \notin {"ask", "report"} => Behind.observe[i + 1] = Behind.observe[i]
  BY DEF ObserveSteps, Behind

\* Where a drill is at each of its steps.
LEMMA Places ==
  ASSUME NEW k \in Kinds, NEW i \in DOMAIN Script[k]
  PROVE  LET step == Script[k][i] IN
         /\ i \in Nat \ {0} /\ k \in {"outage", "loss", "upgrade", "worker", "observe"}
         /\ step # "report" => i + 1 \in DOMAIN Script[k]
         /\ step = "ask" => Behind[k][i + 1] = Behind[k][i] + 1
         /\ step \notin {"ask", "report"} => Behind[k][i + 1] = Behind[k][i]
         /\ step = "up" => \/ (k = "outage" /\ i \in {1, 7})
                           \/ (k = "loss" /\ i \in {1, 10})
         /\ step = "ask" => \/ (k = "outage" /\ i \in {2, 8})
                            \/ (k = "loss" /\ i \in {2, 11})
                            \/ (k = "upgrade" /\ i \in {1, 3, 5, 7})
                            \/ (k = "worker" /\ i \in {1, 5, 7})
                            \/ (k = "observe" /\ i \in {1, 2})
         /\ step = "stop" => \/ (k = "outage" /\ i = 3)
                             \/ (k = "loss" /\ i = 3)
         /\ step = "down" => \/ (k = "outage" /\ i = 4)
                             \/ (k = "loss" /\ i = 4)
         /\ step = "refused" => (k = "outage" /\ i = 5)
         /\ step = "start" => \/ (k = "outage" /\ i = 6)
                              \/ (k = "loss" /\ i = 9)
         /\ step = "report" => \/ (k = "outage" /\ i = 9)
                               \/ (k = "loss" /\ i = 12)
                               \/ (k = "upgrade" /\ i = 8)
                               \/ (k = "worker" /\ i = 8)
                               \/ (k = "observe" /\ i = 3)
         /\ step = "backup" => (k = "loss" /\ i = 5)
         /\ step = "drop" => (k = "loss" /\ i = 6)
         /\ step = "gone" => (k = "loss" /\ i = 7)
         /\ step = "restore" => (k = "loss" /\ i = 8)
         /\ step = "target" => (k = "upgrade" /\ i \in {2, 6})
         /\ step = "source" => (k = "upgrade" /\ i = 4)
         /\ step = "submit" => (k = "worker" /\ i = 2)
         /\ step = "kill" => (k = "worker" /\ i = 3)
         /\ step = "await" => (k = "worker" /\ i = 4)
         /\ step = "revive" => (k = "worker" /\ i = 6)
<1>1. k \in {"outage", "loss", "upgrade", "worker", "observe"}
  BY KindsAssumption DEF Script
<1>2. CASE k = "outage"
  <2>1. Script[k] = OutageSteps /\ Behind[k] = Behind.outage
    BY <1>2 DEF Script, Behind
  <2>2. QED
    BY <1>2, <2>1, OutagePlaces
<1>3. CASE k = "loss"
  <2>1. Script[k] = LossSteps /\ Behind[k] = Behind.loss
    BY <1>3 DEF Script, Behind
  <2>2. QED
    BY <1>3, <2>1, LossPlaces
<1>4. CASE k = "upgrade"
  <2>1. Script[k] = UpgradeSteps /\ Behind[k] = Behind.upgrade
    BY <1>4 DEF Script, Behind
  <2>2. QED
    BY <1>4, <2>1, UpgradePlaces
<1>5. CASE k = "worker"
  <2>1. Script[k] = WorkerSteps /\ Behind[k] = Behind.worker
    BY <1>5 DEF Script, Behind
  <2>2. /\ i \in 1..8 /\ Script[k][i] # "report" => i + 1 \in DOMAIN Script[k]
        /\ Script[k][i] = "ask" => Behind[k][i + 1] = Behind[k][i] + 1
        /\ Script[k][i] \notin {"ask", "report"} => Behind[k][i + 1] = Behind[k][i]
    BY <2>1, WorkerPlaces
  <2> DEFINE step == Script[k][i]
  <2>3. /\ step = "ask" => i \in {1, 5, 7}
        /\ step = "submit" => i = 2
        /\ step = "kill" => i = 3
        /\ step = "await" => i = 4
        /\ step = "revive" => i = 6
        /\ step = "report" => i = 8
        /\ step \in {"ask", "submit", "kill", "await", "revive", "report"}
    BY <2>1, WorkerPlaces
  <2>4. QED
    BY <1>5, <2>2, <2>3
<1>6. CASE k = "observe"
  <2>1. Script[k] = ObserveSteps /\ Behind[k] = Behind.observe
    BY <1>6 DEF Script, Behind
  <2>2. QED
    BY <1>6, <2>1, ObservePlaces
<1>7. QED
  BY <1>1, <1>2, <1>3, <1>4, <1>5, <1>6

LEMMA TwoKnown ==
  ASSUME NEW a, NEW b, a # b PROVE IsFiniteSet({a, b}) /\ Cardinality({a, b}) = 2
<1>1. {a, b} = {a} \cup {b} /\ IsFiniteSet({a}) /\ Cardinality({a}) = 1
  BY FS_Singleton
<1>2. QED
  BY <1>1, FS_AddElement

LEMMA OneMoreKnown ==
  ASSUME NEW S, NEW x, IsFiniteSet(S), x \notin S
  PROVE  IsFiniteSet(S \cup {x}) /\ Cardinality(S \cup {x}) = Cardinality(S) + 1
  BY FS_AddElement

LEMMA ThreeKnown ==
  ASSUME NEW a, NEW b, NEW c, a # b, c \notin {a, b}
  PROVE  IsFiniteSet({a, b, c}) /\ Cardinality({a, b, c}) = 3
<1>1. IsFiniteSet({a, b}) /\ Cardinality({a, b}) = 2
  BY TwoKnown, Zenon
<1>2. {a, b, c} = {a, b} \cup {c}
  BY Zenon
<1>3. /\ IsFiniteSet({a, b} \cup {c})
      /\ Cardinality({a, b} \cup {c}) = Cardinality({a, b}) + 1
  BY <1>1, OneMoreKnown, Zenon
<1>4. Cardinality({a, b} \cup {c}) = 2 + 1
  BY <1>1, <1>3, Zenon
<1>5. 2 + 1 = 3
  OBVIOUS
<1>6. QED
  BY <1>2, <1>3, <1>4, <1>5, Zenon

\* How often each script reads the table.
LEMMA ReadingsKnown ==
  ASSUME drill.kind \in Kinds, drill.at \in DOMAIN Script[drill.kind]
  PROVE  /\ Readings \in Nat /\ Readings >= 2
         /\ Script[drill.kind][drill.at] = "report" =>
              Behind[drill.kind][drill.at] = Readings
<1> DEFINE k == drill.kind
           asks == {i \in DOMAIN Script[k] : Script[k][i] = "ask"}
<1>1. k \in {"outage", "loss", "upgrade", "worker", "observe"}
  BY KindsAssumption DEF Script
<1>2. CASE k = "outage"
  <2>1. Script[k] = OutageSteps /\ Behind[k] = Behind.outage
    BY <1>2 DEF Script, Behind
  <2>2. asks = {2, 8}
    BY <2>1, OutagePlaces DEF OutageSteps
  <2>3. Cardinality({2, 8}) = 2
    <3>1. 2 # 8
      OBVIOUS
    <3>2. QED
      BY <3>1, TwoKnown, Zenon
  <2>4. Readings = 2
    BY <2>2, <2>3 DEF Readings
  <2>5. QED
    BY <2>1, <2>4, OutagePlaces DEF Behind
<1>3. CASE k = "loss"
  <2>1. Script[k] = LossSteps /\ Behind[k] = Behind.loss
    BY <1>3 DEF Script, Behind
  <2>2. asks = {2, 11}
    BY <2>1, LossPlaces DEF LossSteps
  <2>3. Cardinality({2, 11}) = 2
    <3>1. 2 # 11
      OBVIOUS
    <3>2. QED
      BY <3>1, TwoKnown, Zenon
  <2>4. Readings = 2
    BY <2>2, <2>3 DEF Readings
  <2>5. QED
    BY <2>1, <2>4, LossPlaces DEF Behind
<1>4. CASE k = "upgrade"
  <2>1. Script[k] = UpgradeSteps /\ Behind[k] = Behind.upgrade
    BY <1>4 DEF Script, Behind
  <2>2. asks = {1, 3, 5, 7}
    BY <2>1, UpgradePlaces DEF UpgradeSteps
  <2>3. Cardinality({1, 3, 5, 7}) = 4
    <3> DEFINE S == {1, 3, 5}
    <3>1. 1 # 3 /\ 5 \notin {1, 3}
      OBVIOUS
    <3>2. IsFiniteSet(S) /\ Cardinality(S) = 3
      BY <3>1, ThreeKnown, Zenon
    <3>3. {1, 3, 5, 7} = S \cup {7} /\ 7 \notin S
      OBVIOUS
    <3> HIDE DEF S
    <3>4. Cardinality(S \cup {7}) = Cardinality(S) + 1
      BY <3>2, <3>3, OneMoreKnown, Zenon
    <3>5. QED
      BY <3>2, <3>3, <3>4
  <2>4. Readings = 4
    BY <2>2, <2>3 DEF Readings
  <2>5. QED
    BY <2>1, <2>4, UpgradePlaces DEF Behind
<1>5. CASE k = "worker"
  <2>1. Script[k] = WorkerSteps /\ Behind[k] = Behind.worker
    BY <1>5 DEF Script, Behind
  <2>2. asks = {1, 5, 7}
    BY <2>1, WorkerPlaces DEF WorkerSteps
  <2>3. Cardinality({1, 5, 7}) = 3
    <3>1. 1 # 5 /\ 7 \notin {1, 5}
      OBVIOUS
    <3>2. QED
      BY <3>1, ThreeKnown, Zenon
  <2>4. Readings = 3
    BY <2>2, <2>3 DEF Readings
  <2>5. QED
    BY <2>1, <2>4, WorkerPlaces DEF Behind
<1>6. CASE k = "observe"
  <2>1. Script[k] = ObserveSteps /\ Behind[k] = Behind.observe
    BY <1>6 DEF Script, Behind
  <2>2. asks = {1, 2}
    BY <2>1, ObservePlaces DEF ObserveSteps
  <2>3. Cardinality({1, 2}) = 2
    <3>1. 1 # 2
      OBVIOUS
    <3>2. QED
      BY <3>1, TwoKnown, Zenon
  <2>4. Readings = 2
    BY <2>2, <2>3 DEF Readings
  <2>5. QED
    BY <2>1, <2>4, ObservePlaces DEF Behind
<1>7. QED
  BY <1>1, <1>2, <1>3, <1>4, <1>5, <1>6

-----------------------------------------------------------------------------
(* The invariant of a drill.                                               *)

\* A stack that a drill's flags ask to be put back where it is not.
Covered(s, d) ==
  /\ ~s.metastore => NeedsStart(d)
  /\ s.catalog = Lost => NeedsRestore(d)
  /\ s.version # "target" => NeedsTarget(d)
  /\ s.worker \notin {"up", "new"} => NeedsWorker(d)

\* A catalog that is the newest, as the backup is that is to replace it.
Held(s, d) ==
  /\ s.catalog \in {Lost, newest}
  /\ d.kind = "loss" /\ d.required =>
       /\ d.backup # Lost
       /\ ~d.restored => ~s.metastore /\ d.backup = newest

\* What a place of a script says of the flags and the stack, between two readings.
Placed(s, d, at) ==
  CASE d.kind = "outage" -> (at \notin 4..6 => ~d.required)
    [] d.kind = "loss" ->
         /\ at \in 4..9 => ~s.metastore
         /\ d.required <=> at >= 6
         /\ d.restored <=> at >= 9
         /\ d.stopped <=> at \in 4..9
    [] d.kind = "upgrade" -> (d.required <=> at # 8)
    [] d.kind = "worker" ->
         /\ at \notin 4..6 => ~d.required
         /\ at >= 5 => s.flight # "running"
    [] OTHER -> TRUE

\* The same drill, up to its flags.
Like(a, b) ==
  /\ a.kind = b.kind /\ a.at = b.at /\ a.mode = b.mode /\ a.asking = b.asking
  /\ a.seen = b.seen /\ a.status = b.status /\ a.wrote = b.wrote /\ a.stuck = b.stuck

\* The same flags.
Alike(a, b) ==
  /\ a.kind = b.kind /\ a.required = b.required /\ a.restored = b.restored
  /\ a.stopped = b.stopped /\ a.backup = b.backup /\ a.seen = b.seen /\ a.wrote = b.wrote

LEMMA Becomes ==
  ASSUME NEW d \in Drills
  PROVE  /\ LET e == Advance(d) IN
            /\ e \in Drills /\ Alike(e, d) /\ e.at = d.at + 1 /\ e.mode = d.mode
            /\ e.asking = d.asking /\ e.status = d.status /\ e.stuck = d.stuck
         /\ LET e == Raised(d) IN
            /\ e \in Drills /\ Alike(e, d) /\ e.at = d.at /\ e.status = "failed"
            /\ e.mode = (IF Needs(d) THEN "undo" ELSE "over") /\ e.stuck = d.stuck
            /\ ~e.asking
         /\ d.mode # "run" =>
              LET e == Done(d) IN
              /\ e \in Drills /\ Alike(e, d) /\ e.at = d.at /\ e.status = d.status
              /\ e.mode = (IF Needs(d) THEN "undo" ELSE "over") /\ e.stuck = d.stuck
              /\ e.asking = d.asking
         /\ d.mode # "run" \/ ~Needs(d) =>
              LET e == Stuck(d) IN
              /\ e \in Drills /\ Alike(e, d) /\ e.at = d.at /\ e.status = "failed"
              /\ e.mode = "over" /\ e.stuck /\ e.asking = d.asking
<1>1. d.at + 1 \in Nat \ {0}
  BY DEF Drills
<1>2. QED
  BY <1>1 DEF Advance, Raised, Done, Stuck, Alike, Drills

\* A drill that has left its script.
LEMMA LeftInv ==
  ASSUME IInv, TrinoIInv', server'.data \in 0..newest, UNCHANGED newest,
         faults' \in 0..MaxFaults, stack' \in Stacks, NEW d \in Drills, Held(stack', d),
         d.kind = drill.kind, d.at = drill.at, d.seen = drill.seen,
         drill' \in Drills, Alike(drill', d), drill'.at = drill.at, drill'.mode # "run",
         ~drill'.asking,
         drill'.status = "recovered" => drill'.mode = "over" /\ ReportIsTrue',
         drill'.mode = "undo" \/ ~(drill'.stuck \/ drill'.status = "killed") => Covered(stack', d),
         drill'.mode = "over" /\ ~drill'.stuck /\ drill'.status # "killed" =>
           ~(NeedsStart(d) \/ NeedsRestore(d) \/ NeedsTarget(d) \/ NeedsWorker(d))
  PROVE  IInv'
<1>1. TypeOK'
  BY BoundsAssumption DEF IInv, TypeOK, TrinoIInv, Alike
<1>2. FlagsCover' /\ OverWithoutFlags'
  BY DEF FlagsCover, OverWithoutFlags, Covered, Alike, NeedsStart, NeedsRestore, NeedsTarget,
         NeedsWorker, Drills
<1>3. BackupIsNewest' /\ CommitsKept'
  BY DEF BackupIsNewest, CommitsKept, Held, Alike
<1>4. Rests' /\ FlagsPlaced' /\ ReportIsTrue'
  BY DEF Rests, FlagsPlaced, Runs, ReportIsTrue
<1>5. SeenKnown'
  <2>1. newest \in Nat /\ server'.data \in 0..newest => server'.data <= newest
    BY DEF IInv, TypeOK
  <2>2. drill'.seen = drill.seen
    BY DEF Alike
  <2>3. \A i \in DOMAIN drill.seen : drill.seen[i] <= newest
    BY DEF IInv, SeenKnown
  <2>4. QED
    BY <2>1, <2>2, <2>3 DEF SeenKnown, Runs
<1>6. QED
  BY <1>1, <1>2, <1>3, <1>4, <1>5 DEF IInv

\* What the types and the client's invariant are when the client does nothing.
LEMMA QuietClient ==
  ASSUME IInv, UNCHANGED <<trino, newest>>
  PROVE  /\ TrinoIInv' /\ server'.data \in 0..newest /\ UNCHANGED <<call, reader, server, newest>>
<1>1. UNCHANGED <<call, reader, server, newest>> /\ server.data \in Nat /\ newest \in Nat
  BY BoundsAssumption DEF trino, IInv, TypeOK
<1>2. TrinoIInv'
  BY StutterInv DEF IInv
<1>3. server.data \in 0..newest
  BY <1>1 DEF IInv, SeenKnown
<1>4. QED
  BY <1>1, <1>2, <1>3

\* A step of the script that raises.
LEMMA RaisedInv ==
  ASSUME IInv, TrinoIInv', server'.data \in 0..newest, UNCHANGED newest,
         faults' \in 0..MaxFaults, stack' \in Stacks, Runs, NEW d \in Drills,
         Like(d, drill), Held(stack', d), Covered(stack', d), drill' = Raised(d)
  PROVE  IInv'
<1>1. /\ drill' \in Drills /\ Alike(drill', d) /\ drill'.at = drill.at /\ drill'.status = "failed"
      /\ drill'.mode = (IF Needs(d) THEN "undo" ELSE "over") /\ ~drill'.asking
  BY Becomes DEF Like
<1>2. drill'.mode = "over" => ~(NeedsStart(d) \/ NeedsRestore(d) \/ NeedsTarget(d) \/ NeedsWorker(d))
  BY <1>1 DEF Needs
<1>3. d.kind = drill.kind /\ d.at = drill.at /\ d.seen = drill.seen
  BY DEF Like
<1>4. QED
  BY <1>1, <1>2, <1>3, LeftInv

\* A call that raises, of the script or of the finally clause.
LEMMA StuckInv ==
  ASSUME IInv, UNCHANGED <<trino, newest>>, faults' \in 0..MaxFaults, stack' \in Stacks,
         drill.mode # "over", ~drill.asking, NEW d \in Drills, Like(d, drill), Held(stack', d),
         Runs /\ Needs(d) => Covered(stack', d), drill' = Stuck(d)
  PROVE  IInv'
<1>1. TrinoIInv' /\ server'.data \in 0..newest /\ UNCHANGED newest
  BY QuietClient
<1>2. /\ d.mode = drill.mode /\ d.kind = drill.kind /\ d.at = drill.at /\ d.seen = drill.seen
      /\ ~d.asking
  BY DEF Like
<1>3. CASE Runs /\ Needs(d)
  <2>1. drill' = Raised(d)
    BY <1>2, <1>3 DEF Stuck, Runs
  <2>2. QED
    BY <1>1, <1>3, <2>1, RaisedInv
<1>4. CASE ~(Runs /\ Needs(d))
  <2>1. /\ drill' \in Drills /\ Alike(drill', d) /\ drill'.at = drill.at
        /\ drill'.status = "failed" /\ drill'.mode = "over" /\ drill'.stuck /\ ~drill'.asking
    BY <1>2, <1>4, Becomes DEF Runs
  <2>2. QED
    BY <1>1, <1>2, <2>1, LeftInv
<1>5. QED
  BY <1>3, <1>4

\* A call of the finally clause that succeeds.
LEMMA UndoneInv ==
  ASSUME IInv, UNCHANGED <<trino, newest>>, faults' \in 0..MaxFaults, stack' \in Stacks,
         Undo, NEW e \in Drills, Like(e, drill), Held(stack', e), Covered(stack', e),
         drill' = Done(e)
  PROVE  IInv'
<1>1. TrinoIInv' /\ server'.data \in 0..newest /\ UNCHANGED newest
  BY QuietClient
<1>2. /\ e.mode = "undo" /\ e.kind = drill.kind /\ e.at = drill.at /\ e.seen = drill.seen
      /\ e.status = drill.status /\ drill.mode = "undo" /\ ~e.asking
  BY DEF Like, Undo, IInv, Rests, Runs
<1>3. /\ drill' \in Drills /\ Alike(drill', e) /\ drill'.at = drill.at /\ drill'.status = drill.status
      /\ drill'.mode = (IF Needs(e) THEN "undo" ELSE "over") /\ ~drill'.asking
  BY <1>2, Becomes
<1>4. drill.status \in {"none", "failed", "killed"}
  BY <1>2 DEF IInv, TypeOK, Drills, SeenKnown
<1>5. drill'.mode = "over" => ~(NeedsStart(e) \/ NeedsRestore(e) \/ NeedsTarget(e) \/ NeedsWorker(e))
  BY <1>3 DEF Needs
<1>6. QED
  BY <1>1, <1>2, <1>3, <1>4, <1>5, LeftInv

\* A step of the script that succeeds, between two readings.
LEMMA AdvanceInv ==
  ASSUME IInv, UNCHANGED <<trino, newest>>, faults' \in 0..MaxFaults, stack' \in Stacks,
         Runs, ~drill.asking, Script[drill.kind][drill.at] \notin {"ask", "report"},
         NEW e \in Drills, Like(e, drill), Held(stack', e), Covered(stack', e),
         Placed(stack', e, drill.at + 1), drill' = Advance(e)
  PROVE  IInv'
<1>1. /\ TrinoIInv' /\ server'.data \in 0..newest /\ UNCHANGED <<call, reader, server, newest>>
      /\ newest \in Nat
  BY QuietClient, BoundsAssumption DEF IInv, TypeOK
<1>2. /\ e.mode = "run" /\ e.kind = drill.kind /\ e.at = drill.at /\ e.seen = drill.seen
      /\ e.status = drill.status /\ ~e.asking /\ e.wrote = drill.wrote /\ e.stuck = drill.stuck
  BY DEF Like, Runs
<1>3. /\ drill' \in Drills /\ Alike(drill', e) /\ drill'.at = drill.at + 1 /\ drill'.mode = "run"
      /\ ~drill'.asking /\ drill'.status = drill.status
  BY <1>2, Becomes
<1>4. /\ drill'.kind = drill.kind /\ drill'.seen = drill.seen /\ drill'.wrote = drill.wrote
      /\ drill'.required = e.required /\ drill'.restored = e.restored /\ drill'.stopped = e.stopped
      /\ drill'.backup = e.backup
  BY <1>2, <1>3 DEF Alike
<1>5. /\ drill.at + 1 \in DOMAIN Script[drill.kind]
      /\ Behind[drill.kind][drill.at + 1] = Behind[drill.kind][drill.at]
  BY Places DEF IInv, TypeOK, Drills
<1>6. TypeOK'
  BY <1>1, <1>3, <1>4, <1>5 DEF IInv, TypeOK, TrinoIInv
<1>7. FlagsCover' /\ OverWithoutFlags'
  BY <1>3, <1>4, <1>2 DEF FlagsCover, OverWithoutFlags, Covered, NeedsStart, NeedsRestore,
     NeedsTarget, NeedsWorker
<1>8. BackupIsNewest' /\ CommitsKept'
  BY <1>1, <1>2, <1>4 DEF BackupIsNewest, CommitsKept, Held
<1>9. Rests'
  BY <1>1, <1>3 DEF IInv, Rests, Runs, Active
<1>10. FlagsPlaced'
  BY <1>2, <1>3, <1>4 DEF FlagsPlaced, Placed, Runs
<1>11. SeenKnown'
  <2>1. Readings' = Readings
    BY <1>4 DEF Readings
  <2>2. QED
    BY <1>1, <1>3, <1>4, <1>5, <2>1 DEF IInv, SeenKnown, Runs
<1>12. ReportIsTrue'
  BY <1>3 DEF ReportIsTrue, IInv, SeenKnown, Runs
<1>13. QED
  BY <1>1, <1>6, <1>7, <1>8, <1>9, <1>10, <1>11, <1>12 DEF IInv

\* A call, and whatever comes of it.
LEMMA AttemptInv ==
  ASSUME IInv, drill.mode # "over",
         Runs => ~drill.asking /\ Script[drill.kind][drill.at] \notin {"ask", "report"},
         NEW after \in Stacks, NEW half \in Stacks, NEW d \in Drills, NEW e \in Drills,
         Attempt(after, half, d, e), Like(d, drill), Like(e, drill),
         Held(after, e), Covered(after, e), Runs => Placed(after, e, drill.at + 1),
         \A s \in {stack, after, half} : Held(s, d) /\ (Runs /\ Needs(d) => Covered(s, d))
  PROVE  IInv'
<1>1. UNCHANGED <<trino, newest>> /\ stack \in Stacks /\ faults \in 0..MaxFaults /\ MaxFaults \in Nat
  BY BoundsAssumption DEF Attempt, IInv, TypeOK
<1>2. ~drill.asking
  BY DEF IInv, Rests
<1>3. CASE stack' = after /\ drill' = Done(e) /\ UNCHANGED faults
  <2>1. CASE Runs
    <3>1. drill' = Advance(e)
      BY <1>3, <2>1 DEF Done, Like, Runs
    <3>2. QED
      BY <1>1, <1>3, <2>1, <3>1, AdvanceInv
  <2>2. CASE ~Runs
    <3>1. Undo
      BY <2>2 DEF Undo, Runs, IInv, TypeOK, Drills
    <3>2. QED
      BY <1>1, <1>3, <3>1, UndoneInv
  <2>3. QED
    BY <2>1, <2>2
<1>4. CASE faults < MaxFaults /\ faults' = faults + 1 /\ stack' \in {stack, after, half}
           /\ drill' = Stuck(d)
  <2>1. faults' \in 0..MaxFaults /\ stack' \in Stacks
    BY <1>1, <1>4
  <2>2. Held(stack', d) /\ (Runs /\ Needs(d) => Covered(stack', d))
    BY <1>4
  <2>3. QED
    BY <1>1, <1>4, <1>2, <2>1, <2>2, StuckInv
<1>5. QED
  BY <1>3, <1>4 DEF Attempt

\* What the invariant says of the stack and the drill of now.
LEMMA NowKnown ==
  ASSUME IInv, drill.mode # "over"
  PROVE  /\ stack \in Stacks /\ drill \in Drills /\ Held(stack, drill) /\ Covered(stack, drill)
         /\ Runs => Placed(stack, drill, drill.at)
         /\ Like(drill, drill) /\ drill.kind \in Kinds /\ drill.at \in DOMAIN Script[drill.kind]
         /\ drill.at \in Nat /\ newest \in 1..MaxSnap /\ MaxSnap \in Nat /\ MaxFaults \in Nat
         /\ faults \in 0..MaxFaults
         /\ drill.kind \in {"outage", "loss", "upgrade", "worker", "observe"}
<1>1. stack \in Stacks /\ drill \in Drills /\ drill.kind \in Kinds /\ drill.at \in Nat
  BY DEF IInv, TypeOK, Drills
<1>2. Held(stack, drill) /\ Covered(stack, drill)
  BY DEF IInv, CommitsKept, BackupIsNewest, Held, FlagsCover, Covered
<1>3. Runs => Placed(stack, drill, drill.at)
  BY <1>1 DEF IInv, FlagsPlaced, Placed
<1>4. drill.kind \in {"outage", "loss", "upgrade", "worker", "observe"}
  BY <1>1, KindsAssumption DEF Script
<1>5. QED
  BY <1>1, <1>2, <1>3, <1>4, BoundsAssumption DEF IInv, TypeOK, Like

\* Where a drill is whose step is not in the script.
LEMMA AtPlaces ==
  ASSUME IInv, NEW step, At(step)
  PROVE  /\ Runs /\ drill.mode # "over" /\ ~drill.asking
         /\ Script[drill.kind][drill.at] = step /\ drill.kind \in Kinds
         /\ drill.at \in DOMAIN Script[drill.kind]
  BY DEF At, Runs, IInv, TypeOK, Drills

\* A look at the stack.
LEMMA LookInv ==
  ASSUME IInv, NEW step \in {"up", "down", "gone", "await"}, At(step), NEW holds, Look(holds),
         holds => Placed(stack, drill, drill.at + 1)
  PROVE  IInv'
<1>1. /\ Runs /\ drill.mode # "over" /\ ~drill.asking /\ Script[drill.kind][drill.at] = step
      /\ UNCHANGED <<trino, stack, newest>>
  BY AtPlaces DEF Look
<1>2. faults' \in 0..MaxFaults /\ stack' \in Stacks /\ stack' = stack
  BY <1>1, NowKnown DEF Look
<1>3. CASE drill' = Raised(drill)
  <2>1. QED
    BY <1>1, <1>2, <1>3, NowKnown, QuietClient, RaisedInv
<1>4. CASE holds /\ drill' = Advance([drill EXCEPT !.ids = @ \cup {stack.database}])
  <2> DEFINE e == [drill EXCEPT !.ids = @ \cup {stack.database}]
  <2>1. stack.database \in Nat
    BY <1>1, NowKnown DEF Stacks
  <2>2. /\ e \in Drills /\ Like(e, drill) /\ Alike(e, drill)
    BY <1>1, <2>1, NowKnown DEF Drills, Like, Alike
  <2>3. drill' = Advance(e)
    BY <1>4
  <2> HIDE DEF e
  <2>4. Held(stack', e) /\ Covered(stack', e) /\ Placed(stack', e, drill.at + 1)
    BY <1>1, <1>2, <1>4, <2>2, NowKnown DEF Held, Covered, Placed, Alike, NeedsStart, NeedsRestore,
       NeedsTarget, NeedsWorker
  <2>5. QED
    BY <1>1, <1>2, <2>2, <2>3, <2>4, AdvanceInv
<1>5. QED
  BY <1>3, <1>4 DEF Look

LEMMA LooksInv == IInv /\ (IsUp \/ IsDown \/ IsGone \/ Await) => IInv'
<1> SUFFICES ASSUME IInv, IsUp \/ IsDown \/ IsGone \/ Await PROVE IInv'
  OBVIOUS
<1>1. CASE IsUp
  <2>1. At("up") /\ Runs /\ Script[drill.kind][drill.at] = "up"
    BY <1>1, AtPlaces DEF IsUp
  <2>2. (drill.kind = "outage" /\ drill.at \in {1, 7}) \/ (drill.kind = "loss" /\ drill.at \in {1, 10})
    BY <2>1, AtPlaces, Places
  <2>3. Placed(stack, drill, drill.at + 1)
    BY <2>1, <2>2, AtPlaces, NowKnown DEF Placed
  <2>4. QED
    BY <1>1, <2>1, <2>3, LookInv DEF IsUp
<1>2. CASE IsDown
  <2>1. At("down") /\ Runs /\ Script[drill.kind][drill.at] = "down"
    BY <1>2, AtPlaces DEF IsDown
  <2>2. (drill.kind = "outage" /\ drill.at = 4) \/ (drill.kind = "loss" /\ drill.at = 4)
    BY <2>1, AtPlaces, Places
  <2>3. Placed(stack, drill, drill.at + 1)
    BY <2>1, <2>2, AtPlaces, NowKnown DEF Placed
  <2>4. QED
    BY <1>2, <2>1, <2>3, LookInv DEF IsDown
<1>3. CASE IsGone
  <2>1. At("gone") /\ Runs /\ Script[drill.kind][drill.at] = "gone"
    BY <1>3, AtPlaces DEF IsGone
  <2>2. drill.kind = "loss" /\ drill.at = 7
    BY <2>1, AtPlaces, Places
  <2>3. Placed(stack, drill, drill.at + 1)
    BY <2>1, <2>2, AtPlaces, NowKnown DEF Placed
  <2>4. QED
    BY <1>3, <2>1, <2>3, LookInv DEF IsGone
<1>4. CASE Await
  <2>1. At("await") /\ Runs /\ Script[drill.kind][drill.at] = "await" /\ stack.flight # "running"
    BY <1>4, AtPlaces DEF Await
  <2>2. drill.kind = "worker" /\ drill.at = 4
    BY <2>1, AtPlaces, Places
  <2>3. Placed(stack, drill, drill.at + 1)
    BY <2>1, <2>2, AtPlaces, NowKnown DEF Placed
  <2>4. QED
    BY <1>4, <2>1, <2>3, LookInv DEF Await
<1>5. QED
  BY <1>1, <1>2, <1>3, <1>4

\* What the metastore's outage leaves is in the flags, before it or after.
LEMMA StopMetastoreInv == IInv /\ StopMetastore => IInv'
<1> SUFFICES ASSUME IInv, StopMetastore PROVE IInv'
  OBVIOUS
<1> DEFINE d == IF drill.kind = "outage" THEN [drill EXCEPT !.required = TRUE] ELSE drill
           e == IF drill.kind = "outage" THEN d ELSE [drill EXCEPT !.stopped = TRUE]
           after == [stack EXCEPT !.metastore = FALSE]
<1>1. At("stop") /\ Attempt(after, after, d, e)
  BY DEF StopMetastore
<1>2. /\ Runs /\ drill.mode # "over" /\ ~drill.asking /\ Script[drill.kind][drill.at] = "stop"
      /\ drill.kind \in {"outage", "loss"} /\ drill.at = 3
  BY <1>1, AtPlaces, Places
<1>3. /\ after \in Stacks /\ ~after.metastore /\ after.catalog = stack.catalog
      /\ after.version = stack.version /\ after.worker = stack.worker
  BY <1>2, NowKnown DEF Stacks
<1>4. /\ d \in Drills /\ Like(d, drill) /\ d.restored = drill.restored /\ d.backup = drill.backup
      /\ d.stopped = drill.stopped
      /\ d.required = (IF drill.kind = "outage" THEN TRUE ELSE drill.required)
  BY <1>2, NowKnown DEF Drills, Like
<1>5. /\ e \in Drills /\ Like(e, drill) /\ e.restored = drill.restored /\ e.backup = drill.backup
      /\ e.stopped = (IF drill.kind = "outage" THEN drill.stopped ELSE TRUE)
      /\ e.required = (IF drill.kind = "outage" THEN TRUE ELSE drill.required)
  BY <1>2, NowKnown DEF Drills, Like
<1> HIDE DEF d, e, after
<1>6. Placed(stack, drill, 3) /\ Held(stack, drill) /\ Covered(stack, drill)
  BY <1>2, NowKnown
<1>7. Held(after, e) /\ Covered(after, e) /\ Placed(after, e, 4)
  BY <1>2, <1>3, <1>5, <1>6 DEF Held, Covered, Placed, Like, NeedsStart, NeedsRestore, NeedsTarget,
     NeedsWorker
<1>8. Held(stack, d) /\ Held(after, d)
  BY <1>2, <1>3, <1>4, <1>6 DEF Held, Like, Placed
<1>9. Needs(d) => Covered(stack, d) /\ Covered(after, d)
  BY <1>2, <1>3, <1>4, <1>6 DEF Covered, Placed, Like, Needs, NeedsCancel, NeedsStart, NeedsRestore,
     NeedsTarget, NeedsWorker
<1>10. QED
  BY <1>1, <1>2, <1>3, <1>4, <1>5, <1>7, <1>8, <1>9, AttemptInv

LEMMA BackUpInv == IInv /\ BackUp => IInv'
<1> SUFFICES ASSUME IInv, BackUp PROVE IInv'
  OBVIOUS
<1> DEFINE e == [drill EXCEPT !.backup = stack.catalog, !.required = TRUE]
<1>1. At("backup") /\ Attempt(stack, stack, drill, e)
  BY DEF BackUp
<1>2. /\ Runs /\ drill.mode # "over" /\ ~drill.asking /\ Script[drill.kind][drill.at] = "backup"
      /\ drill.kind = "loss" /\ drill.at = 5
  BY <1>1, AtPlaces, Places
<1>3. stack.catalog \in 0..MaxSnap
  BY <1>2, NowKnown DEF Stacks
<1>4. /\ e \in Drills /\ Like(e, drill) /\ e.restored = drill.restored /\ e.backup = stack.catalog
      /\ e.stopped = drill.stopped /\ e.required
  BY <1>2, <1>3, NowKnown DEF Drills, Like
<1> HIDE DEF e
<1>5. Placed(stack, drill, 5) /\ Held(stack, drill) /\ Covered(stack, drill)
  BY <1>2, NowKnown
<1>6. ~drill.required /\ stack.catalog # Lost /\ stack.catalog = newest /\ drill.stopped
  BY <1>2, <1>5 DEF Placed, Covered, Held, NeedsRestore
<1>7. Held(stack, e) /\ Covered(stack, e) /\ Placed(stack, e, 6)
  BY <1>2, <1>4, <1>5, <1>6 DEF Held, Covered, Placed, Like, NeedsStart, NeedsRestore, NeedsTarget,
     NeedsWorker
<1>8. QED
  BY <1>1, <1>2, <1>4, <1>5, <1>7, NowKnown, AttemptInv

LEMMA DropCatalogInv == IInv /\ DropCatalog => IInv'
<1> SUFFICES ASSUME IInv, DropCatalog PROVE IInv'
  OBVIOUS
<1> DEFINE after == [stack EXCEPT !.catalog = Lost]
<1>1. At("drop") /\ Attempt(after, after, drill, drill)
  BY DEF DropCatalog
<1>2. /\ Runs /\ drill.mode # "over" /\ ~drill.asking /\ Script[drill.kind][drill.at] = "drop"
      /\ drill.kind = "loss" /\ drill.at = 6
  BY <1>1, AtPlaces, Places
<1>3. /\ after \in Stacks /\ after.metastore = stack.metastore /\ after.catalog = Lost
      /\ after.version = stack.version /\ after.worker = stack.worker
  BY <1>2, NowKnown DEF Stacks, Lost
<1> HIDE DEF after
<1>4. Placed(stack, drill, 6) /\ Held(stack, drill) /\ Covered(stack, drill)
  BY <1>2, NowKnown
<1>5. Held(after, drill) /\ Covered(after, drill) /\ Placed(after, drill, 7)
  BY <1>2, <1>3, <1>4 DEF Held, Covered, Placed, NeedsStart, NeedsRestore, NeedsTarget, NeedsWorker
<1>6. QED
  BY <1>1, <1>2, <1>3, <1>4, <1>5, NowKnown, AttemptInv

\* What is restored is the newest, for nobody has written since.
LEMMA RestoreInv == IInv /\ Restore => IInv'
<1> SUFFICES ASSUME IInv, Restore PROVE IInv'
  OBVIOUS
<1> DEFINE e == [drill EXCEPT !.restored = TRUE]
           after == [stack EXCEPT !.catalog = drill.backup]
           half == [stack EXCEPT !.catalog = Lost]
<1>1. Attempt(after, half, drill, e)
  BY DEF Restore
<1>2. /\ drill.mode # "over" /\ drill.kind = "loss" /\ NeedsRestore(drill)
      /\ Runs => /\ ~drill.asking /\ Script[drill.kind][drill.at] = "restore" /\ drill.at = 8
                 /\ drill.stopped
  <2>1. CASE At("restore")
    <3>1. /\ Runs /\ drill.mode # "over" /\ ~drill.asking
          /\ Script[drill.kind][drill.at] = "restore"
      BY <2>1, AtPlaces
    <3>2. drill.kind = "loss" /\ drill.at = 8
      BY <2>1, <3>1, AtPlaces, Places
    <3>3. Placed(stack, drill, 8)
      BY <3>1, <3>2, NowKnown
    <3>4. QED
      BY <3>1, <3>2, <3>3 DEF Placed, NeedsRestore
  <2>2. CASE Undo /\ NeedsRestore(drill)
    BY <2>2 DEF Undo, NeedsRestore, Runs
  <2>3. QED
    BY <2>1, <2>2 DEF Restore
<1>3. drill.backup = newest /\ drill.backup \in 0..MaxSnap /\ newest # Lost /\ ~stack.metastore
  BY <1>2, NowKnown DEF Held, NeedsRestore, Drills, Lost
<1>4. /\ after \in Stacks /\ after.metastore = stack.metastore /\ after.catalog = newest
      /\ after.version = stack.version /\ after.worker = stack.worker
  BY <1>2, <1>3, NowKnown DEF Stacks
<1>5. /\ half \in Stacks /\ half.metastore = stack.metastore /\ half.catalog = Lost
      /\ half.version = stack.version /\ half.worker = stack.worker
  BY <1>2, NowKnown DEF Stacks, Lost
<1>6. /\ e \in Drills /\ Like(e, drill) /\ e.restored /\ e.backup = drill.backup
      /\ e.stopped = drill.stopped /\ e.required = drill.required
  BY <1>2, NowKnown DEF Drills, Like
<1> HIDE DEF e, after, half
<1>7. Held(stack, drill) /\ Covered(stack, drill) /\ (Runs => Placed(stack, drill, 8))
  BY <1>2, NowKnown
<1>8. Held(after, e) /\ Covered(after, e) /\ (Runs => Placed(after, e, 9))
  BY <1>2, <1>3, <1>4, <1>6, <1>7 DEF Held, Covered, Placed, Like, NeedsStart, NeedsRestore,
     NeedsTarget, NeedsWorker
<1>9. \A s \in {stack, after, half} : Held(s, drill) /\ Covered(s, drill)
  BY <1>2, <1>3, <1>4, <1>5, <1>7 DEF Held, Covered, NeedsStart, NeedsRestore, NeedsTarget, NeedsWorker
<1>10. QED
  BY <1>1, <1>2, <1>4, <1>5, <1>6, <1>8, <1>9, NowKnown, AttemptInv

LEMMA StartMetastoreInv == IInv /\ StartMetastore => IInv'
<1> SUFFICES ASSUME IInv, StartMetastore PROVE IInv'
  OBVIOUS
<1> DEFINE d == [drill EXCEPT !.required = @ /\ drill.kind # "outage"]
           e == [d EXCEPT !.stopped = FALSE]
           after == [stack EXCEPT !.metastore = TRUE]
<1>1. Attempt(after, after, d, e)
  BY DEF StartMetastore
<1>2. /\ drill.mode # "over" /\ drill.kind \in {"outage", "loss"} /\ ~NeedsRestore(drill)
      /\ Runs => /\ ~drill.asking /\ Script[drill.kind][drill.at] = "start"
                 /\ drill.at = (IF drill.kind = "outage" THEN 6 ELSE 9)
  <2>1. CASE At("start")
    <3>1. /\ Runs /\ drill.mode # "over" /\ ~drill.asking /\ Script[drill.kind][drill.at] = "start"
      BY <2>1, AtPlaces
    <3>2. (drill.kind = "outage" /\ drill.at = 6) \/ (drill.kind = "loss" /\ drill.at = 9)
      BY <2>1, <3>1, AtPlaces, Places
    <3>3. Placed(stack, drill, drill.at)
      BY <3>1, NowKnown
    <3>4. QED
      BY <3>1, <3>2, <3>3 DEF Placed, NeedsRestore
  <2>2. CASE Undo /\ ~NeedsRestore(drill) /\ NeedsStart(drill)
    BY <2>2 DEF Undo, NeedsStart, Runs
  <2>3. QED
    BY <2>1, <2>2 DEF StartMetastore
<1>3. /\ after \in Stacks /\ after.metastore /\ after.catalog = stack.catalog
      /\ after.version = stack.version /\ after.worker = stack.worker
  BY <1>2, NowKnown DEF Stacks
<1>4. /\ d \in Drills /\ Like(d, drill) /\ d.restored = drill.restored /\ d.backup = drill.backup
      /\ d.stopped = drill.stopped /\ d.required = (drill.required /\ drill.kind # "outage")
  BY <1>2, NowKnown DEF Drills, Like
<1> HIDE DEF d
<1>5. /\ e \in Drills /\ Like(e, drill) /\ e.restored = drill.restored /\ e.backup = drill.backup
      /\ ~e.stopped /\ e.required = (drill.required /\ drill.kind # "outage")
  BY <1>4 DEF Drills, Like
<1> HIDE DEF e, after
<1>6. Held(stack, drill) /\ Covered(stack, drill) /\ (Runs => Placed(stack, drill, drill.at))
  BY <1>2, NowKnown
<1>7. Held(after, e) /\ Covered(after, e)
  BY <1>2, <1>3, <1>5, <1>6 DEF Held, Covered, Like, NeedsStart, NeedsRestore, NeedsTarget,
     NeedsWorker
<1>8. ASSUME Runs PROVE Placed(after, e, drill.at + 1)
  <2>1. CASE drill.kind = "outage"
    BY <1>2, <1>5, <1>8, <2>1 DEF Placed, Like
  <2>2. CASE drill.kind = "loss"
    <3>1. drill.at = 9 /\ drill.required /\ drill.restored
      BY <1>2, <1>6, <1>8, <2>2 DEF Placed
    <3>2. e.kind = "loss" /\ e.required /\ e.restored /\ ~e.stopped
      BY <1>5, <2>2, <3>1 DEF Like
    <3>3. Placed(after, e, 10)
      BY <3>2 DEF Placed
    <3>4. QED
      BY <3>1, <3>3
  <2>3. QED
    BY <1>2, <2>1, <2>2
<1>9. Held(stack, d) /\ Held(after, d)
  BY <1>2, <1>3, <1>4, <1>6 DEF Held, Like, NeedsRestore
<1>10. ASSUME Runs, Needs(d) PROVE Covered(stack, d) /\ Covered(after, d)
  <2>1. drill.kind = "loss"
    BY <1>2, <1>4, <1>10 DEF Needs, Like, NeedsCancel, NeedsStart, NeedsRestore, NeedsTarget,
       NeedsWorker
  <2>2. QED
    BY <1>3, <1>4, <1>6, <2>1 DEF Covered, Like, NeedsStart, NeedsRestore, NeedsTarget, NeedsWorker
<1>11. QED
  BY <1>1, <1>2, <1>3, <1>4, <1>5, <1>7, <1>8, <1>9, <1>10, AttemptInv

LEMMA SwitchInv == ASSUME IInv, NEW version \in {"source", "target"}, Switch(version) PROVE IInv'
<1> DEFINE after == [stack EXCEPT !.version = version]
           none == [stack EXCEPT !.version = "none"]
           e == IF Undo THEN [drill EXCEPT !.required = FALSE] ELSE drill
<1>1. Attempt(after, none, drill, e)
  BY DEF Switch
<1>2. /\ drill.mode # "over" /\ drill.kind = "upgrade" /\ drill.required
      /\ ~Runs => Undo /\ version = "target"
      /\ Runs => /\ ~drill.asking /\ Script[drill.kind][drill.at] = version
                 /\ drill.at \in {2, 4, 6} /\ ~Undo
  <2>1. CASE At(version)
    <3>1. /\ Runs /\ drill.mode # "over" /\ ~drill.asking /\ Script[drill.kind][drill.at] = version
      BY <2>1, AtPlaces
    <3>2. drill.kind = "upgrade" /\ drill.at \in {2, 4, 6}
      BY <2>1, <3>1, AtPlaces, Places
    <3>3. Placed(stack, drill, drill.at)
      BY <3>1, NowKnown
    <3>4. QED
      BY <3>1, <3>2, <3>3 DEF Placed, Undo, Runs
  <2>2. CASE Undo /\ NeedsTarget(drill) /\ version = "target"
    BY <2>2 DEF Undo, NeedsTarget, Runs
  <2>3. QED
    BY <2>1, <2>2 DEF Switch
<1>3. /\ after \in Stacks /\ after.metastore = stack.metastore /\ after.catalog = stack.catalog
      /\ after.version = version /\ after.worker = stack.worker
  BY <1>2, NowKnown DEF Stacks
<1>4. /\ none \in Stacks /\ none.metastore = stack.metastore /\ none.catalog = stack.catalog
      /\ none.version = "none" /\ none.worker = stack.worker
  BY <1>2, NowKnown DEF Stacks
<1>5. /\ e \in Drills /\ Like(e, drill) /\ (Undo => ~e.required) /\ (~Undo => e.required)
  BY <1>2, NowKnown DEF Drills, Like
<1> HIDE DEF e, after, none
<1>6. Held(stack, drill) /\ Covered(stack, drill)
  BY <1>2, NowKnown
<1>7. Held(after, e) /\ Covered(after, e) /\ (Runs => Placed(after, e, drill.at + 1))
  <2>1. Held(after, e)
    BY <1>2, <1>3, <1>5, <1>6 DEF Held, Like
  <2>2. Covered(after, e)
    BY <1>2, <1>3, <1>5, <1>6 DEF Covered, Like, NeedsStart, NeedsRestore, NeedsTarget, NeedsWorker
  <2>3. ASSUME Runs PROVE Placed(after, e, drill.at + 1)
    <3>1. e.kind = "upgrade" /\ e.required /\ drill.at + 1 # 8
      BY <1>2, <1>5, <2>3 DEF Like
    <3>2. QED
      BY <3>1 DEF Placed
  <2>4. QED
    BY <2>1, <2>2, <2>3
<1>8. \A s \in {stack, after, none} : Held(s, drill) /\ Covered(s, drill)
  BY <1>2, <1>3, <1>4, <1>6 DEF Held, Covered, NeedsStart, NeedsRestore, NeedsTarget, NeedsWorker
<1>9. Runs => Script[drill.kind][drill.at] \notin {"ask", "report"}
  BY <1>2
<1>10. QED
  BY <1>1, <1>2, <1>3, <1>4, <1>5, <1>7, <1>8, <1>9, NowKnown, AttemptInv

LEMMA SubmitInv == IInv /\ Submit => IInv'
<1> SUFFICES ASSUME IInv, Submit PROVE IInv'
  OBVIOUS
<1> DEFINE after == [stack EXCEPT !.flight = "running"]
<1>1. At("submit") /\ Attempt(after, stack, drill, drill)
  BY DEF Submit
<1>2. /\ Runs /\ drill.mode # "over" /\ ~drill.asking /\ Script[drill.kind][drill.at] = "submit"
      /\ drill.kind = "worker" /\ drill.at = 2
  BY <1>1, AtPlaces, Places
<1>3. /\ after \in Stacks /\ after.metastore = stack.metastore /\ after.catalog = stack.catalog
      /\ after.version = stack.version /\ after.worker = stack.worker
  BY <1>2, NowKnown DEF Stacks
<1> HIDE DEF after
<1>4. Placed(stack, drill, 2) /\ Held(stack, drill) /\ Covered(stack, drill)
  BY <1>2, NowKnown
<1>5. Held(after, drill) /\ Covered(after, drill) /\ Placed(after, drill, 3)
  BY <1>2, <1>3, <1>4 DEF Held, Covered, Placed, NeedsStart, NeedsRestore, NeedsTarget, NeedsWorker
<1>6. QED
  BY <1>1, <1>2, <1>3, <1>4, <1>5, NowKnown, AttemptInv

LEMMA KillWorkerInv == IInv /\ KillWorker => IInv'
<1> SUFFICES ASSUME IInv, KillWorker PROVE IInv'
  OBVIOUS
<1>1. /\ Runs /\ drill.mode # "over" /\ ~drill.asking /\ Script[drill.kind][drill.at] = "kill"
      /\ drill.kind = "worker" /\ drill.at = 3
  BY AtPlaces, Places DEF KillWorker
<1>2. Placed(stack, drill, 3) /\ Held(stack, drill) /\ Covered(stack, drill)
  BY <1>1, NowKnown
<1>3. CASE /\ faults < MaxFaults /\ faults' = faults + 1 /\ drill' = Raised(drill)
           /\ UNCHANGED <<trino, stack, newest>>
  <2>1. faults' \in 0..MaxFaults /\ stack' = stack
    BY <1>1, <1>3, NowKnown
  <2>2. QED
    BY <1>1, <1>2, <1>3, <2>1, NowKnown, QuietClient, RaisedInv
<1> DEFINE d == [drill EXCEPT !.required = TRUE]
           after == [stack EXCEPT !.worker = "killed"]
           half == [stack EXCEPT !.worker = "norestart"]
<1>4. CASE Attempt(after, half, d, d)
  <2>1. /\ after \in Stacks /\ after.metastore = stack.metastore /\ after.catalog = stack.catalog
        /\ after.version = stack.version
    BY <1>1, NowKnown DEF Stacks
  <2>2. /\ half \in Stacks /\ half.metastore = stack.metastore /\ half.catalog = stack.catalog
        /\ half.version = stack.version
    BY <1>1, NowKnown DEF Stacks
  <2>3. d \in Drills /\ Like(d, drill) /\ d.required
    BY <1>1, NowKnown DEF Drills, Like
  <2> HIDE DEF d, after, half
  <2>4. \A s \in {stack, after, half} : Held(s, d) /\ Covered(s, d)
    BY <1>1, <1>2, <2>1, <2>2, <2>3 DEF Held, Covered, Like, NeedsStart, NeedsRestore, NeedsTarget,
       NeedsWorker
  <2>5. Placed(after, d, 4)
    BY <1>1, <2>3 DEF Placed, Like
  <2>6. QED
    BY <1>1, <1>4, <2>1, <2>2, <2>3, <2>4, <2>5, AttemptInv
<1>5. QED
  BY <1>3, <1>4 DEF KillWorker

LEMMA ReviveInv == IInv /\ Revive => IInv'
<1> SUFFICES ASSUME IInv, Revive PROVE IInv'
  OBVIOUS
<1> DEFINE d == [drill EXCEPT !.required = FALSE]
           after == [stack EXCEPT !.worker = "new"]
<1>1. Attempt(after, after, d, d)
  BY DEF Revive
<1>2. /\ drill.mode # "over" /\ drill.kind = "worker" /\ stack.flight # "running"
      /\ Runs => /\ ~drill.asking /\ Script[drill.kind][drill.at] = "revive" /\ drill.at = 6
  <2>1. CASE At("revive")
    <3>1. /\ Runs /\ drill.mode # "over" /\ ~drill.asking
          /\ Script[drill.kind][drill.at] = "revive"
      BY <2>1, AtPlaces
    <3>2. drill.kind = "worker" /\ drill.at = 6
      BY <2>1, <3>1, AtPlaces, Places
    <3>3. Placed(stack, drill, 6)
      BY <3>1, <3>2, NowKnown
    <3>4. QED
      BY <3>1, <3>2, <3>3 DEF Placed
  <2>2. CASE Undo /\ ~NeedsCancel(drill) /\ NeedsWorker(drill)
    BY <2>2 DEF Undo, NeedsWorker, NeedsCancel, Runs
  <2>3. QED
    BY <2>1, <2>2 DEF Revive
<1>3. /\ after \in Stacks /\ after.metastore = stack.metastore /\ after.catalog = stack.catalog
      /\ after.version = stack.version /\ after.worker = "new" /\ after.flight = stack.flight
  BY <1>2, NowKnown DEF Stacks
<1>4. d \in Drills /\ Like(d, drill) /\ ~d.required
  BY <1>2, NowKnown DEF Drills, Like
<1> HIDE DEF d, after
<1>5. Held(stack, drill) /\ Covered(stack, drill)
  BY <1>2, NowKnown
<1>6. Held(stack, d) /\ Held(after, d) /\ Covered(after, d) /\ (Runs => Placed(after, d, 7))
  BY <1>2, <1>3, <1>4, <1>5 DEF Held, Covered, Placed, Like, NeedsStart, NeedsRestore, NeedsTarget,
     NeedsWorker
<1>7. ~Needs(d)
  BY <1>2, <1>4 DEF Needs, Like, NeedsCancel, NeedsStart, NeedsRestore, NeedsTarget, NeedsWorker
<1>8. QED
  BY <1>1, <1>2, <1>3, <1>4, <1>6, <1>7, AttemptInv

LEMMA AwaitTimesOutInv == IInv /\ AwaitTimesOut => IInv'
<1> SUFFICES ASSUME IInv, AwaitTimesOut PROVE IInv'
  OBVIOUS
<1>1. /\ Runs /\ drill.mode # "over" /\ drill' = Raised(drill) /\ UNCHANGED <<trino, newest>>
      /\ stack' = stack /\ faults' = faults
  BY AtPlaces DEF AwaitTimesOut
<1>2. QED
  BY <1>1, NowKnown, QuietClient, RaisedInv

LEMMA CancelFlightInv == IInv /\ CancelFlight => IInv'
<1> SUFFICES ASSUME IInv, CancelFlight PROVE IInv'
  OBVIOUS
<1>1. /\ drill.mode = "undo" /\ drill.kind = "worker" /\ UNCHANGED <<trino, newest, faults>>
  BY DEF CancelFlight, Undo, NeedsCancel
<1>2. /\ stack \in Stacks /\ drill \in Drills /\ Held(stack, drill) /\ Covered(stack, drill)
      /\ drill.status \in {"none", "failed", "killed"} /\ ~drill.asking
  BY <1>1, NowKnown DEF IInv, SeenKnown, Drills, Rests, Runs
<1>3. /\ stack' \in Stacks /\ stack'.metastore = stack.metastore /\ stack'.catalog = stack.catalog
      /\ stack'.version = stack.version /\ stack'.worker = stack.worker
  BY <1>2 DEF CancelFlight, Stacks
<1>4. Held(stack', drill) /\ Covered(stack', drill)
  BY <1>2, <1>3 DEF Held, Covered
<1>5. /\ drill' \in Drills /\ Alike(drill', drill) /\ drill'.at = drill.at
      /\ drill'.mode \in {"undo", "over"} /\ drill'.status = drill.status /\ ~drill'.asking
      /\ drill'.mode = "over" /\ ~drill'.stuck => ~NeedsWorker(drill)
  <2>1. CASE drill' = [drill EXCEPT !.mode = "over", !.stuck = TRUE]
    BY <1>2, <2>1 DEF Drills, Alike
  <2>2. CASE drill' = [drill EXCEPT !.mode = IF NeedsWorker(drill) THEN "undo" ELSE "over"]
    BY <1>2, <2>2 DEF Drills, Alike
  <2>3. QED
    BY <2>1, <2>2 DEF CancelFlight
<1>6. drill'.mode = "over" /\ ~drill'.stuck =>
        ~(NeedsStart(drill) \/ NeedsRestore(drill) \/ NeedsTarget(drill) \/ NeedsWorker(drill))
  BY <1>1, <1>5 DEF NeedsStart, NeedsRestore, NeedsTarget
<1>7. QED
  BY <1>1, <1>2, <1>3, <1>4, <1>5, <1>6, NowKnown, QuietClient, LeftInv

\* What a drill remembers while it asks, or goes on after it.
LEMMA StartAskInv == IInv /\ StartAsk => IInv'
<1> SUFFICES ASSUME IInv, StartAsk PROVE IInv'
  OBVIOUS
<1>1. /\ Runs /\ drill.mode # "over" /\ ~drill.asking /\ UNCHANGED <<newest, faults>>
      /\ stack' = stack
  BY AtPlaces DEF StartAsk
<1>2. CASE ~Members
  <2>1. drill' = Raised(drill) /\ UNCHANGED <<trino, newest>>
    BY <1>1, <1>2 DEF StartAsk
  <2>2. QED
    BY <1>1, <2>1, NowKnown, QuietClient, RaisedInv
<1>3. CASE Members
  <2>1. /\ drill' = [drill EXCEPT !.asking = TRUE]
        /\ Ask(drill.kind = "observe", drill.kind # "observe" \/ drill.seen = <<>>)
    BY <1>3 DEF StartAsk
  <2>2. /\ TrinoIInv' /\ server' = NoQuery /\ call'.pc = "send"
    BY <2>1, AskInv DEF IInv, Ask, Idle
  <2>3. /\ drill' \in Drills /\ drill'.kind = drill.kind /\ drill'.at = drill.at
        /\ drill'.mode = "run" /\ drill'.asking /\ drill'.required = drill.required
        /\ drill'.restored = drill.restored /\ drill'.stopped = drill.stopped
        /\ drill'.backup = drill.backup /\ drill'.seen = drill.seen
        /\ drill'.status = drill.status /\ drill'.wrote = drill.wrote /\ drill'.stuck = drill.stuck
    BY <1>1, <2>1, NowKnown DEF Drills, Runs
  <2>4. newest \in Nat /\ MaxSnap \in Nat /\ NoQuery.data = 0 /\ NoQuery.state = "none"
    BY <1>1, NowKnown DEF NoQuery
  <2>5. TypeOK'
    BY <1>1, <2>2, <2>3, <2>4 DEF IInv, TypeOK, TrinoIInv
  <2>6. FlagsCover' /\ OverWithoutFlags' /\ BackupIsNewest' /\ CommitsKept' /\ ReportIsTrue'
    BY <1>1, <2>3 DEF IInv, FlagsCover, OverWithoutFlags, BackupIsNewest, CommitsKept,
       ReportIsTrue, NeedsStart, NeedsRestore, NeedsTarget, NeedsWorker, Runs, SeenKnown
  <2>7. Rests'
    BY <2>2, <2>3 DEF Rests, Runs
  <2>8. FlagsPlaced'
    <3>1. drill.kind = "upgrade" /\ drill.at = 7 => stack.version = "target"
      BY <1>3 DEF Members, Expected
    <3>2. QED
      BY <1>1, <2>3, <3>1 DEF IInv, FlagsPlaced, Runs
  <2>9. SeenKnown'
    <3>1. Readings' = Readings
      BY <2>3 DEF Readings
    <3>2. QED
      BY <1>1, <2>2, <2>3, <2>4, <3>1 DEF IInv, SeenKnown, Runs
  <2>10. QED
    BY <2>2, <2>5, <2>6, <2>7, <2>8, <2>9 DEF IInv
<1>4. QED
  BY <1>2, <1>3

\* An answer that is taken, or not.
LEMMA AnsweredKnown ==
  ASSUME IInv, NEW step, Answered(step)
  PROVE  /\ TrinoIInv' /\ server' = NoQuery /\ call' = Idle /\ server'.data \in 0..newest
         /\ UNCHANGED <<stack, newest, faults>> /\ drill.asking /\ Runs /\ call.pc = "over"
         /\ drill.kind \in Kinds /\ drill.at \in DOMAIN Script[drill.kind] /\ drill \in Drills
         /\ Script[drill.kind][drill.at] = step /\ newest \in Nat
         /\ call.outcome \in {"result", "failed", "protocol", "transport"} => NoOwn'
<1>1. Closes
  BY DEF Answered, Closes
<1>2. newest \in Nat /\ NoQuery.data = 0
  BY BoundsAssumption DEF IInv, TypeOK, NoQuery
<1>3. call.pc = "over" /\ UNCHANGED reader
  BY DEF Answered
<1>4. call.outcome \in {"result", "failed", "protocol", "transport"} => NoOwn'
  BY <1>3 DEF NoOwn, Active, IInv, TrinoIInv, RequestsKnown, Waits, Asking
<1>5. TrinoIInv'
  BY <1>1, CloseInv DEF IInv
<1>6. QED
  BY <1>2, <1>4, <1>5 DEF Answered, IInv, TypeOK, Drills, Rests

\* A step of the script that an answer completes.
LEMMA TakenInv ==
  ASSUME IInv, NEW step \in {"ask", "refused"}, Answered(step),
         call.outcome \in {"result", "failed", "protocol", "transport"},
         NEW e \in Drills, e.kind = drill.kind, e.at = drill.at, e.mode = "run", ~e.asking,
         e.status = drill.status, e.wrote = drill.wrote, e.stuck = drill.stuck,
         Held(stack, e), Covered(stack, e), Placed(stack, e, drill.at + 1),
         Len(e.seen) = Behind[drill.kind][drill.at + 1],
         \A i \in DOMAIN e.seen : e.seen[i] <= newest,
         drill.wrote => /\ e.seen # <<>> /\ e.seen[1] < newest
                        /\ Len(e.seen) = Readings => e.seen[1] < e.seen[Readings],
         drill' = Advance(e)
  PROVE  IInv'
<1>1. /\ TrinoIInv' /\ server' = NoQuery /\ call' = Idle /\ server'.data \in 0..newest
      /\ UNCHANGED <<stack, newest, faults>> /\ Runs /\ NoOwn'
      /\ drill.kind \in Kinds /\ drill.at \in DOMAIN Script[drill.kind]
      /\ Script[drill.kind][drill.at] = step /\ newest \in Nat
  BY AnsweredKnown
<1>2. /\ drill' \in Drills /\ drill'.at = drill.at + 1 /\ drill'.mode = "run"
      /\ ~drill'.asking /\ drill'.status = drill.status /\ drill'.kind = drill.kind
      /\ drill'.seen = e.seen /\ drill'.wrote = drill.wrote /\ drill'.required = e.required
      /\ drill'.restored = e.restored /\ drill'.stopped = e.stopped /\ drill'.backup = e.backup
      /\ drill'.stuck = drill.stuck
  BY Becomes DEF Alike
<1>3. drill.at + 1 \in DOMAIN Script[drill.kind]
  BY <1>1, Places
<1>4. TypeOK'
  BY <1>1, <1>2, <1>3, BoundsAssumption DEF IInv, TypeOK, TrinoIInv
<1>5. FlagsCover' /\ OverWithoutFlags'
  BY <1>1, <1>2 DEF FlagsCover, OverWithoutFlags, Covered, NeedsStart, NeedsRestore,
     NeedsTarget, NeedsWorker
<1>6. BackupIsNewest' /\ CommitsKept'
  BY <1>1, <1>2 DEF BackupIsNewest, CommitsKept, Held
<1>7. Rests'
  BY <1>1, <1>2 DEF Rests, Runs, NoOwn
<1>8. FlagsPlaced'
  BY <1>1, <1>2 DEF FlagsPlaced, Placed, Runs
<1>9. SeenKnown'
  <2>1. Readings' = Readings /\ NoQuery.state = "none" /\ server'.data <= newest
    BY <1>1, <1>2 DEF Readings, NoQuery
  <2>2. drill.status = "none"
    BY <1>1 DEF IInv, SeenKnown
  <2>3. QED
    BY <1>1, <1>2, <2>1, <2>2 DEF SeenKnown, Runs
<1>10. ReportIsTrue'
  BY <1>1, <1>2 DEF ReportIsTrue, IInv, SeenKnown
<1>11. QED
  BY <1>1, <1>4, <1>5, <1>6, <1>7, <1>8, <1>9, <1>10 DEF IInv

\* An answer that raises.
LEMMA NotTakenInv ==
  ASSUME IInv, NEW step, Answered(step), drill' = Raised(drill) PROVE IInv'
<1>1. /\ TrinoIInv' /\ server'.data \in 0..newest /\ UNCHANGED newest /\ stack' = stack
      /\ faults' = faults /\ Runs /\ drill.mode # "over"
  BY AnsweredKnown DEF Runs
<1>2. QED
  BY <1>1, NowKnown, RaisedInv

LEMMA RefusedInv == IInv /\ Refused => IInv'
<1> SUFFICES ASSUME IInv, Refused PROVE IInv'
  OBVIOUS
<1>1. Answered("refused")
  BY DEF Refused
<1>2. CASE drill' = Raised(drill)
  BY <1>1, <1>2, NotTakenInv
<1>3. CASE /\ call.outcome \in {"failed", "protocol", "transport"}
           /\ drill' = Advance([drill EXCEPT !.asking = FALSE])
  <2> DEFINE e == [drill EXCEPT !.asking = FALSE]
  <2>1. /\ Runs /\ drill.mode # "over" /\ drill.mode = "run" /\ drill.kind \in Kinds
        /\ drill.at \in DOMAIN Script[drill.kind] /\ Script[drill.kind][drill.at] = "refused"
        /\ drill \in Drills
    BY <1>1, AnsweredKnown DEF Runs
  <2>2. /\ drill.kind = "outage" /\ drill.at = 5
        /\ Behind[drill.kind][drill.at + 1] = Behind[drill.kind][drill.at]
    BY <2>1, Places
  <2>3. /\ e \in Drills /\ e.kind = drill.kind /\ e.at = drill.at /\ e.mode = "run" /\ ~e.asking
        /\ e.status = drill.status /\ e.wrote = drill.wrote /\ e.stuck = drill.stuck
        /\ Alike(e, drill) /\ e.seen = drill.seen
    BY <2>1 DEF Drills, Alike
  <2>4. drill' = Advance(e)
    BY <1>3
  <2> HIDE DEF e
  <2>5. Held(stack, e) /\ Covered(stack, e)
    BY <2>1, <2>3, NowKnown DEF Held, Covered, Alike, NeedsStart, NeedsRestore, NeedsTarget,
       NeedsWorker
  <2>6. Placed(stack, e, drill.at + 1)
    BY <2>2, <2>3 DEF Placed
  <2>7. /\ Len(e.seen) = Behind[drill.kind][drill.at + 1]
        /\ \A i \in DOMAIN e.seen : e.seen[i] <= newest
    BY <2>1, <2>2, <2>3 DEF IInv, SeenKnown
  <2>8. Behind[drill.kind][drill.at] = 1
    BY <2>2 DEF Behind
  <2>9. drill.wrote => /\ e.seen # <<>> /\ e.seen[1] < newest
                       /\ Len(e.seen) = Readings => e.seen[1] < e.seen[Readings]
    <3>1. drill.seen # <<>>
      <4>1. Len(drill.seen) = 1 /\ drill.seen \in Seq(0..MaxSnap)
        BY <2>1, <2>8 DEF IInv, SeenKnown, Drills
      <4>2. \A seen : seen = <<>> => Len(seen) = 0
        OBVIOUS
      <4>3. Len(drill.seen) # 0
        BY <4>1
      <4>4. QED
        BY <4>2, <4>3
    <3>2. QED
      BY <2>1, <2>3, <3>1 DEF IInv, SeenKnown
  <2>10. QED
    BY <1>1, <1>3, <2>3, <2>4, <2>5, <2>6, <2>7, <2>9, TakenInv
<1>4. QED
  BY <1>2, <1>3 DEF Refused

\* One more reading.
LEMMA OneMoreSeen ==
  ASSUME NEW seen \in Seq(0..MaxSnap), NEW data \in 0..MaxSnap
  PROVE  LET more == Append(seen, data) IN
         /\ more \in Seq(0..MaxSnap) /\ Len(more) = Len(seen) + 1 /\ more # <<>>
         /\ more[Len(seen) + 1] = data /\ \A i \in 1..Len(seen) : more[i] = seen[i]
         /\ DOMAIN more = 1..Len(seen) + 1 /\ DOMAIN seen = 1..Len(seen) /\ Len(seen) \in Nat
         /\ seen = <<>> <=> Len(seen) = 0
  OBVIOUS

LEMMA LearnInv == IInv /\ Learn => IInv'
<1> SUFFICES ASSUME IInv, Learn PROVE IInv'
  OBVIOUS
<1>1. Answered("ask")
  BY DEF Learn
<1>2. CASE drill' = Raised(drill)
  BY <1>1, <1>2, NotTakenInv
<1> DEFINE more == Append(drill.seen, server.data)
           needed == drill.required /\ ~(drill.kind = "upgrade" /\ drill.at = 7)
           e == [drill EXCEPT !.asking = FALSE, !.seen = more, !.required = needed]
<1>3. CASE call.outcome = "result" /\ drill' = Advance(e)
  <2>1. /\ Runs /\ drill.mode # "over" /\ drill.mode = "run" /\ drill.kind \in Kinds /\ drill.asking
        /\ drill.at \in DOMAIN Script[drill.kind] /\ Script[drill.kind][drill.at] = "ask"
        /\ drill \in Drills /\ newest \in Nat
    BY <1>1, AnsweredKnown DEF Runs
  <2>2. server.state = "finished" /\ server.data <= newest /\ server.data \in 0..MaxSnap
    BY <1>3 DEF IInv, TrinoIInv, EndKnown, SeenKnown, TypeOK
  <2>3. /\ drill.seen \in Seq(0..MaxSnap) /\ Len(drill.seen) = Behind[drill.kind][drill.at]
        /\ \A i \in DOMAIN drill.seen : drill.seen[i] <= newest
    BY <2>1 DEF IInv, SeenKnown, Drills
  <2>4. /\ more \in Seq(0..MaxSnap) /\ Len(more) = Len(drill.seen) + 1 /\ more # <<>>
        /\ more[Len(drill.seen) + 1] = server.data
        /\ \A i \in 1..Len(drill.seen) : more[i] = drill.seen[i]
        /\ DOMAIN more = 1..Len(drill.seen) + 1 /\ DOMAIN drill.seen = 1..Len(drill.seen)
        /\ Len(drill.seen) \in Nat /\ (drill.seen = <<>> <=> Len(drill.seen) = 0)
    BY <2>2, <2>3, OneMoreSeen
  <2> HIDE DEF more
  <2>5. /\ Behind[drill.kind][drill.at + 1] = Behind[drill.kind][drill.at] + 1
        /\ \/ (drill.kind = "outage" /\ drill.at \in {2, 8})
           \/ (drill.kind = "loss" /\ drill.at \in {2, 11})
           \/ (drill.kind = "upgrade" /\ drill.at \in {1, 3, 5, 7})
           \/ (drill.kind = "worker" /\ drill.at \in {1, 5, 7})
           \/ (drill.kind = "observe" /\ drill.at \in {1, 2})
    BY <2>1, Places
  <2>6. needed \in BOOLEAN /\ (drill.kind # "upgrade" => needed = drill.required)
        /\ (drill.kind = "upgrade" => (needed <=> drill.at # 7))
    <3>1. drill.required \in BOOLEAN
      BY <2>1 DEF Drills
    <3>2. drill.kind = "upgrade" => drill.required
      BY <2>1, <2>5, NowKnown DEF Placed
    <3>3. QED
      BY <3>1, <3>2
  <2> HIDE DEF needed
  <2>7. /\ e \in Drills /\ e.kind = drill.kind /\ e.at = drill.at /\ e.mode = "run" /\ ~e.asking
        /\ e.status = drill.status /\ e.wrote = drill.wrote /\ e.stuck = drill.stuck
        /\ e.seen = more /\ e.required = needed /\ e.restored = drill.restored
        /\ e.stopped = drill.stopped /\ e.backup = drill.backup
    BY <2>1, <2>4, <2>6 DEF Drills
  <2> HIDE DEF e
  <2>8. Held(stack, drill) /\ Covered(stack, drill) /\ Placed(stack, drill, drill.at)
    BY <2>1, NowKnown
  <2>9. Held(stack, e)
    BY <2>6, <2>7, <2>8 DEF Held
  <2>10. Covered(stack, e)
    <3>1. drill.kind = "upgrade" /\ drill.at = 7 => stack.version = "target"
      BY <2>1 DEF IInv, FlagsPlaced
    <3>2. QED
      BY <2>6, <2>7, <2>8, <3>1 DEF Covered, NeedsStart, NeedsRestore, NeedsTarget, NeedsWorker
  <2>11. Placed(stack, e, drill.at + 1)
    <3>1. CASE drill.kind = "outage"
      BY <2>5, <2>6, <2>7, <2>8, <3>1 DEF Placed
    <3>2. CASE drill.kind = "loss"
      BY <2>5, <2>6, <2>7, <2>8, <3>2 DEF Placed
    <3>3. CASE drill.kind = "upgrade"
      BY <2>5, <2>6, <2>7, <2>8, <3>3 DEF Placed
    <3>4. CASE drill.kind = "worker"
      BY <2>5, <2>6, <2>7, <2>8, <3>4 DEF Placed
    <3>5. CASE drill.kind = "observe"
      BY <2>7, <3>5 DEF Placed
    <3>6. QED
      BY <2>5, <3>1, <3>2, <3>3, <3>4, <3>5
  <2>12. Len(e.seen) = Behind[drill.kind][drill.at + 1]
    BY <2>3, <2>4, <2>5, <2>7
  <2>13. \A i \in DOMAIN e.seen : e.seen[i] <= newest
    <3>1. TAKE i \in DOMAIN e.seen
    <3>2. i \in 1..Len(drill.seen) \/ i = Len(drill.seen) + 1
      BY <2>4, <2>7
    <3>3. QED
      BY <2>2, <2>3, <2>4, <2>7, <3>2
  <2>14. drill.wrote => /\ e.seen # <<>> /\ e.seen[1] < newest
                        /\ Len(e.seen) = Readings => e.seen[1] < e.seen[Readings]
    <3>1. HAVE drill.wrote
    <3>2. Readings \in Nat /\ Readings >= 2
      BY <2>1, ReadingsKnown
    <3>3. CASE drill.seen = <<>>
      <4>1. server.data < newest
        BY <2>1, <2>2, <3>1, <3>3 DEF IInv, SeenKnown
      <4>2. Len(drill.seen) = 0
        BY <2>4, <3>3
      <4>3. e.seen[1] = server.data /\ Len(e.seen) = 1
        BY <2>4, <2>7, <4>2
      <4>4. Len(e.seen) # Readings
        BY <3>2, <4>3
      <4>5. e.seen # <<>> /\ e.seen[1] < newest
        BY <2>4, <2>7, <4>1, <4>3
      <4>6. QED
        BY <4>4, <4>5
    <3>4. CASE drill.seen # <<>>
      <4>1. /\ drill.seen[1] < newest
            /\ Len(drill.seen) = Readings - 1 => drill.seen[1] < server.data
        BY <2>1, <2>2, <3>1, <3>4 DEF IInv, SeenKnown
      <4>2. e.seen[1] = drill.seen[1] /\ Len(drill.seen) >= 1
        BY <2>4, <2>7, <3>4
      <4>3. ASSUME Len(e.seen) = Readings PROVE e.seen[1] < e.seen[Readings]
        <5>1. Len(drill.seen) = Readings - 1 /\ e.seen[Readings] = server.data
          BY <2>4, <2>7, <3>2, <4>3
        <5>2. QED
          BY <4>1, <4>2, <5>1
      <4>4. QED
        BY <2>4, <2>7, <4>1, <4>2, <4>3
    <3>5. QED
      BY <3>3, <3>4
  <2>15. QED
    BY <1>1, <1>3, <2>7, <2>9, <2>10, <2>11, <2>12, <2>13, <2>14, TakenInv
<1>4. QED
  BY <1>2, <1>3 DEF Learn

\* The flags and the readings at the end of a script.
LEMMA ReportInv == IInv /\ Report => IInv'
<1> SUFFICES ASSUME IInv, Report PROVE IInv'
  OBVIOUS
<1>1. /\ Runs /\ drill.mode # "over" /\ ~drill.asking /\ UNCHANGED <<trino, newest, stack, faults>>
      /\ drill.kind \in Kinds /\ drill.at \in DOMAIN Script[drill.kind]
      /\ Script[drill.kind][drill.at] = "report"
      /\ drill' = [drill EXCEPT !.mode = "over",
                                !.status = IF Accepted THEN "recovered" ELSE "failed"]
  BY AtPlaces DEF Report
<1>2. /\ stack \in Stacks /\ drill \in Drills /\ Held(stack, drill) /\ Covered(stack, drill)
      /\ Placed(stack, drill, drill.at) /\ faults \in 0..MaxFaults
  BY <1>1, NowKnown
<1>3. \/ (drill.kind = "outage" /\ drill.at = 9) \/ (drill.kind = "loss" /\ drill.at = 12)
      \/ (drill.kind = "upgrade" /\ drill.at = 8) \/ (drill.kind = "worker" /\ drill.at = 8)
      \/ (drill.kind = "observe" /\ drill.at = 3)
  BY <1>1, Places
<1>4. ~(NeedsStart(drill) \/ NeedsRestore(drill) \/ NeedsTarget(drill) \/ NeedsWorker(drill))
  BY <1>2, <1>3 DEF Placed, NeedsStart, NeedsRestore, NeedsTarget, NeedsWorker
<1>5. /\ drill' \in Drills /\ Alike(drill', drill) /\ drill'.at = drill.at /\ drill'.mode = "over"
      /\ ~drill'.asking /\ drill'.stuck = drill.stuck
      /\ drill'.status = (IF Accepted THEN "recovered" ELSE "failed")
  BY <1>1, <1>2 DEF Drills, Alike
<1>6. Accepted => StoodStill
  <2>1. CASE drill.kind = "outage"
    BY <2>1 DEF Accepted, OutageAccepted
  <2>2. CASE drill.kind = "loss"
    BY <2>2 DEF Accepted, LossAccepted
  <2>3. CASE drill.kind = "upgrade"
    BY <2>3 DEF Accepted, UpgradeAccepted
  <2>4. CASE drill.kind = "worker"
    BY <2>4 DEF Accepted, WorkerAccepted
  <2>5. CASE drill.kind = "observe"
    BY <2>5 DEF Accepted, ObservationAccepted
  <2>6. QED
    BY <1>3, <2>1, <2>2, <2>3, <2>4, <2>5
<1>7. StoodStill => ~drill.wrote
  <2>1. SUFFICES ASSUME StoodStill, drill.wrote PROVE FALSE
    OBVIOUS
  <2>2. /\ Readings \in Nat /\ Readings >= 2 /\ Len(drill.seen) = Readings
        /\ drill.seen \in Seq(0..MaxSnap)
    BY <1>1, <1>2, ReadingsKnown DEF IInv, SeenKnown, Drills
  <2>3. drill.seen # <<>>
    <3>1. \A seen : seen = <<>> => Len(seen) = 0
      OBVIOUS
    <3>2. QED
      BY <2>2, <3>1
  <2>4. drill.seen[1] < drill.seen[Readings]
    BY <1>1, <2>1, <2>2, <2>3 DEF IInv, SeenKnown
  <2>5. 1 \in DOMAIN drill.seen /\ Readings \in DOMAIN drill.seen
    BY <2>2
  <2>6. drill.seen[Readings] = drill.seen[1]
    BY <2>1, <2>5 DEF StoodStill
  <2>7. drill.seen[1] \in Nat
    <3>1. ASSUME NEW S, NEW seen \in Seq(S), NEW i \in 1..Len(seen) PROVE seen[i] \in S
      OBVIOUS
    <3>2. 1 \in 1..Len(drill.seen)
      BY <2>2
    <3>3. drill.seen[1] \in 0..MaxSnap
      BY <2>2, <3>1, <3>2
    <3>4. QED
      BY <3>3
  <2>8. QED
    BY <2>4, <2>6, <2>7
<1>8. /\ drill.kind = "outage" => stack.metastore
      /\ drill.kind = "loss" => stack.metastore /\ drill.backup # Lost
  BY <1>2, <1>3, <1>4 DEF Covered, Held, Placed, NeedsStart
<1>9. drill'.status = "recovered" => ReportIsTrue'
  BY <1>1, <1>5, <1>6, <1>7, <1>8 DEF ReportIsTrue, Alike
<1>10. Held(stack', drill) /\ Covered(stack', drill) /\ stack' \in Stacks /\ faults' \in 0..MaxFaults
  BY <1>1, <1>2
<1>11. QED
  BY <1>1, <1>2, <1>4, <1>5, <1>9, <1>10, QuietClient, LeftInv

-----------------------------------------------------------------------------
(* What the stack does meanwhile.                                          *)

\* Only the drill itself takes something away.
LEMMA StackInv ==
  ASSUME IInv, UNCHANGED <<trino, newest, drill>>, faults' \in 0..MaxFaults, stack' \in Stacks,
         stack'.metastore = stack.metastore, stack'.catalog = stack.catalog,
         stack'.worker = stack.worker, stack'.version \in {stack.version, "target"},
         stack.flight # "running" => stack'.flight # "running"
  PROVE  IInv'
<1>1. TrinoIInv' /\ UNCHANGED <<call, reader, server, newest, drill>>
  BY QuietClient
<1>2. TypeOK'
  BY <1>1 DEF IInv, TypeOK, TrinoIInv
<1>3. FlagsCover' /\ OverWithoutFlags' /\ BackupIsNewest' /\ CommitsKept' /\ ReportIsTrue'
  BY <1>1 DEF IInv, FlagsCover, OverWithoutFlags, BackupIsNewest, CommitsKept, ReportIsTrue,
     NeedsStart, NeedsRestore, NeedsTarget, NeedsWorker
<1>4. Rests'
  BY <1>1 DEF IInv, Rests, Runs, Active
<1>5. FlagsPlaced'
  BY <1>1 DEF IInv, FlagsPlaced, Runs
<1>6. SeenKnown'
  BY <1>1 DEF IInv, SeenKnown, Runs, Readings
<1>7. QED
  BY <1>1, <1>2, <1>3, <1>4, <1>5, <1>6 DEF IInv

LEMMA FlightEndsInv == IInv /\ FlightEnds => IInv'
<1> SUFFICES ASSUME IInv, FlightEnds PROVE IInv'
  OBVIOUS
<1>1. stack \in Stacks /\ faults \in 0..MaxFaults
  BY DEF IInv, TypeOK
<1>2. PICK end \in {"failed", "finished"} : stack' = [stack EXCEPT !.flight = end]
  BY DEF FlightEnds
<1>3. /\ stack' \in Stacks /\ stack'.metastore = stack.metastore /\ stack'.catalog = stack.catalog
      /\ stack'.worker = stack.worker /\ stack'.version = stack.version /\ stack'.flight = end
  BY <1>1, <1>2 DEF Stacks
<1>4. QED
  BY <1>1, <1>3, StackInv DEF FlightEnds

LEMMA RecreateInv == IInv /\ Recreate => IInv'
<1> SUFFICES ASSUME IInv, Recreate PROVE IInv'
  OBVIOUS
<1>1. stack \in Stacks /\ faults' \in 0..MaxFaults /\ stack.database + 1 \in Nat \ {0}
  BY BoundsAssumption DEF IInv, TypeOK, Recreate, Stacks
<1>2. /\ stack' \in Stacks /\ stack'.metastore = stack.metastore /\ stack'.catalog = stack.catalog
      /\ stack'.worker = stack.worker /\ stack'.version \in {stack.version, "target"}
      /\ stack'.flight = stack.flight
  BY <1>1 DEF Recreate, Stacks
<1>3. QED
  BY <1>1, <1>2, StackInv DEF Recreate

\* Without finally clauses nothing is promised.
LEMMA KillInv == IInv /\ Kill => IInv'
<1> SUFFICES ASSUME IInv, Kill PROVE IInv'
  OBVIOUS
<1>1. /\ drill.mode # "over" /\ faults < MaxFaults /\ faults' = faults + 1 /\ Closes
      /\ drill' = [drill EXCEPT !.mode = "over", !.asking = FALSE, !.status = "killed"]
      /\ stack' = stack /\ newest' = newest /\ server' = NoQuery
  BY DEF Kill, Closes
<1>2. /\ stack \in Stacks /\ drill \in Drills /\ Held(stack, drill) /\ faults' \in 0..MaxFaults
      /\ newest \in Nat
  BY <1>1, NowKnown
<1>3. TrinoIInv' /\ server'.data \in 0..newest
  BY <1>1, <1>2, CloseInv DEF IInv, NoQuery
<1>4. /\ drill' \in Drills /\ Alike(drill', drill) /\ drill'.at = drill.at /\ drill'.mode = "over"
      /\ ~drill'.asking /\ drill'.status = "killed"
  BY <1>1, <1>2 DEF Drills, Alike
<1>5. QED
  BY <1>1, <1>2, <1>3, <1>4, LeftInv

\* A commit is of the newest snapshot, and later than what has been read.
LEMMA WriteInv == IInv /\ Write => IInv'
<1> SUFFICES ASSUME IInv, Write PROVE IInv'
  OBVIOUS
<1> DEFINE w == drill.wrote \/ ReadSoFar \in 1..Readings - 1
<1>1. /\ stack.metastore /\ stack.catalog # Lost /\ newest < MaxSnap /\ drill.mode # "over"
      /\ newest' = newest + 1 /\ stack' = [stack EXCEPT !.catalog = newest + 1]
      /\ drill' = [drill EXCEPT !.wrote = w] /\ UNCHANGED <<trino, faults>>
  BY DEF Write
<1>2. /\ stack \in Stacks /\ drill \in Drills /\ newest \in 1..MaxSnap /\ MaxSnap \in Nat
      /\ newest + 1 \in 1..MaxSnap /\ newest + 1 # Lost /\ newest + 1 \in 0..MaxSnap
  BY <1>1, NowKnown DEF Lost
<1>3. /\ stack' \in Stacks /\ stack'.metastore = stack.metastore /\ stack'.catalog = newest + 1
      /\ stack'.worker = stack.worker /\ stack'.version = stack.version
      /\ stack'.flight = stack.flight
  BY <1>1, <1>2 DEF Stacks
<1>4. w \in BOOLEAN /\ (w => drill.wrote \/ ReadSoFar \in 1..Readings - 1)
  BY <1>2 DEF Drills
<1> HIDE DEF w
<1>5. /\ drill' \in Drills /\ drill'.kind = drill.kind /\ drill'.at = drill.at
      /\ drill'.mode = drill.mode /\ drill'.asking = drill.asking
      /\ drill'.required = drill.required /\ drill'.restored = drill.restored
      /\ drill'.stopped = drill.stopped /\ drill'.backup = drill.backup
      /\ drill'.seen = drill.seen /\ drill'.status = drill.status /\ drill'.wrote = w
      /\ drill'.stuck = drill.stuck
  BY <1>1, <1>2, <1>4 DEF Drills
<1>6. TrinoIInv' /\ call' = call /\ reader' = reader /\ server' = server
  BY <1>1, StutterInv DEF IInv, trino
<1>7. TypeOK'
  BY <1>1, <1>2, <1>3, <1>5, <1>6 DEF IInv, TypeOK, TrinoIInv
<1>8. FlagsCover' /\ OverWithoutFlags'
  BY <1>1, <1>2, <1>3, <1>5 DEF IInv, FlagsCover, OverWithoutFlags, NeedsStart, NeedsRestore,
     NeedsTarget, NeedsWorker
<1>9. BackupIsNewest' /\ CommitsKept'
  BY <1>1, <1>3, <1>5 DEF IInv, BackupIsNewest, CommitsKept
<1>10. Rests'
  BY <1>5, <1>6 DEF IInv, Rests, Runs, Active
<1>11. FlagsPlaced'
  BY <1>3, <1>5 DEF IInv, FlagsPlaced, Runs
<1>12. SeenKnown'
  <2>1. /\ \A i \in DOMAIN drill.seen : drill.seen[i] <= newest /\ drill.seen[i] \in Nat
        /\ server.data <= newest /\ server.data \in Nat
    <3>1. ASSUME NEW S, NEW seen \in Seq(S), NEW i \in DOMAIN seen PROVE seen[i] \in S
      OBVIOUS
    <3>2. drill.seen \in Seq(0..MaxSnap)
      BY <1>2 DEF Drills
    <3>3. \A i \in DOMAIN drill.seen : drill.seen[i] \in 0..MaxSnap
      BY <3>1, <3>2
    <3>4. QED
      BY <1>2, <3>3 DEF IInv, SeenKnown, TypeOK
  <2>2. Readings' = Readings /\ (Runs' <=> Runs)
    BY <1>5 DEF Readings, Runs
  <2>3. ASSUME Runs, w
        PROVE  IF drill.seen = <<>>
               THEN /\ drill.asking /\ server.state \in {"finished", "failed", "cancelled"}
                    /\ server.state = "finished" => server.data < newest + 1
               ELSE /\ drill.seen[1] < newest + 1
                    /\ Len(drill.seen) = Readings => drill.seen[1] < drill.seen[Readings]
                    /\ Len(drill.seen) = Readings - 1 /\ server.state = "finished" =>
                         drill.seen[1] < server.data
    <3>1. Readings \in Nat /\ Readings >= 2
      BY <1>1, NowKnown, ReadingsKnown
    <3>2. CASE drill.wrote
      BY <1>2, <2>1, <2>3, <3>2 DEF IInv, SeenKnown
    <3>3. CASE ReadSoFar \in 1..Readings - 1 /\ drill.seen = <<>>
      <4>1. Len(drill.seen) = 0
        BY <3>3
      <4>2. server.state = "finished"
        BY <3>3, <4>1 DEF ReadSoFar
      <4>3. drill.asking
        BY <2>3, <4>2 DEF IInv, Rests, NoQuery
      <4>4. QED
        BY <1>2, <2>1, <3>3, <4>2, <4>3
    <3>4. CASE ReadSoFar \in 1..Readings - 1 /\ drill.seen # <<>>
      <4>1. Len(drill.seen) \in Nat /\ 1 \in DOMAIN drill.seen
        BY <1>2, <3>4 DEF Drills
      <4>2. /\ Len(drill.seen) # Readings
            /\ ~(Len(drill.seen) = Readings - 1 /\ server.state = "finished")
        <5>1. CASE server.state = "finished"
          <6>1. ReadSoFar = Len(drill.seen) + 1
            BY <5>1 DEF ReadSoFar
          <6>2. QED
            BY <3>1, <3>4, <4>1, <6>1
        <5>2. CASE server.state # "finished"
          <6>1. ReadSoFar = Len(drill.seen) + 0
            BY <5>2 DEF ReadSoFar
          <6>2. QED
            BY <3>1, <3>4, <4>1, <5>2, <6>1
        <5>3. QED
          BY <5>1, <5>2
      <4>3. drill.seen[1] < newest + 1
        BY <1>2, <2>1, <4>1
      <4>4. QED
        BY <3>4, <4>2, <4>3
    <3>5. QED
      BY <1>4, <2>3, <3>2, <3>3, <3>4
  <2>4. /\ \A i \in DOMAIN drill'.seen : drill'.seen[i] <= newest'
        /\ server'.data <= newest'
    BY <1>1, <1>2, <1>5, <1>6, <2>1
  <2>5. /\ Runs => Len(drill.seen) = Behind[drill.kind][drill.at] /\ drill.status = "none"
        /\ drill.status = "recovered" => drill.mode = "over"
    BY DEF IInv, SeenKnown
  <2>6. QED
    BY <1>1, <1>5, <1>6, <2>2, <2>3, <2>4, <2>5 DEF SeenKnown
<1>13. ReportIsTrue'
  BY <1>1, <1>5 DEF IInv, ReportIsTrue, SeenKnown
<1>14. QED
  BY <1>6, <1>7, <1>8, <1>9, <1>10, <1>11, <1>12, <1>13 DEF IInv

-----------------------------------------------------------------------------
(* What the client does meanwhile.                                         *)

\* What a query has read, and that it has ended, does not change.
Keeps ==
  /\ server'.data = server.data
  /\ server'.state = "finished" => server.state = "finished"
  /\ call.pc # "idle" =>
       /\ call'.pc # "idle"
       /\ server.state \in {"finished", "failed", "cancelled"} =>
            server'.state \in {"finished", "failed", "cancelled"}
  /\ call = Idle /\ server = NoQuery /\ NoOwn => call' = Idle /\ server' = NoQuery /\ NoOwn'

LEMMA ClientKeeps == ASSUME TrinoIInv, Proceed \/ Faulty \/ Fail PROVE Keeps
<1>1. Idle.pc = "idle" /\ NoQuery.state = "none"
  BY DEF Idle, NoQuery
<1>2. /\ server \in Queries /\ reader \in [Thread -> Readers]
      /\ \A i \in Thread : reader[i].op \in {"POST", "GET", "DELETE"}
  BY DEF TrinoIInv, TrinoTypeOK, Readers
<1>3. CASE Expire \/ Send \/ NoTime \/ GiveUp \/ Read \/ ThreadFails
  <2>1. Moves
    BY <1>3, ExpireInv, SendInv, NoTimeInv, GiveUpInv, ReadInv
  <2>2. UNCHANGED server /\ call.pc # "idle"
    BY <1>3 DEF Expire, Send, NoTime, GiveUp, Read, ThreadFails
  <2>3. QED
    BY <1>1, <2>1, <2>2 DEF Keeps, Moves
<1>4. ASSUME NEW i \in Thread, Deliver(i) PROVE Keeps
  <2>1. UNCHANGED server /\ call.pc # "idle" /\ Moves
    BY <1>4, DeliverInv DEF Deliver, Waits
  <2>2. QED
    BY <1>1, <2>1 DEF Keeps, Moves
<1>5. ASSUME NEW i \in Thread, Stop(i) \/ Break(i) PROVE Keeps
  <2>1. UNCHANGED server /\ Moves /\ (call.pc = "idle" => UNCHANGED call)
    BY <1>5, StopInv DEF Stop, Break, Waits
  <2>2. NoOwn => NoOwn'
    <3>1. reader' = [reader EXCEPT ![i].stage = "closing"]
      BY <1>5 DEF Stop, Break
    <3>2. \A j \in Thread : Active(j)' => reader'[j] = reader[j]
      BY <1>2, <3>1 DEF Active, Readers
    <3>3. QED
      BY <3>2 DEF NoOwn, Active
  <2>3. QED
    BY <1>1, <2>1, <2>2 DEF Keeps, Moves
<1>6. ASSUME NEW i \in Thread, Release(i) PROVE Keeps
  <2>1. UNCHANGED <<call, server>> /\ reader' = [reader EXCEPT ![i] = Free]
    BY <1>6 DEF Release
  <2>2. NoOwn => NoOwn'
    <3>1. \A j \in Thread : Active(j)' => reader'[j] = reader[j]
      BY <1>2, <2>1 DEF Active, Free
    <3>2. QED
      BY <3>1 DEF NoOwn, Active
  <2>3. QED
    BY <2>1, <2>2 DEF Keeps
<1>7. ASSUME NEW i \in Thread, Arrive(i) \/ Spoil(i) PROVE Keeps
  <2>1. /\ reader[i].stage = "started" /\ Active(i) /\ UNCHANGED call
        /\ reader'[i].own = reader[i].own
        /\ \A j \in Thread \ {i} : reader'[j] = reader[j]
        /\ UNCHANGED server \/ server' = Served(reader[i].op)
    BY <1>2, <1>7 DEF Arrive, Spoil, Active, Readers
  <2>2. ~reader[i].own => UNCHANGED server
    <3>1. CASE Arrive(i)
      BY <3>1 DEF Arrive
    <3>2. CASE Spoil(i)
      BY <2>1, <3>2 DEF Spoil, TrinoIInv, RequestsKnown, Waits
    <3>3. QED
      BY <1>7, <3>1, <3>2
  <2>3. NoOwn => NoOwn' /\ UNCHANGED server
    BY <2>1, <2>2 DEF NoOwn, Active
  <2>4. CASE UNCHANGED server
    BY <2>1, <2>3, <2>4 DEF Keeps
  <2>5. CASE reader[i].own /\ server' = Served(reader[i].op)
    <3>1. reader[i].op = "POST" => call.pc = "idle" \/ server.state = "none"
      BY <2>1, <2>5 DEF TrinoIInv, RequestsKnown
    <3>2. /\ server'.data = server.data
          /\ server'.state \in {server.state, "running", "cancelled"}
          /\ server'.state = "running" => server.state = "running" \/ reader[i].op = "POST"
      BY <1>2, <2>5, ServedQuery
    <3>3. QED
      BY <1>1, <2>1, <2>3, <3>1, <3>2 DEF Keeps
  <2>6. QED
    BY <2>1, <2>2, <2>4, <2>5
<1>8. CASE Fail
  <2>1. /\ UNCHANGED <<call, reader>> /\ server' = [server EXCEPT !.state = "failed"]
        /\ server.state \in {"running", "finished"}
    BY <1>8 DEF Fail
  <2>2. server'.state = "failed" /\ server'.data = server.data
    BY <1>2, <2>1 DEF Queries
  <2>3. QED
    BY <1>1, <2>1, <2>2 DEF Keeps
<1>9. QED
  BY <1>3, <1>4, <1>5, <1>6, <1>7, <1>8 DEF Proceed, Faulty

\* A drill while its query goes on.
LEMMA MeanwhileInv ==
  ASSUME IInv, TrinoIInv', UNCHANGED <<stack, newest, drill>>, faults' \in 0..MaxFaults,
         server'.data \in 0..newest, Rests',
         Runs /\ drill.wrote =>
           IF drill.seen = <<>>
           THEN /\ server'.state \in {"finished", "failed", "cancelled"}
                /\ server'.state = "finished" => server'.data < newest
           ELSE Len(drill.seen) = Readings - 1 /\ server'.state = "finished" =>
                  drill.seen[1] < server'.data
  PROVE  IInv'
<1>1. TypeOK'
  BY BoundsAssumption DEF IInv, TypeOK, TrinoIInv
<1>2. FlagsCover' /\ OverWithoutFlags' /\ BackupIsNewest' /\ CommitsKept' /\ ReportIsTrue'
  BY DEF IInv, FlagsCover, OverWithoutFlags, BackupIsNewest, CommitsKept, ReportIsTrue,
     NeedsStart, NeedsRestore, NeedsTarget, NeedsWorker
<1>3. FlagsPlaced'
  BY DEF IInv, FlagsPlaced, Runs
<1>4. SeenKnown'
  <2>1. Readings' = Readings /\ (Runs' <=> Runs) /\ server'.data <= newest
    BY BoundsAssumption DEF Readings, Runs, IInv, TypeOK
  <2>2. QED
    BY <2>1 DEF IInv, SeenKnown
<1>5. QED
  BY <1>1, <1>2, <1>3, <1>4 DEF IInv

LEMMA ClientStepInv == IInv /\ (Client \/ ClientFault) => IInv'
<1> SUFFICES ASSUME IInv, Client \/ ClientFault PROVE IInv'
  OBVIOUS
<1>1. /\ Proceed \/ Faulty \/ Fail
      /\ UNCHANGED <<stack, newest, drill>> /\ faults' \in 0..MaxFaults
  BY BoundsAssumption DEF Client, ClientFault, IInv, TypeOK
<1>2. TrinoIInv' /\ Keeps
  BY <1>1, ClientInv, ClientKeeps DEF IInv
<1>3. server'.data \in 0..newest
  BY <1>2, BoundsAssumption DEF Keeps, IInv, TypeOK, SeenKnown
<1>4. Rests'
  BY <1>1, <1>2 DEF IInv, Rests, Runs, Keeps, NoOwn
<1>5. Runs /\ drill.wrote =>
        IF drill.seen = <<>>
        THEN /\ server'.state \in {"finished", "failed", "cancelled"}
             /\ server'.state = "finished" => server'.data < newest
        ELSE Len(drill.seen) = Readings - 1 /\ server'.state = "finished" =>
               drill.seen[1] < server'.data
  BY <1>2 DEF IInv, SeenKnown, Rests, Keeps
<1>6. QED
  BY <1>1, <1>2, <1>3, <1>4, <1>5, MeanwhileInv

\* What a query reads is the newest snapshot of the moment.
LEMMA ServeInv == IInv /\ Serve => IInv'
<1> SUFFICES ASSUME IInv, Serve PROVE IInv'
  OBVIOUS
<1>1. /\ server.state = "running" /\ UNCHANGED <<stack, newest, drill, faults>>
      /\ UNCHANGED <<call, reader>>
      /\ (Readable /\ Execute(stack.catalog)) \/ Fail
  BY DEF Serve, Execute, Fail
<1>2. /\ stack \in Stacks /\ stack.catalog \in Nat /\ newest \in Nat /\ server \in Queries
      /\ server.data \in 0..newest /\ faults \in 0..MaxFaults
  BY BoundsAssumption DEF IInv, TypeOK, Stacks, SeenKnown, TrinoIInv, TrinoTypeOK
<1>3. TrinoIInv'
  BY <1>1, <1>2, ServerInv DEF IInv
<1>4. \/ server'.state = "finished" /\ server'.data = newest
      \/ server'.state = "failed" /\ server'.data = server.data
  BY <1>1, <1>2 DEF Execute, Fail, Readable, IInv, CommitsKept, Queries
<1>5. Rests'
  BY <1>1 DEF IInv, Rests, Runs, NoQuery
<1>6. Runs /\ drill.wrote => drill.seen # <<>> /\ drill.seen[1] < newest
  BY <1>1 DEF IInv, SeenKnown
<1>7. server'.data \in 0..newest
  BY <1>2, <1>4
<1>8. QED
  BY <1>1, <1>2, <1>3, <1>4, <1>5, <1>6, <1>7, MeanwhileInv

-----------------------------------------------------------------------------

LEMMA InitInv == Init => IInv
<1> SUFFICES ASSUME Init PROVE IInv
  OBVIOUS
<1>1. PICK kind \in Kinds : stack = InitStack(kind) /\ drill = InitDrill(kind)
  BY DEF Init
<1>2. /\ call = Idle /\ reader = [i \in Thread |-> Free] /\ server = NoQuery /\ newest = 1
      /\ faults = 0 /\ MaxSnap \in Nat \ {0} /\ MaxFaults \in Nat
  BY BoundsAssumption DEF Init, InitTrino
<1>3. /\ Idle.pc = "idle" /\ Idle.outcome = "none" /\ Idle.cancellation = "none"
      /\ NoQuery.state = "none" /\ NoQuery.data = 0 /\ \A i \in Thread : ~Active(i)
  BY <1>2 DEF Idle, NoQuery, Active, Free
<1>4. TrinoIInv
  <2>1. TrinoTypeOK
    BY <1>2, FreeType DEF TrinoTypeOK
  <2>2. RequestsKnown
    BY <1>2, <1>3 DEF RequestsKnown
  <2>3. CallKnown /\ EndKnown
    BY <1>2, <1>3 DEF CallKnown, EndKnown, Asking, Unanswered
  <2>4. QED
    BY <2>1, <2>2, <2>3 DEF TrinoIInv
<1>5. /\ stack \in Stacks /\ stack.metastore /\ stack.catalog = 1 /\ stack.worker = "up"
      /\ stack.version = (IF kind = "upgrade" THEN "source" ELSE "target")
      /\ stack.flight = "none"
  BY <1>1, <1>2 DEF InitStack, Stacks
<1>6. /\ drill \in Drills /\ drill.kind = kind /\ drill.at = 1 /\ drill.mode = "run"
      /\ ~drill.asking /\ (drill.required <=> kind = "upgrade") /\ ~drill.restored
      /\ ~drill.stopped /\ drill.seen = <<>> /\ drill.status = "none" /\ ~drill.wrote
  <2> DEFINE needed == kind = "upgrade"
  <2>1. needed \in BOOLEAN
    OBVIOUS
  <2>2. drill = [kind |-> kind, at |-> 1, mode |-> "run", asking |-> FALSE, required |-> needed,
                 restored |-> FALSE, stopped |-> FALSE, backup |-> Lost, seen |-> <<>>,
                 ids |-> {}, status |-> "none", wrote |-> FALSE, stuck |-> FALSE]
    BY <1>1, Zenon DEF InitDrill
  <2> HIDE DEF needed
  <2>3. <<>> \in Seq(0..MaxSnap) /\ {} \in SUBSET Nat
    OBVIOUS
  <2>4. /\ drill \in Drills /\ drill.kind = kind /\ drill.at = 1 /\ drill.mode = "run"
        /\ ~drill.asking /\ ~drill.restored /\ ~drill.stopped /\ drill.seen = <<>>
        /\ drill.status = "none" /\ ~drill.wrote
    BY <1>2, <2>1, <2>2, <2>3 DEF Drills, Lost
  <2>5. drill.required = needed
    BY <2>2
  <2>6. QED
    BY <2>4, <2>5 DEF needed
<1>7. /\ kind \in {"outage", "loss", "upgrade", "worker", "observe"}
      /\ 1 \in DOMAIN Script[kind] /\ Behind[kind][1] = 0
  BY KindsAssumption DEF Script, Behind, OutageSteps, LossSteps, UpgradeSteps, WorkerSteps,
     ObserveSteps
<1>8. TypeOK
  BY <1>2, <1>3, <1>4, <1>5, <1>6, <1>7 DEF TypeOK, TrinoIInv
<1>9. Rests
  BY <1>2, <1>3, <1>6 DEF Rests
<1>10. FlagsCover /\ OverWithoutFlags
  BY <1>5, <1>6 DEF FlagsCover, OverWithoutFlags, NeedsTarget, Lost
<1>11. FlagsPlaced
  BY <1>5, <1>6, <1>7 DEF FlagsPlaced
<1>12. BackupIsNewest /\ CommitsKept
  BY <1>2, <1>5, <1>6 DEF BackupIsNewest, CommitsKept
<1>13. SeenKnown
  <2>1. Len(drill.seen) = 0 /\ DOMAIN drill.seen = {}
    BY <1>6
  <2>2. QED
    BY <1>2, <1>3, <1>6, <1>7, <2>1 DEF SeenKnown
<1>14. ReportIsTrue
  BY <1>6 DEF ReportIsTrue
<1>15. QED
  BY <1>4, <1>8, <1>9, <1>10, <1>11, <1>12, <1>13, <1>14 DEF IInv

LEMMA NextInv == IInv /\ [Next]_vars => IInv'
<1> SUFFICES ASSUME IInv, [Next]_vars PROVE IInv'
  OBVIOUS
<1>1. CASE Step
  BY <1>1, LooksInv, StopMetastoreInv, BackUpInv, DropCatalogInv, RestoreInv, StartMetastoreInv,
     SwitchInv, SubmitInv, KillWorkerInv, AwaitTimesOutInv, CancelFlightInv, ReviveInv,
     StartAskInv, LearnInv, RefusedInv, ReportInv DEF Step
<1>2. CASE Write \/ FlightEnds \/ Recreate \/ Kill
  BY <1>2, WriteInv, FlightEndsInv, RecreateInv, KillInv
<1>3. CASE Serve \/ Client \/ ClientFault
  BY <1>3, ServeInv, ClientStepInv
<1>4. CASE UNCHANGED vars
  <2>1. UNCHANGED <<trino, newest, drill>> /\ faults' = faults /\ stack' = stack
    BY <1>4 DEF vars
  <2>2. stack \in Stacks /\ faults \in 0..MaxFaults
    BY DEF IInv, TypeOK
  <2>3. QED
    BY <2>1, <2>2, StackInv
<1>5. QED
  BY <1>1, <1>2, <1>3, <1>4 DEF Next

\* What the code keeps of the client, the drill and the stack at every step of any of them.
THEOREM Invariant == Spec => []IInv
  BY InitInv, NextInv, PTL DEF Spec

\* The variables keep their types.
THEOREM TypeCorrect == Spec => []TypeOK
<1>1. IInv => TypeOK
  BY DEF IInv
<1>2. QED
  BY <1>1, Invariant, PTL

\* A result of TrinoClient has every page of a query that finished, once and in order, for any
\* number of pages, whatever late, lost or spoilt answer there was before (_query_result).
THEOREM ResultWhole == Spec => []ResultIsWhole
<1>1. IInv => ResultIsWhole
  BY ClientEnds DEF IInv
<1>2. QED
  BY <1>1, Invariant, PTL

\* The caller knows of every query it leaves running (_cancel_query and its report).
THEOREM LeftReported == Spec => []LeftIsReported
<1>1. IInv => LeftIsReported
  BY ClientEnds DEF IInv
<1>2. QED
  BY <1>1, Invariant, PTL

\* No drill takes back a commit: the backup is of the newest snapshot for as long as it may be
\* restored (run_metadata_db_recovery).
THEOREM NoCommitLost == Spec => []CommitsKept
<1>1. IInv => CommitsKept
  BY DEF IInv
<1>2. QED
  BY <1>1, Invariant, PTL

\* What a drill takes away is back at its end, unless its last call raised or it was killed
\* (the finally clauses).
THEOREM BackAtTheEnd == Spec => []ServicesBack
<1>1. IInv => ServicesBack
  BY DEF IInv, FlagsCover, OverWithoutFlags, ServicesBack
<1>2. QED
  BY <1>1, Invariant, PTL

\* A drill that reports success has found every commit between its readings (the validators).
THEOREM SuccessIsTrue == Spec => []ReportIsTrue
<1>1. IInv => ReportIsTrue
  BY DEF IInv
<1>2. QED
  BY <1>1, Invariant, PTL

=============================================================================
