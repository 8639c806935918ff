---------------------------- MODULE TrinoClient ----------------------------
(***************************************************************************)
(* TrinoClient (trino.py): one query at a time over Trino's paging          *)
(* protocol. Without a query_timeout the caller sends its requests itself;  *)
(* with one, and for every cancellation, a reader thread sends the request  *)
(* while the caller waits until the deadline. A reader that its caller has  *)
(* given up keeps one of the client's two slots until it ends. The actions  *)
(* leave open what the coordinator answers: a module that extends this one  *)
(* says what a query reads.                                                 *)
(***************************************************************************)
EXTENDS Integers, Sequences

CONSTANTS
  Pages,      \* pages of rows in a result
  PageLimit   \* pages a client reads of a query; 1000 in the code

ASSUME PagesAssumption == Pages \in Nat \ {0} /\ PageLimit \in Nat \ {0}

VARIABLES
  call,    \* the query that is being asked
  reader,  \* the requests that have not ended, by slot; 0 is the caller's own
  server   \* the query as the coordinator knows it

trino == <<call, reader, server>>

Slot == 1..2
Thread == {0} \cup Slot

Nothing == [kind |-> "none", page |-> 0]
\* late: the deadline of the request has passed. told: the answer to it.
Idle == [pc |-> "idle", timed |-> FALSE, late |-> FALSE, op |-> "POST", by |-> 0,
         told |-> Nothing, uri |-> FALSE, pages |-> 0, rows |-> <<>>, why |-> "none",
         outcome |-> "none", cancellation |-> "none"]
\* given_up: its caller waits no longer. own: it is of the call of now.
Free == [stage |-> "free", op |-> "POST", own |-> FALSE, given_up |-> FALSE,
         answer |-> Nothing]
NoQuery == [state |-> "none", next |-> 1, data |-> 0]

InitTrino ==
  /\ call = Idle
  /\ reader = [i \in Thread |-> Free]
  /\ server = NoQuery

Outcomes == {"result", "failed", "protocol", "transport", "raised", "timeout", "page_limit"}

Answers ==
  [kind : {"none", "page", "rows", "last", "error", "ok", "bad"}, page : 0..Pages + 1]
Calls ==
  [pc : {"idle", "send", "wait", "read", "over"}, timed : BOOLEAN, late : BOOLEAN,
   op : {"POST", "GET", "DELETE"}, by : Thread, told : Answers, uri : BOOLEAN,
   pages : 0..PageLimit, rows : Seq(1..Pages), why : Outcomes \cup {"none"},
   outcome : Outcomes \cup {"none"},
   cancellation : {"none", "not_available", "accepted", "http", "transport_failed"}]
Readers ==
  [stage : {"free", "started", "served", "closing"}, op : {"POST", "GET", "DELETE"},
   own : BOOLEAN, given_up : BOOLEAN, answer : Answers]
Queries ==
  [state : {"none", "running", "finished", "failed", "cancelled"}, next : 1..Pages + 1, data : Nat]

TrinoTypeOK == call \in Calls /\ reader \in [Thread -> Readers] /\ server \in Queries

-----------------------------------------------------------------------------
(* The caller.                                                             *)

Over(c, outcome) == [c EXCEPT !.pc = "over", !.outcome = outcome]

\* _cancel_query: a DELETE with a deadline of its own, if a URI is known.
Cancel(c, why) ==
  IF c.uri THEN [c EXCEPT !.pc = "send", !.op = "DELETE", !.late = FALSE, !.why = why]
  ELSE [Over(c, why) EXCEPT !.cancellation = "not_available"]

\* What a request that met its deadline does to its call.
TimedOut(c) ==
  IF c.op = "DELETE" THEN [Over(c, c.why) EXCEPT !.cancellation = "transport_failed"]
  ELSE Cancel(c, "timeout")

\* What a broken connection does: no cancellation follows, and of one only httpx's own
\* errors are caught.
Broken(c) == IF c.op = "DELETE" THEN TimedOut(c) ELSE Over(c, "transport")

\* A new client, or another query of the same one: what its readers hold stays held.
Ask(timed, anew) ==
  /\ call.pc = "idle"
  /\ call' = [Idle EXCEPT !.pc = "send", !.timed = timed]
  /\ reader' = IF anew THEN [i \in Thread |-> Free]
               ELSE [i \in Thread |-> [reader[i] EXCEPT !.own = FALSE]]
  /\ server' = NoQuery

HasDeadline == call.timed \/ call.op = "DELETE"
Late == HasDeadline /\ call.late

Expire ==
  /\ call.pc \in {"send", "wait", "read"} /\ HasDeadline /\ ~call.late
  /\ call' = [call EXCEPT !.late = TRUE]
  /\ UNCHANGED <<reader, server>>

\* The request starts, on a free slot if it has a deadline.
Send ==
  /\ call.pc = "send" /\ ~call.late
  /\ \E i \in IF HasDeadline THEN Slot ELSE {0} :
       /\ reader[i].stage = "free"
       /\ i = 2 => reader[1].stage # "free"  \* the slots are alike
       /\ call' = [call EXCEPT !.pc = "wait", !.by = i]
       /\ reader' = [reader EXCEPT ![i] =
            [Free EXCEPT !.stage = "started", !.op = call.op, !.own = TRUE]]
  /\ UNCHANGED server

\* No slot came free in time, or the time is up between two requests.
NoTime ==
  /\ call.pc = "send" /\ call.late
  /\ call' = TimedOut(call)
  /\ UNCHANGED <<reader, server>>

\* The thread cannot be started: the slot is given back and the error raised.
ThreadFails ==
  /\ call.pc = "send" /\ ~call.late /\ HasDeadline
  /\ \E i \in Slot : reader[i].stage = "free"
  /\ call' = Over(call, "raised")
  /\ UNCHANGED <<reader, server>>

Waits(i) == call.pc = "wait" /\ call.by = i /\ ~reader[i].given_up

GiveUp ==
  /\ call.pc = "wait" /\ Late
  /\ call' = TimedOut(call)
  /\ reader' = [reader EXCEPT ![call.by].given_up = TRUE]
  /\ UNCHANGED server

\* Mutant: the end of the pages is looked for before an error.
MutReadPage(c) ==
  LET next == c.told.kind \in {"page", "rows"}
      read == [c EXCEPT !.pages = @ + 1, !.uri = next]
      kept == IF c.told.page > 0 THEN [read EXCEPT !.rows = Append(@, c.told.page)] ELSE read
  IN IF c.told.kind = "bad" THEN Over(c, "protocol")
     ELSE IF c.late THEN TimedOut(read)
     ELSE IF ~next THEN Over(kept, "result")
     ELSE IF kept.pages = PageLimit THEN Cancel(kept, "page_limit")
     ELSE [kept EXCEPT !.pc = "send", !.op = "GET"]

\* What a call makes of a page, in the order of the checks.
ReadPage(c) ==
  LET next == c.told.kind \in {"page", "rows"}
      read == [c EXCEPT !.pages = @ + 1, !.uri = next]
      kept == IF c.told.page > 0 THEN [read EXCEPT !.rows = Append(@, c.told.page)] ELSE read
  IN IF c.told.kind = "bad" THEN Over(c, "protocol")
     ELSE IF c.late THEN TimedOut(read)
     ELSE IF c.told.kind = "error" THEN Over(read, "failed")
     ELSE IF ~next THEN Over(kept, "result")
     ELSE IF kept.pages = PageLimit THEN Cancel(kept, "page_limit")
     ELSE [kept EXCEPT !.pc = "send", !.op = "GET"]

\* Mutant: a cancellation that the coordinator refuses counts as accepted.
MutCancelled(c) == [Over(c, c.why) EXCEPT !.cancellation = "accepted"]

Cancelled(c) ==
  [Over(c, c.why) EXCEPT !.cancellation = IF c.told.kind = "ok" THEN "accepted" ELSE "http"]

Read ==
  /\ call.pc = "read"
  /\ call' = IF call.op = "DELETE" THEN Cancelled(call) ELSE ReadPage(call)
  /\ UNCHANGED <<reader, server>>

-----------------------------------------------------------------------------
(* The requests, and the coordinator that serves them.                     *)

\* What the coordinator answers to a request, or a proxy or a restart in its place.
Answer(op) ==
  CASE op = "POST" -> [kind |-> "page", page |-> 0]
    [] op = "DELETE" -> [kind |-> "ok", page |-> 0]
    [] op = "GET" /\ server.state = "running" -> [kind |-> "page", page |-> 0]
    [] op = "GET" /\ server.state = "finished" ->
         [kind |-> IF server.next >= Pages THEN "last" ELSE "rows", page |-> server.next]
    [] OTHER -> [kind |-> "error", page |-> 0]

Served(op) ==
  CASE op = "POST" -> [server EXCEPT !.state = "running"]
    [] op = "DELETE" -> [server EXCEPT !.state = "cancelled"]
    [] op = "GET" /\ server.state = "finished" /\ server.next <= Pages ->
         [server EXCEPT !.next = @ + 1]
    [] OTHER -> server

\* A request of an earlier call reaches a query that nobody reads.
Arrive(i) ==
  /\ reader[i].stage = "started"
  /\ reader' = [reader EXCEPT ![i].stage = "served", ![i].answer = Answer(reader[i].op)]
  /\ server' = IF reader[i].own THEN Served(reader[i].op) ELSE server
  /\ UNCHANGED call

\* HTTP 5xx, no JSON, or a page that is none of this query: with the effect or without.
Spoil(i) ==
  /\ reader[i].stage = "started" /\ ~reader[i].given_up
  /\ reader' = [reader EXCEPT ![i].stage = "served", ![i].answer.kind = "bad"]
  /\ server' \in {server, Served(reader[i].op)}
  /\ UNCHANGED call

\* The whole answer has come before the deadline.
Deliver(i) ==
  /\ reader[i].stage = "served" /\ Waits(i) /\ ~Late
  /\ call' = [call EXCEPT !.pc = "read", !.told = reader[i].answer]
  /\ reader' = [reader EXCEPT ![i].stage = "closing"]
  /\ UNCHANGED server

\* Mutant: a reader that was given up waits on for an answer that trickles in.
MutOutOfTime(i) == Waits(i) /\ Late

\* The event is set, or the deadline has passed: seen at the start and at every chunk.
OutOfTime(i) == reader[i].given_up \/ (Waits(i) /\ Late)

Stop(i) ==
  /\ reader[i].stage \in {"started", "served"} /\ OutOfTime(i)
  /\ reader' = [reader EXCEPT ![i].stage = "closing"]
  /\ call' = IF Waits(i) THEN TimedOut(call) ELSE call
  /\ UNCHANGED server

\* The connection breaks, or stalls for one of httpx's own timeouts, which a request with a
\* deadline takes for the deadline.
Break(i) ==
  /\ reader[i].stage \in {"started", "served"}
  /\ reader' = [reader EXCEPT ![i].stage = "closing"]
  /\ call' \in IF ~Waits(i) THEN {call}
              ELSE IF HasDeadline THEN {Broken(call), TimedOut(call)} ELSE {Broken(call)}
  /\ UNCHANGED server

Release(i) ==
  /\ reader[i].stage = "closing"
  /\ reader' = [reader EXCEPT ![i] = Free]
  /\ UNCHANGED <<call, server>>

\* The query is executed, and what it reads is read. It may fail before, and after: killed,
\* out of memory, or without its worker.
Execute(value) ==
  /\ server.state = "running"
  /\ server' = [server EXCEPT !.state = "finished", !.data = value]
  /\ UNCHANGED <<call, reader>>

Fail ==
  /\ server.state = "running" \/ (server.state = "finished" /\ server.next <= Pages)
  /\ server' = [server EXCEPT !.state = "failed"]
  /\ UNCHANGED <<call, reader>>

\* What happens without a fault, whatever the queries read.
Proceed ==
  \/ Expire \/ Send \/ NoTime \/ GiveUp \/ Read
  \/ \E i \in Thread : Arrive(i) \/ Deliver(i) \/ Stop(i) \/ Release(i)

Faulty == ThreadFails \/ \E i \in Thread : Spoil(i) \/ Break(i)

\* Time passes, threads run, and no blocked read outlives its deadline; that the
\* coordinator answers is not assumed.
TrinoFairness ==
  /\ WF_trino(Expire) /\ WF_trino(Send) /\ WF_trino(NoTime) /\ WF_trino(GiveUp)
  /\ WF_trino(Read)
  /\ \A i \in Thread : WF_trino(Deliver(i)) /\ WF_trino(Stop(i)) /\ WF_trino(Release(i))

-----------------------------------------------------------------------------

\* A result has every page of a query that finished, once and in order, however the query or
\* its connection ended (_query_result).
ResultIsWhole ==
  call.outcome = "result" =>
    server.state = "finished" /\ call.rows = [p \in 1..Pages |-> p]

\* A query that still runs when its call is over, the caller has been told of: by an error
\* of the protocol or the transport, or by a cancellation that was not accepted.
LeftIsReported ==
  call.pc = "over" /\ server.state = "running" =>
    \/ call.outcome \in {"protocol", "transport", "raised"}
    \/ call.outcome \in {"timeout", "page_limit"} /\ call.cancellation # "accepted"

\* A slot that a request takes comes back, whatever the coordinator does: a client is never
\* left without readers (_request_slots).
SlotsComeBack == \A i \in Slot : reader[i].stage # "free" ~> reader[i].stage = "free"

-----------------------------------------------------------------------------
(* What holds of a client, whoever asks it (for the proofs).               *)

Asking == call.pc \in {"send", "wait", "read"}
Active(i) == reader[i].stage \in {"started", "served"}

\* A call waits for one request of its own; every other one that has not ended was given up.
\* After a request of its own was given up a call can only be cancelled or over. A POST that
\* has not arrived, of which a call has one at most, is of a query that does not exist yet, a
\* DELETE of one whose URI is known.
RequestsKnown ==
  /\ call.pc = "wait" => /\ Active(call.by) /\ reader[call.by].own
                         /\ ~reader[call.by].given_up /\ reader[call.by].op = call.op
  /\ \A i \in Thread : Active(i) =>
       /\ reader[i].given_up \/ Waits(i)
       /\ reader[i].own /\ reader[i].given_up =>
            \/ call.pc = "idle" \/ call.outcome \in {"timeout", "page_limit", "raised"}
            \/ Asking /\ call.op = "DELETE"
       /\ reader[i].own /\ reader[i].stage = "started" /\ reader[i].op = "POST"
            => call.pc = "idle" \/ (server.state = "none" /\ ~call.uri)
       /\ reader[i].own /\ reader[i].op = "DELETE" => call.pc = "idle" \/ call.uri
  /\ \A i, j \in Thread :
       (\A k \in {i, j} : Active(k) /\ reader[k].own /\ reader[k].op = "POST") => i = j

\* The rows are those of the first n pages.
Whole(n) == Len(call.rows) = n /\ \A p \in 1..n : call.rows[p] = p

\* What a call knows of the query while its next request is not answered.
Unanswered == call.pc = "send" \/ (call.pc = "wait" /\ reader[call.by].stage = "started")
AsksNext ==
  /\ Whole(server.next - 1) /\ server.next <= Pages
  /\ IF call.op = "POST" THEN server = NoQuery
     ELSE server.state \in {"running", "finished", "failed"}

\* What an answer means.
Means(a) ==
  IF call.op = "DELETE" THEN a.kind = "ok" => server.state = "cancelled"
  ELSE \/ a.kind = "bad"
       \/ a.kind = "error" /\ server.state = "failed"
       \/ /\ a.kind = "last" /\ a.page = Pages /\ Whole(Pages - 1)
          /\ server.state = "finished" /\ server.next = Pages + 1
       \/ /\ a.kind = "rows" /\ a.page \in 1..Pages - 1 /\ Whole(a.page - 1)
          /\ server.state \in {"finished", "failed"} /\ server.next = a.page + 1
       \/ /\ a.kind = "page" /\ a.page = 0 /\ Whole(server.next - 1) /\ server.next <= Pages
          /\ server.state \in {"running", "finished", "failed"}

CallKnown ==
  /\ call.pc # "over" <=> call.outcome = "none"
  /\ call.pc # "over" => call.cancellation = "none"
  /\ Asking => CASE call.op = "DELETE" -> call.why \in {"timeout", "page_limit"} /\ call.uri
                 [] call.op = "POST" -> ~call.uri /\ call.rows = <<>> /\ call.pages = 0
                 [] call.op = "GET" -> call.uri /\ call.pages < PageLimit
  /\ Unanswered /\ call.op # "DELETE" => AsksNext
  /\ call.pc = "wait" /\ reader[call.by].stage = "served" => Means(reader[call.by].answer)
  /\ call.pc = "read" => Means(call.told)

\* What the end of a call says of the query.
EndKnown ==
  /\ call.outcome = "result" =>
       server.state = "finished" /\ server.next = Pages + 1 /\ Whole(Pages)
  /\ call.outcome = "failed" => server.state = "failed"
  /\ call.cancellation = "accepted" =>
       server.state = "cancelled" /\ call.outcome \in {"timeout", "page_limit"}

TrinoIInv == TrinoTypeOK /\ RequestsKnown /\ CallKnown /\ EndKnown

=============================================================================
