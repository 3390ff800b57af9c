------------------------------ MODULE Exchange -------------------------------
(***************************************************************************)
(* forwarder/server.py: the requests of one client connection to one plain *)
(* HTTP authority.  Each is an exchange: one task pumps its body up while   *)
(* another pumps the answer down, over a connection that is kept for the   *)
(* next request if both ends allow it.                                     *)
(*                                                                         *)
(* Bodies are parts; an answer's head has a framing (its length, chunks, or *)
(* the end of the connection), an answer is whole when the server finished *)
(* it.  What an h11 connection keeps of its own peer is kept here as the   *)
(* stage of the request and of the answer.  Upgrades, and the records that *)
(* the bytes are charged to, are in module Relay.                          *)
(***************************************************************************)
EXTENDS Naturals, Sequences

CONSTANTS
  RequestKinds,        \* requests: [old, expects, shuts, parts], of an HTTP/1.0 client, one that waits for 100, one that ends it
  AnswerKinds,       \* answers: [frame, coded, keeps, parts]; coded: a transfer coding besides chunked
  MaxRequests, MaxAnswers  \* bounds

ASSUME ExchangeAssumption ==
  /\ \A a \in RequestKinds : a.old \in BOOLEAN /\ a.expects \in BOOLEAN /\ a.shuts \in BOOLEAN /\ a.parts \in Nat
  /\ \A k \in AnswerKinds : /\ k.frame \in {"length", "chunked", "close"} /\ k.coded \in BOOLEAN /\ k.keeps \in BOOLEAN
                      /\ k.parts \in Nat
  /\ MaxRequests \in Nat /\ MaxAnswers \in Nat

VARIABLES
  client,   \* its requests so far, the last one, the parts of it that it gave (its end is one), and
            \* whether it has left
  views,    \* views[n]: what the client got for its request n
  hungUp,   \* how the client's connection ended: "no", "fin", "reset"
  server,   \* (of the connection that is up) whether it is, requests it got, the answer that
            \* it is giving, and how it ended: "open", "eof", "reset"
  wire,     \* what it sent and the meter has not read: of which answer, and (ghost) how many of its
            \* parts there were then
  answers,  \* (ghost) its answers, each to a request or to none (0), whole or not yet
  ex,       \* the exchange
  cutOff    \* the meter has closed the tunnel

exchangeVars == <<client, views, hungUp, server, wire, answers, ex, cutOff>>

NoServer == [up |-> FALSE, log |-> <<>>, giving |-> 0, answered |-> TRUE, end |-> "open"]
NoView == [id |-> 0, frame |-> "none", parts |-> 0, ended |-> FALSE, own |-> FALSE, informed |-> FALSE]
\* body: parts sent up.  pumped: the request's task: "runs", "done", "cut" (nobody takes the
\* rest).  answer: "head", "body", "done".  headed: _resp_head_sent; stalled: the head is
\* written, but the client has not taken it.  waits: for 100, as h11 knows.
NoExchange ==
  [pc |-> "reads", body |-> 0, pumped |-> "runs", answer |-> "head", completed |-> 0, received |-> FALSE,
   headed |-> FALSE, stalled |-> FALSE, waits |-> FALSE, abandoned |-> FALSE, closes |-> FALSE]

InitExchange ==
  /\ client = [n |-> 0, ask |-> CHOOSE a \in RequestKinds : TRUE, gave |-> 0, gone |-> FALSE]
  /\ views = <<>> /\ hungUp = "no"
  /\ server = NoServer /\ wire = <<>> /\ answers = <<>>
  /\ ex = NoExchange /\ cutOff = FALSE

Exchanging == ex.pc = "exchanges"
Mine == views[client.n]
Sees(view) == views' = [views EXCEPT ![client.n] = view]
Full == client.ask.parts + 1
\* The connection up is closed; the client's ends with it.
Ends(how) ==
  /\ ex' = [ex EXCEPT !.pc = "ended"] /\ hungUp' = how
  /\ server' = [server EXCEPT !.up = FALSE] /\ wire' = <<>>

-----------------------------------------------------------------------------
(* The client.                                                              *)

\* A new head: on the kept connection, unless its end has been seen, or on a new one.
Begins(ask, fresh) ==
  LET log == IF fresh THEN <<>> ELSE server.log
  IN  /\ ex.pc = "reads" /\ ~client.gone /\ client.n < MaxRequests
      /\ fresh \/ server.up
      /\ fresh => ~server.up \/ server.end = "reset" \/ (server.end = "eof" /\ wire = <<>>)
      /\ client' = [client EXCEPT !.n = @ + 1, !.ask = ask, !.gave = 0]
      /\ views' = Append(views, NoView)
      /\ ex' = [NoExchange EXCEPT !.pc = "exchanges", !.completed = IF fresh THEN 0 ELSE ex.completed, !.waits = ask.expects]
      /\ server' = [(IF fresh THEN NoServer ELSE server) EXCEPT !.up = TRUE,
                       !.log = Append(log, [n |-> client.n + 1, body |-> 0, full |-> ask.parts + 1]), !.answered = FALSE]
      /\ wire' = (IF fresh THEN <<>> ELSE wire)
      /\ UNCHANGED <<hungUp, answers, cutOff>>
ClientGives ==
  /\ Exchanging /\ ~client.gone /\ client.gave < Full
  /\ client' = [client EXCEPT !.gave = @ + 1]
  /\ UNCHANGED <<views, hungUp, server, wire, answers, ex, cutOff>>
ClientLeaves ==
  /\ ex.pc # "ended" /\ ~client.gone
  /\ client' = [client EXCEPT !.gone = TRUE]
  /\ UNCHANGED <<views, hungUp, server, wire, answers, ex, cutOff>>

-----------------------------------------------------------------------------
(* The server.                                                              *)

Serving == server.up /\ server.end = "open"
Puts(kind, id, nth) == wire' = Append(wire, [kind |-> kind, id |-> id, nth |-> nth])
Informs ==
  /\ Serving /\ ~server.answered /\ server.giving = 0 /\ \A i \in DOMAIN wire : wire[i].kind # "inform"
  /\ Exchanging /\ ~Mine.informed
  /\ Puts("inform", 0, 0) /\ UNCHANGED <<client, views, hungUp, server, answers, ex, cutOff>>
\* To the request, or to none: servers tell an idle client that its time is over.
AnswersWith(kind) ==
  /\ Serving /\ server.giving = 0 /\ Len(answers) < MaxAnswers
  /\ answers' = Append(answers, [for |-> IF server.answered THEN 0 ELSE client.n, kind |-> kind, sent |-> 0, whole |-> FALSE])
  /\ server' = [server EXCEPT !.giving = Len(answers) + 1, !.answered = TRUE]
  /\ Puts("head", Len(answers) + 1, 0)
  /\ UNCHANGED <<client, views, hungUp, ex, cutOff>>
Giving == answers[server.giving]
Gives ==
  /\ Serving /\ server.giving # 0
  /\ IF Giving.sent < Giving.kind.parts
     THEN /\ answers' = [answers EXCEPT ![server.giving].sent = @ + 1]
          /\ Puts("part", server.giving, Giving.sent + 1) /\ UNCHANGED server
     ELSE /\ answers' = [answers EXCEPT ![server.giving].whole = TRUE]
          /\ IF Giving.kind.frame = "close"
             THEN server' = [server EXCEPT !.giving = 0, !.end = "eof"] /\ UNCHANGED wire
             ELSE server' = [server EXCEPT !.giving = 0] /\ Puts("end", server.giving, Giving.sent)
  /\ UNCHANGED <<client, views, hungUp, ex, cutOff>>
Babbles ==
  /\ Serving /\ \A i \in DOMAIN wire : wire[i].kind # "junk"
  /\ server.giving # 0 => Giving.kind.frame = "chunked"
  /\ Puts("junk", 0, 0) /\ server' = [server EXCEPT !.end = "eof"]
  /\ UNCHANGED <<client, views, hungUp, answers, ex, cutOff>>
ServerEnds ==
  /\ server.up /\ server.end # "reset"
  /\ \E how \in {"eof", "reset"} : how # server.end /\ server' = [server EXCEPT !.end = how]
  \* An answer that only the end of its connection ends is not finished by it before its parts are.
  /\ server'.end = "eof" /\ server.giving # 0 => Giving.kind.frame # "close"
  /\ UNCHANGED <<client, views, hungUp, wire, answers, ex, cutOff>>

-----------------------------------------------------------------------------
(* What ends an exchange early (the handlers of _handle_http).              *)

\* The upstream went: passed on if it is the client's kept connection that went idle, else
\* told, if nothing of an answer was; a head that was written can only be cut short.
Aborts == \E how \in {"fin", "reset"} : Ends(how) /\ UNCHANGED views
Tells(reset, received) ==
  IF ex.completed > 0 /\ ~received THEN Ends(IF reset THEN "reset" ELSE "fin") /\ UNCHANGED views
  ELSE Ends("fin") /\ Sees([Mine EXCEPT !.own = TRUE])
\* A reset after the head is taken for an end (a mutant).
UpstreamGoneQuietly(reset, received) == IF ex.headed THEN Ends("fin") /\ UNCHANGED views ELSE Tells(reset, received)
UpstreamGone(reset, received) ==
  IF ~ex.headed THEN Tells(reset, received)
  ELSE IF reset THEN Ends("reset") /\ UNCHANGED views ELSE Aborts
UpstreamGoes(reset, received) == UpstreamGone(reset, received) /\ UNCHANGED <<client, answers, cutOff>>

-----------------------------------------------------------------------------
(* _pump_request.                                                           *)

Uploads ==
  /\ Exchanging /\ ex.pumped = "runs" /\ client.gave > ex.body /\ server.end # "reset"
  /\ ex' = [ex EXCEPT !.body = @ + 1, !.waits = FALSE, !.pumped = IF ex.body + 1 = Full THEN "done" ELSE "runs"]
  /\ server' = [server EXCEPT !.log[Len(server.log)].body = ex.body + 1]
  /\ UNCHANGED <<client, views, hungUp, wire, answers, cutOff>>
\* drain fails.
UploadBreaks ==
  /\ Exchanging /\ ex.pumped = "runs" /\ client.gave > ex.body /\ server.end = "reset"
  /\ IF ex.answer = "done"
     THEN ex' = [ex EXCEPT !.pumped = "cut"] /\ UNCHANGED <<client, views, hungUp, server, wire, answers, cutOff>>
     ELSE UpstreamGoes(TRUE, ex.received)
\* The client ended its request before its end, or left before it took its answer.
ClientIsGone ==
  /\ Exchanging /\ client.gone
  /\ \/ ex.pumped = "runs" /\ client.gave = ex.body
     \/ wire # <<>>
  /\ Ends("fin") /\ UNCHANGED <<client, views, answers, cutOff>>

-----------------------------------------------------------------------------
(* _pump_response.                                                          *)

Pumping == Exchanging /\ ex.answer # "done" /\ ~ex.stalled
NextIs(kind) == Pumping /\ wire # <<>> /\ Head(wire).kind = kind /\ wire' = Tail(wire)
Quietly == UNCHANGED <<client, hungUp, server, answers, cutOff>>

InformReaches ==
  /\ NextIs("inform") /\ ex.answer = "head"
  /\ ex' = [ex EXCEPT !.received = TRUE, !.waits = IF client.ask.old THEN @ ELSE FALSE]
  /\ Sees([Mine EXCEPT !.informed = ~client.ask.old])
  /\ Quietly
\* A coded answer is told apart before h11 sees its head; it cannot be given to an HTTP/1.0
\* client, which gets no chunks either: an answer of unknown length ends with its connection.
Refused(kind) == kind.coded /\ client.ask.old
Framing(kind) == IF kind.frame = "length" THEN "length" ELSE IF client.ask.old THEN "close" ELSE "chunked"
HeadReaches ==
  /\ Pumping /\ wire # <<>> /\ Head(wire).kind = "head" /\ ex.answer = "head"
  /\ LET id == Head(wire).id
         kind == answers[id].kind
     IN  IF Refused(kind) THEN UpstreamGoes(FALSE, TRUE)
         ELSE /\ wire' = Tail(wire)
              /\ \E stalled \in BOOLEAN :
                   ex' = [ex EXCEPT !.received = TRUE, !.answer = "body", !.headed = ~stalled, !.stalled = stalled,
                            !.abandoned = ex.waits, !.waits = FALSE, !.closes = ~kind.keeps \/ kind.frame = "close"]
              /\ Sees([Mine EXCEPT !.id = id, !.frame = Framing(kind)])
              /\ Quietly
HeadTaken ==
  /\ Exchanging /\ ex.stalled
  /\ ex' = [ex EXCEPT !.stalled = FALSE, !.headed = TRUE]
  /\ UNCHANGED <<client, views, hungUp, server, wire, answers, cutOff>>
PartReaches ==
  /\ NextIs("part") /\ ex.answer = "body"
  /\ Sees([Mine EXCEPT !.parts = @ + 1]) /\ UNCHANGED ex /\ Quietly

\* The answer is complete: if the rest of the request can be waited for, it is.
Completed ==
  IF ex.pumped = "runs" /\ (ex.abandoned \/ ex.closes \/ client.ask.shuts \/ client.ask.old)
  THEN Ends("fin")
  ELSE ex' = [ex EXCEPT !.answer = "done"] /\ UNCHANGED <<hungUp, server>>
EndReaches ==
  /\ Pumping /\ wire # <<>> /\ Head(wire).kind = "end" /\ ex.answer = "body"
  /\ Sees([Mine EXCEPT !.ended = TRUE]) /\ Completed
  /\ wire' = IF ex'.pc = "ended" THEN <<>> ELSE Tail(wire)
  /\ UNCHANGED <<client, answers, cutOff>>
EofReaches ==
  /\ Pumping /\ wire = <<>> /\ server.end = "eof"
  /\ IF ex.answer = "body" /\ answers[Mine.id].kind.frame = "close"
     THEN Sees([Mine EXCEPT !.ended = Mine.frame = "chunked"]) /\ Completed /\ UNCHANGED <<client, wire, answers, cutOff>>
     ELSE UpstreamGoes(FALSE, ex.received)
ResetReaches == Pumping /\ server.end = "reset" /\ UpstreamGoes(TRUE, ex.received)
JunkReaches == Pumping /\ wire # <<>> /\ Head(wire).kind = "junk" /\ UpstreamGoes(FALSE, TRUE)

\* Both are done: the next request may come, on the same connection if both ends keep it; an
\* answer may say that the client's ends as well.
Finishes ==
  /\ Exchanging /\ ex.answer = "done" /\ ex.pumped # "runs"
  /\ \/ (ex.pumped = "cut" \/ client.ask.shuts \/ client.ask.old \/ ex.closes) /\ Ends("fin")
     \/ /\ ex.pumped = "done" /\ ~client.ask.shuts /\ ~client.ask.old
        /\ ex' = [ex EXCEPT !.pc = "reads", !.completed = @ + 1]
        /\ server' = [server EXCEPT !.up = ~ex.closes]
        /\ wire' = (IF ex.closes THEN <<>> ELSE wire)
        /\ UNCHANGED hungUp
  /\ UNCHANGED <<client, views, answers, cutOff>>
Leaves ==
  /\ ex.pc = "reads" /\ client.gone
  /\ Ends("fin") /\ UNCHANGED <<client, views, answers, cutOff>>

\* The meter closes the tunnel, and with it aborts both connections.
CutsOff ==
  /\ server.up /\ ex.pc # "ended"
  /\ cutOff' = TRUE /\ Aborts
  /\ UNCHANGED <<client, answers>>

NextExchange ==
  \/ \E ask \in RequestKinds, fresh \in BOOLEAN : Begins(ask, fresh)
  \/ ClientGives \/ ClientLeaves
  \/ Informs \/ (\E kind \in AnswerKinds : AnswersWith(kind)) \/ Gives \/ Babbles \/ ServerEnds
  \/ Uploads \/ UploadBreaks \/ ClientIsGone
  \/ InformReaches \/ HeadReaches \/ HeadTaken \/ PartReaches \/ EndReaches \/ EofReaches
  \/ ResetReaches \/ JunkReaches \/ Finishes \/ Leaves \/ CutsOff
ExchangeSpec == InitExchange /\ [][NextExchange]_exchangeVars

-----------------------------------------------------------------------------
(* Properties.                                                              *)

Answered(n) == views[n].id # 0
LooksWhole(n) == views[n].ended \/ (views[n].frame = "close" /\ hungUp = "fin" /\ n = client.n)

\* docs/security.md: a truncated response is never passed off as complete.  To an HTTP/1.0 client
\* it may be, whose answers end with the connection: if the server breaks off its chunks, the
\* meter cuts it off itself, or the server resets while the client is slow to take the head.
NothingPassesAsWhole ==
  \A n \in DOMAIN views : Answered(n) /\ LooksWhole(n) /\ ~client.gone =>
    LET a == answers[views[n].id]
    IN  \/ a.whole /\ views[n].parts = a.kind.parts
        \/ views[n].frame = "close" /\ client.ask.old /\ (cutOff \/ ex.stalled \/ a.kind.frame = "chunked")

\* An answer is given to one request, and to the one it is for, as long as the server answers
\* no more than it is asked: what it says on an idle connection is the next request's answer.
AnswersBelong ==
  \A n \in DOMAIN views : Answered(n) =>
    /\ \A m \in DOMAIN views : views[m].id = views[n].id => m = n
    /\ answers[views[n].id].for = n \/ \E id \in 1 .. views[n].id : answers[id].for = 0

\* A request is answered once: the meter adds nothing to an answer, except to a head that it
\* has written and that its client is slow to take.
AnsweredOnce == \A n \in DOMAIN views : views[n].own /\ Answered(n) => n = client.n /\ ex.stalled

\* A server gets a request on a kept connection when it has all of the one before.
RequestsAreWhole ==
  server.up => \A i \in 1 .. Len(server.log) - 1 : server.log[i].body = server.log[i].full

\* Nobody waits for a body that is not coming: its client waits for an answer that it has had.
NobodyWaits ==
  Exchanging /\ ex.answer = "done" /\ ex.pumped = "runs" /\ client.ask.expects => Mine.informed \/ client.gave > 0

\* An exchange over a connection that either side may break.
ExchangeIsWhole == NothingPassesAsWhole /\ AnswersBelong /\ AnsweredOnce /\ RequestsAreWhole /\ NobodyWaits
=============================================================================
