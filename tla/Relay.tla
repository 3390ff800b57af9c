------------------------------- MODULE Relay --------------------------------
(***************************************************************************)
(* forwarder/server.py and upstream.py around the meter: one task for each *)
(* client connection, all on one event loop, sharing the Meter.            *)
(*                                                                         *)
(* A step runs a task from one await to the next; what other tasks, the    *)
(* transports' callbacks, the watchdog and stop do meanwhile is in the     *)
(* other actions.  A step that counts also runs the unlocked tail of the   *)
(* count (Meter.tla takes that tail apart).  Every head, chunk and reply   *)
(* is one byte: the properties tell no sizes apart.  Calls that only note  *)
(* something on a record (Annotate: a status, a size, client bytes) change *)
(* nothing that is read here and are left to Meter.tla.                    *)
(***************************************************************************)
EXTENDS MeterState, FiniteSetsExt

CONSTANTS
  Clients,     \* the client connections at one time
  Hosts,       \* the authorities the clients ask for
  RouteOf,     \* RouteOf[h]: what the routing rules say of h, or "denied"
  Kinds,       \* the kinds of request: "connect", "http"
  MaxTraffic   \* bound: bytes counted before clients and upstreams fall silent

ASSUME RelayAssumption ==
  /\ IsFiniteSet(Clients)
  /\ Kinds # {} /\ Hosts # {}
  /\ RouteOf \in [Hosts -> OpenRoutes \cup {"denied"}]
  /\ Kinds \subseteq {"connect", "http"}
  /\ MaxTraffic \in Nat

VARIABLES
  meter,       \* the Meter (MeterState)
  conn,        \* conn[c]: the _ClientConn of c, its sockets and its task
  unsent,      \* bytes counted on record i that wait in a write buffer
  opened,      \* the client and the host of record i
  finals,      \* the final answers relayed on record i: the provider's 407, others
  atTrip,      \* the next record's id when the budget tripped; 0 before
  stopped      \* Forwarder._stopped

vars == <<meter, conn, unsent, opened, finals, atTrip, stopped>>

-----------------------------------------------------------------------------
(* A client connection.  pc is the await its task is in: "reading" a        *)
(* request head, "closing" an upstream connection (and then "next"),        *)
(* "connecting" upstream, "negotiating" with the provider, "relaying" bytes *)
(* both ways, "exchanging" one plain-HTTP request, "lingering" over a last  *)
(* reply, or "done".  tunnel is the record it may still close, keep says    *)
(* that its upstream connection is an _HttpSession, which has completed an  *)
(* exchange (served) and had an answer other than 407 on this record        *)
(* (passed); reply is what came of the answer that is due.  up is the       *)
(* transport of its UpstreamConnection ("lost": the peer reset it), bound   *)
(* the record that is charged for its bytes, charged all that ever were.    *)

NoConn ==
  [pc |-> "done", next |-> "end",
   kind |-> CHOOSE k \in Kinds : TRUE, host |-> CHOOSE h \in Hosts : TRUE,
   tunnel |-> 0, keep |-> FALSE, served |-> FALSE, passed |-> FALSE, reply |-> "none",
   sock |-> "gone", up |-> "none", bound |-> 0, charged |-> {}]

Init ==
  /\ meter = NewMeter
  /\ conn = [c \in Clients |-> NoConn]
  /\ unsent = [i \in Ids |-> 0]
  /\ opened = [i \in Ids |-> <<>>]
  /\ finals = [i \in Ids |-> {}]
  /\ atTrip = 0
  /\ stopped = FALSE

Traffic == MapThenSumSet(LAMBDA i : CountedBytes(meter.rec[i]), Ids)
Talking == Traffic < MaxTraffic

\* Bound: a record is left for a new request, those promised to waiting ones apart.
Waiting == {c \in Clients : conn[c].pc = "closing" /\ conn[c].next = "open"}
Room == meter.next + Cardinality(Waiting) \in Ids

RouteFor(c) == RouteOf[conn[c].host]

\* The task of c goes on as t; its own meter calls took the meter to m.
Goes(c, t, m) ==
  /\ meter' = m
  /\ conn' = [conn EXCEPT ![c] = t]

\* What an aborted transport still had to send, and the write buffers without it.
Buffered(held, t) == SumFunctionOnSet(held, t.charged)
Emptied(held, t)  == [i \in Ids |-> IF i \in t.charged THEN 0 ELSE held[i]]

\* UpstreamConnection.abort on task state t: nothing of a transport that is closed.
AbortUp(m, t) ==
  IF t.up = "live" THEN DiscardSent(m, t.bound, Buffered(unsent, t)) ELSE m

\* The live connections of S, their tasks in cs, are aborted one after the other.
AbortAll(m, S, cs, held) ==
  FoldSet(LAMBDA c, x : DiscardSent(x, cs[c].bound, Buffered(held, cs[c])), m, S)
Aborted(t) == [t EXCEPT !.up = IF @ = "live" THEN "gone" ELSE @, !.charged = {}]

\* A count took the meter from m to w, with cs the tasks and held the buffers
\* after it: its tail aborts both sockets of every tunnel it closed.
Settle(m, w, cs, held) ==
  LET dead == ToAbort(m, w)
      cut  == {c \in Clients : cs[c].up = "live" /\ cs[c].bound \in dead}
  IN  /\ meter' = AbortAll(w, cut, cs, held)
      /\ conn' = [c \in Clients |->
                    [(IF c \in cut THEN Aborted(cs[c]) ELSE cs[c])
                       EXCEPT !.sock = IF cs[c].tunnel \in dead THEN "gone" ELSE @]]
      /\ unsent' = [i \in Ids |-> IF \E c \in cut : i \in cs[c].charged THEN 0 ELSE held[i]]
      /\ atTrip' = IF w.tripped /\ ~m.tripped THEN w.next ELSE atTrip

\* Task c, in state t after meter calls that led to m, writes one byte to its
\* upstream connection and goes on to pc; a write on a tunnel that the meter
\* closed, before or by this very write, raises TunnelAborted and ends the task.
\* A transport the peer closed drops the byte, uncounted.
Writes(c, t, m, neg, pc) ==
  LET i == t.bound
      w == AddSent(m, i, 1, neg)
      after == [t EXCEPT !.pc = IF i \in w.closing THEN "closing" ELSE pc,
                         !.next = "end"]
      room == {k \in {0, 1} : k = 1 => Buffered(unsent, t) = 0}
  IN  \/ /\ t.up # "live"
         /\ Goes(c, [t EXCEPT !.pc = IF i \in m.closing THEN "closing" ELSE pc,
                              !.next = "end"], m)
         /\ UNCHANGED <<unsent, atTrip>>
      \/ /\ t.up = "live" /\ i \in m.closing
         /\ Goes(c, [t EXCEPT !.pc = "closing", !.next = "end"], m)
         /\ UNCHANGED <<unsent, atTrip>>
      \/ /\ t.up = "live" /\ i \notin m.closing
         /\ \E k \in room :
              /\ Settle(m, w, [conn EXCEPT ![c] = after], [unsent EXCEPT ![i] = @ + 1 - k])

\* UpstreamConnection.close on the way to "next": the transport reads no more and
\* hands the kernel what it holds; the task waits for that, at most 2 s.
Closes(c, t, m, next) ==
  /\ Goes(c, [t EXCEPT !.pc = "closing", !.next = next, !.keep = FALSE, !.tunnel = 0,
                       !.up = "gone", !.charged = {}], m)
  /\ unsent' = Emptied(unsent, t)

\* Mutant: the connection closes, the record does not.
CloseConnectionOnly(c, t, m, next) == Closes(c, t, m, next)

\* _close_session: the record closes "ok", then its connection.
CloseSession(c, t, m, next) == Closes(c, t, Finish(m, t.tunnel, "ok"), next)

\* The task of c ends: the client's socket closes too.
Ended(t) == [NoConn EXCEPT !.up = t.up, !.charged = t.charged]

\* _ClientConn._open_tunnel for c's request, on the way to _open_upstream.
OpensTunnel(c, t) ==
  /\ Goes(c, [t EXCEPT !.pc = "connecting", !.tunnel = meter.next, !.up = "none",
                       !.bound = 0, !.charged = {}, !.served = FALSE, !.passed = FALSE],
          OpenTunnel(meter, RouteOf[t.host], 0))
  /\ opened' = [opened EXCEPT ![meter.next] = <<c, t.host>>]

-----------------------------------------------------------------------------
(* Accepting, reading a request, deciding.                                 *)

Accept(c) ==
  /\ ~stopped
  /\ conn[c].pc = "done"
  /\ Talking
  /\ conn' = [conn EXCEPT ![c] = [NoConn EXCEPT !.pc = "reading", !.sock = "open"]]
  /\ UNCHANGED <<meter, unsent, opened, atTrip, finals, stopped>>

\* Mutant: a deny rule is matched, the budget is not.
DeniesUnlimited(host) == RouteOf[host] = "denied"

\* _decide: the budget first, then the deny rules.
Refuses(host) == meter.tripped \/ RouteOf[host] = "denied"

Asks(c) == conn[c].pc = "reading" /\ conn[c].sock = "open" /\ Talking

\* _serve with a refusal: the kept session is closed, then the reply sent.
Refuse(c, kind, host) ==
  LET m == IF meter.tripped THEN meter ELSE RecordDenied(meter)
      t == [conn[c] EXCEPT !.kind = kind, !.host = host]
  IN  /\ Asks(c)
      /\ Refuses(host)
      /\ meter.tripped \/ Room
      /\ IF t.keep
         THEN CloseSession(c, t, m, "refuse")
         ELSE Goes(c, [t EXCEPT !.pc = "lingering", !.next = "end"], m)
              /\ UNCHANGED unsent
      /\ opened' = IF meter.tripped THEN opened ELSE [opened EXCEPT ![meter.next] = <<c, host>>]
      /\ UNCHANGED <<atTrip, finals, stopped>>

\* A request that needs a tunnel of its own: a CONNECT, or plain HTTP without a
\* usable session.  A session that is in the way is closed first.
StartTunnel(c, kind, host) ==
  LET t == [conn[c] EXCEPT !.kind = kind, !.host = host]
  IN  /\ Asks(c)
      /\ ~Refuses(host)
      /\ Room
      /\ IF t.keep
         THEN CloseSession(c, t, meter, "open") /\ UNCHANGED opened
         ELSE OpensTunnel(c, t) /\ UNCHANGED unsent
      /\ UNCHANGED <<atTrip, finals, stopped>>

\* The kept session may serve a request for host.
Usable(c) == conn[c].keep /\ conn[c].up = "live" /\ conn[c].tunnel \notin meter.closing
Serves(c, host) ==
  /\ Usable(c)
  /\ \/ host = conn[c].host
     \/ RouteFor(c) = "http-connect" /\ RouteOf[host] = "http-connect"

\* Plain HTTP on the kept session, for the same host.
Reuse(c) ==
  /\ Asks(c)
  /\ ~Refuses(conn[c].host)
  /\ Usable(c)
  /\ Writes(c, conn[c], meter, 0, "exchanging")
  /\ UNCHANGED <<opened, finals, stopped>>

\* Mutant: what was answered on the old record counts for the new one.
OnRecordPassed(t, host, i) ==
  [t EXCEPT !.host = host, !.tunnel = i, !.bound = i, !.charged = @ \cup {i}]

\* The session's task once it serves host on record i.
OnRecord(t, host, i) ==
  [t EXCEPT !.host = host, !.tunnel = i, !.bound = i, !.charged = @ \cup {i}, !.passed = FALSE]

\* Mutant: the new record is opened, the connection is not handed over to it.
ContinueUnbound(c, host) ==
  LET t == conn[c]
  IN  /\ Asks(c)
      /\ ~Refuses(host)
      /\ host # t.host /\ Serves(c, host)
      /\ Room
      /\ Writes(c, [t EXCEPT !.host = host, !.tunnel = meter.next],
                OpenTunnel(meter, "http-connect", t.tunnel), 0, "exchanging")
      /\ opened' = [opened EXCEPT ![meter.next] = <<c, host>>]
      /\ UNCHANGED <<finals, stopped>>

\* _continue_session: the kept provider connection serves another host, on a new
\* record that it is bound to from now on.
Continue(c, host) ==
  LET t == conn[c]
      i == meter.next
      m == Finish(ContinueConnection(OpenTunnel(meter, "http-connect", t.tunnel), t.tunnel, i),
                  t.tunnel, "ok")
  IN  /\ Asks(c)
      /\ ~Refuses(host)
      /\ host # t.host /\ Serves(c, host)
      /\ Room
      /\ Writes(c, OnRecord(t, host, i), m, 0, "exchanging")
      /\ opened' = [opened EXCEPT ![i] = <<c, host>>]
      /\ UNCHANGED <<finals, stopped>>

\* What the first bytes of a request lead to.
Request(c, kind, host) ==
  \/ Refuse(c, kind, host)
  \/ (kind = "http" => ~Serves(c, host)) /\ StartTunnel(c, kind, host)
  \/ kind = "http" /\ host = conn[c].host /\ Reuse(c)
  \/ kind = "http" /\ Continue(c, host)

-----------------------------------------------------------------------------
(* The end of an awaited close, and of a linger.                           *)

\* The close is over and the tunnel of the request that waited opens.
OpenAfterClose(c) ==
  /\ conn[c].pc = "closing"
  /\ conn[c].next = "open"
  /\ OpensTunnel(c, conn[c])
  /\ UNCHANGED <<unsent, atTrip, finals, stopped>>

Closed(c) ==
  /\ conn[c].pc = "closing"
  /\ conn[c].next # "open"
  /\ Goes(c, IF conn[c].next = "end" THEN Ended(conn[c])
             ELSE [conn[c] EXCEPT !.pc = IF conn[c].next = "read" THEN "reading" ELSE "lingering",
                                  !.next = "end"], meter)
  /\ UNCHANGED <<unsent, opened, atTrip, finals, stopped>>

\* Mutant: the reply is out and the task ends, its upstream connection still open.
LingeredOpen(c) ==
  /\ conn[c].pc = "lingering"
  /\ Goes(c, Ended(conn[c]), meter)
  /\ UNCHANGED <<unsent, opened, atTrip, finals, stopped>>

\* _reply_and_close, _reset_client or the relayed refusal is over (1 s); a CONNECT
\* then closes the upstream connection it still holds.
Lingered(c) ==
  /\ conn[c].pc = "lingering"
  /\ IF conn[c].up \in {"live", "lost"}
     THEN Closes(c, conn[c], meter, "end")
     ELSE Goes(c, Ended(conn[c]), meter) /\ UNCHANGED unsent
  /\ UNCHANGED <<opened, atTrip, finals, stopped>>

-----------------------------------------------------------------------------
(* Setting up a tunnel.                                                    *)

\* Task c gives up on the setup of its tunnel: the bytes it moved were all
\* negotiation, and the client gets a reply if nothing closed the tunnel before.
\* t is the task with its upstream connection as the failure left it, m the meter.
FailsSetup(c, t, m, status) ==
  LET f == Finish(MarkAllNegotiation(m, t.tunnel), t.tunnel, status)
  IN  IF t.tunnel \in meter.open
      THEN Goes(c, [t EXCEPT !.pc = "lingering"], f)
      ELSE Goes(c, [t EXCEPT !.pc = "closing", !.next = "end"], f)

\* The TCP connect failed: no connection, so no byte moved.
ConnectFails(c) ==
  /\ conn[c].pc = "connecting"
  /\ FailsSetup(c, conn[c], meter, "failed:setup")
  /\ UNCHANGED <<unsent, opened, atTrip, finals, stopped>>

\* open_counted, _adopt and the first write: the CONNECT head, a SOCKS greeting or,
\* on a route with no negotiation, what the request itself needs.
Connects(c) ==
  LET i == conn[c].tunnel
      t == [conn[c] EXCEPT !.up = "live", !.bound = i, !.charged = {i},
                           !.keep = conn[c].kind = "http", !.reply = "none"]
      negotiates == \/ RouteFor(c) = "socks5"
                    \/ RouteFor(c) = "http-connect" /\ t.kind = "connect"
  IN  /\ conn[c].pc = "connecting"
      /\ i \notin meter.closing
      /\ t.kind = "connect" => t.sock = "open"
      /\ IF negotiates THEN Writes(c, [t EXCEPT !.keep = FALSE], meter, 1, "negotiating")
         ELSE IF t.kind = "http" THEN Writes(c, t, meter, 0, "exchanging")
         ELSE Goes(c, [t EXCEPT !.pc = "relaying"], meter) /\ UNCHANGED <<unsent, atTrip>>
      /\ UNCHANGED <<opened, finals, stopped>>

\* The connect succeeded after the meter closed the tunnel: _adopt aborts the socket.
ConnectsTooLate(c) ==
  /\ conn[c].pc = "connecting"
  /\ conn[c].tunnel \in meter.closing
  /\ Goes(c, Ended(conn[c]), meter)
  /\ UNCHANGED <<unsent, opened, atTrip, finals, stopped>>

\* Some reply of the provider was counted that is not yet marked negotiation.
Replied(c) == meter.rec[conn[c].bound].recv > meter.rec[conn[c].bound].negRecv

\* The provider accepts: the reply is marked negotiation, and the tunnel relays, or
\* sends the plain-HTTP request that waits; what came with the reply is the start of
\* the answer.
Negotiated(c) ==
  LET i == conn[c].tunnel
      m == MarkNegotiationReceived(meter, i, 1)
      more == m.rec[i].recv > m.rec[i].negRecv
  IN  /\ conn[c].pc = "negotiating"
      /\ conn[c].up = "live"
      /\ conn[c].kind = "connect" => conn[c].sock = "open"
      /\ Replied(c)
      /\ IF conn[c].kind = "http"
         THEN Writes(c, [conn[c] EXCEPT !.keep = TRUE, !.reply = IF more THEN "bytes" ELSE "none"],
                     m, 0, "exchanging")
         ELSE Goes(c, [conn[c] EXCEPT !.pc = "relaying"], m)
              /\ UNCHANGED <<unsent, atTrip>>
      /\ UNCHANGED <<opened, finals, stopped>>

\* The provider answers CONNECT with another status: the reply is relayed while the
\* connection stays open.
Rejected(c) ==
  LET i == conn[c].tunnel
      m == MarkNegotiationReceived(meter, i, 1)
  IN  /\ conn[c].pc = "negotiating"
      /\ RouteFor(c) = "http-connect"
      /\ conn[c].up = "live"
      /\ Replied(c)
      /\ Goes(c, [conn[c] EXCEPT !.pc = "lingering"],
              Finish(MarkAllNegotiation(m, i), i, "failed:upstream_status"))
      /\ UNCHANGED <<unsent, opened, atTrip, finals, stopped>>

\* Mutant: a SOCKS5 connection stays open while the client gets its reply.
NegotiationFailsOpen(c) ==
  /\ conn[c].pc = "negotiating"
  /\ conn[c].tunnel \in meter.open
  /\ FailsSetup(c, conn[c], meter, "failed:setup")
  /\ UNCHANGED <<unsent, opened, atTrip, finals, stopped>>

\* No reply in time, a bad one, or the peer closed.  On the SOCKS5 route the
\* connection is aborted before the error is raised; on the HTTP CONNECT route it
\* is closed only after the client got its reply.
NegotiationFails(c) ==
  LET aborts == RouteFor(c) = "socks5"
      t == IF aborts THEN Aborted(conn[c]) ELSE conn[c]
      m == IF aborts THEN AbortUp(meter, conn[c]) ELSE meter
  IN  /\ conn[c].pc = "negotiating"
      /\ conn[c].tunnel \in meter.open
      /\ FailsSetup(c, t, m, "failed:setup")
      /\ unsent' = IF aborts THEN Emptied(unsent, conn[c]) ELSE unsent
      /\ UNCHANGED <<opened, atTrip, finals, stopped>>

\* _while_client_waits: the client of a CONNECT left before its tunnel was up.
ClientLeftSetup(c) ==
  LET aborts == RouteFor(c) = "socks5"
      t == IF aborts THEN Aborted(conn[c]) ELSE conn[c]
      m == IF aborts THEN AbortUp(meter, conn[c]) ELSE meter
  IN  /\ conn[c].pc \in {"connecting", "negotiating"}
      /\ conn[c].kind = "connect"
      /\ conn[c].sock = "gone"
      /\ IF aborts
         THEN /\ Goes(c, [t EXCEPT !.pc = "closing", !.next = "end"],
                      Finish(MarkAllNegotiation(m, t.tunnel), t.tunnel, "failed:client_closed"))
              /\ unsent' = Emptied(unsent, conn[c])
         ELSE Closes(c, t, Finish(MarkAllNegotiation(m, t.tunnel), t.tunnel,
                                  "failed:client_closed"), "end")
      /\ UNCHANGED <<opened, atTrip, finals, stopped>>

\* Mutant: a task that waits for the provider's answer does not look at the tunnel.
TunnelAbortedLate(c) ==
  /\ conn[c].pc \in {"relaying", "exchanging"}
  /\ conn[c].tunnel \in meter.closing
  /\ Closes(c, [conn[c] EXCEPT !.sock = "gone"], meter, "end")
  /\ UNCHANGED <<opened, atTrip, finals, stopped>>

\* The meter closed the tunnel and aborted its sockets: TunnelAborted ends the task.
TunnelAborted(c) ==
  /\ conn[c].pc \in {"negotiating", "relaying", "exchanging"}
  /\ conn[c].tunnel \in meter.closing
  /\ Closes(c, [conn[c] EXCEPT !.sock = "gone"], meter, "end")
  /\ UNCHANGED <<opened, atTrip, finals, stopped>>

-----------------------------------------------------------------------------
(* Relaying and exchanging.                                                *)

\* A chunk from the client: a relayed one, or one of a request body.
Upload(c) ==
  /\ conn[c].pc \in {"relaying", "exchanging"}
  /\ conn[c].sock = "open"
  /\ Talking
  /\ Writes(c, conn[c], meter, 0, conn[c].pc)
  /\ UNCHANGED <<opened, finals, stopped>>

\* _splice returned, or the client reset it: the tunnel ends "ok"; a reset aborts the
\* upstream connection.
RelayEnds(c) ==
  LET reset == conn[c].sock = "gone"
      t == IF reset THEN Aborted(conn[c]) ELSE conn[c]
      m == Finish(meter, t.tunnel, "ok")
  IN  /\ conn[c].pc = "relaying"
      /\ conn[c].tunnel \notin meter.closing
      /\ conn[c].up = "live" \/ reset
      /\ IF reset
         THEN /\ Goes(c, [t EXCEPT !.pc = "closing", !.next = "end"], AbortUp(m, conn[c]))
              /\ unsent' = Emptied(unsent, conn[c])
         ELSE Closes(c, t, m, "end")
      /\ UNCHANGED <<opened, atTrip, finals, stopped>>

\* An upstream reset during a relay reaches the client as a reset, after what was
\* already relayed is flushed.
RelayReset(c) ==
  /\ conn[c].pc = "relaying"
  /\ conn[c].up = "lost"
  /\ conn[c].tunnel \notin meter.closing
  /\ Goes(c, [conn[c] EXCEPT !.pc = "lingering"],
          Finish(meter, conn[c].tunnel, "failed:upstream_reset"))
  /\ UNCHANGED <<unsent, opened, atTrip, finals, stopped>>

Answering(c) ==
  /\ conn[c].pc = "exchanging"
  /\ conn[c].up \in {"live", "lost"}
  /\ conn[c].sock = "open"
  /\ conn[c].tunnel \notin meter.closing

\* The head of the final response is read.  On the HTTP CONNECT route a 407, which is
\* the provider's own, is what the record's normal close will say unless another
\* status passed before or passes later.
Answers(c, rejects) ==
  LET i == conn[c].tunnel
      byProvider == RouteFor(c) = "http-connect"
      m == IF byProvider /\ ~rejects THEN SetOkStatus(meter, i, "ok")
           ELSE IF byProvider /\ ~conn[c].passed THEN SetOkStatus(meter, i, "failed:upstream_status")
           ELSE meter
  IN  /\ Answering(c)
      /\ conn[c].up = "live"
      /\ conn[c].reply = "bytes"
      /\ Goes(c, [conn[c] EXCEPT !.reply = "head", !.passed = @ \/ (byProvider /\ ~rejects)], m)
      /\ finals' = [finals EXCEPT ![i] = @ \cup {IF byProvider /\ rejects THEN "407" ELSE "other"}]
      /\ UNCHANGED <<unsent, opened, atTrip, stopped>>

\* The response is complete.  The session is kept for the next request; or it closes,
\* because its upstream connection cannot go on ("read"), the client's cannot ("end")
\* or the exchange was abandoned ("linger").
ExchangeEnds(c, next) ==
  LET t == [conn[c] EXCEPT !.served = TRUE, !.reply = "none"]
  IN  /\ Answering(c)
      /\ conn[c].reply = "head"
      /\ IF next = "keep"
         THEN Goes(c, [t EXCEPT !.pc = "reading"], meter) /\ UNCHANGED unsent
         ELSE CloseSession(c, t, meter, next)
      /\ UNCHANGED <<opened, atTrip, finals, stopped>>

\* The answer is 101: the session becomes a relay.
Upgrades(c) ==
  /\ Answering(c)
  /\ conn[c].up = "live"
  /\ conn[c].reply = "bytes"
  /\ Goes(c, [conn[c] EXCEPT !.pc = "relaying", !.keep = FALSE], meter)
  /\ UNCHANGED <<unsent, opened, atTrip, finals, stopped>>

\* The upstream failed in the middle of an exchange: it was reset, or it closed or
\* sent nonsense.  A reused connection that ends before any byte of a reply was read
\* ends "ok" (the keep-alive race); a reset drops what was not read yet.
ExchangeFails(c, status) ==
  LET unread == conn[c].reply \in (IF conn[c].up = "lost" THEN {"none", "bytes"} ELSE {"none"})
  IN  /\ conn[c].pc = "exchanging"
      /\ conn[c].tunnel \notin meter.closing
      /\ \/ status = "ok" /\ conn[c].served /\ unread
         \/ status = "failed:upstream_reset" /\ conn[c].up = "lost"
         \/ status = "failed:upstream_closed" /\ conn[c].up = "live"
      /\ Goes(c, [Aborted(conn[c]) EXCEPT !.pc = "lingering", !.keep = FALSE, !.tunnel = 0],
              AbortUp(Finish(meter, conn[c].tunnel, status), conn[c]))
      /\ unsent' = Emptied(unsent, conn[c])
      /\ UNCHANGED <<opened, atTrip, finals, stopped>>

\* The client is gone while its connection waits for a request or a response.
ClientLeft(c) ==
  /\ conn[c].pc \in {"reading", "exchanging"}
  /\ conn[c].sock = "gone"
  /\ IF conn[c].keep
     THEN CloseSession(c, conn[c], meter, "end")
     ELSE Goes(c, Ended(conn[c]), meter) /\ UNCHANGED unsent
  /\ UNCHANGED <<opened, atTrip, finals, stopped>>

-----------------------------------------------------------------------------
(* What happens to the sockets, and the forwarder's own closes.            *)

\* _CountingProtocol.data_received, whatever the task waits for.
Receive(c) ==
  /\ conn[c].up = "live"
  /\ Talking
  /\ Settle(meter, AddReceived(meter, conn[c].bound, 1),
            [conn EXCEPT ![c].reply = IF @ = "none" THEN "bytes" ELSE @], unsent)
  /\ UNCHANGED <<opened, finals, stopped>>

\* The kernel takes what a transport holds.
Flush(c) ==
  /\ conn[c].up = "live"
  /\ Buffered(unsent, conn[c]) > 0
  /\ unsent' = Emptied(unsent, conn[c])
  /\ UNCHANGED <<meter, conn, opened, atTrip, finals, stopped>>

\* The upstream peer resets its connection: asyncio drops what is still to be sent.
PeerResets(c) ==
  /\ conn[c].up = "live"
  /\ conn' = [conn EXCEPT ![c].up = "lost"]
  /\ unsent' = Emptied(unsent, conn[c])
  /\ UNCHANGED <<meter, opened, atTrip, finals, stopped>>

ClientGoes(c) ==
  /\ conn[c].pc # "done"
  /\ conn[c].sock = "open"
  /\ conn' = [conn EXCEPT ![c].sock = "gone"]
  /\ UNCHANGED <<meter, unsent, opened, atTrip, finals, stopped>>

\* Mutant: the watchdog minds the first request only.
OverdueSilent(c) == conn[c].pc = "reading" /\ conn[c].sock = "open" /\ conn[c].tunnel = 0

\* What the watchdog may find silent (no first request) or idle, and not closed yet.
Overdue(c) ==
  /\ conn[c].pc # "done"
  /\ conn[c].sock = "open" \/ conn[c].tunnel \in meter.open

\* _watch_idle finds c overdue: its tunnel ends "ok", both sides are aborted.
WatchdogCloses(c) ==
  LET t == conn[c]
      m == IF t.tunnel = 0 THEN meter ELSE Finish(meter, t.tunnel, "ok")
  IN  /\ Overdue(c)
      /\ Goes(c, [Aborted(t) EXCEPT !.sock = "gone"], AbortUp(m, t))
      /\ unsent' = Emptied(unsent, t)
      /\ UNCHANGED <<opened, atTrip, finals, stopped>>

\* Forwarder.stop: every tunnel closes "ok", every connection is aborted, and every
\* task is cancelled at the await it is in.
Stop ==
  LET live == {c \in Clients : conn[c].up = "live"}
  IN  /\ ~stopped
      /\ stopped' = TRUE
      /\ meter' = AbortAll(CloseAll(meter, "ok"), live, conn, unsent)
      /\ conn' = [c \in Clients |-> Ended(Aborted(conn[c]))]
      /\ unsent' = [i \in Ids |-> 0]
      /\ UNCHANGED <<opened, finals, atTrip>>

\* The steps of c's task that its client, its upstream or a timeout bring about for sure.
Proceeds(c) ==
  \/ OpenAfterClose(c)
  \/ Closed(c)
  \/ Lingered(c)
  \/ ConnectFails(c)
  \/ ConnectsTooLate(c)
  \/ NegotiationFails(c)
  \/ ClientLeftSetup(c)
  \/ TunnelAborted(c)
  \/ RelayEnds(c)
  \/ RelayReset(c)
  \/ ClientLeft(c)

Next ==
  \/ \E c \in Clients :
       \/ Accept(c)
       \/ \E kind \in Kinds, host \in Hosts : Request(c, kind, host)
       \/ Connects(c)
       \/ Negotiated(c)
       \/ Rejected(c)
       \/ Upload(c)
       \/ \E rejects \in BOOLEAN : Answers(c, rejects)
       \/ \E next \in {"keep", "read", "end", "linger"} : ExchangeEnds(c, next)
       \/ Upgrades(c)
       \/ \E status \in {"ok", "failed:upstream_reset", "failed:upstream_closed"} : ExchangeFails(c, status)
       \/ Proceeds(c)
       \/ Receive(c)
       \/ Flush(c)
       \/ PeerResets(c)
       \/ ClientGoes(c)
       \/ WatchdogCloses(c)
  \/ Stop

Spec == Init /\ [][Next]_vars

\* What the program owes: a connect, a negotiation, an exchange, a linger and a close
\* each end by a timeout if nothing else ends them, a relay or a wait ends with the
\* sockets it reads, and the watchdog's tick comes back for a connection that is silent.
FairSpec ==
  /\ Spec
  /\ \A c \in Clients : WF_vars(Proceeds(c)) /\ WF_vars(WatchdogCloses(c))

-----------------------------------------------------------------------------
(* Properties.                                                             *)

\* Nothing leaks: an open tunnel belongs to exactly one task that is still there to close
\* it, so a report never shows a tunnel open that nothing will ever close; and no provider
\* connection outlives its client's task, nor its tunnel beyond the lingering of a
\* CONNECT that failed: an open socket costs provider bytes.
NothingLeaks ==
  /\ \A i \in meter.open : Cardinality({c \in Clients : conn[c].pc # "done" /\ conn[c].tunnel = i}) = 1
  /\ \A c \in Clients :
       conn[c].up = "live" =>
         /\ conn[c].pc \in {"negotiating", "relaying", "exchanging", "reading", "lingering"}
         /\ conn[c].pc # "lingering" => conn[c].tunnel \in meter.open

\* Bytes are charged to the record of the host they are for: while a task moves bytes
\* its connection is bound to the tunnel of its request, and that record's host is the
\* request's, also after a kept provider connection went on to another host.
ChargedToRequest ==
  \A c \in Clients :
    conn[c].pc \in {"negotiating", "relaying", "exchanging"} =>
      /\ conn[c].bound = conn[c].tunnel
      /\ opened[conn[c].tunnel] = <<c, conn[c].host>>

\* A SOCKS5 negotiation that fails is cut off before its bytes are classified, so no
\* byte of such a record is ever payload.
FailedSocksIsNegotiation ==
  \A i \in Ids :
    LET r == meter.rec[i]
    IN  r.route = "socks5" /\ r.status \in {"failed:setup", "failed:client_closed"} =>
          r.negSent = r.sent /\ r.negRecv = r.recv

\* After a trip a client gets at most one more tunnel, of a request that passed the
\* budget check before it; every later request is refused.
LateTunnels ==
  atTrip # 0 =>
    \A i, j \in {k \in Ids : k >= atTrip /\ k < meter.next} :
      opened[i][1] = opened[j][1] => i = j

\* A provider that refuses the credentials shows: of the records of plain-HTTP
\* sessions that closed normally, exactly those whose final answers were all the
\* provider's 407 end failed, also after the session went on to other hosts.
RefusedCredentialsShow ==
  \A i \in Ids :
    finals[i] # {} /\ meter.rec[i].status \in {"ok", "failed:upstream_status"} =>
      (meter.rec[i].status = "failed:upstream_status" <=> finals[i] = {"407"})

\* A client's kept connection is charged, and judged, host by host.
SessionsAreCharged == ChargedToRequest /\ RefusedCredentialsShow

\* A client that is gone is let go of: whatever its task was waiting for, it ends, so
\* the sockets and the descriptors of the pair do not pile up.
GoneClientsAreReleased ==
  \A c \in Clients : conn[c].sock = "gone" ~> conn[c].pc = "done"

\* No tunnel stays open for ever once both its ends are silent, aborted or gone.
EveryTunnelCloses == \A i \in Ids : i \in meter.open ~> i \notin meter.open

\* Contract 3.7: a trip closes every open tunnel and refuses all new requests until
\* the forwarder stops.
TripLeavesNothingOpen == meter.tripped => meter.open = {}
=============================================================================
