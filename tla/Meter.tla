------------------------------- MODULE Meter --------------------------------
(***************************************************************************)
(* The meter under all the calls the server may make of it, with the       *)
(* socket transports whose bytes it counts and the thread that takes       *)
(* snapshots.                                                              *)
(*                                                                         *)
(* Every call is made on the event-loop thread.  A call that counts first  *)
(* decides under the lock, then, with the lock released, aborts transports *)
(* (each abort takes the lock again to uncount what never left) and runs   *)
(* the budget callbacks.  "pending" is that unlocked tail; the loop thread *)
(* does nothing else until it is empty, but a snapshot may come from       *)
(* another thread at any point of it.                                      *)
(***************************************************************************)
EXTENDS MeterState, FiniteSetsExt

CONSTANTS
  Routes,      \* the routes the configuration uses
  Endings,     \* the statuses the server closes tunnels with
  Chunks,      \* sizes of one read or write
  MaxTraffic,  \* bound: bytes all records may hold before reads and writes stop
  MaxNotes     \* bound: each of the first MaxNotes records has one field update

ASSUME TrafficAssumption ==
  /\ Routes \subseteq OpenRoutes
  /\ Endings \subseteq {"ok"} \cup Failures
  /\ Chunks \subseteq Nat \ {0}
  /\ MaxTraffic \in Nat
  /\ MaxNotes \in Nat

VARIABLES
  meter,       \* the Meter (MeterState)
  pending,     \* _Pending: tunnels still to abort, events still to hand out
  wire,        \* the transport of a record: "none", "live" or "gone"
  queued,      \* bytes in that transport's write buffer
  delivered    \* the events the callbacks were given, in order

vars == <<meter, pending, wire, queued, delivered>>

\* What the two bounds limit.
Traffic == MapThenSumSet(LAMBDA i : CountedBytes(meter.rec[i]), Ids)
MayNote(i) == i <= MaxNotes /\ meter.rec[i].note = 0

NothingPending == [abort |-> {}, events |-> <<>>]
Idle == pending = NothingPending

Init ==
  /\ meter = NewMeter
  /\ pending = NothingPending
  /\ wire = [i \in Ids |-> "none"]
  /\ queued = [i \in Ids |-> 0]
  /\ delivered = <<>>

-----------------------------------------------------------------------------
(* Records.                                                                *)

Open(route) ==
  /\ Idle
  /\ meter.next \in Ids
  /\ meter' = OpenTunnel(meter, route, 0)
  /\ UNCHANGED <<pending, wire, queued, delivered>>

Deny ==
  /\ Idle
  /\ meter.next \in Ids
  /\ meter' = RecordDenied(meter)
  /\ UNCHANGED <<pending, wire, queued, delivered>>

\* Mutant: the socket is kept whatever became of the tunnel meanwhile.
ConnectUnchecked(i) ==
  /\ Idle
  /\ meter.rec[i].route \in OpenRoutes
  /\ wire[i] = "none"
  /\ wire' = [wire EXCEPT ![i] = "live"]
  /\ UNCHANGED <<meter, pending, queued, delivered>>

\* _adopt: the connect of an open tunnel succeeded.
Connect(i) ==
  /\ Idle
  /\ i \in meter.open
  /\ wire[i] = "none"
  /\ wire' = [wire EXCEPT ![i] = "live"]
  /\ UNCHANGED <<meter, pending, queued, delivered>>

\* _continue_session: a new record takes over p's connection and p closes.
Continue(p) ==
  LET i == meter.next
      opened == ContinueConnection(OpenTunnel(meter, "http-connect", p), p, i)
  IN  /\ Idle
      /\ i \in Ids
      /\ p \notin meter.closing
      /\ wire[p] = "live"
      /\ meter.rec[p].route = "http-connect"
      /\ meter' = Finish(opened, p, "ok")
      /\ wire' = [wire EXCEPT ![p] = "gone", ![i] = "live"]
      /\ queued' = [queued EXCEPT ![p] = 0, ![i] = queued[p]]
      /\ UNCHANGED <<pending, delivered>>

Update(i) ==
  /\ Idle
  /\ Exists(meter, i)
  /\ MayNote(i)
  /\ meter' = Annotate(meter, i)
  /\ UNCHANGED <<pending, wire, queued, delivered>>

\* _pump_response: the answer's status is recorded, and with it what a normal
\* close of a record that the provider answers will say (407, or not).
Answered(i, status) ==
  /\ Idle
  /\ i \in meter.open
  /\ wire[i] = "live"
  /\ meter.rec[i].route = "http-connect"
  /\ MayNote(i)
  /\ meter' = SetOkStatus(Annotate(meter, i), i, status)
  /\ UNCHANGED <<pending, wire, queued, delivered>>

\* Only an upstream proxy is negotiated with, and before any payload is sent.
Negotiating(i) ==
  /\ meter.rec[i].route \in {"http-connect", "socks5"}
  /\ meter.rec[i].negSent = meter.rec[i].sent

\* http_connect, _socks5_exchange: a reply head was read.
Negotiated(i, n) ==
  /\ Idle
  /\ wire[i] = "live"
  /\ Negotiating(i)
  /\ meter' = MarkNegotiationReceived(meter, i, n)
  /\ UNCHANGED <<pending, wire, queued, delivered>>

\* A tunnel whose setup fails: mark_all_negotiation and finish, back to back.
\* The meter may have closed it before (a trip during the setup).
FailSetup(i) ==
  /\ Idle
  /\ Exists(meter, i)
  /\ meter.rec[i].route \in OpenRoutes
  /\ meter.rec[i].negSent = meter.rec[i].sent
  /\ meter' = Finish(MarkAllNegotiation(meter, i), i, "failed:setup")
  /\ UNCHANGED <<pending, wire, queued, delivered>>

-----------------------------------------------------------------------------
(* Bytes.                                                                  *)

\* Mutant: a second event of the same count replaces the first.
CountLastEvent(w) ==
  /\ meter' = w
  /\ pending' = [abort |-> ToAbort(meter, w),
                 events |-> LET due == ToDeliver(meter, w)
                            IN  IF due = <<>> THEN due ELSE <<due[Len(due)]>>]

\* The locked part of _add took the meter to w; its tail is now due.
Count(w) ==
  /\ meter' = w
  /\ pending' = [abort |-> ToAbort(meter, w), events |-> ToDeliver(meter, w)]

\* UpstreamConnection.write: hand n bytes to the transport, which passes them to
\* the kernel at once, when its buffer is empty and the kernel has room, or
\* buffers them; then count them.
Write(i, n, neg) ==
  /\ Idle
  /\ wire[i] = "live"
  /\ i \notin meter.closing
  /\ neg > 0 => Negotiating(i)
  /\ Traffic + n <= MaxTraffic
  /\ \E k \in (IF queued[i] = 0 THEN {0, n} ELSE {0}) :
       queued' = [queued EXCEPT ![i] = @ + n - k]
  /\ Count(AddSent(meter, i, n, neg))
  /\ UNCHANGED <<wire, delivered>>

\* The kernel takes what a transport's write buffer holds.
Flush(i) ==
  /\ Idle
  /\ wire[i] = "live"
  /\ queued[i] > 0
  /\ queued' = [queued EXCEPT ![i] = 0]
  /\ UNCHANGED <<meter, pending, wire, delivered>>

\* _CountingProtocol.data_received
Receive(i, n) ==
  /\ Idle
  /\ wire[i] = "live"
  /\ Traffic + n <= MaxTraffic
  /\ Count(AddReceived(meter, i, n))
  /\ UNCHANGED <<wire, queued, delivered>>

-----------------------------------------------------------------------------
(* Closing.                                                                *)

CloseTunnel(i, status) ==
  /\ Idle
  /\ Exists(meter, i)
  /\ meter.rec[i].route \in OpenRoutes
  /\ meter' = Finish(meter, i, status)
  /\ UNCHANGED <<pending, wire, queued, delivered>>

\* UpstreamConnection.abort of a live transport.
Abort(i) ==
  /\ wire' = [wire EXCEPT ![i] = "gone"]
  /\ queued' = [queued EXCEPT ![i] = 0]
  /\ meter' = DiscardSent(meter, i, queued[i])

\* The server aborts an upstream connection (a reset, a failed exchange, idle).
AbortConnection(i) ==
  /\ Idle
  /\ wire[i] = "live"
  /\ Abort(i)
  /\ UNCHANGED <<pending, delivered>>

\* UpstreamConnection.close: the transport stops reading and flushes.
CloseConnection(i) ==
  /\ Idle
  /\ wire[i] = "live"
  /\ i \in meter.closing
  /\ wire' = [wire EXCEPT ![i] = "gone"]
  /\ queued' = [queued EXCEPT ![i] = 0]
  /\ UNCHANGED <<meter, pending, delivered>>

\* close_all at Forwarder.stop: its aborts are a tail like that of a count.
StopAll ==
  /\ Idle
  /\ meter.open # {}
  /\ Count(CloseAll(meter, "ok"))
  /\ UNCHANGED <<wire, queued, delivered>>

-----------------------------------------------------------------------------
(* The unlocked tail, and the snapshot thread.                             *)

\* abort_transports of the next closed tunnel, the oldest first.
RunAbort(i) ==
  /\ i \in pending.abort
  /\ \A j \in pending.abort : i <= j
  /\ pending' = [pending EXCEPT !.abort = @ \ {i}]
  /\ IF wire[i] = "live" THEN Abort(i) ELSE UNCHANGED <<meter, wire, queued>>
  /\ UNCHANGED delivered

\* One budget callback; what it raises is swallowed.
RunCallback ==
  /\ pending.abort = {}
  /\ pending.events # <<>>
  /\ pending' = [pending EXCEPT !.events = Tail(@)]
  /\ delivered' = Append(delivered, Head(pending.events))
  /\ UNCHANGED <<meter, wire, queued>>

TakeSnapshot ==
  /\ meter' = Snapshot(meter)
  /\ UNCHANGED <<pending, wire, queued, delivered>>

Next ==
  \/ \E route \in Routes : Open(route)
  \/ Deny
  \/ \E i \in Ids :
       \/ Connect(i)
       \/ Continue(i)
       \/ Update(i)
       \/ \E status \in {"ok", "failed:upstream_status"} : Answered(i, status)
       \/ \E n \in Chunks : Negotiated(i, n) \/ Receive(i, n)
       \/ \E n \in Chunks : \E neg \in {0, n} : Write(i, n, neg)
       \/ FailSetup(i)
       \/ Flush(i)
       \/ \E status \in Endings : CloseTunnel(i, status)
       \/ AbortConnection(i)
       \/ CloseConnection(i)
       \/ RunAbort(i)
  \/ StopAll
  \/ RunCallback
  \/ TakeSnapshot

Spec == Init /\ [][Next]_vars

-----------------------------------------------------------------------------
(* Properties.                                                             *)

TypeOK ==
  /\ meter \in Meters
  /\ pending \in [abort : SUBSET Ids, events : Seq(Events)]
  /\ wire \in [Ids -> {"none", "live", "gone"}]
  /\ queued \in [Ids -> Nat]
  /\ delivered \in Seq(Events)

TotalCounted(records) ==
  SumFunctionOnSet([i \in Ids |-> CountedBytes(records[i])],
                   {i \in Ids : IsTarget(records[i])})

\* A snapshot adds up at every moment it could be taken, between a count and
\* its aborts included: the records it hands out, most of them cached copies,
\* sum over target tunnels to the counted_bytes beside them (contract 3.7).
SnapshotAddsUp == TotalCounted(Snapshot(meter).copies) = meter.counted

\* The snapshot cache is never stale: a record that is neither open nor marked
\* dirty equals its cached copy, whatever touched it after it closed.
CopiesCurrent ==
  \A i \in Ids \ (meter.open \cup meter.dirty) : meter.copies[i] = meter.rec[i]

\* --max-tunnel-mb limits an upstream connection, not a record: a tunnel that is
\* still open has counted less than the cap, together with every earlier record
\* whose connection it continues, and what it carried over is what they hold.
UnderCap ==
  \A i \in Ids :
    LET p == meter.rec[i].from
    IN  /\ meter.base[i] = IF p = 0 THEN 0 ELSE ConnectionBytes(meter, p)
        /\ Cap # 0 /\ i \in meter.open /\ IsTarget(meter.rec[i])
             => ConnectionBytes(meter, i) < Cap

EventsOf(kind) == {j \in DOMAIN meter.events : meter.events[j].kind = kind}
ClosedBy(status) == {i \in Ids : meter.rec[i].status = status}

\* A trip happens at most once, after the warning, at the first count that
\* reaches the budget; its event tells how many tunnels it closed, and those are
\* the tunnels with status "budget", also after discards and later closes.
TripExact ==
  /\ meter.warned <=> EventsOf("warn_80") # {}
  /\ meter.tripped <=> EventsOf("tripped") # {}
  /\ \A j, k \in EventsOf("warn_80") : j = k
  /\ \A k \in EventsOf("tripped") :
       /\ \A j \in EventsOf("tripped") : j = k
       /\ \E j \in EventsOf("warn_80") : j < k
       /\ meter.events[k].counted >= Budget
       /\ meter.events[k].closed = Cardinality(ClosedBy("budget"))
  /\ ~meter.tripped => ClosedBy("budget") = {}

\* A trip is never late: while the budget has not tripped, the count is below it.
UnderBudget == Budget # 0 /\ ~meter.tripped => meter.counted < Budget

\* The budget callbacks get every event once, in the order the meter decided
\* them, the warning of a count that also trips included.
CallbacksInOrder == delivered \o pending.events = meter.events

\* When the meter itself closes a tunnel, its transport does not outlive the tail
\* of that call: nothing more is read or sent for it.
ClosedTunnelsAborted ==
  \A i \in ClosedBy("budget") \cup ClosedBy("tunnel_cap") :
    wire[i] = "live" => i \in pending.abort

\* The negotiation sub-counts stay parts of the totals, also when an abort
\* uncounts bytes of a CONNECT request that never left.
NegotiationWithinTotals ==
  \A i \in Ids :
    /\ meter.rec[i].negSent <= meter.rec[i].sent
    /\ meter.rec[i].negRecv <= meter.rec[i].recv

\* The meter implements the ledger: ids in order, one final status per record,
\* one trip that closes every open tunnel in the same step.
LedgerView == INSTANCE Ledger WITH
  status  <- [i \in Ids |-> meter.rec[i].status],
  created <- meter.next - 1,
  tripped <- meter.tripped
LedgerSpec == LedgerView!Spec

=============================================================================
