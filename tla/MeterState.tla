----------------------------- MODULE MeterState -----------------------------
(***************************************************************************)
(* The state of forwarder/meter.py's Meter, and each of its methods as an  *)
(* operator from one state to the next.                                    *)
(*                                                                         *)
(* A method of Meter holds one lock from its first read to its last write, *)
(* so an operator is one atomic step.  The server calls several of them in *)
(* a row between two awaits; a module that models the server composes the  *)
(* operators, a module that models the meter alone takes one at a time.    *)
(*                                                                         *)
(* A byte count keeps its arithmetic; addresses, timestamps, credentials   *)
(* and sizes that no count depends on are the single field "note".         *)
(***************************************************************************)
EXTENDS Integers, Sequences, FiniteSets

CONSTANTS
  MaxRecords, \* bound: how many tunnel records a behaviour may create
  Budget,     \* budget_bytes; 0 stands for None
  WarnAt,     \* the least count that is >= warn_fraction * budget_bytes
  Cap         \* max_tunnel_bytes; 0 stands for None

ASSUME MeterAssumption ==
  /\ MaxRecords \in Nat \ {0}
  /\ Budget \in Nat
  /\ WarnAt \in Nat
  /\ Budget # 0 => WarnAt <= Budget   \* BUDGET_WARN_FRACTION is 0.8
  /\ Cap \in Nat

-----------------------------------------------------------------------------
(* Records and events.                                                     *)

Ids == 1 .. MaxRecords

TargetRoutes == {"http-connect", "socks5", "direct"}
OpenRoutes   == TargetRoutes \cup {"non-target"}

Failures == {"failed:upstream_status", "failed:setup", "failed:client_closed",
             "failed:upstream_reset", "failed:upstream_closed", "failed:internal"}
FinalStatuses == {"ok", "denied", "budget", "tunnel_cap"} \cup Failures

Records ==
  [route   : OpenRoutes \cup {"refused", "none"},
   status  : {"none", "open"} \cup FinalStatuses,
   sent    : Nat,      \* upstream_bytes_sent
   recv    : Nat,      \* upstream_bytes_received
   negSent : Nat,      \* negotiation_bytes_sent
   negRecv : Nat,      \* negotiation_bytes_received
   from    : 0 .. MaxRecords, \* continued_from; 0 stands for None
   note    : Nat]      \* the other fields: changes when one of them does

\* What an index of the record list holds before its record exists.
NoRecord == [route |-> "none", status |-> "none", sent |-> 0, recv |-> 0,
             negSent |-> 0, negRecv |-> 0, from |-> 0, note |-> 0]

NewRecord(route, status, from) ==
  [NoRecord EXCEPT !.route = route, !.status = status, !.from = from]

CountedBytes(r) == r.sent + r.recv

IsTarget(r) == r.route \in TargetRoutes

Events == [kind : {"warn_80", "tripped", "tunnel_cap"}, counted : Nat, closed : Nat]

Event(kind, counted, closed) ==
  [kind |-> kind, counted |-> counted, closed |-> closed]

-----------------------------------------------------------------------------
(* The meter.  A Tunnel's own attributes are in closing, okStatus and base *)
(* (connection_base); open holds the keys of _open.                        *)

Meters ==
  [next     : 1 .. (MaxRecords + 1),
   rec      : [Ids -> Records],
   open     : SUBSET Ids,
   closing  : SUBSET Ids,
   okStatus : [Ids -> {"ok", "failed:upstream_status"}],
   base     : [Ids -> Nat],
   counted  : Nat,
   warned   : BOOLEAN,
   tripped  : BOOLEAN,
   events   : Seq(Events),
   copies   : [Ids -> Records],
   dirty    : SUBSET Ids]

NewMeter ==
  [next     |-> 1,
   rec      |-> [i \in Ids |-> NoRecord],
   open     |-> {},
   closing  |-> {},
   okStatus |-> [i \in Ids |-> "ok"],
   base     |-> [i \in Ids |-> 0],
   counted  |-> 0,
   warned   |-> FALSE,
   tripped  |-> FALSE,
   events   |-> <<>>,
   copies   |-> [i \in Ids |-> NoRecord],
   dirty    |-> {}]

Exists(m, i) == i < m.next

\* Tunnel.connection_bytes
ConnectionBytes(m, i) == m.base[i] + CountedBytes(m.rec[i])

-----------------------------------------------------------------------------
(* Opening records.                                                        *)

\* _append_locked: the next id, no copy yet, dirty.
AppendRecord(m, r) ==
  [m EXCEPT !.rec[m.next] = r, !.dirty = @ \cup {m.next}, !.next = @ + 1]

\* open_tunnel; from is the record whose connection it continues, or 0.
OpenTunnel(m, route, from) ==
  [AppendRecord(m, NewRecord(route, "open", from)) EXCEPT !.open = @ \cup {m.next}]

RecordDenied(m) == AppendRecord(m, NewRecord("refused", "denied", 0))

\* continue_connection: i carries on the upstream connection of p.
ContinueConnection(m, p, i) == [m EXCEPT !.base[i] = ConnectionBytes(m, p)]

-----------------------------------------------------------------------------
(* Field updates.                                                          *)

\* update, count_request, set_connect_sizes, set_synthetic_request_bytes and
\* add_client: some field that no count depends on changes.
Annotate(m, i) ==
  [m EXCEPT !.rec[i].note = @ + 1, !.dirty = @ \cup {i}]

\* Tunnel.ok_status is the server's to set; it is not part of the record.
SetOkStatus(m, i, status) == [m EXCEPT !.okStatus[i] = status]

Least(a, b) == IF a <= b THEN a ELSE b

MarkNegotiationReceived(m, i, n) ==
  [m EXCEPT !.rec[i].negRecv = Least(m.rec[i].recv, @ + n),
            !.dirty = @ \cup {i}]

MarkAllNegotiation(m, i) ==
  [m EXCEPT !.rec[i].negSent = m.rec[i].sent,
            !.rec[i].negRecv = m.rec[i].recv,
            !.dirty = @ \cup {i}]

-----------------------------------------------------------------------------
(* Closing tunnels.                                                        *)

\* "ok" stands for the tunnel's own ok_status.
FinalStatus(m, i, status) == IF status = "ok" THEN m.okStatus[i] ELSE status

\* Mutant: the last status wins.
FinishAgain(m, i, status) ==
  [m EXCEPT !.rec[i].status = FinalStatus(m, i, status),
            !.closing = @ \cup {i}, !.open = @ \ {i}, !.dirty = @ \cup {i}]

\* _finish_locked: the first status wins, closing is set in any case.
Finish(m, i, status) ==
  IF m.rec[i].status # "open"
  THEN [m EXCEPT !.closing = @ \cup {i}]
  ELSE [m EXCEPT !.rec[i].status = FinalStatus(m, i, status),
                 !.closing = @ \cup {i},
                 !.open = @ \ {i},
                 !.dirty = @ \cup {i}]

\* _close_all_locked
CloseAll(m, status) ==
  [m EXCEPT !.rec = [i \in Ids |->
                       IF i \in m.open
                       THEN [m.rec[i] EXCEPT !.status = FinalStatus(m, i, status)]
                       ELSE m.rec[i]],
            !.closing = @ \cup m.open,
            !.dirty = @ \cup m.open,
            !.open = {}]

-----------------------------------------------------------------------------
(* Counting.                                                               *)

Warn(m) ==
  IF Budget # 0 /\ ~m.warned /\ m.counted >= WarnAt
  THEN [m EXCEPT !.warned = TRUE,
                 !.events = Append(@, Event("warn_80", m.counted, 0))]
  ELSE m

\* Mutants: a trip that may come again; one that waits for the count to exceed
\* the budget.
TripDueAgain(m) == Budget # 0 /\ m.counted >= Budget
TripDueAbove(m) == Budget # 0 /\ ~m.tripped /\ m.counted > Budget

TripDue(m) == Budget # 0 /\ ~m.tripped /\ m.counted >= Budget

Trip(m) ==
  [CloseAll(m, "budget") EXCEPT
     !.tripped = TRUE,
     !.events = Append(@, Event("tripped", m.counted, Cardinality(m.open)))]

\* Mutant: the cap limits each record of a connection on its own.
CapDueOnRecord(m, i) ==
  Cap # 0 /\ i \notin m.closing /\ CountedBytes(m.rec[i]) >= Cap

CapDue(m, i) == Cap # 0 /\ i \notin m.closing /\ ConnectionBytes(m, i) >= Cap

CloseAtCap(m, i) ==
  [Finish(m, i, "tunnel_cap") EXCEPT
     !.events = Append(@, Event("tunnel_cap", ConnectionBytes(m, i), 1))]

\* _count_target_locked: the counter, the warning, then the trip or the cap.
CountTarget(m, i, n) ==
  LET w == Warn([m EXCEPT !.counted = @ + n])
  IN  IF TripDue(w) THEN Trip(w)
      ELSE IF CapDue(w, i) THEN CloseAtCap(w, i)
      ELSE w

CountInRecord(r, sent, recv, neg) ==
  [r EXCEPT !.sent = @ + sent,
            !.recv = @ + recv,
            !.negSent = @ + Least(sent, neg),
            !.negRecv = @ + Least(recv, neg)]

AddToRecord(m, i, sent, recv, neg) ==
  [m EXCEPT !.rec[i] = CountInRecord(@, sent, recv, neg), !.dirty = @ \cup {i}]

\* _add: one of sent and recv is 0.
Add(m, i, sent, recv, neg) ==
  LET a == AddToRecord(m, i, sent, recv, neg)
  IN  IF IsTarget(a.rec[i]) THEN CountTarget(a, i, sent + recv) ELSE a

AddSent(m, i, n, neg) == Add(m, i, n, 0, neg)
AddReceived(m, i, n)  == Add(m, i, 0, n, 0)

UncountFromRecord(r, n) ==
  [r EXCEPT !.sent = @ - n, !.negSent = Least(@, r.sent - n)]

Uncount(m, n) == IF m.counted >= n THEN m.counted - n ELSE 0

\* Mutants: the counter keeps what the record gives up; the cached copy stays;
\* more is taken back than was counted; the negotiation share is not cut.
DiscardSentKeepsCounter(m, i, n) ==
  LET k == Least(n, m.rec[i].sent)
  IN  [m EXCEPT !.rec[i] = UncountFromRecord(@, k), !.dirty = @ \cup {i}]

DiscardSentClean(m, i, n) ==
  LET k == Least(n, m.rec[i].sent)
  IN  [m EXCEPT !.rec[i] = UncountFromRecord(@, k),
                !.counted = IF IsTarget(m.rec[i]) THEN Uncount(m, k) ELSE @]

DiscardSentAll(m, i, n) ==
  [m EXCEPT !.rec[i] = UncountFromRecord(@, n),
            !.counted = IF IsTarget(m.rec[i]) THEN Uncount(m, n) ELSE @,
            !.dirty = @ \cup {i}]

DiscardSentPayload(m, i, n) ==
  LET k == Least(n, m.rec[i].sent)
  IN  [m EXCEPT !.rec[i].sent = @ - k,
                !.counted = IF IsTarget(m.rec[i]) THEN Uncount(m, k) ELSE @,
                !.dirty = @ \cup {i}]

\* discard_sent: n bytes of i never reached the kernel.  A trip or a cap they
\* caused stays in force.
DiscardSent(m, i, n) ==
  LET k == Least(n, m.rec[i].sent)
  IN  IF k <= 0 THEN m
      ELSE [m EXCEPT !.rec[i] = UncountFromRecord(@, k),
                     !.counted = IF IsTarget(m.rec[i]) THEN Uncount(m, k) ELSE @,
                     !.dirty = @ \cup {i}]

\* The tunnels _run_pending must abort, and the events it must hand to the
\* callbacks, after a step that took the meter from m to w.
ToAbort(m, w)   == w.closing \ m.closing
ToDeliver(m, w) == SubSeq(w.events, Len(m.events) + 1, Len(w.events))

-----------------------------------------------------------------------------
(* Snapshots: only the copies of open and dirty records are refreshed.     *)

Snapshot(m) ==
  [m EXCEPT !.copies = [i \in Ids |-> IF i \in m.dirty \cup m.open
                                      THEN m.rec[i] ELSE m.copies[i]],
            !.dirty = {}]

=============================================================================
