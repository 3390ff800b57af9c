---------------------------- MODULE MeterProofs -----------------------------
(***************************************************************************)
(* The meter's safety properties for every number of records, every budget,*)
(* warning level and cap, and whatever traffic the server makes.           *)
(*                                                                         *)
(* MeterInv is inductive.  TypeOK, CopiesCurrent and NegotiationWithinTotals *)
(* are its part Books; UnderBudget and UnderCap are Below and Chain.  Below *)
(* needs Books (what is open is not closing, so a due cap is never         *)
(* skipped), Chain needs Connections (a record whose connection was handed  *)
(* on has no live transport, so its counts stand still), and               *)
(* ClosedTunnelsAborted is inductive by itself given Books.                *)
(*                                                                         *)
(* EventInv adds what the events say of the meter (Told), whatever was     *)
(* taken out of the queue and not delivered yet.  Balanced adds that the   *)
(* total is the sum of the records.  The refinement of Ledger rests on     *)
(* MeterInv.                                                               *)
(*                                                                         *)
(* The last part is about the timeline, for any times, number of slots and *)
(* lookback: TimelineInv is inductive, as a round of the coarsening keeps  *)
(* what is known of a timeline, and the rounds end.                        *)
(***************************************************************************)
EXTENDS Meter, Timeline, MeterLemmas, SequenceTheorems

PartsOK ==
  /\ pending \in [abort : SUBSET Ids, events : Seq(Events)]
  /\ wire \in [Ids -> {"none", "live", "gone"}]
  /\ queued \in [Ids -> Nat]
  /\ delivered \in Seq(Events)

\* Only an existing tunnel, open or marked closing, has a live transport.
Connections ==
  \A i \in Ids : /\ wire[i] = "live" => i \in meter.open \cup meter.closing
                 /\ i >= meter.next => wire[i] = "none"

\* A record that continues another carries over what that one counted, and that
\* one has no transport any more.
Chain ==
  \A i \in Ids :
    IF meter.rec[i].from = 0
    THEN meter.base[i] = 0
    ELSE /\ meter.rec[i].from \in Ids
         /\ meter.rec[i].from < meter.next
         /\ wire[meter.rec[i].from] = "gone"
         /\ meter.base[i] = ConnectionBytes(meter, meter.rec[i].from)

MeterInv ==
  /\ Books(meter)
  /\ Below(meter)
  /\ PartsOK
  /\ Connections
  /\ Chain
  /\ ClosedTunnelsAborted

\* Open, closing and dirty ids are ids of records that exist.
LEMMA IdsBelowNext ==
  ASSUME NEW i \in Ids, meter \in Meters
  PROVE  ~(i >= meter.next) <=> i < meter.next
BY DEF Ids, Meters

\* The invariant holds at the start.
LEMMA InitInv == Init => MeterInv
<1> SUFFICES ASSUME Init PROVE MeterInv
  OBVIOUS
<1>1. NoRecord \in Records BY MeterAssumption DEF NoRecord, Records
<1>2. /\ meter.rec = [i \in Ids |-> NoRecord] /\ meter.base = [i \in Ids |-> 0]
      /\ meter.open = {} /\ meter.closing = {} /\ meter.dirty = {} /\ meter.next = 1
      /\ meter.copies = [i \in Ids |-> NoRecord] /\ meter.counted = 0
      /\ meter.okStatus = [i \in Ids |-> "ok"] /\ meter.events = <<>>
  BY DEF Init, NewMeter
<1>3. <<>> \in Seq(Events) OBVIOUS
<1>4. meter \in Meters
  <2>1. 1 \in 1 .. (MaxRecords + 1) BY MeterAssumption
  <2>2. QED BY <1>1, <1>3, <2>1 DEF Init, NewMeter, Meters
<1>5. Books(meter) BY <1>1, <1>2, <1>4 DEF Books, NoRecord
<1>6. Below(meter) BY <1>2, MeterAssumption DEF Below
<1>7. PartsOK BY <1>3 DEF Init, NothingPending, PartsOK
<1>8. Connections BY DEF Init, Connections
<1>9. Chain BY <1>2 DEF Chain, NoRecord
<1>10. ClosedTunnelsAborted BY DEF Init, ClosedTunnelsAborted, ClosedBy
<1>11. QED BY <1>5, <1>6, <1>7, <1>8, <1>9, <1>10 DEF MeterInv

\* A step of the meter that counts nothing, with the transports as they were.
LEMMA QuietStep ==
  ASSUME MeterInv, Books(meter'), Quiet(meter, meter'),
         UNCHANGED <<wire, queued, delivered>>,
         pending' \in [abort : SUBSET Ids, events : Seq(Events)],
         pending.abort \subseteq pending'.abort
  PROVE  MeterInv'
<1>1. meter \in Meters /\ meter.open \subseteq Ids BY DEF MeterInv, Books, Meters
<1>2. SameTunnels(meter, meter') /\ SameCounts(meter, meter') BY DEF Quiet
<1>3. Below(meter') BY <1>1, QuietBelow DEF MeterInv
<1>4. PartsOK' BY DEF MeterInv, PartsOK
<1>5. Connections' BY <1>2 DEF MeterInv, Connections, SameTunnels
<1>6. \A j \in Ids : ConnectionBytes(meter', j) = ConnectionBytes(meter, j)
  BY <1>2 DEF SameTunnels, SameCounts, ConnectionBytes, CountedBytes
<1>7. Chain' BY <1>2, <1>6 DEF MeterInv, Chain, SameTunnels
<1>8. ClosedTunnelsAborted' BY DEF MeterInv, ClosedTunnelsAborted, ClosedBy, Quiet
<1>9. QED BY <1>3, <1>4, <1>5, <1>7, <1>8 DEF MeterInv

\* Bytes of a live transport are counted, or taken back while it goes.
LEMMA BytesStep ==
  ASSUME MeterInv, NEW i \in Ids, wire[i] = "live",
         Books(meter'), Below(meter'), SameTunnels(meter, meter'),
         \A j \in Ids \ {i} : /\ meter'.rec[j].sent = meter.rec[j].sent
                              /\ meter'.rec[j].recv = meter.rec[j].recv,
         \A j \in Ids : \/ wire'[j] = wire[j]
                        \/ j = i /\ wire'[j] = "gone",
         PartsOK', ClosedTunnelsAborted'
  PROVE  MeterInv'
<1>1. \A j \in Ids \ {i} : ConnectionBytes(meter', j) = ConnectionBytes(meter, j)
  BY DEF SameTunnels, ConnectionBytes, CountedBytes
<1>2. i < meter.next BY IdsBelowNext DEF MeterInv, Connections, Books
<1>3. Connections'
  <2>1. \A j \in Ids : j >= meter.next => j # i BY IdsBelowNext, <1>2 DEF MeterInv, Books
  <2>2. QED BY <2>1 DEF MeterInv, Connections, SameTunnels
<1>4. Chain'
  <2> SUFFICES ASSUME NEW j \in Ids
               PROVE IF meter'.rec[j].from = 0
                     THEN meter'.base[j] = 0
                     ELSE /\ meter'.rec[j].from \in Ids
                          /\ meter'.rec[j].from < meter'.next
                          /\ wire'[meter'.rec[j].from] = "gone"
                          /\ meter'.base[j] = ConnectionBytes(meter', meter'.rec[j].from)
    BY DEF Chain
  <2>1. /\ meter'.rec[j].from = meter.rec[j].from /\ meter'.base[j] = meter.base[j]
        /\ meter'.next = meter.next
    BY DEF SameTunnels
  <2>2. CASE meter.rec[j].from = 0 BY <2>1, <2>2 DEF MeterInv, Chain
  <2>3. CASE meter.rec[j].from # 0
    <3>1. /\ meter.rec[j].from \in Ids /\ meter.rec[j].from < meter.next
          /\ wire[meter.rec[j].from] = "gone"
          /\ meter.base[j] = ConnectionBytes(meter, meter.rec[j].from)
      BY <2>3 DEF MeterInv, Chain
    <3>2. meter.rec[j].from # i BY <3>1
    <3>3. QED BY <1>1, <2>1, <2>3, <3>1, <3>2
  <2>4. QED BY <2>2, <2>3
<1>5. QED BY <1>3, <1>4 DEF MeterInv

\* What a count leaves for the callbacks is a sequence of events.
LEMMA ToDeliverType ==
  ASSUME NEW m \in Meters, NEW w \in Meters
  PROVE  ToDeliver(m, w) \in Seq(Events)
<1>1. m.events \in Seq(Events) /\ w.events \in Seq(Events) BY DEF Meters
<1>2. Len(m.events) + 1 \in Int /\ Len(w.events) \in Int BY <1>1
<1>3. \A j \in (Len(m.events) + 1) .. Len(w.events) : w.events[j] \in Events
  BY <1>1, <1>2, ElementOfSeq, LenProperties
<1>4. QED BY <1>2, <1>3, SubSeqProperties DEF ToDeliver

\* The pending tail of a step from meter to w is well formed.
LEMMA CountParts ==
  ASSUME MeterInv, NEW w \in Meters, Count(w)
  PROVE  pending' \in [abort : SUBSET Ids, events : Seq(Events)]
<1>1. meter \in Meters /\ w.closing \subseteq Ids BY DEF MeterInv, Books, Meters
<1>2. ToAbort(meter, w) \in SUBSET Ids BY <1>1 DEF ToAbort
<1>3. ToDeliver(meter, w) \in Seq(Events) BY <1>1, ToDeliverType
<1>4. QED BY <1>2, <1>3 DEF Count

\* A record with a live transport exists and is on a route that opens one.
LEMMA LiveExists ==
  ASSUME MeterInv, NEW i \in Ids, wire[i] = "live"
  PROVE  i < meter.next
BY IdsBelowNext DEF MeterInv, Connections, Books

\* Write and Receive.
LEMMA AddStep ==
  ASSUME MeterInv, Idle, NEW i \in Ids, wire[i] = "live",
         NEW s \in Nat, NEW v \in Nat, NEW neg \in Nat,
         Count(Add(meter, i, s, v, neg)),
         UNCHANGED <<wire, delivered>>, queued' \in [Ids -> Nat]
  PROVE  MeterInv'
<1> DEFINE w == Add(meter, i, s, v, neg)
<1>1. meter' = w /\ pending'.abort = ToAbort(meter, w) BY DEF Count
<1>2. i < meter.next BY LiveExists
<1>3. /\ Books(w) /\ Below(w) /\ SameTunnels(meter, w) /\ AbortsClosed(meter, w)
      /\ \A j \in Ids \ {i} : /\ w.rec[j].sent = meter.rec[j].sent
                            /\ w.rec[j].recv = meter.rec[j].recv
  BY <1>2, AddFacts DEF MeterInv
<1> HIDE DEF w
<1>4. pending' \in [abort : SUBSET Ids, events : Seq(Events)]
  BY <1>3, CountParts DEF w, Books
<1>5. PartsOK' BY <1>4 DEF MeterInv, PartsOK
<1>6. \A j \in ClosedBy("budget") \cup ClosedBy("tunnel_cap") : wire[j] # "live"
  BY DEF MeterInv, ClosedTunnelsAborted, Idle, NothingPending
<1>7. ClosedTunnelsAborted'
  BY <1>1, <1>3, <1>6 DEF ClosedTunnelsAborted, ClosedBy, AbortsClosed
<1>8. QED BY <1>1, <1>3, <1>5, <1>7, BytesStep

\* A transport is aborted, by the server or by the tail of a count.
LEMMA AbortStep ==
  ASSUME MeterInv, NEW i \in Ids, wire[i] = "live", Abort(i),
         UNCHANGED delivered,
         pending' \in [abort : SUBSET Ids, events : Seq(Events)],
         pending.abort \ {i} \subseteq pending'.abort
  PROVE  MeterInv'
<1>1. queued[i] \in Nat /\ i < meter.next BY LiveExists DEF MeterInv, PartsOK
<1>2. /\ Books(meter') /\ Below(meter') /\ SameTunnels(meter, meter')
      /\ \A j \in Ids : meter'.rec[j].status = meter.rec[j].status
      /\ \A j \in Ids \ {i} : /\ meter'.rec[j].sent = meter.rec[j].sent
                            /\ meter'.rec[j].recv = meter.rec[j].recv
  BY <1>1, DiscardSentFacts DEF MeterInv, Abort
<1>3. wire' = [wire EXCEPT ![i] = "gone"] /\ queued' = [queued EXCEPT ![i] = 0] BY DEF Abort
<1>4. PartsOK' BY <1>3 DEF MeterInv, PartsOK
<1>5. wire'[i] = "gone" /\ \A j \in Ids \ {i} : wire'[j] = wire[j]
  BY <1>3 DEF MeterInv, PartsOK
<1>6. ClosedTunnelsAborted'
  BY <1>2, <1>5 DEF MeterInv, ClosedTunnelsAborted, ClosedBy
<1>7. QED BY <1>2, <1>4, <1>5, <1>6, BytesStep

\* Every record before the new one stays, with its transport.
LEMMA NewRecordStep ==
  ASSUME MeterInv, meter.next \in Ids, NEW r,
         r.status \in {"open", "denied"}, r.from = 0, r.sent = 0, r.recv = 0,
         Adds(meter, meter', r), meter'.base = meter.base, Books(meter'),
         UNCHANGED <<pending, wire, queued, delivered>>
  PROVE  MeterInv'
<1>1. meter \in Meters /\ meter.next \in Nat BY DEF MeterInv, Books, Ids
<1>2. Cap # 0 => 0 < Cap BY MeterAssumption
<1>3. Below(meter') BY <1>2, AddsBelow DEF MeterInv
<1>4. PartsOK' BY DEF MeterInv, PartsOK
<1>5. \A j \in Ids : j >= meter.next + 1 => j >= meter.next BY <1>1 DEF Ids
<1>6. Connections' BY <1>5 DEF MeterInv, Connections, Adds
<1>7. meter.base[meter.next] = 0 BY <1>1 DEF MeterInv, Books, Ids
<1>8. Chain'
  <2> SUFFICES ASSUME NEW j \in Ids
               PROVE IF meter'.rec[j].from = 0
                     THEN meter'.base[j] = 0
                     ELSE /\ meter'.rec[j].from \in Ids
                          /\ meter'.rec[j].from < meter'.next
                          /\ wire'[meter'.rec[j].from] = "gone"
                          /\ meter'.base[j] = ConnectionBytes(meter', meter'.rec[j].from)
    BY DEF Chain
  <2>1. CASE j = meter.next BY <2>1, <1>7 DEF Adds
  <2>2. CASE j # meter.next /\ meter.rec[j].from = 0
    BY <2>2 DEF Adds, MeterInv, Chain
  <2>3. CASE j # meter.next /\ meter.rec[j].from # 0
    <3> DEFINE p == meter.rec[j].from
    <3>1. /\ p \in Ids /\ p < meter.next /\ wire[p] = "gone"
          /\ meter.base[j] = ConnectionBytes(meter, p)
      BY <2>3 DEF MeterInv, Chain
    <3>2. meter'.rec[j] = meter.rec[j] BY <2>3 DEF Adds
    <3> HIDE DEF p
    <3>3. p # meter.next /\ p < meter.next + 1 BY <1>1, <3>1 DEF Ids
    <3>4. ConnectionBytes(meter', p) = ConnectionBytes(meter, p)
      BY <3>1, <3>3 DEF Adds, ConnectionBytes
    <3>5. QED BY <2>3, <3>1, <3>2, <3>3, <3>4 DEF Adds, p
  <2>4. QED BY <2>1, <2>2, <2>3
<1>9. ClosedTunnelsAborted' BY DEF MeterInv, ClosedTunnelsAborted, ClosedBy, Adds
<1>10. QED BY <1>3, <1>4, <1>6, <1>8, <1>9 DEF MeterInv

\* The record of a continued connection: its transport passes to the new one.
LEMMA ContinueStep ==
  ASSUME MeterInv, NEW p \in Ids, Continue(p)
  PROVE  MeterInv'
<1> DEFINE i == meter.next
           o == ContinueConnection(OpenTunnel(meter, "http-connect", p), p, i)
           r == NewRecord("http-connect", "open", p)
<1>1. /\ i \in Ids /\ wire[p] = "live" /\ meter' = Finish(o, p, "ok")
      /\ wire' = [wire EXCEPT ![p] = "gone", ![i] = "live"]
      /\ queued' = [queued EXCEPT ![p] = 0, ![i] = queued[p]]
      /\ pending' = pending /\ delivered' = delivered
  BY DEF Continue
<1>2. p \in meter.open BY <1>1 DEF Continue, MeterInv, Connections
<1>3. p < i /\ meter \in Meters BY <1>1, LiveExists DEF MeterInv, Books
<1>4. /\ Books(o) /\ Below(o) /\ Adds(meter, o, r)
      /\ o.base = [meter.base EXCEPT ![i] = ConnectionBytes(meter, p)]
  BY <1>1, <1>2, ContinueFacts DEF Continue, MeterInv
<1> HIDE DEF o
<1>5. "ok" \in {"ok"} \cup Failures /\ "ok" \in FinalStatuses BY DEF FinalStatuses
<1>6. Quiet(o, meter') BY <1>1, <1>4, <1>5, FinishQuiet
<1>7. Books(meter')
  <2>1. p < o.next BY <1>3, <1>4 DEF Adds, Ids, Meters
  <2>2. QED BY <1>1, <1>4, <1>5, <2>1, FinishBooks
<1>8. Below(meter')
  <2>1. o.open \subseteq Ids BY <1>4 DEF Books, Meters
  <2>2. QED BY <1>4, <1>6, <2>1, QuietBelow
<1>9. i \in Nat /\ \A j \in Ids : j >= i + 1 => j >= i /\ j # i /\ j # p
  BY <1>3 DEF Ids, Meters
<1>10. /\ wire'[p] = "gone" /\ wire'[i] = "live" /\ \A j \in Ids \ {p, i} : wire'[j] = wire[j]
  BY <1>1, <1>3, <1>9 DEF MeterInv, PartsOK
<1>11. PartsOK'
  <2>1. queued[p] \in Nat BY DEF MeterInv, PartsOK
  <2>2. QED BY <1>1, <2>1 DEF MeterInv, PartsOK
<1>12. r.from = p /\ r.status = "open" /\ r.sent = 0 /\ r.recv = 0
  BY DEF NewRecord, NoRecord
<1>13. Connections'
  <2>1. meter'.next = i + 1 BY <1>4, <1>6 DEF Quiet, SameTunnels, Adds
  <2>2. \A j \in Ids : j >= meter'.next => wire'[j] = "none"
    BY <1>9, <1>10, <2>1 DEF MeterInv, Connections
  <2>3. o.open \cup o.closing \subseteq meter'.open \cup meter'.closing
    BY <1>6 DEF Quiet, SameTunnels
  <2>4. i \in o.open \cup o.closing BY <1>4, <1>12 DEF Adds
  <2>5. \A j \in Ids \ {p, i} : wire[j] = "live" => j \in o.open \cup o.closing
    BY <1>4 DEF MeterInv, Connections, Adds
  <2>6. QED BY <1>10, <2>2, <2>3, <2>4, <2>5 DEF Connections
<1>14. \A j \in Ids \ {i} : ConnectionBytes(meter', j) = ConnectionBytes(meter, j)
  <2> SUFFICES ASSUME NEW j \in Ids \ {i}
               PROVE  ConnectionBytes(meter', j) = ConnectionBytes(meter, j)
    OBVIOUS
  <2>1. o.rec[j] = meter.rec[j] /\ o.base[j] = meter.base[j] BY <1>3, <1>4 DEF Adds, Meters
  <2>2. /\ meter'.base = o.base
        /\ meter'.rec[j].sent = o.rec[j].sent /\ meter'.rec[j].recv = o.rec[j].recv
    BY <1>6 DEF Quiet, SameTunnels, SameCounts
  <2>3. QED BY <2>1, <2>2 DEF ConnectionBytes, CountedBytes
<1>15. Chain'
  <2> SUFFICES ASSUME NEW j \in Ids
               PROVE IF meter'.rec[j].from = 0
                     THEN meter'.base[j] = 0
                     ELSE /\ meter'.rec[j].from \in Ids
                          /\ meter'.rec[j].from < meter'.next
                          /\ wire'[meter'.rec[j].from] = "gone"
                          /\ meter'.base[j] = ConnectionBytes(meter', meter'.rec[j].from)
    BY DEF Chain
  <2>1. /\ meter'.rec[j].from = o.rec[j].from /\ meter'.base[j] = o.base[j]
        /\ meter'.next = i + 1
    BY <1>4, <1>6 DEF Quiet, SameTunnels, Adds
  <2>2. CASE j = i
    <3>1. meter'.rec[j].from = p /\ meter'.base[j] = ConnectionBytes(meter, p)
      BY <1>1, <1>3, <1>4, <1>12, <2>1, <2>2 DEF Adds, Meters
    <3>2. p # 0 /\ p < i + 1 /\ p # i BY <1>3, <1>9 DEF Ids
    <3>3. QED BY <1>10, <1>14, <2>1, <3>1, <3>2
  <2>3. CASE j # i /\ meter.rec[j].from = 0
    <3>1. o.rec[j] = meter.rec[j] /\ o.base[j] = meter.base[j]
      BY <1>3, <1>4, <2>3 DEF Adds, Meters
    <3>2. QED BY <2>1, <2>3, <3>1 DEF MeterInv, Chain
  <2>4. CASE j # i /\ meter.rec[j].from # 0
    <3> DEFINE q == meter.rec[j].from
    <3>1. /\ q \in Ids /\ q < i /\ wire[q] = "gone"
          /\ meter.base[j] = ConnectionBytes(meter, q)
      BY <2>4 DEF MeterInv, Chain
    <3>2. o.rec[j] = meter.rec[j] /\ o.base[j] = meter.base[j]
      BY <1>3, <1>4, <2>4 DEF Adds, Meters
    <3>3. meter'.rec[j].from = q BY <2>1, <3>2
    <3>4. q # 0 BY <2>4
    <3> HIDE DEF q
    <3>5. q # i /\ q # p /\ q < i + 1 BY <1>1, <1>9, <3>1 DEF Ids
    <3>6. wire'[q] = "gone" /\ ConnectionBytes(meter', q) = ConnectionBytes(meter, q)
      BY <1>10, <1>14, <3>1, <3>5
    <3>7. QED BY <2>1, <3>1, <3>2, <3>3, <3>4, <3>5, <3>6
  <2>5. QED BY <2>2, <2>3, <2>4
<1>16. ClosedTunnelsAborted'
  <2> SUFFICES ASSUME NEW j \in Ids, meter'.rec[j].status \in {"budget", "tunnel_cap"},
                      wire'[j] = "live"
               PROVE  j \in pending'.abort
    BY DEF ClosedTunnelsAborted, ClosedBy
  <2>1. o.rec[j].status = meter'.rec[j].status BY <1>6 DEF Quiet
  <2>2. j # i BY <1>4, <1>12, <2>1 DEF Adds
  <2>3. meter.rec[j].status = meter'.rec[j].status /\ wire[j] = "live"
    BY <1>4, <1>10, <2>1, <2>2 DEF Adds
  <2>4. QED BY <1>1, <2>3 DEF MeterInv, ClosedTunnelsAborted, ClosedBy
<1>17. QED BY <1>7, <1>8, <1>11, <1>13, <1>15, <1>16 DEF MeterInv

\* Every step of the meter keeps the invariant.
LEMMA NextInv == MeterInv /\ [Next]_vars => MeterInv'
<1> SUFFICES ASSUME MeterInv, [Next]_vars PROVE MeterInv'
  OBVIOUS
<1> USE TrafficAssumption
<1>1. meter \in Meters /\ pending \in [abort : SUBSET Ids, events : Seq(Events)]
  BY DEF MeterInv, Books, PartsOK
<1>2. "failed:setup" \in {"ok"} \cup Failures /\ "ok" \in {"ok"} \cup Failures
      /\ {"ok"} \cup Failures \subseteq FinalStatuses
  BY DEF Failures, FinalStatuses
<1>3. ASSUME NEW route \in Routes, Open(route) PROVE MeterInv'
  <2> DEFINE r == NewRecord(route, "open", 0)
  <2>1. r.status = "open" /\ r.from = 0 /\ r.sent = 0 /\ r.recv = 0
    BY DEF NewRecord, NoRecord
  <2>2. meter.next \in Ids /\ 0 \in 0 .. MaxRecords /\ route \in OpenRoutes
    BY <1>3, MeterAssumption DEF Open
  <2>3. Books(meter') BY <1>3, <2>2, OpenTunnelBooks DEF Open, MeterInv
  <2>4. Adds(meter, meter', r) /\ meter'.base = meter.base
    BY <1>1, <1>3, <2>2, OpenTunnelAdds DEF Open
  <2> HIDE DEF r
  <2>5. QED BY <1>3, <2>1, <2>2, <2>3, <2>4, NewRecordStep DEF Open
<1>4. CASE Deny
  <2> DEFINE r == NewRecord("refused", "denied", 0)
  <2>1. r.status = "denied" /\ r.from = 0 /\ r.sent = 0 /\ r.recv = 0
    BY DEF NewRecord, NoRecord
  <2>2. Books(meter') /\ Adds(meter, meter', r) /\ meter'.base = meter.base
    BY <1>4, RecordDeniedFacts DEF Deny, MeterInv
  <2> HIDE DEF r
  <2>3. QED BY <1>4, <2>1, <2>2, NewRecordStep DEF Deny
<1>5. ASSUME NEW i \in Ids, Connect(i) PROVE MeterInv'
  <2>1. wire' = [wire EXCEPT ![i] = "live"] /\ i \in meter.open /\ wire[i] = "none"
        /\ UNCHANGED <<meter, pending, queued, delivered>>
    BY <1>5 DEF Connect
  <2>2. PartsOK' BY <2>1 DEF MeterInv, PartsOK
  <2>3. wire'[i] = "live" /\ \A j \in Ids \ {i} : wire'[j] = wire[j]
    BY <2>1 DEF MeterInv, PartsOK
  <2>4. meter.rec[i].status = "open" BY <2>1 DEF MeterInv, Books
  <2>5. ~(i >= meter.next) BY <2>4 DEF MeterInv, Books, NoRecord
  <2>6. Connections' BY <2>1, <2>3, <2>5 DEF MeterInv, Connections
  <2>7. Chain' BY <2>1, <2>3 DEF MeterInv, Chain
  <2>8. ClosedTunnelsAborted'
    BY <2>1, <2>3, <2>4 DEF MeterInv, ClosedTunnelsAborted, ClosedBy
  <2>9. Books(meter') /\ Below(meter') BY <2>1 DEF MeterInv
  <2>10. QED BY <2>2, <2>6, <2>7, <2>8, <2>9 DEF MeterInv
<1>6. ASSUME NEW i \in Ids, Continue(i) PROVE MeterInv'
  BY <1>6, ContinueStep
<1>7. ASSUME NEW i \in Ids, Update(i) PROVE MeterInv'
  <2>1. i < meter.next /\ meter' = Annotate(meter, i) BY <1>7 DEF Update, Exists
  <2>2. Books(meter') BY <2>1, AnnotateBooks DEF MeterInv
  <2>3. Quiet(meter, meter') BY <1>1, <2>1, AnnotateQuiet
  <2>4. QED BY <1>1, <1>7, <2>2, <2>3, QuietStep DEF Update
<1>8. ASSUME NEW i \in Ids, NEW status \in {"ok", "failed:upstream_status"},
             Answered(i, status)
      PROVE  MeterInv'
  <2> DEFINE a == Annotate(meter, i)
  <2>1. i < meter.next /\ meter' = SetOkStatus(a, i, status)
    BY <1>8, LiveExists DEF Answered
  <2>2. Books(a) /\ Quiet(meter, a) BY <1>1, <2>1, AnnotateBooks, AnnotateQuiet DEF MeterInv
  <2> HIDE DEF a
  <2>3. Books(meter') /\ Quiet(a, meter') BY <2>1, <2>2, SetOkStatusKeeps
  <2>4. Quiet(meter, meter') BY <2>2, <2>3, QuietTwice
  <2>5. QED BY <1>1, <1>8, <2>3, <2>4, QuietStep DEF Answered
<1>9. ASSUME NEW i \in Ids, NEW n \in Chunks, Negotiated(i, n) PROVE MeterInv'
  <2>1. i < meter.next /\ meter' = MarkNegotiationReceived(meter, i, n) /\ n \in Nat
    BY <1>9, LiveExists DEF Negotiated
  <2>2. Books(meter') BY <2>1, MarkNegotiationReceivedBooks DEF MeterInv
  <2>3. Quiet(meter, meter') BY <1>1, <2>1, MarkNegotiationReceivedQuiet
  <2>4. QED BY <1>1, <1>9, <2>2, <2>3, QuietStep DEF Negotiated
<1>10. ASSUME NEW i \in Ids, NEW n \in Chunks, Receive(i, n) PROVE MeterInv'
  <2>1. Count(Add(meter, i, 0, n, 0)) /\ n \in Nat /\ 0 \in Nat /\ Idle /\ wire[i] = "live"
    BY <1>10 DEF Receive, AddReceived
  <2>2. queued' \in [Ids -> Nat] BY <1>10 DEF Receive, MeterInv, PartsOK
  <2>3. QED BY <1>10, <2>1, <2>2, AddStep DEF Receive
<1>11. ASSUME NEW i \in Ids, NEW n \in Chunks, NEW neg \in {0, n}, Write(i, n, neg)
       PROVE  MeterInv'
  <2>1. /\ Count(Add(meter, i, n, 0, neg)) /\ n \in Nat /\ neg \in Nat /\ 0 \in Nat
        /\ Idle /\ wire[i] = "live"
    BY <1>11 DEF Write, AddSent
  <2>2. PICK k \in {0, n} : queued' = [queued EXCEPT ![i] = @ + n - k]
    BY <1>11 DEF Write
  <2>3. queued[i] \in Nat /\ queued \in [Ids -> Nat] BY DEF MeterInv, PartsOK
  <2>4. queued[i] + n - k \in Nat BY <2>1, <2>2, <2>3
  <2>5. queued' \in [Ids -> Nat] BY <2>2, <2>3, <2>4
  <2>6. QED BY <1>11, <2>1, <2>5, AddStep DEF Write
<1>12. ASSUME NEW i \in Ids, FailSetup(i) PROVE MeterInv'
  <2> DEFINE a == MarkAllNegotiation(meter, i)
  <2>1. i < meter.next /\ meter' = Finish(a, i, "failed:setup") BY <1>12 DEF FailSetup, Exists
  <2>2. Books(a) /\ Quiet(meter, a)
    BY <1>1, <2>1, MarkAllNegotiationBooks, MarkAllNegotiationQuiet DEF MeterInv
  <2> HIDE DEF a
  <2>3. i < a.next BY <2>1, <2>2 DEF Quiet, SameTunnels
  <2>4. Books(meter') BY <1>2, <2>1, <2>2, <2>3, FinishBooks
  <2>5. Quiet(a, meter') BY <1>2, <2>1, <2>2, FinishQuiet
  <2>6. Quiet(meter, meter') BY <2>2, <2>5, QuietTwice
  <2>7. QED BY <1>1, <1>12, <2>4, <2>6, QuietStep DEF FailSetup
<1>13. ASSUME NEW i \in Ids, Flush(i) PROVE MeterInv'
  <2>1. queued' = [queued EXCEPT ![i] = 0] /\ UNCHANGED <<meter, pending, wire, delivered>>
    BY <1>13 DEF Flush
  <2>2. PartsOK' BY <2>1 DEF MeterInv, PartsOK
  <2>3. QED BY <2>1, <2>2
             DEF MeterInv, Connections, Chain, ClosedTunnelsAborted, ClosedBy
<1>14. ASSUME NEW i \in Ids, NEW status \in Endings, CloseTunnel(i, status) PROVE MeterInv'
  <2>1. i < meter.next /\ meter' = Finish(meter, i, status) BY <1>14 DEF CloseTunnel, Exists
  <2>2. status \in {"ok"} \cup Failures /\ status \in FinalStatuses BY <1>2
  <2>3. Books(meter') BY <2>1, <2>2, FinishBooks DEF MeterInv
  <2>4. Quiet(meter, meter') BY <2>1, <2>2, FinishQuiet DEF MeterInv
  <2>5. QED BY <1>1, <1>14, <2>3, <2>4, QuietStep DEF CloseTunnel
<1>15. ASSUME NEW i \in Ids, AbortConnection(i) PROVE MeterInv'
  BY <1>1, <1>15, AbortStep DEF AbortConnection
<1>16. ASSUME NEW i \in Ids, CloseConnection(i) PROVE MeterInv'
  <2>1. /\ wire' = [wire EXCEPT ![i] = "gone"] /\ queued' = [queued EXCEPT ![i] = 0]
        /\ UNCHANGED <<meter, pending, delivered>> /\ wire[i] = "live"
    BY <1>16 DEF CloseConnection
  <2>2. PartsOK' BY <2>1 DEF MeterInv, PartsOK
  <2>3. wire'[i] = "gone" /\ \A j \in Ids \ {i} : wire'[j] = wire[j]
    BY <2>1 DEF MeterInv, PartsOK
  <2>4. ClosedTunnelsAborted'
    BY <2>1, <2>3 DEF MeterInv, ClosedTunnelsAborted, ClosedBy
  <2>5. Books(meter') /\ Below(meter') /\ SameTunnels(meter, meter')
    BY <2>1 DEF MeterInv, SameTunnels
  <2>6. QED BY <2>1, <2>2, <2>3, <2>4, <2>5, BytesStep
<1>17. ASSUME NEW i \in Ids, RunAbort(i) PROVE MeterInv'
  <2>1. pending' = [pending EXCEPT !.abort = @ \ {i}] /\ UNCHANGED delivered
    BY <1>17 DEF RunAbort
  <2>2. /\ pending' \in [abort : SUBSET Ids, events : Seq(Events)]
        /\ pending'.abort = pending.abort \ {i}
    BY <1>1, <2>1
  <2>3. CASE wire[i] = "live"
    <3>1. Abort(i) BY <1>17, <2>3 DEF RunAbort
    <3>2. QED BY <2>1, <2>2, <2>3, <3>1, AbortStep
  <2>4. CASE wire[i] # "live"
    <3>1. UNCHANGED <<meter, wire, queued>> BY <1>17, <2>4 DEF RunAbort
    <3>2. ClosedTunnelsAborted'
      BY <2>2, <2>4, <3>1 DEF MeterInv, ClosedTunnelsAborted, ClosedBy
    <3>3. PartsOK' BY <2>1, <2>2, <3>1 DEF MeterInv, PartsOK
    <3>4. QED BY <3>1, <3>2, <3>3 DEF MeterInv, Connections, Chain
  <2>5. QED BY <2>3, <2>4
<1>18. CASE StopAll
  <2>1. Count(CloseAll(meter, "ok")) BY <1>18 DEF StopAll
  <2>2. Books(CloseAll(meter, "ok")) BY <1>2, CloseAllBooks DEF MeterInv
  <2>3. Quiet(meter, CloseAll(meter, "ok")) BY CloseAllQuiet DEF MeterInv
  <2>4. pending' \in [abort : SUBSET Ids, events : Seq(Events)]
    BY <2>1, <2>2, CountParts DEF Books
  <2>5. pending.abort = {} BY <1>18 DEF StopAll, Idle, NothingPending
  <2>6. meter' = CloseAll(meter, "ok") BY <2>1 DEF Count
  <2>7. QED BY <1>18, <2>2, <2>3, <2>4, <2>5, <2>6, QuietStep DEF StopAll
<1>19. CASE RunCallback
  <2>1. pending.events \in Seq(Events) /\ pending.events # <<>> /\ delivered \in Seq(Events)
    BY <1>1, <1>19 DEF RunCallback, MeterInv, PartsOK
  <2>2. Head(pending.events) \in Events /\ Tail(pending.events) \in Seq(Events)
    BY <2>1, HeadTailProperties
  <2>3. /\ pending' = [pending EXCEPT !.events = Tail(pending.events)]
        /\ delivered' = Append(delivered, Head(pending.events))
        /\ UNCHANGED <<meter, wire, queued>>
    BY <1>19 DEF RunCallback
  <2>4. /\ pending' \in [abort : SUBSET Ids, events : Seq(Events)]
        /\ pending'.abort = pending.abort /\ delivered' \in Seq(Events)
    <3>1. Append(delivered, Head(pending.events)) \in Seq(Events) BY <2>1, <2>2, AppendProperties
    <3>2. /\ pending' \in [abort : SUBSET Ids, events : Seq(Events)]
          /\ pending'.abort = pending.abort
      <4> DEFINE t == Tail(pending.events)
      <4>1. pending' = [pending EXCEPT !.events = t] /\ t \in Seq(Events) BY <2>2, <2>3
      <4> HIDE DEF t
      <4>2. QED BY <1>1, <4>1
    <3>3. QED BY <2>3, <3>1, <3>2
  <2>5. PartsOK' BY <2>3, <2>4 DEF MeterInv, PartsOK
  <2>6. QED BY <2>3, <2>4, <2>5
             DEF MeterInv, Connections, Chain, ClosedTunnelsAborted, ClosedBy
<1>20. CASE TakeSnapshot
  <2>1. Books(meter') /\ Quiet(meter, meter')
    BY <1>20, SnapshotKeeps DEF TakeSnapshot, MeterInv
  <2>2. QED BY <1>1, <1>20, <2>1, QuietStep DEF TakeSnapshot
<1>21. CASE UNCHANGED vars
  BY <1>21 DEF vars, MeterInv, PartsOK, Connections, Chain, ClosedTunnelsAborted, ClosedBy
<1>22. QED
  BY <1>3, <1>4, <1>5, <1>6, <1>7, <1>8, <1>9, <1>10, <1>11, <1>12, <1>13, <1>14,
     <1>15, <1>16, <1>17, <1>18, <1>19, <1>20, <1>21 DEF Next

\* The invariant holds throughout.
LEMMA Invariant == Spec => []MeterInv
<1>1. QED BY InitInv, NextInv, PTL DEF Spec

\* Every variable keeps its type, whatever the server asks of the meter.
THEOREM TypeCorrect == Spec => []TypeOK
<1>1. MeterInv => TypeOK BY DEF MeterInv, Books, PartsOK, TypeOK
<1>2. QED BY <1>1, Invariant, PTL

\* Meter.snapshot may hand out the cached copy of a record that is neither open
\* nor dirty: no later call can have changed the record behind it.
THEOREM CopiesAreCurrent == Spec => []CopiesCurrent
<1>1. MeterInv => CopiesCurrent BY DEF MeterInv, Books, CopiesCurrent
<1>2. QED BY <1>1, Invariant, PTL

\* negotiation_bytes_* never exceed upstream_bytes_*, also after discard_sent.
THEOREM NegotiationIsPart == Spec => []NegotiationWithinTotals
<1>1. MeterInv => NegotiationWithinTotals BY DEF MeterInv, Books, NegotiationWithinTotals
<1>2. QED BY <1>1, Invariant, PTL

\* _count_target_locked trips in the very call that reaches the budget.
THEOREM TripsInTime == Spec => []UnderBudget
<1>1. MeterInv => UnderBudget BY DEF MeterInv, Below, UnderBudget
<1>2. QED BY <1>1, Invariant, PTL

\* max_tunnel_bytes holds for a connection over all the records that used it.
THEOREM CapPerConnection == Spec => []UnderCap
<1>1. MeterInv => UnderCap
  <2> SUFFICES ASSUME MeterInv, NEW i \in Ids
               PROVE  LET p == meter.rec[i].from
                      IN  /\ meter.base[i] = IF p = 0 THEN 0 ELSE ConnectionBytes(meter, p)
                          /\ Cap # 0 /\ i \in meter.open /\ IsTarget(meter.rec[i])
                               => ConnectionBytes(meter, i) < Cap
    BY DEF UnderCap
  <2>1. QED BY DEF MeterInv, Chain, Below
<1>2. QED BY <1>1, Invariant, PTL

\* A tunnel that _trip or the cap closes loses its transport before the loop
\* thread does anything else.
THEOREM AbortsWhatItCloses == Spec => []ClosedTunnelsAborted
<1>1. MeterInv => ClosedTunnelsAborted BY DEF MeterInv
<1>2. QED BY <1>1, Invariant, PTL

-----------------------------------------------------------------------------
(* The events and the callbacks.                                           *)

EventInv ==
  /\ Told(meter)
  /\ CallbacksInOrder

\* The meter has no new event, and the callbacks were given none.
LEMMA SilentStep ==
  ASSUME EventInv, Told(meter'), SaysNothing(meter, meter'),
         pending'.events = pending.events, delivered' = delivered
  PROVE  EventInv'
BY DEF EventInv, CallbacksInOrder, SaysNothing

\* A sequence is any prefix of it, then the rest.
LEMMA SplitSequence ==
  ASSUME NEW e \in Seq(Events), NEW d \in Seq(Events), Len(e) <= Len(d),
         \A j \in 1 .. Len(e) : d[j] = e[j]
  PROVE  e \o SubSeq(d, Len(e) + 1, Len(d)) = d
<1> DEFINE t == SubSeq(d, Len(e) + 1, Len(d))
<1>1. Len(e) \in Nat /\ Len(d) \in Nat BY LenProperties
<1>2. Len(e) + 1 \in Int /\ Len(d) \in Int BY <1>1
<1>3. \A j \in (Len(e) + 1) .. Len(d) : d[j] \in Events BY <1>1, ElementOfSeq
<1>4. /\ t \in Seq(Events)
      /\ Len(t) = IF Len(e) + 1 <= Len(d) THEN Len(d) - (Len(e) + 1) + 1 ELSE 0
      /\ \A j \in 1 .. (Len(d) - (Len(e) + 1) + 1) : t[j] = d[(Len(e) + 1) + j - 1]
  BY <1>2, <1>3, SubSeqProperties
<1> HIDE DEF t
<1>5. Len(t) = Len(d) - Len(e) BY <1>1, <1>4
<1>6. e \o t \in Seq(Events) /\ Len(e \o t) = Len(d) BY <1>1, <1>4, <1>5, ConcatProperties
<1>7. \A j \in 1 .. Len(d) : (e \o t)[j] = d[j]
  <2> SUFFICES ASSUME NEW j \in 1 .. Len(d) PROVE (e \o t)[j] = d[j]
    OBVIOUS
  <2>1. (e \o t)[j] = IF j <= Len(e) THEN e[j] ELSE t[j - Len(e)]
    BY <1>1, <1>4, <1>5, ConcatProperties
  <2>2. CASE j <= Len(e)
    <3>1. j \in 1 .. Len(e) BY <1>1, <2>2
    <3>2. QED BY <2>1, <2>2, <3>1
  <2>3. CASE ~(j <= Len(e))
    <3>1. j - Len(e) \in 1 .. (Len(d) - (Len(e) + 1) + 1) BY <1>1, <2>3
    <3>2. (Len(e) + 1) + (j - Len(e)) - 1 = j BY <1>1
    <3>3. t[j - Len(e)] = d[j] BY <1>4, <3>1, <3>2
    <3>4. QED BY <2>1, <2>3, <3>3
  <2>4. QED BY <2>2, <2>3
<1>8. e \o t = d BY <1>6, <1>7, SeqEqual
<1>9. QED BY <1>8 DEF t

\* What the meter had decided and what a count adds are all its events.
LEMMA SplitEvents ==
  ASSUME NEW m \in Meters, NEW w \in Meters, Extends(m, w)
  PROVE  m.events \o ToDeliver(m, w) = w.events
<1>1. m.events \in Seq(Events) /\ w.events \in Seq(Events) BY DEF Meters
<1>2. QED BY <1>1, SplitSequence DEF Extends, ToDeliver

\* Write and Receive hand the callbacks exactly what the count added.
LEMMA AddEvents ==
  ASSUME MeterInv, MeterInv', EventInv, Idle, NEW i \in Ids, wire[i] = "live",
         NEW s \in Nat, NEW v \in Nat, NEW neg \in Nat,
         Count(Add(meter, i, s, v, neg)), delivered' = delivered
  PROVE  EventInv'
<1> DEFINE w == Add(meter, i, s, v, neg)
<1>1. meter' = w /\ pending'.events = ToDeliver(meter, w) BY DEF Count
<1>2. i < meter.next BY LiveExists
<1>3. Told(w) /\ Extends(meter, w) BY <1>2, AddTold DEF MeterInv, EventInv
<1> HIDE DEF w
<1>4. meter \in Meters /\ w \in Meters BY <1>1 DEF MeterInv, Books
<1>5. meter.events \o ToDeliver(meter, w) = w.events BY <1>3, <1>4, SplitEvents
<1>6. delivered \in Seq(Events) /\ pending.events = <<>>
  BY DEF MeterInv, PartsOK, Idle, NothingPending
<1>7. delivered = meter.events BY <1>6, ConcatEmptySeq DEF EventInv, CallbacksInOrder
<1>8. QED BY <1>1, <1>3, <1>5, <1>7 DEF EventInv, CallbacksInOrder

\* A step that aborts a transport, or leaves the meter as it is.
LEMMA AbortEvents ==
  ASSUME MeterInv, EventInv, NEW i \in Ids, wire[i] = "live", Abort(i),
         pending'.events = pending.events, delivered' = delivered
  PROVE  EventInv'
<1>1. queued[i] \in Nat /\ i < meter.next BY LiveExists DEF MeterInv, PartsOK
<1>2. SaysNothing(meter, meter') /\ \A j \in Ids : meter'.rec[j].status = meter.rec[j].status
  BY <1>1, DiscardSentFacts DEF MeterInv, Abort
<1>3. Budgeted(meter') = Budgeted(meter) BY <1>2 DEF Budgeted
<1>4. Told(meter') BY <1>2, <1>3, SilentTold DEF EventInv
<1>5. QED BY <1>2, <1>4, SilentStep

\* A quiet step.
LEMMA QuietEvents ==
  ASSUME MeterInv, EventInv, Quiet(meter, meter'),
         pending'.events = pending.events, delivered' = delivered
  PROVE  EventInv'
<1>1. Told(meter') BY QuietTold DEF MeterInv, EventInv
<1>2. QED BY <1>1, SilentStep DEF Quiet

\* The events stay true and in order in every step.
LEMMA NextEvents == MeterInv /\ MeterInv' /\ EventInv /\ [Next]_vars => EventInv'
<1> SUFFICES ASSUME MeterInv, MeterInv', EventInv, [Next]_vars PROVE EventInv'
  OBVIOUS
<1> USE TrafficAssumption
<1>1. meter \in Meters /\ Books(meter) BY DEF MeterInv, Books
<1>2. {"ok"} \cup Failures \subseteq FinalStatuses /\ "failed:setup" \in {"ok"} \cup Failures
  BY DEF Failures, FinalStatuses
<1>3. ASSUME NEW route \in Routes, Open(route) PROVE EventInv'
  <2>1. Adds(meter, meter', NewRecord(route, "open", 0)) BY <1>1, <1>3, OpenTunnelAdds DEF Open
  <2>2. NewRecord(route, "open", 0).status # "budget" BY DEF NewRecord, NoRecord
  <2>3. Told(meter') BY <1>1, <1>3, <2>1, <2>2, AddsTold DEF EventInv, Open
  <2>4. QED BY <1>3, <2>1, <2>3, SilentStep DEF Open, Adds
<1>4. CASE Deny
  <2>1. Adds(meter, meter', NewRecord("refused", "denied", 0))
    BY <1>1, <1>4, RecordDeniedFacts DEF Deny
  <2>2. NewRecord("refused", "denied", 0).status # "budget" BY DEF NewRecord, NoRecord
  <2>3. Told(meter') BY <1>1, <1>4, <2>1, <2>2, AddsTold DEF EventInv, Deny
  <2>4. QED BY <1>4, <2>1, <2>3, SilentStep DEF Deny, Adds
<1>5. ASSUME NEW i \in Ids, Connect(i) PROVE EventInv'
  BY <1>5 DEF Connect, EventInv, CallbacksInOrder
<1>6. ASSUME NEW p \in Ids, Continue(p) PROVE EventInv'
  <2> DEFINE o == ContinueConnection(OpenTunnel(meter, "http-connect", p), p, meter.next)
             r == NewRecord("http-connect", "open", p)
  <2>1. /\ meter.next \in Ids /\ p \in meter.open /\ meter' = Finish(o, p, "ok")
        /\ pending' = pending /\ delivered' = delivered
    BY <1>6 DEF Continue, MeterInv, Connections
  <2>2. Books(o) /\ Adds(meter, o, r)
    BY <1>6, <2>1, ContinueFacts DEF Continue, MeterInv
  <2>3. r.status # "budget" BY DEF NewRecord, NoRecord
  <2> HIDE DEF o, r
  <2>4. Told(o) BY <1>1, <2>1, <2>2, <2>3, AddsTold DEF EventInv
  <2>5. Quiet(o, meter') BY <1>2, <2>1, <2>2, FinishQuiet
  <2>6. Told(meter') BY <2>2, <2>4, <2>5, QuietTold
  <2>7. SaysNothing(meter, meter') BY <2>2, <2>5 DEF Adds, Quiet, SaysNothing
  <2>8. QED BY <2>1, <2>6, <2>7, SilentStep
<1>7. ASSUME NEW i \in Ids, Update(i) PROVE EventInv'
  BY <1>1, <1>7, AnnotateQuiet, QuietEvents DEF Update
<1>8. ASSUME NEW i \in Ids, NEW status \in {"ok", "failed:upstream_status"},
             Answered(i, status)
      PROVE  EventInv'
  <2> DEFINE a == Annotate(meter, i)
  <2>1. i < meter.next /\ meter' = SetOkStatus(a, i, status)
    BY <1>8, LiveExists DEF Answered
  <2>2. Books(a) /\ Quiet(meter, a) BY <1>1, <2>1, AnnotateBooks, AnnotateQuiet
  <2> HIDE DEF a
  <2>3. Quiet(meter, meter') BY <2>1, <2>2, SetOkStatusKeeps, QuietTwice
  <2>4. QED BY <1>8, <2>3, QuietEvents DEF Answered
<1>9. ASSUME NEW i \in Ids, NEW n \in Chunks, Negotiated(i, n) PROVE EventInv'
  <2>1. n \in Nat OBVIOUS
  <2>2. QED BY <1>1, <1>9, <2>1, MarkNegotiationReceivedQuiet, QuietEvents DEF Negotiated
<1>10. ASSUME NEW i \in Ids, NEW n \in Chunks, Receive(i, n) PROVE EventInv'
  <2>1. Count(Add(meter, i, 0, n, 0)) /\ n \in Nat /\ 0 \in Nat /\ Idle /\ wire[i] = "live"
    BY <1>10 DEF Receive, AddReceived
  <2>2. QED BY <1>10, <2>1, AddEvents DEF Receive
<1>11. ASSUME NEW i \in Ids, NEW n \in Chunks, NEW neg \in {0, n}, Write(i, n, neg)
       PROVE  EventInv'
  <2>1. n \in Nat /\ neg \in Nat /\ 0 \in Nat OBVIOUS
  <2>2. Count(Add(meter, i, n, 0, neg)) /\ Idle /\ wire[i] = "live"
    BY <1>11 DEF Write, AddSent
  <2>3. QED BY <1>11, <2>1, <2>2, AddEvents DEF Write
<1>12. ASSUME NEW i \in Ids, FailSetup(i) PROVE EventInv'
  <2> DEFINE a == MarkAllNegotiation(meter, i)
  <2>1. i < meter.next /\ meter' = Finish(a, i, "failed:setup") BY <1>12 DEF FailSetup, Exists
  <2>2. Books(a) /\ Quiet(meter, a)
    BY <1>1, <2>1, MarkAllNegotiationBooks, MarkAllNegotiationQuiet
  <2> HIDE DEF a
  <2>3. Quiet(a, meter') BY <1>2, <2>1, <2>2, FinishQuiet
  <2>4. Quiet(meter, meter') BY <2>2, <2>3, QuietTwice
  <2>5. QED BY <1>12, <2>4, QuietEvents DEF FailSetup
<1>13. ASSUME NEW i \in Ids, Flush(i) PROVE EventInv'
  BY <1>13 DEF Flush, EventInv, CallbacksInOrder
<1>14. ASSUME NEW i \in Ids, NEW status \in Endings, CloseTunnel(i, status) PROVE EventInv'
  <2>1. status \in {"ok"} \cup Failures OBVIOUS
  <2>2. QED BY <1>1, <1>14, <2>1, FinishQuiet, QuietEvents DEF CloseTunnel
<1>15. ASSUME NEW i \in Ids, AbortConnection(i) PROVE EventInv'
  BY <1>15, AbortEvents DEF AbortConnection
<1>16. ASSUME NEW i \in Ids, CloseConnection(i) PROVE EventInv'
  BY <1>16 DEF CloseConnection, EventInv, CallbacksInOrder
<1>17. ASSUME NEW i \in Ids, RunAbort(i) PROVE EventInv'
  <2>1. pending'.events = pending.events /\ delivered' = delivered
    BY <1>17 DEF RunAbort, MeterInv, PartsOK
  <2>2. CASE wire[i] = "live"
    <3>1. Abort(i) BY <1>17, <2>2 DEF RunAbort
    <3>2. QED BY <2>1, <2>2, <3>1, AbortEvents
  <2>3. CASE wire[i] # "live"
    <3>1. meter' = meter BY <1>17, <2>3 DEF RunAbort
    <3>2. QED BY <2>1, <3>1 DEF EventInv, CallbacksInOrder
  <2>4. QED BY <2>2, <2>3
<1>18. CASE StopAll
  <2>1. meter' = CloseAll(meter, "ok") /\ pending'.events = ToDeliver(meter, meter')
        /\ delivered' = delivered
    BY <1>18 DEF StopAll, Count
  <2>2. Quiet(meter, meter') BY <1>1, <2>1, CloseAllQuiet
  <2>3. meter'.events = meter.events BY <2>2 DEF Quiet, SaysNothing
  <2>4. meter.events \in Seq(Events) /\ Len(meter.events) \in Nat
    BY <1>1, LenProperties DEF Meters
  <2>5. ToDeliver(meter, meter') = <<>> BY <2>3, <2>4, SubSeqEmpty DEF ToDeliver
  <2>6. pending.events = <<>> BY <1>18 DEF StopAll, Idle, NothingPending
  <2>7. QED BY <2>1, <2>2, <2>5, <2>6, QuietEvents
<1>19. CASE RunCallback
  <2> DEFINE q == pending.events
  <2>1. q \in Seq(Events) /\ q # <<>> /\ delivered \in Seq(Events)
    BY <1>19 DEF RunCallback, MeterInv, PartsOK
  <2>2. /\ pending' = [pending EXCEPT !.events = Tail(q)]
        /\ delivered' = Append(delivered, Head(q)) /\ meter' = meter
    BY <1>19 DEF RunCallback
  <2>3. pending'.events = Tail(q) BY <2>2 DEF MeterInv, PartsOK
  <2> HIDE DEF q
  <2>4. Head(q) \in Events /\ Tail(q) \in Seq(Events) BY <2>1, HeadTailProperties
  <2>5. delivered' = delivered \o <<Head(q)>> BY <2>1, <2>2, <2>4, AppendIsConcat
  <2>6. <<Head(q)>> \in Seq(Events) BY <2>4
  <2>7. (delivered \o <<Head(q)>>) \o Tail(q) = delivered \o (<<Head(q)>> \o Tail(q))
    BY <2>1, <2>4, <2>6, ConcatAssociative
  <2>8. <<Head(q)>> \o Tail(q) = q BY <2>1
  <2>9. delivered' \o pending'.events = delivered \o q BY <2>3, <2>5, <2>7, <2>8
  <2>10. QED BY <2>2, <2>9 DEF EventInv, CallbacksInOrder, q
<1>20. CASE TakeSnapshot
  <2>1. Quiet(meter, meter') BY <1>1, <1>20, SnapshotKeeps DEF TakeSnapshot
  <2>2. QED BY <1>20, <2>1, QuietEvents DEF TakeSnapshot
<1>21. CASE UNCHANGED vars
  BY <1>21 DEF vars, EventInv, CallbacksInOrder
<1>22. QED
  BY <1>3, <1>4, <1>5, <1>6, <1>7, <1>8, <1>9, <1>10, <1>11, <1>12, <1>13, <1>14,
     <1>15, <1>16, <1>17, <1>18, <1>19, <1>20, <1>21 DEF Next

\* No event and no trip at the start.
LEMMA InitEvents == Init => EventInv
<1> SUFFICES ASSUME Init PROVE EventInv
  OBVIOUS
<1>1. /\ meter.events = <<>> /\ ~meter.warned /\ ~meter.tripped
      /\ meter.rec = [i \in Ids |-> NoRecord]
      /\ delivered = <<>> /\ pending.events = <<>>
  BY DEF Init, NewMeter, NothingPending
<1>2. Budgeted(meter) = {} BY <1>1 DEF Budgeted, NoRecord
<1>3. 1 .. Len(meter.events) = {} BY <1>1
<1>4. Told(meter) BY <1>1, <1>2, <1>3 DEF Told
<1>5. <<>> \o <<>> = <<>> OBVIOUS
<1>6. QED BY <1>1, <1>4, <1>5 DEF EventInv, CallbacksInOrder

\* EventInv is inductive.
LEMMA EventInvariant == Spec => []EventInv
<1>1. QED BY InitEvents, NextEvents, Invariant, PTL DEF Spec

\* Meter._run_pending gives the callbacks every event once, in the order in which
\* the locked parts of the counts decided them.
THEOREM CallbacksAreInOrder == Spec => []CallbacksInOrder
<1>1. EventInv => CallbacksInOrder BY DEF EventInv
<1>2. QED BY <1>1, EventInvariant, PTL

\* _trip happens once, after the warning, and its event tells exactly which tunnels
\* have the status "budget" ever after.
THEOREM TripIsExact == Spec => []TripExact
<1>1. MeterInv /\ EventInv => TripExact
  <2> SUFFICES ASSUME MeterInv, Told(meter) PROVE TripExact
    BY DEF EventInv
  <2>1. meter.events \in Seq(Events) BY DEF MeterInv, Books, Meters
  <2>2. DOMAIN meter.events = 1 .. Len(meter.events) BY <2>1, LenProperties
  <2>3. ClosedBy("budget") = Budgeted(meter) BY DEF ClosedBy, Budgeted
  <2>4. \A j : j \in EventsOf("warn_80") <=>
          j \in 1 .. Len(meter.events) /\ meter.events[j].kind = "warn_80"
    BY <2>2 DEF EventsOf
  <2>5. \A j : j \in EventsOf("tripped") <=>
          j \in 1 .. Len(meter.events) /\ meter.events[j].kind = "tripped"
    BY <2>2 DEF EventsOf
  <2>6. meter.warned <=> EventsOf("warn_80") # {} BY <2>4 DEF Told
  <2>7. meter.tripped <=> EventsOf("tripped") # {} BY <2>5 DEF Told
  <2>8. \A j, k \in EventsOf("warn_80") : j = k BY <2>4 DEF Told
  <2>9. ASSUME NEW k \in EventsOf("tripped")
        PROVE  /\ \A j \in EventsOf("tripped") : j = k
               /\ \E j \in EventsOf("warn_80") : j < k
               /\ meter.events[k].counted >= Budget
               /\ meter.events[k].closed = Cardinality(ClosedBy("budget"))
    BY <2>3, <2>4, <2>5 DEF Told
  <2>10. ~meter.tripped => ClosedBy("budget") = {} BY <2>3 DEF Told
  <2>11. QED BY <2>6, <2>7, <2>8, <2>9, <2>10 DEF TripExact
<1>2. QED BY <1>1, Invariant, EventInvariant, PTL

-----------------------------------------------------------------------------
(* The refinement of the ledger.                                           *)

\* The ledger's view of a step of the meter.
LEMMA LedgerStutters ==
  ASSUME meter'.next = meter.next, meter'.tripped = meter.tripped,
         \A j \in Ids : meter'.rec[j].status = meter.rec[j].status
  PROVE  UNCHANGED LedgerView!vars
BY DEF LedgerView!vars

\* A new record is a new entry of the ledger.
LEMMA LedgerCreates ==
  ASSUME MeterInv, meter.next \in Ids, NEW r, Adds(meter, meter', r),
         r.status \in {"open", "denied"}
  PROVE  LedgerView!Create
<1> DEFINE i == meter.next
           S == [j \in Ids |-> meter.rec[j].status]
           T == [j \in Ids |-> meter'.rec[j].status]
<1>1. i \in Ids /\ i \in Int BY DEF MeterInv, Books, Meters, Ids
<1>2. meter'.next = i + 1 /\ meter'.tripped = meter.tripped BY DEF Adds, SaysNothing
<1>3. i - 1 + 1 = i /\ meter'.next - 1 = i - 1 + 1 BY <1>1, <1>2
<1>4. T = [S EXCEPT ![i] = r.status] BY <1>1 DEF Adds
<1>5. T \in {[S EXCEPT ![i] = st] : st \in {"open", "denied"}} BY <1>4
<1>6. QED BY <1>1, <1>2, <1>3, <1>5 DEF LedgerView!Create

\* A step that closes i, if it was open.
LEMMA LedgerCloses ==
  ASSUME NEW i \in Ids, meter'.next = meter.next, meter'.tripped = meter.tripped,
         \A j \in Ids \ {i} : meter'.rec[j].status = meter.rec[j].status,
         meter.rec[i].status = "open", meter'.rec[i].status \in FinalStatuses
  PROVE  LedgerView!Close(i)
<1>1. meter'.rec[i].status \notin {"none", "open"} BY DEF FinalStatuses, Failures
<1>2. QED BY <1>1 DEF LedgerView!Close, LedgerView!Closes, LedgerView!IsFinal

\* What one call of finish does to the statuses.
LEMMA FinishStatus ==
  ASSUME NEW m, Books(m), NEW i \in Ids, NEW status \in FinalStatuses,
         NEW w, w = Finish(m, i, status)
  PROVE  /\ w.next = m.next /\ w.tripped = m.tripped
         /\ \A j \in Ids \ {i} : w.rec[j].status = m.rec[j].status
         /\ \/ w.rec[i].status = m.rec[i].status
            \/ m.rec[i].status = "open" /\ w.rec[i].status \in FinalStatuses
         /\ m.rec[i].status = "open" => w.rec[i].status \in FinalStatuses
<1>1. m \in Meters BY DEF Books
<1>2. CASE m.rec[i].status = "open"
  BY <1>1, <1>2, FinishOpenFields, FinalStatusType
<1>3. CASE m.rec[i].status # "open"
  BY <1>1, <1>3, FinishClosedFields
<1>4. QED BY <1>2, <1>3

\* Finishing a record closes its entry, or changes nothing that the ledger shows.
LEMMA LedgerFinishes ==
  ASSUME NEW a, Books(a), a.next = meter.next, a.tripped = meter.tripped,
         \A j \in Ids : a.rec[j].status = meter.rec[j].status,
         NEW i \in Ids, NEW status \in FinalStatuses, meter' = Finish(a, i, status)
  PROVE  LedgerView!Close(i) \/ UNCHANGED LedgerView!vars
<1>1. /\ meter'.next = meter.next /\ meter'.tripped = meter.tripped
      /\ \A j \in Ids \ {i} : meter'.rec[j].status = meter.rec[j].status
      /\ \/ meter'.rec[i].status = meter.rec[i].status
         \/ meter.rec[i].status = "open" /\ meter'.rec[i].status \in FinalStatuses
  BY FinishStatus
<1>2. CASE meter'.rec[i].status = meter.rec[i].status
  BY <1>1, <1>2, LedgerStutters
<1>3. CASE meter.rec[i].status = "open" /\ meter'.rec[i].status \in FinalStatuses
  BY <1>1, <1>3, LedgerCloses
<1>4. QED BY <1>1, <1>2, <1>3

\* A call that changes no status.
LEMMA LedgerKeeps ==
  ASSUME MeterInv, NEW a \in Meters, Quiet(meter, a), a.open = meter.open, Books(a),
         meter' = a
  PROVE  UNCHANGED LedgerView!vars
<1>1. a.next = meter.next /\ a.tripped = meter.tripped
  BY DEF Quiet, SameTunnels, SaysNothing
<1>2. \A j \in Ids : a.rec[j].status = meter.rec[j].status
  BY DEF Quiet, Books, MeterInv, FinalStatuses, Failures
<1>3. QED BY <1>1, <1>2, LedgerStutters

\* Write and Receive: nothing, a trip that closes all that is open, or one close.
LEMMA LedgerAdds ==
  ASSUME MeterInv, EventInv, NEW i \in Ids, wire[i] = "live",
         NEW s \in Nat, NEW v \in Nat, NEW neg \in Nat,
         Count(Add(meter, i, s, v, neg))
  PROVE  [LedgerView!Next]_(LedgerView!vars)
<1> DEFINE w == Add(meter, i, s, v, neg)
<1>1. meter' = w /\ i < meter.next BY LiveExists DEF Count
<1>2. CountCloses(meter, w, i) BY <1>1, AddTold DEF MeterInv, EventInv
<1>3. w.next = meter.next BY <1>1, AddFacts DEF MeterInv, SameTunnels
<1> HIDE DEF w
<1>4. \A j \in Ids : j \in meter.open <=> meter.rec[j].status = "open"
  BY DEF MeterInv, Books
<1>5. CASE w.tripped = meter.tripped /\ \A j \in Ids : w.rec[j].status = meter.rec[j].status
  BY <1>1, <1>3, <1>5, LedgerStutters
<1>6. CASE /\ ~meter.tripped /\ w.tripped
           /\ \A j \in Ids : w.rec[j].status =
                               IF j \in meter.open THEN "budget" ELSE meter.rec[j].status
  <2>1. LedgerView!Trip
    <3>1. \A j \in Ids : j \in LedgerView!Open <=> j \in meter.open
      BY <1>4 DEF LedgerView!Open
    <3>2. \A j \in LedgerView!Open : j \in Ids BY DEF LedgerView!Open
    <3>3. meter'.tripped = TRUE /\ ~meter.tripped BY <1>1, <1>6 DEF MeterInv, Books, Meters
    <3>4. LedgerView!Closes(LedgerView!Open)
      BY <1>1, <1>4, <1>6, <3>1, <3>2 DEF LedgerView!Closes, LedgerView!IsFinal
    <3>5. QED BY <1>1, <1>3, <1>6, <3>1, <3>2, <3>3, <3>4 DEF LedgerView!Trip
  <2>2. QED BY <2>1 DEF LedgerView!Next
<1>7. CASE /\ w.tripped = meter.tripped
           /\ \A j \in Ids \ {i} : w.rec[j].status = meter.rec[j].status
           /\ i \in meter.open /\ w.rec[i].status = "tunnel_cap"
  <2>1. w.rec[i].status \in FinalStatuses /\ meter.rec[i].status = "open"
    BY <1>4, <1>7 DEF FinalStatuses
  <2>2. LedgerView!Close(i) BY <1>1, <1>3, <1>7, <2>1, LedgerCloses
  <2>3. QED BY <2>2 DEF LedgerView!Next
<1>8. QED BY <1>2, <1>5, <1>6, <1>7 DEF CountCloses

\* A step that aborts a transport changes no status.
LEMMA LedgerAborts ==
  ASSUME MeterInv, NEW i \in Ids, wire[i] = "live", Abort(i)
  PROVE  UNCHANGED LedgerView!vars
<1>1. queued[i] \in Nat /\ i < meter.next BY LiveExists DEF MeterInv, PartsOK
<1>2. /\ SaysNothing(meter, meter') /\ SameTunnels(meter, meter')
      /\ \A j \in Ids : meter'.rec[j].status = meter.rec[j].status
  BY <1>1, DiscardSentFacts DEF MeterInv, Abort
<1>3. QED BY <1>2, LedgerStutters DEF SaysNothing, SameTunnels

\* A continued connection: one record begins as another ends.
LEMMA LedgerHandsOver ==
  ASSUME MeterInv, NEW p \in Ids, Continue(p)
  PROVE  LedgerView!HandOver(p)
<1> DEFINE i == meter.next
           o == ContinueConnection(OpenTunnel(meter, "http-connect", p), p, i)
           r == NewRecord("http-connect", "open", p)
           S == [j \in Ids |-> meter.rec[j].status]
           T == [j \in Ids |-> meter'.rec[j].status]
<1>1. i \in Ids /\ p \in meter.open /\ meter' = Finish(o, p, "ok")
  BY DEF Continue, MeterInv, Connections
<1>2. Books(o) /\ Adds(meter, o, r) BY <1>1, ContinueFacts DEF Continue, MeterInv
<1>3. r.status = "open" BY DEF NewRecord, NoRecord
<1> HIDE DEF o, r
<1>4. "ok" \in FinalStatuses BY DEF FinalStatuses
<1>5. meter.rec[p].status = "open" /\ meter.rec[i].status = "none"
  BY <1>1 DEF MeterInv, Books, Ids, NoRecord
<1>6. p # i BY <1>5
<1>7. o.rec[p].status = "open" BY <1>2, <1>5, <1>6 DEF Adds
<1>8. /\ meter'.next = o.next /\ meter'.tripped = o.tripped
      /\ \A j \in Ids \ {p} : meter'.rec[j].status = o.rec[j].status
      /\ meter'.rec[p].status \in FinalStatuses
  BY <1>1, <1>2, <1>4, <1>7, FinishStatus
<1>9. meter'.next = i + 1 /\ meter'.tripped = meter.tripped /\ i \in Int
  BY <1>2, <1>8 DEF Adds, SaysNothing, MeterInv, Books, Meters, Ids
<1>10. /\ meter'.rec[i].status = "open"
       /\ \A j \in Ids \ {p, i} : meter'.rec[j].status = meter.rec[j].status
  BY <1>1, <1>2, <1>3, <1>6, <1>8 DEF Adds
<1>11. T = [S EXCEPT ![p] = T[p], ![i] = "open"] BY <1>1, <1>6, <1>10
<1>12. T[p] \notin {"none", "open"} /\ S[p] = "open"
  BY <1>5, <1>8 DEF FinalStatuses, Failures
<1>13. i - 1 + 1 = i /\ meter'.next - 1 = i - 1 + 1 BY <1>9
<1>14. QED BY <1>1, <1>9, <1>11, <1>12, <1>13 DEF LedgerView!HandOver, LedgerView!IsFinal

\* close_all at Forwarder.stop.
LEMMA LedgerClosesAll ==
  ASSUME MeterInv, meter' = CloseAll(meter, "ok")
  PROVE  LedgerView!CloseOpen
<1>1. meter \in Meters /\ "ok" \in FinalStatuses /\ meter.open \subseteq Ids
  BY DEF MeterInv, Books, FinalStatuses, Meters
<1>2. /\ \A j \in Ids \ meter.open : meter'.rec[j] = meter.rec[j]
      /\ \A j \in meter.open : meter'.rec[j].status = FinalStatus(meter, j, "ok")
      /\ meter'.next = meter.next /\ meter'.tripped = meter.tripped
  BY <1>1, CloseAllFields
<1>3. \A j \in meter.open : meter'.rec[j].status \notin {"none", "open"}
  BY <1>1, <1>2, FinalStatusType
<1>4. \A j \in Ids : j \in LedgerView!Open <=> j \in meter.open
  BY DEF LedgerView!Open, MeterInv, Books
<1>5. \A j \in LedgerView!Open : j \in Ids /\ meter.rec[j].status = "open"
  BY DEF LedgerView!Open
<1>6. LedgerView!Closes(LedgerView!Open)
  BY <1>2, <1>3, <1>4, <1>5 DEF LedgerView!Closes, LedgerView!IsFinal
<1>7. QED BY <1>2, <1>6 DEF LedgerView!CloseOpen

\* Every step of the meter is a step of the ledger, or none.
LEMMA NextLedger ==
  MeterInv /\ EventInv /\ [Next]_vars => [LedgerView!Next]_(LedgerView!vars)
<1> SUFFICES ASSUME MeterInv, EventInv, [Next]_vars
             PROVE  [LedgerView!Next]_(LedgerView!vars)
  OBVIOUS
<1> USE TrafficAssumption
<1>1. meter \in Meters /\ Books(meter) BY DEF MeterInv, Books
<1>2. {"ok"} \cup Failures \subseteq FinalStatuses /\ "failed:setup" \in {"ok"} \cup Failures
  BY DEF Failures, FinalStatuses
<1>3. ASSUME NEW route \in Routes, Open(route) PROVE LedgerView!Create
  <2>1. Adds(meter, meter', NewRecord(route, "open", 0)) BY <1>1, <1>3, OpenTunnelAdds DEF Open
  <2>2. NewRecord(route, "open", 0).status = "open" BY DEF NewRecord, NoRecord
  <2>3. QED BY <1>3, <2>1, <2>2, LedgerCreates DEF Open
<1>4. ASSUME Deny PROVE LedgerView!Create
  <2>1. Adds(meter, meter', NewRecord("refused", "denied", 0))
    BY <1>1, <1>4, RecordDeniedFacts DEF Deny
  <2>2. NewRecord("refused", "denied", 0).status = "denied" BY DEF NewRecord, NoRecord
  <2>3. QED BY <1>4, <2>1, <2>2, LedgerCreates DEF Deny
<1>5. ASSUME meter' = meter PROVE UNCHANGED LedgerView!vars
  BY <1>5, LedgerStutters
<1>6. ASSUME NEW i \in Ids, Update(i) PROVE UNCHANGED LedgerView!vars
  <2> DEFINE a == Annotate(meter, i)
  <2>1. i < meter.next /\ meter' = a BY <1>6 DEF Update, Exists
  <2>2. Books(a) /\ Quiet(meter, a) /\ a \in Meters
    BY <1>1, <2>1, AnnotateBooks, AnnotateQuiet DEF Books
  <2>3. a.open = meter.open BY <1>1 DEF Annotate, Meters
  <2> HIDE DEF a
  <2>4. QED BY <2>1, <2>2, <2>3, LedgerKeeps
<1>7. ASSUME NEW i \in Ids, NEW status \in {"ok", "failed:upstream_status"},
             Answered(i, status)
      PROVE  UNCHANGED LedgerView!vars
  <2> DEFINE a == Annotate(meter, i)
             b == SetOkStatus(a, i, status)
  <2>1. i < meter.next /\ meter' = b BY <1>7, LiveExists DEF Answered
  <2>2. Books(a) /\ Quiet(meter, a) BY <1>1, <2>1, AnnotateBooks, AnnotateQuiet
  <2>3. a.open = meter.open BY <1>1 DEF Annotate, Meters
  <2> HIDE DEF a
  <2>4. Books(b) /\ Quiet(a, b) BY <2>2, SetOkStatusKeeps
  <2>5. b.open = a.open BY <2>2 DEF SetOkStatus, Books, Meters
  <2> HIDE DEF b
  <2>6. Quiet(meter, b) /\ b \in Meters BY <2>2, <2>4, QuietTwice DEF Books
  <2>7. QED BY <2>1, <2>3, <2>4, <2>5, <2>6, LedgerKeeps
<1>8. ASSUME NEW i \in Ids, NEW n \in Chunks, Negotiated(i, n)
      PROVE  UNCHANGED LedgerView!vars
  <2> DEFINE a == MarkNegotiationReceived(meter, i, n)
  <2>1. i < meter.next /\ meter' = a /\ n \in Nat BY <1>8, LiveExists DEF Negotiated
  <2>2. Books(a) /\ Quiet(meter, a) /\ a \in Meters
    BY <1>1, <2>1, MarkNegotiationReceivedBooks, MarkNegotiationReceivedQuiet DEF Books
  <2>3. a.open = meter.open BY <1>1 DEF MarkNegotiationReceived, Meters
  <2> HIDE DEF a
  <2>4. QED BY <2>1, <2>2, <2>3, LedgerKeeps
<1>9. ASSUME NEW i \in Ids, NEW n \in Chunks, Receive(i, n)
      PROVE  [LedgerView!Next]_(LedgerView!vars)
  <2>1. Count(Add(meter, i, 0, n, 0)) /\ n \in Nat /\ 0 \in Nat /\ wire[i] = "live"
    BY <1>9 DEF Receive, AddReceived
  <2>2. QED BY <2>1, LedgerAdds
<1>10. ASSUME NEW i \in Ids, NEW n \in Chunks, NEW neg \in {0, n}, Write(i, n, neg)
       PROVE  [LedgerView!Next]_(LedgerView!vars)
  <2>1. n \in Nat /\ neg \in Nat /\ 0 \in Nat OBVIOUS
  <2>2. Count(Add(meter, i, n, 0, neg)) /\ wire[i] = "live" BY <1>10 DEF Write, AddSent
  <2>3. QED BY <2>1, <2>2, LedgerAdds
<1>11. ASSUME NEW i \in Ids, FailSetup(i)
       PROVE  LedgerView!Close(i) \/ UNCHANGED LedgerView!vars
  <2> DEFINE a == MarkAllNegotiation(meter, i)
  <2>1. i < meter.next /\ meter' = Finish(a, i, "failed:setup") BY <1>11 DEF FailSetup, Exists
  <2>2. Books(a) /\ Quiet(meter, a)
    BY <1>1, <2>1, MarkAllNegotiationBooks, MarkAllNegotiationQuiet
  <2>3. a.open = meter.open BY <1>1 DEF MarkAllNegotiation, Meters
  <2> HIDE DEF a
  <2>4. a.next = meter.next /\ a.tripped = meter.tripped
    BY <2>2 DEF Quiet, SameTunnels, SaysNothing
  <2>5. \A j \in Ids : a.rec[j].status = meter.rec[j].status
    BY <1>1, <2>2, <2>3 DEF Quiet, Books, FinalStatuses, Failures
  <2>6. "failed:setup" \in FinalStatuses BY <1>2
  <2>7. QED BY <2>1, <2>2, <2>4, <2>5, <2>6, LedgerFinishes
<1>12. ASSUME NEW i \in Ids, NEW status \in Endings, CloseTunnel(i, status)
       PROVE  LedgerView!Close(i) \/ UNCHANGED LedgerView!vars
  <2>1. status \in FinalStatuses /\ meter' = Finish(meter, i, status)
    BY <1>2, <1>12 DEF CloseTunnel
  <2>2. QED BY <1>1, <2>1, LedgerFinishes
<1>13. ASSUME NEW i \in Ids, RunAbort(i) PROVE UNCHANGED LedgerView!vars
  <2>1. CASE wire[i] = "live"
    <3>1. Abort(i) BY <1>13, <2>1 DEF RunAbort
    <3>2. QED BY <2>1, <3>1, LedgerAborts
  <2>2. CASE wire[i] # "live"
    <3>1. meter' = meter BY <1>13, <2>2 DEF RunAbort
    <3>2. QED BY <3>1, <1>5
  <2>3. QED BY <2>1, <2>2
<1>14. ASSUME StopAll PROVE LedgerView!CloseOpen
  <2>1. meter' = CloseAll(meter, "ok") BY <1>14 DEF StopAll, Count
  <2>2. QED BY <2>1, LedgerClosesAll
<1>15. ASSUME TakeSnapshot PROVE UNCHANGED LedgerView!vars
  <2> DEFINE a == Snapshot(meter)
  <2>1. meter' = a BY <1>15 DEF TakeSnapshot
  <2>2. Books(a) /\ Quiet(meter, a) /\ a \in Meters BY <1>1, SnapshotKeeps DEF Books
  <2>3. a.open = meter.open BY <1>1 DEF Snapshot, Meters
  <2> HIDE DEF a
  <2>4. QED BY <2>1, <2>2, <2>3, LedgerKeeps
<1>16. ASSUME NEW i \in Ids, Connect(i) \/ Flush(i) \/ CloseConnection(i)
       PROVE  UNCHANGED LedgerView!vars
  BY <1>5, <1>16 DEF Connect, Flush, CloseConnection
<1>17. ASSUME NEW i \in Ids, AbortConnection(i) PROVE UNCHANGED LedgerView!vars
  BY <1>17, LedgerAborts DEF AbortConnection
<1>18. ASSUME RunCallback \/ UNCHANGED vars PROVE UNCHANGED LedgerView!vars
  <2>1. meter' = meter BY <1>18 DEF RunCallback, vars
  <2>2. QED BY <1>5, <2>1
<1>19. ASSUME NEW p \in Ids, Continue(p) PROVE LedgerView!HandOver(p)
  BY <1>19, LedgerHandsOver
<1>20. QED
  BY <1>3, <1>4, <1>6, <1>7, <1>8, <1>9, <1>10, <1>11, <1>12, <1>13, <1>14, <1>15,
     <1>16, <1>17, <1>18, <1>19 DEF Next, LedgerView!Next

\* An empty meter is an empty ledger.
LEMMA InitLedger == Init => LedgerView!Init
<1> SUFFICES ASSUME Init PROVE LedgerView!Init
  OBVIOUS
<1>1. meter.rec = [i \in Ids |-> NoRecord] /\ meter.next = 1 /\ meter.tripped = FALSE
  BY DEF Init, NewMeter
<1>2. QED BY <1>1 DEF LedgerView!Init, NoRecord

\* The detailed meter implements the ledger: whatever order the server calls it in, a
\* record is created once and in order, gets one final status and keeps it, and the
\* budget trips at most once, closing every open tunnel in that very step.
THEOREM MeterImplementsLedger == Spec => LedgerSpec
<1>1. QED
  BY InitLedger, NextLedger, Invariant, EventInvariant, PTL
     DEF Spec, LedgerSpec, LedgerView!Spec

-----------------------------------------------------------------------------
(* The sum of the records and the counter.                                 *)

\* The records of target tunnels sum to the counter.
Balanced == TotalCounted(meter.rec) = meter.counted

Targets(R) == {i \in Ids : IsTarget(R[i])}
Counts(R) == [i \in Ids |-> CountedBytes(R[i])]

\* The total is a sum over finitely many records, of a number each.
LEMMA TargetsFinite ==
  ASSUME NEW R \in [Ids -> Records]
  PROVE  /\ IsFiniteSet(Targets(R)) /\ Targets(R) \subseteq Ids
         /\ \A i \in Ids : Counts(R)[i] = CountedBytes(R[i]) /\ CountedBytes(R[i]) \in Nat
         /\ TotalCounted(R) = SumFunctionOnSet(Counts(R), Targets(R))
<1>1. IsFiniteSet(Ids) BY MeterAssumption, FS_Interval DEF Ids
<1>2. Targets(R) \subseteq Ids BY DEF Targets
<1>3. IsFiniteSet(Targets(R)) BY <1>1, <1>2, FS_Subset
<1>4. \A i \in Ids : R[i] \in Records OBVIOUS
<1>5. \A i \in Ids : CountedBytes(R[i]) \in Nat BY <1>4 DEF CountedBytes, Records
<1>6. \A i \in Ids : Counts(R)[i] = CountedBytes(R[i]) BY DEF Counts
<1>7. TotalCounted(R) = SumFunctionOnSet(Counts(R), Targets(R))
  BY DEF TotalCounted, Counts, Targets
<1>8. QED BY <1>2, <1>3, <1>5, <1>6, <1>7

\* The sum depends on the routes and the counts of target records only.
LEMMA TotalSame ==
  ASSUME NEW R \in [Ids -> Records], NEW Q \in [Ids -> Records],
         \A i \in Ids : IsTarget(Q[i]) <=> IsTarget(R[i]),
         \A i \in Ids : IsTarget(R[i]) => CountedBytes(Q[i]) = CountedBytes(R[i])
  PROVE  TotalCounted(Q) = TotalCounted(R)
<1>1. Targets(Q) = Targets(R) BY DEF Targets
<1>2. \A i \in Targets(R) : Counts(R)[i] \in Nat /\ Counts(Q)[i] = Counts(R)[i]
  BY TargetsFinite DEF Targets
<1>3. SumFunctionOnSet(Counts(Q), Targets(R)) = SumFunctionOnSet(Counts(R), Targets(R))
  BY <1>2, TargetsFinite, SumSame
<1>4. QED BY <1>1, <1>3, TargetsFinite

\* When the counts of one target record change, the sum changes by as much.
LEMMA TotalChanges ==
  ASSUME NEW R \in [Ids -> Records], NEW Q \in [Ids -> Records], NEW i \in Ids, IsTarget(R[i]),
         \A j \in Ids : IsTarget(Q[j]) <=> IsTarget(R[j]),
         \A j \in Ids \ {i} : CountedBytes(Q[j]) = CountedBytes(R[j])
  PROVE  /\ TotalCounted(R) \in Nat /\ CountedBytes(R[i]) \in Nat /\ CountedBytes(Q[i]) \in Nat
         /\ TotalCounted(R) >= CountedBytes(R[i])
         /\ TotalCounted(Q) = TotalCounted(R) - CountedBytes(R[i]) + CountedBytes(Q[i])
<1> DEFINE T == Targets(R)
           others == SumFunctionOnSet(Counts(R), T \ {i})
<1>1. Targets(Q) = T BY DEF Targets
<1>2. i \in T /\ IsFiniteSet(T) /\ T \subseteq Ids BY TargetsFinite DEF Targets
<1>3. \A j \in T : Counts(R)[j] \in Nat /\ Counts(Q)[j] \in Nat BY <1>2, TargetsFinite
<1>4. \A j \in T \ {i} : Counts(Q)[j] = Counts(R)[j] BY <1>2, TargetsFinite
<1>5. IsFiniteSet(T \ {i}) BY <1>2, FS_Subset
<1> HIDE DEF T
<1>6. SumFunctionOnSet(Counts(R), T) = Counts(R)[i] + others BY <1>2, <1>3, SumFacts
<1>7. SumFunctionOnSet(Counts(Q), T) = Counts(Q)[i] + SumFunctionOnSet(Counts(Q), T \ {i})
  BY <1>2, <1>3, SumFacts
<1>8. SumFunctionOnSet(Counts(Q), T \ {i}) = others BY <1>3, <1>4, <1>5, SumSame
<1>9. others \in Nat BY <1>3, <1>5, SumFacts
<1> HIDE DEF others
<1>10. /\ TotalCounted(R) = CountedBytes(R[i]) + others
       /\ TotalCounted(Q) = CountedBytes(Q[i]) + others
       /\ CountedBytes(R[i]) \in Nat /\ CountedBytes(Q[i]) \in Nat
  BY <1>1, <1>6, <1>7, <1>8, TargetsFinite DEF T
<1>11. QED BY <1>9, <1>10

\* A quiet step counts nothing.
LEMMA QuietBalance ==
  ASSUME Balanced, NEW m \in Meters, NEW w \in Meters, Quiet(m, w),
         TotalCounted(m.rec) = m.counted
  PROVE  TotalCounted(w.rec) = w.counted
<1>1. m.rec \in [Ids -> Records] /\ w.rec \in [Ids -> Records] BY DEF Meters
<1>2. \A j \in Ids : /\ IsTarget(w.rec[j]) <=> IsTarget(m.rec[j])
                     /\ CountedBytes(w.rec[j]) = CountedBytes(m.rec[j])
  BY DEF Quiet, SameTunnels, SameCounts, IsTarget, CountedBytes
<1>3. QED BY <1>1, <1>2, TotalSame DEF Quiet

\* A new record has no bytes.
LEMMA AddsBalance ==
  ASSUME NEW m, Books(m), m.next \in Ids, NEW w, Books(w), NEW r, Adds(m, w, r),
         r.sent = 0, r.recv = 0, TotalCounted(m.rec) = m.counted
  PROVE  TotalCounted(w.rec) = w.counted
<1> DEFINE i == m.next
           Q == [m.rec EXCEPT ![i] = [NoRecord EXCEPT !.route = r.route]]
<1>1. m.rec \in [Ids -> Records] /\ w.rec \in [Ids -> Records] BY DEF Books, Meters
<1>2. w.rec[i] = r /\ \A j \in Ids \ {i} : w.rec[j] = m.rec[j] BY DEF Adds
<1>3. m.rec[i] = NoRecord BY DEF Books, Ids
<1>4. w.counted = m.counted BY DEF Adds
<1>5. CountedBytes(m.rec[i]) = 0 /\ CountedBytes(r) = 0 /\ ~IsTarget(m.rec[i])
  BY <1>3 DEF CountedBytes, NoRecord, IsTarget, TargetRoutes
<1>6. CASE ~IsTarget(r)
  <2>1. \A j \in Ids : IsTarget(w.rec[j]) <=> IsTarget(m.rec[j]) BY <1>2, <1>5, <1>6
  <2>2. \A j \in Ids : CountedBytes(w.rec[j]) = CountedBytes(m.rec[j]) BY <1>2, <1>5
  <2>3. QED BY <1>1, <1>4, <2>1, <2>2, TotalSame
<1>7. CASE IsTarget(r)
  <2> DEFINE T == Targets(w.rec)
  <2>1. i \in T /\ T \ {i} = Targets(m.rec) BY <1>2, <1>5, <1>7 DEF Targets
  <2>2. IsFiniteSet(T) /\ \A j \in T : Counts(w.rec)[j] \in Nat BY <1>1, TargetsFinite
  <2>3. TotalCounted(w.rec) = SumFunctionOnSet(Counts(w.rec), T) BY <1>1, TargetsFinite
  <2> HIDE DEF T
  <2>4. TotalCounted(w.rec) = Counts(w.rec)[i] + SumFunctionOnSet(Counts(w.rec), T \ {i})
    BY <2>1, <2>2, <2>3, SumFacts
  <2>5. Counts(w.rec)[i] = 0 BY <1>1, <1>2, <1>5, TargetsFinite
  <2>6. IsFiniteSet(T \ {i}) /\ T \ {i} \subseteq Ids BY <1>1, <2>1, TargetsFinite
  <2>7. \A j \in T \ {i} : Counts(m.rec)[j] \in Nat /\ Counts(w.rec)[j] = Counts(m.rec)[j]
    BY <1>1, <1>2, <2>6, TargetsFinite
  <2>8. SumFunctionOnSet(Counts(w.rec), T \ {i}) = SumFunctionOnSet(Counts(m.rec), T \ {i})
    BY <2>6, <2>7, SumSame
  <2>9. SumFunctionOnSet(Counts(m.rec), T \ {i}) = TotalCounted(m.rec)
    BY <1>1, <2>1, TargetsFinite
  <2>10. m.counted \in Nat BY DEF Books, Meters
  <2>11. QED BY <1>4, <2>4, <2>5, <2>8, <2>9, <2>10
<1>8. QED BY <1>6, <1>7

\* A count adds the same to a target record and to the counter.
LEMMA AddBalance ==
  ASSUME MeterInv, Balanced, NEW i \in Ids, wire[i] = "live",
         NEW s \in Nat, NEW v \in Nat, NEW neg \in Nat,
         Count(Add(meter, i, s, v, neg))
  PROVE  Balanced'
<1> DEFINE w == Add(meter, i, s, v, neg)
<1>1. meter' = w /\ i < meter.next BY LiveExists DEF Count
<1>0. w = Add(meter, i, s, v, neg) OBVIOUS
<1> HIDE DEF w
<1>2. /\ Books(w) /\ SameTunnels(meter, w)
      /\ \A j \in Ids \ {i} : w.rec[j].sent = meter.rec[j].sent /\ w.rec[j].recv = meter.rec[j].recv
  <2>1. Books(meter) /\ Below(meter) BY DEF MeterInv
  <2>2. QED BY ONLY <1>0, <1>1, <2>1, i \in Ids, s \in Nat, v \in Nat, neg \in Nat, AddFacts
<1>3. /\ w.rec[i].sent = meter.rec[i].sent + s /\ w.rec[i].recv = meter.rec[i].recv + v
      /\ IsTarget(meter.rec[i]) => w.counted = meter.counted + (s + v)
      /\ ~IsTarget(meter.rec[i]) => w.counted = meter.counted
  BY <1>0, <1>1, AddCounts DEF MeterInv
<1>4. meter.rec \in [Ids -> Records] /\ w.rec \in [Ids -> Records] /\ meter.counted \in Nat
  BY <1>2 DEF MeterInv, Books, Meters
<1>5. \A j \in Ids : IsTarget(w.rec[j]) <=> IsTarget(meter.rec[j])
  BY <1>2 DEF SameTunnels, IsTarget
<1>6. \A j \in Ids \ {i} : CountedBytes(w.rec[j]) = CountedBytes(meter.rec[j])
  BY <1>2 DEF CountedBytes
<1>7. CASE IsTarget(meter.rec[i])
  <2>1. /\ TotalCounted(meter.rec) \in Nat /\ CountedBytes(meter.rec[i]) \in Nat
        /\ TotalCounted(w.rec) = TotalCounted(meter.rec) - CountedBytes(meter.rec[i]) + CountedBytes(w.rec[i])
    BY <1>4, <1>5, <1>6, <1>7, TotalChanges
  <2>2. meter.rec[i].sent \in Nat /\ meter.rec[i].recv \in Nat BY <1>4 DEF Records
  <2>3. CountedBytes(w.rec[i]) = CountedBytes(meter.rec[i]) + (s + v)
    BY <1>3, <2>2 DEF CountedBytes
  <2>4. w.counted = meter.counted + (s + v) BY <1>3, <1>7
  <2>5. QED BY <1>1, <1>4, <2>1, <2>3, <2>4 DEF Balanced
<1>8. CASE ~IsTarget(meter.rec[i])
  <2>1. \A j \in Ids : IsTarget(meter.rec[j]) => CountedBytes(w.rec[j]) = CountedBytes(meter.rec[j])
    BY <1>6, <1>8
  <2>2. TotalCounted(w.rec) = TotalCounted(meter.rec) BY <1>4, <1>5, <2>1, TotalSame
  <2>3. w.counted = meter.counted BY <1>3, <1>8
  <2>4. QED BY <1>1, <2>2, <2>3 DEF Balanced
<1>9. QED BY <1>7, <1>8

\* An abort takes the same from a target record and from the counter, which is never
\* the smaller of the two.
LEMMA AbortBalance ==
  ASSUME MeterInv, Balanced, NEW i \in Ids, wire[i] = "live", Abort(i)
  PROVE  Balanced'
<1> DEFINE n == queued[i]
           k == Least(n, meter.rec[i].sent)
           w == DiscardSent(meter, i, n)
<1>1. n \in Nat /\ i < meter.next /\ meter' = w BY LiveExists DEF MeterInv, PartsOK, Abort
<1>2. /\ Books(w) /\ SameTunnels(meter, w)
      /\ \A j \in Ids \ {i} : w.rec[j].sent = meter.rec[j].sent /\ w.rec[j].recv = meter.rec[j].recv
  BY <1>1, DiscardSentFacts DEF MeterInv
<1>3. /\ k \in Nat /\ k <= meter.rec[i].sent
      /\ w.rec[i].sent = meter.rec[i].sent - k /\ w.rec[i].recv = meter.rec[i].recv
      /\ w.counted = IF IsTarget(meter.rec[i]) THEN Uncount(meter, k) ELSE meter.counted
  BY <1>1, DiscardSentCounts DEF MeterInv
<1> HIDE DEF w, k
<1>4. meter.rec \in [Ids -> Records] /\ w.rec \in [Ids -> Records] /\ meter.counted \in Nat
  BY <1>2 DEF MeterInv, Books, Meters
<1>5. \A j \in Ids : IsTarget(w.rec[j]) <=> IsTarget(meter.rec[j])
  BY <1>2 DEF SameTunnels, IsTarget
<1>6. \A j \in Ids \ {i} : CountedBytes(w.rec[j]) = CountedBytes(meter.rec[j])
  BY <1>2 DEF CountedBytes
<1>7. CASE IsTarget(meter.rec[i])
  <2>1. /\ TotalCounted(meter.rec) >= CountedBytes(meter.rec[i])
        /\ CountedBytes(meter.rec[i]) \in Nat
        /\ TotalCounted(w.rec) = TotalCounted(meter.rec) - CountedBytes(meter.rec[i]) + CountedBytes(w.rec[i])
    BY <1>4, <1>5, <1>6, <1>7, TotalChanges
  <2>2. meter.rec[i].sent \in Nat /\ meter.rec[i].recv \in Nat BY <1>4 DEF Records
  <2>3. CountedBytes(w.rec[i]) = CountedBytes(meter.rec[i]) - k /\ k <= CountedBytes(meter.rec[i])
    BY <1>3, <2>2 DEF CountedBytes
  <2>4. meter.counted >= k BY <1>3, <1>4, <2>1, <2>3 DEF Balanced
  <2>5. w.counted = meter.counted - k BY <1>3, <1>7, <2>4 DEF Uncount
  <2>6. QED BY <1>1, <1>3, <1>4, <2>1, <2>3, <2>5 DEF Balanced
<1>8. CASE ~IsTarget(meter.rec[i])
  <2>1. \A j \in Ids : IsTarget(meter.rec[j]) => CountedBytes(w.rec[j]) = CountedBytes(meter.rec[j])
    BY <1>6, <1>8
  <2>2. TotalCounted(w.rec) = TotalCounted(meter.rec) BY <1>4, <1>5, <2>1, TotalSame
  <2>3. QED BY <1>1, <1>3, <1>8, <2>2 DEF Balanced
<1>9. QED BY <1>7, <1>8

\* A quiet step of the meter itself.
LEMMA QuietBalanced ==
  ASSUME MeterInv, MeterInv', Balanced, Quiet(meter, meter')
  PROVE  Balanced'
<1>1. meter \in Meters /\ meter' \in Meters BY DEF MeterInv, Books
<1>2. QED BY <1>1, QuietBalance DEF Balanced

\* A new record has counted nothing.
LEMMA NewRecordCounts ==
  ASSUME NEW route, NEW status, NEW from
  PROVE  NewRecord(route, status, from).sent = 0 /\ NewRecord(route, status, from).recv = 0
BY DEF NewRecord, NoRecord

\* Every step keeps the balance.
LEMMA NextBalance == MeterInv /\ MeterInv' /\ Balanced /\ [Next]_vars => Balanced'
<1> SUFFICES ASSUME MeterInv, MeterInv', Balanced, [Next]_vars PROVE Balanced'
  OBVIOUS
<1> USE TrafficAssumption
<1>1. meter \in Meters /\ Books(meter) /\ Books(meter') BY DEF MeterInv, Books
<1>2. {"ok"} \cup Failures \subseteq FinalStatuses /\ "failed:setup" \in {"ok"} \cup Failures
  BY DEF Failures, FinalStatuses
<1>3. ASSUME NEW route \in Routes, Open(route) PROVE Balanced'
  <2>1. Adds(meter, meter', NewRecord(route, "open", 0)) BY <1>1, <1>3, OpenTunnelAdds DEF Open
  <2>2. QED BY <1>1, <1>3, <2>1, NewRecordCounts, AddsBalance DEF Open, Balanced
<1>4. CASE Deny
  <2>1. Adds(meter, meter', NewRecord("refused", "denied", 0))
    BY <1>1, <1>4, RecordDeniedFacts DEF Deny
  <2>2. QED BY <1>1, <1>4, <2>1, NewRecordCounts, AddsBalance DEF Deny, Balanced
<1>5. ASSUME meter' = meter PROVE Balanced'
  BY <1>5 DEF Balanced
<1>6. ASSUME NEW p \in Ids, Continue(p) PROVE Balanced'
  <2> DEFINE o == ContinueConnection(OpenTunnel(meter, "http-connect", p), p, meter.next)
             r == NewRecord("http-connect", "open", p)
  <2>1. /\ meter.next \in Ids /\ p \in meter.open /\ meter' = Finish(o, p, "ok")
    BY <1>6 DEF Continue, MeterInv, Connections
  <2>2. Books(o) /\ Adds(meter, o, r)
    BY <1>6, <2>1, ContinueFacts DEF Continue, MeterInv
  <2>3. r.sent = 0 /\ r.recv = 0 BY NewRecordCounts
  <2> HIDE DEF o, r
  <2>4. TotalCounted(o.rec) = o.counted BY <1>1, <2>1, <2>2, <2>3, AddsBalance DEF Balanced
  <2>5. Quiet(o, meter') BY <1>2, <2>1, <2>2, FinishQuiet
  <2>6. o \in Meters /\ meter' \in Meters BY <1>1, <2>2 DEF Books
  <2>7. QED BY <2>4, <2>5, <2>6, QuietBalance DEF Balanced
<1>7. ASSUME NEW i \in Ids, Update(i) PROVE Balanced'
  BY <1>1, <1>7, AnnotateQuiet, QuietBalanced DEF Update
<1>8. ASSUME NEW i \in Ids, NEW status \in {"ok", "failed:upstream_status"},
             Answered(i, status)
      PROVE  Balanced'
  <2> DEFINE a == Annotate(meter, i)
  <2>1. i < meter.next /\ meter' = SetOkStatus(a, i, status)
    BY <1>8, LiveExists DEF Answered
  <2>2. Books(a) /\ Quiet(meter, a) BY <1>1, <2>1, AnnotateBooks, AnnotateQuiet
  <2> HIDE DEF a
  <2>3. Quiet(meter, meter') BY <2>1, <2>2, SetOkStatusKeeps, QuietTwice
  <2>4. QED BY <2>3, QuietBalanced
<1>9. ASSUME NEW i \in Ids, NEW n \in Chunks, Negotiated(i, n) PROVE Balanced'
  <2>1. n \in Nat OBVIOUS
  <2>2. QED BY <1>1, <1>9, <2>1, MarkNegotiationReceivedQuiet, QuietBalanced DEF Negotiated
<1>10. ASSUME NEW i \in Ids, NEW n \in Chunks, Receive(i, n) PROVE Balanced'
  <2>1. Count(Add(meter, i, 0, n, 0)) /\ n \in Nat /\ 0 \in Nat /\ wire[i] = "live"
    BY <1>10 DEF Receive, AddReceived
  <2>2. QED BY <2>1, AddBalance
<1>11. ASSUME NEW i \in Ids, NEW n \in Chunks, NEW neg \in {0, n}, Write(i, n, neg)
       PROVE  Balanced'
  <2>1. n \in Nat /\ neg \in Nat /\ 0 \in Nat OBVIOUS
  <2>2. Count(Add(meter, i, n, 0, neg)) /\ wire[i] = "live"
    BY <1>11 DEF Write, AddSent
  <2>3. QED BY <2>1, <2>2, AddBalance
<1>12. ASSUME NEW i \in Ids, FailSetup(i) PROVE Balanced'
  <2> DEFINE a == MarkAllNegotiation(meter, i)
  <2>1. i < meter.next /\ meter' = Finish(a, i, "failed:setup") BY <1>12 DEF FailSetup, Exists
  <2>2. Books(a) /\ Quiet(meter, a)
    BY <1>1, <2>1, MarkAllNegotiationBooks, MarkAllNegotiationQuiet
  <2> HIDE DEF a
  <2>3. Quiet(a, meter') BY <1>2, <2>1, <2>2, FinishQuiet
  <2>4. Quiet(meter, meter') BY <2>2, <2>3, QuietTwice
  <2>5. QED BY <2>4, QuietBalanced
<1>13. ASSUME NEW i \in Ids, Connect(i) \/ Flush(i) \/ CloseConnection(i) PROVE Balanced'
  BY <1>5, <1>13 DEF Connect, Flush, CloseConnection
<1>14. ASSUME NEW i \in Ids, NEW status \in Endings, CloseTunnel(i, status) PROVE Balanced'
  <2>1. status \in {"ok"} \cup Failures OBVIOUS
  <2>2. QED BY <1>1, <1>14, <2>1, FinishQuiet, QuietBalanced DEF CloseTunnel
<1>15. ASSUME NEW i \in Ids, AbortConnection(i) PROVE Balanced'
  BY <1>15, AbortBalance DEF AbortConnection
<1>16. ASSUME NEW i \in Ids, RunAbort(i) PROVE Balanced'
  <2>1. CASE wire[i] = "live"
    <3>1. Abort(i) BY <1>16, <2>1 DEF RunAbort
    <3>2. QED BY <2>1, <3>1, AbortBalance
  <2>2. CASE wire[i] # "live"
    <3>1. meter' = meter BY <1>16, <2>2 DEF RunAbort
    <3>2. QED BY <3>1, <1>5
  <2>3. QED BY <2>1, <2>2
<1>17. CASE StopAll
  <2>1. meter' = CloseAll(meter, "ok") BY <1>17 DEF StopAll, Count
  <2>2. QED BY <1>1, <2>1, CloseAllQuiet, QuietBalanced
<1>18. CASE TakeSnapshot
  BY <1>1, <1>18, SnapshotKeeps, QuietBalanced DEF TakeSnapshot
<1>19. CASE RunCallback \/ UNCHANGED vars
  BY <1>5, <1>19 DEF RunCallback, vars
<1>20. QED
  BY <1>3, <1>4, <1>6, <1>7, <1>8, <1>9, <1>10, <1>11, <1>12, <1>13, <1>14, <1>15,
     <1>16, <1>17, <1>18, <1>19 DEF Next

\* Nothing is counted and nothing is summed.
LEMMA InitBalance == Init => Balanced
<1> SUFFICES ASSUME Init PROVE Balanced
  OBVIOUS
<1>1. meter.rec = [i \in Ids |-> NoRecord] /\ meter.counted = 0
  BY DEF Init, NewMeter
<1>2. meter.rec \in [Ids -> Records]
  <2>1. MeterInv BY InitInv
  <2>2. QED BY <2>1 DEF MeterInv, Books, Meters
<1>3. Targets(meter.rec) = {} BY <1>1 DEF Targets, IsTarget, NoRecord, TargetRoutes
<1>4. SumFunctionOnSet(Counts(meter.rec), {}) = 0 BY FS_EmptySet, SumFacts
<1>5. QED BY <1>1, <1>2, <1>3, <1>4, TargetsFinite DEF Balanced

\* Balanced is inductive.
LEMMA BalanceInvariant == Spec => []Balanced
<1>1. QED BY InitBalance, NextBalance, Invariant, PTL DEF Spec

\* At every moment, also between a count and the aborts it causes, the records of a
\* snapshot sum over target tunnels to the counted_bytes beside them: what is counted on a
\* record is counted globally, what an abort takes back is taken back from both, and the
\* copies a snapshot hands out are the records.
THEOREM SnapshotsAddUp == Spec => []SnapshotAddsUp
<1>1. MeterInv /\ Balanced => SnapshotAddsUp
  <2> SUFFICES ASSUME MeterInv, Balanced PROVE SnapshotAddsUp
    OBVIOUS
  <2> DEFINE C == Snapshot(meter).copies
  <2>1. meter \in Meters BY DEF MeterInv, Books
  <2>2. C = [i \in Ids |-> IF i \in meter.dirty \cup meter.open THEN meter.rec[i] ELSE meter.copies[i]]
    BY <2>1 DEF Snapshot, Meters
  <2>3. \A i \in Ids : C[i] = meter.rec[i] BY <2>2 DEF MeterInv, Books
  <2>4. C \in [Ids -> Records] /\ meter.rec \in [Ids -> Records] BY <2>1, <2>2 DEF Meters
  <2> HIDE DEF C
  <2>5. TotalCounted(C) = TotalCounted(meter.rec) BY <2>3, <2>4, TotalSame
  <2>6. QED BY <2>5 DEF SnapshotAddsUp, Balanced, C
<1>2. QED BY <1>1, Invariant, BalanceInvariant, PTL

-----------------------------------------------------------------------------
(* The invariant.                                                           *)

Sents(line) == [i \in DOMAIN line |-> line[i].sent]
Receiveds(line) == [i \in DOMAIN line |-> line[i].received]

Tallies ==
  [sent : [Times -> Nat], received : [Times -> Nat], gone : Nat, missed : Nat, far : BOOLEAN]

\* A timeline, its resolution and its highest index.
LineIs(c) ==
  /\ c.res \in Nat \ {0} /\ c.end \in Nat \cup {-1}
  /\ DOMAIN c.line \subseteq 0 .. c.end
  /\ c.line \in [DOMAIN c.line -> Slot \ {NoSlot}]

\* Each slot holds the bytes of its own time, as far as they were not taken back.
SlotsTell(c, h) ==
  \A i \in Nat :
    /\ At(c.line, i).received = CountedIn(i, c.res, h.received)
    /\ At(c.line, i).sent <= CountedIn(i, c.res, h.sent)
    /\ h.gone = 0 => At(c.line, i).sent = CountedIn(i, c.res, h.sent)

\* All slots together: what was counted, less what was taken back and found.
SlotsAddUp(c, h) ==
  /\ SumFunctionOnSet(Sents(c.line), DOMAIN c.line) + h.gone = SumFunctionOnSet(h.sent, Times) + h.missed
  /\ SumFunctionOnSet(Receiveds(c.line), DOMAIN c.line) = SumFunctionOnSet(h.received, Times)

\* The highest index is that of the newest byte.
EndIsNewest(c, h) ==
  /\ \A t \in Times : h.sent[t] + h.received[t] > 0 => t \div c.res <= c.end
  /\ c.end # -1 => \E t \in Times : h.sent[t] + h.received[t] > 0 /\ t \div c.res = c.end

Now == [line |-> timeline, res |-> resolution, end |-> last]

TimelineInv ==
  /\ clock.now \in Times /\ clock.back \in Nat
  /\ tally \in Tallies
  /\ LineIs(Now)
  /\ SlotsTell(Now, tally)
  /\ SlotsAddUp(Now, tally)
  /\ EndIsNewest(Now, tally)
  /\ Cardinality(DOMAIN timeline) <= MaxSlots
  /\ tally.missed > 0 => tally.far

-----------------------------------------------------------------------------
(* Two slots that become one.                                               *)

LEMMA TimesAreFinite ==
  ASSUME NEW S, S \subseteq Times
  PROVE  IsFiniteSet(S) /\ S \subseteq Nat
  BY TimelineAssumption, FS_Subset

\* What is in a slot is a number.
LEMMA InIs ==
  ASSUME NEW count \in [Times -> Nat], NEW res, NEW i
  PROVE  CountedIn(i, res, count) \in Nat
<1> DEFINE S == {t \in Times : t \div res = i}
<1>1. IsFiniteSet(S) /\ \A t \in S : count[t] \in Nat
  BY TimesAreFinite
<1> HIDE DEF S
<1>2. SumFunctionOnSet(count, S) \in Nat
  BY <1>1, SumFacts
<1> QED  BY <1>2 DEF CountedIn, S

\* What is in a slot of twice the length is in the two that it is made of.
LEMMA InHalves ==
  ASSUME NEW count \in [Times -> Nat], NEW res \in Nat \ {0}, NEW j \in Nat
  PROVE  CountedIn(j, 2 * res, count) = CountedIn(2 * j, res, count) + CountedIn(2 * j + 1, res, count)
<1> DEFINE S == {t \in Times : t \div (2 * res) = j}
           A == {t \in Times : t \div res = 2 * j}
           B == {t \in Times : t \div res = 2 * j + 1}
<1>1. ASSUME NEW t \in Times PROVE t \in S <=> (t \in A \/ t \in B)
  <2>1. t \in Nat
    BY TimelineAssumption
  <2>2. PICK q \in Nat : q = t \div res
    BY <2>1, DivMod
  <2>3. t \div (2 * res) = q \div 2
    BY <2>1, <2>2, DivTwice
  <2>4. q \div 2 = j <=> (q = 2 * j \/ q = 2 * j + 1)
    BY <2>2
  <2> QED  BY <2>2, <2>3, <2>4
<1>2. ASSUME NEW t \in A PROVE t \notin B
  <2>1. 2 * j # 2 * j + 1
    OBVIOUS
  <2> QED  BY <2>1, <1>2
<1>3. A \in SUBSET S /\ S \ A = B
  BY <1>1, <1>2
<1>4. IsFiniteSet(S) /\ \A t \in S : count[t] \in Nat
  BY TimesAreFinite
<1> HIDE DEF S, A, B
<1>5. SumFunctionOnSet(count, S) = SumFunctionOnSet(count, A) + SumFunctionOnSet(count, S \ A)
  BY <1>3, <1>4, SumSplit
<1> QED  BY <1>3, <1>5 DEF CountedIn, S, A, B

ArePairs(p, v, D) ==
  \A j \in {i \div 2 : i \in D} :
    p[j] = (IF 2 * j \in D THEN v[2 * j] ELSE 0) + (IF 2 * j + 1 \in D THEN v[2 * j + 1] ELSE 0)

\* The bytes of two slots are those of the one they become.
LEMMA SumOfPairs ==
  ASSUME NEW D, D \subseteq Nat, IsFiniteSet(D), NEW v, \A x \in D : v[x] \in Nat,
         NEW p, ArePairs(p, v, D)
  PROVE  /\ IsFiniteSet({i \div 2 : i \in D})
         /\ SumFunctionOnSet(p, {i \div 2 : i \in D}) = SumFunctionOnSet(v, D)
<1> DEFINE B == {i \div 2 : i \in D}
           key == [i \in D |-> i \div 2]
<1>1. IsFiniteSet(B)
  <2>1. \A y \in B : \E x \in D : key[x] = y
    OBVIOUS
  <2> HIDE DEF B, key
  <2> QED  BY <2>1, ImageIsFinite
<1>2. ASSUME NEW j \in B PROVE p[j] = SumFunctionOnSet(v, {x \in D : key[x] = j})
  <2> DEFINE S == {x \in D : key[x] = j}
  <2>1. j \in Nat
    BY <1>2
  <2>2. ASSUME NEW x \in D PROVE x \in S <=> (x = 2 * j \/ x = 2 * j + 1)
    <3>1. x \in Nat /\ key[x] = x \div 2
      OBVIOUS
    <3>2. x \div 2 = j <=> (x = 2 * j \/ x = 2 * j + 1)
      BY <2>1, <3>1
    <3> QED  BY <3>1, <3>2
  <2>3. S \subseteq D /\ IsFiniteSet(S) /\ \A x \in S : v[x] \in Nat
    BY FS_Subset
  <2>4. PICK a, b : a = 2 * j /\ b = 2 * j + 1 /\ a # b
    BY <2>1
  <2>5. p[j] = (IF a \in D THEN v[a] ELSE 0) + (IF b \in D THEN v[b] ELSE 0)
    BY <1>2, <2>4 DEF ArePairs
  <2>6. \A x \in D : x \in S <=> (x = a \/ x = b)
    BY <2>2, <2>4
  <2> HIDE DEF S
  <2>7. (a \in D => v[a] \in Nat) /\ (b \in D => v[b] \in Nat)
    OBVIOUS
  <2>8. ASSUME NEW T, IsFiniteSet(T), T \subseteq D, NEW x \in T, T \ {x} = {}
        PROVE  SumFunctionOnSet(v, T) = v[x]
    <3>1. \A y \in T : v[y] \in Nat
      BY <2>8
    <3>2. SumFunctionOnSet(v, T) = v[x] + SumFunctionOnSet(v, T \ {x})
      BY <2>8, <3>1, SumFacts
    <3>3. SumFunctionOnSet(v, {}) = 0
      BY FS_EmptySet, SumFacts
    <3>4. v[x] \in Nat
      BY <2>8, <3>1
    <3>5. SumFunctionOnSet(v, T \ {x}) = 0
      BY <2>8, <3>3
    <3> QED  BY <3>2, <3>4, <3>5
  <2>9. CASE a \in D /\ b \in D
    <3>0. a \in S /\ b \in S /\ \A x \in S : x = a \/ x = b
      BY <2>3, <2>6, <2>9
    <3>1. S \ {a} = {b} /\ {b} \subseteq D /\ {b} \ {b} = {} /\ a \in S
      BY <2>4, <2>9, <3>0
    <3>2. IsFiniteSet({b})
      BY <2>3, <3>1, FS_Subset
    <3>3. SumFunctionOnSet(v, {b}) = v[b]
      BY <2>8, <3>1, <3>2
    <3>4. SumFunctionOnSet(v, S) = v[a] + SumFunctionOnSet(v, S \ {a})
      BY <2>3, <3>1, SumFacts
    <3> QED  BY <2>5, <2>7, <2>9, <3>1, <3>3, <3>4 DEF S
  <2>10. CASE a \in D /\ b \notin D
    <3>1. S \ {a} = {} /\ a \in S
      BY <2>3, <2>6, <2>10
    <3>2. SumFunctionOnSet(v, S) = v[a]
      BY <2>3, <2>8, <3>1
    <3> QED  BY <2>5, <2>7, <2>10, <3>2 DEF S
  <2>11. CASE a \notin D /\ b \in D
    <3>1. S \ {b} = {} /\ b \in S
      BY <2>3, <2>6, <2>11
    <3>2. SumFunctionOnSet(v, S) = v[b]
      BY <2>3, <2>8, <3>1
    <3> QED  BY <2>5, <2>7, <2>11, <3>2 DEF S
  <2>12. CASE a \notin D /\ b \notin D
    <3>1. S = {}
      BY <2>3, <2>6, <2>12
    <3>2. SumFunctionOnSet(v, S) = 0
      BY <2>3, <3>1, SumFacts
    <3> QED  BY <2>5, <2>12, <3>2 DEF S
  <2> QED  BY <2>9, <2>10, <2>11, <2>12
<1>3. \A x \in D : key[x] \in B
  OBVIOUS
<1>6. \A x \in D : v[x] \in Nat
  OBVIOUS
<1> HIDE DEF B, key
<1>4. ArePartsOf(p, v, key, D, B)
  BY <1>2 DEF ArePartsOf
<1>5. SumFunctionOnSet(p, B) = SumFunctionOnSet(v, D)
  <2>1. IsFiniteSet(D)
    OBVIOUS
  <2>2. IsFiniteSet(B)
    BY <1>1
  <2> QED  BY ONLY <1>3, <1>4, <1>6, <2>1, <2>2, SumOfParts
<1> QED  BY <1>1, <1>5 DEF B

\* The slots of a merged line.
LEMMA MergedIs ==
  ASSUME NEW line, DOMAIN line \subseteq Nat, line \in [DOMAIN line -> Slot \ {NoSlot}]
  PROVE  /\ DOMAIN Merged(line) = {i \div 2 : i \in DOMAIN line}
         /\ Merged(line) \in [DOMAIN Merged(line) -> Slot \ {NoSlot}]
         /\ \A j \in Nat :
              /\ At(Merged(line), j).sent = At(line, 2 * j).sent + At(line, 2 * j + 1).sent
              /\ At(Merged(line), j).received = At(line, 2 * j).received + At(line, 2 * j + 1).received
         /\ \A i : At(line, i) \in Slot
<1> DEFINE D == DOMAIN line
           B == {i \div 2 : i \in D}
           m == Merged(line)
<1>1. \A i : At(line, i) \in Slot
  BY DEF At, NoSlot, Slot
<1>2. DOMAIN m = B
  BY DEF Merged
<1>3. ASSUME NEW j \in B
      PROVE  /\ m[j] \in Slot \ {NoSlot}
             /\ m[j].sent = At(line, 2 * j).sent + At(line, 2 * j + 1).sent
             /\ m[j].received = At(line, 2 * j).received + At(line, 2 * j + 1).received
  <2>1. m[j] = [sent     |-> At(line, 2 * j).sent + At(line, 2 * j + 1).sent,
                received |-> At(line, 2 * j).received + At(line, 2 * j + 1).received]
    BY DEF Merged
  <2>2. PICK i \in D : j = i \div 2
    BY <1>3
  <2>3. i \in Nat /\ (i = 2 * j \/ i = 2 * j + 1)
    BY <2>2
  <2>4. line[i] \in Slot /\ line[i] # NoSlot /\ At(line, i) = line[i]
    BY <2>2 DEF At
  <2>5. line[i].sent \in Nat /\ line[i].received \in Nat /\ (line[i].sent # 0 \/ line[i].received # 0)
    BY <2>4 DEF Slot, NoSlot
  <2>6. PICK a \in Slot, b \in Slot : a = At(line, 2 * j) /\ b = At(line, 2 * j + 1)
    BY <1>1
  <2>7. a = line[i] \/ b = line[i]
    BY <2>3, <2>4, <2>6
  <2>8. a.sent \in Nat /\ a.received \in Nat /\ b.sent \in Nat /\ b.received \in Nat
    BY <2>6 DEF Slot
  <2>9. m[j] = [sent |-> a.sent + b.sent, received |-> a.received + b.received]
    BY <2>1, <2>6
  <2>10. a.sent + b.sent # 0 \/ a.received + b.received # 0
    BY <2>5, <2>7, <2>8
  <2>11. m[j] \in Slot /\ m[j] # NoSlot
    BY <2>8, <2>9, <2>10 DEF Slot, NoSlot
  <2> QED  BY <2>1, <2>11
<1>4. ASSUME NEW j \in Nat, j \notin B
      PROVE  At(line, 2 * j) = NoSlot /\ At(line, 2 * j + 1) = NoSlot /\ At(m, j) = NoSlot
  <2>1. (2 * j) \div 2 = j /\ (2 * j + 1) \div 2 = j
    OBVIOUS
  <2>2. 2 * j \notin D /\ 2 * j + 1 \notin D
    BY <1>4, <2>1
  <2> QED  BY <1>2, <1>4, <2>2 DEF At
<1>5. ASSUME NEW j \in Nat
      PROVE  /\ At(m, j).sent = At(line, 2 * j).sent + At(line, 2 * j + 1).sent
             /\ At(m, j).received = At(line, 2 * j).received + At(line, 2 * j + 1).received
  <2>1. CASE j \in B
    <3>1. At(m, j) = m[j]
      BY <1>2, <2>1 DEF At
    <3> QED  BY <1>3, <2>1, <3>1
  <2>2. CASE j \notin B
    <3>1. NoSlot.sent = 0 /\ NoSlot.received = 0
      BY DEF NoSlot
    <3> QED  BY <1>4, <2>2, <3>1
  <2> QED  BY <2>1, <2>2
<1>6. m \in [DOMAIN m -> Slot \ {NoSlot}]
  <2>1. m = [j \in DOMAIN m |-> m[j]]
    BY DEF Merged
  <2> HIDE DEF m, B
  <2> QED  BY <1>2, <1>3, <2>1
<1> QED  BY <1>1, <1>2, <1>5, <1>6

LEMMA LineIsFinite ==
  ASSUME NEW c, LineIs(c)
  PROVE  /\ IsFiniteSet(DOMAIN c.line) /\ DOMAIN c.line \subseteq Nat
         /\ Sents(c.line) \in [DOMAIN c.line -> Nat] /\ Receiveds(c.line) \in [DOMAIN c.line -> Nat]
         /\ \A i : At(c.line, i) \in Slot
<1>1. c.end \in Int /\ DOMAIN c.line \subseteq 0 .. c.end
  BY DEF LineIs
<1>2. IsFiniteSet(0 .. c.end)
  BY <1>1, FS_Interval
<1>3. IsFiniteSet(DOMAIN c.line)
  BY <1>1, <1>2, FS_Subset
<1>4. \A i \in DOMAIN c.line : c.line[i] \in Slot
  BY DEF LineIs
<1>5. \A i : At(c.line, i) \in Slot
  BY <1>4 DEF At, NoSlot, Slot
<1> QED  BY <1>1, <1>3, <1>4, <1>5 DEF Sents, Receiveds, Slot

\* A round keeps what is known of a timeline.
LEMMA RoundSound ==
  ASSUME NEW c, NEW h \in Tallies, LineIs(c), SlotsTell(c, h), SlotsAddUp(c, h), EndIsNewest(c, h)
  PROVE  LineIs(Round(c)) /\ SlotsTell(Round(c), h) /\ SlotsAddUp(Round(c), h) /\ EndIsNewest(Round(c), h)
<1> DEFINE D == DOMAIN c.line
           B == {i \div 2 : i \in D}
           m == Merged(c.line)
           d == Round(c)
<1>1. CASE Cardinality(DOMAIN c.line) <= MaxSlots
  BY <1>1 DEF Round
<1>2. CASE ~(Cardinality(DOMAIN c.line) <= MaxSlots)
  <2>1. d.line = m /\ d.res = 2 * c.res /\ d.end = c.end \div 2
    BY <1>2 DEF Round
  <2>2. /\ IsFiniteSet(D) /\ D \subseteq Nat
        /\ Sents(c.line) \in [D -> Nat] /\ Receiveds(c.line) \in [D -> Nat]
        /\ \A i : At(c.line, i) \in Slot
    BY LineIsFinite
  <2>3. c.line \in [D -> Slot \ {NoSlot}]
    BY DEF LineIs
  <2>4. /\ DOMAIN m = B
        /\ m \in [DOMAIN m -> Slot \ {NoSlot}]
        /\ \A j \in Nat :
             /\ At(m, j).sent = At(c.line, 2 * j).sent + At(c.line, 2 * j + 1).sent
             /\ At(m, j).received = At(c.line, 2 * j).received + At(c.line, 2 * j + 1).received
    BY <2>2, <2>3, MergedIs
  <2>5. c.res \in Nat \ {0} /\ c.end \in Nat \cup {-1} /\ D \subseteq 0 .. c.end
    BY DEF LineIs
  <2>6. h.sent \in [Times -> Nat] /\ h.received \in [Times -> Nat]
    BY DEF Tallies
  <2> HIDE DEF m, d
  <2>7. LineIs(d)
    <3>1. d.res \in Nat \ {0} /\ d.end \in Nat \cup {-1}
      BY <2>1, <2>5
    <3>2. ASSUME NEW j \in B PROVE j \in 0 .. d.end
      <4>1. PICK i \in D : j = i \div 2
        BY <3>2
      <4>2. i \in Nat /\ i <= c.end /\ c.end \in Nat
        BY <2>5, <4>1
      <4> QED  BY <2>1, <4>1, <4>2
    <3> HIDE DEF B
    <3> QED  BY <2>1, <2>4, <3>1, <3>2 DEF LineIs
  <2>8. SlotsTell(d, h)
    <3>1. SUFFICES ASSUME NEW j \in Nat
                   PROVE  /\ At(m, j).received = CountedIn(j, 2 * c.res, h.received)
                          /\ At(m, j).sent <= CountedIn(j, 2 * c.res, h.sent)
                          /\ h.gone = 0 => At(m, j).sent = CountedIn(j, 2 * c.res, h.sent)
      BY <2>1 DEF SlotsTell
    <3>2. PICK a \in Nat, b \in Nat : a = 2 * j /\ b = 2 * j + 1
      OBVIOUS
    <3>3. /\ At(m, j).sent = At(c.line, a).sent + At(c.line, b).sent
          /\ At(m, j).received = At(c.line, a).received + At(c.line, b).received
      BY <2>4, <3>2
    <3>4. /\ CountedIn(j, 2 * c.res, h.sent) = CountedIn(a, c.res, h.sent) + CountedIn(b, c.res, h.sent)
          /\ CountedIn(j, 2 * c.res, h.received) = CountedIn(a, c.res, h.received) + CountedIn(b, c.res, h.received)
      BY <2>5, <2>6, <3>2, InHalves
    <3>5. /\ CountedIn(a, c.res, h.sent) \in Nat /\ CountedIn(b, c.res, h.sent) \in Nat
          /\ CountedIn(a, c.res, h.received) \in Nat /\ CountedIn(b, c.res, h.received) \in Nat
      BY <2>6, InIs
    <3>6. \A i \in {a, b} : /\ At(c.line, i).received = CountedIn(i, c.res, h.received)
                            /\ At(c.line, i).sent <= CountedIn(i, c.res, h.sent)
                            /\ h.gone = 0 => At(c.line, i).sent = CountedIn(i, c.res, h.sent)
      BY <3>2 DEF SlotsTell
    <3>7. At(c.line, a).sent \in Nat /\ At(c.line, b).sent \in Nat
      BY <2>2 DEF Slot
    <3> QED  BY <3>3, <3>4, <3>5, <3>6, <3>7
  <2>9. SlotsAddUp(d, h)
    <3>1. ASSUME NEW j \in B
          PROVE  /\ m[j].sent = (IF 2 * j \in D THEN Sents(c.line)[2 * j] ELSE 0)
                                + (IF 2 * j + 1 \in D THEN Sents(c.line)[2 * j + 1] ELSE 0)
                 /\ m[j].received = (IF 2 * j \in D THEN Receiveds(c.line)[2 * j] ELSE 0)
                                    + (IF 2 * j + 1 \in D THEN Receiveds(c.line)[2 * j + 1] ELSE 0)
      <4>1. j \in Nat /\ At(m, j) = m[j]
        BY <2>2, <2>4 DEF At
      <4>2. \A i : /\ At(c.line, i).sent = IF i \in D THEN Sents(c.line)[i] ELSE 0
                   /\ At(c.line, i).received = IF i \in D THEN Receiveds(c.line)[i] ELSE 0
        BY DEF At, Sents, Receiveds, NoSlot
      <4> QED  BY <2>4, <4>1, <4>2
    <3>2. /\ \A j \in B : Sents(m)[j] = m[j].sent /\ Receiveds(m)[j] = m[j].received
      BY <2>4 DEF Sents, Receiveds
    <3>3. SumFunctionOnSet(Sents(m), B) = SumFunctionOnSet(Sents(c.line), D)
      <4>1. \A j \in B : Sents(m)[j] = (IF 2 * j \in D THEN Sents(c.line)[2 * j] ELSE 0)
                                + (IF 2 * j + 1 \in D THEN Sents(c.line)[2 * j + 1] ELSE 0)
        BY <3>1, <3>2
      <4>2. ArePairs(Sents(m), Sents(c.line), D)
        BY <4>1 DEF ArePairs
      <4> HIDE DEF D
      <4> QED  BY <2>2, <4>2, SumOfPairs
    <3>4. SumFunctionOnSet(Receiveds(m), B) = SumFunctionOnSet(Receiveds(c.line), D)
      <4>1. \A j \in B : Receiveds(m)[j] = (IF 2 * j \in D THEN Receiveds(c.line)[2 * j] ELSE 0)
                                    + (IF 2 * j + 1 \in D THEN Receiveds(c.line)[2 * j + 1] ELSE 0)
        BY <3>1, <3>2
      <4>2. ArePairs(Receiveds(m), Receiveds(c.line), D)
        BY <4>1 DEF ArePairs
      <4> HIDE DEF D
      <4> QED  BY <2>2, <4>2, SumOfPairs
    <3> HIDE DEF B
    <3> QED  BY <2>1, <2>4, <3>3, <3>4 DEF SlotsAddUp
  <2>10. EndIsNewest(d, h)
    <3>1. ASSUME NEW t \in Times
          PROVE  \E q \in Nat : q = t \div c.res /\ t \div d.res = q \div 2
      <4>1. t \in Nat
        BY TimelineAssumption
      <4> QED  BY <2>1, <2>5, <4>1, DivTwice, ZenonT(40)
    <3>2. ASSUME NEW t \in Times, h.sent[t] + h.received[t] > 0 PROVE t \div d.res <= d.end
      <4>1. PICK q \in Nat : q = t \div c.res /\ t \div d.res = q \div 2
        BY <3>1
      <4>2. q <= c.end
        BY <3>2, <4>1 DEF EndIsNewest
      <4> QED  BY <2>1, <2>5, <4>1, <4>2
    <3>3. ASSUME d.end # -1 PROVE \E t \in Times : h.sent[t] + h.received[t] > 0 /\ t \div d.res = d.end
      <4>1. c.end # -1
        BY <2>1, <3>3
      <4>2. PICK t \in Times : h.sent[t] + h.received[t] > 0 /\ t \div c.res = c.end
        BY <4>1 DEF EndIsNewest
      <4>3. t \div d.res = d.end
        BY <2>1, <3>1, <4>2
      <4> QED  BY <4>2, <4>3
    <3> QED  BY <3>2, <3>3 DEF EndIsNewest
  <2> QED  BY <2>7, <2>8, <2>9, <2>10 DEF d
<1> QED  BY <1>1, <1>2

\* The timelines that tell of h.
Sound(h) ==
  {c \in [line : UNION {[D -> Slot] : D \in SUBSET Nat}, res : Nat, end : Int] :
     LineIs(c) /\ SlotsTell(c, h) /\ SlotsAddUp(c, h) /\ EndIsNewest(c, h)}

\* So does a round that is not needed.
LEMMA RoundInSound ==
  ASSUME NEW h \in Tallies, NEW c \in Sound(h)
  PROVE  Round(c) \in Sound(h)
<1>1. LineIs(c) /\ SlotsTell(c, h) /\ SlotsAddUp(c, h) /\ EndIsNewest(c, h)
  BY DEF Sound
<1>2. LineIs(Round(c)) /\ SlotsTell(Round(c), h) /\ SlotsAddUp(Round(c), h) /\ EndIsNewest(Round(c), h)
  BY <1>1, RoundSound
<1>3. Round(c) \in [line : UNION {[D -> Slot] : D \in SUBSET Nat}, res : Nat, end : Int]
  <2>1. CASE Cardinality(DOMAIN c.line) <= MaxSlots
    BY <2>1 DEF Round, Sound
  <2>2. CASE ~(Cardinality(DOMAIN c.line) <= MaxSlots)
    <3> DEFINE m == Merged(c.line)
    <3>1. Round(c) = [line |-> m, res |-> 2 * c.res, end |-> c.end \div 2]
      BY <2>2 DEF Round
    <3>2. DOMAIN c.line \subseteq Nat /\ c.line \in [DOMAIN c.line -> Slot \ {NoSlot}]
      BY <1>1, LineIsFinite DEF LineIs
    <3>3. DOMAIN m = {i \div 2 : i \in DOMAIN c.line} /\ m \in [DOMAIN m -> Slot \ {NoSlot}]
      BY <3>2, MergedIs
    <3>4. DOMAIN m \in SUBSET Nat
      BY <3>2, <3>3
    <3>5. c.res \in Nat /\ c.end \in Int
      BY <1>1 DEF LineIs
    <3> HIDE DEF m
    <3>6. m \in [DOMAIN m -> Slot]
      BY <3>3
    <3>7. m \in UNION {[D -> Slot] : D \in SUBSET Nat}
      BY <3>4, <3>6
    <3>8. 2 * c.res \in Nat /\ c.end \div 2 \in Int
      BY <3>5
    <3> QED  BY <3>1, <3>7, <3>8
  <2> QED  BY <2>1, <2>2
<1> QED  BY <1>2, <1>3 DEF Sound

\* Few enough slots, or an index that got smaller with each round.
LEMMA RoundEnds ==
  ASSUME NEW c, LineIs(c), NEW d, LineIs(d), d = Round(c),
         NEW k \in Nat, NEW e \in Int, Cardinality(DOMAIN c.line) <= MaxSlots \/ c.end <= e - k
  PROVE  Cardinality(DOMAIN d.line) <= MaxSlots \/ d.end <= e - (k + 1)
<1>1. CASE Cardinality(DOMAIN c.line) <= MaxSlots
  BY <1>1 DEF Round
<1>2. CASE ~(Cardinality(DOMAIN c.line) <= MaxSlots)
  <2>1. d.end = c.end \div 2
    BY <1>2 DEF Round
  <2>2. c.end \in Int /\ DOMAIN c.line \subseteq 0 .. c.end
    BY DEF LineIs
  <2>3. IsFiniteSet(0 .. c.end) /\ Cardinality(0 .. c.end) = IF 0 > c.end THEN 0 ELSE c.end - 0 + 1
    BY <2>2, FS_Interval
  <2>4. Cardinality(DOMAIN c.line) <= Cardinality(0 .. c.end) /\ Cardinality(DOMAIN c.line) \in Nat
    <3>1. IsFiniteSet(DOMAIN c.line)
      BY LineIsFinite
    <3> QED  BY <2>2, <2>3, <3>1, FS_Subset, FS_CardinalityType
  <2>5. MaxSlots \in Nat \ {0}
    BY TimelineAssumption
  <2>6. c.end >= 1
    BY <1>2, <2>2, <2>3, <2>4, <2>5
  <2> QED  BY <1>2, <2>1, <2>2, <2>6
<1> QED  BY <1>1, <1>2

\* However many rounds it takes, what is known of the timeline is kept and the slots are few.
LEMMA CoarsenedSound ==
  ASSUME NEW h \in Tallies, NEW line, NEW res, NEW end,
         [line |-> line, res |-> res, end |-> end] \in Sound(h)
  PROVE  /\ Coarsened(line, res, end) \in Sound(h)
         /\ Cardinality(DOMAIN Coarsened(line, res, end).line) <= MaxSlots
<1> DEFINE start == [line |-> line, res |-> res, end |-> end]
           X == Sound(h)
           n == end + 1
           IsRun(g) == g = [k \in 0 .. n |-> IF k = 0 THEN start ELSE Round(g[k - 1])]
           f == CHOOSE g : IsRun(g)
<1>1. start \in X /\ LineIs(start)
  BY DEF Sound
<1>2. n \in Nat /\ end \in Int
  BY <1>1 DEF LineIs
<1>3. \E g : IsRun(g)
  <2> DEFINE step == [k \in 1 .. n |-> [c \in X |-> Round(c)]]
  <2>1. step \in [1 .. n -> [X -> X]]
    BY RoundInSound
  <2> HIDE DEF X, n, start
  <2>2. PICK g \in [0 .. n -> X] : AreRounds(g, n, start, step)
    <3> HIDE DEF step
    <3> QED  BY <1>1, <1>2, <2>1, RoundsExist
  <2>3. ASSUME NEW k \in 0 .. n PROVE g[k] = IF k = 0 THEN start ELSE Round(g[k - 1])
    <3>1. g[k] = IF k = 0 THEN start ELSE step[k][g[k - 1]]
      BY <2>2 DEF AreRounds
    <3>2. CASE k = 0
      BY <3>1, <3>2
    <3>3. CASE k # 0
      <4>1. k \in 1 .. n /\ k - 1 \in 0 .. n
        BY <1>2, <3>3
      <4>2. g[k - 1] \in X
        BY <2>2, <4>1
      <4> QED  BY <3>1, <3>3, <4>1, <4>2
    <3> QED  BY <3>2, <3>3
  <2>4. g = [k \in 0 .. n |-> IF k = 0 THEN start ELSE Round(g[k - 1])]
    <3>1. g = [k \in 0 .. n |-> g[k]]
      BY <2>2
    <3> QED  BY <2>3, <3>1
  <2> QED  BY <2>4
<1>4. IsRun(f)
  BY <1>3
<1>5. Coarsened(line, res, end) = f[n]
  BY DEF Coarsened
<1> HIDE DEF f, start, X
<1> DEFINE Fits(c, k) == Cardinality(DOMAIN c.line) <= MaxSlots \/ c.end <= end - k
           G == {k \in 0 .. n : f[k] \in X /\ Fits(f[k], k)}
<1>6. 0 \in G
  <2>1. f[0] = start /\ 0 \in 0 .. n
    BY <1>2, <1>4
  <2>2. Fits(start, 0)
    BY <1>2 DEF start
  <2> QED  BY <1>1, <2>1, <2>2
<1>7. ASSUME NEW k \in 0 .. n - 1, k \in G PROVE k + 1 \in G
  <2>1. k \in Nat /\ k + 1 \in 0 .. n /\ k + 1 # 0 /\ (k + 1) - 1 = k
    BY <1>2
  <2>2. f[k + 1] = Round(f[k])
    BY <1>4, <2>1
  <2>3. f[k] \in X /\ Fits(f[k], k)
    BY <1>7
  <2>4. f[k + 1] \in X
    BY <2>2, <2>3, RoundInSound DEF X
  <2>5. LineIs(f[k]) /\ LineIs(f[k + 1])
    BY <2>3, <2>4 DEF X, Sound
  <2>6. Fits(f[k + 1], k + 1)
    BY <1>2, <2>1, <2>2, <2>3, <2>5, RoundEnds
  <2> QED  BY <2>1, <2>4, <2>6
<1>8. n \in G
  <2>1. G \in SUBSET (0 .. n)
    OBVIOUS
  <2> HIDE DEF G
  <2>2. \A k \in 0 .. n : k \in G
    BY <1>2, <1>6, <1>7, <2>1, UpTo
  <2> QED  BY <1>2, <2>2
<1>9. f[n] \in X /\ Fits(f[n], n)
  BY <1>8
<1>10. Cardinality(DOMAIN f[n].line) <= MaxSlots
  <2>1. CASE f[n].end <= end - n
    <3>1. LineIs(f[n])
      BY <1>9 DEF X, Sound
    <3>2. DOMAIN f[n].line = {}
      BY <1>2, <2>1, <3>1 DEF LineIs
    <3>3. Cardinality(DOMAIN f[n].line) = 0
      BY <3>2, FS_EmptySet
    <3> QED  BY <3>3, TimelineAssumption
  <2> QED  BY <1>9, <2>1
<1> QED  BY <1>5, <1>9, <1>10 DEF X

-----------------------------------------------------------------------------
(* The steps.                                                               *)

Grown(count, t, n) == [count EXCEPT ![t] = @ + n]

\* Bytes counted at a time are in the slot of that time and in no other.
LEMMA CountGrows ==
  ASSUME NEW count \in [Times -> Nat], NEW t \in Times, NEW n \in Nat, NEW res, NEW i
  PROVE  /\ Grown(count, t, n) \in [Times -> Nat]
         /\ CountedIn(i, res, Grown(count, t, n)) = CountedIn(i, res, count) + (IF t \div res = i THEN n ELSE 0)
         /\ SumFunctionOnSet(Grown(count, t, n), Times) = SumFunctionOnSet(count, Times) + n
<1> DEFINE w == Grown(count, t, n)
           S == {u \in Times : u \div res = i}
<1>1. w \in [Times -> Nat] /\ \A u \in Times : w[u] = IF u = t THEN count[u] + n ELSE count[u]
  BY DEF Grown
<1>2. IsFiniteSet(S) /\ IsFiniteSet(Times) /\ S \subseteq Times
  BY TimesAreFinite
<1>3. (\A u \in S : count[u] \in Nat) /\ (\A u \in Times : count[u] \in Nat)
  OBVIOUS
<1>4. t \in S <=> t \div res = i
  OBVIOUS
<1> HIDE DEF w, S
<1>5. SumFunctionOnSet(w, S) = SumFunctionOnSet(count, S) + (IF t \div res = i THEN n ELSE 0)
  <2>1. CASE t \in S
    <3>1. \A u \in S : w[u] = IF u = t THEN count[u] + n ELSE count[u]
      BY <1>1, <1>2
    <3>2. SumFunctionOnSet(w, S) = SumFunctionOnSet(count, S) + n
      BY <1>2, <1>3, <2>1, <3>1, SumChanged
    <3> QED  BY <1>4, <2>1, <3>2
  <2>2. CASE t \notin S
    <3>1. \A u \in S : count[u] \in Nat /\ w[u] = count[u]
      BY <1>1, <1>2, <1>3, <2>2
    <3>2. SumFunctionOnSet(w, S) = SumFunctionOnSet(count, S)
      BY <1>2, <3>1, SumSame
    <3>3. SumFunctionOnSet(count, S) \in Nat
      BY <1>2, <1>3, SumFacts
    <3> QED  BY <1>4, <2>2, <3>2, <3>3
  <2> QED  BY <2>1, <2>2
<1>6. SumFunctionOnSet(w, Times) = SumFunctionOnSet(count, Times) + n
  BY <1>1, <1>2, <1>3, SumChanged
<1> QED  BY <1>1, <1>5, <1>6 DEF CountedIn, S, w

\* Adding keeps the invariant: what is there before the rounds tells of the new byte already.
LEMMA AddSound ==
  ASSUME TimelineInv, NEW n \in Nat \ {0}, NEW received \in BOOLEAN, TimelineAdd(n, received)
  PROVE  TimelineInv'
<1> DEFINE i == clock.now \div resolution
           slot == At(timeline, i)
           line == [j \in DOMAIN timeline \cup {i} |->
                      IF j # i THEN timeline[j]
                      ELSE IF received THEN [slot EXCEPT !.received = @ + n] ELSE [slot EXCEPT !.sent = @ + n]]
           end == IF i \notin DOMAIN timeline /\ i > last THEN i ELSE last
           new == Coarsened(line, resolution, end)
           c == [line |-> line, res |-> resolution, end |-> end]
           h == tally'
           D == DOMAIN timeline
<1>1. timeline' = new.line /\ resolution' = new.res /\ last' = new.end /\ clock' = clock
  BY DEF TimelineAdd
<1>2. tally' = IF received THEN [tally EXCEPT !.received[clock.now] = @ + n]
                           ELSE [tally EXCEPT !.sent[clock.now] = @ + n]
  BY DEF TimelineAdd
<1>3. tally \in Tallies /\ clock.now \in Times /\ clock.back \in Nat /\ (tally.missed > 0 => tally.far)
  BY DEF TimelineInv
<1>4. LineIs(Now) /\ SlotsTell(Now, tally) /\ SlotsAddUp(Now, tally) /\ EndIsNewest(Now, tally)
  BY DEF TimelineInv
<1>5. /\ resolution \in Nat \ {0} /\ last \in Nat \cup {-1}
      /\ D \subseteq 0 .. last /\ timeline \in [D -> Slot \ {NoSlot}]
  BY <1>4 DEF LineIs, Now
<1>6. clock.now \in Nat /\ i \in Nat
  <2>1. clock.now \in Nat
    BY <1>3, TimelineAssumption
  <2> QED  BY <1>5, <2>1, DivMod
<1>7. /\ IsFiniteSet(D) /\ Sents(timeline) \in [D -> Nat] /\ Receiveds(timeline) \in [D -> Nat]
      /\ \A j : At(timeline, j) \in Slot
  BY <1>4, LineIsFinite DEF Now
<1>8. PICK ds \in Nat, dr \in Nat :
        /\ ds + dr > 0
        /\ h = [tally EXCEPT !.sent = Grown(tally.sent, clock.now, ds),
                             !.received = Grown(tally.received, clock.now, dr)]
        /\ \A j \in D \cup {i} :
             line[j] = [sent     |-> At(timeline, j).sent + (IF j = i THEN ds ELSE 0),
                        received |-> At(timeline, j).received + (IF j = i THEN dr ELSE 0)]
  <2>1. \A count \in [Times -> Nat] : Grown(count, clock.now, 0) = count
    BY <1>3 DEF Grown
  <2>2. tally.sent \in [Times -> Nat] /\ tally.received \in [Times -> Nat]
    BY <1>3 DEF Tallies
  <2>3. ASSUME NEW j \in D \cup {i}, j # i
        PROVE  line[j] = [sent |-> At(timeline, j).sent + 0, received |-> At(timeline, j).received + 0]
    <3>1. j \in D /\ line[j] = timeline[j] /\ At(timeline, j) = timeline[j]
      BY <2>3 DEF At
    <3>2. timeline[j] \in Slot
      BY <1>5, <3>1
    <3> HIDE DEF line
    <3> QED  BY <3>1, <3>2 DEF Slot
  <2>4. slot \in Slot
    BY <1>7
  <2>5. CASE received
    <3>1. h = [tally EXCEPT !.sent = Grown(tally.sent, clock.now, 0),
                            !.received = Grown(tally.received, clock.now, n)]
      <4>1. Grown(tally.sent, clock.now, 0) = tally.sent
        BY <2>1, <2>2
      <4>2. h = [tally EXCEPT !.received = Grown(tally.received, clock.now, n)]
        BY <1>2, <1>3, <2>5 DEF Tallies, Grown
      <4> HIDE DEF h
      <4> QED  BY <1>3, <4>1, <4>2 DEF Tallies
    <3>2. line[i] = [sent |-> slot.sent + 0, received |-> slot.received + n]
      <4>1. line[i] = [slot EXCEPT !.received = @ + n]
        BY <2>5
      <4> HIDE DEF line, slot
      <4> QED  BY <2>4, <4>1 DEF Slot
    <3> HIDE DEF line, h, D
    <3>3. ASSUME NEW j \in D \cup {i}
          PROVE  line[j] = [sent     |-> At(timeline, j).sent + (IF j = i THEN 0 ELSE 0),
                            received |-> At(timeline, j).received + (IF j = i THEN n ELSE 0)]
      <4> HIDE DEF i
      <4>1. CASE j = i
        BY <3>2, <4>1
      <4>2. CASE j # i
        BY <2>3, <4>2
      <4> QED  BY <4>1, <4>2
    <3>4. 0 \in Nat /\ n \in Nat /\ 0 + n > 0
      OBVIOUS
    <3> HIDE DEF i
    <3> QED  BY <3>1, <3>3, <3>4
  <2>6. CASE ~received
    <3>1. h = [tally EXCEPT !.sent = Grown(tally.sent, clock.now, n),
                            !.received = Grown(tally.received, clock.now, 0)]
      <4>1. Grown(tally.received, clock.now, 0) = tally.received
        BY <2>1, <2>2
      <4>2. h = [tally EXCEPT !.sent = Grown(tally.sent, clock.now, n)]
        BY <1>2, <1>3, <2>6 DEF Tallies, Grown
      <4> HIDE DEF h
      <4> QED  BY <1>3, <4>1, <4>2 DEF Tallies
    <3>2. line[i] = [sent |-> slot.sent + n, received |-> slot.received + 0]
      <4>1. line[i] = [slot EXCEPT !.sent = @ + n]
        BY <2>6
      <4> HIDE DEF line, slot
      <4> QED  BY <2>4, <4>1 DEF Slot
    <3> HIDE DEF line, h, D
    <3>3. ASSUME NEW j \in D \cup {i}
          PROVE  line[j] = [sent     |-> At(timeline, j).sent + (IF j = i THEN n ELSE 0),
                            received |-> At(timeline, j).received + (IF j = i THEN 0 ELSE 0)]
      <4> HIDE DEF i
      <4>1. CASE j = i
        BY <3>2, <4>1
      <4>2. CASE j # i
        BY <2>3, <4>2
      <4> QED  BY <4>1, <4>2
    <3>4. n \in Nat /\ 0 \in Nat /\ n + 0 > 0
      OBVIOUS
    <3> HIDE DEF i
    <3> QED  BY <3>1, <3>3, <3>4
  <2> QED  BY <2>5, <2>6
<1>9. /\ h \in Tallies /\ h.gone = tally.gone /\ h.missed = tally.missed /\ h.far = tally.far
      /\ h.sent = Grown(tally.sent, clock.now, ds) /\ h.received = Grown(tally.received, clock.now, dr)
  <2>1. tally.sent \in [Times -> Nat] /\ tally.received \in [Times -> Nat]
    BY <1>3 DEF Tallies
  <2>2. Grown(tally.sent, clock.now, ds) \in [Times -> Nat] /\ Grown(tally.received, clock.now, dr) \in [Times -> Nat]
    BY <1>3, <2>1, CountGrows
  <2> HIDE DEF h
  <2> QED  BY <1>3, <1>8, <2>2 DEF Tallies
<1>10. DOMAIN line = D \cup {i}
  OBVIOUS
<1> HIDE DEF h
<1>11. ASSUME NEW j PROVE At(line, j) = [sent     |-> At(timeline, j).sent + (IF j = i THEN ds ELSE 0),
                                         received |-> At(timeline, j).received + (IF j = i THEN dr ELSE 0)]
  <2> HIDE DEF line, i
  <2>1. CASE j \in D \cup {i}
    BY <1>8, <1>10, <2>1 DEF At
  <2>2. CASE j \notin D \cup {i}
    <3>1. At(line, j) = NoSlot /\ At(timeline, j) = NoSlot /\ j # i
      BY <1>10, <2>2 DEF At
    <3> QED  BY <3>1 DEF NoSlot
  <2> QED  BY <2>1, <2>2
<1>12. line \in [DOMAIN line -> Slot \ {NoSlot}]
  <2>1. ASSUME NEW j \in D \cup {i} PROVE line[j] \in Slot \ {NoSlot}
    <3>1. At(timeline, j) \in Slot /\ (j # i => At(timeline, j) # NoSlot)
      BY <1>5, <1>7, <2>1 DEF At
    <3>2. PICK a \in Nat, b \in Nat : a = At(timeline, j).sent /\ b = At(timeline, j).received
      BY <3>1 DEF Slot
    <3>3. j # i => a # 0 \/ b # 0
      BY <3>1, <3>2 DEF Slot, NoSlot
    <3>4. line[j] = [sent |-> a + (IF j = i THEN ds ELSE 0), received |-> b + (IF j = i THEN dr ELSE 0)]
      BY <1>8, <3>2
    <3> HIDE DEF i
    <3>5. PICK x \in Nat, y \in Nat : x = a + (IF j = i THEN ds ELSE 0) /\ y = b + (IF j = i THEN dr ELSE 0)
      <4>1. a + (IF j = i THEN ds ELSE 0) \in Nat /\ b + (IF j = i THEN dr ELSE 0) \in Nat
        OBVIOUS
      <4> QED  BY <4>1
    <3>6. x # 0 \/ y # 0
      BY <1>8, <3>3, <3>5
    <3> HIDE DEF line
    <3> QED  BY <3>4, <3>5, <3>6 DEF Slot, NoSlot
  <2>2. line = [j \in D \cup {i} |-> line[j]]
    OBVIOUS
  <2> HIDE DEF line
  <2> QED  BY <1>10, <2>1, <2>2
<1> HIDE DEF line
<1>13. /\ end \in Nat /\ D \cup {i} \subseteq 0 .. end /\ i <= end
       /\ last <= end /\ end \in {i, last}
  BY <1>5, <1>6
<1>14. LineIs(c)
  BY <1>5, <1>10, <1>12, <1>13 DEF LineIs
<1>15. tally.sent \in [Times -> Nat] /\ tally.received \in [Times -> Nat]
  BY <1>3 DEF Tallies
<1>16. SlotsTell(c, h)
  <2>1. SUFFICES ASSUME NEW j \in Nat
                 PROVE  /\ At(line, j).received = CountedIn(j, resolution, h.received)
                        /\ At(line, j).sent <= CountedIn(j, resolution, h.sent)
                        /\ h.gone = 0 => At(line, j).sent = CountedIn(j, resolution, h.sent)
    BY DEF SlotsTell
  <2>2. /\ CountedIn(j, resolution, h.sent) = CountedIn(j, resolution, tally.sent) + (IF i = j THEN ds ELSE 0)
        /\ CountedIn(j, resolution, h.received) = CountedIn(j, resolution, tally.received) + (IF i = j THEN dr ELSE 0)
    <3>1. CountedIn(j, resolution, Grown(tally.sent, clock.now, ds))
            = CountedIn(j, resolution, tally.sent) + (IF i = j THEN ds ELSE 0)
      BY <1>3, <1>15, CountGrows
    <3>2. CountedIn(j, resolution, Grown(tally.received, clock.now, dr))
            = CountedIn(j, resolution, tally.received) + (IF i = j THEN dr ELSE 0)
      BY <1>3, <1>15, CountGrows
    <3> QED  BY <1>9, <3>1, <3>2
  <2>3. CountedIn(j, resolution, tally.sent) \in Nat /\ CountedIn(j, resolution, tally.received) \in Nat
    BY <1>15, InIs
  <2>4. /\ At(timeline, j).received = CountedIn(j, resolution, tally.received)
        /\ At(timeline, j).sent <= CountedIn(j, resolution, tally.sent)
        /\ tally.gone = 0 => At(timeline, j).sent = CountedIn(j, resolution, tally.sent)
    BY <1>4 DEF SlotsTell, Now
  <2>5. At(timeline, j).sent \in Nat
    BY <1>7 DEF Slot
  <2>6. /\ At(line, j).sent = At(timeline, j).sent + (IF j = i THEN ds ELSE 0)
        /\ At(line, j).received = At(timeline, j).received + (IF j = i THEN dr ELSE 0)
    BY <1>11
  <2> HIDE DEF i
  <2> QED  BY <1>9, <2>2, <2>3, <2>4, <2>5, <2>6
<1>17. SlotsAddUp(c, h)
  <2>1. /\ IsGrown(Sents(line), Sents(timeline), D, i, ds)
        /\ IsGrown(Receiveds(line), Receiveds(timeline), D, i, dr)
    <3>1. ASSUME NEW j \in D \cup {i}
          PROVE  /\ Sents(line)[j] = At(timeline, j).sent + (IF j = i THEN ds ELSE 0)
                 /\ Receiveds(line)[j] = At(timeline, j).received + (IF j = i THEN dr ELSE 0)
      <4> HIDE DEF i
      <4>1. Sents(line)[j] = line[j].sent /\ Receiveds(line)[j] = line[j].received
        BY <1>10 DEF Sents, Receiveds
      <4>2. line[j] = [sent     |-> At(timeline, j).sent + (IF j = i THEN ds ELSE 0),
                       received |-> At(timeline, j).received + (IF j = i THEN dr ELSE 0)]
        BY <1>8, <3>1
      <4>3. /\ line[j].sent = At(timeline, j).sent + (IF j = i THEN ds ELSE 0)
            /\ line[j].received = At(timeline, j).received + (IF j = i THEN dr ELSE 0)
        BY <4>2
      <4> QED  BY <4>1, <4>3
    <3>2. \A j : /\ At(timeline, j).sent = IF j \in D THEN Sents(timeline)[j] ELSE 0
                 /\ At(timeline, j).received = IF j \in D THEN Receiveds(timeline)[j] ELSE 0
      BY DEF At, Sents, Receiveds, NoSlot
    <3> HIDE DEF i, D
    <3> QED  BY <3>1, <3>2 DEF IsGrown
  <2>2. (\A j \in D : Sents(timeline)[j] \in Nat) /\ (\A j \in D : Receiveds(timeline)[j] \in Nat)
    BY <1>7
  <2> HIDE DEF i, D
  <2>3. SumFunctionOnSet(Sents(line), D \cup {i}) = SumFunctionOnSet(Sents(timeline), D) + ds
    BY <1>7, <2>1, <2>2, SumGrows
  <2>4. SumFunctionOnSet(Receiveds(line), D \cup {i}) = SumFunctionOnSet(Receiveds(timeline), D) + dr
    BY <1>7, <2>1, <2>2, SumGrows
  <2>5. /\ SumFunctionOnSet(h.sent, Times) = SumFunctionOnSet(tally.sent, Times) + ds
        /\ SumFunctionOnSet(h.received, Times) = SumFunctionOnSet(tally.received, Times) + dr
    <3>1. SumFunctionOnSet(Grown(tally.sent, clock.now, ds), Times) = SumFunctionOnSet(tally.sent, Times) + ds
      BY <1>3, <1>15, CountGrows
    <3>2. SumFunctionOnSet(Grown(tally.received, clock.now, dr), Times) = SumFunctionOnSet(tally.received, Times) + dr
      BY <1>3, <1>15, CountGrows
    <3> QED  BY <1>9, <3>1, <3>2
  <2>6. /\ SumFunctionOnSet(Sents(timeline), D) + tally.gone = SumFunctionOnSet(tally.sent, Times) + tally.missed
        /\ SumFunctionOnSet(Receiveds(timeline), D) = SumFunctionOnSet(tally.received, Times)
    BY <1>4 DEF SlotsAddUp, Now, D
  <2>7. /\ SumFunctionOnSet(Sents(timeline), D) \in Nat /\ SumFunctionOnSet(tally.sent, Times) \in Nat
        /\ tally.gone \in Nat /\ tally.missed \in Nat
    <3>1. IsFiniteSet(Times) /\ \A t \in Times : tally.sent[t] \in Nat
      BY <1>15, TimelineAssumption
    <3> QED  BY <1>3, <1>7, <2>2, <3>1, SumFacts DEF Tallies
  <2>8. SumFunctionOnSet(Sents(line), D \cup {i}) + h.gone = SumFunctionOnSet(h.sent, Times) + h.missed
    BY <1>9, <2>3, <2>5, <2>6, <2>7
  <2> QED  BY <1>10, <2>4, <2>5, <2>6, <2>8 DEF SlotsAddUp
<1>18. EndIsNewest(c, h)
  <2>1. \A t \in Times : /\ h.sent[t] = tally.sent[t] + (IF t = clock.now THEN ds ELSE 0)
                         /\ h.received[t] = tally.received[t] + (IF t = clock.now THEN dr ELSE 0)
    BY <1>9, <1>15 DEF Grown
  <2>2. ASSUME NEW t \in Times, t # clock.now
        PROVE  h.sent[t] + h.received[t] = tally.sent[t] + tally.received[t]
    BY <1>15, <2>1, <2>2
  <2>3. h.sent[clock.now] + h.received[clock.now] > 0
    BY <1>3, <1>8, <1>15, <2>1
  <2>4. ASSUME NEW t \in Times, h.sent[t] + h.received[t] > 0 PROVE t \div resolution <= end
    <3>1. CASE t = clock.now
      BY <1>13, <3>1
    <3>2. CASE t # clock.now
      <4>1. t \div resolution <= last
        BY <1>4, <2>2, <2>4, <3>2 DEF EndIsNewest, Now
      <4>2. t \div resolution \in Nat
        BY <1>5, DivMod, TimelineAssumption
      <4> HIDE DEF end, i
      <4> QED  BY <1>5, <1>13, <4>1, <4>2
    <3> QED  BY <3>1, <3>2
  <2>5. \E t \in Times : h.sent[t] + h.received[t] > 0 /\ t \div resolution = end
    <3>1. CASE end = i
      BY <1>3, <2>3, <3>1
    <3>2. CASE end = last /\ end # i
      <4>1. PICK t \in Times : tally.sent[t] + tally.received[t] > 0 /\ t \div resolution = last
        BY <1>4, <1>13, <3>2 DEF EndIsNewest, Now
      <4>2. t # clock.now
        BY <3>2, <4>1
      <4> QED  BY <2>2, <3>2, <4>1, <4>2
    <3> HIDE DEF end, i
    <3> QED  BY <1>13, <3>1, <3>2
  <2> HIDE DEF end
  <2> QED  BY <2>4, <2>5 DEF EndIsNewest
<1>19. c \in Sound(h)
  <2>1. line \in [D \cup {i} -> Slot] /\ D \cup {i} \in SUBSET Nat
    BY <1>10, <1>12, <1>13
  <2>2. line \in UNION {[E -> Slot] : E \in SUBSET Nat}
    BY <2>1
  <2> HIDE DEF end
  <2>3. c \in [line : UNION {[E -> Slot] : E \in SUBSET Nat}, res : Nat, end : Int]
    BY <1>5, <1>13, <2>2
  <2> HIDE DEF c
  <2> QED  BY <1>14, <1>16, <1>17, <1>18, <2>3 DEF Sound
<1> HIDE DEF end
<1>20. new \in Sound(h) /\ Cardinality(DOMAIN new.line) <= MaxSlots
  BY <1>9, <1>19, CoarsenedSound
<1> HIDE DEF new
<1>21. Now' = new
  <2>1. new = [line |-> new.line, res |-> new.res, end |-> new.end]
    BY <1>20 DEF Sound
  <2> QED  BY <1>1, <2>1 DEF Now
<1>22. LineIs(new) /\ SlotsTell(new, h) /\ SlotsAddUp(new, h) /\ EndIsNewest(new, h)
  BY <1>20 DEF Sound
<1>23. LineIs(Now)' /\ SlotsTell(Now, tally)' /\ SlotsAddUp(Now, tally)' /\ EndIsNewest(Now, tally)'
  <2>1. LineIs(Now)'
    BY <1>21, <1>22 DEF LineIs
  <2>2. SlotsTell(Now, tally)'
    BY <1>21, <1>22 DEF SlotsTell, h
  <2>3. SlotsAddUp(Now, tally)'
    BY <1>21, <1>22 DEF SlotsAddUp, h
  <2>4. EndIsNewest(Now, tally)'
    BY <1>21, <1>22 DEF EndIsNewest, h
  <2> QED  BY <2>1, <2>2, <2>3, <2>4
<1> QED  BY <1>1, <1>3, <1>9, <1>20, <1>23 DEF TimelineInv, h

LEMMA MinOfTwo ==
  ASSUME NEW a \in Nat, NEW b \in Nat
  PROVE  Min({a, b}) = IF a <= b THEN a ELSE b
<1> DEFINE m == IF a <= b THEN a ELSE b
<1>1. m \in {a, b} /\ \A y \in {a, b} : m <= y
  OBVIOUS
<1>2. \A x \in {a, b} : (\A y \in {a, b} : x <= y) => x = m
  OBVIOUS
<1> HIDE DEF m
<1>3. Min({a, b}) = m
  BY <1>1, <1>2 DEF Min
<1> QED  BY <1>3 DEF m

\* If nothing that was sent is too far back, it is within the lookback from the last slot.
LEMMA NotFar ==
  ASSUME TimelineInv, ~Far, NEW t \in Times, tally.sent[t] > 0
  PROVE  t \div resolution > last - Lookback
<1> DEFINE S == {0} \cup {u \div resolution : u \in {x \in Times : Counted(x) > 0}}
<1>1. EndIsNewest(Now, tally) /\ LineIs(Now) /\ tally \in Tallies
  BY DEF TimelineInv
<1>2. resolution \in Nat \ {0} /\ last \in Nat \cup {-1}
  BY <1>1 DEF LineIs, Now
<1>3. tally.sent \in [Times -> Nat] /\ tally.received \in [Times -> Nat]
  BY <1>1 DEF Tallies
<1>4. ASSUME NEW u \in Times PROVE u \div resolution \in Nat
  <2>1. u \in Nat
    BY TimelineAssumption
  <2> QED  BY <1>2, <2>1, DivMod
<1>5. tally.sent[t] + tally.received[t] > 0
  BY <1>3
<1>6. last \in Nat
  <2>1. t \div resolution <= last
    BY <1>1, <1>5 DEF EndIsNewest, Now
  <2> QED  BY <1>2, <1>4, <2>1
<1>7. last \in S
  <2>1. PICK u \in Times : tally.sent[u] + tally.received[u] > 0 /\ u \div resolution = last
    BY <1>1, <1>6 DEF EndIsNewest, Now
  <2> QED  BY <2>1 DEF Counted
<1>8. ASSUME NEW y \in S PROVE y \in Nat /\ y <= last
  <2>1. CASE y = 0
    BY <1>6, <2>1
  <2>2. CASE y # 0
    <3>1. PICK u \in Times : Counted(u) > 0 /\ y = u \div resolution
      BY <1>8, <2>2
    <3>2. y <= last
      BY <1>1, <3>1 DEF EndIsNewest, Now, Counted
    <3> QED  BY <1>4, <3>1, <3>2
  <2> QED  BY <2>1, <2>2
<1>9. Max(S) = last
  <2>1. \A x \in S : (\A y \in S : x >= y) => x = last
    BY <1>6, <1>7, <1>8
  <2>2. \A y \in S : last >= y
    BY <1>6, <1>8
  <2> HIDE DEF S
  <2> QED  BY <1>7, <2>1, <2>2 DEF Max
<1>10. ~(t \div resolution <= last - Lookback)
  <2> HIDE DEF S
  <2>1. Far <=> \E u \in Times : tally.sent[u] > 0 /\ u \div resolution <= Max(S) - Lookback
    BY DEF Far, S
  <2> QED  BY <1>9, <2>1
<1> QED  BY <1>4, <1>6, <1>10, TimelineAssumption

-----------------------------------------------------------------------------
(* Bytes that are taken back.                                               *)

\* The slots a discard looks at, the search through them, and what it takes from each.
Window == last - Lookback + 1 .. last
IsSearch(left, n, v) ==
  \A k \in 0 .. Lookback :
    left[k] = IF k = 0 THEN n ELSE left[k - 1] - Min({left[k - 1], v[last - k + 1]})
Takings(left) == [i \in Int |-> IF i \in Window THEN left[last - i] - left[last - i + 1] ELSE 0]

\* What is found is taken from the slots it is in, and is all if there is enough.
LEMMA SearchTakes ==
  ASSUME last \in Int, NEW n \in Nat, NEW v, \A i \in Int : v[i] \in Nat,
         NEW left, IsSearch(left, n, v)
  PROVE  /\ \A i \in Int : Takings(left)[i] \in 0 .. v[i]
         /\ left[Lookback] \in 0 .. n
         /\ SumFunctionOnSet(Takings(left), Window) = n - left[Lookback]
         /\ left[Lookback] # 0 => SumFunctionOnSet(v, Window) = n - left[Lookback]
         /\ IsFiniteSet(Window)
<1> DEFINE w == Takings(left)
           T(k) == last - k + 1 .. last
           L == Lookback
           Ok(k) == /\ left[k] \in 0 .. n
                    /\ SumFunctionOnSet(w, T(k)) = n - left[k]
                    /\ left[k] # 0 => SumFunctionOnSet(v, T(k)) = n - left[k]
                    /\ \A i \in T(k) : w[i] \in 0 .. v[i]
           G == {k \in 0 .. L : Ok(k)}
<1>1. L \in Nat \ {0}
  BY TimelineAssumption
<1>2. 0 \in G
  <2>0. 0 \in 0 .. Lookback
    BY <1>1
  <2>1. left[0] = n
    BY <2>0, Zenon DEF IsSearch
  <2>2. T(0) = {}
    OBVIOUS
  <2>3. SumFunctionOnSet(w, {}) = 0 /\ SumFunctionOnSet(v, {}) = 0
    BY FS_EmptySet, SumFacts
  <2> QED  BY <1>1, <2>1, <2>2, <2>3
<1>3. ASSUME NEW k \in 0 .. L - 1, k \in G PROVE k + 1 \in G
  <2> DEFINE x == last - k
             S == T(k)
             R == T(k + 1)
  <2>1. k \in Nat /\ k + 1 \in 1 .. L /\ (k + 1) - 1 = k /\ last - (k + 1) + 1 = x /\ x \in Int
    BY <1>1
  <2>2. left[k + 1] = left[k] - Min({left[k], v[x]})
    BY <2>1 DEF IsSearch
  <2>3. left[k] \in Nat /\ v[x] \in Nat /\ left[k] <= n
    BY <1>3, <2>1
  <2>4. left[k + 1] = left[k] - (IF left[k] <= v[x] THEN left[k] ELSE v[x])
    BY <2>2, <2>3, MinOfTwo
  <2>5. w[x] = left[k] - left[k + 1]
    <3>1. x \in Window /\ last - x = k /\ last - x + 1 = k + 1
      BY <1>1, <2>1 DEF Window
    <3> HIDE DEF x
    <3> QED  BY <2>1, <3>1 DEF Takings
  <2>6. R = S \cup {x} /\ x \notin S
    BY <2>1
  <2>7. IsFiniteSet(S) /\ \A i \in S : w[i] \in Nat /\ v[i] \in Nat
    <3>1. IsFiniteSet(S)
      BY <2>1, FS_Interval
    <3> HIDE DEF w
    <3>2. \A i \in S : w[i] \in 0 .. v[i] /\ v[i] \in Nat
      BY <1>3
    <3> QED  BY <3>1, <3>2
  <2>8. SumFunctionOnSet(w, S) = n - left[k] /\ (left[k] # 0 => SumFunctionOnSet(v, S) = n - left[k])
    BY <1>3
  <2>9. \A i \in S : w[i] \in 0 .. v[i]
    BY <1>3
  <2> HIDE DEF w, x, T
  <2>10. w[x] \in 0 .. v[x] /\ left[k + 1] \in 0 .. n
    BY <2>3, <2>4, <2>5
  <2>11. (\A i \in S \cup {x} : w[i] \in Nat) /\ (\A i \in S \cup {x} : v[i] \in Nat)
    BY <2>3, <2>7, <2>10
  <2>12. SumFunctionOnSet(w, S \cup {x}) = w[x] + SumFunctionOnSet(w, S)
    <3> HIDE DEF S
    <3> QED  BY <2>6, <2>7, <2>11, SumNew
  <2>13. SumFunctionOnSet(v, S \cup {x}) = v[x] + SumFunctionOnSet(v, S)
    <3> HIDE DEF S
    <3> QED  BY <2>6, <2>7, <2>11, SumNew
  <2>14. SumFunctionOnSet(w, R) = n - left[k + 1]
    <3>1. PICK a \in Nat, b \in Nat, y \in Nat : a = left[k] /\ b = left[k + 1] /\ y = w[x] /\ y = a - b
      BY <2>3, <2>5, <2>10
    <3>2. SumFunctionOnSet(w, R) = y + (n - a)
      BY <2>6, <2>8, <2>12, <3>1
    <3> QED  BY <3>1, <3>2
  <2>15. left[k + 1] # 0 => SumFunctionOnSet(v, R) = n - left[k + 1]
    BY <2>3, <2>4, <2>6, <2>8, <2>13
  <2>16. \A i \in R : w[i] \in 0 .. v[i]
    BY <2>6, <2>9, <2>10
  <2>17. k + 1 \in 0 .. L
    BY <2>1
  <2> QED  BY <2>10, <2>14, <2>15, <2>16, <2>17
<1>4. L \in G
  <2>1. G \in SUBSET (0 .. L)
    OBVIOUS
  <2> HIDE DEF G
  <2>2. \A k \in 0 .. L : k \in G
    BY <1>1, <1>2, <1>3, <2>1, UpTo
  <2> QED  BY <1>1, <2>2
<1>5. T(L) = Window /\ IsFiniteSet(Window)
  <2>1. last - L + 1 \in Int
    BY <1>1
  <2> QED  BY <2>1, FS_Interval DEF Window
<1>6. \A i \in Int : i \notin Window => w[i] = 0
  BY DEF Takings
<1>7. \A i \in Window : w[i] \in 0 .. v[i]
  <2> HIDE DEF w
  <2> QED  BY <1>4, <1>5
<1>8. \A i \in Int : w[i] \in 0 .. v[i]
  <2> HIDE DEF w
  <2> QED  BY <1>6, <1>7
<1>9. /\ left[L] \in 0 .. n
      /\ SumFunctionOnSet(w, Window) = n - left[L]
      /\ left[L] # 0 => SumFunctionOnSet(v, Window) = n - left[L]
  <2> HIDE DEF w
  <2> QED  BY <1>4, <1>5
<1> QED  BY <1>5, <1>8, <1>9

\* The search as Discard defines it exists.
LEMMA SearchIs ==
  ASSUME NEW n \in Nat, NEW v, \A i \in Int : v[i] \in Nat, last \in Int
  PROVE  \E left : left = [k \in 0 .. Lookback |->
                             IF k = 0 THEN n ELSE left[k - 1] - Min({left[k - 1], v[last - k + 1]})]
<1> DEFINE L == Lookback
           step == [k \in 1 .. L |-> [x \in Nat |-> x - Min({x, v[last - k + 1]})]]
<1>1. L \in Nat
  BY TimelineAssumption
<1>2. step \in [1 .. L -> [Nat -> Nat]]
  <2>1. ASSUME NEW k \in 1 .. L, NEW x \in Nat PROVE x - Min({x, v[last - k + 1]}) \in Nat
    <3>1. last - k + 1 \in Int
      OBVIOUS
    <3>2. PICK y \in Nat : y = v[last - k + 1]
      BY <3>1
    <3>3. Min({x, y}) = IF x <= y THEN x ELSE y
      BY MinOfTwo
    <3> QED  BY <3>2, <3>3
  <2> QED  BY <2>1
<1> HIDE DEF step
<1>3. PICK g \in [0 .. L -> Nat] : AreRounds(g, L, n, step)
  BY <1>1, <1>2, RoundsExist
<1>4. ASSUME NEW k \in 0 .. L
      PROVE  g[k] = IF k = 0 THEN n ELSE g[k - 1] - Min({g[k - 1], v[last - k + 1]})
  <2>1. g[k] = IF k = 0 THEN n ELSE step[k][g[k - 1]]
    BY <1>3 DEF AreRounds
  <2>2. CASE k = 0
    BY <2>1, <2>2
  <2>3. CASE k # 0
    <3>1. k \in 1 .. L /\ k - 1 \in 0 .. L
      BY <1>1, <2>3
    <3>2. g[k - 1] \in Nat
      BY <1>3, <3>1
    <3>3. step[k][g[k - 1]] = g[k - 1] - Min({g[k - 1], v[last - k + 1]})
      BY <3>1, <3>2 DEF step
    <3> QED  BY <2>1, <2>3, <3>3
  <2> QED  BY <2>2, <2>3
<1>5. g = [k \in 0 .. L |-> g[k]]
  BY <1>3
<1>6. g = [k \in 0 .. L |-> IF k = 0 THEN n ELSE g[k - 1] - Min({g[k - 1], v[last - k + 1]})]
  BY <1>4, <1>5
<1> QED  BY <1>6

\* Taking back keeps the invariant: no slot gives more than it has of what was sent.
LEMMA DiscardSound ==
  ASSUME TimelineInv, NEW n \in Nat \ {0}, Discard(n)
  PROVE  TimelineInv'
<1> DEFINE IsLeft(g) == g = [k \in 0 .. Lookback |->
                               IF k = 0 THEN n ELSE g[k - 1] - Min({g[k - 1], At(timeline, last - k + 1).sent})]
           left == CHOOSE g : IsLeft(g)
           Taken(i) == IF i \in last - Lookback + 1 .. last THEN left[last - i] - left[last - i + 1] ELSE 0
           less == [i \in DOMAIN timeline |-> [timeline[i] EXCEPT !.sent = @ - Taken(i)]]
           v == [i \in Int |-> At(timeline, i).sent]
           w == Takings(left)
           D == DOMAIN timeline
           E == {j \in D : less[j] # NoSlot}
           U == D \cup Window
<1>1. /\ timeline' = [i \in E |-> less[i]]
      /\ tally' = [tally EXCEPT !.gone = @ + n, !.missed = @ + left[Lookback], !.far = @ \/ Far]
      /\ tally.gone + n <= AllSent
      /\ resolution' = resolution /\ last' = last /\ clock' = clock
  BY DEF Discard
<1>2. tally \in Tallies /\ clock.now \in Times /\ clock.back \in Nat /\ (tally.missed > 0 => tally.far)
  BY DEF TimelineInv
<1>3. LineIs(Now) /\ SlotsTell(Now, tally) /\ SlotsAddUp(Now, tally) /\ EndIsNewest(Now, tally)
  BY DEF TimelineInv
<1>4. /\ resolution \in Nat \ {0} /\ last \in Nat \cup {-1} /\ last \in Int
      /\ D \subseteq 0 .. last /\ timeline \in [D -> Slot \ {NoSlot}]
  BY <1>3 DEF LineIs, Now
<1>5. /\ IsFiniteSet(D) /\ Sents(timeline) \in [D -> Nat] /\ Receiveds(timeline) \in [D -> Nat]
      /\ \A j : At(timeline, j) \in Slot
  BY <1>3, LineIsFinite DEF Now
<1>6. \A i \in Int : v[i] \in Nat /\ v[i] = At(timeline, i).sent
  BY <1>5 DEF Slot
<1>7. IsLeft(left)
  <2>1. \A i \in Int : v[i] \in Nat
    BY <1>6
  <2> HIDE DEF v
  <2>2. PICK g : g = [k \in 0 .. Lookback |->
                        IF k = 0 THEN n ELSE g[k - 1] - Min({g[k - 1], v[last - k + 1]})]
    BY <1>4, <2>1, SearchIs
  <2>3. \A k \in 0 .. Lookback : v[last - k + 1] = At(timeline, last - k + 1).sent
    BY <1>4, <1>6
  <2>4. IsLeft(g)
    BY <2>2, <2>3
  <2> HIDE DEF IsLeft
  <2> QED  BY <2>4
<1> HIDE DEF left
<1>8. IsSearch(left, n, v)
  <2>1. \A k \in 0 .. Lookback : v[last - k + 1] = At(timeline, last - k + 1).sent
    BY <1>4, <1>6
  <2> HIDE DEF v
  <2> QED  BY <1>7, <2>1 DEF IsSearch
<1>9. /\ \A i \in Int : w[i] \in 0 .. v[i]
      /\ left[Lookback] \in 0 .. n
      /\ SumFunctionOnSet(w, Window) = n - left[Lookback]
      /\ left[Lookback] # 0 => SumFunctionOnSet(v, Window) = n - left[Lookback]
      /\ IsFiniteSet(Window)
  <2>1. \A i \in Int : v[i] \in Nat
    BY <1>6
  <2> HIDE DEF v
  <2> QED  BY <1>4, <1>8, <2>1, SearchTakes
<1>10. \A i \in Int : w[i] = Taken(i)
  BY DEF Takings, Window
<1>11. ASSUME NEW i \in D
       PROVE  /\ i \in Int /\ less[i] \in Slot /\ timeline[i] \in Slot /\ At(timeline, i) = timeline[i]
              /\ less[i].sent = timeline[i].sent - w[i] /\ less[i].received = timeline[i].received
  <2>1. i \in Int /\ timeline[i] \in Slot /\ At(timeline, i) = timeline[i]
    BY <1>4 DEF At
  <2>2. w[i] \in 0 .. timeline[i].sent
    BY <1>6, <1>9, <2>1
  <2>3. less[i] = [timeline[i] EXCEPT !.sent = @ - w[i]]
    BY <1>10, <2>1
  <2> HIDE DEF less, w
  <2> QED  BY <2>1, <2>2, <2>3 DEF Slot
<1> HIDE DEF less, w
<1>12. DOMAIN timeline' = E /\ E \subseteq D /\ \A i \in E : timeline'[i] = less[i] /\ less[i] # NoSlot
  BY <1>1
<1>13. ASSUME NEW i \in Int
       PROVE  /\ At(timeline', i).sent = v[i] - w[i]
              /\ At(timeline', i).received = At(timeline, i).received
  <2>1. NoSlot.sent = 0 /\ NoSlot.received = 0
    BY DEF NoSlot
  <2>2. v[i] = At(timeline, i).sent /\ v[i] \in Nat /\ w[i] \in 0 .. v[i]
    BY <1>6, <1>9
  <2> HIDE DEF v
  <2>3. CASE i \in E
    <3>1. At(timeline', i) = less[i]
      BY <1>12, <2>3 DEF At
    <3> QED  BY <1>11, <1>12, <2>2, <2>3, <3>1
  <2>4. CASE i \in D \ E
    <3>1. less[i] = NoSlot
      BY <2>4
    <3>2. At(timeline', i) = NoSlot
      BY <1>12, <2>4 DEF At
    <3> HIDE DEF E
    <3> QED  BY <1>11, <2>1, <2>2, <2>4, <3>1, <3>2
  <2>5. CASE i \notin D
    <3>1. At(timeline', i) = NoSlot /\ At(timeline, i) = NoSlot
      BY <1>12, <2>5 DEF At
    <3> QED  BY <2>1, <2>2, <3>1
  <2> QED  BY <2>3, <2>4, <2>5
<1> HIDE DEF E
<1>14. LineIs(Now)'
  <2>1. timeline' \in [E -> Slot \ {NoSlot}]
    <3>1. \A i \in E : timeline'[i] \in Slot \ {NoSlot}
      BY <1>11, <1>12
    <3>2. timeline' = [i \in E |-> timeline'[i]]
      BY <1>1
    <3> QED  BY <3>1, <3>2
  <2>2. DOMAIN timeline' \subseteq 0 .. last'
    BY <1>1, <1>4, <1>12
  <2> QED  BY <1>1, <1>4, <1>12, <2>1, <2>2 DEF LineIs, Now
<1>15. /\ tally'.sent = tally.sent /\ tally'.received = tally.received
       /\ tally'.gone = tally.gone + n /\ tally'.missed = tally.missed + left[Lookback]
       /\ tally'.far = (tally.far \/ Far) /\ tally' \in Tallies
  <2>1. left[Lookback] \in Nat
    BY <1>9
  <2>2. Far \in BOOLEAN
    BY DEF Far
  <2>3. PICK g \in Nat, m \in Nat, f \in BOOLEAN :
          g = tally.gone + n /\ m = tally.missed + left[Lookback] /\ f = (tally.far \/ Far)
    <3>1. tally.gone \in Nat /\ tally.missed \in Nat
      BY <1>2 DEF Tallies
    <3>2. tally.gone + n \in Nat /\ tally.missed + left[Lookback] \in Nat
      BY <2>1, <3>1
    <3>3. (tally.far \/ Far) \in BOOLEAN
      OBVIOUS
    <3> QED  BY <3>2, <3>3
  <2>4. tally' = [tally EXCEPT !.gone = g, !.missed = m, !.far = f]
    BY <1>1, <1>2, <2>3 DEF Tallies
  <2>5. tally' \in Tallies /\ tally'.sent = tally.sent /\ tally'.received = tally.received
        /\ tally'.gone = g /\ tally'.missed = m /\ tally'.far = f
    BY <1>2, <2>4 DEF Tallies
  <2> QED  BY <2>3, <2>5
<1>16. SlotsTell(Now, tally)'
  <2>1. SUFFICES ASSUME NEW j \in Nat
                 PROVE  /\ At(timeline', j).received = CountedIn(j, resolution, tally.received)
                        /\ At(timeline', j).sent <= CountedIn(j, resolution, tally.sent)
                        /\ tally.gone + n # 0
    <3>1. Now'.line = timeline' /\ Now'.res = resolution
      BY <1>1 DEF Now
    <3> QED  BY <1>15, <3>1 DEF SlotsTell
  <2>2. /\ At(timeline, j).received = CountedIn(j, resolution, tally.received)
        /\ At(timeline, j).sent <= CountedIn(j, resolution, tally.sent)
    BY <1>3 DEF SlotsTell, Now
  <2>3. At(timeline', j).sent <= At(timeline, j).sent /\ At(timeline, j).sent \in Nat
        /\ At(timeline', j).received = At(timeline, j).received /\ At(timeline', j).sent \in Nat
    <3>1. v[j] = At(timeline, j).sent /\ v[j] \in Nat /\ w[j] \in 0 .. v[j]
      BY <1>6, <1>9
    <3> HIDE DEF v
    <3> QED  BY <1>13, <3>1
  <2>4. CountedIn(j, resolution, tally.sent) \in Nat
    BY <1>2, InIs DEF Tallies
  <2>5. tally.gone \in Nat
    BY <1>2 DEF Tallies
  <2> QED  BY <2>2, <2>3, <2>4, <2>5
<1>17. U \in SUBSET Int /\ IsFiniteSet(U) /\ D \in SUBSET U /\ E \in SUBSET U /\ Window \in SUBSET U
  <2>1. Window \in SUBSET Int
    BY <1>4, TimelineAssumption DEF Window
  <2>2. IsFiniteSet(U)
    BY <1>5, <1>9, FS_Union
  <2> QED  BY <1>4, <1>12, <2>1, <2>2
<1> DEFINE z == [i \in Int |-> At(timeline', i).sent]
<1>18. ASSUME NEW i \in Int
       PROVE  /\ z[i] \in Nat /\ w[i] \in Nat /\ v[i] \in Nat /\ v[i] = z[i] + w[i]
              /\ i \notin E => z[i] = 0
              /\ i \notin D => v[i] = 0
              /\ i \notin Window => w[i] = 0
              /\ i \in E => Sents(timeline')[i] = z[i]
              /\ i \in D => Sents(timeline)[i] = v[i]
  <2>1. v[i] \in Nat /\ w[i] \in 0 .. v[i] /\ v[i] = At(timeline, i).sent
    BY <1>6, <1>9
  <2>2. z[i] = v[i] - w[i] /\ z[i] = At(timeline', i).sent
    BY <1>13
  <2>3. i \notin E => z[i] = 0
    BY <1>12, <2>2 DEF At, NoSlot
  <2>4. i \notin D => v[i] = 0
    BY <2>1 DEF At, NoSlot
  <2>5. i \notin Window => w[i] = 0
    BY DEF w, Takings
  <2>6. i \in E => Sents(timeline')[i] = z[i]
    BY <1>12, <2>2 DEF At, Sents
  <2>7. i \in D => Sents(timeline)[i] = v[i]
    BY <2>1 DEF At, Sents
  <2> HIDE DEF v, z
  <2> QED  BY <2>1, <2>2, <2>3, <2>4, <2>5, <2>6, <2>7
<1> HIDE DEF v, z, U
<1>19. /\ \A i \in U : z[i] \in Nat /\ w[i] \in Nat /\ v[i] = z[i] + w[i]
       /\ \A i \in U : z[i] \in Nat
       /\ \A i \in U : w[i] \in Nat
       /\ \A i \in U : v[i] \in Nat
       /\ \A i \in U \ E : z[i] = 0
       /\ \A i \in U \ D : v[i] = 0
       /\ \A i \in U \ Window : w[i] = 0
       /\ \A i \in E : Sents(timeline')[i] = z[i]
       /\ \A i \in D : Sents(timeline)[i] = v[i]
  BY <1>17, <1>18
<1>20. SumFunctionOnSet(v, U) = SumFunctionOnSet(z, U) + SumFunctionOnSet(w, U)
  <2>1. \A i \in U : z[i] \in Nat /\ w[i] \in Nat /\ v[i] = z[i] + w[i]
    BY <1>19
  <2>2. IsFiniteSet(U)
    BY <1>17
  <2> QED  BY ONLY <2>1, <2>2, SumPlus
<1>21. SumFunctionOnSet(z, U) = SumFunctionOnSet(Sents(timeline'), E)
  <2>1. IsBeyond(z, Sents(timeline'), U, E)
    BY <1>17, <1>19 DEF IsBeyond
  <2> QED  BY <1>17, <2>1, SumBeyond
<1>22. SumFunctionOnSet(v, U) = SumFunctionOnSet(Sents(timeline), D)
  <2>1. IsBeyond(v, Sents(timeline), U, D)
    BY <1>17, <1>19 DEF IsBeyond
  <2> QED  BY <1>17, <2>1, SumBeyond
<1>23. SumFunctionOnSet(w, U) = SumFunctionOnSet(w, Window)
  <2>1. IsBeyond(w, w, U, Window)
    BY <1>17, <1>19 DEF IsBeyond
  <2> QED  BY <1>17, <2>1, SumBeyond
<1>24. SumFunctionOnSet(z, U) \in Nat /\ SumFunctionOnSet(v, U) \in Nat
  BY <1>17, <1>19, SumFacts
<1>25. /\ SumFunctionOnSet(Sents(timeline), D) + tally.gone = AllSent + tally.missed
       /\ SumFunctionOnSet(Receiveds(timeline), D) = SumFunctionOnSet(tally.received, Times)
  BY <1>3 DEF SlotsAddUp, Now, AllSent, D
<1>26. AllSent \in Nat /\ tally.gone \in Nat /\ tally.missed \in Nat
  <2>1. IsFiniteSet(Times) /\ \A t \in Times : tally.sent[t] \in Nat
    BY <1>2, TimelineAssumption DEF Tallies
  <2>2. AllSent \in Nat
    BY <2>1, SumFacts DEF AllSent
  <2> QED  BY <1>2, <2>2 DEF Tallies
<1>27. SlotsAddUp(Now, tally)'
  <2>1. SumFunctionOnSet(Sents(timeline'), E) + tally'.gone = AllSent + tally'.missed
    <3>1. PICK m \in 0 .. n : m = left[Lookback]
      BY <1>9
    <3>2. SumFunctionOnSet(v, U) = SumFunctionOnSet(z, U) + (n - m)
      BY <1>9, <1>20, <1>23, <3>1
    <3>3. PICK a \in Nat, b \in Nat : a = SumFunctionOnSet(v, U) /\ b = SumFunctionOnSet(z, U)
      BY <1>24
    <3>4. a + tally.gone = AllSent + tally.missed /\ a = b + (n - m)
      BY <1>22, <1>25, <3>2, <3>3
    <3>5. b + (tally.gone + n) = AllSent + (tally.missed + m)
      BY <1>26, <3>1, <3>3, <3>4
    <3> QED  BY <1>15, <1>21, <3>1, <3>3, <3>5
  <2>2. SumFunctionOnSet(Receiveds(timeline'), E) = SumFunctionOnSet(tally.received, Times)
    <3> DEFINE q == [i \in Int |-> At(timeline, i).received]
    <3>1. ASSUME NEW i \in Int
          PROVE  /\ q[i] \in Nat /\ (i \notin D => q[i] = 0) /\ (i \in D => Receiveds(timeline)[i] = q[i])
                 /\ (i \notin E => q[i] = 0) /\ (i \in E => Receiveds(timeline')[i] = q[i])
      <4>1. q[i] = At(timeline, i).received /\ q[i] = At(timeline', i).received /\ q[i] \in Nat
        BY <1>5, <1>13 DEF Slot
      <4>2. (i \notin D => q[i] = 0) /\ (i \in D => Receiveds(timeline)[i] = q[i])
        BY <4>1 DEF At, NoSlot, Receiveds
      <4>3. (i \notin E => q[i] = 0) /\ (i \in E => Receiveds(timeline')[i] = q[i])
        BY <1>12, <4>1 DEF At, NoSlot, Receiveds
      <4> HIDE DEF q
      <4> QED  BY <4>1, <4>2, <4>3
    <3> HIDE DEF q
    <3>2. /\ \A i \in U : q[i] \in Nat
          /\ \A i \in U \ D : q[i] = 0
          /\ \A i \in U \ E : q[i] = 0
          /\ \A i \in D : Receiveds(timeline)[i] = q[i]
          /\ \A i \in E : Receiveds(timeline')[i] = q[i]
      BY <1>17, <3>1
    <3>3. SumFunctionOnSet(q, U) = SumFunctionOnSet(Receiveds(timeline), D)
      <4>1. IsBeyond(q, Receiveds(timeline), U, D)
        BY <1>17, <3>2 DEF IsBeyond
      <4> QED  BY <1>17, <4>1, SumBeyond
    <3>4. SumFunctionOnSet(q, U) = SumFunctionOnSet(Receiveds(timeline'), E)
      <4>1. IsBeyond(q, Receiveds(timeline'), U, E)
        BY <1>17, <3>2 DEF IsBeyond
      <4> QED  BY <1>17, <4>1, SumBeyond
    <3> QED  BY <1>25, <3>3, <3>4
  <2> QED  BY <1>12, <1>15, <2>1, <2>2 DEF SlotsAddUp, Now, AllSent
<1>28. EndIsNewest(Now, tally)'
  BY <1>1, <1>3, <1>15 DEF EndIsNewest, Now
<1>29. left[Lookback] > 0 => Far
  <2>1. SUFFICES ASSUME left[Lookback] > 0, ~Far PROVE FALSE
    OBVIOUS
  <2>2. ASSUME NEW i \in U \ Window PROVE v[i] = 0
    <3>1. CASE i \notin D
      BY <1>19, <2>2, <3>1
    <3>2. CASE i \in D
      <4>1. i \in Nat /\ i <= last /\ i \notin Window
        BY <1>4, <2>2, <3>2
      <4>2. i <= last - Lookback
        BY <1>4, <4>1, TimelineAssumption DEF Window
      <4> DEFINE S == {t \in Times : t \div resolution = i}
      <4>3. tally.sent \in [Times -> Nat]
        BY <1>2 DEF Tallies
      <4>4. \A t \in S : tally.sent[t] = 0
        <5>1. SUFFICES ASSUME NEW t \in S, tally.sent[t] # 0 PROVE FALSE
          OBVIOUS
        <5>2. t \in Times /\ tally.sent[t] > 0 /\ t \div resolution = i
          BY <4>3, <5>1
        <5>3. i > last - Lookback
          BY <2>1, <5>2, NotFar
        <5> QED  BY <1>4, <4>1, <4>2, <5>3, TimelineAssumption
      <4>5. IsFiniteSet(S)
        BY TimesAreFinite
      <4>6. CountedIn(i, resolution, tally.sent) = 0
        <5> HIDE DEF S
        <5>1. SumFunctionOnSet(tally.sent, S) = 0
          BY <4>4, <4>5, SumOfZeros
        <5> QED  BY <5>1 DEF CountedIn, S
      <4>7. At(timeline, i).sent <= 0
        BY <1>3, <4>1, <4>6 DEF SlotsTell, Now
      <4> QED  BY <1>6, <4>1, <4>7
    <3> QED  BY <3>1, <3>2
  <2>3. SumFunctionOnSet(v, U) = SumFunctionOnSet(v, Window)
    <3>1. IsBeyond(v, v, U, Window)
      BY <1>17, <1>19, <2>2 DEF IsBeyond
    <3> QED  BY <1>17, <3>1, SumBeyond
  <2>4. PICK m \in 0 .. n : m = left[Lookback] /\ m > 0
    BY <1>9, <2>1
  <2>5. SumFunctionOnSet(v, U) = n - m
    BY <1>9, <2>3, <2>4
  <2>6. SumFunctionOnSet(v, U) + tally.gone = AllSent + tally.missed
    BY <1>22, <1>25
  <2> QED  BY <1>1, <1>24, <1>26, <2>4, <2>5, <2>6
<1>30. tally'.missed > 0 => tally'.far
  <2>1. tally'.missed > 0 => tally.missed > 0 \/ left[Lookback] > 0
    <3>1. PICK m \in 0 .. n : m = left[Lookback]
      BY <1>9
    <3>2. tally'.missed = tally.missed + m
      BY <1>15, <3>1
    <3> QED  BY <1>26, <3>1, <3>2
  <2> QED  BY <1>2, <1>15, <1>29, <2>1
<1>31. Cardinality(DOMAIN timeline') <= MaxSlots
  <2>1. Cardinality(E) <= Cardinality(D) /\ Cardinality(E) \in Nat /\ Cardinality(D) \in Nat
    <3>1. E \in SUBSET D
      BY <1>12
    <3> QED  BY <1>5, <3>1, FS_Subset, FS_CardinalityType
  <2>2. Cardinality(D) <= MaxSlots
    BY DEF TimelineInv
  <2> QED  BY <1>12, <2>1, <2>2, TimelineAssumption
<1> QED  BY <1>1, <1>2, <1>14, <1>15, <1>16, <1>27, <1>28, <1>30, <1>31 DEF TimelineInv

LEMMA InitSound == InitTimeline => TimelineInv
<1> SUFFICES ASSUME InitTimeline PROVE TimelineInv
  OBVIOUS
<1>1. /\ timeline = [i \in {} |-> NoSlot] /\ resolution = 1 /\ last = -1
      /\ clock = [now |-> Min(Times), back |-> 0]
      /\ tally = [sent |-> [t \in Times |-> 0], received |-> [t \in Times |-> 0], gone |-> 0,
                  missed |-> 0, far |-> FALSE]
  BY DEF InitTimeline
<1>2. clock.now \in Times /\ clock.back \in Nat
  <2>1. \E x \in Times : \A y \in Times : x <= y
    <3>1. PICK t \in Times : t \in Nat
      BY TimelineAssumption
    <3> DEFINE G == {k \in 0 .. t : \A y \in Times : k <= y}
    <3>2. SUFFICES ASSUME ~(\E x \in Times : \A y \in Times : x <= y) PROVE FALSE
      OBVIOUS
    <3>3. 0 \in G /\ G \in SUBSET (0 .. t)
      BY <3>1, TimelineAssumption
    <3>4. ASSUME NEW k \in 0 .. t - 1, k \in G PROVE k + 1 \in G
      <4>1. k \notin Times
        BY <3>2, <3>4
      <4>2. ASSUME NEW y \in Times PROVE k + 1 <= y
        <5>1. y \in Nat /\ k <= y /\ k # y /\ k \in Nat
          BY <3>4, <4>1, TimelineAssumption
        <5> QED  BY <5>1
      <4> QED  BY <3>1, <4>2
    <3> HIDE DEF G
    <3>5. t \in 0 .. t /\ \A k \in 0 .. t : k \in G
      BY <3>1, <3>3, <3>4, UpTo
    <3> QED  BY <3>1, <3>2, <3>5 DEF G
  <2>2. Min(Times) \in Times
    BY <2>1 DEF Min
  <2> QED  BY <1>1, <2>2
<1>3. tally \in Tallies
  BY <1>1 DEF Tallies
<1>4. \A S \in SUBSET Times : /\ SumFunctionOnSet(tally.sent, S) = 0
                              /\ SumFunctionOnSet(tally.received, S) = 0
  <2> TAKE S \in SUBSET Times
  <2>1. IsFiniteSet(S)
    BY TimesAreFinite
  <2>2. (\A t \in S : tally.sent[t] = 0) /\ (\A t \in S : tally.received[t] = 0)
    BY <1>1
  <2> QED  BY <2>1, <2>2, SumOfZeros
<1>5. DOMAIN timeline = {} /\ \A i : At(timeline, i) = NoSlot
  BY <1>1 DEF At
<1>6. LineIs(Now)
  <2>1. timeline \in [{} -> Slot \ {NoSlot}]
    BY <1>1
  <2> QED  BY <1>1, <1>5, <2>1 DEF LineIs, Now
<1>7. SlotsTell(Now, tally)
  <2>1. \A i \in Nat : CountedIn(i, resolution, tally.sent) = 0 /\ CountedIn(i, resolution, tally.received) = 0
    BY <1>4 DEF CountedIn
  <2>2. NoSlot.sent = 0 /\ NoSlot.received = 0
    BY DEF NoSlot
  <2> QED  BY <1>5, <2>1, <2>2 DEF SlotsTell, Now
<1>8. SlotsAddUp(Now, tally)
  <2>1. SumFunctionOnSet(Sents(timeline), {}) = 0 /\ SumFunctionOnSet(Receiveds(timeline), {}) = 0
    BY FS_EmptySet, SumFacts
  <2>2. SumFunctionOnSet(tally.sent, Times) = 0 /\ SumFunctionOnSet(tally.received, Times) = 0
    BY <1>4
  <2>3. tally.gone = 0 /\ tally.missed = 0
    BY <1>1
  <2> QED  BY <1>5, <2>1, <2>2, <2>3 DEF SlotsAddUp, Now
<1>9. EndIsNewest(Now, tally)
  BY <1>1 DEF EndIsNewest, Now
<1>10. Cardinality(DOMAIN timeline) <= MaxSlots
  <2>1. Cardinality(DOMAIN timeline) = 0
    BY <1>5, FS_EmptySet
  <2> QED  BY <2>1, TimelineAssumption
<1>11. tally.missed > 0 => tally.far
  BY <1>1
<1> QED  BY <1>2, <1>3, <1>6, <1>7, <1>8, <1>9, <1>10, <1>11 DEF TimelineInv

LEMMA TickSound ==
  ASSUME TimelineInv, Tick
  PROVE  TimelineInv'
<1>1. UNCHANGED <<timeline, resolution, last, tally>>
  BY DEF Tick
<1>2. clock'.now \in Times /\ clock'.back \in Nat
  BY DEF Tick, TimelineInv
<1>3. LineIs(Now)' /\ SlotsTell(Now, tally)' /\ SlotsAddUp(Now, tally)' /\ EndIsNewest(Now, tally)'
  BY <1>1 DEF TimelineInv, LineIs, SlotsTell, SlotsAddUp, EndIsNewest, Now
<1> QED  BY <1>1, <1>2, <1>3 DEF TimelineInv

LEMMA TimelineStep ==
  ASSUME TimelineInv, [NextTimeline]_timelineVars
  PROVE  TimelineInv'
<1>1. CASE UNCHANGED timelineVars
  <2>1. UNCHANGED <<timeline, resolution, last, clock, tally>>
    BY <1>1 DEF timelineVars
  <2>2. LineIs(Now)' /\ SlotsTell(Now, tally)' /\ SlotsAddUp(Now, tally)' /\ EndIsNewest(Now, tally)'
    BY <2>1 DEF TimelineInv, LineIs, SlotsTell, SlotsAddUp, EndIsNewest, Now
  <2> QED  BY <2>1, <2>2 DEF TimelineInv
<1>2. CASE Tick
  BY <1>2, TickSound
<1>3. ASSUME NEW n \in 1 .. 2, NEW received \in BOOLEAN, TimelineAdd(n, received) PROVE TimelineInv'
  <2>1. n \in Nat \ {0}
    OBVIOUS
  <2> QED  BY <1>3, <2>1, AddSound
<1>4. ASSUME NEW n \in 1 .. 2, Discard(n) PROVE TimelineInv'
  <2>1. n \in Nat \ {0}
    OBVIOUS
  <2> QED  BY <1>4, <2>1, DiscardSound
<1> QED  BY <1>1, <1>2, <1>3, <1>4 DEF NextTimeline

LEMMA TimelineInvTells ==
  ASSUME TimelineInv
  PROVE  TimelineIsTrue
<1> DEFINE D == DOMAIN timeline
           held == [i \in D |-> Held(timeline[i])]
<1>1. LineIs(Now) /\ SlotsTell(Now, tally) /\ SlotsAddUp(Now, tally) /\ tally \in Tallies
  BY DEF TimelineInv
<1>2. /\ resolution \in Nat \ {0} /\ last \in Nat \cup {-1}
      /\ D \subseteq 0 .. last /\ timeline \in [D -> Slot \ {NoSlot}]
  BY <1>1 DEF LineIs, Now
<1>3. IsFiniteSet(D) /\ Sents(timeline) \in [D -> Nat] /\ Receiveds(timeline) \in [D -> Nat]
  BY <1>1, LineIsFinite DEF Now
<1>4. Sum(timeline) = All - tally.gone + tally.missed
  <2>1. \A i \in D : Sents(timeline)[i] \in Nat /\ Receiveds(timeline)[i] \in Nat
                     /\ held[i] = Sents(timeline)[i] + Receiveds(timeline)[i]
    BY <1>3 DEF Held, Sents, Receiveds
  <2> HIDE DEF held, D
  <2>2. SumFunctionOnSet(held, D) = SumFunctionOnSet(Sents(timeline), D) + SumFunctionOnSet(Receiveds(timeline), D)
    BY ONLY <1>3, <2>1, SumPlus
  <2>3. /\ SumFunctionOnSet(Sents(timeline), D) + tally.gone = AllSent + tally.missed
        /\ SumFunctionOnSet(Receiveds(timeline), D) = SumFunctionOnSet(tally.received, Times)
    BY <1>1 DEF SlotsAddUp, Now, D, AllSent
  <2>4. /\ AllSent \in Nat /\ SumFunctionOnSet(tally.received, Times) \in Nat
        /\ tally.gone \in Nat /\ tally.missed \in Nat
        /\ SumFunctionOnSet(Sents(timeline), D) \in Nat
    <3>1. IsFiniteSet(Times) /\ (\A t \in Times : tally.sent[t] \in Nat) /\ (\A t \in Times : tally.received[t] \in Nat)
      BY <1>1, TimelineAssumption DEF Tallies
    <3>2. AllSent \in Nat /\ SumFunctionOnSet(tally.received, Times) \in Nat
      BY <3>1, SumFacts DEF AllSent
    <3>3. \A i \in D : Sents(timeline)[i] \in Nat
      BY <1>3
    <3>4. SumFunctionOnSet(Sents(timeline), D) \in Nat
      BY <1>3, <3>3, SumFacts
    <3> QED  BY <1>1, <3>2, <3>4 DEF Tallies
  <2> QED  BY <2>2, <2>3, <2>4 DEF Sum, All, held, D
<1>5. tally.missed > 0 => tally.far
  BY DEF TimelineInv
<1>6. tally.gone = 0 => \A i \in 0 .. Max(Times) :
        /\ At(timeline, i).sent = CountedIn(i, resolution, tally.sent)
        /\ At(timeline, i).received = CountedIn(i, resolution, tally.received)
  <2>1. \A i \in 0 .. Max(Times) : i \in Nat
    OBVIOUS
  <2> QED  BY <1>1, <2>1 DEF SlotsTell, Now
<1>7. Cardinality(DOMAIN timeline) <= MaxSlots
  BY DEF TimelineInv
<1>8. \A i \in DOMAIN timeline : timeline[i] \in Slot /\ timeline[i] # NoSlot /\ i <= last
  BY <1>2
<1> QED  BY <1>4, <1>5, <1>6, <1>7, <1>8 DEF TimelineIsTrue

\* The timeline loses nothing, however often it is coarsened, whenever the clock is set
\* back and whatever is taken back; only what lies beyond the lookback is not found.
THEOREM TimelineTellsTrue == TimelineSpec => []TimelineIsTrue
<1>1. InitTimeline => TimelineInv
  BY InitSound
<1>2. TimelineInv /\ [NextTimeline]_timelineVars => TimelineInv'
  BY TimelineStep
<1>3. TimelineInv => TimelineIsTrue
  BY TimelineInvTells
<1> QED  BY <1>1, <1>2, <1>3, PTL DEF TimelineSpec
=============================================================================
