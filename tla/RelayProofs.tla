----------------------------- MODULE RelayProofs ----------------------------
(***************************************************************************)
(* The relay's safety properties, for every number of clients and records, *)
(* every budget and cap, and whatever the clients and the upstreams do.    *)
(*                                                                         *)
(* Sound is inductive.  It says who owns what: a task's tunnel is a record *)
(* of its own host, its upstream connection is bound to that tunnel, and   *)
(* what it may hold depends on the await it is in (TaskOK); an open record *)
(* has an owner, and its statuses tell what was answered on it (RecordOK); *)
(* who waits to open a tunnel has opened none since the trip (Late).  The  *)
(* lemmas ...Touches and ...Does lift what MeterLemmas says of one call of *)
(* the meter to the calls between two awaits; AnswerSound and StepSound are*)
(* for a step of one task, NewSound for one that opens a tunnel, and       *)
(* SettleSound for one that counts, whose tail aborts other tasks' sockets.*)
(***************************************************************************)
EXTENDS Relay, MeterLemmas

Tasks ==
  [pc : {"done", "reading", "closing", "connecting", "negotiating", "relaying",
         "exchanging", "lingering"},
   next : {"open", "read", "refuse", "end", "linger"},
   kind : Kinds, host : Hosts, tunnel : 0 .. MaxRecords,
   keep : BOOLEAN, served : BOOLEAN, passed : BOOLEAN, reply : {"none", "bytes", "head"},
   sock : {"open", "gone"}, up : {"none", "live", "lost", "gone"},
   bound : 0 .. MaxRecords, charged : SUBSET Ids]

\* What a task t of client c owns: its tunnel is a record of its own host, with the
\* route of that host, and knows whether an answer other than 407 passed on it.
Owns(c, t, m, op, fi) ==
  t.tunnel # 0 =>
    /\ t.tunnel < m.next
    /\ t.tunnel \in m.open \cup m.closing
    /\ op[t.tunnel] = <<c, t.host>>
    /\ m.rec[t.tunnel].route = RouteOf[t.host]
    /\ IF RouteOf[t.host] = "http-connect" THEN t.passed <=> "other" \in fi[t.tunnel]
       ELSE "407" \notin fi[t.tunnel]

\* Its upstream connection is bound to its tunnel, and outlives it only while a CONNECT
\* that failed lingers.
Connected(t, m) ==
  t.up = "live" =>
    /\ t.pc \in {"negotiating", "relaying", "exchanging", "reading", "lingering"}
    /\ t.tunnel # 0 /\ t.bound = t.tunnel
    /\ IF t.pc = "lingering" THEN RouteOf[t.host] # "socks5" ELSE t.tunnel \in m.open

\* What it may hold at each await.
Stands(t, m, fi) ==
  /\ t.tunnel \in m.open =>
       t.pc \in {"connecting", "negotiating", "relaying", "exchanging", "reading"}
  /\ t.keep => t.tunnel # 0
  /\ t.pc \in {"negotiating", "relaying", "exchanging"} => t.tunnel # 0 /\ t.bound = t.tunnel
  /\ t.pc \in {"exchanging"} => t.keep
  /\ t.pc = "reading" /\ ~t.keep => t.tunnel = 0
  /\ t.pc = "connecting" => t.up = "none" /\ t.tunnel # 0 /\ ~t.keep
  /\ t.pc = "negotiating" => ~t.keep /\ RouteOf[t.host] \in {"socks5", "http-connect"}
  /\ t.pc \in {"connecting", "negotiating"} => fi[t.tunnel] = {}
  /\ t.pc = "closing" /\ t.next # "end" => t.tunnel = 0
  /\ t.pc = "closing" /\ t.next = "open" => RouteOf[t.host] # "denied"
  /\ t.pc = "done" => t.tunnel = 0

TaskOK(c, t, m, op, fi) == Owns(c, t, m, op, fi) /\ Connected(t, m) /\ Stands(t, m, fi)

AllNegotiation(r) == r.negSent = r.sent /\ r.negRecv = r.recv
SetupFailures == {"failed:setup", "failed:client_closed"}
Normal == {"ok", "failed:upstream_status"}

\* What is true of record i, and who owns it while it is open.
RecordOK(i, m, cs, op, fi) ==
  /\ m.rec[i].route = "socks5" /\ m.rec[i].status \in SetupFailures => AllNegotiation(m.rec[i])
  /\ m.rec[i].status = "open" =>
       (m.okStatus[i] = "failed:upstream_status" <=> fi[i] = {"407"})
  /\ m.rec[i].status \in Normal /\ fi[i] # {} =>
       (m.rec[i].status = "failed:upstream_status" <=> fi[i] = {"407"})
  /\ m.rec[i].status = "open" => \E c \in Clients : cs[c].tunnel = i
  /\ i >= m.next => fi[i] = {} /\ m.okStatus[i] = "ok"

\* The tasks that wait to open a tunnel have a record left for each of them.
WaitingIn(cs) == {c \in Clients : cs[c].pc = "closing" /\ cs[c].next = "open"}
HasRoom(m, cs) == m.next + Cardinality(WaitingIn(cs)) <= MaxRecords + 1

\* After a trip a waiting task has opened nothing yet, and no task opens two.
Late(m, cs, op, at) ==
  /\ at # 0 => m.tripped
  /\ at # 0 => \A i \in Ids : i >= at /\ i < m.next =>
                 /\ op[i] # <<>>
                 /\ op[i][1] \notin WaitingIn(cs)
                 /\ \A j \in Ids : j >= at /\ j < m.next /\ op[i][1] = op[j][1] => i = j

Sound(m, cs, op, fi, at) ==
  /\ Books(m)
  /\ Below(m)
  /\ cs \in [Clients -> Tasks]
  /\ op \in [Ids -> {<<>>} \cup Clients \X Hosts]
  /\ fi \in [Ids -> SUBSET {"407", "other"}]
  /\ at \in 0 .. (MaxRecords + 1)
  /\ \A c \in Clients : TaskOK(c, cs[c], m, op, fi)
  /\ \A i \in Ids : RecordOK(i, m, cs, op, fi)
  /\ HasRoom(m, cs)
  /\ Late(m, cs, op, at)

RelayInv == Sound(meter, conn, opened, finals, atTrip) /\ unsent \in [Ids -> Nat]

-----------------------------------------------------------------------------
(* Calls of the meter between two awaits.                                  *)

\* Only record i changed, and the limits hold.
Touch(m, w, i) ==
  /\ Books(w) /\ Below(w)
  /\ w.next = m.next /\ w.tripped = m.tripped
  /\ m.open \cup m.closing \subseteq w.open \cup w.closing
  /\ \A j \in Ids \ {i} : w.rec[j] = m.rec[j] /\ w.okStatus[j] = m.okStatus[j]
  /\ \A j \in Ids : w.rec[j].route = m.rec[j].route
  /\ \A j \in Ids : w.rec[j].status = "open" => m.rec[j].status = "open"

\* A call that changes nothing touches only the record it may touch.
LEMMA TouchNothing ==
  ASSUME NEW m, Books(m), Below(m), NEW i
  PROVE  Touch(m, m, i)
BY DEF Touch

\* Two calls on one record are as one.
LEMMA TouchTwice ==
  ASSUME NEW m, NEW a, NEW w, NEW i, Touch(m, a, i), Touch(a, w, i)
  PROVE  Touch(m, w, i)
BY DEF Touch

\* The first three parts of RecordOK, which concern the record alone.
Tells(i, m, fi) ==
  /\ m.rec[i].route = "socks5" /\ m.rec[i].status \in SetupFailures => AllNegotiation(m.rec[i])
  /\ m.rec[i].status = "open" =>
       (m.okStatus[i] = "failed:upstream_status" <=> fi[i] = {"407"})
  /\ m.rec[i].status \in Normal /\ fi[i] # {} =>
       (m.rec[i].status = "failed:upstream_status" <=> fi[i] = {"407"})

\* _finish_locked by the task that owns the record.
LEMMA FinishTouches ==
  ASSUME NEW m, Books(m), Below(m), NEW i \in Ids, i < m.next,
         NEW status \in {"ok"} \cup Failures, NEW w, w = Finish(m, i, status)
  PROVE  /\ Touch(m, w, i) /\ w.rec[i].status # "open" /\ w.okStatus = m.okStatus
         /\ IF m.rec[i].status = "open" THEN w.rec[i].status = FinalStatus(m, i, status)
            ELSE w.rec[i] = m.rec[i]
         /\ AllNegotiation(m.rec[i]) => AllNegotiation(w.rec[i])
<1>1. m \in Meters /\ status \in FinalStatuses /\ m.open \subseteq Ids
  BY DEF Books, FinalStatuses, Meters
<1>2. Books(w) BY <1>1, FinishBooks
<1>3. Quiet(m, w) BY FinishQuiet
<1>4. Below(w) BY <1>1, <1>3, QuietBelow
<1>5. /\ w.next = m.next /\ w.tripped = m.tripped /\ \A j \in Ids : w.rec[j].route = m.rec[j].route
      /\ m.open \cup m.closing \subseteq w.open \cup w.closing
  BY <1>3 DEF Quiet, SameTunnels, SaysNothing
<1>6. CASE m.rec[i].status = "open"
  <2>1. /\ \A j \in Ids \ {i} : w.rec[j] = m.rec[j]
        /\ w.rec[i].status = FinalStatus(m, i, status) /\ w.okStatus = m.okStatus
        /\ w.rec[i].negSent = m.rec[i].negSent /\ w.rec[i].sent = m.rec[i].sent
        /\ w.rec[i].negRecv = m.rec[i].negRecv /\ w.rec[i].recv = m.rec[i].recv
    BY <1>1, <1>6, FinishOpenFields
  <2>2. w.rec[i].status # "open" BY <1>1, <2>1, FinalStatusType
  <2>3. QED BY <1>2, <1>4, <1>5, <1>6, <2>1, <2>2 DEF Touch, AllNegotiation
<1>7. CASE m.rec[i].status # "open"
  <2>1. w.rec = m.rec /\ w.okStatus = m.okStatus BY <1>1, <1>7, FinishClosedFields
  <2>2. QED BY <1>2, <1>4, <1>5, <1>7, <2>1 DEF Touch
<1>8. QED BY <1>6, <1>7

\* What it leaves of an open record is told truly: the status is the tunnel's own
\* ok_status, or a failure.
LEMMA FinishTells ==
  ASSUME NEW m, Books(m), Below(m), NEW i \in Ids, i < m.next,
         NEW status \in {"ok"} \cup Failures, NEW w, w = Finish(m, i, status),
         NEW fi, Tells(i, m, fi),
         status \in SetupFailures => m.rec[i].route # "socks5" \/ AllNegotiation(m.rec[i]),
         status = "failed:upstream_status" => fi[i] = {}
  PROVE  Tells(i, w, fi)
<1>1. /\ Touch(m, w, i) /\ w.rec[i].status # "open"
      /\ IF m.rec[i].status = "open" THEN w.rec[i].status = FinalStatus(m, i, status)
         ELSE w.rec[i] = m.rec[i]
      /\ AllNegotiation(m.rec[i]) => AllNegotiation(w.rec[i])
  BY ONLY Books(m), Below(m), i \in Ids, i < m.next, status \in {"ok"} \cup Failures, w = Finish(m, i, status), FinishTouches
<1>2. w.rec[i].route = m.rec[i].route BY <1>1 DEF Touch
<1>3. CASE m.rec[i].status # "open" BY <1>1, <1>2, <1>3 DEF Tells
<1>4. CASE m.rec[i].status = "open"
  <2>1. w.rec[i].status = IF status = "ok" THEN m.okStatus[i] ELSE status
    BY <1>1, <1>4 DEF FinalStatus
  <2>2. m.okStatus[i] \in {"ok", "failed:upstream_status"} BY DEF Books, Meters
  <2>3. CASE status = "ok"
    <3>1. w.rec[i].status = m.okStatus[i] BY <2>1, <2>3
    <3>2. w.rec[i].status \notin SetupFailures BY <2>2, <3>1 DEF SetupFailures
    <3>3. QED BY <1>1, <1>4, <3>1, <3>2 DEF Tells
  <2>4. CASE status # "ok"
    <3>1. w.rec[i].status = status BY <2>1, <2>4
    <3>2. status \in Normal => status = "failed:upstream_status" BY <2>4 DEF Normal
    <3>3. QED BY <1>1, <1>2, <3>1, <3>2 DEF Tells
  <2>5. QED BY <2>3, <2>4
<1>5. QED BY <1>3, <1>4

\* A call that only changes the sub-counts of i.
LEMMA MarkAllTouches ==
  ASSUME NEW m, Books(m), Below(m), NEW i \in Ids, i < m.next,
         NEW w, w = MarkAllNegotiation(m, i)
  PROVE  /\ Touch(m, w, i) /\ w.rec[i].status = m.rec[i].status /\ w.okStatus = m.okStatus
         /\ AllNegotiation(w.rec[i])
<1> DEFINE r == [m.rec[i] EXCEPT !.negSent = m.rec[i].sent, !.negRecv = m.rec[i].recv]
<1>1. m \in Meters /\ m.rec[i] \in Records /\ m.counted \in Nat /\ m.open \subseteq Ids
  BY DEF Books, Meters
<1>2. m.rec[i].sent \in Nat /\ m.rec[i].recv \in Nat BY <1>1 DEF Records
<1>3. /\ r.status = m.rec[i].status /\ r.sent = m.rec[i].sent /\ r.recv = m.rec[i].recv
      /\ r.negSent = m.rec[i].sent /\ r.negRecv = m.rec[i].recv
  BY <1>1 DEF Records
<1>4. r \in Records BY <1>1, <1>2, RecordCounts
<1>5. w = Updated(m, i, r, m.counted) BY <1>1, MarkAllNegotiationIs
<1>6. Books(w) /\ Quiet(m, w) BY <1>1, MarkAllNegotiationBooks, MarkAllNegotiationQuiet
<1> HIDE DEF r
<1>7. w.rec = [m.rec EXCEPT ![i] = r] /\ w.okStatus = m.okStatus /\ w.open = m.open
  BY <1>1, <1>4, <1>5, UpdatedFields
<1>8. w.rec[i] = r /\ \A j \in Ids \ {i} : w.rec[j] = m.rec[j] BY <1>1, <1>7 DEF Meters
<1>9. Below(w) BY <1>1, <1>6, QuietBelow
<1>10. /\ w.next = m.next /\ w.tripped = m.tripped /\ \A j \in Ids : w.rec[j].route = m.rec[j].route
      /\ m.open \cup m.closing \subseteq w.open \cup w.closing
  BY <1>6 DEF Quiet, SameTunnels, SaysNothing
<1>11. QED BY <1>3, <1>6, <1>7, <1>8, <1>9, <1>10 DEF Touch, AllNegotiation

\* Naming received bytes negotiation touches that record only, and never undoes that all of it is.
LEMMA MarkReceivedTouches ==
  ASSUME NEW m, Books(m), Below(m), NEW i \in Ids, i < m.next, NEW n \in Nat,
         NEW w, w = MarkNegotiationReceived(m, i, n)
  PROVE  /\ Touch(m, w, i) /\ w.rec[i].status = m.rec[i].status /\ w.okStatus = m.okStatus
         /\ AllNegotiation(m.rec[i]) => AllNegotiation(w.rec[i])
<1> DEFINE k == Least(m.rec[i].recv, m.rec[i].negRecv + n)
           r == [m.rec[i] EXCEPT !.negRecv = k]
<1>1. m \in Meters /\ m.rec[i] \in Records /\ m.counted \in Nat /\ m.open \subseteq Ids
  BY DEF Books, Meters
<1>2. k \in Nat BY <1>1 DEF Records, Least
<1>3. w = Updated(m, i, r, m.counted) BY <1>1, MarkNegotiationReceivedIs
<1>4. AllNegotiation(m.rec[i]) => AllNegotiation(r)
  <2>1. m.rec[i].recv \in Nat /\ m.rec[i].negRecv \in Nat BY <1>1 DEF Records
  <2>2. m.rec[i].negRecv = m.rec[i].recv => k = m.rec[i].recv BY <2>1 DEF Least
  <2>3. /\ r.sent = m.rec[i].sent /\ r.negSent = m.rec[i].negSent /\ r.recv = m.rec[i].recv
        /\ r.negRecv = k
    BY <1>1 DEF Records
  <2>4. QED BY <2>2, <2>3 DEF AllNegotiation
<1> HIDE DEF k
<1>5. r \in Records /\ r.status = m.rec[i].status BY <1>1, <1>2 DEF Records
<1>6. Books(w) /\ Quiet(m, w) BY <1>1, MarkNegotiationReceivedBooks, MarkNegotiationReceivedQuiet
<1> HIDE DEF r
<1>7. w.rec = [m.rec EXCEPT ![i] = r] /\ w.okStatus = m.okStatus
  BY <1>1, <1>3, <1>5, UpdatedFields
<1>8. w.rec[i] = r /\ \A j \in Ids \ {i} : w.rec[j] = m.rec[j] BY <1>1, <1>7 DEF Meters
<1>9. Below(w) BY <1>1, <1>6, QuietBelow
<1>10. /\ w.next = m.next /\ w.tripped = m.tripped /\ \A j \in Ids : w.rec[j].route = m.rec[j].route
      /\ m.open \cup m.closing \subseteq w.open \cup w.closing
  BY <1>6 DEF Quiet, SameTunnels, SaysNothing
<1>11. QED BY <1>5, <1>6, <1>7, <1>8, <1>9, <1>10, <1>4 DEF Touch

\* discard_sent: what was all negotiation stays so.
LEMMA DiscardTouches ==
  ASSUME NEW m, Books(m), Below(m), NEW i \in Ids, i < m.next, NEW n \in Nat,
         NEW w, w = DiscardSent(m, i, n)
  PROVE  /\ Touch(m, w, i) /\ w.rec[i].status = m.rec[i].status /\ w.okStatus = m.okStatus
         /\ w.closing = m.closing
         /\ AllNegotiation(m.rec[i]) => AllNegotiation(w.rec[i])
<1> DEFINE k == Least(n, m.rec[i].sent)
           r == UncountFromRecord(m.rec[i], k)
           c == IF IsTarget(m.rec[i]) THEN Uncount(m, k) ELSE m.counted
<1>1. m \in Meters /\ m.rec[i] \in Records /\ m.counted \in Nat BY DEF Books, Meters
<1>2. k \in Nat /\ k <= m.rec[i].sent BY <1>1 DEF Records, Least
<1>3. w = IF k <= 0 THEN m ELSE Updated(m, i, r, c) BY <1>1, DiscardSentIs
<1>4. /\ Books(w) /\ Below(w) /\ SameTunnels(m, w) /\ SaysNothing(m, w)
      /\ \A j \in Ids : w.rec[j].status = m.rec[j].status
  BY DiscardSentFacts
<1>5. /\ w.next = m.next /\ w.tripped = m.tripped /\ \A j \in Ids : w.rec[j].route = m.rec[j].route
      /\ m.open \cup m.closing \subseteq w.open \cup w.closing
  BY <1>4 DEF SameTunnels, SaysNothing
<1> HIDE DEF k
<1>6. c \in Nat BY <1>1, <1>2 DEF Uncount
<1>7. /\ r \in Records /\ r.sent = m.rec[i].sent - k /\ r.recv = m.rec[i].recv
      /\ r.negSent = Least(m.rec[i].negSent, m.rec[i].sent - k) /\ r.negRecv = m.rec[i].negRecv
  <2>1. /\ m.rec[i].sent - k \in Nat
        /\ Least(m.rec[i].negSent, m.rec[i].sent - k) \in Nat
    BY <1>1, <1>2 DEF Records, Least
  <2>2. r \in Records BY <1>1, <2>1, RecordCounts DEF UncountFromRecord
  <2>3. QED BY <1>1, <2>2 DEF Records, UncountFromRecord
<1>8. AllNegotiation(m.rec[i]) => AllNegotiation(r)
  <2>1. m.rec[i].sent \in Nat BY <1>1 DEF Records
  <2>2. QED BY <1>2, <1>7, <2>1 DEF AllNegotiation, Least
<1> HIDE DEF r, c
<1>9. CASE k <= 0 BY <1>3, <1>4, <1>9 DEF Touch
<1>10. CASE ~(k <= 0)
  <2>1. w.rec = [m.rec EXCEPT ![i] = r] /\ w.okStatus = m.okStatus /\ w.closing = m.closing
    BY <1>1, <1>3, <1>6, <1>7, <1>10, UpdatedFields
  <2>2. w.rec[i] = r /\ \A j \in Ids \ {i} : w.rec[j] = m.rec[j] BY <1>1, <2>1 DEF Meters
  <2>3. QED BY <1>4, <1>5, <1>8, <2>1, <2>2 DEF Touch
<1>11. QED BY <1>9, <1>10

\* What was never sent says nothing of the answers: the statuses tell what they told.
LEMMA DiscardTells ==
  ASSUME NEW m, Books(m), Below(m), NEW i \in Ids, i < m.next, NEW n \in Nat,
         NEW w, w = DiscardSent(m, i, n), NEW fi, Tells(i, m, fi)
  PROVE  Tells(i, w, fi)
<1>1. /\ Touch(m, w, i) /\ w.rec[i].status = m.rec[i].status /\ w.okStatus = m.okStatus
      /\ AllNegotiation(m.rec[i]) => AllNegotiation(w.rec[i])
  BY DiscardTouches
<1>2. QED BY <1>1 DEF Touch, Tells

\* Several connections aborted in a row.
Kept(w, x) ==
  /\ Books(x) /\ Below(x)
  /\ x.next = w.next /\ x.tripped = w.tripped /\ x.okStatus = w.okStatus
  /\ x.closing = w.closing
  /\ \A j \in Ids : /\ x.rec[j].status = w.rec[j].status
                    /\ x.rec[j].route = w.rec[j].route
                    /\ AllNegotiation(w.rec[j]) => AllNegotiation(x.rec[j])

\* Taking back what was never sent keeps the books, after whatever else kept them.
LEMMA DiscardKept ==
  ASSUME NEW w, NEW x, Kept(w, x), NEW i \in Ids, i < w.next, NEW n \in Nat
  PROVE  Kept(w, DiscardSent(x, i, n)) /\ DiscardSent(x, i, n) \in Meters
<1>1. PICK y : y = DiscardSent(x, i, n) OBVIOUS
<1>2. Books(x) /\ Below(x) /\ i < x.next BY DEF Kept
<1>3. /\ Touch(x, y, i) /\ y.rec[i].status = x.rec[i].status /\ y.okStatus = x.okStatus
      /\ y.closing = x.closing
      /\ AllNegotiation(x.rec[i]) => AllNegotiation(y.rec[i])
  BY <1>1, <1>2, DiscardTouches
<1>4. Kept(w, y) BY <1>3 DEF Kept, Touch
<1>5. QED BY <1>1, <1>4 DEF Kept, Books

\* What a buffer holds of the records it is charged to is a number.
LEMMA BufferedType ==
  ASSUME NEW held \in [Ids -> Nat], NEW t, t.charged \in SUBSET Ids
  PROVE  Buffered(held, t) \in Nat
<1>1. IsFiniteSet(Ids) BY MeterAssumption, FS_Interval DEF Ids
<1>2. IsFiniteSet(t.charged) BY <1>1, FS_Subset
<1>3. QED BY <1>2, SumFacts DEF Buffered

\* Aborting several sockets only takes back what they had not sent.
LEMMA AbortAllKept ==
  ASSUME NEW w, Books(w), Below(w), NEW S \in SUBSET Clients, NEW cs, NEW held \in [Ids -> Nat],
         \A c \in S : cs[c].bound \in Ids /\ cs[c].bound < w.next /\ cs[c].charged \in SUBSET Ids
  PROVE  Kept(w, AbortAll(w, S, cs, held))
<1> DEFINE V == {x \in Meters : Kept(w, x)}
           Cut(c, x) == DiscardSent(x, cs[c].bound, Buffered(held, cs[c]))
           g == [c \in S |-> [x \in V |-> Cut(c, x)]]
           pick == Picks(S)
           Eq(f) == f = [s \in SUBSET S |->
                           IF s = {} THEN w
                           ELSE LET c == CHOOSE y \in s : TRUE IN Cut(c, f[s \ {c}])]
           h == CHOOSE f : Eq(f)
<1>1. IsFiniteSet(S) BY RelayAssumption, FS_Subset
<1>2. \A s \in SUBSET S : pick[s] = CHOOSE x \in s : TRUE BY DEF Picks
<1>3. \A s \in SUBSET S : s # {} => pick[s] \in s BY <1>2
<1>4. w \in V BY DEF Kept, Books
<1>5. ASSUME NEW c \in S, NEW x \in V PROVE Cut(c, x) \in V
  <2>1. Kept(w, x) /\ cs[c].bound \in Ids /\ cs[c].bound < w.next OBVIOUS
  <2>2. Buffered(held, cs[c]) \in Nat BY BufferedType
  <2>3. QED BY <2>1, <2>2, DiscardKept
<1> HIDE DEF V, Cut
<1>6. g \in [S -> [V -> V]] BY <1>5
<1>7. AbortAll(w, S, cs, held) = h[S]
  BY DEF AbortAll, FoldSet, MapThenFoldSet, Cut
<1>8. \A c \in S, x \in V : g[c][x] = Cut(c, x) OBVIOUS
<1> HIDE DEF g
<1>9. \E f : IsFold(f, S, pick, g, w, V)
  <2> HIDE DEF pick
  <2>1. QED BY <1>1, <1>3, <1>4, <1>6, FoldsExists
<1>10. ASSUME NEW f, IsFold(f, S, pick, g, w, V) PROVE Eq(f)
  <2>1. f \in [SUBSET S -> V] BY <1>10 DEF IsFold
  <2>2. ASSUME NEW s \in SUBSET S
        PROVE  f[s] = IF s = {} THEN w ELSE LET c == CHOOSE y \in s : TRUE IN Cut(c, f[s \ {c}])
    <3>1. CASE s = {} BY <3>1, <1>10 DEF IsFold
    <3>2. CASE s # {}
      <4>1. pick[s] \in S /\ s \ {pick[s]} \in SUBSET S BY <1>3, <3>2
      <4>2. f[s] = g[pick[s]][f[s \ {pick[s]}]] BY <3>2, <1>10 DEF IsFold
      <4>3. f[s \ {pick[s]}] \in V BY <2>1, <4>1
      <4> HIDE DEF pick
      <4>4. f[s] = Cut(pick[s], f[s \ {pick[s]}]) BY <1>8, <4>1, <4>2, <4>3
      <4>5. QED BY <1>2, <3>2, <4>4
    <3>3. QED BY <3>1, <3>2
  <2>3. QED BY <2>1, <2>2
<1>11. Eq(h)
  <2>1. \E f : Eq(f) BY <1>9, <1>10, ZenonT(60)
  <2> HIDE DEF Eq
  <2>2. QED BY <2>1
<1> HIDE DEF h
<1> DEFINE P == {s \in SUBSET S : h[s] \in V}
<1>12. ASSUME NEW s \in SUBSET S, \A u \in SUBSET s : u # s => u \in P PROVE s \in P
  <2> DEFINE c == CHOOSE y \in s : TRUE
  <2>1. CASE s = {} BY <2>1, <1>4, <1>11
  <2>2. CASE s # {}
    <3>1. c \in s BY <2>2
    <3>2. h[s] = Cut(c, h[s \ {c}]) BY <2>2, <1>11
    <3> HIDE DEF c
    <3>3. s \ {c} \in P BY <1>12, <3>1
    <3>4. QED BY <1>5, <3>1, <3>2, <3>3
  <2>3. QED BY <2>1, <2>2
<1>13. P \in SUBSET SUBSET S OBVIOUS
<1> HIDE DEF P
<1>14. S \in P BY <1>1, <1>12, <1>13, SetInduction
<1>15. h[S] \in V BY <1>14 DEF P
<1>16. QED BY <1>7, <1>15 DEF V

-----------------------------------------------------------------------------
(* A count, and its tail.                                                  *)

\* A count changes the sums of record i only, and closes nothing but for a limit.
Cuts(m, w, i) ==
  /\ w.okStatus = m.okStatus /\ (m.tripped => w.tripped)
  /\ \A j \in Ids : w.rec[j].status = m.rec[j].status
                    \/ w.rec[j].status \in {"budget", "tunnel_cap"}
  /\ \A j \in Ids \ {i} : /\ w.rec[j].sent = m.rec[j].sent /\ w.rec[j].negSent = m.rec[j].negSent
                          /\ w.rec[j].recv = m.rec[j].recv /\ w.rec[j].negRecv = m.rec[j].negRecv

\* Counting target bytes closes no tunnel but those that a trip or the cap closes.
LEMMA CountCuts ==
  ASSUME NEW m, Books(m), NEW i \in Ids, NEW n \in Nat, NEW w, w = CountTarget(m, i, n)
  PROVE  Cuts(m, w, i)
<1> DEFINE b == [m EXCEPT !.counted = @ + n]
           a == Warn(b)
<1>1. m \in Meters /\ m.counted + n \in Nat /\ m.open \subseteq Ids BY DEF Books, Meters
<1>2. b \in Meters /\ b.rec = m.rec /\ b.okStatus = m.okStatus /\ b.tripped = m.tripped
  BY <1>1 DEF Meters
<1>3. w = IF TripDue(a) THEN Trip(a) ELSE IF CapDue(a, i) THEN CloseAtCap(a, i) ELSE a
  BY DEF CountTarget
<1> HIDE DEF b
<1>4. a = Warn(b) OBVIOUS
<1> HIDE DEF a
<1>5. a \in Meters /\ a.rec = m.rec /\ a.okStatus = m.okStatus /\ a.tripped = m.tripped
  BY <1>2, <1>4, WarnFields
<1>6. CASE TripDue(a)
  <2>1. w = Trip(a) /\ "budget" \in FinalStatuses BY <1>3, <1>6 DEF FinalStatuses
  <2>2. PICK c : c = CloseAll(a, "budget") OBVIOUS
  <2>3. w.rec = c.rec /\ w.tripped /\ w.okStatus = c.okStatus
    BY ONLY <2>1, <2>2, <1>5, TripFields
  <2>4. /\ \A j \in Ids \ a.open : c.rec[j] = a.rec[j]
        /\ \A j \in a.open :
              /\ c.rec[j].status = FinalStatus(a, j, "budget")
              /\ c.rec[j].negSent = a.rec[j].negSent /\ c.rec[j].sent = a.rec[j].sent
              /\ c.rec[j].negRecv = a.rec[j].negRecv /\ c.rec[j].recv = a.rec[j].recv
        /\ c.okStatus = a.okStatus
    BY <1>5, <2>1, <2>2, CloseAllFields
  <2>5. \A j \in a.open : c.rec[j].status = "budget" BY <2>4 DEF FinalStatus
  <2>6. QED BY <1>5, <2>3, <2>4, <2>5 DEF Cuts
<1>7. CASE ~TripDue(a) /\ CapDue(a, i)
  <2>1. w = CloseAtCap(a, i) /\ "tunnel_cap" \in FinalStatuses BY <1>3, <1>7 DEF FinalStatuses
  <2>2. PICK c : c = Finish(a, i, "tunnel_cap") OBVIOUS
  <2>3. /\ c \in Meters /\ c.events = a.events /\ c.okStatus = a.okStatus /\ c.tripped = a.tripped
        /\ \A j \in Ids \ {i} : c.rec[j] = a.rec[j]
        /\ c.rec[i].status = a.rec[i].status \/ c.rec[i].status = "tunnel_cap"
    <3>1. CASE a.rec[i].status = "open"
      <4>1. /\ c \in Meters /\ c.events = a.events /\ c.okStatus = a.okStatus
            /\ c.tripped = a.tripped /\ \A j \in Ids \ {i} : c.rec[j] = a.rec[j]
            /\ c.rec[i].status = FinalStatus(a, i, "tunnel_cap")
        BY <3>1, <1>5, <2>1, <2>2, FinishOpenFields
      <4>2. QED BY <4>1 DEF FinalStatus
    <3>2. CASE a.rec[i].status # "open" BY <3>2, <1>5, <2>2, FinishClosedFields
    <3>3. QED BY <3>1, <3>2
  <2>4. w.rec = c.rec /\ w.tripped = c.tripped /\ w.okStatus = c.okStatus
    BY ONLY <2>1, <2>2, <2>3, <1>5, CloseAtCapFields, i \in Ids
  <2>5. QED BY <1>5, <2>3, <2>4 DEF Cuts
<1>8. CASE ~TripDue(a) /\ ~CapDue(a, i) BY <1>3, <1>5, <1>8 DEF Cuts
<1>9. QED BY <1>6, <1>7, <1>8

\* So does adding bytes to a record.
LEMMA AddCuts ==
  ASSUME NEW m, Books(m), NEW i \in Ids, i < m.next,
         NEW s \in Nat, NEW v \in Nat, NEW neg \in Nat,
         NEW w, w = Add(m, i, s, v, neg)
  PROVE  Cuts(m, w, i)
<1> DEFINE a == AddToRecord(m, i, s, v, neg)
           r == CountInRecord(m.rec[i], s, v, neg)
<1>1. m \in Meters /\ m.rec[i] \in Records BY DEF Books, Meters
<1>2. Books(a) BY AddToRecordBooks
<1>3. a.rec = [m.rec EXCEPT ![i] = r] /\ a.okStatus = m.okStatus /\ a.tripped = m.tripped
  BY <1>1 DEF AddToRecord, Meters
<1>4. r.status = m.rec[i].status BY <1>1 DEF Records, CountInRecord
<1>5. w = IF IsTarget(a.rec[i]) THEN CountTarget(a, i, s + v) ELSE a BY DEF Add
<1> HIDE DEF a, r
<1>6. a.rec[i] = r /\ \A j \in Ids \ {i} : a.rec[j] = m.rec[j] BY <1>1, <1>3 DEF Meters
<1>7. Cuts(m, a, i) BY <1>3, <1>4, <1>6 DEF Cuts
<1>8. CASE IsTarget(a.rec[i])
  <2>1. w = CountTarget(a, i, s + v) /\ s + v \in Nat BY <1>5, <1>8
  <2>2. Cuts(a, w, i) BY <1>2, <2>1, CountCuts
  <2>3. QED BY <1>7, <2>2 DEF Cuts
<1>9. QED BY <1>5, <1>7, <1>8

-----------------------------------------------------------------------------
(* Steps of one task.                                                      *)

Waits(t) == t.pc = "closing" /\ t.next = "open"

\* A task that does not wait leaves the waiting ones, if it was among them.
LEMMA WaitingEnds ==
  ASSUME NEW cs, cs \in [Clients -> Tasks], NEW c \in Clients, NEW t \in Tasks, ~Waits(t),
         NEW ds, ds = [cs EXCEPT ![c] = t]
  PROVE  /\ ds \in [Clients -> Tasks] /\ ds[c] = t /\ \A d \in Clients \ {c} : ds[d] = cs[d]
         /\ Cardinality(WaitingIn(cs)) \in Nat /\ Cardinality(WaitingIn(ds)) \in Nat
         /\ WaitingIn(ds) = WaitingIn(cs) \ {c}
         /\ Cardinality(WaitingIn(ds)) <= Cardinality(WaitingIn(cs))
         /\ Waits(cs[c]) => Cardinality(WaitingIn(ds)) + 1 = Cardinality(WaitingIn(cs))
<1>1. ds \in [Clients -> Tasks] /\ ds[c] = t /\ \A d \in Clients \ {c} : ds[d] = cs[d] OBVIOUS
<1>2. IsFiniteSet(WaitingIn(cs)) /\ IsFiniteSet(WaitingIn(ds))
  BY RelayAssumption, FS_Subset DEF WaitingIn
<1>3. Cardinality(WaitingIn(cs)) \in Nat /\ Cardinality(WaitingIn(ds)) \in Nat
  BY <1>2, FS_CardinalityType
<1>4. c \in WaitingIn(cs) <=> Waits(cs[c]) BY DEF WaitingIn, Waits
<1>5. WaitingIn(ds) = WaitingIn(cs) \ {c} BY <1>1 DEF WaitingIn, Waits
<1>6. Cardinality(WaitingIn(ds)) = IF c \in WaitingIn(cs) THEN Cardinality(WaitingIn(cs)) - 1
                                   ELSE Cardinality(WaitingIn(cs))
  BY <1>2, <1>5, FS_RemoveElement
<1> DEFINE x == Cardinality(WaitingIn(ds))
           y == Cardinality(WaitingIn(cs))
<1>7. x = (IF c \in WaitingIn(cs) THEN y - 1 ELSE y) /\ x \in Nat /\ y \in Nat BY <1>3, <1>6
<1> HIDE DEF x, y
<1>8. x <= y /\ (c \in WaitingIn(cs) => x + 1 = y) BY <1>7
<1>9. QED BY <1>1, <1>4, <1>5, <1>7, <1>8 DEF x, y

\* A task that waits joins them, if it was not among them before.
LEMMA WaitingBegins ==
  ASSUME NEW cs, cs \in [Clients -> Tasks], NEW c \in Clients, NEW t \in Tasks, Waits(t),
         NEW ds, ds = [cs EXCEPT ![c] = t]
  PROVE  /\ ds \in [Clients -> Tasks] /\ ds[c] = t /\ \A d \in Clients \ {c} : ds[d] = cs[d]
         /\ Cardinality(WaitingIn(cs)) \in Nat /\ Cardinality(WaitingIn(ds)) \in Nat
         /\ Cardinality(WaitingIn(ds)) <= Cardinality(WaitingIn(cs)) + 1
         /\ Waits(cs[c]) => WaitingIn(ds) = WaitingIn(cs)
<1>1. ds \in [Clients -> Tasks] /\ ds[c] = t /\ \A d \in Clients \ {c} : ds[d] = cs[d] OBVIOUS
<1>2. IsFiniteSet(WaitingIn(cs)) /\ IsFiniteSet(WaitingIn(ds))
  BY RelayAssumption, FS_Subset DEF WaitingIn
<1>3. Cardinality(WaitingIn(cs)) \in Nat /\ Cardinality(WaitingIn(ds)) \in Nat
  BY <1>2, FS_CardinalityType
<1>4. c \in WaitingIn(cs) <=> Waits(cs[c]) BY DEF WaitingIn, Waits
<1>5. WaitingIn(ds) = WaitingIn(cs) \cup {c} BY <1>1 DEF WaitingIn, Waits
<1>6. Cardinality(WaitingIn(ds)) = IF c \in WaitingIn(cs) THEN Cardinality(WaitingIn(cs))
                                   ELSE Cardinality(WaitingIn(cs)) + 1
  BY <1>2, <1>5, FS_AddElement
<1>7. Cardinality(WaitingIn(ds)) <= Cardinality(WaitingIn(cs)) + 1 BY <1>3, <1>6
<1>8. QED BY <1>1, <1>3, <1>4, <1>5, <1>7

\* What is said of a record, in its parts: its statuses, its owner, and what is unused.
LEMMA RecordParts ==
  ASSUME NEW i, NEW m, NEW cs, NEW op, NEW fi
  PROVE  RecordOK(i, m, cs, op, fi) <=>
           /\ Tells(i, m, fi)
           /\ m.rec[i].status = "open" => \E c \in Clients : cs[c].tunnel = i
           /\ i >= m.next => fi[i] = {} /\ m.okStatus[i] = "ok"
BY DEF RecordOK, Tells

\* What a step does not touch of another task's stays as it is.
LEMMA OthersKeep ==
  ASSUME NEW m, NEW w, NEW d \in Clients, NEW t, t \in Tasks, NEW op, NEW op2, NEW fi, NEW fi2,
         Books(m), Books(w),
         TaskOK(d, t, m, op, fi), m.next <= w.next,
         m.open \cup m.closing \subseteq w.open \cup w.closing,
         t.tunnel # 0 => /\ w.rec[t.tunnel] = m.rec[t.tunnel]
                         /\ op2[t.tunnel] = op[t.tunnel]
                         /\ fi2[t.tunnel] = fi[t.tunnel]
  PROVE  TaskOK(d, t, w, op2, fi2)
<1>1. m \in Meters /\ w \in Meters BY DEF Books
<1>2. t.tunnel # 0 => t.tunnel \in Ids BY DEF Tasks, Ids
<1>3. t.tunnel # 0 => (t.tunnel \in w.open <=> t.tunnel \in m.open) BY <1>2 DEF Books
<1>4. 0 \notin m.open /\ 0 \notin w.open BY <1>1 DEF Meters, Ids
<1>5. t.tunnel \in w.open <=> t.tunnel \in m.open BY <1>3, <1>4
<1>6. t.tunnel # 0 => (t.tunnel < m.next => t.tunnel < w.next)
  BY <1>1, <1>2 DEF Meters, Ids
<1>7. Owns(d, t, w, op2, fi2) BY <1>6 DEF TaskOK, Owns
<1>8. Connected(t, w) BY <1>5 DEF TaskOK, Connected
<1>9. Stands(t, w, fi2) BY <1>5 DEF TaskOK, Stands
<1>10. QED BY <1>7, <1>8, <1>9 DEF TaskOK

\* Only on record p, if on any, was there an answer between fi and fi2.
AnswersOn(fi, fi2, p) ==
  fi2 \in [Ids -> SUBSET {"407", "other"}] /\ \A j \in Ids \ {p} : fi2[j] = fi[j]

\* A step of one task, which calls the meter about its own record only: what it has to
\* show is that the task and the record are in order after it.
LEMMA AnswerSound ==
  ASSUME NEW m, NEW cs, NEW op, NEW fi, NEW at, Sound(m, cs, op, fi, at),
         NEW c \in Clients, NEW t, t \in Tasks, NEW p, p = cs[c].tunnel,
         NEW w, Touch(m, w, p),
         NEW fi2, AnswersOn(fi, fi2, p),
         TaskOK(c, t, w, op, fi2),
         p # 0 => Tells(p, w, fi2) /\ (w.rec[p].status = "open" => t.tunnel = p),
         Waits(t) => \/ Waits(cs[c])
                     \/ (~m.tripped /\ m.next + Cardinality(WaitingIn(cs)) \in Ids),
         NEW ds, ds = [cs EXCEPT ![c] = t]
  PROVE  Sound(w, ds, op, fi2, at)
<1>1. /\ Books(m) /\ m \in Meters /\ m.next \in Nat /\ cs \in [Clients -> Tasks]
      /\ \A d \in Clients : TaskOK(d, cs[d], m, op, fi)
      /\ \A i \in Ids : RecordOK(i, m, cs, op, fi)
      /\ HasRoom(m, cs) /\ Late(m, cs, op, at)
      /\ fi2 \in [Ids -> SUBSET {"407", "other"}] /\ \A j \in Ids \ {p} : fi2[j] = fi[j]
  BY DEF Sound, Books, Meters, AnswersOn
<1>2. /\ ds \in [Clients -> Tasks] /\ ds[c] = t /\ \A d \in Clients \ {c} : ds[d] = cs[d]
      /\ Cardinality(WaitingIn(cs)) \in Nat /\ Cardinality(WaitingIn(ds)) \in Nat
      /\ ~Waits(t) => /\ WaitingIn(ds) = WaitingIn(cs) \ {c}
                      /\ Cardinality(WaitingIn(ds)) <= Cardinality(WaitingIn(cs))
      /\ Waits(t) => /\ Cardinality(WaitingIn(ds)) <= Cardinality(WaitingIn(cs)) + 1
                     /\ Waits(cs[c]) => WaitingIn(ds) = WaitingIn(cs)
  <2>1. cs \in [Clients -> Tasks] BY <1>1
  <2>2. CASE Waits(t)
    BY ONLY <2>1, <2>2, c \in Clients, t \in Tasks, ds = [cs EXCEPT ![c] = t], WaitingBegins, ZenonT(60)
  <2>3. CASE ~Waits(t)
    BY ONLY <2>1, <2>3, c \in Clients, t \in Tasks, ds = [cs EXCEPT ![c] = t], WaitingEnds
  <2>4. QED BY <2>2, <2>3
<1>3. ASSUME NEW d \in Clients PROVE TaskOK(d, ds[d], w, op, fi2)
  <2>1. CASE d = c BY <2>1, <1>2
  <2>2. CASE d # c
    <3>1. ds[d] = cs[d] /\ cs[d] \in Tasks BY <1>1, <1>2, <2>2
    <3>2. cs[d].tunnel # 0 => cs[d].tunnel \in Ids /\ op[cs[d].tunnel] = <<d, cs[d].host>>
      <4>1. TaskOK(d, cs[d], m, op, fi) BY <1>1
      <4>2. cs[d].tunnel \in 0 .. MaxRecords BY <3>1 DEF Tasks
      <4>3. cs[d].tunnel # 0 => cs[d].tunnel \in Ids BY <4>2, MeterAssumption DEF Ids
      <4>4. QED BY <4>1, <4>3 DEF TaskOK, Owns
    <3>3. p # 0 => op[p] = <<c, cs[c].host>> BY <1>1 DEF TaskOK, Owns
    <3>4. cs[d].tunnel # 0 => cs[d].tunnel # p BY <2>2, <3>2, <3>3
    <3>5. cs[d].tunnel # 0 => /\ w.rec[cs[d].tunnel] = m.rec[cs[d].tunnel]
                              /\ fi2[cs[d].tunnel] = fi[cs[d].tunnel]
      BY <1>1, <3>2, <3>4 DEF Touch
    <3>6. /\ Books(w) /\ m.open \cup m.closing \subseteq w.open \cup w.closing
          /\ m.next <= w.next
      BY <1>1 DEF Touch
    <3>7. TaskOK(d, cs[d], m, op, fi) BY <1>1
    <3>8. QED BY <1>1, <3>1, <3>5, <3>6, <3>7, OthersKeep
  <2>3. QED BY <2>1, <2>2
<1>4. ASSUME NEW i \in Ids PROVE RecordOK(i, w, ds, op, fi2)
  <2>1. /\ Tells(i, m, fi)
        /\ m.rec[i].status = "open" => \E d \in Clients : cs[d].tunnel = i
        /\ i >= m.next => fi[i] = {} /\ m.okStatus[i] = "ok"
    BY <1>1, RecordParts
  <2>2. CASE i = p
    <3>1. i # 0 BY DEF Ids
    <3>2. i < m.next BY <1>1, <2>2, <3>1 DEF TaskOK, Owns
    <3>3. ~(i >= w.next) BY <1>1, <3>2 DEF Touch, Ids
    <3>4. w.rec[i].status = "open" => \E d \in Clients : ds[d].tunnel = i
      BY <1>2, <2>2, <3>1
    <3>5. Tells(i, w, fi2) BY <2>2, <3>1
    <3>6. QED BY <3>3, <3>4, <3>5, RecordParts
  <2>3. CASE i # p
    <3>1. w.rec[i] = m.rec[i] /\ w.okStatus[i] = m.okStatus[i] /\ fi2[i] = fi[i] /\ w.next = m.next
      BY <1>1, <2>3 DEF Touch
    <3>2. Tells(i, w, fi2) BY <2>1, <3>1 DEF Tells
    <3>3. w.rec[i].status = "open" => \E d \in Clients : ds[d].tunnel = i
      BY <1>2, <2>1, <2>3, <3>1
    <3>4. QED BY <2>1, <3>1, <3>2, <3>3, RecordParts
  <2>4. QED BY <2>2, <2>3
<1>5. HasRoom(w, ds)
  <2>1. w.next = m.next BY DEF Touch
  <2>2. CASE ~Waits(t) BY <1>1, <1>2, <2>1, <2>2, MeterAssumption DEF HasRoom
  <2>3. CASE Waits(t) /\ Waits(cs[c]) BY <1>1, <1>2, <2>1, <2>3 DEF HasRoom
  <2>4. CASE Waits(t) /\ ~Waits(cs[c])
    <3>1. m.next + Cardinality(WaitingIn(cs)) <= MaxRecords BY <2>4 DEF Ids
    <3>2. QED BY <1>1, <1>2, <2>1, <2>4, <3>1, MeterAssumption DEF HasRoom
  <2>5. QED BY <2>2, <2>3, <2>4
<1>6. Late(w, ds, op, at)
  <2>1. w.next = m.next /\ w.tripped = m.tripped BY DEF Touch
  <2>2. CASE Waits(t) /\ ~Waits(cs[c]) BY <1>1, <2>1, <2>2 DEF Late
  <2>3. CASE ~Waits(t) \/ Waits(cs[c])
    <3>1. WaitingIn(ds) \subseteq WaitingIn(cs) BY <1>2, <2>3
    <3>2. QED BY <1>1, <2>1, <3>1 DEF Late
  <2>4. QED BY <2>2, <2>3
<1>7. Books(w) /\ Below(w) BY DEF Touch
<1>8. op \in [Ids -> {<<>>} \cup Clients \X Hosts] /\ at \in 0 .. (MaxRecords + 1) BY DEF Sound
<1>9. QED BY <1>1, <1>2, <1>3, <1>4, <1>5, <1>6, <1>7, <1>8 DEF Sound

\* When nothing is answered.
LEMMA StepSound ==
  ASSUME NEW m, NEW cs, NEW op, NEW fi, NEW at, Sound(m, cs, op, fi, at),
         NEW c \in Clients, NEW t, t \in Tasks, NEW p, p = cs[c].tunnel,
         NEW w, Touch(m, w, p), TaskOK(c, t, w, op, fi),
         p # 0 => Tells(p, w, fi) /\ (w.rec[p].status = "open" => t.tunnel = p),
         Waits(t) => \/ Waits(cs[c])
                     \/ (~m.tripped /\ m.next + Cardinality(WaitingIn(cs)) \in Ids),
         NEW ds, ds = [cs EXCEPT ![c] = t]
  PROVE  Sound(w, ds, op, fi, at)
<1>1. AnswersOn(fi, fi, p) BY DEF AnswersOn, Sound
<1>2. QED BY <1>1, AnswerSound

\* Record i is new and open, and of the others only p changed.
Opens(m, w, p, i) ==
  /\ Books(w) /\ Below(w)
  /\ w.next = m.next + 1 /\ w.tripped = m.tripped /\ w.okStatus = m.okStatus
  /\ m.open \cup m.closing \subseteq w.open \cup w.closing
  /\ \A j \in Ids \ {p, i} : w.rec[j] = m.rec[j]
  /\ w.rec[i].status = "open"

\* A step that opens the next record for the task, which closes the one it had.
LEMMA NewSound ==
  ASSUME NEW m, NEW cs, NEW op, NEW fi, NEW at, Sound(m, cs, op, fi, at),
         NEW c \in Clients, NEW t, t \in Tasks, NEW p, p = cs[c].tunnel,
         NEW i \in Ids, i = m.next, t.tunnel = i, ~Waits(t),
         Waits(cs[c]) \/ (~m.tripped /\ m.next + Cardinality(WaitingIn(cs)) \in Ids),
         NEW w, Opens(m, w, p, i),
         p # 0 => Tells(p, w, fi) /\ w.rec[p].status # "open",
         NEW op2, op2 = [op EXCEPT ![i] = <<c, t.host>>],
         TaskOK(c, t, w, op2, fi),
         NEW ds, ds = [cs EXCEPT ![c] = t]
  PROVE  Sound(w, ds, op2, fi, at)
<1>0. /\ Books(w) /\ Below(w)
      /\ w.next = m.next + 1 /\ w.tripped = m.tripped /\ w.okStatus = m.okStatus
      /\ m.open \cup m.closing \subseteq w.open \cup w.closing
      /\ \A j \in Ids \ {p, i} : w.rec[j] = m.rec[j]
      /\ w.rec[i].status = "open"
  BY DEF Opens
<1> USE <1>0
<1>1. /\ Books(m) /\ m \in Meters /\ m.next \in Nat /\ cs \in [Clients -> Tasks]
      /\ \A d \in Clients : TaskOK(d, cs[d], m, op, fi)
      /\ \A j \in Ids : RecordOK(j, m, cs, op, fi)
      /\ HasRoom(m, cs) /\ Late(m, cs, op, at)
      /\ op \in [Ids -> {<<>>} \cup Clients \X Hosts]
      /\ fi \in [Ids -> SUBSET {"407", "other"}] /\ at \in 0 .. (MaxRecords + 1)
  BY DEF Sound, Books, Meters
<1>2. /\ ds \in [Clients -> Tasks] /\ ds[c] = t /\ \A d \in Clients \ {c} : ds[d] = cs[d]
      /\ Cardinality(WaitingIn(cs)) \in Nat /\ Cardinality(WaitingIn(ds)) \in Nat
      /\ WaitingIn(ds) = WaitingIn(cs) \ {c}
      /\ Cardinality(WaitingIn(ds)) <= Cardinality(WaitingIn(cs))
      /\ Waits(cs[c]) => Cardinality(WaitingIn(ds)) + 1 = Cardinality(WaitingIn(cs))
  <2>1. cs \in [Clients -> Tasks] BY <1>1
  <2>2. QED
    BY ONLY <2>1, c \in Clients, t \in Tasks, ds = [cs EXCEPT ![c] = t], ~Waits(t), WaitingEnds
<1>3. t.host \in Hosts BY DEF Tasks
<1>4. /\ op2 \in [Ids -> {<<>>} \cup Clients \X Hosts] /\ op2[i] = <<c, t.host>>
      /\ \A j \in Ids \ {i} : op2[j] = op[j]
  BY <1>1, <1>3
<1>5. p # 0 => p \in Ids /\ p < m.next /\ op[p] = <<c, cs[c].host>>
  <2>1. TaskOK(c, cs[c], m, op, fi) /\ cs[c].tunnel \in 0 .. MaxRecords BY <1>1 DEF Tasks
  <2>2. QED BY <2>1, MeterAssumption DEF TaskOK, Owns, Ids
<1>6. ASSUME NEW d \in Clients PROVE TaskOK(d, ds[d], w, op2, fi)
  <2>1. CASE d = c BY <2>1, <1>2
  <2>2. CASE d # c
    <3>1. ds[d] = cs[d] /\ cs[d] \in Tasks BY <1>1, <1>2, <2>2
    <3>2. cs[d].tunnel # 0 => /\ cs[d].tunnel \in Ids /\ op[cs[d].tunnel] = <<d, cs[d].host>>
                              /\ cs[d].tunnel < m.next
      <4>1. TaskOK(d, cs[d], m, op, fi) BY <1>1
      <4>2. cs[d].tunnel \in 0 .. MaxRecords BY <3>1 DEF Tasks
      <4>3. cs[d].tunnel # 0 => cs[d].tunnel \in Ids BY <4>2, MeterAssumption DEF Ids
      <4>4. QED BY <4>1, <4>3 DEF TaskOK, Owns
    <3>3. cs[d].tunnel # 0 => cs[d].tunnel \in Ids \ {p, i}
      <4>1. cs[d].tunnel # 0 => cs[d].tunnel # p BY <1>5, <2>2, <3>2
      <4>2. cs[d].tunnel # 0 => cs[d].tunnel # i BY <1>1, <3>2 DEF Ids
      <4>3. QED BY <3>2, <4>1, <4>2
    <3>4. cs[d].tunnel # 0 => /\ w.rec[cs[d].tunnel] = m.rec[cs[d].tunnel]
                              /\ op2[cs[d].tunnel] = op[cs[d].tunnel]
      BY <1>4, <3>3
    <3>5. m.next <= w.next BY <1>1
    <3>6. TaskOK(d, cs[d], m, op, fi) /\ Books(m) BY <1>1
    <3>7. m.open \cup m.closing \subseteq w.open \cup w.closing OBVIOUS
    <3>8. TaskOK(d, cs[d], w, op2, fi)
      BY ONLY d \in Clients, Books(w), <3>1, <3>4, <3>5, <3>6, <3>7, OthersKeep
    <3>9. QED BY <3>1, <3>8
  <2>3. QED BY <2>1, <2>2
<1>7. ASSUME NEW j \in Ids PROVE RecordOK(j, w, ds, op2, fi)
  <2>1. /\ Tells(j, m, fi)
        /\ m.rec[j].status = "open" => \E d \in Clients : cs[d].tunnel = j
        /\ j >= m.next => fi[j] = {} /\ m.okStatus[j] = "ok"
    BY <1>1, RecordParts
  <2>2. j >= w.next => j >= m.next BY <1>1 DEF Ids
  <2>3. CASE j = i
    <3>1. fi[j] = {} /\ w.okStatus[j] = "ok" BY <1>1, <2>1, <2>3
    <3>2. Tells(j, w, fi) BY <2>3, <3>1 DEF Tells, SetupFailures, Normal
    <3>3. \E d \in Clients : ds[d].tunnel = j BY <1>2, <2>3
    <3>4. QED BY <3>1, <3>2, <3>3, RecordParts
  <2>4. CASE j = p /\ j # i
    <3>1. j # 0 BY DEF Ids
    <3>2. Tells(j, w, fi) /\ w.rec[j].status # "open" BY <2>4, <3>1
    <3>3. QED BY <2>1, <2>2, <3>2, RecordParts
  <2>5. CASE j # p /\ j # i
    <3>1. w.rec[j] = m.rec[j] BY <2>5
    <3>2. Tells(j, w, fi) BY <2>1, <3>1 DEF Tells
    <3>3. w.rec[j].status = "open" => \E d \in Clients : ds[d].tunnel = j
      BY <1>2, <2>1, <2>5, <3>1
    <3>4. QED BY <2>1, <2>2, <3>2, <3>3, RecordParts
  <2>6. QED BY <2>3, <2>4, <2>5
<1>8. HasRoom(w, ds)
  <2> DEFINE x == Cardinality(WaitingIn(ds))
             y == Cardinality(WaitingIn(cs))
  <2>1. /\ x \in Nat /\ y \in Nat /\ x <= y /\ (Waits(cs[c]) => x + 1 = y)
        /\ m.next + y <= MaxRecords + 1
        /\ Waits(cs[c]) \/ m.next + y <= MaxRecords
    BY <1>1, <1>2 DEF HasRoom, Ids
  <2> HIDE DEF x, y
  <2>2. m.next + 1 + x <= MaxRecords + 1 BY <1>1, <2>1, MeterAssumption
  <2>3. QED BY <2>2 DEF HasRoom, x
<1>9. Late(w, ds, op2, at)
  <2> SUFFICES ASSUME at # 0
               PROVE  /\ w.tripped
                      /\ \A j \in Ids : j >= at /\ j < w.next =>
                           /\ op2[j] # <<>>
                           /\ op2[j][1] \notin WaitingIn(ds)
                           /\ \A k \in Ids : k >= at /\ k < w.next /\ op2[j][1] = op2[k][1] => j = k
    BY DEF Late
  <2>1. /\ m.tripped
        /\ \A j \in Ids : j >= at /\ j < m.next =>
             /\ op[j] # <<>> /\ op[j][1] \notin WaitingIn(cs)
             /\ \A k \in Ids : k >= at /\ k < m.next /\ op[j][1] = op[k][1] => j = k
    BY <1>1 DEF Late
  <2>2. c \in WaitingIn(cs) BY <2>1 DEF WaitingIn, Waits
  <2>3. \A j \in Ids : j < w.next => j = i \/ (j # i /\ j < m.next) BY <1>1 DEF Ids
  <2>4. op2[i] # <<>> /\ op2[i][1] = c /\ c \notin WaitingIn(ds) BY <1>2, <1>4
  <2>5. ASSUME NEW j \in Ids, j >= at, j < w.next, j # i
        PROVE  /\ op2[j] # <<>> /\ op2[j][1] \notin WaitingIn(ds) /\ op2[j][1] # c
               /\ j < m.next /\ op2[j] = op[j]
    <3>1. j < m.next /\ op2[j] = op[j] BY <1>4, <2>3, <2>5
    <3>2. op[j] # <<>> /\ op[j][1] \notin WaitingIn(cs) BY <2>1, <2>5, <3>1
    <3>3. QED BY <1>2, <2>2, <3>1, <3>2
  <2>6. ASSUME NEW j \in Ids, NEW k \in Ids, j >= at, j < w.next, k >= at, k < w.next,
               op2[j][1] = op2[k][1]
        PROVE  j = k
    BY <2>1, <2>4, <2>5, <2>6
  <2>7. \A j \in Ids : j >= at /\ j < w.next => op2[j] # <<>> /\ op2[j][1] \notin WaitingIn(ds)
    BY <2>4, <2>5
  <2>8. QED BY <2>1, <2>6, <2>7
<1>10. QED BY <1>1, <1>2, <1>4, <1>6, <1>7, <1>8, <1>9 DEF Sound

\* record_denied: a record that no task owns, while the budget has not tripped.
LEMMA DeniedSound ==
  ASSUME NEW m, NEW cs, NEW op, NEW fi, NEW at, Sound(m, cs, op, fi, at),
         NEW c \in Clients, NEW h \in Hosts, NEW i, i = m.next,
         ~m.tripped, i + Cardinality(WaitingIn(cs)) \in Ids,
         NEW w, w = RecordDenied(m), NEW op2, op2 = [op EXCEPT ![i] = <<c, h>>]
  PROVE  Sound(w, cs, op2, fi, at) /\ ~w.tripped
<1>1. /\ Books(m) /\ m \in Meters /\ m.next \in Nat /\ cs \in [Clients -> Tasks]
      /\ \A d \in Clients : TaskOK(d, cs[d], m, op, fi)
      /\ \A j \in Ids : RecordOK(j, m, cs, op, fi)
      /\ Below(m) /\ HasRoom(m, cs) /\ Late(m, cs, op, at)
      /\ op \in [Ids -> {<<>>} \cup Clients \X Hosts]
      /\ fi \in [Ids -> SUBSET {"407", "other"}] /\ at \in 0 .. (MaxRecords + 1)
  BY DEF Sound, Books, Meters
<1>2. Cardinality(WaitingIn(cs)) \in Nat
  <2>1. IsFiniteSet(WaitingIn(cs)) BY RelayAssumption, FS_Subset DEF WaitingIn
  <2>2. QED BY <2>1, FS_CardinalityType
<1>3. i \in Ids /\ i + Cardinality(WaitingIn(cs)) <= MaxRecords
  BY <1>1, <1>2, MeterAssumption DEF Ids, Meters
<1> DEFINE r == NewRecord("refused", "denied", 0)
<1>4. Books(w) /\ Adds(m, w, r) /\ w.base = m.base /\ w.open = m.open
  BY <1>1, <1>3, RecordDeniedFacts
<1>5. w.okStatus = m.okStatus BY <1>1 DEF RecordDenied, AppendRecord, Meters
<1>6. r.sent = 0 /\ r.recv = 0 /\ r.status = "denied" BY DEF NewRecord, NoRecord
<1> HIDE DEF r
<1>7. Below(w)
  <2>1. Cap # 0 => 0 < Cap BY MeterAssumption
  <2>2. QED BY <1>1, <1>3, <1>4, <1>6, <2>1, AddsBelow
<1>8. /\ w.next = m.next + 1 /\ w.tripped = m.tripped /\ w.closing = m.closing
      /\ w.rec[i] = r /\ \A j \in Ids \ {i} : w.rec[j] = m.rec[j]
  BY <1>4 DEF Adds, SaysNothing
<1>9. /\ op2 \in [Ids -> {<<>>} \cup Clients \X Hosts]
      /\ \A j \in Ids \ {i} : op2[j] = op[j]
  BY <1>1, <1>3
<1>10. ASSUME NEW d \in Clients PROVE TaskOK(d, cs[d], w, op2, fi)
  <2>1. TaskOK(d, cs[d], m, op, fi) /\ cs[d] \in Tasks BY <1>1
  <2>2. cs[d].tunnel # 0 => cs[d].tunnel \in Ids \ {i}
    <3>1. cs[d].tunnel # 0 => cs[d].tunnel < m.next BY <2>1 DEF TaskOK, Owns
    <3>2. cs[d].tunnel \in 0 .. MaxRecords BY <2>1 DEF Tasks
    <3>3. QED BY <1>1, <3>1, <3>2, MeterAssumption DEF Ids
  <2>3. cs[d].tunnel # 0 => /\ w.rec[cs[d].tunnel] = m.rec[cs[d].tunnel]
                            /\ op2[cs[d].tunnel] = op[cs[d].tunnel]
    BY <1>8, <1>9, <2>2
  <2>4. m.next <= w.next /\ m.open \cup m.closing \subseteq w.open \cup w.closing
    BY <1>1, <1>4, <1>8
  <2>5. QED BY <1>1, <1>4, <2>1, <2>3, <2>4, OthersKeep
<1>11. ASSUME NEW j \in Ids PROVE RecordOK(j, w, cs, op2, fi)
  <2>1. /\ Tells(j, m, fi)
        /\ m.rec[j].status = "open" => \E d \in Clients : cs[d].tunnel = j
        /\ j >= m.next => fi[j] = {} /\ m.okStatus[j] = "ok"
    BY <1>1, RecordParts
  <2>2. j >= w.next => j >= m.next BY <1>1, <1>8 DEF Ids
  <2>3. CASE j = i
    <3>1. w.rec[j].status = "denied" BY <1>6, <1>8, <2>3
    <3>2. Tells(j, w, fi) BY <3>1 DEF Tells, SetupFailures, Normal
    <3>3. QED BY <1>5, <2>1, <2>2, <3>1, <3>2, RecordParts
  <2>4. CASE j # i
    <3>1. w.rec[j] = m.rec[j] BY <1>8, <2>4
    <3>2. Tells(j, w, fi) BY <1>5, <2>1, <3>1 DEF Tells
    <3>3. QED BY <1>5, <2>1, <2>2, <3>1, <3>2, RecordParts
  <2>5. QED BY <2>3, <2>4
<1>12. HasRoom(w, cs) BY <1>1, <1>2, <1>3, <1>8, MeterAssumption DEF HasRoom
<1>13. Late(w, cs, op2, at) BY <1>1 DEF Late
<1>14. QED BY <1>1, <1>4, <1>7, <1>8, <1>9, <1>10, <1>11, <1>12, <1>13 DEF Sound

-----------------------------------------------------------------------------
(* Steps that count.                                                       *)

\* A task whose connection is live, and where that puts the record it is charged to.
LEMMA LiveFacts ==
  ASSUME NEW m, Books(m), NEW c, NEW t, t \in Tasks, NEW op, NEW fi, TaskOK(c, t, m, op, fi),
         t.up = "live"
  PROVE  /\ t.bound = t.tunnel /\ t.bound \in Ids /\ t.bound < m.next
         /\ m.rec[t.bound].route = RouteOf[t.host] /\ ~Waits(t)
         /\ t.pc # "lingering" => t.bound \in m.open
         /\ t.pc = "lingering" => RouteOf[t.host] # "socks5"
         /\ t.charged \in SUBSET Ids
<1>1. t.tunnel # 0 /\ t.bound = t.tunnel /\ t.pc # "closing"
      /\ IF t.pc = "lingering" THEN RouteOf[t.host] # "socks5" ELSE t.tunnel \in m.open
  BY DEF TaskOK, Connected
<1>2. t.tunnel \in 0 .. MaxRecords /\ t.charged \in SUBSET Ids BY DEF Tasks
<1>3. t.tunnel \in Ids BY <1>1, <1>2, MeterAssumption DEF Ids
<1>4. t.tunnel < m.next /\ m.rec[t.tunnel].route = RouteOf[t.host] BY <1>1 DEF TaskOK, Owns
<1>5. QED BY <1>1, <1>2, <1>3, <1>4 DEF Waits

\* A task whose connection the tail of a count aborts, or whose tunnel stays open.
LEMMA TailTaskOK ==
  ASSUME NEW m, Books(m), NEW w, Books(w), w.next = m.next,
         w.open \subseteq m.open, m.open \cup m.closing \subseteq w.open \cup w.closing,
         \A j \in Ids : w.rec[j].route = m.rec[j].route,
         NEW c, NEW t, t \in Tasks, NEW op, NEW fi, TaskOK(c, t, m, op, fi),
         NEW u, u \in Tasks, u.host = t.host, u.tunnel = t.tunnel, u.passed = t.passed,
         u.keep = t.keep, u.bound = t.bound,
         \/ u.pc = t.pc /\ u.next = t.next
         \/ t.up = "live" /\ u.pc = "closing" /\ u.next = "end",
         \/ u.up = t.up /\ u.pc = t.pc /\ (t.up = "live" => t.bound \notin ToAbort(m, w))
         \/ t.up = "live" /\ u.up = "gone" /\ t.bound \in ToAbort(m, w)
  PROVE  TaskOK(c, u, w, op, fi)
<1>1. t.tunnel # 0 => t.tunnel \in Ids BY MeterAssumption DEF Tasks, Ids
<1>2. Owns(c, u, w, op, fi) BY <1>1 DEF TaskOK, Owns
<1>3. t.up = "live" => t.bound = t.tunnel /\ t.tunnel # 0 BY LiveFacts DEF Ids
<1>4. w.open \cap w.closing = {} BY DEF Books
<1>5. Connected(u, w)
  <2>1. CASE u.up = "gone" /\ t.up = "live" BY <2>1 DEF Connected
  <2>2. CASE u.up = t.up /\ u.pc = t.pc /\ (t.up = "live" => t.bound \notin ToAbort(m, w))
    <3>1. t.up = "live" /\ t.tunnel \in m.open => t.tunnel \in w.open
      BY <1>3, <2>2 DEF ToAbort, Books
    <3>2. QED BY <2>2, <3>1 DEF TaskOK, Connected
  <2>3. QED BY <2>1, <2>2
<1>6. u.pc = "closing" /\ u.next = "end" /\ t.up = "live" => t.tunnel \notin w.open
  <2>1. t.up = "live" => t.pc # "closing" BY DEF TaskOK, Connected
  <2>2. QED BY <1>3, <1>4, <2>1 DEF ToAbort
<1>7. Stands(u, w, fi)
  <2>1. CASE u.pc = t.pc /\ u.next = t.next
    <3>1. t.pc = "connecting" => u.up = "none"
      BY <2>1 DEF TaskOK, Stands
    <3>2. QED BY <2>1, <3>1 DEF TaskOK, Stands
  <2>2. CASE t.up = "live" /\ u.pc = "closing" /\ u.next = "end"
    <3>1. t.keep => t.tunnel # 0 BY DEF TaskOK, Stands
    <3>2. QED BY <1>6, <2>2, <3>1 DEF Stands
  <2>3. QED BY <2>1, <2>2
<1>8. QED BY <1>2, <1>5, <1>7 DEF TaskOK

\* The tail of a count: the tasks whose connections it aborts, and all tasks after it.
CutOff(es, dead) == {d \in Clients : es[d].up = "live" /\ es[d].bound \in dead}
AfterTail(es, dead) ==
  [d \in Clients |-> [(IF d \in CutOff(es, dead) THEN Aborted(es[d]) ELSE es[d])
                        EXCEPT !.sock = IF es[d].tunnel \in dead THEN "gone" ELSE @]]
TripMark(m, w, at) == IF w.tripped /\ ~m.tripped THEN w.next ELSE at

\* A task that wrote on a tunnel which the count closed ends; the others wait on.
Follows(cs, es, dead) ==
  \A d \in Clients :
    \/ es[d] = cs[d]
    \/ /\ cs[d].up = "live" /\ cs[d].bound \in dead
       /\ es[d] = [cs[d] EXCEPT !.pc = "closing", !.next = "end"]

SameBut(t, u) ==
  /\ u.bound = t.bound /\ u.tunnel = t.tunnel /\ u.host = t.host
  /\ u.keep = t.keep /\ u.passed = t.passed

\* The tail of a call, for one client: its socket is aborted or its task is as it was.
LEMMA TailTasks ==
  ASSUME NEW cs, cs \in [Clients -> Tasks], NEW es, es \in [Clients -> Tasks],
         NEW dead, Follows(cs, es, dead), NEW ds, ds = AfterTail(es, dead), NEW d \in Clients
  PROVE  /\ ds[d] \in Tasks /\ SameBut(cs[d], ds[d])
         /\ es[d].charged = cs[d].charged /\ es[d].bound = cs[d].bound
         /\ d \in CutOff(es, dead) <=> cs[d].up = "live" /\ cs[d].bound \in dead
         /\ ds[d].up = IF d \in CutOff(es, dead) THEN "gone" ELSE cs[d].up
         /\ \/ ds[d].pc = cs[d].pc /\ ds[d].next = cs[d].next
            \/ d \in CutOff(es, dead) /\ ds[d].pc = "closing" /\ ds[d].next = "end"
<1>1. cs[d] \in Tasks /\ es[d] \in Tasks OBVIOUS
<1>2. /\ SameBut(cs[d], es[d]) /\ es[d].up = cs[d].up /\ es[d].charged = cs[d].charged
      /\ \/ es[d].pc = cs[d].pc /\ es[d].next = cs[d].next
         \/ /\ cs[d].up = "live" /\ cs[d].bound \in dead
            /\ es[d].pc = "closing" /\ es[d].next = "end"
  <2>1. CASE es[d] = cs[d] BY <2>1 DEF SameBut
  <2>2. CASE /\ cs[d].up = "live" /\ cs[d].bound \in dead
             /\ es[d] = [cs[d] EXCEPT !.pc = "closing", !.next = "end"]
    BY <1>1, <2>2 DEF Tasks, SameBut
  <2>3. QED BY <2>1, <2>2 DEF Follows
<1>3. d \in CutOff(es, dead) <=> cs[d].up = "live" /\ cs[d].bound \in dead
  BY <1>2 DEF CutOff, SameBut
<1> DEFINE e == IF d \in CutOff(es, dead) THEN Aborted(es[d]) ELSE es[d]
           k == IF es[d].tunnel \in dead THEN "gone" ELSE e.sock
<1>4. Aborted(es[d]) \in Tasks /\ SameBut(es[d], Aborted(es[d]))
      /\ Aborted(es[d]).pc = es[d].pc /\ Aborted(es[d]).next = es[d].next
      /\ (es[d].up = "live" => Aborted(es[d]).up = "gone")
  BY <1>1, ZenonT(60) DEF Aborted, Tasks, SameBut
<1>5. e \in Tasks /\ SameBut(es[d], e) /\ e.pc = es[d].pc /\ e.next = es[d].next
      /\ e.up = (IF d \in CutOff(es, dead) THEN "gone" ELSE cs[d].up)
  <2>1. CASE d \in CutOff(es, dead) BY <1>1, <1>2, <1>3, <1>4, <2>1
  <2>2. CASE d \notin CutOff(es, dead) BY <1>1, <1>2, <2>2 DEF SameBut
  <2>3. QED BY <2>1, <2>2
<1>6. ds[d] = [e EXCEPT !.sock = k] BY DEF AfterTail
<1>7. k \in {"open", "gone"} BY <1>5 DEF Tasks
<1> HIDE DEF e, k
<1>8. ds[d] \in Tasks /\ SameBut(e, ds[d]) /\ ds[d].pc = e.pc /\ ds[d].next = e.next
      /\ ds[d].up = e.up
  BY <1>5, <1>6, <1>7 DEF Tasks, SameBut
<1>9. SameBut(cs[d], ds[d]) BY <1>2, <1>5, <1>8 DEF SameBut
<1>10. QED BY <1>2, <1>3, <1>5, <1>8, <1>9 DEF SameBut

\* Settle: bytes are counted on the record of a live connection, then the sockets of
\* every tunnel that this closed are aborted.
LEMMA SettleSound ==
  ASSUME NEW m, NEW cs, NEW op, NEW fi, NEW at, Sound(m, cs, op, fi, at),
         NEW b \in Clients, cs[b].up = "live", NEW i, i = cs[b].bound,
         NEW s \in Nat, NEW v \in Nat, NEW neg \in Nat, NEW w, w = Add(m, i, s, v, neg),
         NEW dead, dead = ToAbort(m, w),
         NEW es, es \in [Clients -> Tasks], Follows(cs, es, dead),
         NEW held \in [Ids -> Nat],
         NEW x, x = AbortAll(w, CutOff(es, dead), es, held),
         NEW ds, ds = AfterTail(es, dead)
  PROVE  Sound(x, ds, op, fi, TripMark(m, w, at))
<1>1. /\ Books(m) /\ Below(m) /\ m \in Meters /\ m.next \in Nat /\ cs \in [Clients -> Tasks]
      /\ \A d \in Clients : TaskOK(d, cs[d], m, op, fi)
      /\ \A j \in Ids : RecordOK(j, m, cs, op, fi)
      /\ HasRoom(m, cs) /\ Late(m, cs, op, at)
      /\ op \in [Ids -> {<<>>} \cup Clients \X Hosts]
      /\ fi \in [Ids -> SUBSET {"407", "other"}] /\ at \in 0 .. (MaxRecords + 1)
  BY DEF Sound, Books, Meters
<1>2. /\ i = cs[b].tunnel /\ i \in Ids /\ i < m.next /\ m.rec[i].route = RouteOf[cs[b].host]
      /\ cs[b].pc # "lingering" => i \in m.open
      /\ cs[b].pc = "lingering" => RouteOf[cs[b].host] # "socks5"
  <2>1. TaskOK(b, cs[b], m, op, fi) /\ cs[b] \in Tasks BY <1>1
  <2>2. Books(m) BY <1>1
  <2>3. QED BY ONLY <2>1, <2>2, cs[b].up = "live", i = cs[b].bound, LiveFacts
<1>3. /\ Books(w) /\ Below(w) /\ SameTunnels(m, w) /\ AbortsClosed(m, w) /\ Cuts(m, w, i)
  <2>1. Books(w) /\ Below(w) /\ SameTunnels(m, w) /\ AbortsClosed(m, w)
    BY <1>1, <1>2, AddFacts
  <2>2. Cuts(m, w, i) BY <1>1, <1>2, AddCuts
  <2>3. QED BY <2>1, <2>2
<1>4. /\ w.next = m.next /\ w.open \subseteq m.open
      /\ m.open \cup m.closing \subseteq w.open \cup w.closing
      /\ \A j \in Ids : w.rec[j].route = m.rec[j].route
  BY <1>3 DEF SameTunnels
<1>5. ASSUME NEW d \in Clients
      PROVE  /\ ds[d] \in Tasks /\ SameBut(cs[d], ds[d])
             /\ es[d].charged = cs[d].charged /\ es[d].bound = cs[d].bound
             /\ d \in CutOff(es, dead) <=> cs[d].up = "live" /\ cs[d].bound \in dead
             /\ ds[d].up = IF d \in CutOff(es, dead) THEN "gone" ELSE cs[d].up
             /\ \/ ds[d].pc = cs[d].pc /\ ds[d].next = cs[d].next
                \/ d \in CutOff(es, dead) /\ ds[d].pc = "closing" /\ ds[d].next = "end"
  BY <1>1, TailTasks
<1>6. ASSUME NEW d \in CutOff(es, dead)
      PROVE es[d].bound \in Ids /\ es[d].bound < w.next /\ es[d].charged \in SUBSET Ids
  <2>1. d \in Clients BY DEF CutOff
  <2>2. TaskOK(d, cs[d], m, op, fi) /\ cs[d] \in Tasks /\ Books(m) BY <1>1, <2>1
  <2>3. cs[d].up = "live" BY <1>5, <2>1
  <2>4. cs[d].bound \in Ids /\ cs[d].bound < m.next /\ cs[d].charged \in SUBSET Ids
    BY ONLY <2>2, <2>3, LiveFacts
  <2>5. QED BY <1>4, <1>5, <2>1, <2>4
<1>7. Kept(w, x)
  <2>1. CutOff(es, dead) \in SUBSET Clients BY DEF CutOff
  <2>2. QED BY <1>3, <1>6, <2>1, AbortAllKept
<1>8. /\ Books(x) /\ Below(x) /\ x.next = m.next /\ x.tripped = w.tripped
      /\ x.okStatus = m.okStatus
      /\ \A j \in Ids : /\ x.rec[j].status = w.rec[j].status
                        /\ x.rec[j].route = m.rec[j].route
                        /\ AllNegotiation(w.rec[j]) => AllNegotiation(x.rec[j])
  <2>1. w.okStatus = m.okStatus BY <1>3 DEF Cuts
  <2>2. QED BY <1>4, <1>7, <2>1 DEF Kept
<1>9. /\ x.open \subseteq m.open /\ m.open \cup m.closing \subseteq x.open \cup x.closing
      /\ ToAbort(m, x) = dead
  <2>1. x.open = w.open
    <3>0. Books(x) /\ Books(w) BY <1>3, <1>8
    <3>a. \A j \in Ids : j \in x.open <=> x.rec[j].status = "open" BY ONLY <3>0 DEF Books
    <3>b. \A j \in Ids : j \in w.open <=> w.rec[j].status = "open" BY ONLY <3>0 DEF Books
    <3>1. \A j \in Ids : j \in x.open <=> j \in w.open BY ONLY <1>8, <3>a, <3>b
    <3>2. x.open \subseteq Ids /\ w.open \subseteq Ids BY <1>3, <1>8 DEF Books, Meters
    <3>3. QED BY <3>1, <3>2
  <2>2. x.closing = w.closing BY <1>7 DEF Kept
  <2>3. QED BY <1>4, <2>1, <2>2 DEF ToAbort
<1>11. ASSUME NEW d \in Clients PROVE TaskOK(d, ds[d], x, op, fi)
  <2>1. TaskOK(d, cs[d], m, op, fi) /\ cs[d] \in Tasks /\ Books(m) /\ Books(x) BY <1>1, <1>8
  <2>2. \/ ds[d].pc = cs[d].pc /\ ds[d].next = cs[d].next
        \/ cs[d].up = "live" /\ ds[d].pc = "closing" /\ ds[d].next = "end"
    BY <1>5
  <2>3. \/ /\ ds[d].up = cs[d].up /\ ds[d].pc = cs[d].pc
           /\ cs[d].up = "live" => cs[d].bound \notin ToAbort(m, x)
        \/ cs[d].up = "live" /\ ds[d].up = "gone" /\ cs[d].bound \in ToAbort(m, x)
    BY <1>5, <1>9
  <2>4. /\ ds[d] \in Tasks /\ ds[d].host = cs[d].host /\ ds[d].tunnel = cs[d].tunnel
        /\ ds[d].passed = cs[d].passed /\ ds[d].keep = cs[d].keep /\ ds[d].bound = cs[d].bound
    BY <1>5 DEF SameBut
  <2>5. /\ x.next = m.next /\ x.open \subseteq m.open
        /\ m.open \cup m.closing \subseteq x.open \cup x.closing
        /\ \A j \in Ids : x.rec[j].route = m.rec[j].route
    BY <1>8, <1>9
  <2>6. QED BY ONLY <2>1, <2>2, <2>3, <2>4, <2>5, TailTaskOK
<1>12. ASSUME NEW j \in Ids PROVE RecordOK(j, x, ds, op, fi)
  <2>1. /\ Tells(j, m, fi)
        /\ m.rec[j].status = "open" => \E d \in Clients : cs[d].tunnel = j
        /\ j >= m.next => fi[j] = {} /\ m.okStatus[j] = "ok"
    BY <1>1, RecordParts
  <2>2. x.rec[j].status = m.rec[j].status \/ x.rec[j].status \in {"budget", "tunnel_cap"}
    <3>1. w.rec[j].status = m.rec[j].status \/ w.rec[j].status \in {"budget", "tunnel_cap"}
      BY <1>3 DEF Cuts
    <3>2. QED BY <1>8, <3>1
  <2>3. x.rec[j].route = "socks5" /\ x.rec[j].status \in SetupFailures => AllNegotiation(x.rec[j])
    <3> SUFFICES ASSUME x.rec[j].route = "socks5", x.rec[j].status \in SetupFailures
                 PROVE  AllNegotiation(w.rec[j])
      BY <1>8
    <3>1. x.rec[j].status = m.rec[j].status BY <2>2 DEF SetupFailures
    <3>2. AllNegotiation(m.rec[j]) BY <1>8, <2>1, <3>1 DEF Tells
    <3>3. j # i
      <4>1. m.rec[i].status = "open" \/ m.rec[i].route # "socks5" BY <1>1, <1>2 DEF Books
      <4>2. m.rec[j].status # "open" /\ m.rec[j].route = "socks5" BY <1>8, <3>1 DEF SetupFailures
      <4>3. QED BY <4>1, <4>2
    <3>4. QED BY <1>3, <3>2, <3>3 DEF Cuts, AllNegotiation
  <2>4. Tells(j, x, fi) BY <1>8, <2>1, <2>2, <2>3 DEF Tells, Normal
  <2>5. x.rec[j].status = "open" => \E d \in Clients : ds[d].tunnel = j
    <3>1. \A d \in Clients : ds[d].tunnel = cs[d].tunnel BY <1>5 DEF SameBut
    <3>2. x.rec[j].status = "open" => m.rec[j].status = "open" BY <2>2
    <3>3. QED BY <2>1, <3>1, <3>2
  <2>6. QED BY <1>8, <2>1, <2>4, <2>5, RecordParts
<1>13. WaitingIn(ds) = WaitingIn(cs)
  <2>1. ASSUME NEW d \in Clients PROVE Waits(ds[d]) <=> Waits(cs[d])
    <3>1. TaskOK(d, cs[d], m, op, fi) /\ cs[d] \in Tasks /\ Books(m) BY <1>1
    <3>2. cs[d].up = "live" => ~Waits(cs[d]) BY ONLY <3>1, LiveFacts
    <3>3. CASE ds[d].pc = cs[d].pc /\ ds[d].next = cs[d].next BY <3>3 DEF Waits
    <3>4. CASE cs[d].up = "live" /\ ds[d].pc = "closing" /\ ds[d].next = "end"
      BY <3>2, <3>4 DEF Waits
    <3>5. QED BY <1>5, <3>3, <3>4
  <2>2. QED BY <2>1 DEF WaitingIn, Waits
<1>14. HasRoom(x, ds) BY <1>1, <1>8, <1>13 DEF HasRoom
<1>15. Late(x, ds, op, TripMark(m, w, at))
  <2>1. CASE w.tripped /\ ~m.tripped
    <3>1. TripMark(m, w, at) = m.next BY <1>4, <2>1 DEF TripMark
    <3>2. \A j \in Ids : ~(j >= m.next /\ j < m.next) BY <1>1 DEF Ids
    <3>3. QED BY <1>8, <2>1, <3>1, <3>2 DEF Late
  <2>2. CASE ~(w.tripped /\ ~m.tripped)
    <3>1. TripMark(m, w, at) = at BY <2>2 DEF TripMark
    <3>2. m.tripped => w.tripped BY <1>3 DEF Cuts
    <3>3. QED BY <1>1, <1>8, <1>13, <3>1, <3>2 DEF Late
  <2>3. QED BY <2>1, <2>2
<1>16. TripMark(m, w, at) \in 0 .. (MaxRecords + 1)
  <2>1. w.next \in 1 .. (MaxRecords + 1) BY <1>3 DEF Books, Meters
  <2>2. QED BY <1>1, <2>1, MeterAssumption DEF TripMark
<1>17. ds \in [Clients -> Tasks]
  <2>1. ds = [d \in Clients |-> ds[d]] BY DEF AfterTail
  <2>2. QED BY <1>5, <2>1
<1>18. QED BY <1>1, <1>8, <1>11, <1>12, <1>14, <1>15, <1>16, <1>17 DEF Sound

\* Settle is the aborts of what the meter closed and the tail of the tasks.
LEMMA SettleParts ==
  ASSUME NEW m, NEW w, NEW es, NEW held \in [Ids -> Nat], Settle(m, w, es, held)
  PROVE  /\ meter' = AbortAll(w, CutOff(es, ToAbort(m, w)), es, held)
         /\ conn' = AfterTail(es, ToAbort(m, w))
         /\ atTrip' = TripMark(m, w, atTrip)
         /\ unsent' \in [Ids -> Nat]
<1>1. conn' = AfterTail(es, ToAbort(m, w)) BY DEF Settle, AfterTail, CutOff
<1>2. meter' = AbortAll(w, CutOff(es, ToAbort(m, w)), es, held) BY DEF Settle, CutOff
<1>3. atTrip' = TripMark(m, w, atTrip) BY DEF Settle, TripMark
<1>4. unsent' \in [Ids -> Nat] BY DEF Settle
<1>5. QED BY <1>1, <1>2, <1>3, <1>4

\* The task once it has written, if the tunnel is still open then.
Wrote(t, pc) == [t EXCEPT !.pc = pc, !.next = "end"]

\* Writes: when the state before the count, with the task already gone on, is sound,
\* so is the state after it, whatever the count closes.
LEMMA WritesSound ==
  ASSUME NEW c \in Clients, NEW t, t \in Tasks, NEW m, NEW neg \in Nat,
         NEW pc \in {"negotiating", "relaying", "exchanging"},
         NEW op, NEW fi, conn \in [Clients -> Tasks], unsent \in [Ids -> Nat],
         NEW cs, cs = [conn EXCEPT ![c] = Wrote(t, pc)],
         Sound(m, cs, op, fi, atTrip),
         Writes(c, t, m, neg, pc)
  PROVE  Sound(meter', conn', op, fi, atTrip') /\ unsent' \in [Ids -> Nat]
<1> DEFINE i == t.bound
           w == AddSent(m, i, 1, neg)
<1>1. /\ Books(m) /\ Below(m) /\ cs \in [Clients -> Tasks] /\ cs[c] = Wrote(t, pc)
      /\ TaskOK(c, Wrote(t, pc), m, op, fi)
      /\ \A j \in Ids : RecordOK(j, m, cs, op, fi)
  <2>1. cs[c] = Wrote(t, pc) OBVIOUS
  <2>2. QED BY <2>1 DEF Sound
<1>2. /\ Wrote(t, pc) \in Tasks /\ Wrote(t, pc).pc = pc /\ Wrote(t, pc).next = "end"
      /\ Wrote(t, pc).tunnel = t.tunnel /\ Wrote(t, pc).bound = t.bound
      /\ Wrote(t, pc).up = t.up /\ Wrote(t, pc).charged = t.charged
      /\ Wrote(t, pc).host = t.host /\ Wrote(t, pc).keep = t.keep
      /\ Wrote(t, pc).passed = t.passed
  BY DEF Wrote, Tasks
<1>3. i = t.tunnel /\ i \in Ids /\ i < m.next
  <2>1. Stands(Wrote(t, pc), m, fi) /\ Owns(c, Wrote(t, pc), m, op, fi) BY <1>1 DEF TaskOK
  <2>2. t.tunnel # 0 /\ t.bound = t.tunnel BY <1>2, <2>1 DEF Stands
  <2>3. t.tunnel < m.next BY <1>2, <2>1, <2>2 DEF Owns
  <2>4. t.tunnel \in 0 .. MaxRecords BY DEF Tasks
  <2>5. QED BY <2>2, <2>3, <2>4, MeterAssumption DEF Ids
<1>4. CASE t.up # "live" /\ Goes(c, [t EXCEPT !.pc = IF i \in m.closing THEN "closing" ELSE pc,
                                              !.next = "end"], m)
           /\ UNCHANGED <<unsent, atTrip>>
  <2>1. CASE i \notin m.closing
    <3>1. meter' = m /\ conn' = cs BY <1>4, <2>1 DEF Goes, Wrote
    <3>2. QED BY <1>4, <3>1
  <2>2. CASE i \in m.closing
    <3> DEFINE u == [t EXCEPT !.pc = "closing", !.next = "end"]
    <3>1. u = [Wrote(t, pc) EXCEPT !.pc = "closing"] BY DEF Wrote, Tasks
    <3>2. /\ u \in Tasks /\ u.pc = "closing" /\ u.next = "end" /\ u.tunnel = t.tunnel
          /\ u.host = t.host /\ u.up = t.up /\ u.keep = t.keep /\ u.passed = t.passed
      BY DEF Tasks
    <3>3. meter' = m /\ conn' = [conn EXCEPT ![c] = u] BY <1>4, <2>2 DEF Goes
    <3> HIDE DEF u
    <3>4. conn' = [cs EXCEPT ![c] = u] BY <3>3
    <3>5. t.tunnel \notin m.open BY <1>1, <1>3, <2>2 DEF Books
    <3>6. Owns(c, u, m, op, fi) BY <1>1, <1>2, <3>2 DEF TaskOK, Owns
    <3>7. Connected(u, m) BY <1>4, <3>2 DEF Connected
    <3>8. Stands(u, m, fi)
      <4>1. t.keep => t.tunnel # 0 BY <1>1, <1>2 DEF TaskOK, Stands
      <4>2. QED BY <3>2, <3>5, <4>1 DEF Stands
    <3>9. TaskOK(c, u, m, op, fi) BY <3>6, <3>7, <3>8 DEF TaskOK
    <3>10. Touch(m, m, t.tunnel) BY <1>1, TouchNothing
    <3>11. Tells(t.tunnel, m, fi) BY <1>1, <1>3, RecordParts
    <3>12. ~Waits(u) BY <3>2 DEF Waits
    <3>13. cs[c].tunnel = t.tunnel /\ fi \in [Ids -> SUBSET {"407", "other"}]
      BY <1>1, <1>2 DEF Sound
    <3>14. Sound(m, conn', op, fi, atTrip)
      BY ONLY Sound(m, cs, op, fi, atTrip), c \in Clients, <3>2, <3>4, <3>9, <3>10, <3>11, <3>12,
              <3>13, StepSound
    <3>15. QED BY <1>4, <3>3, <3>14
  <2>3. QED BY <2>1, <2>2
<1>5. CASE t.up = "live" /\ i \in m.closing
  <2>1. t.tunnel \in m.open BY <1>1, <1>2, <1>5 DEF TaskOK, Connected
  <2>2. QED BY <1>1, <1>3, <1>5, <2>1 DEF Books
<1>6. ASSUME t.up = "live", i \notin m.closing, NEW k \in {0, 1},
             Settle(m, w, [conn EXCEPT ![c] = [t EXCEPT !.pc = IF i \in w.closing THEN "closing" ELSE pc,
                                                        !.next = "end"]],
                    [unsent EXCEPT ![i] = @ + 1 - k])
      PROVE  Sound(meter', conn', op, fi, atTrip') /\ unsent' \in [Ids -> Nat]
  <2> DEFINE u == [t EXCEPT !.pc = IF i \in w.closing THEN "closing" ELSE pc, !.next = "end"]
             es == [conn EXCEPT ![c] = u]
             held == [unsent EXCEPT ![i] = @ + 1 - k]
             dead == ToAbort(m, w)
  <2>1. held \in [Ids -> Nat]
    <3>1. unsent[i] + 1 - k \in Nat BY <1>3
    <3>2. QED BY <3>1
  <2>2. w = Add(m, i, 1, 0, neg) BY DEF AddSent
  <2>3. u \in Tasks /\ u = (IF i \in w.closing THEN [Wrote(t, pc) EXCEPT !.pc = "closing", !.next = "end"]
                            ELSE Wrote(t, pc))
    BY DEF Wrote, Tasks
  <2>4. Settle(m, w, es, held) BY <1>6
  <2>5. i \in w.closing => i \in dead BY <1>6 DEF ToAbort
  <2> HIDE DEF u, w, i, held, dead
  <2>6. es \in [Clients -> Tasks] BY <2>3
  <2>7. Follows(cs, es, dead)
    <3>1. \A d \in Clients \ {c} : es[d] = cs[d] OBVIOUS
    <3>2. es[c] = u BY <2>3
    <3>3. CASE i \notin w.closing BY <1>1, <2>3, <3>1, <3>2, <3>3 DEF Follows
    <3>4. CASE i \in w.closing
      <4>1. es[c] = [cs[c] EXCEPT !.pc = "closing", !.next = "end"] BY <1>1, <2>3, <3>2, <3>4
      <4>2. cs[c].up = "live" /\ cs[c].bound \in dead BY <1>1, <1>2, <1>6, <2>5, <3>4 DEF i
      <4>3. QED BY <3>1, <4>1, <4>2 DEF Follows
    <3>5. QED BY <3>3, <3>4
  <2>8. cs[c].up = "live" /\ cs[c].bound = i BY <1>1, <1>2, <1>6 DEF i
  <2> HIDE DEF es
  <2>9. /\ meter' = AbortAll(w, CutOff(es, dead), es, held)
        /\ conn' = AfterTail(es, dead)
        /\ atTrip' = TripMark(m, w, atTrip)
        /\ unsent' \in [Ids -> Nat]
    BY <2>1, <2>4, SettleParts DEF dead
  <2>10. dead = ToAbort(m, w) BY DEF dead
  <2>11. 1 \in Nat /\ 0 \in Nat OBVIOUS
  <2>12. Sound(meter', conn', op, fi, TripMark(m, w, atTrip))
    BY ONLY Sound(m, cs, op, fi, atTrip), c \in Clients, neg \in Nat, <2>1, <2>2, <2>6, <2>7, <2>8,
            <2>9, <2>10, <2>11, SettleSound
  <2>13. QED BY <2>9, <2>12
<1>7. QED BY <1>4, <1>5, <1>6 DEF Writes

-----------------------------------------------------------------------------
(* The states a task may be in after a step.                               *)

\* No connection is a task that is done and owns nothing.
LEMMA NoConnType ==
  NoConn \in Tasks /\ NoConn.tunnel = 0 /\ ~NoConn.keep /\ NoConn.up = "none"
  /\ NoConn.pc = "done" /\ NoConn.next = "end"
<1>1. (CHOOSE k \in Kinds : TRUE) \in Kinds /\ (CHOOSE h \in Hosts : TRUE) \in Hosts
  BY RelayAssumption
<1>2. 0 \in 0 .. MaxRecords BY MeterAssumption
<1>3. QED BY <1>1, <1>2 DEF NoConn, Tasks

\* A task that ended owns nothing.
LEMMA EndedType ==
  ASSUME NEW t \in Tasks
  PROVE  /\ Ended(t) \in Tasks /\ Ended(t).tunnel = 0 /\ ~Ended(t).keep /\ Ended(t).up = t.up
         /\ Ended(t).pc = "done" /\ Ended(t).next = "end"
<1>1. t.up \in {"none", "live", "lost", "gone"} /\ t.charged \in SUBSET Ids BY DEF Tasks
<1>2. QED BY <1>1, NoConnType DEF Ended, Tasks

\* A task that was aborted is where it was, without its socket.
LEMMA AbortedType ==
  ASSUME NEW t \in Tasks
  PROVE  /\ Aborted(t) \in Tasks /\ SameBut(t, Aborted(t))
         /\ Aborted(t).pc = t.pc /\ Aborted(t).next = t.next
         /\ Aborted(t).up # "live" /\ (t.up # "live" => Aborted(t).up = t.up)
BY DEF Aborted, Tasks, SameBut

\* It has no tunnel.
Free(t) ==
  /\ t.tunnel = 0 /\ ~t.keep /\ t.up # "live"
  /\ t.pc \in {"done", "reading", "closing", "lingering"}

\* A task that owns nothing may be anywhere.
LEMMA FreeOK ==
  ASSUME NEW c, NEW t, Free(t), Waits(t) => RouteOf[t.host] # "denied",
         NEW w, Books(w), NEW op, NEW fi
  PROVE  TaskOK(c, t, w, op, fi)
<1>1. 0 \notin w.open BY DEF Books, Meters, Ids
<1>2. QED BY <1>1 DEF Free, Waits, TaskOK, Owns, Connected, Stands

\* Its tunnel is closed and the reply goes out, or the connection ends.
LEMMA HeldOK ==
  ASSUME NEW m, NEW c, NEW t, NEW op, NEW fi, TaskOK(c, t, m, op, fi), t.tunnel \in Ids,
         NEW w, Touch(m, w, t.tunnel), w.rec[t.tunnel].status # "open",
         NEW u, u.host = t.host, u.tunnel = t.tunnel, u.passed = t.passed,
         u.pc \in {"lingering", "closing"}, u.pc = "closing" => u.next = "end",
         u.up = "live" => /\ u.pc = "lingering" /\ u.bound = t.tunnel
                          /\ RouteOf[t.host] # "socks5"
  PROVE  TaskOK(c, u, w, op, fi) /\ ~Waits(u)
<1>1. Books(w) /\ w.next = m.next /\ w.rec[t.tunnel].route = m.rec[t.tunnel].route
      /\ m.open \cup m.closing \subseteq w.open \cup w.closing
  BY DEF Touch
<1>2. t.tunnel \notin w.open /\ t.tunnel # 0 BY <1>1 DEF Books, Ids
<1>3. Owns(c, u, w, op, fi) BY <1>1 DEF TaskOK, Owns
<1>4. Connected(u, w) BY <1>2 DEF Connected
<1>5. Stands(u, w, fi) BY <1>2 DEF Stands
<1>6. QED BY <1>3, <1>4, <1>5 DEF TaskOK, Waits

\* It waits on, with its connection as it was, or aborted, or lost.
LEMMA StaysOK ==
  ASSUME NEW m, Books(m), NEW c, NEW t, t \in Tasks, NEW op, NEW fi, TaskOK(c, t, m, op, fi),
         NEW w, Touch(m, w, t.tunnel),
         NEW u, SameBut(t, u), u.pc = t.pc, u.next = t.next,
         \/ u.up = t.up /\ (t.tunnel \in m.open => t.tunnel \in w.open)
         \/ u.up # "live" /\ (t.up # "live" => u.up = t.up)
  PROVE  TaskOK(c, u, w, op, fi)
<1>1. Books(w) /\ w.next = m.next /\ m.open \cup m.closing \subseteq w.open \cup w.closing
      /\ (\A j \in Ids : w.rec[j].route = m.rec[j].route)
      /\ (\A j \in Ids : w.rec[j].status = "open" => m.rec[j].status = "open")
  BY DEF Touch
<1>2. t.tunnel # 0 => t.tunnel \in Ids BY MeterAssumption DEF Tasks, Ids
<1>3. t.tunnel \in w.open => t.tunnel \in m.open
  <2>1. 0 \notin w.open BY <1>1 DEF Books, Meters, Ids
  <2>2. QED BY <1>1, <1>2, <2>1 DEF Books
<1>4. Owns(c, u, w, op, fi) BY <1>1, <1>2 DEF TaskOK, Owns, SameBut
<1>5. Connected(u, w) BY DEF TaskOK, Connected, SameBut
<1>6. Stands(u, w, fi)
  <2>1. t.pc = "connecting" => u.up = "none" BY DEF TaskOK, Stands
  <2>2. QED BY <1>3, <2>1 DEF TaskOK, Stands, SameBut
<1>7. QED BY <1>4, <1>5, <1>6 DEF TaskOK

-----------------------------------------------------------------------------
(* The actions.                                                            *)

\* What the invariant says of one task and its record.
LEMMA TaskFacts ==
  ASSUME RelayInv, NEW c \in Clients, NEW t, t = conn[c]
  PROVE  /\ Books(meter) /\ Below(meter) /\ meter \in Meters /\ conn \in [Clients -> Tasks]
         /\ finals \in [Ids -> SUBSET {"407", "other"}]
         /\ unsent \in [Ids -> Nat]
         /\ t \in Tasks /\ TaskOK(c, t, meter, opened, finals)
         /\ t.tunnel # 0 => /\ t.tunnel \in Ids /\ t.tunnel < meter.next
                            /\ Tells(t.tunnel, meter, finals)
                            /\ meter.rec[t.tunnel].route = RouteOf[t.host]
         /\ t.tunnel \in meter.open => t.tunnel \in Ids
         /\ \A j \in Ids : j \in meter.open <=> meter.rec[j].status = "open"
<1>1. /\ Books(meter) /\ Below(meter) /\ conn \in [Clients -> Tasks]
      /\ finals \in [Ids -> SUBSET {"407", "other"}]
      /\ \A d \in Clients : TaskOK(d, conn[d], meter, opened, finals)
      /\ \A j \in Ids : RecordOK(j, meter, conn, opened, finals)
      /\ unsent \in [Ids -> Nat]
  BY DEF RelayInv, Sound
<1>2. t \in Tasks /\ TaskOK(c, t, meter, opened, finals) BY <1>1
<1>3. t.tunnel # 0 => t.tunnel \in Ids BY <1>2, MeterAssumption DEF Tasks, Ids
<1>4. t.tunnel # 0 => t.tunnel < meter.next /\ meter.rec[t.tunnel].route = RouteOf[t.host]
  BY <1>2 DEF TaskOK, Owns
<1>5. t.tunnel # 0 => Tells(t.tunnel, meter, finals) BY <1>1, <1>3, RecordParts
<1>6. meter \in Meters /\ \A j \in Ids : j \in meter.open <=> meter.rec[j].status = "open"
  BY <1>1 DEF Books
<1>7. t.tunnel \in meter.open => t.tunnel \in Ids BY <1>6 DEF Meters
<1>8. QED BY <1>1, <1>2, <1>3, <1>4, <1>5, <1>6, <1>7

\* Calls of the meter about the task's own record, if it has one.
Does(w, i) == Touch(meter, w, i) /\ (i # 0 => Tells(i, w, finals))

\* One task goes on: what it did to the meter concerns its own tunnel, and nobody else moves.
LEMMA GoesSound ==
  ASSUME RelayInv, NEW c \in Clients, NEW t, t \in Tasks, NEW w, Goes(c, t, w),
         Does(w, conn[c].tunnel), TaskOK(c, t, w, opened, finals),
         conn[c].tunnel # 0 /\ w.rec[conn[c].tunnel].status = "open" => t.tunnel = conn[c].tunnel,
         Waits(t) => Waits(conn[c]) \/ (~meter.tripped /\ Room),
         opened' = opened, finals' = finals, atTrip' = atTrip, unsent' \in [Ids -> Nat]
  PROVE  RelayInv'
<1>1. meter' = w /\ conn' = [conn EXCEPT ![c] = t] BY DEF Goes
<1>2. Sound(meter, conn, opened, finals, atTrip) BY DEF RelayInv
<1>3. finals \in [Ids -> SUBSET {"407", "other"}] BY <1>2 DEF Sound
<1>4. Waits(t) => Waits(conn[c]) \/ (~meter.tripped /\ meter.next + Cardinality(WaitingIn(conn)) \in Ids)
  BY DEF Room, Waiting, WaitingIn
<1>5. /\ Touch(meter, w, conn[c].tunnel)
      /\ conn[c].tunnel # 0 => /\ Tells(conn[c].tunnel, w, finals)
                               /\ w.rec[conn[c].tunnel].status = "open" => t.tunnel = conn[c].tunnel
  BY DEF Does
<1>6. Sound(w, conn', opened, finals, atTrip)
  BY ONLY <1>1, <1>2, <1>3, <1>4, <1>5, c \in Clients, t \in Tasks,
          TaskOK(c, t, w, opened, finals), StepSound
<1>7. QED BY <1>1, <1>6 DEF RelayInv

\* No call of the meter is a call that concerns only that tunnel.
LEMMA DoesNothing ==
  ASSUME RelayInv, NEW c \in Clients
  PROVE  Does(meter, conn[c].tunnel)
<1>1. PICK t : t = conn[c] OBVIOUS
<1>2. Books(meter) /\ Below(meter) /\ (t.tunnel # 0 => Tells(t.tunnel, meter, finals))
  BY <1>1, TaskFacts
<1>3. Touch(meter, meter, t.tunnel) BY <1>2, TouchNothing
<1>4. QED BY <1>1, <1>2, <1>3 DEF Does

\* The upstream connection's own discard, before or after another call.
LEMMA AbortDoes ==
  ASSUME RelayInv, NEW c \in Clients, NEW m, Does(m, conn[c].tunnel)
  PROVE  /\ Does(AbortUp(m, conn[c]), conn[c].tunnel)
         /\ AbortUp(m, conn[c]).rec[conn[c].tunnel].status = m.rec[conn[c].tunnel].status
<1>1. PICK t : t = conn[c] OBVIOUS
<1>2. PICK w : w = AbortUp(m, t) OBVIOUS
<1>3. CASE t.up # "live" BY <1>1, <1>2, <1>3 DEF AbortUp
<1>4. CASE t.up = "live"
  <2>1. Books(meter) /\ t \in Tasks /\ TaskOK(c, t, meter, opened, finals) /\ unsent \in [Ids -> Nat]
    BY <1>1, TaskFacts
  <2>2. t.bound = t.tunnel /\ t.tunnel \in Ids /\ t.tunnel < meter.next /\ t.charged \in SUBSET Ids
    BY <1>4, <2>1, LiveFacts
  <2>3. Buffered(unsent, t) \in Nat BY <2>1, <2>2, BufferedType
  <2>4. w = DiscardSent(m, t.tunnel, Buffered(unsent, t)) BY <1>2, <1>4, <2>2 DEF AbortUp
  <2>5. /\ Touch(meter, m, t.tunnel) /\ Books(m) /\ Below(m) /\ t.tunnel < m.next
        /\ Tells(t.tunnel, m, finals)
    BY <1>1, <2>2 DEF Does, Touch, Ids
  <2>6. Touch(m, w, t.tunnel) /\ w.rec[t.tunnel].status = m.rec[t.tunnel].status
    BY <2>2, <2>3, <2>4, <2>5, DiscardTouches
  <2>7. Tells(t.tunnel, w, finals) BY <2>2, <2>3, <2>4, <2>5, DiscardTells
  <2>8. Touch(meter, w, t.tunnel) BY <2>5, <2>6, TouchTwice
  <2>9. QED BY <1>1, <1>2, <2>6, <2>7, <2>8 DEF Does
<1>5. QED BY <1>3, <1>4

\* _finish_locked with a status that says how a relay or an exchange ended.
LEMMA FinishDoes ==
  ASSUME RelayInv, NEW c \in Clients, conn[c].tunnel # 0,
         NEW m, Does(m, conn[c].tunnel),
         NEW status \in {"ok", "failed:upstream_reset", "failed:upstream_closed"}
  PROVE  /\ Does(Finish(m, conn[c].tunnel, status), conn[c].tunnel)
         /\ Finish(m, conn[c].tunnel, status).rec[conn[c].tunnel].status # "open"
<1>1. PICK i : i = conn[c].tunnel OBVIOUS
<1>2. PICK w : w = Finish(m, i, status) OBVIOUS
<1>3. i \in Ids /\ i < meter.next BY <1>1, TaskFacts
<1>4. Touch(meter, m, i) /\ Books(m) /\ Below(m) /\ i < m.next /\ Tells(i, m, finals)
  BY <1>1, <1>3 DEF Does, Touch, Ids
<1>5. status \in {"ok"} \cup Failures /\ status \notin SetupFailures
      /\ status # "failed:upstream_status"
  BY DEF Failures, SetupFailures
<1>6. Touch(m, w, i) /\ w.rec[i].status # "open" BY <1>2, <1>3, <1>4, <1>5, FinishTouches
<1>7. Tells(i, w, finals) BY <1>2, <1>3, <1>4, <1>5, FinishTells
<1>8. Touch(meter, w, i) BY <1>4, <1>6, TouchTwice
<1>9. QED BY <1>1, <1>2, <1>6, <1>7, <1>8 DEF Does

\* mark_all_negotiation, then the status of a setup that failed.
LEMMA FailureDoes ==
  ASSUME RelayInv, NEW c \in Clients, conn[c].tunnel # 0, finals[conn[c].tunnel] = {},
         NEW m, Does(m, conn[c].tunnel),
         NEW status \in {"failed:setup", "failed:client_closed", "failed:upstream_status"},
         NEW w, w = Finish(MarkAllNegotiation(m, conn[c].tunnel), conn[c].tunnel, status)
  PROVE  Does(w, conn[c].tunnel) /\ w.rec[conn[c].tunnel].status # "open"
<1>1. PICK i : i = conn[c].tunnel OBVIOUS
<1>2. PICK a : a = MarkAllNegotiation(m, i) OBVIOUS
<1>3. i \in Ids /\ i < meter.next BY <1>1, TaskFacts
<1>4. Touch(meter, m, i) /\ Books(m) /\ Below(m) /\ i < m.next /\ Tells(i, m, finals)
  BY <1>1, <1>3 DEF Does, Touch, Ids
<1>5. /\ Touch(m, a, i) /\ a.rec[i].status = m.rec[i].status /\ a.okStatus = m.okStatus
      /\ AllNegotiation(a.rec[i])
  BY <1>2, <1>3, <1>4, MarkAllTouches
<1>6. Books(a) /\ Below(a) /\ i < a.next BY <1>4, <1>5 DEF Touch
<1>7. Tells(i, a, finals) BY <1>4, <1>5 DEF Tells
<1>8. status \in {"ok"} \cup Failures BY DEF Failures
<1>9. w = Finish(a, i, status) /\ finals[i] = {} BY <1>1, <1>2
<1>10. Touch(a, w, i) /\ w.rec[i].status # "open" BY <1>3, <1>6, <1>8, <1>9, FinishTouches
<1>11. Tells(i, w, finals) BY <1>3, <1>5, <1>6, <1>7, <1>8, <1>9, FinishTells
<1>12. Touch(meter, w, i)
  <2>1. Touch(meter, a, i) BY <1>4, <1>5, TouchTwice
  <2>2. QED BY <2>1, <1>10, TouchTwice
<1>13. QED BY <1>1, <1>10, <1>11, <1>12 DEF Does

\* The steps after which the task has no tunnel: a close, the end.
LEMMA ClosesSound ==
  ASSUME RelayInv, NEW c \in Clients, NEW t, t \in Tasks, NEW m, Does(m, conn[c].tunnel),
         conn[c].tunnel # 0 => m.rec[conn[c].tunnel].status # "open",
         NEW next \in {"open", "read", "refuse", "end", "linger"},
         next = "open" => ~meter.tripped /\ Room /\ RouteOf[t.host] # "denied",
         Closes(c, t, m, next),
         opened' = opened, finals' = finals, atTrip' = atTrip
  PROVE  RelayInv'
<1> DEFINE u == [t EXCEPT !.pc = "closing", !.next = next, !.keep = FALSE, !.tunnel = 0,
                          !.up = "gone", !.charged = {}]
<1>1. Goes(c, u, m) /\ unsent' = Emptied(unsent, t) BY DEF Closes
<1>2. u \in Tasks /\ Free(u) /\ u.next = next /\ u.host = t.host
  <2>1. 0 \in 0 .. MaxRecords BY MeterAssumption
  <2>2. QED BY <2>1 DEF Tasks, Free
<1>3. unsent' \in [Ids -> Nat]
  <2>1. unsent \in [Ids -> Nat] BY DEF RelayInv
  <2>2. QED BY <1>1, <2>1 DEF Emptied
<1> HIDE DEF u
<1>4. Books(m) BY DEF Does, Touch
<1>5. Waits(u) => ~meter.tripped /\ Room /\ RouteOf[u.host] # "denied" BY <1>2 DEF Waits
<1>6. TaskOK(c, u, m, opened, finals) BY <1>2, <1>4, <1>5, FreeOK
<1>7. QED BY <1>1, <1>2, <1>3, <1>5, <1>6, GoesSound

\* A task lets go of a tunnel that is finished.
LEMMA FreedSound ==
  ASSUME RelayInv, NEW c \in Clients, NEW t, t \in Tasks, Free(t), ~Waits(t),
         conn[c].tunnel # 0 => meter.rec[conn[c].tunnel].status # "open",
         Goes(c, t, meter), unsent' = unsent,
         opened' = opened, finals' = finals, atTrip' = atTrip
  PROVE  RelayInv'
<1>1. Books(meter) /\ unsent \in [Ids -> Nat] BY DEF RelayInv, Sound
<1>2. TaskOK(c, t, meter, opened, finals) BY <1>1, FreeOK
<1>3. Does(meter, conn[c].tunnel) BY DoesNothing
<1>4. QED BY <1>1, <1>2, <1>3, GoesSound

\* A tunnel that is closing is not open any more.
LEMMA ClosingNotOpen ==
  ASSUME RelayInv, NEW i \in meter.closing
  PROVE  i \in Ids /\ i \notin meter.open /\ meter.rec[i].status # "open"
<1>1. Books(meter) BY DEF RelayInv, Sound
<1>2. i \in Ids BY <1>1 DEF Books, Meters
<1>3. QED BY <1>1, <1>2 DEF Books

\* A client connects: _handle_client.
LEMMA AcceptInv ==
  ASSUME RelayInv, NEW c \in Clients, Accept(c)
  PROVE  RelayInv'
<1> DEFINE t == [NoConn EXCEPT !.pc = "reading", !.sock = "open"]
<1>1. t \in Tasks /\ Free(t) /\ ~Waits(t) BY NoConnType DEF Tasks, Free, Waits
<1>2. conn[c].tunnel = 0
  <2>1. TaskOK(c, conn[c], meter, opened, finals) BY TaskFacts
  <2>2. QED BY <2>1 DEF TaskOK, Stands, Accept
<1>3. Goes(c, t, meter) BY DEF Goes, Accept
<1> HIDE DEF t
<1>4. unsent' = unsent /\ opened' = opened /\ finals' = finals /\ atTrip' = atTrip BY DEF Accept
<1>5. QED BY <1>1, <1>2, <1>3, <1>4, FreedSound

\* A close or abort that a task awaited is through.
LEMMA ClosedInv ==
  ASSUME RelayInv, NEW c \in Clients, Closed(c)
  PROVE  RelayInv'
<1> DEFINE t == conn[c]
           u == IF t.next = "end" THEN Ended(t)
                ELSE [t EXCEPT !.pc = IF t.next = "read" THEN "reading" ELSE "lingering", !.next = "end"]
<1>1. t \in Tasks /\ TaskOK(c, t, meter, opened, finals)
      /\ (t.tunnel # 0 => t.tunnel \in Ids)
      /\ (\A j \in Ids : j \in meter.open <=> meter.rec[j].status = "open")
  BY TaskFacts
<1>2. t.pc = "closing" /\ t.next # "open" /\ Goes(c, u, meter)
      /\ unsent' = unsent /\ opened' = opened /\ finals' = finals /\ atTrip' = atTrip
  BY DEF Closed
<1> HIDE DEF t
<1>3. t.up # "live" BY <1>1, <1>2 DEF TaskOK, Connected
<1>4. t.tunnel \notin meter.open BY <1>1, <1>2 DEF TaskOK, Stands
<1>5. u \in Tasks /\ Free(u) /\ ~Waits(u)
  <2>1. CASE t.next = "end" BY <1>1, <1>3, <2>1, EndedType DEF Free, Waits
  <2>2. CASE t.next # "end"
    <3>1. t.tunnel = 0 /\ ~t.keep BY <1>1, <1>2, <2>2 DEF TaskOK, Stands
    <3>2. QED BY <1>1, <1>3, <2>2, <3>1, ZenonT(60) DEF Free, Waits, Tasks
  <2>3. QED BY <2>1, <2>2
<1>6. t.tunnel # 0 => meter.rec[t.tunnel].status # "open" BY <1>1, <1>4
<1> HIDE DEF u
<1>7. QED BY <1>2, <1>5, <1>6, FreedSound DEF t

\* A failed CONNECT has lingered.
LEMMA LingeredInv ==
  ASSUME RelayInv, NEW c \in Clients, Lingered(c)
  PROVE  RelayInv'
<1> DEFINE t == conn[c]
<1>1. t \in Tasks /\ TaskOK(c, t, meter, opened, finals)
      /\ (t.tunnel # 0 => t.tunnel \in Ids)
      /\ (\A j \in Ids : j \in meter.open <=> meter.rec[j].status = "open")
  BY TaskFacts
<1>2. t.pc = "lingering" /\ opened' = opened /\ finals' = finals /\ atTrip' = atTrip
      /\ IF t.up \in {"live", "lost"} THEN Closes(c, t, meter, "end")
         ELSE Goes(c, Ended(t), meter) /\ unsent' = unsent
  BY DEF Lingered
<1> HIDE DEF t
<1>3. t.tunnel \notin meter.open BY <1>1, <1>2 DEF TaskOK, Stands
<1>4. t.tunnel # 0 => meter.rec[t.tunnel].status # "open" BY <1>1, <1>3
<1>5. CASE t.up \in {"live", "lost"}
  <2>1. Does(meter, conn[c].tunnel) BY DoesNothing
  <2>2. Closes(c, t, meter, "end") BY <1>2, <1>5
  <2>3. QED BY <1>1, <1>2, <1>4, <2>1, <2>2, ClosesSound DEF t
<1>6. CASE t.up \notin {"live", "lost"}
  <2>1. Ended(t) \in Tasks /\ Free(Ended(t)) /\ ~Waits(Ended(t))
    BY <1>1, <1>6, EndedType DEF Free, Waits
  <2>2. Goes(c, Ended(t), meter) /\ unsent' = unsent BY <1>2, <1>6
  <2>3. QED BY <1>2, <1>4, <2>1, <2>2, FreedSound DEF t
<1>7. QED BY <1>5, <1>6

\* The connection to the upstream comes after the tunnel was closed.
LEMMA ConnectsTooLateInv ==
  ASSUME RelayInv, NEW c \in Clients, ConnectsTooLate(c)
  PROVE  RelayInv'
<1>1. PICK t : t = conn[c] OBVIOUS
<1>2. t \in Tasks /\ TaskOK(c, t, meter, opened, finals) BY <1>1, TaskFacts
<1>3. t.pc = "connecting" /\ t.tunnel \in meter.closing /\ Goes(c, Ended(t), meter)
      /\ unsent' = unsent /\ opened' = opened /\ finals' = finals /\ atTrip' = atTrip
  BY <1>1 DEF ConnectsTooLate
<1>4. t.up = "none" BY <1>2, <1>3 DEF TaskOK, Stands
<1>5. Ended(t) \in Tasks /\ Free(Ended(t)) /\ ~Waits(Ended(t))
  BY <1>2, <1>4, EndedType DEF Free, Waits
<1>6. meter.rec[t.tunnel].status # "open" BY <1>3, ClosingNotOpen
<1>7. QED BY <1>1, <1>3, <1>5, <1>6, FreedSound

\* A task sees that its tunnel was closed under it.
LEMMA TunnelAbortedInv ==
  ASSUME RelayInv, NEW c \in Clients, TunnelAborted(c)
  PROVE  RelayInv'
<1>1. PICK t : t = conn[c] OBVIOUS
<1>2. t \in Tasks BY <1>1, TaskFacts
<1>3. t.tunnel \in meter.closing /\ Closes(c, [t EXCEPT !.sock = "gone"], meter, "end")
      /\ opened' = opened /\ finals' = finals /\ atTrip' = atTrip
  BY <1>1 DEF TunnelAborted
<1>4. [t EXCEPT !.sock = "gone"] \in Tasks BY <1>2 DEF Tasks
<1>5. meter.rec[t.tunnel].status # "open" BY <1>3, ClosingNotOpen
<1>6. Does(meter, conn[c].tunnel) BY DoesNothing
<1>7. QED BY <1>1, <1>3, <1>4, <1>5, <1>6, ClosesSound

\* _close_session on a session of the task's own tunnel.
LEMMA CloseSessionSound ==
  ASSUME RelayInv, NEW c \in Clients, NEW t, t \in Tasks,
         t.tunnel = conn[c].tunnel, t.tunnel # 0,
         NEW next \in {"open", "read", "refuse", "end", "linger"},
         next = "open" => ~meter.tripped /\ Room /\ RouteOf[t.host] # "denied",
         CloseSession(c, t, meter, next),
         opened' = opened, finals' = finals, atTrip' = atTrip
  PROVE  RelayInv'
<1>1. PICK f : f = Finish(meter, t.tunnel, "ok") OBVIOUS
<1>2. Does(meter, conn[c].tunnel) BY DoesNothing
<1>3. Does(f, conn[c].tunnel) /\ f.rec[conn[c].tunnel].status # "open" BY <1>1, <1>2, FinishDoes
<1>4. Closes(c, t, f, next) BY <1>1 DEF CloseSession
<1>5. QED BY <1>3, <1>4, ClosesSound

\* The task writes, after calls of the meter that leave its record open or not.
LEMMA WritesInv ==
  ASSUME RelayInv, NEW c \in Clients, NEW t, t \in Tasks, t.tunnel = conn[c].tunnel,
         NEW m, Does(m, conn[c].tunnel), NEW neg \in Nat,
         NEW pc \in {"negotiating", "relaying", "exchanging"},
         TaskOK(c, Wrote(t, pc), m, opened, finals),
         Writes(c, t, m, neg, pc), opened' = opened, finals' = finals
  PROVE  RelayInv'
<1>1. PICK cs : cs = [conn EXCEPT ![c] = Wrote(t, pc)] OBVIOUS
<1>2. PICK u : u = Wrote(t, pc) OBVIOUS
<1>3. u \in Tasks /\ ~Waits(u) /\ u.tunnel = conn[c].tunnel
  BY <1>2 DEF Wrote, Tasks, Waits
<1>4. /\ Sound(meter, conn, opened, finals, atTrip) /\ conn \in [Clients -> Tasks]
      /\ unsent \in [Ids -> Nat] /\ finals \in [Ids -> SUBSET {"407", "other"}]
  BY DEF RelayInv, Sound
<1>5. /\ Touch(meter, m, conn[c].tunnel)
      /\ conn[c].tunnel # 0 => Tells(conn[c].tunnel, m, finals)
  BY DEF Does
<1>6. TaskOK(c, u, m, opened, finals) /\ cs = [conn EXCEPT ![c] = u] BY <1>1, <1>2
<1>7. Sound(m, cs, opened, finals, atTrip)
  BY ONLY c \in Clients, <1>3, <1>4, <1>5, <1>6, StepSound
<1>8. Sound(meter', conn', opened, finals, atTrip') /\ unsent' \in [Ids -> Nat]
  BY ONLY c \in Clients, t \in Tasks, neg \in Nat,
          pc \in {"negotiating", "relaying", "exchanging"}, Writes(c, t, m, neg, pc),
          <1>1, <1>4, <1>7, WritesSound
<1>9. QED BY <1>8 DEF RelayInv

\* The task goes on with its tunnel, and with its connection while the tunnel is open.
LEMMA MovesOK ==
  ASSUME NEW m, Books(m), NEW c, NEW t, t \in Tasks, NEW op, NEW fi, TaskOK(c, t, m, op, fi),
         t.tunnel # 0, NEW w, Touch(m, w, t.tunnel),
         NEW u, u.host = t.host, u.tunnel = t.tunnel, u.passed = t.passed, u.bound = t.tunnel,
         u.pc \in {"negotiating", "relaying", "exchanging", "reading"},
         u.pc \in {"exchanging", "reading"} => u.keep,
         u.pc = "negotiating" => /\ ~u.keep /\ fi[t.tunnel] = {}
                                 /\ RouteOf[u.host] \in {"socks5", "http-connect"},
         u.up = "live" => t.tunnel \in w.open
  PROVE  TaskOK(c, u, w, op, fi) /\ ~Waits(u)
<1>1. /\ w.next = m.next /\ m.open \cup m.closing \subseteq w.open \cup w.closing
      /\ \A j \in Ids : w.rec[j].route = m.rec[j].route
  BY DEF Touch
<1>2. t.tunnel \in Ids BY DEF Tasks, Ids
<1>3. Owns(c, u, w, op, fi) BY <1>1, <1>2 DEF TaskOK, Owns
<1>4. Connected(u, w) BY DEF Connected
<1>5. Stands(u, w, fi) BY DEF Stands
<1>6. QED BY <1>3, <1>4, <1>5 DEF TaskOK, Waits

\* mark_negotiation_received.
LEMMA MarkReceivedDoes ==
  ASSUME RelayInv, NEW c \in Clients, conn[c].tunnel # 0, NEW n \in Nat,
         NEW w, w = MarkNegotiationReceived(meter, conn[c].tunnel, n)
  PROVE  /\ Does(w, conn[c].tunnel)
         /\ conn[c].tunnel \in w.open <=> conn[c].tunnel \in meter.open
<1>1. PICK i : i = conn[c].tunnel OBVIOUS
<1>2. i \in Ids /\ i < meter.next /\ Books(meter) /\ Below(meter) /\ Tells(i, meter, finals)
  BY <1>1, TaskFacts
<1>3. /\ Touch(meter, w, i) /\ w.rec[i].status = meter.rec[i].status
      /\ w.okStatus = meter.okStatus
      /\ AllNegotiation(meter.rec[i]) => AllNegotiation(w.rec[i])
  BY <1>1, <1>2, MarkReceivedTouches
<1>4. w.rec[i].route = meter.rec[i].route BY <1>2, <1>3 DEF Touch
<1>5. Tells(i, w, finals) BY <1>2, <1>3, <1>4 DEF Tells
<1>6. i \in w.open <=> i \in meter.open BY <1>2, <1>3 DEF Touch, Books
<1>7. QED BY <1>1, <1>3, <1>5, <1>6 DEF Does

\* A setup that fails: the record is closed, and the connection outlives it only where
\* nothing had closed the tunnel before and the route is not SOCKS5.
LEMMA FailsSetupSound ==
  ASSUME RelayInv, NEW c \in Clients, conn[c].pc \in {"connecting", "negotiating"},
         NEW m, Does(m, conn[c].tunnel), NEW t, t \in Tasks, SameBut(conn[c], t),
         t.up = "live" => /\ conn[c].up = "live" /\ conn[c].tunnel \in meter.open
                          /\ RouteOf[conn[c].host] # "socks5",
         NEW status \in {"failed:setup", "failed:client_closed", "failed:upstream_status"},
         FailsSetup(c, t, m, status), unsent' \in [Ids -> Nat],
         opened' = opened, finals' = finals, atTrip' = atTrip
  PROVE  RelayInv'
<1>1. PICK s : s = conn[c] OBVIOUS
<1>2. PICK w : w = Finish(MarkAllNegotiation(m, s.tunnel), s.tunnel, status) OBVIOUS
<1>3. s \in Tasks /\ TaskOK(c, s, meter, opened, finals) /\ (s.tunnel # 0 => s.tunnel \in Ids)
  BY <1>1, TaskFacts
<1>4. s.tunnel # 0 /\ s.tunnel \in Ids /\ finals[s.tunnel] = {}
  BY <1>1, <1>3 DEF TaskOK, Stands
<1>5. Does(w, s.tunnel) /\ w.rec[s.tunnel].status # "open" BY <1>1, <1>2, <1>4, FailureDoes
<1>6. Touch(meter, w, s.tunnel) BY <1>5 DEF Does
<1>7. t.tunnel = s.tunnel /\ t.host = s.host /\ t.passed = s.passed /\ t.bound = s.bound
  BY <1>1 DEF SameBut
<1>8. t.up = "live" => t.bound = s.tunnel /\ RouteOf[t.host] # "socks5" /\ s.tunnel \in meter.open
  BY <1>1, <1>3, <1>7 DEF TaskOK, Connected
<1>9. PICK u : /\ u = IF s.tunnel \in meter.open THEN [t EXCEPT !.pc = "lingering"]
                      ELSE [t EXCEPT !.pc = "closing", !.next = "end"]
               /\ Goes(c, u, w)
  BY <1>2, <1>7 DEF FailsSetup
<1>10. /\ u \in Tasks /\ u.host = t.host /\ u.tunnel = t.tunnel /\ u.passed = t.passed
       /\ u.bound = t.bound /\ u.up = t.up /\ u.pc \in {"lingering", "closing"}
       /\ u.pc = "closing" => u.next = "end" /\ s.tunnel \notin meter.open
  BY <1>9 DEF Tasks
<1>11. TaskOK(c, u, w, opened, finals) /\ ~Waits(u)
  <2>1. u.up = "live" => u.pc = "lingering" /\ u.bound = s.tunnel /\ RouteOf[s.host] # "socks5"
    BY <1>7, <1>8, <1>10
  <2>2. u.host = s.host /\ u.tunnel = s.tunnel /\ u.passed = s.passed BY <1>7, <1>10
  <2>3. QED BY ONLY <1>3, <1>4, <1>5, <1>6, <1>10, <2>1, <2>2, HeldOK
<1>12. QED BY <1>1, <1>5, <1>9, <1>10, <1>11, GoesSound

\* The upstream cannot be connected to.
LEMMA ConnectFailsInv ==
  ASSUME RelayInv, NEW c \in Clients, ConnectFails(c)
  PROVE  RelayInv'
<1>1. PICK t : t = conn[c] OBVIOUS
<1>2. t \in Tasks /\ TaskOK(c, t, meter, opened, finals) /\ unsent \in [Ids -> Nat]
  BY <1>1, TaskFacts
<1>3. /\ t.pc = "connecting" /\ FailsSetup(c, t, meter, "failed:setup") /\ unsent' = unsent
      /\ opened' = opened /\ finals' = finals /\ atTrip' = atTrip
  BY <1>1 DEF ConnectFails
<1>4. t.up = "none" BY <1>2, <1>3 DEF TaskOK, Stands
<1>5. Does(meter, conn[c].tunnel) BY DoesNothing
<1>6. SameBut(conn[c], t) BY <1>1 DEF SameBut
<1>7. QED BY <1>1, <1>2, <1>3, <1>4, <1>5, <1>6, FailsSetupSound

\* An abort empties the buffers of what it aborts.
LEMMA EmptiedType ==
  ASSUME unsent \in [Ids -> Nat], NEW t
  PROVE  Emptied(unsent, t) \in [Ids -> Nat]
BY DEF Emptied

\* The negotiation with the provider fails.
LEMMA NegotiationFailsInv ==
  ASSUME RelayInv, NEW c \in Clients, NegotiationFails(c)
  PROVE  RelayInv'
<1>1. PICK s : s = conn[c] OBVIOUS
<1>2. PICK a : a = (RouteOf[s.host] = "socks5") OBVIOUS
<1>3. PICK t : t = IF a THEN Aborted(s) ELSE s OBVIOUS
<1>4. PICK m : m = IF a THEN AbortUp(meter, s) ELSE meter OBVIOUS
<1>5. s \in Tasks /\ unsent \in [Ids -> Nat] BY <1>1, TaskFacts
<1>6. /\ s.pc = "negotiating" /\ s.tunnel \in meter.open
      /\ FailsSetup(c, t, m, "failed:setup")
      /\ unsent' = IF a THEN Emptied(unsent, s) ELSE unsent
      /\ opened' = opened /\ finals' = finals /\ atTrip' = atTrip
  BY <1>1, <1>2, <1>3, <1>4 DEF NegotiationFails, RouteFor
<1>7. Does(meter, s.tunnel) BY <1>1, DoesNothing
<1>8. Does(m, s.tunnel) BY <1>1, <1>4, <1>7, AbortDoes
<1>9. t \in Tasks /\ SameBut(s, t) /\ (t.up = "live" => s.up = "live" /\ ~a)
  <2>1. CASE a BY <1>3, <1>5, <2>1, AbortedType
  <2>2. CASE ~a BY <1>3, <1>5, <2>2 DEF SameBut
  <2>3. QED BY <2>1, <2>2
<1>10. unsent' \in [Ids -> Nat] BY <1>5, <1>6, EmptiedType
<1>11. QED BY <1>1, <1>2, <1>6, <1>8, <1>9, <1>10, FailsSetupSound

\* The provider rejects the CONNECT.
LEMMA RejectedInv ==
  ASSUME RelayInv, NEW c \in Clients, Rejected(c)
  PROVE  RelayInv'
<1>1. PICK t : t = conn[c] OBVIOUS
<1>2. PICK i : i = t.tunnel OBVIOUS
<1>3. PICK m : m = MarkNegotiationReceived(meter, i, 1) OBVIOUS
<1>4. PICK w : w = Finish(MarkAllNegotiation(m, i), i, "failed:upstream_status") OBVIOUS
<1>5. PICK u : u = [t EXCEPT !.pc = "lingering"] OBVIOUS
<1>6. t \in Tasks /\ TaskOK(c, t, meter, opened, finals) /\ unsent \in [Ids -> Nat]
      /\ (t.tunnel # 0 => t.tunnel \in Ids)
  BY <1>1, TaskFacts
<1>7. /\ t.pc = "negotiating" /\ RouteOf[t.host] = "http-connect" /\ Goes(c, u, w)
      /\ unsent' = unsent /\ opened' = opened /\ finals' = finals /\ atTrip' = atTrip
  BY <1>1, <1>2, <1>3, <1>4, <1>5 DEF Rejected, RouteFor
<1>8. i # 0 /\ i \in Ids /\ finals[i] = {} /\ t.bound = i
  BY <1>2, <1>6, <1>7 DEF TaskOK, Stands
<1>9. Does(m, i) BY <1>1, <1>2, <1>3, <1>8, MarkReceivedDoes
<1>10. Does(w, i) /\ w.rec[i].status # "open" BY <1>1, <1>2, <1>4, <1>8, <1>9, FailureDoes
<1>11. /\ u \in Tasks /\ u.host = t.host /\ u.tunnel = t.tunnel /\ u.passed = t.passed
       /\ u.bound = t.bound /\ u.pc = "lingering"
  BY <1>5, <1>6 DEF Tasks
<1>12. Touch(meter, w, i) BY <1>10 DEF Does
<1>13. TaskOK(c, u, w, opened, finals) /\ ~Waits(u)
  BY ONLY <1>2, <1>6, <1>7, <1>8, <1>10, <1>11, <1>12, HeldOK
<1>14. QED BY <1>1, <1>2, <1>6, <1>7, <1>10, <1>11, <1>13, GoesSound

\* The client leaves while its tunnel is set up.
LEMMA ClientLeftSetupInv ==
  ASSUME RelayInv, NEW c \in Clients, ClientLeftSetup(c)
  PROVE  RelayInv'
<1>1. PICK s : s = conn[c] OBVIOUS
<1>2. PICK a : a = (RouteOf[s.host] = "socks5") OBVIOUS
<1>3. PICK t : t = IF a THEN Aborted(s) ELSE s OBVIOUS
<1>4. PICK m : m = IF a THEN AbortUp(meter, s) ELSE meter OBVIOUS
<1>5. s \in Tasks /\ TaskOK(c, s, meter, opened, finals) /\ unsent \in [Ids -> Nat]
      /\ (s.tunnel # 0 => s.tunnel \in Ids)
  BY <1>1, TaskFacts
<1>6. t \in Tasks /\ SameBut(s, t) /\ (a => t.up # "live")
  <2>1. CASE a BY <1>3, <1>5, <2>1, AbortedType
  <2>2. CASE ~a BY <1>3, <1>5, <2>2 DEF SameBut
  <2>3. QED BY <2>1, <2>2
<1>7. t.tunnel = s.tunnel /\ t.host = s.host /\ t.passed = s.passed BY <1>6 DEF SameBut
<1>8. PICK w : w = Finish(MarkAllNegotiation(m, s.tunnel), s.tunnel, "failed:client_closed") OBVIOUS
<1>9. PICK u : u = [t EXCEPT !.pc = "closing", !.next = "end"] OBVIOUS
<1>10. /\ s.pc \in {"connecting", "negotiating"}
       /\ IF a THEN Goes(c, u, w) /\ unsent' = Emptied(unsent, s) ELSE Closes(c, t, w, "end")
       /\ opened' = opened /\ finals' = finals /\ atTrip' = atTrip
  BY <1>1, <1>2, <1>3, <1>4, <1>7, <1>8, <1>9 DEF ClientLeftSetup, RouteFor
<1>11. s.tunnel # 0 /\ s.tunnel \in Ids /\ finals[s.tunnel] = {} BY <1>5, <1>10 DEF TaskOK, Stands
<1>12. Does(m, s.tunnel)
  <2>1. Does(meter, s.tunnel) BY <1>1, DoesNothing
  <2>2. QED BY <1>1, <1>4, <2>1, AbortDoes
<1>13. Does(w, s.tunnel) /\ w.rec[s.tunnel].status # "open" BY <1>1, <1>8, <1>11, <1>12, FailureDoes
<1>14. CASE a
  <2>1. /\ u \in Tasks /\ u.host = s.host /\ u.tunnel = s.tunnel /\ u.passed = s.passed
        /\ u.pc = "closing" /\ u.next = "end" /\ u.up # "live"
    BY <1>6, <1>7, <1>9, <1>14 DEF Tasks
  <2>2. Touch(meter, w, s.tunnel) BY <1>13 DEF Does
  <2>3. TaskOK(c, u, w, opened, finals) /\ ~Waits(u)
    BY ONLY <1>5, <1>11, <1>13, <2>1, <2>2, HeldOK
  <2>4. unsent' \in [Ids -> Nat] /\ Goes(c, u, w) BY <1>5, <1>10, <1>14, EmptiedType
  <2>5. QED BY <1>1, <1>10, <1>13, <2>1, <2>3, <2>4, GoesSound
<1>15. CASE ~a
  <2>1. Closes(c, t, w, "end") BY <1>10, <1>15
  <2>2. QED BY <1>1, <1>6, <1>10, <1>13, <2>1, ClosesSound
<1>16. QED BY <1>14, <1>15

\* A relay that is over: a reset client's connection is aborted, any other closed.
LEMMA RelayEndsInv ==
  ASSUME RelayInv, NEW c \in Clients, RelayEnds(c)
  PROVE  RelayInv'
<1>1. PICK s : s = conn[c] OBVIOUS
<1>2. PICK m : m = Finish(meter, s.tunnel, "ok") OBVIOUS
<1>3. PICK w : w = AbortUp(m, s) OBVIOUS
<1>4. PICK t : t = Aborted(s) OBVIOUS
<1>5. PICK u : u = [t EXCEPT !.pc = "closing", !.next = "end"] OBVIOUS
<1>6. s \in Tasks /\ TaskOK(c, s, meter, opened, finals) /\ unsent \in [Ids -> Nat]
      /\ (s.tunnel # 0 => s.tunnel \in Ids)
  BY <1>1, TaskFacts
<1>7. /\ s.pc = "relaying"
      /\ IF s.sock = "gone" THEN Goes(c, u, w) /\ unsent' = Emptied(unsent, s)
         ELSE Closes(c, s, m, "end")
      /\ opened' = opened /\ finals' = finals /\ atTrip' = atTrip
  <2>1. t.tunnel = s.tunnel BY <1>4, <1>6, AbortedType DEF SameBut
  <2>2. QED BY <1>1, <1>2, <1>3, <1>4, <1>5, <2>1 DEF RelayEnds
<1>8. s.tunnel # 0 /\ s.tunnel \in Ids BY <1>6, <1>7 DEF TaskOK, Stands
<1>9. Does(m, s.tunnel) /\ m.rec[s.tunnel].status # "open"
  <2>1. Does(meter, s.tunnel) BY <1>1, DoesNothing
  <2>2. QED BY <1>1, <1>2, <1>8, <2>1, FinishDoes
<1>10. CASE s.sock = "gone"
  <2>1. Does(w, s.tunnel) /\ w.rec[s.tunnel].status # "open" BY <1>1, <1>3, <1>9, AbortDoes
  <2>2. /\ u \in Tasks /\ u.host = s.host /\ u.tunnel = s.tunnel /\ u.passed = s.passed
        /\ u.pc = "closing" /\ u.next = "end" /\ u.up # "live"
    <3>1. t \in Tasks /\ SameBut(s, t) /\ t.up # "live" BY <1>4, <1>6, AbortedType
    <3>2. QED BY <1>5, <3>1 DEF Tasks, SameBut
  <2>3. Touch(meter, w, s.tunnel) BY <2>1 DEF Does
  <2>4. TaskOK(c, u, w, opened, finals) /\ ~Waits(u)
    BY ONLY <1>6, <1>8, <2>1, <2>2, <2>3, HeldOK
  <2>5. unsent' \in [Ids -> Nat] /\ Goes(c, u, w) BY <1>6, <1>7, <1>10, EmptiedType
  <2>6. QED BY <1>1, <1>7, <2>1, <2>2, <2>4, <2>5, GoesSound
<1>11. CASE s.sock # "gone"
  <2>1. Closes(c, s, m, "end") BY <1>7, <1>11
  <2>2. QED BY <1>1, <1>6, <1>7, <1>9, <2>1, ClosesSound
<1>12. QED BY <1>10, <1>11

\* The upstream resets a relay.
LEMMA RelayResetInv ==
  ASSUME RelayInv, NEW c \in Clients, RelayReset(c)
  PROVE  RelayInv'
<1>1. PICK t : t = conn[c] OBVIOUS
<1>2. PICK w : w = Finish(meter, t.tunnel, "failed:upstream_reset") OBVIOUS
<1>3. PICK u : u = [t EXCEPT !.pc = "lingering"] OBVIOUS
<1>4. t \in Tasks /\ TaskOK(c, t, meter, opened, finals) /\ unsent \in [Ids -> Nat]
      /\ (t.tunnel # 0 => t.tunnel \in Ids)
  BY <1>1, TaskFacts
<1>5. /\ t.pc = "relaying" /\ t.up = "lost" /\ Goes(c, u, w)
      /\ unsent' = unsent /\ opened' = opened /\ finals' = finals /\ atTrip' = atTrip
  BY <1>1, <1>2, <1>3 DEF RelayReset
<1>6. t.tunnel # 0 /\ t.tunnel \in Ids BY <1>4, <1>5 DEF TaskOK, Stands
<1>7. Does(w, t.tunnel) /\ w.rec[t.tunnel].status # "open"
  <2>1. Does(meter, t.tunnel) BY <1>1, DoesNothing
  <2>2. QED BY <1>1, <1>2, <1>6, <2>1, FinishDoes
<1>8. /\ u \in Tasks /\ u.host = t.host /\ u.tunnel = t.tunnel /\ u.passed = t.passed
      /\ u.pc = "lingering" /\ u.up # "live"
  BY <1>3, <1>4, <1>5 DEF Tasks
<1>9. Touch(meter, w, t.tunnel) BY <1>7 DEF Does
<1>10. TaskOK(c, u, w, opened, finals) /\ ~Waits(u)
  BY ONLY <1>4, <1>6, <1>7, <1>8, <1>9, HeldOK
<1>11. QED BY <1>1, <1>4, <1>5, <1>7, <1>8, <1>10, GoesSound

\* An exchange fails.
LEMMA ExchangeFailsInv ==
  ASSUME RelayInv, NEW c \in Clients,
         NEW status \in {"ok", "failed:upstream_reset", "failed:upstream_closed"},
         ExchangeFails(c, status)
  PROVE  RelayInv'
<1>1. PICK s : s = conn[c] OBVIOUS
<1>2. PICK m : m = Finish(meter, s.tunnel, status) OBVIOUS
<1>3. PICK w : w = AbortUp(m, s) OBVIOUS
<1>4. PICK t : t = Aborted(s) OBVIOUS
<1>5. PICK u : u = [t EXCEPT !.pc = "lingering", !.keep = FALSE, !.tunnel = 0] OBVIOUS
<1>6. s \in Tasks /\ TaskOK(c, s, meter, opened, finals) /\ unsent \in [Ids -> Nat]
  BY <1>1, TaskFacts
<1>7. /\ s.pc = "exchanging" /\ Goes(c, u, w) /\ unsent' = Emptied(unsent, s)
      /\ opened' = opened /\ finals' = finals /\ atTrip' = atTrip
  BY <1>1, <1>2, <1>3, <1>4, <1>5 DEF ExchangeFails
<1>8. s.tunnel # 0 BY <1>6, <1>7 DEF TaskOK, Stands
<1>9. Does(m, s.tunnel) /\ m.rec[s.tunnel].status # "open"
  <2>1. Does(meter, s.tunnel) BY <1>1, DoesNothing
  <2>2. QED BY <1>1, <1>2, <1>8, <2>1, FinishDoes
<1>10. Does(w, s.tunnel) /\ w.rec[s.tunnel].status # "open" BY <1>1, <1>3, <1>9, AbortDoes
<1>11. u \in Tasks /\ Free(u) /\ ~Waits(u)
  <2>1. t \in Tasks /\ t.up # "live" /\ 0 \in 0 .. MaxRecords
    BY <1>4, <1>6, AbortedType, MeterAssumption
  <2>2. QED BY <1>5, <2>1 DEF Tasks, Free, Waits
<1>12. Books(w) BY <1>10 DEF Does, Touch
<1>13. TaskOK(c, u, w, opened, finals) BY <1>11, <1>12, FreeOK
<1>14. unsent' \in [Ids -> Nat] BY <1>6, <1>7, EmptiedType
<1>15. QED BY <1>1, <1>7, <1>10, <1>11, <1>13, <1>14, GoesSound

\* The client leaves an exchange.
LEMMA ClientLeftInv ==
  ASSUME RelayInv, NEW c \in Clients, ClientLeft(c)
  PROVE  RelayInv'
<1>1. PICK t : t = conn[c] OBVIOUS
<1>2. t \in Tasks /\ TaskOK(c, t, meter, opened, finals) BY <1>1, TaskFacts
<1>3. /\ t.pc \in {"reading", "exchanging"}
      /\ IF t.keep THEN CloseSession(c, t, meter, "end")
         ELSE Goes(c, Ended(t), meter) /\ unsent' = unsent
      /\ opened' = opened /\ finals' = finals /\ atTrip' = atTrip
  BY <1>1 DEF ClientLeft
<1>4. CASE t.keep
  <2>1. t.tunnel # 0 BY <1>2, <1>4 DEF TaskOK, Stands
  <2>2. QED BY <1>1, <1>2, <1>3, <1>4, <2>1, CloseSessionSound
<1>5. CASE ~t.keep
  <2>1. t.tunnel = 0 BY <1>2, <1>3, <1>5 DEF TaskOK, Stands
  <2>2. t.up # "live" BY <1>2, <2>1 DEF TaskOK, Connected
  <2>3. Ended(t) \in Tasks /\ Free(Ended(t)) /\ ~Waits(Ended(t))
    BY <1>2, <2>2, EndedType DEF Free, Waits
  <2>4. QED BY <1>1, <1>3, <1>5, <2>1, <2>3, FreedSound
<1>6. QED BY <1>4, <1>5

\* A write on the task's own tunnel.
LEMMA UploadInv ==
  ASSUME RelayInv, NEW c \in Clients, Upload(c)
  PROVE  RelayInv'
<1>1. PICK t : t = conn[c] OBVIOUS
<1>2. PICK u : u = Wrote(t, t.pc) OBVIOUS
<1>3. t \in Tasks /\ TaskOK(c, t, meter, opened, finals) /\ Books(meter) /\ Below(meter)
  BY <1>1, TaskFacts
<1>4. t.pc \in {"relaying", "exchanging"} /\ Writes(c, t, meter, 0, t.pc)
      /\ opened' = opened /\ finals' = finals
  BY <1>1 DEF Upload
<1>5. /\ t.tunnel # 0 /\ t.bound = t.tunnel /\ (t.pc = "exchanging" => t.keep)
      /\ t.up = "live" => t.tunnel \in meter.open
  BY <1>3, <1>4 DEF TaskOK, Stands, Connected
<1>6. /\ u.host = t.host /\ u.tunnel = t.tunnel /\ u.passed = t.passed /\ u.bound = t.tunnel
      /\ u.pc = t.pc /\ u.keep = t.keep /\ u.up = t.up
  BY <1>2, <1>3, <1>5 DEF Wrote, Tasks
<1>7. Touch(meter, meter, t.tunnel) BY <1>3, TouchNothing
<1>8. TaskOK(c, u, meter, opened, finals)
  BY ONLY <1>3, <1>4, <1>5, <1>6, <1>7, MovesOK
<1>9. Does(meter, t.tunnel) BY <1>1, DoesNothing
<1>10. QED BY <1>1, <1>2, <1>3, <1>4, <1>8, <1>9, WritesInv

\* A kept connection is handed to the next record.
LEMMA ReuseInv ==
  ASSUME RelayInv, NEW c \in Clients, Reuse(c)
  PROVE  RelayInv'
<1>1. PICK t : t = conn[c] OBVIOUS
<1>2. PICK u : u = Wrote(t, "exchanging") OBVIOUS
<1>3. t \in Tasks /\ TaskOK(c, t, meter, opened, finals) /\ Books(meter) /\ Below(meter)
  BY <1>1, TaskFacts
<1>4. t.pc = "reading" /\ t.keep /\ t.up = "live" /\ Writes(c, t, meter, 0, "exchanging")
      /\ opened' = opened /\ finals' = finals
  BY <1>1 DEF Reuse, Asks, Usable
<1>5. t.tunnel # 0 /\ t.bound = t.tunnel /\ t.tunnel \in meter.open
  BY <1>3, <1>4 DEF TaskOK, Connected
<1>6. /\ u.host = t.host /\ u.tunnel = t.tunnel /\ u.passed = t.passed /\ u.bound = t.tunnel
      /\ u.pc = "exchanging" /\ u.keep
  BY <1>2, <1>3, <1>4, <1>5 DEF Wrote, Tasks
<1>7. Touch(meter, meter, t.tunnel) BY <1>3, TouchNothing
<1>8. TaskOK(c, u, meter, opened, finals)
  BY ONLY <1>3, <1>5, <1>6, <1>7, MovesOK
<1>9. Does(meter, t.tunnel) BY <1>1, DoesNothing
<1>10. QED BY <1>1, <1>2, <1>3, <1>4, <1>8, <1>9, WritesInv

\* The upstream connection is adopted while the tunnel is still open.
LEMMA ConnectsInv ==
  ASSUME RelayInv, NEW c \in Clients, Connects(c)
  PROVE  RelayInv'
<1>1. PICK s : s = conn[c] OBVIOUS
<1>2. PICK i : i = s.tunnel OBVIOUS
<1>3. PICK k : k = (s.kind = "http") OBVIOUS
<1>4. PICK t : t = [s EXCEPT !.up = "live", !.bound = i, !.charged = {i}, !.keep = k, !.reply = "none"]
  OBVIOUS
<1>5. PICK v : v = [t EXCEPT !.keep = FALSE] OBVIOUS
<1>6. PICK r : r = [t EXCEPT !.pc = "relaying"] OBVIOUS
<1>7. s \in Tasks /\ TaskOK(c, s, meter, opened, finals) /\ Books(meter) /\ Below(meter)
      /\ unsent \in [Ids -> Nat] /\ (s.tunnel # 0 => s.tunnel \in Ids)
  BY <1>1, TaskFacts
<1>8. /\ s.pc = "connecting" /\ i \notin meter.closing
      /\ \/ RouteOf[s.host] \in {"socks5", "http-connect"} /\ Writes(c, v, meter, 1, "negotiating")
         \/ k /\ Writes(c, t, meter, 0, "exchanging")
         \/ Goes(c, r, meter) /\ unsent' = unsent /\ atTrip' = atTrip
      /\ opened' = opened /\ finals' = finals
  <2>1. t.kind = s.kind BY <1>4, <1>7 DEF Tasks
  <2>2. QED BY <1>1, <1>2, <1>3, <1>4, <1>5, <1>6, <2>1 DEF Connects, RouteFor
<1>9. /\ s.tunnel # 0 /\ i \in Ids /\ i \in meter.open /\ finals[s.tunnel] = {}
  BY <1>2, <1>7, <1>8 DEF TaskOK, Owns, Stands
<1>10. k \in BOOLEAN BY <1>3
<1>11. t \in Tasks /\ v \in Tasks /\ r \in Tasks
  BY <1>2, <1>4, <1>5, <1>6, <1>7, <1>9, <1>10 DEF Tasks
<1>12. Does(meter, s.tunnel) /\ Touch(meter, meter, s.tunnel)
  BY <1>1, <1>7, DoesNothing, TouchNothing
<1>13. CASE RouteOf[s.host] \in {"socks5", "http-connect"} /\ Writes(c, v, meter, 1, "negotiating")
  <2>1. PICK u : u = Wrote(v, "negotiating") OBVIOUS
  <2>2. /\ u.host = s.host /\ u.tunnel = s.tunnel /\ u.passed = s.passed /\ u.bound = s.tunnel
        /\ u.pc = "negotiating" /\ ~u.keep /\ v.tunnel = s.tunnel
    BY <2>1, <1>2, <1>4, <1>5, <1>7, <1>10 DEF Wrote, Tasks
  <2>3. TaskOK(c, u, meter, opened, finals)
    BY ONLY <1>2, <1>7, <1>9, <1>12, <1>13, <2>2, MovesOK
  <2>4. QED BY <1>1, <1>8, <1>11, <1>12, <1>13, <2>1, <2>2, <2>3, WritesInv
<1>14. CASE k /\ Writes(c, t, meter, 0, "exchanging")
  <2>1. PICK u : u = Wrote(t, "exchanging") OBVIOUS
  <2>2. /\ u.host = s.host /\ u.tunnel = s.tunnel /\ u.passed = s.passed /\ u.bound = s.tunnel
        /\ u.pc = "exchanging" /\ u.keep = k /\ t.tunnel = s.tunnel
    BY <2>1, <1>2, <1>4, <1>7, <1>10 DEF Wrote, Tasks
  <2>3. TaskOK(c, u, meter, opened, finals)
    BY ONLY <1>2, <1>7, <1>9, <1>12, <1>14, <2>2, MovesOK
  <2>4. QED BY <1>1, <1>8, <1>11, <1>12, <1>14, <2>1, <2>2, <2>3, WritesInv
<1>15. CASE Goes(c, r, meter) /\ unsent' = unsent /\ atTrip' = atTrip
  <2>1. /\ r.host = s.host /\ r.tunnel = s.tunnel /\ r.passed = s.passed /\ r.bound = s.tunnel
        /\ r.pc = "relaying"
    BY <1>2, <1>4, <1>6, <1>7, <1>10 DEF Tasks
  <2>2. TaskOK(c, r, meter, opened, finals) /\ ~Waits(r)
    BY ONLY <1>2, <1>7, <1>9, <1>12, <2>1, MovesOK
  <2>3. QED BY <1>1, <1>7, <1>8, <1>11, <1>12, <1>15, <2>1, <2>2, GoesSound
<1>16. QED BY <1>8, <1>13, <1>14, <1>15

\* The tunnel is through to its target.
LEMMA NegotiatedInv ==
  ASSUME RelayInv, NEW c \in Clients, Negotiated(c)
  PROVE  RelayInv'
<1>1. PICK s : s = conn[c] OBVIOUS
<1>2. PICK i : i = s.tunnel OBVIOUS
<1>3. PICK m : m = MarkNegotiationReceived(meter, i, 1) OBVIOUS
<1>4. PICK y : y = IF m.rec[i].recv > m.rec[i].negRecv THEN "bytes" ELSE "none" OBVIOUS
<1>5. PICK t : t = [s EXCEPT !.keep = TRUE, !.reply = y] OBVIOUS
<1>6. PICK r : r = [s EXCEPT !.pc = "relaying"] OBVIOUS
<1>7. s \in Tasks /\ TaskOK(c, s, meter, opened, finals) /\ Books(meter)
      /\ unsent \in [Ids -> Nat] /\ (s.tunnel # 0 => s.tunnel \in Ids)
  BY <1>1, TaskFacts
<1>8. /\ s.pc = "negotiating" /\ s.up = "live"
      /\ IF s.kind = "http" THEN Writes(c, t, m, 0, "exchanging")
         ELSE Goes(c, r, m) /\ unsent' = unsent /\ atTrip' = atTrip
      /\ opened' = opened /\ finals' = finals
  BY <1>1, <1>2, <1>3, <1>4, <1>5, <1>6 DEF Negotiated
<1>9. s.tunnel # 0 /\ s.bound = s.tunnel /\ s.tunnel \in meter.open
  BY <1>7, <1>8 DEF TaskOK, Stands, Connected
<1>10. Does(m, s.tunnel) /\ s.tunnel \in m.open BY <1>1, <1>2, <1>3, <1>9, MarkReceivedDoes
<1>11. Touch(meter, m, s.tunnel) BY <1>10 DEF Does
<1>12. t \in Tasks /\ r \in Tasks BY <1>4, <1>5, <1>6, <1>7 DEF Tasks
<1>13. CASE s.kind = "http"
  <2>1. PICK u : u = Wrote(t, "exchanging") OBVIOUS
  <2>2. /\ u.host = s.host /\ u.tunnel = s.tunnel /\ u.passed = s.passed /\ u.bound = s.tunnel
        /\ u.pc = "exchanging" /\ u.keep /\ t.tunnel = s.tunnel
    BY <2>1, <1>5, <1>7, <1>9 DEF Wrote, Tasks
  <2>3. TaskOK(c, u, m, opened, finals)
    BY ONLY <1>7, <1>9, <1>10, <1>11, <2>2, MovesOK
  <2>4. QED BY <1>1, <1>8, <1>10, <1>12, <1>13, <2>1, <2>2, <2>3, WritesInv
<1>14. CASE s.kind # "http"
  <2>1. /\ r.host = s.host /\ r.tunnel = s.tunnel /\ r.passed = s.passed /\ r.bound = s.tunnel
        /\ r.pc = "relaying"
    BY <1>6, <1>7, <1>9 DEF Tasks
  <2>2. TaskOK(c, r, m, opened, finals) /\ ~Waits(r)
    BY ONLY <1>7, <1>9, <1>10, <1>11, <2>1, MovesOK
  <2>3. QED BY <1>1, <1>7, <1>8, <1>10, <1>12, <1>14, <2>1, <2>2, GoesSound
<1>15. QED BY <1>13, <1>14

\* An exchange becomes a tunnel of its own.
LEMMA UpgradesInv ==
  ASSUME RelayInv, NEW c \in Clients, Upgrades(c)
  PROVE  RelayInv'
<1>1. PICK s : s = conn[c] OBVIOUS
<1>2. PICK r : r = [s EXCEPT !.pc = "relaying", !.keep = FALSE] OBVIOUS
<1>3. s \in Tasks /\ TaskOK(c, s, meter, opened, finals) /\ Books(meter) /\ Below(meter)
      /\ unsent \in [Ids -> Nat]
  BY <1>1, TaskFacts
<1>4. /\ s.pc = "exchanging" /\ s.up = "live" /\ Goes(c, r, meter)
      /\ unsent' = unsent /\ opened' = opened /\ finals' = finals /\ atTrip' = atTrip
  BY <1>1, <1>2 DEF Upgrades, Answering
<1>5. s.tunnel # 0 /\ s.bound = s.tunnel /\ s.tunnel \in meter.open
  BY <1>3, <1>4 DEF TaskOK, Connected
<1>6. /\ r \in Tasks /\ r.host = s.host /\ r.tunnel = s.tunnel /\ r.passed = s.passed
      /\ r.bound = s.tunnel /\ r.pc = "relaying"
  BY <1>2, <1>3, <1>5 DEF Tasks
<1>7. Does(meter, s.tunnel) /\ Touch(meter, meter, s.tunnel)
  BY <1>1, <1>3, DoesNothing, TouchNothing
<1>8. TaskOK(c, r, meter, opened, finals) /\ ~Waits(r)
  BY ONLY <1>3, <1>5, <1>6, <1>7, MovesOK
<1>9. QED BY <1>1, <1>3, <1>4, <1>6, <1>7, <1>8, GoesSound

\* An exchange ends and its connection may be kept.
LEMMA ExchangeEndsInv ==
  ASSUME RelayInv, NEW c \in Clients, NEW next \in {"keep", "read", "end", "linger"},
         ExchangeEnds(c, next)
  PROVE  RelayInv'
<1>1. PICK s : s = conn[c] OBVIOUS
<1>2. PICK t : t = [s EXCEPT !.served = TRUE, !.reply = "none"] OBVIOUS
<1>3. PICK r : r = [t EXCEPT !.pc = "reading"] OBVIOUS
<1>4. s \in Tasks /\ TaskOK(c, s, meter, opened, finals) /\ Books(meter) /\ Below(meter)
      /\ unsent \in [Ids -> Nat]
  BY <1>1, TaskFacts
<1>5. /\ s.pc = "exchanging"
      /\ IF next = "keep" THEN Goes(c, r, meter) /\ unsent' = unsent
         ELSE CloseSession(c, t, meter, next)
      /\ opened' = opened /\ finals' = finals /\ atTrip' = atTrip
  BY <1>1, <1>2, <1>3 DEF ExchangeEnds, Answering
<1>6. s.tunnel # 0 /\ s.bound = s.tunnel /\ s.keep /\ (s.up = "live" => s.tunnel \in meter.open)
  BY <1>4, <1>5 DEF TaskOK, Stands, Connected
<1>7. t \in Tasks /\ t.tunnel = s.tunnel BY <1>2, <1>4 DEF Tasks
<1>8. CASE next = "keep"
  <2>1. /\ r \in Tasks /\ r.host = s.host /\ r.tunnel = s.tunnel /\ r.passed = s.passed
        /\ r.bound = s.tunnel /\ r.pc = "reading" /\ r.keep /\ r.up = s.up
    BY <1>2, <1>3, <1>4, <1>6 DEF Tasks
  <2>2. Does(meter, s.tunnel) /\ Touch(meter, meter, s.tunnel)
    BY <1>1, <1>4, DoesNothing, TouchNothing
  <2>3. TaskOK(c, r, meter, opened, finals) /\ ~Waits(r)
    BY ONLY <1>4, <1>6, <2>1, <2>2, MovesOK
  <2>4. Goes(c, r, meter) /\ unsent' = unsent BY <1>5, <1>8
  <2>5. QED BY <1>1, <1>4, <1>5, <2>1, <2>2, <2>3, <2>4, GoesSound
<1>9. CASE next # "keep"
  <2>1. CloseSession(c, t, meter, next) /\ next \in {"read", "end", "linger"} BY <1>5, <1>9
  <2>2. QED BY <1>1, <1>5, <1>6, <1>7, <2>1, CloseSessionSound
<1>10. QED BY <1>8, <1>9

\* What happens to the sockets alone.
LEMMA FlushInv ==
  ASSUME RelayInv, NEW c \in Clients, Flush(c)
  PROVE  RelayInv'
<1>1. unsent' \in [Ids -> Nat] BY EmptiedType DEF Flush, RelayInv
<1>2. QED BY <1>1 DEF Flush, RelayInv

\* The peer resets a connection before its task sees it.
LEMMA PeerResetsInv ==
  ASSUME RelayInv, NEW c \in Clients, PeerResets(c)
  PROVE  RelayInv'
<1>1. PICK s : s = conn[c] OBVIOUS
<1>2. PICK u : u = [s EXCEPT !.up = "lost"] OBVIOUS
<1>3. s \in Tasks /\ TaskOK(c, s, meter, opened, finals) /\ Books(meter) /\ Below(meter)
      /\ unsent \in [Ids -> Nat] /\ conn \in [Clients -> Tasks]
  BY <1>1, TaskFacts
<1>4. /\ s.up = "live" /\ Goes(c, u, meter) /\ unsent' = Emptied(unsent, s)
      /\ opened' = opened /\ finals' = finals /\ atTrip' = atTrip
  BY <1>1, <1>2 DEF PeerResets, Goes
<1>5. u \in Tasks /\ SameBut(s, u) /\ u.pc = s.pc /\ u.next = s.next /\ u.up = "lost"
  BY <1>2, <1>3 DEF Tasks, SameBut
<1>6. Does(meter, s.tunnel) /\ Touch(meter, meter, s.tunnel)
  BY <1>1, <1>3, DoesNothing, TouchNothing
<1>7. TaskOK(c, u, meter, opened, finals) BY ONLY <1>3, <1>4, <1>5, <1>6, StaysOK
<1>8. unsent' \in [Ids -> Nat] BY <1>3, <1>4, EmptiedType
<1>9. u.tunnel = s.tunnel /\ (Waits(u) <=> Waits(s)) BY <1>5 DEF SameBut, Waits
<1>10. QED BY <1>1, <1>4, <1>5, <1>6, <1>7, <1>8, <1>9, GoesSound

\* The client's end of the connection goes.
LEMMA ClientGoesInv ==
  ASSUME RelayInv, NEW c \in Clients, ClientGoes(c)
  PROVE  RelayInv'
<1>1. PICK s : s = conn[c] OBVIOUS
<1>2. PICK u : u = [s EXCEPT !.sock = "gone"] OBVIOUS
<1>3. s \in Tasks /\ TaskOK(c, s, meter, opened, finals) /\ Books(meter) /\ Below(meter)
      /\ unsent \in [Ids -> Nat]
  BY <1>1, TaskFacts
<1>4. /\ Goes(c, u, meter) /\ unsent' = unsent
      /\ opened' = opened /\ finals' = finals /\ atTrip' = atTrip
  BY <1>1, <1>2 DEF ClientGoes, Goes
<1>5. u \in Tasks /\ SameBut(s, u) /\ u.pc = s.pc /\ u.next = s.next /\ u.up = s.up
  BY <1>2, <1>3 DEF Tasks, SameBut
<1>6. Does(meter, s.tunnel) /\ Touch(meter, meter, s.tunnel)
  BY <1>1, <1>3, DoesNothing, TouchNothing
<1>7. TaskOK(c, u, meter, opened, finals) BY ONLY <1>3, <1>5, <1>6, StaysOK
<1>8. u.tunnel = s.tunnel /\ (Waits(u) <=> Waits(s)) BY <1>5 DEF SameBut, Waits
<1>9. QED BY <1>1, <1>3, <1>4, <1>5, <1>6, <1>7, <1>8, GoesSound

\* The watchdog closes a client that does not go on.
LEMMA WatchdogClosesInv ==
  ASSUME RelayInv, NEW c \in Clients, WatchdogCloses(c)
  PROVE  RelayInv'
<1>1. PICK s : s = conn[c] OBVIOUS
<1>2. PICK m : m = IF s.tunnel = 0 THEN meter ELSE Finish(meter, s.tunnel, "ok") OBVIOUS
<1>3. PICK w : w = AbortUp(m, s) OBVIOUS
<1>4. PICK t : t = Aborted(s) OBVIOUS
<1>5. PICK u : u = [t EXCEPT !.sock = "gone"] OBVIOUS
<1>6. s \in Tasks /\ TaskOK(c, s, meter, opened, finals) /\ Books(meter)
      /\ unsent \in [Ids -> Nat]
  BY <1>1, TaskFacts
<1>7. /\ Goes(c, u, w) /\ unsent' = Emptied(unsent, s)
      /\ opened' = opened /\ finals' = finals /\ atTrip' = atTrip
  BY <1>1, <1>2, <1>3, <1>4, <1>5 DEF WatchdogCloses
<1>8. Does(w, s.tunnel)
  <2>1. Does(meter, s.tunnel) BY <1>1, DoesNothing
  <2>2. Does(m, s.tunnel) BY <1>1, <1>2, <2>1, FinishDoes
  <2>3. QED BY <1>1, <1>3, <2>2, AbortDoes
<1>9. u \in Tasks /\ SameBut(s, u) /\ u.pc = s.pc /\ u.next = s.next
      /\ u.up # "live" /\ (s.up # "live" => u.up = s.up)
  <2>1. t \in Tasks /\ SameBut(s, t) /\ t.pc = s.pc /\ t.next = s.next
        /\ t.up # "live" /\ (s.up # "live" => t.up = s.up)
    BY <1>4, <1>6, AbortedType
  <2>2. QED BY <1>5, <2>1 DEF Tasks, SameBut
<1>10. Touch(meter, w, s.tunnel) BY <1>8 DEF Does
<1>11. TaskOK(c, u, w, opened, finals) BY ONLY <1>6, <1>9, <1>10, StaysOK
<1>12. unsent' \in [Ids -> Nat] BY <1>6, <1>7, EmptiedType
<1>13. u.tunnel = s.tunnel /\ (Waits(u) <=> Waits(s)) BY <1>9 DEF SameBut, Waits
<1>14. QED BY <1>1, <1>7, <1>8, <1>9, <1>11, <1>12, <1>13, GoesSound

\* data_received: a byte is counted, whatever the task waits for.
LEMMA ReceiveInv ==
  ASSUME RelayInv, NEW c \in Clients, Receive(c)
  PROVE  RelayInv'
<1>1. PICK s : s = conn[c] OBVIOUS
<1>2. PICK u : u = [s EXCEPT !.reply = IF s.reply = "none" THEN "bytes" ELSE s.reply] OBVIOUS
<1>3. PICK cs : cs = [conn EXCEPT ![c] = u] OBVIOUS
<1>4. PICK w : w = Add(meter, s.bound, 0, 1, 0) OBVIOUS
<1>5. s \in Tasks /\ TaskOK(c, s, meter, opened, finals) /\ Books(meter) /\ Below(meter)
      /\ unsent \in [Ids -> Nat] /\ conn \in [Clients -> Tasks]
      /\ finals \in [Ids -> SUBSET {"407", "other"}]
      /\ (s.tunnel # 0 => s.tunnel \in Ids)
  BY <1>1, TaskFacts
<1>6. /\ s.up = "live" /\ Settle(meter, w, cs, unsent)
      /\ opened' = opened /\ finals' = finals
  <2>1. cs = [conn EXCEPT ![c].reply = IF @ = "none" THEN "bytes" ELSE @]
    BY <1>1, <1>2, <1>3, <1>5
  <2>2. QED BY <1>1, <1>4, <2>1 DEF Receive, AddReceived
<1>7. u \in Tasks /\ SameBut(s, u) /\ u.pc = s.pc /\ u.next = s.next /\ u.up = s.up
      /\ u.tunnel = s.tunnel /\ u.bound = s.bound
  BY <1>2, <1>5 DEF Tasks, SameBut
<1>8. Does(meter, s.tunnel) /\ Touch(meter, meter, s.tunnel)
  BY <1>1, <1>5, DoesNothing, TouchNothing
<1>9. TaskOK(c, u, meter, opened, finals) BY ONLY <1>5, <1>7, <1>8, StaysOK
<1>10. Sound(meter, conn, opened, finals, atTrip) BY DEF RelayInv
<1>11. (Waits(u) <=> Waits(s)) /\ (s.tunnel # 0 => Tells(s.tunnel, meter, finals))
  BY <1>7, <1>8 DEF Waits, Does
<1>12. Sound(meter, cs, opened, finals, atTrip)
  BY ONLY c \in Clients, <1>1, <1>3, <1>5, <1>7, <1>8, <1>9, <1>10, <1>11, StepSound
<1>13. cs \in [Clients -> Tasks] /\ cs[c].up = "live" /\ cs[c].bound = s.bound
  BY <1>3, <1>5, <1>6, <1>7
<1>14. Follows(cs, cs, ToAbort(meter, w)) BY DEF Follows
<1>15. /\ meter' = AbortAll(w, CutOff(cs, ToAbort(meter, w)), cs, unsent)
       /\ conn' = AfterTail(cs, ToAbort(meter, w))
       /\ atTrip' = TripMark(meter, w, atTrip)
       /\ unsent' \in [Ids -> Nat]
  BY <1>5, <1>6, SettleParts
<1>16. 0 \in Nat /\ 1 \in Nat OBVIOUS
<1>17. Sound(meter', conn', opened, finals, atTrip')
  BY ONLY c \in Clients, <1>4, <1>5, <1>12, <1>13, <1>14, <1>15, <1>16, SettleSound
<1>18. QED BY <1>6, <1>15, <1>17 DEF RelayInv

\* The statuses that an answer leaves behind: the ok_status of an open record says
\* that every answer on it was the provider's 407.
LEMMA AnswersInv ==
  ASSUME RelayInv, NEW c \in Clients, NEW rejects \in BOOLEAN, Answers(c, rejects)
  PROVE  RelayInv'
<1>1. PICK s : s = conn[c] OBVIOUS
<1>2. PICK i : i = s.tunnel OBVIOUS
<1>3. PICK b : b = (RouteOf[s.host] = "http-connect") OBVIOUS
<1>4. PICK q : q = (s.passed \/ (b /\ ~rejects)) OBVIOUS
<1>5. PICK u : u = [s EXCEPT !.reply = "head", !.passed = q] OBVIOUS
<1>6. PICK w : w = IF b /\ ~rejects THEN SetOkStatus(meter, i, "ok")
                   ELSE IF b /\ ~s.passed THEN SetOkStatus(meter, i, "failed:upstream_status")
                   ELSE meter
  OBVIOUS
<1>7. PICK a : a = IF b /\ rejects THEN "407" ELSE "other" OBVIOUS
<1>8. s \in Tasks /\ TaskOK(c, s, meter, opened, finals) /\ Books(meter) /\ Below(meter)
      /\ meter \in Meters /\ unsent \in [Ids -> Nat] /\ conn \in [Clients -> Tasks]
      /\ finals \in [Ids -> SUBSET {"407", "other"}]
      /\ (s.tunnel # 0 => s.tunnel \in Ids /\ s.tunnel < meter.next /\ Tells(s.tunnel, meter, finals))
  BY <1>1, TaskFacts
<1>9. /\ s.pc = "exchanging" /\ s.up = "live" /\ Goes(c, u, w)
      /\ finals' = [finals EXCEPT ![i] = @ \cup {a}]
      /\ unsent' = unsent /\ opened' = opened /\ atTrip' = atTrip
  BY <1>1, <1>2, <1>3, <1>4, <1>5, <1>6, <1>7 DEF Answers, Answering, RouteFor
<1>10. i # 0 /\ i \in Ids /\ i < meter.next /\ s.bound = i /\ i \in meter.open /\ s.keep
       /\ Tells(i, meter, finals)
  BY <1>2, <1>8, <1>9 DEF TaskOK, Stands, Connected
<1>11. a \in {"407", "other"} /\ q \in BOOLEAN BY <1>4, <1>7
<1>12. /\ finals' \in [Ids -> SUBSET {"407", "other"}] /\ finals'[i] = finals[i] \cup {a}
       /\ \A j \in Ids \ {i} : finals'[j] = finals[j]
  BY <1>8, <1>9, <1>10, <1>11
<1>13. /\ Books(w) /\ Below(w) /\ Touch(meter, w, i) /\ w.rec = meter.rec /\ w.open = meter.open
       /\ w.okStatus[i] = IF b /\ ~rejects THEN "ok"
                          ELSE IF b /\ ~s.passed THEN "failed:upstream_status"
                          ELSE meter.okStatus[i]
  <2>1. CASE w = meter /\ ~(b /\ ~rejects) /\ ~(b /\ ~s.passed) BY <1>8, <2>1, TouchNothing
  <2>2. ASSUME NEW k \in {"ok", "failed:upstream_status"}, w = SetOkStatus(meter, i, k)
        PROVE  /\ Books(w) /\ Below(w) /\ Touch(meter, w, i) /\ w.rec = meter.rec
               /\ w.open = meter.open /\ w.okStatus[i] = k
    <3>1. Books(w) /\ Quiet(meter, w) BY <1>8, <1>10, <2>2, SetOkStatusKeeps
    <3>2. meter.open \subseteq Ids BY <1>8 DEF Meters
    <3>3. Below(w) BY <1>8, <3>1, <3>2, QuietBelow
    <3>4. /\ w.rec = meter.rec /\ w.open = meter.open /\ w.okStatus = [meter.okStatus EXCEPT ![i] = k]
      BY <1>8, <2>2 DEF SetOkStatus, Meters
    <3>5. w.okStatus[i] = k /\ \A j \in Ids \ {i} : w.okStatus[j] = meter.okStatus[j]
      BY <1>8, <1>10, <3>4 DEF Meters
    <3>6. /\ w.next = meter.next /\ w.tripped = meter.tripped
          /\ meter.open \cup meter.closing \subseteq w.open \cup w.closing
      BY <3>1 DEF Quiet, SameTunnels, SaysNothing
    <3>7. QED BY <3>1, <3>3, <3>4, <3>5, <3>6 DEF Touch
  <2>3. QED BY <1>6, <2>1, <2>2
<1>14. meter.rec[i].status = "open" BY <1>8, <1>10 DEF Books
<1>15. /\ meter.okStatus[i] = "failed:upstream_status" <=> finals[i] = {"407"}
       /\ IF b THEN s.passed <=> "other" \in finals[i] ELSE "407" \notin finals[i]
       /\ finals[i] \subseteq {"407", "other"}
  BY <1>2, <1>3, <1>8, <1>10, <1>14 DEF Tells, TaskOK, Owns
<1>16. /\ w.okStatus[i] = "failed:upstream_status" <=> finals'[i] = {"407"}
       /\ IF b THEN q <=> "other" \in finals'[i] ELSE "407" \notin finals'[i]
  <2>1. CASE b /\ ~rejects
    <3>1. a = "other" /\ q /\ w.okStatus[i] = "ok" BY <1>4, <1>7, <1>13, <2>1
    <3>2. "other" \in finals'[i] BY <1>12, <3>1
    <3>3. QED BY <2>1, <3>1, <3>2
  <2>2. CASE b /\ rejects /\ ~s.passed BY <1>4, <1>7, <1>12, <1>13, <1>15, <2>2
  <2>3. CASE b /\ rejects /\ s.passed BY <1>4, <1>7, <1>12, <1>13, <1>15, <2>3
  <2>4. CASE ~b BY <1>4, <1>7, <1>12, <1>13, <1>15, <2>4
  <2>5. QED BY <2>1, <2>2, <2>3, <2>4
<1>17. Tells(i, w, finals') BY <1>13, <1>14, <1>16 DEF Tells, Normal, SetupFailures
<1>18. /\ u \in Tasks /\ u.pc = "exchanging" /\ u.host = s.host /\ u.tunnel = i /\ u.bound = i
       /\ u.keep /\ (u.passed <=> q)
  BY <1>2, <1>5, <1>8, <1>9, <1>10, <1>11 DEF Tasks
<1>19. TaskOK(c, u, w, opened, finals')
  <2>1. /\ i < w.next /\ i \in w.open \cup w.closing /\ opened[i] = <<c, s.host>>
        /\ w.rec[i].route = RouteOf[s.host]
    BY <1>2, <1>8, <1>10, <1>13 DEF Touch, TaskOK, Owns
  <2>2. Owns(c, u, w, opened, finals') BY <1>3, <1>16, <1>18, <2>1 DEF Owns
  <2>3. Connected(u, w) BY <1>10, <1>13, <1>18 DEF Connected
  <2>4. Stands(u, w, finals') BY <1>10, <1>18 DEF Stands
  <2>5. QED BY <2>2, <2>3, <2>4 DEF TaskOK
<1>20. ~Waits(u) /\ u.tunnel = i BY <1>18 DEF Waits
<1>21. meter' = w /\ conn' = [conn EXCEPT ![c] = u] BY <1>9 DEF Goes
<1>22. Sound(meter, conn, opened, finals, atTrip) BY DEF RelayInv
<1>23. Sound(w, conn', opened, finals', atTrip)
  <2>1. PICK fi : fi = finals' OBVIOUS
  <2>2. PICK ds : ds = [conn EXCEPT ![c] = u] OBVIOUS
  <2>3. AnswersOn(finals, fi, i) /\ Tells(i, w, fi) /\ TaskOK(c, u, w, opened, fi)
    BY <1>12, <1>17, <1>19, <2>1 DEF AnswersOn
  <2>4. /\ i = conn[c].tunnel /\ u \in Tasks /\ Touch(meter, w, i) /\ ~Waits(u)
        /\ i # 0 => Tells(i, w, fi) /\ (w.rec[i].status = "open" => u.tunnel = i)
    BY <1>1, <1>2, <1>13, <1>20, <1>18, <2>3
  <2>5. Sound(w, ds, opened, fi, atTrip)
    BY ONLY c \in Clients, <1>22, <2>2, <2>3, <2>4, AnswerSound
  <2>6. QED BY <1>21, <2>1, <2>2, <2>5
<1>24. QED BY <1>8, <1>9, <1>21, <1>23 DEF RelayInv

\* A task that may open a tunnel has a record left for it.
LEMMA NextIsFree ==
  ASSUME RelayInv, NEW c \in Clients, Waits(conn[c]) \/ Room
  PROVE  /\ meter.next \in Ids
         /\ finals[meter.next] = {} /\ meter.okStatus[meter.next] = "ok"
<1> DEFINE W == WaitingIn(conn)
           n == Cardinality(W)
<1>1. /\ meter.next \in 1 .. (MaxRecords + 1) /\ HasRoom(meter, conn)
      /\ \A j \in Ids : RecordOK(j, meter, conn, opened, finals)
  BY DEF RelayInv, Sound, Books, Meters
<1>2. IsFiniteSet(W) BY RelayAssumption, FS_Subset DEF WaitingIn
<1>3. n \in Nat /\ (n = 0 <=> W = {}) BY <1>2, FS_CardinalityType, FS_EmptySet
<1>4. Waits(conn[c]) => c \in W BY DEF WaitingIn, Waits
<1>5. meter.next + n <= MaxRecords + 1 BY <1>1 DEF HasRoom
<1>6. Room => meter.next + n \in Ids BY DEF Room, Waiting, WaitingIn
<1> HIDE DEF W, n
<1>7. meter.next \in Ids
  <2>1. CASE Waits(conn[c]) BY <1>1, <1>3, <1>4, <1>5, <2>1, MeterAssumption DEF Ids
  <2>2. CASE Room BY <1>1, <1>3, <1>6, <2>2, MeterAssumption DEF Ids
  <2>3. QED BY <2>1, <2>2
<1>8. meter.next >= meter.next BY <1>1
<1>9. QED BY <1>1, <1>7, <1>8 DEF RecordOK

\* _open_tunnel of a task that has none.
LEMMA OpensTunnelSound ==
  ASSUME RelayInv, NEW c \in Clients, NEW t, t \in Tasks, conn[c].tunnel = 0, ~t.keep,
         RouteOf[t.host] # "denied",
         Waits(conn[c]) \/ (~meter.tripped /\ Room),
         OpensTunnel(c, t), unsent' = unsent, finals' = finals, atTrip' = atTrip
  PROVE  RelayInv'
<1>1. PICK i : i = meter.next OBVIOUS
<1>2. PICK route : route = RouteOf[t.host] OBVIOUS
<1>3. PICK w : w = OpenTunnel(meter, route, 0) OBVIOUS
<1>4. PICK u : u = [t EXCEPT !.pc = "connecting", !.tunnel = i, !.up = "none",
                             !.bound = 0, !.charged = {}, !.served = FALSE, !.passed = FALSE]
  OBVIOUS
<1>5. PICK op2 : op2 = [opened EXCEPT ![i] = <<c, t.host>>] OBVIOUS
<1>6. PICK r : r = NewRecord(route, "open", 0) OBVIOUS
<1>7. meter' = w /\ conn' = [conn EXCEPT ![c] = u] /\ opened' = op2
  BY <1>1, <1>2, <1>3, <1>4, <1>5 DEF OpensTunnel, Goes
<1>8. /\ Sound(meter, conn, opened, finals, atTrip) /\ Books(meter) /\ Below(meter)
      /\ meter \in Meters /\ unsent \in [Ids -> Nat]
      /\ opened \in [Ids -> {<<>>} \cup Clients \X Hosts]
  BY DEF RelayInv, Sound, Books
<1>9. meter.next \in Ids /\ i \in Ids /\ finals[i] = {} BY <1>1, NextIsFree
<1>10. t.host \in Hosts BY DEF Tasks
<1>11. route \in OpenRoutes /\ 0 \in 0 .. MaxRecords
  BY <1>2, <1>10, RelayAssumption, MeterAssumption
<1>12. Books(w) BY <1>3, <1>8, <1>9, <1>11, OpenTunnelBooks
<1>13. Adds(meter, w, r) /\ w.base = meter.base /\ w.open = meter.open \cup {i}
  BY <1>1, <1>3, <1>6, <1>8, <1>9, OpenTunnelAdds
<1>14. r.sent = 0 /\ r.recv = 0 /\ r.status = "open" /\ r.route = route
  BY <1>6 DEF NewRecord, NoRecord
<1>15. Below(w)
  <2>1. Cap # 0 => 0 < Cap BY MeterAssumption
  <2>2. QED BY <1>8, <1>9, <1>13, <1>14, <2>1, AddsBelow
<1>16. w.okStatus = meter.okStatus BY <1>3, <1>8 DEF OpenTunnel, AppendRecord, Meters
<1>17. /\ w.next = i + 1 /\ w.rec[i] = r /\ \A j \in Ids \ {i} : w.rec[j] = meter.rec[j]
       /\ w.closing = meter.closing /\ w.tripped = meter.tripped
  BY <1>1, <1>13 DEF Adds, SaysNothing
<1>18. /\ u \in Tasks /\ u.pc = "connecting" /\ u.tunnel = i /\ u.up = "none" /\ ~u.keep
       /\ u.host = t.host /\ u.passed = FALSE
  <2>1. i \in 0 .. MaxRecords BY <1>9 DEF Ids
  <2>2. QED BY <1>4, <1>11, <2>1 DEF Tasks
<1>19. TaskOK(c, u, w, op2, finals)
  <2>1. i # 0 /\ i < w.next BY <1>9, <1>17 DEF Ids
  <2>2. op2[i] = <<c, t.host>> BY <1>5, <1>8, <1>9
  <2>3. Owns(c, u, w, op2, finals) BY <1>2, <1>9, <1>13, <1>14, <1>17, <1>18, <2>1, <2>2 DEF Owns
  <2>4. Connected(u, w) BY <1>18 DEF Connected
  <2>5. Stands(u, w, finals) BY <1>9, <1>18, <2>1 DEF Stands
  <2>6. QED BY <2>3, <2>4, <2>5 DEF TaskOK
<1>20. ~Waits(u) BY <1>18 DEF Waits
<1>21. Waits(conn[c]) \/ (~meter.tripped /\ meter.next + Cardinality(WaitingIn(conn)) \in Ids)
  BY DEF Room, Waiting, WaitingIn
<1>22. PICK ds : ds = [conn EXCEPT ![c] = u] OBVIOUS
<1>23. PICK p : p = conn[c].tunnel OBVIOUS
<1>24. Sound(w, ds, op2, finals, atTrip)
  <2>1. p = 0 BY <1>23
  <2>2. \A j \in Ids \ {p, i} : w.rec[j] = meter.rec[j] BY <1>17, <2>1
  <2>3. Opens(meter, w, p, i) BY <1>1, <1>12, <1>13, <1>14, <1>15, <1>16, <1>17, <2>2 DEF Opens
  <2>4. p # 0 => Tells(p, w, finals) /\ w.rec[p].status # "open" BY <2>1
  <2>5. op2 = [opened EXCEPT ![i] = <<c, u.host>>] BY <1>5, <1>18
  <2>6. QED BY ONLY c \in Clients, <1>1, <1>8, <1>9, <1>18, <1>19, <1>20, <1>21,
               <1>22, <1>23, <2>3, <2>4, <2>5, NewSound
<1>25. QED BY <1>7, <1>8, <1>22, <1>24 DEF RelayInv

\* A refused reuse opens a tunnel when the old connection is closed.
LEMMA OpenAfterCloseInv ==
  ASSUME RelayInv, NEW c \in Clients, OpenAfterClose(c)
  PROVE  RelayInv'
<1>1. PICK t : t = conn[c] OBVIOUS
<1>2. t \in Tasks /\ TaskOK(c, t, meter, opened, finals) BY <1>1, TaskFacts
<1>3. /\ t.pc = "closing" /\ t.next = "open" /\ OpensTunnel(c, t)
      /\ unsent' = unsent /\ finals' = finals /\ atTrip' = atTrip
  BY <1>1 DEF OpenAfterClose
<1>4. t.tunnel = 0 /\ ~t.keep /\ RouteOf[t.host] # "denied" BY <1>2, <1>3 DEF TaskOK, Stands
<1>5. Waits(t) BY <1>3 DEF Waits
<1>6. QED BY <1>1, <1>2, <1>3, <1>4, <1>5, OpensTunnelSound

\* A request opens its tunnel.
LEMMA StartTunnelInv ==
  ASSUME RelayInv, NEW c \in Clients, NEW kind \in Kinds, NEW host \in Hosts,
         StartTunnel(c, kind, host)
  PROVE  RelayInv'
<1>1. PICK s : s = conn[c] OBVIOUS
<1>2. PICK t : t = [s EXCEPT !.kind = kind, !.host = host] OBVIOUS
<1>3. s \in Tasks /\ TaskOK(c, s, meter, opened, finals) BY <1>1, TaskFacts
<1>4. /\ t \in Tasks /\ t.tunnel = s.tunnel /\ t.host = host /\ t.keep = s.keep
  BY <1>2, <1>3 DEF Tasks
<1>5. /\ s.pc = "reading" /\ ~meter.tripped /\ RouteOf[host] # "denied" /\ Room
      /\ IF t.keep THEN CloseSession(c, t, meter, "open") /\ opened' = opened
         ELSE OpensTunnel(c, t) /\ unsent' = unsent
      /\ finals' = finals /\ atTrip' = atTrip
  BY <1>1, <1>2 DEF StartTunnel, Asks, Refuses
<1>6. CASE t.keep
  <2>1. t.tunnel # 0 BY <1>3, <1>4, <1>6 DEF TaskOK, Stands
  <2>2. QED BY <1>1, <1>4, <1>5, <1>6, <2>1, CloseSessionSound
<1>7. CASE ~t.keep
  <2>1. s.tunnel = 0 BY <1>3, <1>4, <1>5, <1>7 DEF TaskOK, Stands
  <2>2. QED BY <1>1, <1>4, <1>5, <1>7, <2>1, OpensTunnelSound
<1>8. QED BY <1>6, <1>7

\* A refusal, once the record it may have appended is there: the kept session closes.
LEMMA RefusedSound ==
  ASSUME RelayInv, NEW c \in Clients, conn[c].pc = "reading",
         NEW m, NEW op2, Sound(m, conn, op2, finals, atTrip),
         NEW t, t \in Tasks, t.tunnel = conn[c].tunnel, t.keep = conn[c].keep, t.up = conn[c].up,
         IF t.keep THEN CloseSession(c, t, m, "refuse")
         ELSE Goes(c, [t EXCEPT !.pc = "lingering", !.next = "end"], m) /\ unsent' = unsent,
         opened' = op2, finals' = finals, atTrip' = atTrip
  PROVE  RelayInv'
<1>1. PICK s : s = conn[c] OBVIOUS
<1>2. /\ s \in Tasks /\ TaskOK(c, s, m, op2, finals) /\ Books(m) /\ Below(m)
      /\ \A j \in Ids : RecordOK(j, m, conn, op2, finals)
  BY <1>1 DEF Sound
<1>3. unsent \in [Ids -> Nat] BY DEF RelayInv
<1>4. PICK p : p = s.tunnel OBVIOUS
<1>5. p # 0 => p \in Ids /\ p < m.next /\ Tells(p, m, finals)
  <2>1. p # 0 => p \in Ids BY <1>2, <1>4 DEF Tasks, Ids
  <2>2. QED BY <1>2, <1>4, <2>1, RecordParts DEF TaskOK, Owns
<1>6. CASE t.keep
  <2>1. PICK w : w = Finish(m, p, "ok") OBVIOUS
  <2>2. PICK u : u = [t EXCEPT !.pc = "closing", !.next = "refuse", !.keep = FALSE, !.tunnel = 0,
                               !.up = "gone", !.charged = {}]
    OBVIOUS
  <2>3. p # 0 BY <1>1, <1>2, <1>4, <1>6 DEF TaskOK, Stands
  <2>4. meter' = w /\ conn' = [conn EXCEPT ![c] = u] /\ unsent' = Emptied(unsent, t)
    BY <1>1, <1>4, <1>6, <2>1, <2>2 DEF CloseSession, Closes, Goes
  <2>5. "ok" \in {"ok"} \cup Failures /\ "ok" \notin SetupFailures BY DEF SetupFailures
  <2>6. Touch(m, w, p) /\ w.rec[p].status # "open" BY <1>2, <1>5, <2>1, <2>3, <2>5, FinishTouches
  <2>7. Tells(p, w, finals) BY <1>2, <1>5, <2>1, <2>3, <2>5, FinishTells
  <2>8. u \in Tasks /\ Free(u) /\ ~Waits(u)
    <3>1. 0 \in 0 .. MaxRecords BY MeterAssumption
    <3>2. QED BY <2>2, <3>1 DEF Tasks, Free, Waits
  <2>9. TaskOK(c, u, w, op2, finals)
    <3>1. Books(w) BY <2>6 DEF Touch
    <3>2. QED BY <2>8, <3>1, FreeOK
  <2>10. p = conn[c].tunnel BY <1>1, <1>4
  <2>11. PICK ds : ds = [conn EXCEPT ![c] = u] OBVIOUS
  <2>12. Sound(w, ds, op2, finals, atTrip)
    BY ONLY c \in Clients, Sound(m, conn, op2, finals, atTrip),
            <2>6, <2>7, <2>8, <2>9, <2>10, <2>11, StepSound
  <2>13. QED BY <1>3, <2>4, <2>11, <2>12, EmptiedType DEF RelayInv
<1>7. CASE ~t.keep
  <2>1. PICK u : u = [t EXCEPT !.pc = "lingering", !.next = "end"] OBVIOUS
  <2>2. p = 0 BY <1>1, <1>2, <1>4, <1>7 DEF TaskOK, Stands
  <2>3. t.up # "live" BY <1>1, <1>2, <1>4, <2>2 DEF TaskOK, Connected
  <2>4. u \in Tasks /\ Free(u) /\ ~Waits(u)
    BY <1>1, <1>4, <1>7, <2>1, <2>2, <2>3 DEF Tasks, Free, Waits
  <2>5. TaskOK(c, u, m, op2, finals) BY <1>2, <2>4, FreeOK
  <2>6. Touch(m, m, p) BY <1>2, TouchNothing
  <2>7. p = conn[c].tunnel BY <1>1, <1>4
  <2>8. PICK ds : ds = [conn EXCEPT ![c] = u] OBVIOUS
  <2>9. Sound(m, ds, op2, finals, atTrip)
    BY ONLY c \in Clients, Sound(m, conn, op2, finals, atTrip),
            <2>2, <2>4, <2>5, <2>6, <2>7, <2>8, StepSound
  <2>10. meter' = m /\ conn' = ds /\ unsent' = unsent BY <1>7, <2>1, <2>8 DEF Goes
  <2>11. QED BY <1>3, <2>9, <2>10 DEF RelayInv
<1>8. QED BY <1>6, <1>7

\* A request is refused.
LEMMA RefuseInv ==
  ASSUME RelayInv, NEW c \in Clients, NEW kind \in Kinds, NEW host \in Hosts,
         Refuse(c, kind, host)
  PROVE  RelayInv'
<1>1. PICK s : s = conn[c] OBVIOUS
<1>2. PICK t : t = [s EXCEPT !.kind = kind, !.host = host] OBVIOUS
<1>3. PICK m : m = IF meter.tripped THEN meter ELSE RecordDenied(meter) OBVIOUS
<1>4. PICK op2 : op2 = IF meter.tripped THEN opened ELSE [opened EXCEPT ![meter.next] = <<c, host>>]
  OBVIOUS
<1>5. s \in Tasks BY <1>1, TaskFacts
<1>6. /\ t \in Tasks /\ t.tunnel = s.tunnel /\ t.keep = s.keep /\ t.up = s.up
  BY <1>2, <1>5 DEF Tasks
<1>7. /\ s.pc = "reading" /\ (meter.tripped \/ Room)
      /\ IF t.keep THEN CloseSession(c, t, m, "refuse")
         ELSE Goes(c, [t EXCEPT !.pc = "lingering", !.next = "end"], m) /\ unsent' = unsent
      /\ opened' = op2 /\ finals' = finals /\ atTrip' = atTrip
  BY <1>1, <1>2, <1>3, <1>4 DEF Refuse, Asks
<1>8. Sound(meter, conn, opened, finals, atTrip) BY DEF RelayInv
<1>9. Sound(m, conn, op2, finals, atTrip)
  <2>1. CASE meter.tripped BY <1>3, <1>4, <1>8, <2>1
  <2>2. CASE ~meter.tripped
    <3>1. PICK i : i = meter.next OBVIOUS
    <3>2. i + Cardinality(WaitingIn(conn)) \in Ids BY <1>7, <2>2, <3>1 DEF Room, Waiting, WaitingIn
    <3>3. m = RecordDenied(meter) /\ op2 = [opened EXCEPT ![i] = <<c, host>>]
      BY <1>3, <1>4, <2>2, <3>1
    <3>4. QED BY ONLY c \in Clients, host \in Hosts, <1>8, <2>2, <3>1, <3>2, <3>3, DeniedSound
  <2>3. QED BY <2>1, <2>2
<1>10. QED BY <1>1, <1>6, <1>7, <1>9, RefusedSound

\* A kept provider connection goes on to another host: the new record opens before the
\* old one closes, so the connection is never without one.
LEMMA ContinueInv ==
  ASSUME RelayInv, NEW c \in Clients, NEW host \in Hosts, Continue(c, host)
  PROVE  RelayInv'
<1>1. PICK s : s = conn[c] OBVIOUS
<1>2. PICK p : p = s.tunnel OBVIOUS
<1>3. PICK i : i = meter.next OBVIOUS
<1>4. PICK o : o = ContinueConnection(OpenTunnel(meter, "http-connect", p), p, i) OBVIOUS
<1>5. PICK m : m = Finish(o, p, "ok") OBVIOUS
<1>6. PICK t : t = OnRecord(s, host, i) OBVIOUS
<1>7. PICK u : u = Wrote(t, "exchanging") OBVIOUS
<1>8. PICK op2 : op2 = [opened EXCEPT ![i] = <<c, host>>] OBVIOUS
<1>9. PICK cs : cs = [conn EXCEPT ![c] = u] OBVIOUS
<1>10. PICK r : r = NewRecord("http-connect", "open", p) OBVIOUS
<1>11. /\ s.pc = "reading" /\ s.keep /\ s.up = "live" /\ ~meter.tripped /\ Room
       /\ RouteOf[s.host] = "http-connect" /\ RouteOf[host] = "http-connect"
       /\ Writes(c, t, m, 0, "exchanging")
       /\ opened' = op2 /\ finals' = finals
  BY <1>1, <1>2, <1>3, <1>4, <1>5, <1>6, <1>8
  DEF Continue, Asks, Refuses, Serves, Usable, RouteFor
<1>12. /\ s \in Tasks /\ TaskOK(c, s, meter, opened, finals) /\ Books(meter) /\ Below(meter)
       /\ unsent \in [Ids -> Nat] /\ conn \in [Clients -> Tasks]
       /\ (s.tunnel # 0 => s.tunnel \in Ids /\ s.tunnel < meter.next /\ Tells(s.tunnel, meter, finals)
                           /\ meter.rec[s.tunnel].route = RouteOf[s.host])
  BY <1>1, TaskFacts
<1>13. p # 0 /\ p \in meter.open /\ p \in Ids /\ p < i /\ Tells(p, meter, finals)
       /\ meter.rec[p].route = "http-connect"
  BY <1>2, <1>3, <1>11, <1>12 DEF TaskOK, Connected
<1>14. meter.next \in Ids /\ i \in Ids /\ finals[i] = {} BY <1>3, <1>11, NextIsFree
<1>15. Books(o) /\ Below(o) /\ Adds(meter, o, r)
  BY <1>3, <1>4, <1>10, <1>12, <1>13, <1>14, ContinueFacts
<1>16. meter \in Meters BY <1>12 DEF Books
<1>17. o.okStatus = meter.okStatus
  BY <1>4, <1>16 DEF ContinueConnection, OpenTunnel, AppendRecord, Meters
<1>18. r.status = "open" /\ r.route = "http-connect" BY <1>10 DEF NewRecord, NoRecord
<1>19. /\ o.next = i + 1 /\ o.rec[i] = r /\ \A j \in Ids \ {i} : o.rec[j] = meter.rec[j]
       /\ o.open = meter.open \cup {i} /\ o.closing = meter.closing /\ o.tripped = meter.tripped
  BY <1>3, <1>15, <1>18 DEF Adds, SaysNothing
<1>20. p < o.next BY <1>13, <1>14, <1>19 DEF Ids
<1>21. Tells(p, o, finals)
  <2>1. p # i BY <1>13, <1>14 DEF Ids
  <2>2. o.rec[p] = meter.rec[p] BY <1>13, <1>19, <2>1
  <2>3. QED BY <1>13, <1>17, <2>2 DEF Tells
<1>22. "ok" \in {"ok"} \cup Failures /\ "ok" \notin SetupFailures BY DEF SetupFailures
<1>23. /\ Touch(o, m, p) /\ m.rec[p].status # "open" /\ m.okStatus = o.okStatus
  BY <1>5, <1>13, <1>15, <1>20, <1>22, FinishTouches
<1>24. Tells(p, m, finals) BY <1>5, <1>13, <1>15, <1>20, <1>21, <1>22, FinishTells
<1>25. /\ Books(m) /\ m.next = i + 1 /\ m.tripped = meter.tripped /\ m.rec[i] = r
       /\ \A j \in Ids \ {p, i} : m.rec[j] = meter.rec[j]
       /\ Opens(meter, m, p, i)
  <2>1. /\ Books(m) /\ Below(m) /\ m.next = o.next /\ m.tripped = o.tripped
        /\ o.open \cup o.closing \subseteq m.open \cup m.closing
        /\ \A j \in Ids \ {p} : m.rec[j] = o.rec[j]
    BY <1>23 DEF Touch
  <2>2. m.rec[i] = r BY <1>13, <1>14, <1>19, <2>1 DEF Ids
  <2>3. \A j \in Ids \ {p, i} : m.rec[j] = meter.rec[j] BY <1>19, <2>1
  <2>4. meter.open \cup meter.closing \subseteq m.open \cup m.closing BY <1>19, <2>1
  <2>5. QED BY <1>3, <1>17, <1>18, <1>19, <1>23, <2>1, <2>2, <2>3, <2>4 DEF Opens
<1>26. i \in m.open BY <1>14, <1>18, <1>25 DEF Books
<1>27. /\ t \in Tasks /\ t.host = host /\ t.tunnel = i /\ t.bound = i /\ t.passed = FALSE
       /\ t.keep = s.keep
  <2>1. i \in 0 .. MaxRecords BY <1>14 DEF Ids
  <2>2. s.charged \cup {i} \in SUBSET Ids BY <1>12, <1>14 DEF Tasks
  <2>3. QED BY <1>6, <1>12, <2>1, <2>2 DEF OnRecord, Tasks
<1>28. /\ u \in Tasks /\ u.host = host /\ u.tunnel = i /\ u.bound = i /\ u.passed = FALSE
       /\ u.keep /\ u.pc = "exchanging"
  BY <1>7, <1>11, <1>27 DEF Wrote, Tasks
<1>29. TaskOK(c, u, m, op2, finals)
  <2>1. i # 0 /\ i < m.next BY <1>14, <1>25 DEF Ids
  <2>2. op2[i] = <<c, host>> BY <1>8, <1>14 DEF RelayInv, Sound
  <2>3. Owns(c, u, m, op2, finals)
    BY <1>11, <1>14, <1>18, <1>25, <1>26, <1>28, <2>1, <2>2 DEF Owns
  <2>4. Connected(u, m) BY <1>26, <1>28, <2>1 DEF Connected
  <2>5. Stands(u, m, finals) BY <1>28, <2>1 DEF Stands
  <2>6. QED BY <2>3, <2>4, <2>5 DEF TaskOK
<1>30. ~Waits(u) /\ p = conn[c].tunnel BY <1>1, <1>2, <1>28 DEF Waits
<1>31. Waits(conn[c]) \/ (~meter.tripped /\ meter.next + Cardinality(WaitingIn(conn)) \in Ids)
  BY <1>11 DEF Room, Waiting, WaitingIn
<1>32. Sound(meter, conn, opened, finals, atTrip) BY DEF RelayInv
<1>33. Sound(m, cs, op2, finals, atTrip)
  <2>1. op2 = [opened EXCEPT ![i] = <<c, u.host>>] BY <1>8, <1>28
  <2>2. p # 0 => Tells(p, m, finals) /\ m.rec[p].status # "open" BY <1>23, <1>24
  <2>3. Opens(meter, m, p, i) BY <1>25
  <2>4. QED BY ONLY c \in Clients, <1>3, <1>9, <1>14, <1>28, <1>29, <1>30, <1>31,
               <1>32, <2>1, <2>2, <2>3, NewSound
<1>34. Sound(meter', conn', op2, finals, atTrip') /\ unsent' \in [Ids -> Nat]
  <2>1. 0 \in Nat /\ "exchanging" \in {"negotiating", "relaying", "exchanging"} OBVIOUS
  <2>2. cs = [conn EXCEPT ![c] = Wrote(t, "exchanging")] BY <1>7, <1>9
  <2>3. Writes(c, t, m, 0, "exchanging") BY <1>11
  <2>4. QED BY ONLY c \in Clients, <1>12, <1>27, <1>33, <2>1, <2>2, <2>3, WritesSound
<1>35. QED BY <1>11, <1>34 DEF RelayInv

\* A tunnel that stop closes ends with its own ok_status, the others as they were.
LEMMA CloseAllTells ==
  ASSUME NEW m, Books(m), NEW w, w = CloseAll(m, "ok"),
         NEW i \in Ids, NEW fi, Tells(i, m, fi)
  PROVE  Tells(i, w, fi) /\ w.rec[i].status # "open" /\ w.rec[i].route = m.rec[i].route
<1>1. m \in Meters /\ "ok" \in FinalStatuses BY DEF Books, FinalStatuses
<1>2. /\ \A j \in Ids \ m.open : w.rec[j] = m.rec[j]
      /\ \A j \in m.open : /\ w.rec[j].status = FinalStatus(m, j, "ok")
                           /\ w.rec[j].route = m.rec[j].route
      /\ w.okStatus = m.okStatus
  BY <1>1, CloseAllFields
<1>3. m.okStatus[i] \in {"ok", "failed:upstream_status"} BY <1>1 DEF Meters
<1>4. CASE i \in m.open
  <2>1. m.rec[i].status = "open" BY <1>4 DEF Books
  <2>2. w.rec[i].status = m.okStatus[i] /\ w.rec[i].route = m.rec[i].route
    BY <1>2, <1>4 DEF FinalStatus
  <2>3. w.rec[i].status \notin SetupFailures /\ w.rec[i].status # "open"
    BY <1>3, <2>2 DEF SetupFailures
  <2>4. QED BY <2>1, <2>2, <2>3 DEF Tells
<1>5. CASE i \notin m.open
  <2>1. w.rec[i] = m.rec[i] /\ m.rec[i].status # "open" BY <1>2, <1>5 DEF Books
  <2>2. QED BY <2>1 DEF Tells
<1>6. QED BY <1>4, <1>5

\* The forwarder stops: every tunnel is closed and every live socket aborted.
LEMMA StopInv ==
  ASSUME RelayInv, Stop
  PROVE  RelayInv'
<1>1. PICK w : w = CloseAll(meter, "ok") OBVIOUS
<1>2. PICK S : S = {c \in Clients : conn[c].up = "live"} OBVIOUS
<1>3. PICK x : x = AbortAll(w, S, conn, unsent) OBVIOUS
<1>4. PICK ds : ds = [c \in Clients |-> Ended(Aborted(conn[c]))] OBVIOUS
<1>5. /\ meter' = x /\ conn' = ds /\ unsent' = [i \in Ids |-> 0]
      /\ opened' = opened /\ finals' = finals /\ atTrip' = atTrip
  BY <1>1, <1>2, <1>3, <1>4 DEF Stop
<1>6. /\ Books(meter) /\ Below(meter) /\ meter \in Meters /\ conn \in [Clients -> Tasks]
      /\ \A c \in Clients : TaskOK(c, conn[c], meter, opened, finals)
      /\ \A j \in Ids : RecordOK(j, meter, conn, opened, finals)
      /\ HasRoom(meter, conn) /\ Late(meter, conn, opened, atTrip)
      /\ opened \in [Ids -> {<<>>} \cup Clients \X Hosts]
      /\ finals \in [Ids -> SUBSET {"407", "other"}] /\ atTrip \in 0 .. (MaxRecords + 1)
      /\ unsent \in [Ids -> Nat]
  BY DEF RelayInv, Sound, Books
<1>7. "ok" \in FinalStatuses /\ meter.open \subseteq Ids BY <1>6 DEF FinalStatuses, Meters
<1>8. Books(w) BY <1>1, <1>6, <1>7, CloseAllBooks
<1>9. Quiet(meter, w) BY <1>1, <1>6, CloseAllQuiet
<1>10. Below(w) BY <1>6, <1>7, <1>9, QuietBelow
<1>11. w.next = meter.next /\ w.tripped = meter.tripped /\ w.okStatus = meter.okStatus
  <2>1. w.okStatus = meter.okStatus BY <1>1, <1>6, <1>7, CloseAllFields
  <2>2. QED BY <1>9, <2>1 DEF Quiet, SameTunnels, SaysNothing
<1>12. \A c \in S : conn[c].bound \in Ids /\ conn[c].bound < w.next /\ conn[c].charged \in SUBSET Ids
  <2> SUFFICES ASSUME NEW c \in S
               PROVE  conn[c].bound \in Ids /\ conn[c].bound < w.next /\ conn[c].charged \in SUBSET Ids
    OBVIOUS
  <2>1. PICK t : t = conn[c] OBVIOUS
  <2>2. c \in Clients /\ t.up = "live" BY <1>2, <2>1
  <2>3. t \in Tasks /\ TaskOK(c, t, meter, opened, finals) BY <1>6, <2>1, <2>2
  <2>4. QED BY <1>6, <1>11, <2>1, <2>2, <2>3, LiveFacts
<1>13. Kept(w, x)
  <2>1. S \in SUBSET Clients BY <1>2
  <2>2. unsent \in [Ids -> Nat] BY <1>6
  <2>3. QED BY ONLY <1>3, <1>8, <1>10, <1>12, <2>1, <2>2, AbortAllKept
<1>14. /\ Books(x) /\ Below(x) /\ x.next = meter.next /\ x.tripped = meter.tripped
       /\ x.okStatus = meter.okStatus
       /\ \A j \in Ids : /\ x.rec[j].status = w.rec[j].status
                         /\ x.rec[j].route = w.rec[j].route
                         /\ AllNegotiation(w.rec[j]) => AllNegotiation(x.rec[j])
  BY <1>11, <1>13 DEF Kept
<1>15. ASSUME NEW c \in Clients
       PROVE  ds[c] \in Tasks /\ Free(ds[c]) /\ ~Waits(ds[c])
  <2>1. PICK a : a = Aborted(conn[c]) OBVIOUS
  <2>2. a \in Tasks /\ a.up # "live" BY <1>6, <2>1, AbortedType
  <2>3. ds[c] = Ended(a) BY <1>4, <2>1
  <2>4. QED BY <2>2, <2>3, EndedType DEF Free, Waits
<1>16. ds \in [Clients -> Tasks] BY <1>4, <1>15
<1>17. WaitingIn(ds) = {} BY <1>15 DEF WaitingIn, Waits
<1>18. ASSUME NEW c \in Clients PROVE TaskOK(c, ds[c], x, opened, finals)
  BY <1>14, <1>15, FreeOK
<1>19. ASSUME NEW j \in Ids PROVE RecordOK(j, x, ds, opened, finals)
  <2>1. /\ Tells(j, meter, finals)
        /\ j >= meter.next => finals[j] = {} /\ meter.okStatus[j] = "ok"
    BY <1>6, RecordParts
  <2>2. Tells(j, w, finals) /\ w.rec[j].status # "open" BY <1>1, <1>6, <2>1, CloseAllTells
  <2>3. Tells(j, x, finals) BY <1>14, <2>2 DEF Tells
  <2>4. QED BY <1>14, <2>1, <2>2, <2>3, RecordParts
<1>20. HasRoom(x, ds)
  <2>1. Cardinality(WaitingIn(ds)) = 0 BY <1>17, FS_EmptySet
  <2>2. x.next <= MaxRecords + 1 /\ x.next \in Nat BY <1>6, <1>14, MeterAssumption DEF Meters
  <2>3. QED BY <2>1, <2>2 DEF HasRoom
<1>21. Late(x, ds, opened, atTrip) BY <1>6, <1>14, <1>17 DEF Late
<1>22. Sound(x, ds, opened, finals, atTrip)
  BY <1>6, <1>14, <1>16, <1>18, <1>19, <1>20, <1>21 DEF Sound
<1>23. QED BY <1>5, <1>22 DEF RelayInv

-----------------------------------------------------------------------------
(* The invariant.                                                          *)

\* Nobody is connected and nothing is recorded.
LEMMA InitInv == Init => RelayInv
<1> SUFFICES ASSUME Init PROVE RelayInv
  OBVIOUS
<1>1. /\ meter = NewMeter /\ conn = [c \in Clients |-> NoConn] /\ unsent = [i \in Ids |-> 0]
      /\ opened = [i \in Ids |-> <<>>] /\ finals = [i \in Ids |-> {}] /\ atTrip = 0
  BY DEF Init
<1>2. /\ meter.next = 1 /\ meter.rec = [i \in Ids |-> NoRecord] /\ meter.open = {}
      /\ meter.closing = {} /\ meter.okStatus = [i \in Ids |-> "ok"]
      /\ meter.base = [i \in Ids |-> 0] /\ meter.counted = 0 /\ ~meter.tripped
      /\ meter.copies = [i \in Ids |-> NoRecord]
  BY <1>1 DEF NewMeter
<1>3. NoRecord \in Records BY MeterAssumption DEF NoRecord, Records
<1>4. meter \in Meters
  <2>1. 1 \in 1 .. (MaxRecords + 1) BY MeterAssumption
  <2>2. <<>> \in Seq(Events) OBVIOUS
  <2>3. QED BY <1>1, <1>3, <2>1, <2>2 DEF NewMeter, Meters
<1>5. Books(meter)
  <2>1. NoRecord.status = "none" /\ NoRecord.negSent = 0 /\ NoRecord.sent = 0
        /\ NoRecord.negRecv = 0 /\ NoRecord.recv = 0
    BY DEF NoRecord
  <2>2. QED BY <1>2, <1>4, <2>1 DEF Books
<1>6. Below(meter) BY <1>2, MeterAssumption DEF Below
<1>7. \A c \in Clients : conn[c] = NoConn BY <1>1
<1>8. Free(NoConn) /\ NoConn \in Tasks /\ ~Waits(NoConn) BY NoConnType DEF Free, Waits
<1>9. conn \in [Clients -> Tasks] BY <1>1, <1>8
<1>10. \A c \in Clients : TaskOK(c, conn[c], meter, opened, finals) BY <1>5, <1>7, <1>8, FreeOK
<1>11. ASSUME NEW i \in Ids PROVE RecordOK(i, meter, conn, opened, finals)
  <2>1. meter.rec[i].status = "none" BY <1>2 DEF NoRecord
  <2>2. finals[i] = {} /\ meter.okStatus[i] = "ok" BY <1>1, <1>2
  <2>3. QED BY <2>1, <2>2 DEF RecordOK, SetupFailures, Normal
<1>12. WaitingIn(conn) = {} BY <1>7, <1>8 DEF WaitingIn, Waits
<1>13. HasRoom(meter, conn)
  <2>1. Cardinality(WaitingIn(conn)) = 0 BY <1>12, FS_EmptySet
  <2>2. QED BY <1>2, <2>1, MeterAssumption DEF HasRoom
<1>14. Late(meter, conn, opened, atTrip) BY <1>1 DEF Late
<1>15. opened \in [Ids -> {<<>>} \cup Clients \X Hosts] /\ finals \in [Ids -> SUBSET {"407", "other"}]
       /\ atTrip \in 0 .. (MaxRecords + 1) /\ unsent \in [Ids -> Nat]
  BY <1>1, MeterAssumption
<1>16. QED BY <1>5, <1>6, <1>9, <1>10, <1>11, <1>13, <1>14, <1>15 DEF RelayInv, Sound

\* A client asks, of whatever kind and for whatever host.
LEMMA RequestInv ==
  ASSUME RelayInv, NEW c \in Clients, NEW kind \in Kinds, NEW host \in Hosts,
         Request(c, kind, host)
  PROVE  RelayInv'
<1>1. CASE Refuse(c, kind, host) BY <1>1, RefuseInv
<1>2. CASE StartTunnel(c, kind, host) BY <1>2, StartTunnelInv
<1>3. CASE Reuse(c) BY <1>3, ReuseInv
<1>4. CASE Continue(c, host) BY <1>4, ContinueInv
<1>5. QED BY <1>1, <1>2, <1>3, <1>4 DEF Request

\* A task takes its next step, whichever it is.
LEMMA ProceedsInv ==
  ASSUME RelayInv, NEW c \in Clients, Proceeds(c)
  PROVE  RelayInv'
<1>1. CASE OpenAfterClose(c) BY <1>1, OpenAfterCloseInv
<1>2. CASE Closed(c) BY <1>2, ClosedInv
<1>3. CASE Lingered(c) BY <1>3, LingeredInv
<1>4. CASE ConnectFails(c) BY <1>4, ConnectFailsInv
<1>5. CASE ConnectsTooLate(c) BY <1>5, ConnectsTooLateInv
<1>6. CASE NegotiationFails(c) BY <1>6, NegotiationFailsInv
<1>7. CASE ClientLeftSetup(c) BY <1>7, ClientLeftSetupInv
<1>8. CASE TunnelAborted(c) BY <1>8, TunnelAbortedInv
<1>9. CASE RelayEnds(c) BY <1>9, RelayEndsInv
<1>10. CASE RelayReset(c) BY <1>10, RelayResetInv
<1>11. CASE ClientLeft(c) BY <1>11, ClientLeftInv
<1>12. QED BY <1>1, <1>2, <1>3, <1>4, <1>5, <1>6, <1>7, <1>8, <1>9, <1>10, <1>11 DEF Proceeds

\* Every step of the relay.
LEMMA NextInv == RelayInv /\ [Next]_vars => RelayInv'
<1> SUFFICES ASSUME RelayInv, [Next]_vars PROVE RelayInv'
  OBVIOUS
<1>1. CASE Stop BY <1>1, StopInv
<1>2. CASE UNCHANGED vars BY <1>2 DEF vars, RelayInv
<1>3. ASSUME NEW c \in Clients, Accept(c) PROVE RelayInv' BY <1>3, AcceptInv
<1>4. ASSUME NEW c \in Clients, NEW kind \in Kinds, NEW host \in Hosts, Request(c, kind, host)
      PROVE  RelayInv'
  BY <1>4, RequestInv
<1>5. ASSUME NEW c \in Clients, Connects(c) PROVE RelayInv' BY <1>5, ConnectsInv
<1>6. ASSUME NEW c \in Clients, Negotiated(c) PROVE RelayInv' BY <1>6, NegotiatedInv
<1>7. ASSUME NEW c \in Clients, Rejected(c) PROVE RelayInv' BY <1>7, RejectedInv
<1>8. ASSUME NEW c \in Clients, Upload(c) PROVE RelayInv' BY <1>8, UploadInv
<1>9. ASSUME NEW c \in Clients, NEW rejects \in BOOLEAN, Answers(c, rejects) PROVE RelayInv'
  BY <1>9, AnswersInv
<1>10. ASSUME NEW c \in Clients, NEW next \in {"keep", "read", "end", "linger"}, ExchangeEnds(c, next)
       PROVE  RelayInv'
  BY <1>10, ExchangeEndsInv
<1>11. ASSUME NEW c \in Clients, Upgrades(c) PROVE RelayInv' BY <1>11, UpgradesInv
<1>12. ASSUME NEW c \in Clients,
              NEW status \in {"ok", "failed:upstream_reset", "failed:upstream_closed"},
              ExchangeFails(c, status)
       PROVE  RelayInv'
  BY <1>12, ExchangeFailsInv
<1>13. ASSUME NEW c \in Clients, Proceeds(c) PROVE RelayInv' BY <1>13, ProceedsInv
<1>14. ASSUME NEW c \in Clients, Receive(c) PROVE RelayInv' BY <1>14, ReceiveInv
<1>15. ASSUME NEW c \in Clients, Flush(c) PROVE RelayInv' BY <1>15, FlushInv
<1>16. ASSUME NEW c \in Clients, PeerResets(c) PROVE RelayInv' BY <1>16, PeerResetsInv
<1>17. ASSUME NEW c \in Clients, ClientGoes(c) PROVE RelayInv' BY <1>17, ClientGoesInv
<1>18. ASSUME NEW c \in Clients, WatchdogCloses(c) PROVE RelayInv' BY <1>18, WatchdogClosesInv
<1>19. QED
  BY <1>1, <1>2, <1>3, <1>4, <1>5, <1>6, <1>7, <1>8, <1>9, <1>10, <1>11, <1>12, <1>13, <1>14,
     <1>15, <1>16, <1>17, <1>18 DEF Next

\* RelayInv is inductive.
LEMMA Invariant == Spec => []RelayInv
<1>1. Init => RelayInv BY InitInv
<1>2. RelayInv /\ [Next]_vars => RelayInv' BY NextInv
<1>3. QED BY <1>1, <1>2, PTL DEF Spec

-----------------------------------------------------------------------------
(* The properties.                                                         *)

\* Whatever the clients, the upstreams, the watchdog and stop do: an open tunnel has
\* exactly one task left to close it, and a live upstream connection has a task that
\* will close it, and an open tunnel unless a failed CONNECT lingers.
THEOREM NothingIsLeaked == Spec => []NothingLeaks
<1>1. ASSUME RelayInv PROVE NothingLeaks
  <2>1. /\ Books(meter) /\ conn \in [Clients -> Tasks]
        /\ \A c \in Clients : TaskOK(c, conn[c], meter, opened, finals)
        /\ \A j \in Ids : RecordOK(j, meter, conn, opened, finals)
    BY <1>1 DEF RelayInv, Sound
  <2>2. ASSUME NEW i \in meter.open
        PROVE  Cardinality({c \in Clients : conn[c].pc # "done" /\ conn[c].tunnel = i}) = 1
    <3>1. i \in Ids /\ i # 0 /\ meter.rec[i].status = "open" BY <2>1 DEF Books, Meters, Ids
    <3>2. PICK d \in Clients : conn[d].tunnel = i BY <2>1, <3>1 DEF RecordOK
    <3>3. ASSUME NEW c \in Clients, conn[c].tunnel = i
          PROVE  conn[c].pc # "done" /\ opened[i] = <<c, conn[c].host>>
      <4>1. TaskOK(c, conn[c], meter, opened, finals) BY <2>1
      <4>2. QED BY <3>1, <3>3, <4>1 DEF TaskOK, Owns, Stands
    <3>4. \A c \in Clients : conn[c].tunnel = i => c = d BY <3>2, <3>3
    <3>5. {c \in Clients : conn[c].pc # "done" /\ conn[c].tunnel = i} = {d}
      BY <3>2, <3>3, <3>4
    <3>6. QED BY <3>5, FS_Singleton
  <2>3. ASSUME NEW c \in Clients, conn[c].up = "live"
        PROVE  /\ conn[c].pc \in {"negotiating", "relaying", "exchanging", "reading", "lingering"}
               /\ conn[c].pc # "lingering" => conn[c].tunnel \in meter.open
    BY <2>1, <2>3 DEF TaskOK, Connected
  <2>4. QED BY <2>2, <2>3 DEF NothingLeaks
<1>2. QED BY <1>1, Invariant, PTL

\* The negotiation that fails on a SOCKS5 route leaves a record with no payload byte.
THEOREM FailedSocksHasNoPayload == Spec => []FailedSocksIsNegotiation
<1>1. ASSUME RelayInv PROVE FailedSocksIsNegotiation
  <2>1. \A j \in Ids : RecordOK(j, meter, conn, opened, finals) BY <1>1 DEF RelayInv, Sound
  <2>2. QED BY <2>1 DEF RecordOK, SetupFailures, AllNegotiation, FailedSocksIsNegotiation
<1>2. QED BY <1>1, Invariant, PTL

\* Between the trip and its last record a client has one tunnel at most: the request
\* that was closing its old session when the budget ran out.
THEOREM OneLateTunnelEach == Spec => []LateTunnels
<1>1. ASSUME RelayInv PROVE LateTunnels
  <2>1. Late(meter, conn, opened, atTrip) BY <1>1 DEF RelayInv, Sound
  <2>2. QED BY <2>1 DEF Late, LateTunnels
<1>2. QED BY <1>1, Invariant, PTL

\* A kept connection is charged to the record of the request it moves bytes for, and
\* each record's normal close tells whether the provider refused the credentials on it.
THEOREM SessionsAreChargedTruly == Spec => []SessionsAreCharged
<1>1. ASSUME RelayInv PROVE SessionsAreCharged
  <2>1. /\ \A c \in Clients : TaskOK(c, conn[c], meter, opened, finals)
        /\ \A j \in Ids : RecordOK(j, meter, conn, opened, finals)
    BY <1>1 DEF RelayInv, Sound
  <2>2. ChargedToRequest
    <3> SUFFICES ASSUME NEW c \in Clients, conn[c].pc \in {"negotiating", "relaying", "exchanging"}
                 PROVE  conn[c].bound = conn[c].tunnel /\ opened[conn[c].tunnel] = <<c, conn[c].host>>
      BY DEF ChargedToRequest
    <3>1. TaskOK(c, conn[c], meter, opened, finals) BY <2>1
    <3>2. QED BY <3>1 DEF TaskOK, Stands, Owns
  <2>3. RefusedCredentialsShow BY <2>1 DEF RecordOK, Normal, RefusedCredentialsShow
  <2>4. QED BY <2>2, <2>3 DEF SessionsAreCharged
<1>2. QED BY <1>1, Invariant, PTL
=============================================================================
