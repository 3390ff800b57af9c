---------------------------- MODULE MeterLemmas -----------------------------
(***************************************************************************)
(* What each operator of MeterState keeps and changes, for any meter.      *)
(*                                                                         *)
(* A lemma ...Fields says what a call does to the fields it touches, one   *)
(* ...Books that it keeps Books, one ...Quiet that it neither counts nor   *)
(* makes the meter close a tunnel.  CountTargetFacts is the heart: after   *)
(* any count the meter is below its limits again, or it has tripped.       *)
(***************************************************************************)
EXTENDS MeterState, SumLemmas, SequenceTheorems

-----------------------------------------------------------------------------
(* The calls of the meter.                                                 *)

\* What every call keeps true of the meter: open lists exactly the records whose
\* status is open, none of them closing; clean closed records equal their copies;
\* negotiation is part of the totals; nothing is set beyond the last record.
Books(m) ==
  /\ m \in Meters
  /\ \A i \in Ids : i \in m.open <=> m.rec[i].status = "open"
  /\ m.open \cap m.closing = {}
  /\ \A i \in Ids : i \notin m.open \cup m.dirty => m.copies[i] = m.rec[i]
  /\ \A i \in Ids : /\ m.rec[i].negSent <= m.rec[i].sent
                    /\ m.rec[i].negRecv <= m.rec[i].recv
  /\ \A i \in Ids : i >= m.next => /\ m.rec[i] = NoRecord
                                   /\ m.base[i] = 0
                                   /\ i \notin m.closing

\* _append_locked on a meter that has room left for a record.
LEMMA AppendRecordType ==
  ASSUME NEW m \in Meters, m.next \in Ids, NEW r \in Records
  PROVE  AppendRecord(m, r) \in Meters
<1>1. [m.rec EXCEPT ![m.next] = r] \in [Ids -> Records] BY DEF Meters
<1>2. m.dirty \cup {m.next} \in SUBSET Ids BY DEF Meters
<1>3. m.next + 1 \in 1 .. (MaxRecords + 1) BY MeterAssumption DEF Ids
<1>4. QED BY <1>1, <1>2, <1>3 DEF AppendRecord, Meters

\* open_tunnel keeps the books: the new record is open, its id is the next one.
LEMMA OpenTunnelBooks ==
  ASSUME NEW m, Books(m), m.next \in Ids, NEW route \in OpenRoutes, NEW p \in 0 .. MaxRecords
  PROVE  Books(OpenTunnel(m, route, p))
<1> DEFINE w == OpenTunnel(m, route, p)
           r == NewRecord(route, "open", p)
<1>1. m \in Meters BY DEF Books
<1>2. r \in Records /\ r.status = "open" /\ r.negSent = 0 /\ r.negRecv = 0 /\ r.sent = 0 /\ r.recv = 0
  BY DEF NewRecord, NoRecord, Records
<1>3. AppendRecord(m, r) \in Meters BY <1>1, <1>2, AppendRecordType
<1>4. /\ w.rec = [m.rec EXCEPT ![m.next] = r]
      /\ w.open = m.open \cup {m.next}
      /\ w.dirty = m.dirty \cup {m.next}
      /\ w.next = m.next + 1
      /\ w.closing = m.closing /\ w.copies = m.copies /\ w.base = m.base
  BY <1>1 DEF OpenTunnel, AppendRecord, Meters
<1>5. w \in Meters BY <1>3, <1>1 DEF OpenTunnel, AppendRecord, Meters
<1>6. m.rec \in [Ids -> Records] /\ m.next \in Nat BY <1>1 DEF Meters, Ids
<1> HIDE DEF w, r
<1>7. \A i \in Ids : w.rec[i] = IF i = m.next THEN r ELSE m.rec[i] BY <1>4, <1>6
<1>8. \A i \in Ids : i \in w.open <=> w.rec[i].status = "open"
  BY <1>1, <1>2, <1>4, <1>7 DEF Books
<1>9. w.open \cap w.closing = {} BY <1>4, <1>6 DEF Books
<1>10. \A i \in Ids : i \notin w.open \cup w.dirty => w.copies[i] = w.rec[i]
  BY <1>4, <1>7 DEF Books
<1>11. \A i \in Ids : /\ w.rec[i].negSent <= w.rec[i].sent
                      /\ w.rec[i].negRecv <= w.rec[i].recv
  BY <1>2, <1>7 DEF Books
<1>12. \A i \in Ids : i >= w.next => /\ w.rec[i] = NoRecord
                                     /\ w.base[i] = 0
                                     /\ i \notin w.closing
  <2> SUFFICES ASSUME NEW i \in Ids, i >= m.next + 1
               PROVE  w.rec[i] = NoRecord /\ m.base[i] = 0 /\ i \notin m.closing
    BY <1>4
  <2>1. i >= m.next /\ i # m.next BY <1>6 DEF Ids
  <2>2. QED BY <2>1, <1>7 DEF Books
<1>13. QED BY <1>5, <1>8, <1>9, <1>10, <1>11, <1>12 DEF Books, w

\* A step that touches only the existing records in D, marks them dirty and
\* closes what it no longer lists as open, keeps the books.
LEMMA BooksKept ==
  ASSUME NEW m, NEW w, NEW D \in SUBSET Ids, Books(m), w \in Meters,
         w.next = m.next, w.copies = m.copies,
         m.dirty \cup D \subseteq w.dirty,
         w.open \subseteq m.open, m.open \ w.open \subseteq D,
         \A i \in Ids : i >= m.next => i \notin D /\ i \notin w.closing /\ w.base[i] = 0,
         w.open \cap w.closing = {},
         \A i \in Ids \ D : w.rec[i] = m.rec[i],
         \A i \in D : /\ i \in w.open <=> w.rec[i].status = "open"
                      /\ w.rec[i].negSent <= w.rec[i].sent
                      /\ w.rec[i].negRecv <= w.rec[i].recv
  PROVE  Books(w)
<1>1. \A i \in Ids : i \in w.open <=> w.rec[i].status = "open"
  <2> SUFFICES ASSUME NEW i \in Ids PROVE i \in w.open <=> w.rec[i].status = "open"
    OBVIOUS
  <2>1. CASE i \in D BY <2>1
  <2>2. CASE i \notin D BY <2>2 DEF Books
  <2>3. QED BY <2>1, <2>2
<1>2. \A i \in Ids : i \notin w.open \cup w.dirty => w.copies[i] = w.rec[i]
  <2> SUFFICES ASSUME NEW i \in Ids, i \notin w.open \cup w.dirty
               PROVE  w.copies[i] = w.rec[i]
    OBVIOUS
  <2>1. i \notin D /\ i \notin m.open /\ i \notin m.dirty OBVIOUS
  <2>2. QED BY <2>1 DEF Books
<1>3. \A i \in Ids : /\ w.rec[i].negSent <= w.rec[i].sent
                     /\ w.rec[i].negRecv <= w.rec[i].recv
  <2> SUFFICES ASSUME NEW i \in Ids
               PROVE  /\ w.rec[i].negSent <= w.rec[i].sent
                      /\ w.rec[i].negRecv <= w.rec[i].recv
    OBVIOUS
  <2>1. CASE i \in D BY <2>1
  <2>2. CASE i \notin D BY <2>2 DEF Books
  <2>3. QED BY <2>1, <2>2
<1>4. \A i \in Ids : i >= w.next => /\ w.rec[i] = NoRecord
                                    /\ w.base[i] = 0
                                    /\ i \notin w.closing
  BY DEF Books
<1>5. QED BY <1>1, <1>2, <1>3, <1>4 DEF Books

\* Types of the parts that the operators change.
LEMMA RecordCounts ==
  ASSUME NEW r \in Records, NEW a \in Nat, NEW b \in Nat, NEW c \in Nat, NEW d \in Nat
  PROVE  /\ [r EXCEPT !.sent = a, !.recv = b, !.negSent = c, !.negRecv = d] \in Records
         /\ [r EXCEPT !.negSent = c, !.negRecv = d] \in Records
         /\ [r EXCEPT !.sent = a, !.negSent = c] \in Records
<1>1. [r EXCEPT !.sent = a] \in Records BY DEF Records
<1>2. \A x \in Records : [x EXCEPT !.recv = b] \in Records BY DEF Records
<1>3. \A x \in Records : [x EXCEPT !.negSent = c] \in Records BY DEF Records
<1>4. \A x \in Records : [x EXCEPT !.negRecv = d] \in Records BY DEF Records
<1>5. QED BY <1>1, <1>2, <1>3, <1>4

\* What _finish_locked writes is a final status.
LEMMA FinalStatusType ==
  ASSUME NEW m \in Meters, NEW i \in Ids, NEW status \in FinalStatuses
  PROVE  /\ FinalStatus(m, i, status) \in FinalStatuses
         /\ FinalStatus(m, i, status) \notin {"none", "open"}
BY DEF FinalStatus, FinalStatuses, Failures, Meters

\* Finish of a closed tunnel only marks it closing.
LEMMA FinishClosedFields ==
  ASSUME NEW m \in Meters, NEW i \in Ids, NEW status, m.rec[i].status # "open",
         NEW w, w = Finish(m, i, status)
  PROVE  /\ w \in Meters
         /\ w.rec = m.rec /\ w.open = m.open /\ w.dirty = m.dirty
         /\ w.next = m.next /\ w.closing = m.closing \cup {i} /\ w.counted = m.counted
         /\ w.base = m.base /\ w.copies = m.copies
         /\ w.tripped = m.tripped /\ w.events = m.events /\ w.warned = m.warned
         /\ w.okStatus = m.okStatus
<1>1. w = [m EXCEPT !.closing = m.closing \cup {i}] BY DEF Finish
<1>2. m.closing \cup {i} \in SUBSET Ids BY DEF Meters
<1>3. QED BY <1>1, <1>2 DEF Meters

\* _finish_locked of an open tunnel, field by field.
LEMMA FinishOpenFields ==
  ASSUME NEW m \in Meters, NEW i \in Ids, NEW status \in FinalStatuses,
         m.rec[i].status = "open", NEW w, w = Finish(m, i, status)
  PROVE  /\ w \in Meters
         /\ \A j \in Ids \ {i} : w.rec[j] = m.rec[j]
         /\ w.rec[i].status = FinalStatus(m, i, status)
         /\ w.rec[i].route = m.rec[i].route /\ w.rec[i].from = m.rec[i].from
         /\ w.rec[i].negSent = m.rec[i].negSent /\ w.rec[i].sent = m.rec[i].sent
         /\ w.rec[i].negRecv = m.rec[i].negRecv /\ w.rec[i].recv = m.rec[i].recv
         /\ w.open = m.open \ {i} /\ w.dirty = m.dirty \cup {i}
         /\ w.next = m.next /\ w.closing = m.closing \cup {i} /\ w.counted = m.counted
         /\ w.base = m.base /\ w.copies = m.copies
         /\ w.tripped = m.tripped /\ w.events = m.events /\ w.warned = m.warned
         /\ w.okStatus = m.okStatus
<1> DEFINE r == [m.rec[i] EXCEPT !.status = FinalStatus(m, i, status)]
<1>1. m.rec[i] \in Records BY DEF Meters
<1>2. FinalStatus(m, i, status) \in FinalStatuses BY FinalStatusType
<1>3. r \in Records BY <1>1, <1>2 DEF Records
<1>4. /\ r.status = FinalStatus(m, i, status)
      /\ r.route = m.rec[i].route /\ r.from = m.rec[i].from
      /\ r.negSent = m.rec[i].negSent /\ r.sent = m.rec[i].sent
      /\ r.negRecv = m.rec[i].negRecv /\ r.recv = m.rec[i].recv
  BY <1>1 DEF Records
<1>5. w = [m EXCEPT !.rec = [m.rec EXCEPT ![i] = r], !.closing = m.closing \cup {i},
                    !.open = m.open \ {i}, !.dirty = m.dirty \cup {i}]
  BY DEF Finish, Meters
<1> HIDE DEF r
<1>6. [m.rec EXCEPT ![i] = r] \in [Ids -> Records] BY <1>3 DEF Meters
<1>7. /\ m.open \ {i} \in SUBSET Ids /\ m.dirty \cup {i} \in SUBSET Ids
      /\ m.closing \cup {i} \in SUBSET Ids
  BY DEF Meters
<1>8. /\ w \in Meters /\ w.rec = [m.rec EXCEPT ![i] = r]
      /\ w.open = m.open \ {i} /\ w.dirty = m.dirty \cup {i}
      /\ w.next = m.next /\ w.closing = m.closing \cup {i} /\ w.counted = m.counted
      /\ w.base = m.base /\ w.copies = m.copies
      /\ w.tripped = m.tripped /\ w.events = m.events /\ w.warned = m.warned
      /\ w.okStatus = m.okStatus
  BY <1>5, <1>6, <1>7 DEF Meters
<1>9. w.rec[i] = r /\ \A j \in Ids \ {i} : w.rec[j] = m.rec[j] BY <1>8 DEF Meters
<1>10. QED BY <1>4, <1>8, <1>9

\* _finish_locked keeps the books, whatever state the tunnel is in.
LEMMA FinishBooks ==
  ASSUME NEW m, Books(m), NEW i \in Ids, i < m.next, NEW status \in FinalStatuses,
         NEW w, w = Finish(m, i, status)
  PROVE  Books(w)
<1>1. m \in Meters BY DEF Books
<1>2. CASE m.rec[i].status # "open"
  <2>1. /\ w \in Meters
        /\ w.rec = m.rec /\ w.open = m.open /\ w.dirty = m.dirty
        /\ w.next = m.next /\ w.closing = m.closing \cup {i}
        /\ w.base = m.base /\ w.copies = m.copies
    BY <1>1, <1>2, FinishClosedFields
  <2>2. i \notin m.open BY <1>2 DEF Books
  <2>3. w.open \cap w.closing = {} BY <2>1, <2>2 DEF Books
  <2>4. \A j \in Ids : j >= m.next => j # i BY <1>1 DEF Ids, Meters
  <2>5. QED BY <2>1, <2>3, <2>4 DEF Books
<1>3. CASE m.rec[i].status = "open"
  <2>1. /\ w \in Meters
        /\ \A j \in Ids \ {i} : w.rec[j] = m.rec[j]
        /\ w.rec[i].status = FinalStatus(m, i, status)
        /\ w.rec[i].negSent = m.rec[i].negSent /\ w.rec[i].sent = m.rec[i].sent
        /\ w.rec[i].negRecv = m.rec[i].negRecv /\ w.rec[i].recv = m.rec[i].recv
        /\ w.open = m.open \ {i} /\ w.dirty = m.dirty \cup {i}
        /\ w.next = m.next /\ w.closing = m.closing \cup {i}
        /\ w.base = m.base /\ w.copies = m.copies
    BY <1>1, <1>3, FinishOpenFields
  <2>2. w.open \cap w.closing = {} BY <2>1 DEF Books
  <2>3. \A j \in Ids : j >= m.next => j # i BY <1>1 DEF Ids, Meters
  <2>4. \A j \in Ids : j >= m.next => j \notin {i} /\ j \notin w.closing /\ w.base[j] = 0
    BY <2>1, <2>3 DEF Books
  <2>5. i \in w.open <=> w.rec[i].status = "open" BY <1>1, <2>1, FinalStatusType
  <2>6. w.rec[i].negSent <= w.rec[i].sent /\ w.rec[i].negRecv <= w.rec[i].recv
    BY <2>1 DEF Books
  <2>7. /\ m.dirty \cup {i} \subseteq w.dirty /\ w.open \subseteq m.open
        /\ m.open \ w.open \subseteq {i} /\ {i} \in SUBSET Ids
    BY <2>1
  <2>8. \A j \in {i} : /\ j \in w.open <=> w.rec[j].status = "open"
                       /\ w.rec[j].negSent <= w.rec[j].sent
                       /\ w.rec[j].negRecv <= w.rec[j].recv
    BY <2>5, <2>6
  <2>9. QED BY <2>1, <2>2, <2>4, <2>7, <2>8, BooksKept
<1>4. QED BY <1>2, <1>3

\* The shape of every step that updates one existing record and the counter.
Updated(m, i, r, n) ==
  [m EXCEPT !.rec = [m.rec EXCEPT ![i] = r], !.dirty = m.dirty \cup {i}, !.counted = n]

\* A call that changes one record and marks it dirty, field by field.
LEMMA UpdatedFields ==
  ASSUME NEW m \in Meters, NEW i \in Ids, NEW r \in Records, NEW n \in Nat
  PROVE  LET w == Updated(m, i, r, n)
         IN  /\ w \in Meters
             /\ w.rec = [m.rec EXCEPT ![i] = r] /\ w.dirty = m.dirty \cup {i} /\ w.counted = n
             /\ w.next = m.next /\ w.open = m.open /\ w.closing = m.closing
             /\ w.base = m.base /\ w.copies = m.copies /\ w.warned = m.warned
             /\ w.tripped = m.tripped /\ w.events = m.events /\ w.okStatus = m.okStatus
<1>1. [m.rec EXCEPT ![i] = r] \in [Ids -> Records] BY DEF Meters
<1>2. m.dirty \cup {i} \in SUBSET Ids BY DEF Meters
<1>3. QED BY <1>1, <1>2 DEF Updated, Meters

\* Such a call keeps the books when it leaves the status alone and the sub-counts
\* within the totals.
LEMMA UpdatedBooks ==
  ASSUME NEW m, Books(m), NEW i \in Ids, i < m.next, NEW r \in Records, NEW n \in Nat,
         r.status = m.rec[i].status, r.negSent <= r.sent, r.negRecv <= r.recv
  PROVE  Books(Updated(m, i, r, n))
<1> DEFINE w == Updated(m, i, r, n)
<1>1. m \in Meters BY DEF Books
<1>2. /\ w \in Meters
      /\ w.rec = [m.rec EXCEPT ![i] = r] /\ w.dirty = m.dirty \cup {i}
      /\ w.next = m.next /\ w.open = m.open /\ w.closing = m.closing
      /\ w.base = m.base /\ w.copies = m.copies
  BY <1>1, UpdatedFields
<1> HIDE DEF w
<1>3. w.rec[i] = r /\ \A j \in Ids \ {i} : w.rec[j] = m.rec[j] BY <1>1, <1>2 DEF Meters
<1>4. \A j \in Ids : j >= m.next => j # i BY <1>1 DEF Ids, Meters
<1>5. \A j \in Ids : j >= m.next => j \notin {i} /\ j \notin w.closing /\ w.base[j] = 0
  BY <1>2, <1>4 DEF Books
<1>6. i \in w.open <=> w.rec[i].status = "open" BY <1>2, <1>3 DEF Books
<1>7. w.open \cap w.closing = {} BY <1>2 DEF Books
<1>8. Books(w) BY <1>2, <1>3, <1>5, <1>6, <1>7, BooksKept, ZenonT(60)
<1>9. QED BY <1>8 DEF w

\* update and its kin are such a call.
LEMMA AnnotateIs ==
  ASSUME NEW m \in Meters, NEW i \in Ids
  PROVE  Annotate(m, i) = Updated(m, i, [m.rec[i] EXCEPT !.note = @ + 1], m.counted)
BY DEF Annotate, Updated, Meters

\* discard_sent of bytes that were counted is such a call, beside the counter.
LEMMA DiscardSentIs ==
  ASSUME NEW m \in Meters, NEW i \in Ids, NEW n \in Nat
  PROVE  LET k == Least(n, m.rec[i].sent)
         IN  DiscardSent(m, i, n) =
               IF k <= 0 THEN m
               ELSE Updated(m, i, UncountFromRecord(m.rec[i], k),
                            IF IsTarget(m.rec[i]) THEN Uncount(m, k) ELSE m.counted)
BY DEF DiscardSent, Updated, Meters

\* The record's part of _add is such a call.
LEMMA AddToRecordIs ==
  ASSUME NEW m \in Meters, NEW i \in Ids, NEW s \in Nat, NEW v \in Nat, NEW neg \in Nat
  PROVE  AddToRecord(m, i, s, v, neg) =
           Updated(m, i, CountInRecord(m.rec[i], s, v, neg), m.counted)
BY DEF AddToRecord, Updated, Meters

\* mark_all_negotiation is such a call.
LEMMA MarkAllNegotiationIs ==
  ASSUME NEW m \in Meters, NEW i \in Ids
  PROVE  MarkAllNegotiation(m, i) =
           Updated(m, i, [m.rec[i] EXCEPT !.negSent = m.rec[i].sent, !.negRecv = m.rec[i].recv], m.counted)
BY DEF MarkAllNegotiation, Updated, Meters

\* mark_negotiation_received is such a call.
LEMMA MarkNegotiationReceivedIs ==
  ASSUME NEW m \in Meters, NEW i \in Ids, NEW n \in Nat
  PROVE  MarkNegotiationReceived(m, i, n) =
           Updated(m, i, [m.rec[i] EXCEPT !.negRecv = Least(m.rec[i].recv, @ + n)], m.counted)
BY DEF MarkNegotiationReceived, Updated, Meters

\* update and its kin keep the books.
LEMMA AnnotateBooks ==
  ASSUME NEW m, Books(m), NEW i \in Ids, i < m.next
  PROVE  Books(Annotate(m, i))
<1> DEFINE r == [m.rec[i] EXCEPT !.note = @ + 1]
<1>1. m \in Meters /\ m.rec[i] \in Records /\ m.counted \in Nat BY DEF Books, Meters
<1>2. /\ r \in Records /\ r.status = m.rec[i].status
      /\ r.negSent <= r.sent /\ r.negRecv <= r.recv
  BY <1>1 DEF Records, Books
<1>3. QED BY <1>1, <1>2, AnnotateIs, UpdatedBooks

\* mark_all_negotiation keeps the books: the sub-counts become the totals.
LEMMA MarkAllNegotiationBooks ==
  ASSUME NEW m, Books(m), NEW i \in Ids, i < m.next
  PROVE  Books(MarkAllNegotiation(m, i))
<1> DEFINE r == [m.rec[i] EXCEPT !.negSent = m.rec[i].sent, !.negRecv = m.rec[i].recv]
<1>1. m \in Meters /\ m.rec[i] \in Records /\ m.counted \in Nat BY DEF Books, Meters
<1>2. m.rec[i].sent \in Nat /\ m.rec[i].recv \in Nat BY <1>1 DEF Records
<1>3. /\ r.status = m.rec[i].status /\ r.sent = m.rec[i].sent /\ r.recv = m.rec[i].recv
      /\ r.negSent = m.rec[i].sent /\ r.negRecv = m.rec[i].recv
  BY <1>1 DEF Records
<1>4. r \in Records BY <1>1, <1>2, RecordCounts
<1>5. r.negSent <= r.sent /\ r.negRecv <= r.recv BY <1>2, <1>3
<1>6. MarkAllNegotiation(m, i) = Updated(m, i, r, m.counted) BY <1>1, MarkAllNegotiationIs
<1> HIDE DEF r
<1>7. QED BY <1>1, <1>3, <1>4, <1>5, <1>6, UpdatedBooks

\* mark_negotiation_received keeps the books: it never passes the total.
LEMMA MarkNegotiationReceivedBooks ==
  ASSUME NEW m, Books(m), NEW i \in Ids, i < m.next, NEW n \in Nat
  PROVE  Books(MarkNegotiationReceived(m, i, n))
<1> DEFINE k == Least(m.rec[i].recv, m.rec[i].negRecv + n)
           r == [m.rec[i] EXCEPT !.negRecv = k]
<1>1. m \in Meters /\ m.rec[i] \in Records /\ m.counted \in Nat BY DEF Books, Meters
<1>2. m.rec[i].negSent <= m.rec[i].sent BY DEF Books
<1>3. k \in Nat /\ k <= m.rec[i].recv BY <1>1 DEF Records, Least
<1>4. MarkNegotiationReceived(m, i, n) = Updated(m, i, r, m.counted)
  BY <1>1, MarkNegotiationReceivedIs
<1> HIDE DEF k
<1>5. /\ r \in Records /\ r.status = m.rec[i].status
      /\ r.negSent <= r.sent /\ r.negRecv <= r.recv
  <2>1. m.rec[i].recv \in Nat /\ m.rec[i].sent \in Nat BY <1>1 DEF Records
  <2>2. r \in Records BY <1>1, <1>3 DEF Records
  <2>3. /\ r.status = m.rec[i].status /\ r.negRecv = k /\ r.recv = m.rec[i].recv
        /\ r.sent = m.rec[i].sent /\ r.negSent = m.rec[i].negSent
    BY <1>1 DEF Records
  <2>4. QED BY <1>2, <1>3, <2>2, <2>3
<1>6. QED BY <1>1, <1>4, <1>5, UpdatedBooks

\* discard_sent keeps the books: it takes back no more than was counted, and cuts the
\* negotiation share to what is left.
LEMMA DiscardSentBooks ==
  ASSUME NEW m, Books(m), NEW i \in Ids, i < m.next, NEW n \in Nat
  PROVE  Books(DiscardSent(m, i, n))
<1> DEFINE k == Least(n, m.rec[i].sent)
           r == UncountFromRecord(m.rec[i], k)
           c == IF IsTarget(m.rec[i]) THEN Uncount(m, k) ELSE m.counted
<1>1. m \in Meters /\ m.rec[i] \in Records /\ m.counted \in Nat BY DEF Books, Meters
<1>2. m.rec[i].negSent <= m.rec[i].sent /\ m.rec[i].negRecv <= m.rec[i].recv BY DEF Books
<1>3. k \in Nat /\ k <= m.rec[i].sent BY <1>1 DEF Records, Least
<1> HIDE DEF k
<1>4. /\ m.rec[i].sent - k \in Nat
      /\ Least(m.rec[i].negSent, m.rec[i].sent - k) \in Nat
      /\ Least(m.rec[i].negSent, m.rec[i].sent - k) <= m.rec[i].sent - k
  BY <1>1, <1>3 DEF Records, Least
<1>5. /\ r \in Records /\ r.status = m.rec[i].status
      /\ r.negSent <= r.sent /\ r.negRecv <= r.recv
  BY <1>1, <1>2, <1>4 DEF Records, UncountFromRecord
<1>6. c \in Nat BY <1>1, <1>3 DEF Uncount
<1> HIDE DEF r, c
<1>7. Books(Updated(m, i, r, c)) BY <1>1, <1>5, <1>6, UpdatedBooks
<1>8. DiscardSent(m, i, n) = IF k <= 0 THEN m ELSE Updated(m, i, r, c)
  BY <1>1, DiscardSentIs DEF k, r, c
<1>9. QED BY <1>7, <1>8

\* The record's part of _add keeps the books: the negotiation share is part of the slice.
LEMMA AddToRecordBooks ==
  ASSUME NEW m, Books(m), NEW i \in Ids, i < m.next, NEW s \in Nat, NEW v \in Nat, NEW neg \in Nat
  PROVE  Books(AddToRecord(m, i, s, v, neg))
<1> DEFINE r == CountInRecord(m.rec[i], s, v, neg)
<1>1. m \in Meters /\ m.rec[i] \in Records /\ m.counted \in Nat BY DEF Books, Meters
<1>2. m.rec[i].negSent <= m.rec[i].sent /\ m.rec[i].negRecv <= m.rec[i].recv BY DEF Books
<1>3. Least(s, neg) \in Nat /\ Least(v, neg) \in Nat /\ Least(s, neg) <= s /\ Least(v, neg) <= v
  BY DEF Least
<1>4. /\ r \in Records /\ r.status = m.rec[i].status
      /\ r.negSent <= r.sent /\ r.negRecv <= r.recv
  <2> DEFINE a == Least(s, neg)
             b == Least(v, neg)
  <2>1. r = [m.rec[i] EXCEPT !.sent = @ + s, !.recv = @ + v, !.negSent = @ + a, !.negRecv = @ + b]
    BY DEF CountInRecord
  <2> HIDE DEF a, b, r
  <2>2. a \in Nat /\ b \in Nat /\ a <= s /\ b <= v BY <1>3 DEF a, b
  <2>3. /\ r.status = m.rec[i].status
        /\ r.sent = m.rec[i].sent + s /\ r.recv = m.rec[i].recv + v
        /\ r.negSent = m.rec[i].negSent + a /\ r.negRecv = m.rec[i].negRecv + b
    BY <1>1, <2>1 DEF Records
  <2>4. /\ m.rec[i].sent \in Nat /\ m.rec[i].recv \in Nat
        /\ m.rec[i].negSent \in Nat /\ m.rec[i].negRecv \in Nat
    BY <1>1 DEF Records
  <2>5. r \in Records
    <3>1. /\ m.rec[i].sent + s \in Nat /\ m.rec[i].recv + v \in Nat
          /\ m.rec[i].negSent + a \in Nat /\ m.rec[i].negRecv + b \in Nat
      BY <2>2, <2>4
    <3>2. QED BY <1>1, <2>1, <3>1, RecordCounts
  <2>6. QED BY <1>2, <2>2, <2>3, <2>4, <2>5
<1>5. QED BY <1>1, <1>4, AddToRecordIs, UpdatedBooks

\* Warn and the trip change flags and events only, besides what CloseAll does.
LEMMA WarnFields ==
  ASSUME NEW m \in Meters, NEW w, w = Warn(m)
  PROVE  /\ w \in Meters
         /\ w.rec = m.rec /\ w.dirty = m.dirty /\ w.counted = m.counted
         /\ w.next = m.next /\ w.open = m.open /\ w.closing = m.closing
         /\ w.base = m.base /\ w.copies = m.copies /\ w.tripped = m.tripped
         /\ w.okStatus = m.okStatus
<1>1. Event("warn_80", m.counted, 0) \in Events BY DEF Event, Events, Meters
<1>2. Append(m.events, Event("warn_80", m.counted, 0)) \in Seq(Events) BY <1>1 DEF Meters
<1>3. QED BY <1>2 DEF Warn, Meters

\* _close_all_locked, field by field.
LEMMA CloseAllFields ==
  ASSUME NEW m \in Meters, NEW status \in FinalStatuses, NEW w, w = CloseAll(m, status)
  PROVE  /\ w \in Meters
         /\ \A i \in Ids \ m.open : w.rec[i] = m.rec[i]
         /\ \A i \in m.open :
              /\ w.rec[i].status = FinalStatus(m, i, status)
              /\ w.rec[i].route = m.rec[i].route /\ w.rec[i].from = m.rec[i].from
              /\ w.rec[i].negSent = m.rec[i].negSent /\ w.rec[i].sent = m.rec[i].sent
              /\ w.rec[i].negRecv = m.rec[i].negRecv /\ w.rec[i].recv = m.rec[i].recv
         /\ w.dirty = m.dirty \cup m.open /\ w.counted = m.counted
         /\ w.next = m.next /\ w.open = {} /\ w.closing = m.closing \cup m.open
         /\ w.base = m.base /\ w.copies = m.copies
         /\ w.tripped = m.tripped /\ w.events = m.events /\ w.warned = m.warned
         /\ w.okStatus = m.okStatus
<1> DEFINE Closed(i) == [m.rec[i] EXCEPT !.status = FinalStatus(m, i, status)]
           R == [i \in Ids |-> IF i \in m.open THEN Closed(i) ELSE m.rec[i]]
<1>1. \A i \in Ids : m.rec[i] \in Records BY DEF Meters
<1>2. \A i \in Ids : FinalStatus(m, i, status) \in FinalStatuses BY FinalStatusType
<1>3. \A i \in Ids : Closed(i) \in Records BY <1>1, <1>2 DEF Records
<1>4. \A i \in Ids : /\ Closed(i).status = FinalStatus(m, i, status)
                     /\ Closed(i).route = m.rec[i].route /\ Closed(i).from = m.rec[i].from
                     /\ Closed(i).negSent = m.rec[i].negSent /\ Closed(i).sent = m.rec[i].sent
                     /\ Closed(i).negRecv = m.rec[i].negRecv /\ Closed(i).recv = m.rec[i].recv
  BY <1>1 DEF Records
<1>5. w = [m EXCEPT !.rec = R, !.closing = m.closing \cup m.open,
                    !.dirty = m.dirty \cup m.open, !.open = {}]
  BY DEF CloseAll
<1> HIDE DEF Closed
<1>6. R \in [Ids -> Records] BY <1>1, <1>3
<1>7. \A i \in Ids : R[i] = IF i \in m.open THEN Closed(i) ELSE m.rec[i] OBVIOUS
<1> HIDE DEF R
<1>8. /\ m.open \subseteq Ids /\ m.dirty \cup m.open \in SUBSET Ids
      /\ m.closing \cup m.open \in SUBSET Ids
  BY DEF Meters
<1>9. /\ w \in Meters /\ w.rec = R
      /\ w.dirty = m.dirty \cup m.open /\ w.counted = m.counted
      /\ w.next = m.next /\ w.open = {} /\ w.closing = m.closing \cup m.open
      /\ w.base = m.base /\ w.copies = m.copies
      /\ w.tripped = m.tripped /\ w.events = m.events /\ w.warned = m.warned
      /\ w.okStatus = m.okStatus
  BY <1>5, <1>6, <1>8 DEF Meters
<1>10. \A i \in Ids \ m.open : w.rec[i] = m.rec[i] BY <1>7, <1>9
<1>11. \A i \in m.open : w.rec[i] = Closed(i) BY <1>7, <1>8, <1>9
<1>12. QED BY <1>4, <1>8, <1>9, <1>10, <1>11

\* _close_all_locked keeps the books: nothing is open, every closed tunnel is closing.
LEMMA CloseAllBooks ==
  ASSUME NEW m, Books(m), NEW status \in FinalStatuses, NEW w, w = CloseAll(m, status)
  PROVE  Books(w)
<1>1. m \in Meters /\ m.open \in SUBSET Ids BY DEF Books, Meters
<1>2. /\ w \in Meters
      /\ \A i \in Ids \ m.open : w.rec[i] = m.rec[i]
      /\ \A i \in m.open :
            /\ w.rec[i].status = FinalStatus(m, i, status)
            /\ w.rec[i].negSent = m.rec[i].negSent /\ w.rec[i].sent = m.rec[i].sent
            /\ w.rec[i].negRecv = m.rec[i].negRecv /\ w.rec[i].recv = m.rec[i].recv
      /\ w.dirty = m.dirty \cup m.open
      /\ w.next = m.next /\ w.open = {} /\ w.closing = m.closing \cup m.open
      /\ w.base = m.base /\ w.copies = m.copies
  BY <1>1, CloseAllFields
<1>3. \A i \in m.open : /\ i \in w.open <=> w.rec[i].status = "open"
                        /\ w.rec[i].negSent <= w.rec[i].sent
                        /\ w.rec[i].negRecv <= w.rec[i].recv
  BY <1>1, <1>2, FinalStatusType DEF Books
<1>4. \A i \in Ids : i >= m.next => i \notin m.open /\ i \notin w.closing /\ w.base[i] = 0
  BY <1>2 DEF Books, NoRecord
<1>5. QED BY <1>1, <1>2, <1>3, <1>4, BooksKept

\* Setting flags or appending events does not concern the books.
LEMMA BooksSame ==
  ASSUME NEW m, Books(m), NEW w \in Meters,
         w.rec = m.rec, w.dirty = m.dirty, w.next = m.next, w.open = m.open,
         w.closing = m.closing, w.base = m.base, w.copies = m.copies
  PROVE  Books(w)
BY DEF Books

\* A trip changes what _close_all_locked changes, and says so.
LEMMA TripFields ==
  ASSUME NEW m \in Meters, NEW w, w = Trip(m), NEW c, c = CloseAll(m, "budget")
  PROVE  /\ w \in Meters
         /\ w.rec = c.rec /\ w.dirty = c.dirty /\ w.counted = m.counted
         /\ w.next = c.next /\ w.open = {} /\ w.closing = c.closing
         /\ w.base = c.base /\ w.copies = c.copies /\ w.tripped
         /\ w.okStatus = c.okStatus
<1>1. "budget" \in FinalStatuses BY DEF FinalStatuses
<1>2. /\ c \in Meters /\ c.open = {} /\ c.counted = m.counted /\ c.events = m.events
  BY <1>1, CloseAllFields
<1>3. Cardinality(m.open) \in Nat
  <2>1. IsFiniteSet(Ids) BY MeterAssumption, FS_Interval DEF Ids
  <2>2. IsFiniteSet(m.open) BY <2>1, FS_Subset DEF Meters
  <2>3. QED BY <2>2, FS_CardinalityType
<1>4. Event("tripped", m.counted, Cardinality(m.open)) \in Events
  BY <1>3 DEF Event, Events, Meters
<1>5. Append(m.events, Event("tripped", m.counted, Cardinality(m.open))) \in Seq(Events)
  BY <1>4 DEF Meters
<1>6. QED BY <1>2, <1>5 DEF Trip, Meters

\* A close at the cap changes what _finish_locked changes, and says so.
LEMMA CloseAtCapFields ==
  ASSUME NEW m \in Meters, NEW i \in Ids, NEW w, w = CloseAtCap(m, i),
         NEW c, c = Finish(m, i, "tunnel_cap"), c \in Meters, c.events = m.events
  PROVE  /\ w \in Meters
         /\ w.rec = c.rec /\ w.dirty = c.dirty /\ w.counted = c.counted
         /\ w.next = c.next /\ w.open = c.open /\ w.closing = c.closing
         /\ w.base = c.base /\ w.copies = c.copies /\ w.tripped = c.tripped
         /\ w.okStatus = c.okStatus
<1>1. m.rec[i] \in Records /\ m.base[i] \in Nat BY DEF Meters
<1>2. ConnectionBytes(m, i) \in Nat BY <1>1 DEF ConnectionBytes, CountedBytes, Records
<1>3. Event("tunnel_cap", ConnectionBytes(m, i), 1) \in Events BY <1>2 DEF Event, Events
<1>4. Append(m.events, Event("tunnel_cap", ConnectionBytes(m, i), 1)) \in Seq(Events)
  BY <1>3 DEF Meters
<1>5. QED BY <1>4 DEF CloseAtCap, Meters

\* Below the limits: what UnderBudget and the second half of UnderCap say.
Below(m) ==
  /\ Budget # 0 /\ ~m.tripped => m.counted < Budget
  /\ Cap # 0 => \A i \in m.open : IsTarget(m.rec[i]) => ConnectionBytes(m, i) < Cap

\* What no step but a new record changes: the ids and the connections; a step
\* may close open tunnels, and every tunnel it closes it marks closing.
SameTunnels(m, w) ==
  /\ w.next = m.next /\ w.base = m.base
  /\ w.open \subseteq m.open /\ m.open \cup m.closing \subseteq w.open \cup w.closing
  /\ \A j \in Ids : w.rec[j].route = m.rec[j].route /\ w.rec[j].from = m.rec[j].from

SameCounts(m, w) ==
  \A j \in Ids : w.rec[j].sent = m.rec[j].sent /\ w.rec[j].recv = m.rec[j].recv

\* The meter aborts the transport of each tunnel whose status it changed.
AbortsClosed(m, w) ==
  \A j \in Ids : w.rec[j].status = m.rec[j].status \/ j \in ToAbort(m, w)

ClosesOnly(m, w) == SameTunnels(m, w) /\ SameCounts(m, w) /\ AbortsClosed(m, w)

\* Counting n bytes on i, when the other open tunnels are under the cap: the
\* books stay right, and the meter ends below its limits or has tripped.
LEMMA CountTargetFacts ==
  ASSUME NEW m, Books(m), NEW i \in Ids, i < m.next, NEW n \in Nat,
         Cap # 0 => \A j \in m.open \ {i} : IsTarget(m.rec[j]) => ConnectionBytes(m, j) < Cap,
         NEW w, w = CountTarget(m, i, n)
  PROVE  Books(w) /\ Below(w) /\ ClosesOnly(m, w)
<1> DEFINE b == [m EXCEPT !.counted = @ + n]
           a == Warn(b)
<1>1. m \in Meters /\ m.counted + n \in Nat /\ m.open \subseteq Ids BY DEF Books, Meters
<1>2. /\ b \in Meters /\ b.rec = m.rec /\ b.dirty = m.dirty /\ b.next = m.next
      /\ b.open = m.open /\ b.closing = m.closing /\ b.base = m.base /\ b.copies = m.copies
      /\ b.tripped = m.tripped
  BY <1>1 DEF Meters
<1>3. w = IF TripDue(a) THEN Trip(a) ELSE IF CapDue(a, i) THEN CloseAtCap(a, i) ELSE a
  BY DEF CountTarget
<1> HIDE DEF b
<1>4. a = Warn(b) OBVIOUS
<1> HIDE DEF a
<1>5. /\ a \in Meters /\ a.rec = m.rec /\ a.dirty = m.dirty /\ a.next = m.next
      /\ a.open = m.open /\ a.closing = m.closing /\ a.base = m.base /\ a.copies = m.copies
      /\ a.tripped = m.tripped
  BY <1>2, <1>4, WarnFields
<1>6. Books(a) BY <1>5, BooksSame
<1>7. \A j \in Ids : ConnectionBytes(a, j) = ConnectionBytes(m, j)
  BY <1>5 DEF ConnectionBytes
<1>8. CASE TripDue(a)
  <2>1. w = Trip(a) BY <1>3, <1>8
  <2> DEFINE c == CloseAll(a, "budget")
  <2>2. c = CloseAll(a, "budget") OBVIOUS
  <2> HIDE DEF c
  <2>3. "budget" \in FinalStatuses BY DEF FinalStatuses
  <2>4. Books(c) BY <1>6, <2>2, <2>3, CloseAllBooks
  <2>5. /\ w \in Meters /\ w.rec = c.rec /\ w.dirty = c.dirty
        /\ w.next = c.next /\ w.open = {} /\ w.closing = c.closing
        /\ w.base = c.base /\ w.copies = c.copies /\ w.tripped
    <3>1. a \in Meters BY <1>5
    <3>2. QED BY ONLY <2>1, <2>2, <3>1, TripFields
  <2>6. /\ \A j \in Ids \ a.open : c.rec[j] = a.rec[j]
        /\ \A j \in a.open :
              /\ c.rec[j].route = a.rec[j].route /\ c.rec[j].from = a.rec[j].from
              /\ c.rec[j].sent = a.rec[j].sent /\ c.rec[j].recv = a.rec[j].recv
        /\ c.open = {} /\ c.next = a.next /\ c.base = a.base
        /\ c.closing = a.closing \cup a.open
    BY <1>5, <2>2, <2>3, CloseAllFields
  <2>7. Books(w) BY <2>4, <2>5, <2>6, BooksSame
  <2>8. Below(w) BY <2>5 DEF Below
  <2>9. \A j \in Ids : /\ w.rec[j].route = m.rec[j].route /\ w.rec[j].from = m.rec[j].from
                       /\ w.rec[j].sent = m.rec[j].sent /\ w.rec[j].recv = m.rec[j].recv
                       /\ w.rec[j].status = m.rec[j].status \/ j \in a.open
    BY <1>5, <2>5, <2>6
  <2>10. \A j \in a.open : j \in ToAbort(m, w) BY <1>5, <2>5, <2>6 DEF ToAbort, Books
  <2>11. ClosesOnly(m, w)
    BY <1>5, <2>5, <2>6, <2>9, <2>10 DEF ClosesOnly, SameTunnels, SameCounts, AbortsClosed
  <2>12. QED BY <2>7, <2>8, <2>11
<1>9. CASE ~TripDue(a) /\ CapDue(a, i)
  <2>1. w = CloseAtCap(a, i) BY <1>3, <1>9
  <2> DEFINE c == Finish(a, i, "tunnel_cap")
  <2>2. c = Finish(a, i, "tunnel_cap") OBVIOUS
  <2> HIDE DEF c
  <2>3. "tunnel_cap" \in FinalStatuses BY DEF FinalStatuses
  <2>4. Books(c) BY <1>5, <1>6, <2>2, <2>3, FinishBooks
  <2>5. i \notin a.closing BY <1>9 DEF CapDue
  <2>6. /\ c \in Meters
        /\ \A j \in Ids \ {i} : c.rec[j] = a.rec[j]
        /\ c.rec[i].route = a.rec[i].route /\ c.rec[i].from = a.rec[i].from
        /\ c.rec[i].sent = a.rec[i].sent /\ c.rec[i].recv = a.rec[i].recv
        /\ c.open = a.open \ {i} /\ c.closing = a.closing \cup {i} /\ c.counted = a.counted
        /\ c.next = a.next /\ c.base = a.base /\ c.tripped = a.tripped
        /\ c.events = a.events
    <3>1. CASE a.rec[i].status = "open" BY <3>1, <1>5, <2>2, <2>3, FinishOpenFields
    <3>2. CASE a.rec[i].status # "open"
      <4>1. i \notin a.open BY <3>2, <1>6 DEF Books
      <4>2. QED BY <3>2, <4>1, <1>5, <2>2, <2>3, FinishClosedFields
    <3>3. QED BY <3>1, <3>2
  <2>7. /\ w \in Meters /\ w.rec = c.rec /\ w.dirty = c.dirty /\ w.counted = c.counted
        /\ w.next = c.next /\ w.open = c.open /\ w.closing = c.closing
        /\ w.base = c.base /\ w.copies = c.copies /\ w.tripped = c.tripped
    <3>1. a \in Meters BY <1>5
    <3>2. c \in Meters BY <2>6
    <3>3. c.events = a.events BY <2>6
    <3>4. QED BY ONLY <2>1, <2>2, <3>1, <3>2, <3>3, CloseAtCapFields, i \in Ids
  <2>8. Books(w) BY <2>4, <2>7, BooksSame
  <2>9. a.counted \in Nat BY <1>5 DEF Meters
  <2>10. Budget # 0 /\ ~w.tripped => w.counted < Budget
    BY <1>9, <2>6, <2>7, <2>9, MeterAssumption DEF TripDue
  <2>11. ASSUME Cap # 0, NEW j \in w.open, IsTarget(w.rec[j])
         PROVE  ConnectionBytes(w, j) < Cap
    <3>1. j \in m.open \ {i} BY <1>5, <2>6, <2>7
    <3>2. w.rec[j] = m.rec[j] /\ w.base[j] = m.base[j] BY <3>1, <1>1, <1>5, <2>6, <2>7
    <3>3. QED BY <2>11, <3>1, <3>2 DEF ConnectionBytes
  <2>12. Below(w) BY <2>10, <2>11 DEF Below
  <2>13. i \in ToAbort(m, w) BY <1>5, <2>5, <2>6, <2>7 DEF ToAbort
  <2>14. ClosesOnly(m, w)
    BY <1>5, <2>6, <2>7, <2>13 DEF ClosesOnly, SameTunnels, SameCounts, AbortsClosed
  <2>15. QED BY <2>8, <2>12, <2>14
<1>10. CASE ~TripDue(a) /\ ~CapDue(a, i)
  <2>1. w = a BY <1>3, <1>10
  <2>2. a.counted \in Nat BY <1>5 DEF Meters
  <2>3. Budget # 0 /\ ~w.tripped => w.counted < Budget
    BY <1>10, <2>1, <2>2, MeterAssumption DEF TripDue
  <2>4. ASSUME Cap # 0, NEW j \in w.open, IsTarget(w.rec[j])
        PROVE  ConnectionBytes(w, j) < Cap
    <3>1. j \in Ids /\ j \notin a.closing BY <1>1, <1>5, <1>6, <2>1 DEF Books
    <3>2. CASE j = i
      <4>1. a.rec[i] \in Records /\ a.base[i] \in Nat BY <1>5 DEF Meters
      <4>2. ConnectionBytes(a, i) \in Nat BY <4>1 DEF ConnectionBytes, CountedBytes, Records
      <4>3. QED BY <2>1, <2>4, <3>1, <3>2, <1>10, <4>2, MeterAssumption DEF CapDue
    <3>3. CASE j # i BY <3>1, <3>3, <2>1, <2>4, <1>5, <1>7
    <3>4. QED BY <3>2, <3>3
  <2>5. Below(w) BY <2>3, <2>4 DEF Below
  <2>6. ClosesOnly(m, w)
    BY <2>1, <1>5 DEF ClosesOnly, SameTunnels, SameCounts, AbortsClosed
  <2>7. QED BY <1>6, <2>1, <2>5, <2>6
<1>11. QED BY <1>8, <1>9, <1>10

\* Adding bytes to record i keeps the books and the limits, and closes only
\* tunnels that it also aborts.
LEMMA AddFacts ==
  ASSUME NEW m, Books(m), Below(m), NEW i \in Ids, i < m.next,
         NEW s \in Nat, NEW v \in Nat, NEW neg \in Nat,
         NEW w, w = Add(m, i, s, v, neg)
  PROVE  /\ Books(w) /\ Below(w) /\ SameTunnels(m, w) /\ AbortsClosed(m, w)
         /\ \A j \in Ids \ {i} : /\ w.rec[j].sent = m.rec[j].sent
                               /\ w.rec[j].recv = m.rec[j].recv
<1> DEFINE a == AddToRecord(m, i, s, v, neg)
           r == CountInRecord(m.rec[i], s, v, neg)
<1>1. m \in Meters /\ m.rec[i] \in Records /\ m.counted \in Nat /\ m.open \subseteq Ids
  BY DEF Books, Meters
<1>2. Books(a) BY AddToRecordBooks
<1>3. /\ a.rec = [m.rec EXCEPT ![i] = r] /\ a.next = m.next /\ a.base = m.base
      /\ a.open = m.open /\ a.closing = m.closing /\ a.counted = m.counted
      /\ a.tripped = m.tripped
  BY <1>1 DEF AddToRecord, Meters
<1>4. /\ r.route = m.rec[i].route /\ r.from = m.rec[i].from /\ r.status = m.rec[i].status
  BY <1>1 DEF Records, CountInRecord
<1>5. w = IF IsTarget(a.rec[i]) THEN CountTarget(a, i, s + v) ELSE a BY DEF Add
<1> HIDE DEF a, r
<1>6. a.rec[i] = r /\ \A j \in Ids \ {i} : a.rec[j] = m.rec[j] BY <1>1, <1>3 DEF Meters
<1>7. /\ SameTunnels(m, a)
      /\ \A j \in Ids : a.rec[j].status = m.rec[j].status
      /\ \A j \in Ids \ {i} : a.rec[j].sent = m.rec[j].sent /\ a.rec[j].recv = m.rec[j].recv
  BY <1>3, <1>4, <1>6 DEF SameTunnels
<1>8. \A j \in Ids \ {i} : ConnectionBytes(a, j) = ConnectionBytes(m, j)
  BY <1>3, <1>6 DEF ConnectionBytes
<1>9. Cap # 0 => \A j \in a.open \ {i} : IsTarget(a.rec[j]) => ConnectionBytes(a, j) < Cap
  BY <1>1, <1>3, <1>6, <1>8 DEF Below
<1>10. CASE IsTarget(a.rec[i])
  <2>1. w = CountTarget(a, i, s + v) /\ s + v \in Nat BY <1>5, <1>10
  <2>2. Books(w) /\ Below(w) /\ ClosesOnly(a, w) BY <1>2, <1>3, <1>9, <2>1, CountTargetFacts
  <2>3. SameTunnels(m, w) BY <1>7, <2>2 DEF SameTunnels, ClosesOnly
  <2>4. AbortsClosed(m, w) BY <1>3, <1>7, <2>2 DEF ClosesOnly, AbortsClosed, ToAbort
  <2>5. \A j \in Ids \ {i} : w.rec[j].sent = m.rec[j].sent /\ w.rec[j].recv = m.rec[j].recv
    BY <1>7, <2>2 DEF ClosesOnly, SameCounts
  <2>6. QED BY <2>2, <2>3, <2>4, <2>5
<1>11. CASE ~IsTarget(a.rec[i])
  <2>1. w = a BY <1>5, <1>11
  <2>2. Cap # 0 => \A j \in a.open : IsTarget(a.rec[j]) => ConnectionBytes(a, j) < Cap
    BY <1>9, <1>11
  <2>3. Below(a) BY <1>3, <2>2 DEF Below
  <2>4. QED BY <1>2, <1>7, <2>1, <2>3 DEF AbortsClosed
<1>12. QED BY <1>10, <1>11

\* No warning, no trip, no event for the callbacks.
SaysNothing(m, w) ==
  w.warned = m.warned /\ w.tripped = m.tripped /\ w.events = m.events

\* A step that counts nothing: it may close tunnels, but not the way the meter
\* closes them itself.
Quiet(m, w) ==
  /\ SameTunnels(m, w) /\ SameCounts(m, w)
  /\ w.counted = m.counted /\ SaysNothing(m, w)
  /\ \A j \in Ids : w.rec[j].status = m.rec[j].status
                    \/ /\ j \in m.open
                       /\ w.rec[j].status \in FinalStatuses \ {"budget", "tunnel_cap"}

\* A quiet call leaves a meter that is below its limits below them.
LEMMA QuietBelow ==
  ASSUME NEW m, NEW w, m.open \subseteq Ids, Below(m), Quiet(m, w)
  PROVE  Below(w)
<1>1. \A j \in Ids : ConnectionBytes(w, j) = ConnectionBytes(m, j)
  BY DEF Quiet, SameTunnels, SameCounts, SaysNothing, ConnectionBytes, CountedBytes
<1>2. \A j \in Ids : IsTarget(w.rec[j]) <=> IsTarget(m.rec[j])
  BY DEF Quiet, SameTunnels, IsTarget
<1>3. QED BY <1>1, <1>2 DEF Below, Quiet, SameTunnels, SaysNothing

\* Two quiet calls in a row are quiet.
LEMMA QuietTwice ==
  ASSUME NEW m, NEW a, NEW w, Quiet(m, a), Quiet(a, w)
  PROVE  Quiet(m, w)
<1>1. SameTunnels(m, w) BY DEF Quiet, SameTunnels
<1>2. SameCounts(m, w) BY DEF Quiet, SameCounts
<1>3. \A j \in Ids : w.rec[j].status = m.rec[j].status
                     \/ /\ j \in m.open
                        /\ w.rec[j].status \in FinalStatuses \ {"budget", "tunnel_cap"}
  BY DEF Quiet, SameTunnels
<1>4. SaysNothing(m, w) BY DEF Quiet, SaysNothing
<1>5. QED BY <1>1, <1>2, <1>3, <1>4 DEF Quiet

\* A call on one record that leaves its counts alone reaches no limit.
LEMMA UpdatedQuiet ==
  ASSUME NEW m \in Meters, NEW i \in Ids, NEW r \in Records,
         r.route = m.rec[i].route, r.from = m.rec[i].from, r.status = m.rec[i].status,
         r.sent = m.rec[i].sent, r.recv = m.rec[i].recv,
         NEW w, w = Updated(m, i, r, m.counted)
  PROVE  Quiet(m, w)
<1>1. m.counted \in Nat BY DEF Meters
<1>2. /\ w.rec = [m.rec EXCEPT ![i] = r] /\ w.counted = m.counted
      /\ w.next = m.next /\ w.open = m.open /\ w.closing = m.closing
      /\ w.base = m.base /\ w.tripped = m.tripped
      /\ w.warned = m.warned /\ w.events = m.events
  BY <1>1, UpdatedFields
<1>3. w.rec[i] = r /\ \A j \in Ids \ {i} : w.rec[j] = m.rec[j] BY <1>2 DEF Meters
<1>4. SaysNothing(m, w) BY <1>2, <1>3 DEF SaysNothing
<1>5. QED BY <1>2, <1>3, <1>4 DEF Quiet, SameTunnels, SameCounts

\* update and its kin reach no limit.
LEMMA AnnotateQuiet ==
  ASSUME NEW m \in Meters, NEW i \in Ids
  PROVE  Quiet(m, Annotate(m, i))
<1> DEFINE r == [m.rec[i] EXCEPT !.note = @ + 1]
<1>1. m.rec[i] \in Records BY DEF Meters
<1>2. /\ r \in Records /\ r.route = m.rec[i].route /\ r.from = m.rec[i].from
      /\ r.status = m.rec[i].status /\ r.sent = m.rec[i].sent /\ r.recv = m.rec[i].recv
  BY <1>1 DEF Records
<1>3. QED BY <1>2, AnnotateIs, UpdatedQuiet

\* mark_all_negotiation reaches no limit.
LEMMA MarkAllNegotiationQuiet ==
  ASSUME NEW m \in Meters, NEW i \in Ids
  PROVE  Quiet(m, MarkAllNegotiation(m, i))
<1> DEFINE r == [m.rec[i] EXCEPT !.negSent = m.rec[i].sent, !.negRecv = m.rec[i].recv]
<1>1. m.rec[i] \in Records BY DEF Meters
<1>2. m.rec[i].sent \in Nat /\ m.rec[i].recv \in Nat BY <1>1 DEF Records
<1>3. r \in Records BY <1>1, <1>2, RecordCounts
<1>4. /\ r.route = m.rec[i].route /\ r.from = m.rec[i].from
      /\ r.status = m.rec[i].status /\ r.sent = m.rec[i].sent /\ r.recv = m.rec[i].recv
  BY <1>1 DEF Records
<1>5. QED BY <1>3, <1>4, MarkAllNegotiationIs, UpdatedQuiet

\* mark_negotiation_received reaches no limit.
LEMMA MarkNegotiationReceivedQuiet ==
  ASSUME NEW m \in Meters, NEW i \in Ids, NEW n \in Nat
  PROVE  Quiet(m, MarkNegotiationReceived(m, i, n))
<1> DEFINE k == Least(m.rec[i].recv, m.rec[i].negRecv + n)
           r == [m.rec[i] EXCEPT !.negRecv = k]
<1>1. m.rec[i] \in Records BY DEF Meters
<1>2. k \in Nat BY <1>1 DEF Records, Least
<1>3. MarkNegotiationReceived(m, i, n) = Updated(m, i, r, m.counted)
  BY MarkNegotiationReceivedIs
<1> HIDE DEF k
<1>4. /\ r \in Records /\ r.route = m.rec[i].route /\ r.from = m.rec[i].from
      /\ r.status = m.rec[i].status /\ r.sent = m.rec[i].sent /\ r.recv = m.rec[i].recv
  BY <1>1, <1>2 DEF Records
<1>5. QED BY <1>3, <1>4, UpdatedQuiet

\* finish reaches no limit and aborts nothing the meter would have to.
LEMMA FinishQuiet ==
  ASSUME NEW m, Books(m), NEW i \in Ids, NEW status \in {"ok"} \cup Failures,
         NEW w, w = Finish(m, i, status)
  PROVE  Quiet(m, w)
<1>1. m \in Meters /\ status \in FinalStatuses BY DEF Books, FinalStatuses
<1>2. CASE m.rec[i].status # "open"
  <2>1. /\ w.rec = m.rec /\ w.open = m.open /\ w.next = m.next
        /\ w.closing = m.closing \cup {i} /\ w.counted = m.counted
        /\ w.base = m.base /\ w.tripped = m.tripped
        /\ w.warned = m.warned /\ w.events = m.events
    BY <1>1, <1>2, FinishClosedFields
  <2>2. SaysNothing(m, w) BY <2>1 DEF SaysNothing
  <2>3. QED BY <2>1, <2>2 DEF Quiet, SameTunnels, SameCounts
<1>3. CASE m.rec[i].status = "open"
  <2>1. /\ \A j \in Ids \ {i} : w.rec[j] = m.rec[j]
        /\ w.rec[i].status = FinalStatus(m, i, status)
        /\ w.rec[i].route = m.rec[i].route /\ w.rec[i].from = m.rec[i].from
        /\ w.rec[i].sent = m.rec[i].sent /\ w.rec[i].recv = m.rec[i].recv
        /\ w.open = m.open \ {i} /\ w.next = m.next
        /\ w.closing = m.closing \cup {i} /\ w.counted = m.counted
        /\ w.base = m.base /\ w.tripped = m.tripped
        /\ w.warned = m.warned /\ w.events = m.events
    BY <1>1, <1>3, FinishOpenFields
  <2>2. FinalStatus(m, i, status) \in FinalStatuses \ {"budget", "tunnel_cap"}
    BY <1>1 DEF FinalStatus, Failures, FinalStatuses, Meters
  <2>3. i \in m.open BY <1>3 DEF Books
  <2>4. SaysNothing(m, w) BY <2>1, <2>2, <2>3 DEF SaysNothing
  <2>5. QED BY <2>1, <2>2, <2>3, <2>4 DEF Quiet, SameTunnels, SameCounts
<1>4. QED BY <1>2, <1>3

\* close_all with "ok" reaches no limit.
LEMMA CloseAllQuiet ==
  ASSUME NEW m, Books(m), NEW w, w = CloseAll(m, "ok")
  PROVE  Quiet(m, w)
<1>1. m \in Meters /\ m.open \subseteq Ids /\ "ok" \in FinalStatuses
  BY DEF Books, Meters, FinalStatuses
<1>2. /\ \A i \in Ids \ m.open : w.rec[i] = m.rec[i]
      /\ \A i \in m.open :
           /\ w.rec[i].status = FinalStatus(m, i, "ok")
           /\ w.rec[i].route = m.rec[i].route /\ w.rec[i].from = m.rec[i].from
           /\ w.rec[i].sent = m.rec[i].sent /\ w.rec[i].recv = m.rec[i].recv
      /\ w.next = m.next /\ w.open = {} /\ w.closing = m.closing \cup m.open
      /\ w.base = m.base /\ w.tripped = m.tripped /\ w.counted = m.counted
      /\ w.warned = m.warned /\ w.events = m.events
  BY <1>1, CloseAllFields
<1>3. \A i \in Ids : FinalStatus(m, i, "ok") \in FinalStatuses \ {"budget", "tunnel_cap"}
  BY <1>1 DEF FinalStatus, FinalStatuses, Failures, Meters
<1>4. SaysNothing(m, w) BY <1>1, <1>2, <1>3 DEF SaysNothing
<1>5. QED BY <1>1, <1>2, <1>3, <1>4 DEF Quiet, SameTunnels, SameCounts

\* Setting ok_status touches no record.
LEMMA SetOkStatusKeeps ==
  ASSUME NEW m, Books(m), NEW i \in Ids, NEW status \in {"ok", "failed:upstream_status"},
         NEW w, w = SetOkStatus(m, i, status)
  PROVE  Books(w) /\ Quiet(m, w)
<1>1. m \in Meters BY DEF Books
<1>2. [m.okStatus EXCEPT ![i] = status] \in [Ids -> {"ok", "failed:upstream_status"}]
  BY <1>1 DEF Meters
<1>3. w = [m EXCEPT !.okStatus = [m.okStatus EXCEPT ![i] = status]]
  BY <1>1 DEF SetOkStatus, Meters
<1>4. /\ w \in Meters /\ w.rec = m.rec /\ w.dirty = m.dirty /\ w.next = m.next
      /\ w.open = m.open /\ w.closing = m.closing /\ w.base = m.base
      /\ w.copies = m.copies /\ w.counted = m.counted /\ w.tripped = m.tripped
      /\ w.warned = m.warned /\ w.events = m.events
  BY <1>1, <1>2, <1>3 DEF Meters
<1>5. Books(w) BY <1>4, BooksSame
<1>6. SaysNothing(m, w) BY <1>4, <1>5 DEF SaysNothing
<1>7. QED BY <1>4, <1>5, <1>6 DEF Quiet, SameTunnels, SameCounts

\* A snapshot brings every copy up to date, which is what lets it clear dirty.
LEMMA SnapshotKeeps ==
  ASSUME NEW m, Books(m), NEW w, w = Snapshot(m)
  PROVE  Books(w) /\ Quiet(m, w)
<1> DEFINE C == [i \in Ids |-> IF i \in m.dirty \cup m.open THEN m.rec[i] ELSE m.copies[i]]
<1>1. m \in Meters BY DEF Books
<1>2. C \in [Ids -> Records] BY <1>1 DEF Meters
<1>3. \A i \in Ids : C[i] = m.rec[i] BY DEF Books
<1>4. w = [m EXCEPT !.copies = C, !.dirty = {}] BY DEF Snapshot
<1> HIDE DEF C
<1>5. /\ w \in Meters /\ w.rec = m.rec /\ w.dirty = {} /\ w.next = m.next
      /\ w.open = m.open /\ w.closing = m.closing /\ w.base = m.base
      /\ w.copies = C /\ w.counted = m.counted /\ w.tripped = m.tripped
      /\ w.warned = m.warned /\ w.events = m.events
  BY <1>1, <1>2, <1>4 DEF Meters
<1>6. Books(w) BY <1>3, <1>5 DEF Books
<1>7. SaysNothing(m, w) BY <1>5, <1>6 DEF SaysNothing
<1>8. QED BY <1>5, <1>6, <1>7 DEF Quiet, SameTunnels, SameCounts

\* Taking bytes back never brings a limit nearer and closes nothing.
LEMMA DiscardSentFacts ==
  ASSUME NEW m, Books(m), Below(m), NEW i \in Ids, i < m.next, NEW n \in Nat,
         NEW w, w = DiscardSent(m, i, n)
  PROVE  /\ Books(w) /\ Below(w) /\ SameTunnels(m, w) /\ SaysNothing(m, w)
         /\ \A j \in Ids : w.rec[j].status = m.rec[j].status
         /\ \A j \in Ids \ {i} : w.rec[j].sent = m.rec[j].sent /\ w.rec[j].recv = m.rec[j].recv
<1> DEFINE k == Least(n, m.rec[i].sent)
           r == UncountFromRecord(m.rec[i], k)
           c == IF IsTarget(m.rec[i]) THEN Uncount(m, k) ELSE m.counted
<1>1. m \in Meters /\ m.rec[i] \in Records /\ m.counted \in Nat /\ m.open \subseteq Ids
  BY DEF Books, Meters
<1>2. k \in Nat /\ k <= m.rec[i].sent BY <1>1 DEF Records, Least
<1>3. w = IF k <= 0 THEN m ELSE Updated(m, i, r, c) BY <1>1, DiscardSentIs
<1> HIDE DEF k
<1>4. c \in Nat /\ c <= m.counted BY <1>1, <1>2 DEF Uncount
<1>5. /\ r.route = m.rec[i].route /\ r.from = m.rec[i].from /\ r.status = m.rec[i].status
      /\ r.sent = m.rec[i].sent - k /\ r.recv = m.rec[i].recv
  BY <1>1 DEF Records, UncountFromRecord
<1>6. r \in Records
  <2>1. /\ m.rec[i].sent - k \in Nat
        /\ Least(m.rec[i].negSent, m.rec[i].sent - k) \in Nat
    BY <1>1, <1>2 DEF Records, Least
  <2>2. QED BY <1>1, <2>1, RecordCounts DEF UncountFromRecord
<1>7. Books(w) BY DiscardSentBooks
<1> HIDE DEF r, c
<1>8. CASE k <= 0
  <2>1. w = m BY <1>3, <1>8
  <2>2. QED BY <1>7, <2>1 DEF SameTunnels, SaysNothing
<1>9. CASE ~(k <= 0)
  <2>1. w = Updated(m, i, r, c) BY <1>3, <1>9
  <2>2. /\ w.rec = [m.rec EXCEPT ![i] = r] /\ w.counted = c
        /\ w.next = m.next /\ w.open = m.open /\ w.closing = m.closing
        /\ w.base = m.base /\ SaysNothing(m, w)
    BY <1>1, <1>4, <1>6, <2>1, UpdatedFields DEF SaysNothing
  <2>3. w.rec[i] = r /\ \A j \in Ids \ {i} : w.rec[j] = m.rec[j] BY <1>1, <2>2 DEF Meters
  <2>4. /\ SameTunnels(m, w)
        /\ \A j \in Ids : w.rec[j].status = m.rec[j].status
        /\ \A j \in Ids \ {i} : w.rec[j].sent = m.rec[j].sent /\ w.rec[j].recv = m.rec[j].recv
    BY <1>5, <2>2, <2>3 DEF SameTunnels
  <2>5. Budget # 0 /\ ~w.tripped => w.counted < Budget
    BY <1>1, <1>4, <2>2, MeterAssumption DEF Below, SaysNothing
  <2>6. ASSUME Cap # 0, NEW j \in w.open, IsTarget(w.rec[j])
        PROVE  ConnectionBytes(w, j) < Cap
    <3>1. j \in Ids /\ j \in m.open /\ IsTarget(m.rec[j]) BY <1>1, <2>2, <2>4, <2>6 DEF SameTunnels, IsTarget
    <3>2. ConnectionBytes(m, j) < Cap BY <2>6, <3>1 DEF Below
    <3>3. CASE j = i
      <4>1. m.rec[i].sent \in Nat /\ m.rec[i].recv \in Nat /\ m.base[i] \in Nat
        BY <1>1 DEF Records, Meters
      <4>2. QED BY <1>2, <1>5, <2>2, <2>3, <3>2, <3>3, <4>1, MeterAssumption
               DEF ConnectionBytes, CountedBytes
    <3>4. CASE j # i BY <2>2, <2>3, <3>1, <3>2, <3>4 DEF ConnectionBytes
    <3>5. QED BY <3>3, <3>4
  <2>7. QED BY <1>7, <2>2, <2>4, <2>5, <2>6 DEF Below
<1>10. QED BY <1>8, <1>9

\* What was counted, and where: the global counter and the record's own counts.
LEMMA CountTargetCounts ==
  ASSUME NEW m \in Meters, NEW i \in Ids, NEW n \in Nat,
         NEW w, w = CountTarget(m, i, n)
  PROVE  w.counted = m.counted + n
<1> DEFINE b == [m EXCEPT !.counted = @ + n]
           a == Warn(b)
<1>0. m.counted + n \in Nat BY DEF Meters
<1>1. b \in Meters /\ b.counted = m.counted + n BY <1>0 DEF Meters
<1>2. w = IF TripDue(a) THEN Trip(a) ELSE IF CapDue(a, i) THEN CloseAtCap(a, i) ELSE a
  BY DEF CountTarget
<1> HIDE DEF b
<1>3. a = Warn(b) OBVIOUS
<1> HIDE DEF a
<1>4. a \in Meters /\ a.counted = m.counted + n BY <1>1, <1>3, WarnFields
<1>5. CASE TripDue(a)
  <2>1. w = Trip(a) BY <1>2, <1>5
  <2>2. PICK c : c = CloseAll(a, "budget") OBVIOUS
  <2>3. QED BY <1>4, <2>1, <2>2, TripFields
<1>6. CASE ~TripDue(a) /\ CapDue(a, i)
  <2>1. w = CloseAtCap(a, i) BY <1>2, <1>6
  <2>2. PICK c : c = Finish(a, i, "tunnel_cap") OBVIOUS
  <2>3. "tunnel_cap" \in FinalStatuses BY DEF FinalStatuses
  <2>4. c \in Meters /\ c.counted = a.counted /\ c.events = a.events
    BY <1>4, <2>2, <2>3, FinishOpenFields, FinishClosedFields
  <2>5. w.counted = c.counted BY <1>4, <2>1, <2>2, <2>4, CloseAtCapFields
  <2>6. QED BY <1>4, <2>4, <2>5
<1>7. CASE ~TripDue(a) /\ ~CapDue(a, i) BY <1>2, <1>4, <1>7
<1>8. QED BY <1>5, <1>6, <1>7

\* Adding bytes to a record adds them to its fields and, of a target, to the total.
LEMMA AddCounts ==
  ASSUME NEW m, Books(m), Below(m), NEW i \in Ids, i < m.next,
         NEW s \in Nat, NEW v \in Nat, NEW neg \in Nat,
         NEW w, w = Add(m, i, s, v, neg)
  PROVE  /\ w.rec[i].sent = m.rec[i].sent + s /\ w.rec[i].recv = m.rec[i].recv + v
         /\ IsTarget(m.rec[i]) => w.counted = m.counted + (s + v)
         /\ ~IsTarget(m.rec[i]) => w.counted = m.counted
<1> DEFINE a == AddToRecord(m, i, s, v, neg)
           r == CountInRecord(m.rec[i], s, v, neg)
<1>1. m \in Meters /\ m.rec[i] \in Records /\ m.counted \in Nat BY DEF Books, Meters
<1>2. Books(a) /\ a \in Meters BY AddToRecordBooks DEF Books
<1>3. /\ a.rec = [m.rec EXCEPT ![i] = r] /\ a.next = m.next /\ a.base = m.base
      /\ a.open = m.open /\ a.counted = m.counted
  BY <1>1 DEF AddToRecord, Meters
<1>4. /\ r.route = m.rec[i].route
      /\ r.sent = m.rec[i].sent + s /\ r.recv = m.rec[i].recv + v
  BY <1>1 DEF Records, CountInRecord
<1>5. w = IF IsTarget(a.rec[i]) THEN CountTarget(a, i, s + v) ELSE a BY DEF Add
<1> HIDE DEF a, r
<1>6. a.rec[i] = r /\ \A j \in Ids \ {i} : a.rec[j] = m.rec[j] BY <1>1, <1>3 DEF Meters
<1>7. IsTarget(a.rec[i]) <=> IsTarget(m.rec[i]) BY <1>4, <1>6 DEF IsTarget
<1>8. CASE IsTarget(a.rec[i])
  <2>1. w = CountTarget(a, i, s + v) /\ s + v \in Nat BY <1>5, <1>8
  <2>2. w.counted = a.counted + (s + v) BY <1>2, <2>1, CountTargetCounts
  <2>3. \A j \in Ids \ {i} : ConnectionBytes(a, j) = ConnectionBytes(m, j)
    BY <1>3, <1>6 DEF ConnectionBytes
  <2>4. m.open \subseteq Ids BY <1>1 DEF Meters
  <2>5. Cap # 0 => \A j \in a.open \ {i} : IsTarget(a.rec[j]) => ConnectionBytes(a, j) < Cap
    BY <1>3, <1>6, <2>3, <2>4 DEF Below
  <2>6. SameCounts(a, w) BY <1>2, <1>3, <2>1, <2>5, CountTargetFacts DEF ClosesOnly
  <2>7. QED BY <1>3, <1>4, <1>6, <1>7, <1>8, <2>2, <2>6 DEF SameCounts
<1>9. CASE ~IsTarget(a.rec[i])
  <2>1. w = a BY <1>5, <1>9
  <2>2. w.rec[i] = r /\ w.counted = m.counted BY <1>3, <1>6, <2>1
  <2>3. ~IsTarget(m.rec[i]) BY <1>7, <1>9
  <2>4. QED BY <1>4, <2>2, <2>3
<1>10. QED BY <1>8, <1>9

\* Taking back sent bytes takes at most what was sent, from the record and the total.
LEMMA DiscardSentCounts ==
  ASSUME NEW m, Books(m), NEW i \in Ids, NEW n \in Nat,
         NEW w, w = DiscardSent(m, i, n),
         NEW k, k = Least(n, m.rec[i].sent)
  PROVE  /\ k \in Nat /\ k <= m.rec[i].sent
         /\ w.rec[i].sent = m.rec[i].sent - k /\ w.rec[i].recv = m.rec[i].recv
         /\ w.counted = IF IsTarget(m.rec[i]) THEN Uncount(m, k) ELSE m.counted
<1> DEFINE r == UncountFromRecord(m.rec[i], k)
           c == IF IsTarget(m.rec[i]) THEN Uncount(m, k) ELSE m.counted
<1>1. m \in Meters /\ m.rec[i] \in Records /\ m.counted \in Nat BY DEF Books, Meters
<1>2. k \in Nat /\ k <= m.rec[i].sent /\ m.rec[i].sent \in Nat BY <1>1 DEF Records, Least
<1>3. w = IF k <= 0 THEN m ELSE Updated(m, i, r, c) BY <1>1, DiscardSentIs
<1>4. c \in Nat /\ (k = 0 => c = m.counted) BY <1>1, <1>2 DEF Uncount
<1>5. r.sent = m.rec[i].sent - k /\ r.recv = m.rec[i].recv
  BY <1>1 DEF Records, UncountFromRecord
<1>6. r \in Records
  <2>1. /\ m.rec[i].sent - k \in Nat
        /\ Least(m.rec[i].negSent, m.rec[i].sent - k) \in Nat
    BY <1>1, <1>2 DEF Records, Least
  <2>2. QED BY <1>1, <2>1, RecordCounts DEF UncountFromRecord
<1> HIDE DEF r, c
<1>7. CASE k <= 0
  <2>1. k = 0 /\ w = m BY <1>2, <1>3, <1>7
  <2>2. QED BY <1>2, <1>4, <2>1 DEF c
<1>8. CASE ~(k <= 0)
  <2>1. w = Updated(m, i, r, c) BY <1>3, <1>8
  <2>2. w.rec = [m.rec EXCEPT ![i] = r] /\ w.counted = c
    BY <1>1, <1>4, <1>6, <2>1, UpdatedFields
  <2>3. w.rec[i] = r BY <1>1, <2>2 DEF Meters
  <2>4. QED BY <1>2, <1>5, <2>2, <2>3 DEF c
<1>9. QED BY <1>7, <1>8

-----------------------------------------------------------------------------
(* Warning, trip and their events.                                         *)

\* The records that a trip closed.
Budgeted(m) == {i \in Ids : m.rec[i].status = "budget"}

\* What the event list tells of the warning and the trip (TripExact).
Told(m) ==
  /\ m.warned <=> \E j \in 1 .. Len(m.events) : m.events[j].kind = "warn_80"
  /\ m.tripped <=> \E j \in 1 .. Len(m.events) : m.events[j].kind = "tripped"
  /\ \A j, k \in 1 .. Len(m.events) :
       m.events[j].kind = "warn_80" /\ m.events[k].kind = "warn_80" => j = k
  /\ \A k \in 1 .. Len(m.events) :
       m.events[k].kind = "tripped" =>
         /\ \A j \in 1 .. Len(m.events) : m.events[j].kind = "tripped" => j = k
         /\ \E j \in 1 .. Len(m.events) : m.events[j].kind = "warn_80" /\ j < k
         /\ m.events[k].counted >= Budget
         /\ m.events[k].closed = Cardinality(Budgeted(m))
  /\ ~m.tripped => Budgeted(m) = {}

\* The events of m are the first events of w.
Extends(m, w) ==
  /\ Len(m.events) <= Len(w.events)
  /\ \A j \in 1 .. Len(m.events) : w.events[j] = m.events[j]

\* A step without a new event, that closes no tunnel for the budget.
LEMMA SilentTold ==
  ASSUME NEW m, NEW w, Told(m), SaysNothing(m, w), Budgeted(w) = Budgeted(m)
  PROVE  Told(w)
BY DEF Told, SaysNothing

\* A quiet call closes no tunnel for the budget.
LEMMA QuietTold ==
  ASSUME NEW m, NEW w, Books(m), Told(m), Quiet(m, w)
  PROVE  Told(w)
<1>1. \A j \in Ids : w.rec[j].status = "budget" <=> m.rec[j].status = "budget"
  BY DEF Quiet, Books
<1>2. Budgeted(w) = Budgeted(m) BY <1>1 DEF Budgeted
<1>3. QED BY <1>2, SilentTold DEF Quiet

\* One more event at the end of the list.
Appends(m, w, x) ==
  /\ Len(m.events) \in Nat
  /\ Len(w.events) = Len(m.events) + 1
  /\ \A j \in 1 .. Len(m.events) : w.events[j] = m.events[j]
  /\ w.events[Len(m.events) + 1] = x

\* An event appended is one event more and the others as they were.
LEMMA AppendsEvent ==
  ASSUME NEW m \in Meters, NEW w, NEW x \in Events, w.events = Append(m.events, x)
  PROVE  Appends(m, w, x)
<1>1. m.events \in Seq(Events) BY DEF Meters
<1>2. QED BY <1>1, AppendProperties, LenProperties DEF Appends

\* Warn keeps the event list true: the warning comes once, before any trip.
LEMMA WarnTold ==
  ASSUME NEW m \in Meters, Told(m), NEW w, w = Warn(m)
  PROVE  /\ Told(w) /\ Extends(m, w)
         /\ Budget # 0 /\ m.counted >= Budget => w.warned
<1>1. w \in Meters /\ w.rec = m.rec /\ w.tripped = m.tripped BY WarnFields
<1>2. Budgeted(w) = Budgeted(m) BY <1>1 DEF Budgeted
<1>3. m.counted \in Nat /\ m.warned \in BOOLEAN BY DEF Meters
<1>4. CASE ~(Budget # 0 /\ ~m.warned /\ m.counted >= WarnAt)
  <2>1. w = m BY <1>4 DEF Warn
  <2>2. QED BY <1>3, <1>4, <2>1, MeterAssumption DEF Extends
<1>5. CASE Budget # 0 /\ ~m.warned /\ m.counted >= WarnAt
  <2> DEFINE x == Event("warn_80", m.counted, 0)
  <2>1. x \in Events /\ x.kind = "warn_80" BY <1>3 DEF Event, Events
  <2>2. Append(m.events, x) \in Seq(Events) BY <2>1 DEF Meters
  <2>3. w.events = Append(m.events, x) /\ w.warned BY <1>5, <2>2 DEF Warn, Meters
  <2> HIDE DEF x
  <2>4. Appends(m, w, x) BY <2>1, <2>3, AppendsEvent
  <2>5. Extends(m, w) BY <2>4 DEF Appends, Extends
  <2>6. ~m.tripped BY <1>5 DEF Told
  <2>7. \A j \in 1 .. Len(w.events) : /\ w.events[j].kind = "warn_80" <=> j = Len(m.events) + 1
                                      /\ w.events[j].kind # "tripped"
    BY <1>5, <2>1, <2>4, <2>6 DEF Appends, Told
  <2>8. \E j \in 1 .. Len(w.events) : w.events[j].kind = "warn_80" BY <2>4, <2>7 DEF Appends
  <2>9. Budgeted(w) = {} BY <1>2, <2>6 DEF Told
  <2>10. ~w.tripped BY <1>1, <2>6
  <2>11. Told(w) BY <2>3, <2>7, <2>8, <2>9, <2>10 DEF Told
  <2>12. QED BY <2>3, <2>5, <2>11
<1>6. QED BY <1>4, <1>5

\* _trip keeps the event list true: one event, which counts what it closed.
LEMMA TripTold ==
  ASSUME NEW m, Books(m), Told(m), TripDue(m), m.warned, NEW w, w = Trip(m)
  PROVE  /\ Told(w) /\ Extends(m, w) /\ w.tripped
         /\ \A j \in Ids : w.rec[j].status = IF j \in m.open THEN "budget" ELSE m.rec[j].status
<1> DEFINE c == CloseAll(m, "budget")
           x == Event("tripped", m.counted, Cardinality(m.open))
<1>1. m \in Meters /\ "budget" \in FinalStatuses /\ m.open \subseteq Ids
  BY DEF Books, FinalStatuses, Meters
<1>0. c = CloseAll(m, "budget") OBVIOUS
<1> HIDE DEF c
<1>2. /\ c \in Meters /\ c.open = {} /\ c.counted = m.counted /\ c.events = m.events
      /\ c.warned = m.warned
      /\ \A i \in Ids \ m.open : c.rec[i] = m.rec[i]
      /\ \A i \in m.open : c.rec[i].status = FinalStatus(m, i, "budget")
  <2>1. m \in Meters /\ "budget" \in FinalStatuses BY <1>1
  <2>2. QED BY ONLY <1>0, <2>1, CloseAllFields
<1>3. w.rec = c.rec /\ w.tripped BY <1>0, <1>1, TripFields
<1>4. Cardinality(m.open) \in Nat
  <2>1. IsFiniteSet(Ids) BY MeterAssumption, FS_Interval DEF Ids
  <2>2. IsFiniteSet(m.open) BY <1>1, <2>1, FS_Subset
  <2>3. QED BY <2>2, FS_CardinalityType
<1>5. /\ x \in Events /\ x.kind = "tripped" /\ x.counted = m.counted
      /\ x.closed = Cardinality(m.open)
  BY <1>1, <1>4 DEF Event, Events, Meters
<1>6. Append(m.events, x) \in Seq(Events) BY <1>1, <1>5 DEF Meters
<1>7. w = [c EXCEPT !.tripped = TRUE, !.events = Append(m.events, x)] BY <1>0, <1>2 DEF Trip
<1> HIDE DEF x
<1>8. w.events = Append(m.events, x) BY <1>2, <1>6, <1>7 DEF Meters
<1>9. w.warned BY <1>2, <1>7 DEF Meters
<1>10. Appends(m, w, x) BY <1>1, <1>5, <1>8, AppendsEvent
<1>11. Extends(m, w) BY <1>10 DEF Appends, Extends
<1>12. \A j \in Ids : w.rec[j].status = IF j \in m.open THEN "budget" ELSE m.rec[j].status
  BY <1>1, <1>2, <1>3 DEF FinalStatus
<1>13. ~m.tripped /\ m.counted >= Budget BY DEF TripDue
<1>14. Budgeted(w) = m.open BY <1>1, <1>12, <1>13 DEF Budgeted, Told
<1>15. \A j \in 1 .. Len(w.events) :
         /\ w.events[j].kind = "tripped" <=> j = Len(m.events) + 1
         /\ w.events[j].kind = "warn_80" <=>
              j \in 1 .. Len(m.events) /\ m.events[j].kind = "warn_80"
  BY <1>5, <1>10, <1>13 DEF Appends, Told
<1>16. PICK j \in 1 .. Len(m.events) : m.events[j].kind = "warn_80" BY DEF Told
<1>17. /\ j \in 1 .. Len(w.events) /\ w.events[j].kind = "warn_80" /\ j < Len(m.events) + 1
       /\ Len(m.events) + 1 \in 1 .. Len(w.events)
  BY <1>10, <1>15, <1>16 DEF Appends
<1>18. w.warned <=> \E i \in 1 .. Len(w.events) : w.events[i].kind = "warn_80" BY <1>9, <1>17
<1>19. w.tripped <=> \E i \in 1 .. Len(w.events) : w.events[i].kind = "tripped"
  BY <1>3, <1>15, <1>17
<1>20. \A i, k \in 1 .. Len(w.events) :
         w.events[i].kind = "warn_80" /\ w.events[k].kind = "warn_80" => i = k
  BY <1>15 DEF Told
<1>21. \A k \in 1 .. Len(w.events) :
         w.events[k].kind = "tripped" =>
           /\ \A i \in 1 .. Len(w.events) : w.events[i].kind = "tripped" => i = k
           /\ \E i \in 1 .. Len(w.events) : w.events[i].kind = "warn_80" /\ i < k
           /\ w.events[k].counted >= Budget
           /\ w.events[k].closed = Cardinality(Budgeted(w))
  BY <1>5, <1>10, <1>13, <1>14, <1>15, <1>17 DEF Appends
<1>22. Told(w) BY <1>3, <1>18, <1>19, <1>20, <1>21 DEF Told
<1>23. QED BY <1>3, <1>11, <1>12, <1>22

\* A close at the cap is no warning and no trip.
LEMMA CloseAtCapTold ==
  ASSUME NEW m, Books(m), Told(m), NEW i \in Ids, NEW w, w = CloseAtCap(m, i)
  PROVE  /\ Told(w) /\ Extends(m, w) /\ w.tripped = m.tripped
         /\ \A j \in Ids \ {i} : w.rec[j].status = m.rec[j].status
         /\ w.rec[i].status = IF i \in m.open THEN "tunnel_cap" ELSE m.rec[i].status
<1> DEFINE c == Finish(m, i, "tunnel_cap")
           x == Event("tunnel_cap", ConnectionBytes(m, i), 1)
<1>1. m \in Meters /\ "tunnel_cap" \in FinalStatuses BY DEF Books, FinalStatuses
<1>2. m.rec[i] \in Records /\ m.base[i] \in Nat BY <1>1 DEF Meters
<1>3. ConnectionBytes(m, i) \in Nat BY <1>2 DEF ConnectionBytes, CountedBytes, Records
<1>4. /\ c \in Meters /\ c.events = m.events /\ c.warned = m.warned /\ c.tripped = m.tripped
      /\ \A j \in Ids \ {i} : c.rec[j] = m.rec[j]
      /\ c.rec[i].status = IF i \in m.open THEN "tunnel_cap" ELSE m.rec[i].status
  <2>1. CASE m.rec[i].status = "open"
    <3>1. i \in m.open BY <2>1 DEF Books
    <3>2. FinalStatus(m, i, "tunnel_cap") = "tunnel_cap" BY DEF FinalStatus
    <3>3. QED BY <1>1, <2>1, <3>1, <3>2, FinishOpenFields
  <2>2. CASE m.rec[i].status # "open"
    <3>1. i \notin m.open BY <2>2 DEF Books
    <3>2. QED BY <1>1, <2>2, <3>1, FinishClosedFields
  <2>3. QED BY <2>1, <2>2
<1>5. x \in Events /\ x.kind = "tunnel_cap" BY <1>3 DEF Event, Events
<1>6. Append(m.events, x) \in Seq(Events) BY <1>1, <1>5 DEF Meters
<1>7. w = [c EXCEPT !.events = Append(m.events, x)] BY <1>4 DEF CloseAtCap
<1> HIDE DEF c, x
<1>8. /\ w.events = Append(m.events, x) /\ w.rec = c.rec
      /\ w.warned = c.warned /\ w.tripped = c.tripped
  BY <1>4, <1>6, <1>7 DEF Meters
<1>9. Appends(m, w, x) BY <1>1, <1>5, <1>8, AppendsEvent
<1>10. Extends(m, w) BY <1>9 DEF Appends, Extends
<1>11. \A j \in Ids : w.rec[j].status = "budget" <=> m.rec[j].status = "budget"
  BY <1>4, <1>8 DEF Books
<1>12. Budgeted(w) = Budgeted(m) BY <1>11 DEF Budgeted
<1>13. \A j \in 1 .. Len(w.events) :
         \A k \in {"warn_80", "tripped"} :
           w.events[j].kind = k <=> j \in 1 .. Len(m.events) /\ m.events[j].kind = k
  BY <1>5, <1>9 DEF Appends
<1>14. \A j \in 1 .. Len(m.events) : j \in 1 .. Len(w.events) /\ w.events[j] = m.events[j]
  BY <1>9 DEF Appends
<1>15. Told(w)
  <2>1. w.warned <=> \E j \in 1 .. Len(w.events) : w.events[j].kind = "warn_80"
    BY <1>4, <1>8, <1>13, <1>14 DEF Told
  <2>2. w.tripped <=> \E j \in 1 .. Len(w.events) : w.events[j].kind = "tripped"
    BY <1>4, <1>8, <1>13, <1>14 DEF Told
  <2>3. \A j, k \in 1 .. Len(w.events) :
          w.events[j].kind = "warn_80" /\ w.events[k].kind = "warn_80" => j = k
    BY <1>13 DEF Told
  <2>4. \A k \in 1 .. Len(w.events) :
          w.events[k].kind = "tripped" =>
            /\ \A j \in 1 .. Len(w.events) : w.events[j].kind = "tripped" => j = k
            /\ \E j \in 1 .. Len(w.events) : w.events[j].kind = "warn_80" /\ j < k
            /\ w.events[k].counted >= Budget
            /\ w.events[k].closed = Cardinality(Budgeted(w))
    BY <1>12, <1>13, <1>14 DEF Told
  <2>5. ~w.tripped => Budgeted(w) = {} BY <1>4, <1>8, <1>12 DEF Told
  <2>6. QED BY <2>1, <2>2, <2>3, <2>4, <2>5 DEF Told
<1>16. QED BY <1>4, <1>8, <1>10, <1>15

\* What a count does to the tunnels: nothing, a trip, or a close at the cap.
CountCloses(m, w, i) ==
  \/ /\ w.tripped = m.tripped
     /\ \A j \in Ids : w.rec[j].status = m.rec[j].status
  \/ /\ ~m.tripped /\ w.tripped
     /\ \A j \in Ids : w.rec[j].status = IF j \in m.open THEN "budget" ELSE m.rec[j].status
  \/ /\ w.tripped = m.tripped
     /\ \A j \in Ids \ {i} : w.rec[j].status = m.rec[j].status
     /\ i \in m.open /\ w.rec[i].status = "tunnel_cap"

\* Every count keeps the event list true and only adds to it.
LEMMA CountTargetTold ==
  ASSUME NEW m, Books(m), Told(m), NEW i \in Ids, NEW n \in Nat,
         NEW w, w = CountTarget(m, i, n)
  PROVE  Told(w) /\ Extends(m, w) /\ CountCloses(m, w, i)
<1> DEFINE b == [m EXCEPT !.counted = @ + n]
           a == Warn(b)
<1>1. m \in Meters /\ m.counted + n \in Nat BY DEF Books, Meters
<1>2. /\ b \in Meters /\ b.rec = m.rec /\ b.dirty = m.dirty /\ b.next = m.next
      /\ b.open = m.open /\ b.closing = m.closing /\ b.base = m.base /\ b.copies = m.copies
      /\ b.tripped = m.tripped /\ b.warned = m.warned /\ b.events = m.events
  BY <1>1 DEF Meters
<1>3. w = IF TripDue(a) THEN Trip(a) ELSE IF CapDue(a, i) THEN CloseAtCap(a, i) ELSE a
  BY DEF CountTarget
<1> HIDE DEF b
<1>4. a = Warn(b) OBVIOUS
<1> HIDE DEF a
<1>5. /\ a \in Meters /\ a.rec = m.rec /\ a.dirty = m.dirty /\ a.next = m.next
      /\ a.open = m.open /\ a.closing = m.closing /\ a.base = m.base /\ a.copies = m.copies
      /\ a.tripped = m.tripped /\ a.counted = b.counted
  BY <1>2, <1>4, WarnFields
<1>6. Books(a) BY <1>5, BooksSame
<1>7. Told(b)
  <2>1. Budgeted(b) = Budgeted(m) BY <1>2 DEF Budgeted
  <2>2. SaysNothing(m, b) BY <1>2 DEF SaysNothing
  <2>3. QED BY <2>1, <2>2, SilentTold
<1>8. Told(a) /\ Extends(b, a) /\ (Budget # 0 /\ b.counted >= Budget => a.warned)
  BY <1>2, <1>4, <1>7, WarnTold
<1>9. Extends(m, a) BY <1>2, <1>8 DEF Extends
<1>10. m.events \in Seq(Events) /\ Len(m.events) \in Nat BY <1>1, LenProperties DEF Meters
<1>11. a.events \in Seq(Events) /\ Len(a.events) \in Nat BY <1>5, LenProperties DEF Meters
<1>12. ASSUME w \in Meters, Extends(a, w) PROVE Extends(m, w)
  <2>1. w.events \in Seq(Events) /\ Len(w.events) \in Nat BY <1>12, LenProperties DEF Meters
  <2>2. QED BY <1>9, <1>10, <1>11, <1>12, <2>1 DEF Extends
<1>13. CASE TripDue(a)
  <2>1. w = Trip(a) /\ a.warned BY <1>3, <1>5, <1>8, <1>13 DEF TripDue
  <2>2. Told(w) /\ Extends(a, w) /\ w.tripped
        /\ \A j \in Ids : w.rec[j].status = IF j \in a.open THEN "budget" ELSE a.rec[j].status
    BY <1>6, <1>8, <1>13, <2>1, TripTold
  <2>3. w \in Meters BY <1>5, <2>1, TripFields
  <2>4. ~m.tripped BY <1>5, <1>13 DEF TripDue
  <2>5. QED BY <1>5, <1>12, <2>2, <2>3, <2>4 DEF CountCloses
<1>14. CASE ~TripDue(a) /\ CapDue(a, i)
  <2>1. w = CloseAtCap(a, i) BY <1>3, <1>14
  <2>2. /\ Told(w) /\ Extends(a, w) /\ w.tripped = a.tripped
        /\ \A j \in Ids \ {i} : w.rec[j].status = a.rec[j].status
        /\ w.rec[i].status = IF i \in a.open THEN "tunnel_cap" ELSE a.rec[i].status
    BY <1>6, <1>8, <2>1, CloseAtCapTold
  <2>3. w \in Meters
    <3> DEFINE c == Finish(a, i, "tunnel_cap")
    <3>1. c = Finish(a, i, "tunnel_cap") /\ "tunnel_cap" \in FinalStatuses BY DEF FinalStatuses
    <3> HIDE DEF c
    <3>2. c \in Meters /\ c.events = a.events
      BY <1>5, <3>1, FinishOpenFields, FinishClosedFields
    <3>3. a \in Meters BY <1>5
    <3>4. QED BY ONLY <2>1, <3>1, <3>2, <3>3, CloseAtCapFields, i \in Ids
  <2>4. CASE i \in a.open BY <1>5, <1>12, <2>2, <2>3, <2>4 DEF CountCloses
  <2>5. CASE i \notin a.open
    <3>1. \A j \in Ids : w.rec[j].status = m.rec[j].status BY <1>5, <2>2, <2>5
    <3>2. QED BY <1>5, <1>12, <2>2, <2>3, <3>1 DEF CountCloses
  <2>6. QED BY <2>4, <2>5
<1>15. CASE ~TripDue(a) /\ ~CapDue(a, i)
  <2>1. w = a BY <1>3, <1>15
  <2>2. QED BY <1>5, <1>8, <1>9, <2>1 DEF CountCloses
<1>16. QED BY <1>13, <1>14, <1>15

\* So does _add.
LEMMA AddTold ==
  ASSUME NEW m, Books(m), Told(m), NEW i \in Ids, i < m.next,
         NEW s \in Nat, NEW v \in Nat, NEW neg \in Nat,
         NEW w, w = Add(m, i, s, v, neg)
  PROVE  Told(w) /\ Extends(m, w) /\ CountCloses(m, w, i)
<1> DEFINE a == AddToRecord(m, i, s, v, neg)
           r == CountInRecord(m.rec[i], s, v, neg)
<1>1. m \in Meters /\ m.rec[i] \in Records BY DEF Books, Meters
<1>2. Books(a) BY AddToRecordBooks
<1>3. /\ a.rec = [m.rec EXCEPT ![i] = r] /\ a.open = m.open /\ a.events = m.events
      /\ a.tripped = m.tripped /\ a.warned = m.warned
  BY <1>1 DEF AddToRecord, Meters
<1>4. r.status = m.rec[i].status BY <1>1 DEF Records, CountInRecord
<1>5. w = IF IsTarget(a.rec[i]) THEN CountTarget(a, i, s + v) ELSE a BY DEF Add
<1> HIDE DEF a, r
<1>6. \A j \in Ids : a.rec[j].status = m.rec[j].status BY <1>1, <1>3, <1>4 DEF Meters
<1>7. SaysNothing(m, a) BY <1>3 DEF SaysNothing
<1>8. Told(a)
  <2>1. Budgeted(a) = Budgeted(m) BY <1>6 DEF Budgeted
  <2>2. QED BY <1>7, <2>1, SilentTold
<1>9. CASE IsTarget(a.rec[i])
  <2>1. w = CountTarget(a, i, s + v) /\ s + v \in Nat BY <1>5, <1>9
  <2>2. Told(w) /\ Extends(a, w) /\ CountCloses(a, w, i) BY <1>2, <1>8, <2>1, CountTargetTold
  <2>3. Extends(m, w) BY <1>3, <2>2 DEF Extends
  <2>4. CountCloses(m, w, i) BY <1>3, <1>6, <2>2 DEF CountCloses
  <2>5. QED BY <2>2, <2>3, <2>4
<1>10. CASE ~IsTarget(a.rec[i])
  <2>1. w = a BY <1>5, <1>10
  <2>2. Len(m.events) \in Nat BY <1>1, LenProperties DEF Meters
  <2>3. Extends(m, w) BY <1>3, <2>1, <2>2 DEF Extends
  <2>4. QED BY <1>3, <1>6, <1>8, <2>1, <2>3 DEF CountCloses
<1>11. QED BY <1>9, <1>10

-----------------------------------------------------------------------------
(* New records.                                                            *)

\* A step that adds one record and touches no other.
Adds(m, w, r) ==
  /\ w.next = m.next + 1
  /\ w.rec[m.next] = r
  /\ \A j \in Ids \ {m.next} : w.rec[j] = m.rec[j]
  /\ w.open \subseteq m.open \cup {m.next} /\ m.open \subseteq w.open
  /\ r.status = "open" => m.next \in w.open
  /\ w.closing = m.closing /\ w.counted = m.counted /\ SaysNothing(m, w)

\* What open_tunnel adds is one record with no bytes, listed as open.
LEMMA OpenTunnelAdds ==
  ASSUME NEW m \in Meters, m.next \in Ids, NEW route, NEW p,
         NEW w, w = OpenTunnel(m, route, p)
  PROVE  Adds(m, w, NewRecord(route, "open", p)) /\ w.base = m.base /\ w.open = m.open \cup {m.next}
<1> DEFINE r == NewRecord(route, "open", p)
<1>1. /\ w.rec = [m.rec EXCEPT ![m.next] = r] /\ w.next = m.next + 1
      /\ w.open = m.open \cup {m.next} /\ w.base = m.base
      /\ w.closing = m.closing /\ w.counted = m.counted /\ w.tripped = m.tripped
      /\ w.warned = m.warned /\ w.events = m.events
  BY DEF OpenTunnel, AppendRecord, Meters
<1> HIDE DEF r
<1>2. w.rec[m.next] = r /\ \A j \in Ids \ {m.next} : w.rec[j] = m.rec[j] BY <1>1 DEF Meters
<1>3. Adds(m, w, r) BY <1>1, <1>2 DEF Adds, SaysNothing
<1>4. QED BY <1>1, <1>3 DEF r

\* record_denied adds one record that was never open.
LEMMA RecordDeniedFacts ==
  ASSUME NEW m, Books(m), m.next \in Ids, NEW w, w = RecordDenied(m)
  PROVE  /\ Books(w) /\ Adds(m, w, NewRecord("refused", "denied", 0))
         /\ w.base = m.base /\ w.open = m.open
<1> DEFINE r == NewRecord("refused", "denied", 0)
<1>1. m \in Meters BY DEF Books
<1>2. /\ r \in Records /\ r.status = "denied" /\ r.negSent = 0 /\ r.negRecv = 0
      /\ r.sent = 0 /\ r.recv = 0
  <2>1. /\ r = [NoRecord EXCEPT !.route = "refused", !.status = "denied", !.from = 0]
        /\ "refused" \in OpenRoutes \cup {"refused", "none"} /\ 0 \in 0 .. MaxRecords
        /\ "denied" \in {"none", "open"} \cup FinalStatuses
    BY MeterAssumption DEF NewRecord, FinalStatuses
  <2>2. NoRecord \in Records BY MeterAssumption DEF NoRecord, Records
  <2>3. r \in Records BY <2>1, <2>2 DEF Records
  <2>4. QED BY <2>1, <2>3 DEF NoRecord
<1>3. w = AppendRecord(m, r) BY DEF RecordDenied
<1>4. w \in Meters BY <1>1, <1>2, <1>3, AppendRecordType
<1>5. /\ w.rec = [m.rec EXCEPT ![m.next] = r] /\ w.next = m.next + 1
      /\ w.open = m.open /\ w.base = m.base /\ w.copies = m.copies
      /\ w.dirty = m.dirty \cup {m.next}
      /\ w.closing = m.closing /\ w.counted = m.counted /\ w.tripped = m.tripped
      /\ w.warned = m.warned /\ w.events = m.events
  BY <1>1, <1>3 DEF AppendRecord, Meters
<1> HIDE DEF r
<1>6. w.rec[m.next] = r /\ \A j \in Ids \ {m.next} : w.rec[j] = m.rec[j] BY <1>1, <1>5 DEF Meters
<1>7. m.rec[m.next].status = "none" BY DEF Books, Ids, NoRecord
<1>8. \A i \in Ids : i \in w.open <=> w.rec[i].status = "open"
  BY <1>2, <1>5, <1>6, <1>7 DEF Books
<1>9. \A i \in Ids : i \notin w.open \cup w.dirty => w.copies[i] = w.rec[i]
  BY <1>5, <1>6 DEF Books
<1>10. \A i \in Ids : /\ w.rec[i].negSent <= w.rec[i].sent
                      /\ w.rec[i].negRecv <= w.rec[i].recv
  BY <1>2, <1>6 DEF Books
<1>11. \A i \in Ids : i >= w.next => /\ w.rec[i] = NoRecord
                                     /\ w.base[i] = 0
                                     /\ i \notin w.closing
  <2> SUFFICES ASSUME NEW i \in Ids, i >= m.next + 1
               PROVE  w.rec[i] = NoRecord /\ m.base[i] = 0 /\ i \notin m.closing
    BY <1>5
  <2>1. i >= m.next /\ i # m.next BY <1>1 DEF Ids, Meters
  <2>2. QED BY <2>1, <1>6 DEF Books
<1>12. Books(w) BY <1>4, <1>5, <1>8, <1>9, <1>10, <1>11 DEF Books
<1>13. Adds(m, w, r) BY <1>2, <1>5, <1>6 DEF Adds, SaysNothing
<1>14. QED BY <1>5, <1>12, <1>13 DEF r

\* A new record is not closed by the budget.
LEMMA AddsTold ==
  ASSUME NEW m, Books(m), Told(m), m.next \in Ids, NEW w, NEW r,
         Adds(m, w, r), r.status # "budget"
  PROVE  Told(w)
<1>1. m.rec[m.next].status = "none" BY DEF Books, Ids, NoRecord
<1>2. \A j \in Ids : w.rec[j].status = "budget" <=> m.rec[j].status = "budget"
  BY <1>1 DEF Adds
<1>3. Budgeted(w) = Budgeted(m) BY <1>2 DEF Budgeted
<1>4. QED BY <1>3, SilentTold DEF Adds

\* A new connection: no bytes yet, so it starts below the cap.
LEMMA AddsBelow ==
  ASSUME NEW m, Books(m), Below(m), m.next \in Ids, NEW w, NEW r,
         Adds(m, w, r), r.sent = 0, r.recv = 0, w.base = m.base,
         Cap # 0 => 0 < Cap
  PROVE  Below(w)
<1>1. m.base[m.next] = 0 /\ m.open \subseteq Ids BY DEF Books, Meters, Ids
<1>2. ConnectionBytes(w, m.next) = 0
  BY <1>1 DEF Adds, ConnectionBytes, CountedBytes
<1>3. \A j \in Ids \ {m.next} : ConnectionBytes(w, j) = ConnectionBytes(m, j)
  BY DEF Adds, ConnectionBytes
<1>4. QED BY <1>1, <1>2, <1>3 DEF Below, Adds, SaysNothing

\* A record that continues p's connection starts with what p has counted.
LEMMA ContinueFacts ==
  ASSUME NEW m, Books(m), Below(m), m.next \in Ids, NEW p \in m.open,
         m.rec[p].route = "http-connect",
         NEW r, r = NewRecord("http-connect", "open", p),
         NEW w, w = ContinueConnection(OpenTunnel(m, "http-connect", p), p, m.next)
  PROVE  /\ Books(w) /\ Below(w) /\ Adds(m, w, r)
         /\ w.base = [m.base EXCEPT ![m.next] = ConnectionBytes(m, p)]
<1> DEFINE o == OpenTunnel(m, "http-connect", p)
           b == [m.base EXCEPT ![m.next] = ConnectionBytes(m, p)]
<1>1. /\ m \in Meters /\ m.open \subseteq Ids /\ p \in Ids /\ p \in 0 .. MaxRecords
      /\ m.rec[p] \in Records /\ m.base[p] \in Nat
  <2>1. m \in Meters BY DEF Books
  <2>2. m.open \subseteq Ids BY <2>1 DEF Meters
  <2>3. p \in Ids BY <2>2
  <2>4. p \in 0 .. MaxRecords BY <2>3, MeterAssumption DEF Ids
  <2>5. m.rec[p] \in Records /\ m.base[p] \in Nat BY <2>1, <2>3 DEF Meters
  <2>6. QED BY <2>1, <2>2, <2>3, <2>4, <2>5
<1>2. "http-connect" \in OpenRoutes BY DEF OpenRoutes, TargetRoutes
<1>3. Books(o) BY <1>1, <1>2, OpenTunnelBooks
<1>4. o \in Meters /\ Adds(m, o, r) /\ o.base = m.base /\ o.open = m.open \cup {m.next}
  BY <1>1, <1>3, OpenTunnelAdds DEF Books
<1>5. w = ContinueConnection(o, p, m.next) OBVIOUS
<1> HIDE DEF o
<1>6. p # m.next
  <2>1. m.rec[p].status = "open" BY <1>1 DEF Books
  <2>2. m.rec[m.next].status = "none" BY DEF Books, Ids, NoRecord
  <2>3. QED BY <2>1, <2>2
<1>7. ConnectionBytes(o, p) = ConnectionBytes(m, p)
  BY <1>1, <1>4, <1>6 DEF ConnectionBytes, Adds
<1>8. ConnectionBytes(m, p) \in Nat BY <1>1 DEF ConnectionBytes, CountedBytes, Records
<1>9. b \in [Ids -> Nat] BY <1>1, <1>8 DEF Meters
<1>10. w = [o EXCEPT !.base = b] BY <1>4, <1>5, <1>7 DEF ContinueConnection, Meters
<1>11. b[m.next] = ConnectionBytes(m, p) /\ \A j \in Ids \ {m.next} : b[j] = m.base[j]
  BY <1>1 DEF Meters
<1> HIDE DEF b
<1>12. /\ w \in Meters /\ w.base = b /\ w.rec = o.rec /\ w.next = o.next /\ w.open = o.open
       /\ w.closing = o.closing /\ w.dirty = o.dirty /\ w.copies = o.copies
       /\ w.counted = o.counted /\ w.tripped = o.tripped
       /\ w.warned = o.warned /\ w.events = o.events
  BY <1>4, <1>9, <1>10 DEF Meters
<1>13. \A j \in Ids : j >= w.next => w.base[j] = 0
  <2>1. \A j \in Ids : j >= m.next + 1 => j # m.next /\ j >= m.next BY <1>1 DEF Meters, Ids
  <2>2. QED BY <2>1, <1>4, <1>11, <1>12 DEF Adds, Books
<1>14. Books(w) BY <1>3, <1>12, <1>13 DEF Books
<1>15. Adds(m, w, r) BY <1>4, <1>12 DEF Adds, SaysNothing
<1>16. r.sent = 0 /\ r.recv = 0 BY DEF NewRecord, NoRecord
<1>17. ConnectionBytes(w, m.next) = ConnectionBytes(m, p)
  BY <1>8, <1>11, <1>12, <1>15, <1>16 DEF ConnectionBytes, CountedBytes, Adds
<1>18. \A j \in Ids \ {m.next} : ConnectionBytes(w, j) = ConnectionBytes(m, j)
  BY <1>11, <1>12, <1>15 DEF Adds, ConnectionBytes
<1>19. Cap # 0 => ConnectionBytes(m, p) < Cap BY DEF Below, IsTarget, TargetRoutes
<1>20. Below(w) BY <1>1, <1>15, <1>17, <1>18, <1>19 DEF Below, Adds, SaysNothing
<1>21. QED BY <1>12, <1>14, <1>15, <1>20 DEF b
=============================================================================
