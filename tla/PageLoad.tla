------------------------------ MODULE PageLoad ------------------------------
(***************************************************************************)
(* find/browser.py: one page load, and the collector of its responses.     *)
(*                                                                         *)
(* The browser (external) sends requests through the meter and fires       *)
(* Playwright's events; a task reads each finished response, at most Slots *)
(* at a time, while load_page goes from the navigation to the drain.  The  *)
(* meter (external) may answer a plain-http request itself, and a site may *)
(* send a reply that looks like that; the meter's records tell them apart. *)
(*                                                                         *)
(* There is no clock: every timeout and deadline may come at any time, and *)
(* so may an error of the browser where a response is read.  Sizes, types  *)
(* and the texts are left out.                                             *)
(***************************************************************************)
EXTENDS FiniteSets, Naturals, Sequences

CONSTANTS
  Fetches,    \* the requests that the page may send
  Pages,      \* what they are and how they are answered: see IsPage
  Slots,      \* BODY_READ_CONCURRENCY
  MaxWires    \* bound: WebSockets of the page

\* The codes in X-Scrapescope-Error: those with a counter of refusals (or of internal
\* errors) in a snapshot, those with a tunnel status; a status is called like its code.
CountedCodes == {"budget", "self-loop", "bad-request", "internal-error"}
StatusCodes  == {"denied", "self-loop", "bad-request", "internal-error", "upstream-closed"}
Codes == CountedCodes \cup StatusCodes \cup {"unheard"}

\* Of a request its scheme ("odd": a URL that urlsplit or clean_host refuses) and
\* host; who answers it, and with what code; and what the meter records of its own
\* answer: its count ("count") or its status, of a tunnel to that host; a reset of the
\* upstream has a status of its own and shares the code of a close.
IsFetch(f) ==
  /\ f.scheme \in {"http", "https", "data", "odd"} /\ f.host \in Nat
  /\ f.by \in {"site", "meter", "look-alike"}
  /\ f.code \in IF f.by = "site" THEN {"none"} ELSE Codes
  /\ f.by = "meter" =>
       /\ f.scheme = "http"
       /\ \/ f.record = "count" /\ f.code \in CountedCodes
          \/ f.record = f.code /\ f.code \in StatusCodes
          \/ f.record = "upstream-reset" /\ f.code = "upstream-closed"
IsPage(g) == DOMAIN g \subseteq Fetches /\ \A r \in DOMAIN g : IsFetch(g[r])

ASSUME PageLoadAssumption ==
  /\ \A g \in Pages : IsPage(g)
  /\ Slots \in Nat \ {0} /\ MaxWires \in Nat

VARIABLES
  asks,      \* the page, one of Pages
  net,       \* net[r]: "new", "sent", "answered", "over", "lost" (failed)
  records,   \* what a MeterSnapshot shows: counters above zero, tunnels that ended
  collector, \* the _Collector: stopped, pending, extra_skips; and the requests it took (ghost)
  reader,    \* reader[r]: where r's task is, whether it was cancelled, and whether it has
             \* no headers to look at ("bare")
  responses, \* responses[r]: what was appended to the collector's responses of r
  load       \* load_page: where it is, which attempt, the main document and whether it was judged
             \* without its headers or body ("blind"), the tasks that the drain waits for, what came out

loadVars == <<asks, net, records, collector, reader, responses, load>>

Sent      == DOMAIN asks
NoReader  == [pc |-> "none", cut |-> FALSE, bare |-> FALSE]
NewLoad(attempt) ==
  [pc |-> "goto", attempt |-> attempt, main |-> {}, blind |-> FALSE, waits |-> {}, result |-> "none"]
NewCollector == [stopped |-> FALSE, pending |-> {}, took |-> {}, other |-> 0, failed |-> 0, websocket |-> 0]
Nothing   == [r \in Sent |-> <<>>]
Reading   == {r \in Sent : reader[r].pc \notin {"none", "end"}}
Inside    == {r \in Reading : reader[r].pc # "waits"}

InitLoad ==
  /\ asks \in Pages
  /\ net = [r \in Sent |-> "new"]
  /\ records = [counted |-> {}, ended |-> {}]
  /\ collector = NewCollector
  /\ reader = [r \in Sent |-> NoReader]
  /\ responses = Nothing
  /\ load = NewLoad(1)

Adds(r, what) == responses' = [responses EXCEPT ![r] = Append(@, what)]
At(r, pc)     == reader' = [reader EXCEPT ![r].pc = pc]

-----------------------------------------------------------------------------
(* The browser and the meter, and the collector's callbacks.                *)

\* "request": _on_request.  The first one of an attempt is the main document's.
Request(r) ==
  /\ net[r] = "new" /\ load.pc # "end"
  /\ net' = [net EXCEPT ![r] = "sent"]
  /\ load' = IF load.main = {} THEN [load EXCEPT !.main = {r}] ELSE load
  /\ collector' =
       IF collector.stopped \/ asks[r].scheme = "data" THEN collector
       ELSE [collector EXCEPT !.pending = @ \cup {r}, !.took = @ \cup {r}]
  /\ UNCHANGED <<asks, records, reader, responses>>

\* An answer; the meter records its own before it writes it.
Respond(r) ==
  /\ net[r] = "sent" /\ load.pc # "end"
  /\ net' = [net EXCEPT ![r] = "answered"]
  /\ records' =
       IF asks[r].by # "meter" THEN records
       ELSE IF asks[r].record = "count" THEN [records EXCEPT !.counted = @ \cup {asks[r].code}]
       ELSE [records EXCEPT !.ended = @ \cup {<<asks[r].host, asks[r].record>>}]
  /\ UNCHANGED <<asks, collector, reader, responses, load>>

\* "requestfinished": _on_finished, whose task has no observation of an odd URL.
TakesLate(r) == r \in collector.pending
Takes(r) == ~collector.stopped /\ r \in collector.pending
OnFinished(r) ==
  /\ net[r] = "answered" /\ load.pc # "end"
  /\ net' = [net EXCEPT ![r] = "over"]
  /\ IF ~Takes(r) THEN UNCHANGED <<collector, reader>>
     ELSE IF asks[r].scheme = "odd"
     THEN /\ collector' = [collector EXCEPT !.pending = @ \ {r}, !.other = @ + 1]
          /\ UNCHANGED reader
     ELSE /\ collector' = [collector EXCEPT !.pending = @ \ {r}]
          /\ At(r, "waits")
  /\ UNCHANGED <<asks, records, responses, load>>

\* "requestfailed": _on_failed.
OnFailed(r) ==
  /\ net[r] \in {"sent", "answered"} /\ load.pc # "end"
  /\ net' = [net EXCEPT ![r] = "lost"]
  /\ IF ~Takes(r) THEN UNCHANGED <<collector, responses>>
     ELSE IF asks[r].scheme = "odd"
     THEN /\ collector' = [collector EXCEPT !.pending = @ \ {r}, !.failed = @ + 1]
          /\ UNCHANGED responses
     ELSE /\ collector' = [collector EXCEPT !.pending = @ \ {r}]
          /\ Adds(r, "failed")
  /\ UNCHANGED <<asks, records, reader, load>>

\* _on_websocket.
OpensWire ==
  /\ load.pc # "end" /\ ~collector.stopped /\ collector.websocket < MaxWires
  /\ collector' = [collector EXCEPT !.websocket = @ + 1]
  /\ UNCHANGED <<asks, net, records, reader, responses, load>>

-----------------------------------------------------------------------------
(* A task: _process and _observe.                                           *)

\* meter_reply_check_from_snapshot: do the records hold the reply that a code stands for?
Shown(r) ==
  LET code == asks[r].code mine == {e \in records.ended : e[1] = asks[r].host}
  IN  \/ code \in CountedCodes /\ code \in records.counted
      \/ IF code \in StatusCodes THEN <<asks[r].host, code>> \in mine
         ELSE code \notin CountedCodes /\ mine # {}

\* meter_error_code, of plain http only; and confirmed.
OwnReply(r) == asks[r].scheme = "http" /\ asks[r].code # "none" /\ Shown(r)

Ends(r, what) == At(r, "end") /\ Adds(r, what)

Enters(r) ==
  /\ reader[r].pc = "waits" /\ Cardinality(Inside) < Slots
  /\ At(r, "heads")
  /\ UNCHANGED responses

\* The response and its headers: none, an error, one without a body to search, the meter's
\* own; or its body is asked for.  Where the headers cannot be read it goes on without them.
HeadsFail(r) == reader' = [reader EXCEPT ![r].pc = "body", ![r].bare = TRUE]
Heads(r) ==
  /\ reader[r].pc = "heads"
  /\ \/ \E what \in {"failed", "other", "skipped"} : Ends(r, what)
     \/ OwnReply(r) /\ Ends(r, "meter")
     \/ ~OwnReply(r) /\ At(r, "body") /\ UNCHANGED responses
     \/ HeadsFail(r) /\ UNCHANGED responses

\* The body: evicted, too large, a challenge page, too late; or it is searched.
Body(r) ==
  /\ reader[r].pc = "body"
  /\ \/ \E what \in {"skipped", "other"} : Ends(r, what)
     \/ At(r, "search") /\ UNCHANGED responses
Searched(r) ==
  /\ reader[r].pc = "search"
  /\ Ends(r, "searched")

\* A cancelled task ends at its wait, and is counted; one that has not begun when
\* the whole load is given up is not.  (A wait that was over already goes on.)
CutOff(r) ==
  /\ r \in Reading /\ reader[r].cut
  /\ \/ Ends(r, "other")
     \/ reader[r].pc = "waits" /\ load.pc = "dropping" /\ At(r, "end") /\ UNCHANGED responses

ReaderStep ==
  /\ \E r \in Sent : Enters(r) \/ Heads(r) \/ Body(r) \/ Searched(r) \/ CutOff(r)
  /\ UNCHANGED <<asks, net, records, collector, load>>

-----------------------------------------------------------------------------
(* load_page.                                                               *)

Cancels(rs) == reader' = [r \in Sent |-> [reader[r] EXCEPT !.cut = @ \/ r \in rs \cap Reading]]

\* _Collector.cancel, on the way to another attempt or to the end with a result.
Drops(result) ==
  /\ collector' = [collector EXCEPT !.stopped = TRUE]
  /\ Cancels(Sent)
  /\ load' = [load EXCEPT !.pc = "dropping", !.result = result]

\* _goto: it fails, in a way that a first attempt may retry if there is time; or the
\* caller aborts it, or there is no document response.
GotoFails ==
  /\ load.pc = "goto"
  /\ Drops("error") \/ (load.attempt = 1 /\ Drops("retry"))
  /\ UNCHANGED <<asks, net, records, responses>>
Commits ==
  /\ load.pc = "goto" /\ \E r \in load.main : net[r] \in {"answered", "over"}
  /\ load' = [load EXCEPT !.pc = "judging"]
  /\ UNCHANGED <<asks, net, records, collector, reader, responses>>

\* _main_document and run_find's on_main_document: the meter's own reply, a challenge page, or
\* a page to search.  Its headers or its body may be past reading, or a look-alike's body be
\* unlike the meter's: nothing is looked up then.
Judges ==
  /\ load.pc = "judging"
  /\ \E blind \in BOOLEAN :
       IF ~blind /\ \E r \in load.main : OwnReply(r)
       THEN Drops("error")
       ELSE \/ Drops("blocked")
            \/ load' = [load EXCEPT !.pc = "loading", !.blind = blind] /\ UNCHANGED <<collector, reader>>
  /\ UNCHANGED <<asks, net, records, responses>>

\* settle, which ends when it is quiet, stalled or late; drain stops the collector first.
Settles ==
  /\ load.pc = "loading"
  /\ load' = [load EXCEPT !.pc = "draining", !.waits = Reading]
  /\ collector' = [collector EXCEPT !.stopped = TRUE]
  /\ UNCHANGED <<asks, net, records, reader, responses>>

\* The deadline passes while bodies are being read: their tasks are cancelled.
Overruns ==
  /\ load.pc = "draining" /\ load.waits \cap Reading # {}
  /\ load' = [load EXCEPT !.pc = "cutting"]
  /\ Cancels(load.waits)
  /\ UNCHANGED <<asks, net, records, collector, responses>>
DrainEnds ==
  /\ load.pc \in {"draining", "cutting"} /\ load.waits \cap Reading = {}
  /\ collector' = [collector EXCEPT !.other = @ + Cardinality(collector.pending), !.pending = {}]
  /\ load' = [load EXCEPT !.pc = "end", !.result = "searched"]
  /\ UNCHANGED <<asks, net, records, reader, responses>>

\* All cancelled tasks are done: the context is closed, and a retry has a new one.
Dropped ==
  /\ load.pc = "dropping" /\ Reading = {}
  /\ IF load.result = "retry"
     THEN /\ load' = NewLoad(2)
          /\ net' = [r \in Sent |-> IF net[r] = "new" THEN "new" ELSE "lost"]
          /\ collector' = NewCollector
          /\ reader' = [r \in Sent |-> NoReader]
          /\ responses' = Nothing
     ELSE /\ load' = [load EXCEPT !.pc = "end"]
          /\ UNCHANGED <<net, collector, reader, responses>>
  /\ UNCHANGED <<asks, records>>

NextLoad ==
  \/ \E r \in Sent : Request(r) \/ Respond(r) \/ OnFinished(r) \/ OnFailed(r)
  \/ OpensWire \/ ReaderStep
  \/ GotoFails \/ Commits \/ Judges \/ Settles \/ Overruns \/ DrainEnds \/ Dropped

LoadSpec == InitLoad /\ [][NextLoad]_loadVars

-----------------------------------------------------------------------------
(* Properties.                                                              *)

\* The coverage of a search is of every request that the last attempt took, once:
\* with a response, or among the skips without one.  It is so for requests that
\* end while the collector drains, for those whose reading the deadline cut off,
\* and after a retry; WebSockets are extra.
CountedOnce ==
  load.pc = "end" /\ load.result = "searched" =>
    LET counted == {r \in Sent : responses[r] # <<>>} IN
    /\ \A r \in counted : Len(responses[r]) = 1 /\ r \in collector.took
    /\ Cardinality(counted) + collector.other + collector.failed = Cardinality(collector.took)

IsReset(r) == asks[r].code = "upstream-closed" /\ asks[r].record = "upstream-reset"
Searches(r) == \E i \in DOMAIN responses[r] : responses[r][i] = "searched"

\* A reply that the meter gave itself is not searched as the site's, nor is a page whose
\* main document it is, whenever its headers could be read (of a document its body too); only
\* its 502 after an upstream reset is not recognised even then.  A site that imitates one
\* is skipped only if the meter did answer something itself, and never over https.
OwnRepliesAside ==
  /\ \A r \in Sent : asks[r].by = "meter" /\ ~IsReset(r) =>
       /\ Searches(r) => reader[r].bare
       /\ load.result = "searched" /\ r \in load.main => load.blind
  /\ \A r \in Sent : \A i \in DOMAIN responses[r] : responses[r][i] = "meter" =>
       asks[r].scheme = "http" /\ (asks[r].by = "meter" \/ records.counted # {} \/ records.ended # {})

\* What a search says of its page: how much it covers, and whose replies it read.
SearchIsOfThePage == CountedOnce /\ OwnRepliesAside

\* The module's words: such a sub-response is never searched; here of those whose headers
\* were read.
OwnRepliesAreKnown == \A r \in Sent : asks[r].by = "meter" /\ ~reader[r].bare => ~Searches(r)
=============================================================================
