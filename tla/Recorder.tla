------------------------------ MODULE Recorder ------------------------------
(***************************************************************************)
(* helpers/playwright.py: what is recorded of one browser context.         *)
(*                                                                         *)
(* The browser (external) sends requests and fires Playwright's events; the*)
(* helper's handlers run between them.  A finished request is collected by *)
(* a task (async API) or a suspended handler (sync API), which asks the    *)
(* driver for sizes, headers and sometimes the server address; everything  *)
(* else may happen at each of these waits.  The context may close, and the *)
(* event loop may end, at any time.                                        *)
(*                                                                         *)
(* An event is reduced to what it says of the bytes: "sized", "unknown",   *)
(* "cache" (from_cache, sizes 0) or "zero" (nothing crossed the network).  *)
(* The fields that need no round trip (method, frame, time, names of       *)
(* cookies) are left out.  Playwright is taken to be 1.53 or later.        *)
(***************************************************************************)
EXTENDS FiniteSets, Naturals, Sequences

CONSTANTS
  Requests,  \* the requests of the context
  Sockets,   \* its WebSockets
  Contexts,  \* what may be instrumented: see IsContext
  MaxFrames, \* bound: frames of a WebSocket
  MaxRoutes  \* bound: how often routes are switched on or off

Browsers == {"chromium", "firefox", "webkit", "other"}

\* How a request is answered: over the network, from the HTTP cache on disk or
\* in memory, by route.fulfill, by a service worker, by the network although a
\* worker was asked, or not at all: route.abort, or stopped before it was sent.
Vias == {"network", "disk", "memory", "fulfilled", "worker", "fallback", "aborted", "blocked"}

\* A context before it is used: its browser, whether its API is async, whether
\* Route could be wrapped, whether routes are on from the start, its sockets, and of each
\* request its way, the address that a cache entry keeps, whether it is a navigation,
\* a redirect hop or the script of a service worker, and whether it has a network URL.
IsContext(x) ==
  /\ x.browser \in Browsers
  /\ {x.async, x.tagged, x.routed} \subseteq BOOLEAN /\ x.sockets \subseteq Sockets
  /\ x.reqs \in [Requests -> [via : Vias, addr : {"meter", "elsewhere"},
                              nav : BOOLEAN, hop : BOOLEAN, script : BOOLEAN, net : BOOLEAN]]
  /\ \A r \in Requests : x.reqs[r].script => x.reqs[r].via \notin {"worker", "fallback"}
  /\ x.browser \in {"firefox", "webkit"} => \A r \in Requests : x.reqs[r].via # "memory"

ASSUME RecorderAssumption ==
  /\ \A x \in Contexts : IsContext(x)
  /\ MaxFrames \in Nat /\ MaxRoutes \in Nat

VARIABLES
  context,   \* the context, one of Contexts
  page,      \* page[r]: the request in the browser
  routes,    \* routes or credentials are on now, and how often they were switched
  job,       \* job[r]: the collecting of r; probe[r] the early look at its headers
  probe,
  state,     \* the _ContextState
  tally,     \* tally[w]: the _WebSocketTally
  closer,    \* the closing of the context: "open", "draining", "closing", "closed"
  mine,      \* the tasks that the close waits for
  over,      \* the event loop has ended
  written,   \* written[r]: the events written of r, in order
  spoke      \* spoke[w]: the frame counts written of w

recorderVars == <<context, page, routes, job, probe, state, tally, closer, mine, over, written, spoke>>

-----------------------------------------------------------------------------
(* Reading the context and the browser.                                     *)

Req(r) == context.reqs[r]

\* A request's headers as sent were hidden when interception was on as it left, and are
\* never shown of a service worker's script.
ShowsWire(r) == Req(r).via \in {"network", "fallback"} /\ ~page[r].masked /\ ~Req(r).script

Hit(r) == Req(r).via \in {"disk", "memory"}

\* server_addr(): none for what did not come over a connection; a cache entry of
\* Chromium keeps the address it was fetched from.
Address(r) ==
  CASE Req(r).via \in {"network", "fallback"}                              -> "meter"
    [] Req(r).via = "disk" /\ context.browser \in {"chromium", "other"}   -> Req(r).addr
    [] OTHER                                                              -> "none"

RouteTag(r) == IF context.tagged /\ Req(r).via \in {"fulfilled", "aborted"} THEN Req(r).via ELSE "none"

\* _intercepting reads Playwright's own lists, at the time it is asked.
Intercepting == routes.on

Task(r)   == <<"collect", r>>
Prober(r) == <<"probe", r>>
Pending   == IF context.async
             THEN {Task(r) : r \in {q \in Requests : job[q].pc \notin {"none", "end"}}}
                    \cup {Prober(r) : r \in {q \in Requests : probe[q] = "headers"}}
             ELSE {}

NoJob == [pc |-> "none", failed |-> FALSE, status |-> FALSE, sizes |-> FALSE,
          raw |-> FALSE, candidate |-> FALSE, lost |-> FALSE]
NoState == [inflight |-> {}, held |-> <<>>, saw |-> FALSE, closed |-> FALSE, flushed |-> {}, sockets |-> {}]

\* instrument, for a context that has no pages yet.
InitRecorder ==
  /\ context \in Contexts
  /\ page = [r \in Requests |-> [at |-> "new", answered |-> FALSE, masked |-> FALSE, late |-> FALSE]]
  /\ routes = [on |-> context.routed, switched |-> 0]
  /\ job = [r \in Requests |-> NoJob]
  /\ probe = [r \in Requests |-> "none"]
  /\ state = NoState
  /\ tally = [w \in Sockets |-> [at |-> "new", frames |-> 0, done |-> FALSE]]
  /\ closer = "open"
  /\ mine = {}
  /\ over = FALSE
  /\ written = [r \in Requests |-> <<>>]
  /\ spoke = [w \in Sockets |-> <<>>]

-----------------------------------------------------------------------------
(* The decision about one finished or failed request.                       *)

\* _no_network.
NoNetwork(r, j) ==
  CASE RouteTag(r) = "fulfilled" /\ ~j.failed /\ j.status -> "fulfilled"
    [] RouteTag(r) = "aborted" /\ j.failed                -> "aborted"
    [] j.failed /\ ~j.status /\ Req(r).via = "blocked"    -> "blocked"
    [] OTHER                                              -> "none"

FromWorker(r, j) == j.status /\ Req(r).via \in {"worker", "fallback"}

\* _cacheable: a response that arrived and is not a redirect hop.
Cacheable(r, j) == j.status /\ ~j.failed /\ ~Req(r).hop

\* _disk_cache_candidate: only the provisional request headers, and no _worker_script.
Candidate(r, j) ==
  /\ ~FromWorker(r, j) /\ j.sizes /\ Cacheable(r, j)
  /\ Req(r).via # "memory"
  /\ j.raw /\ ~ShowsWire(r)
  /\ ~Req(r).script /\ ~Intercepting

\* _needs_server_addr.
NeedsServerAddr(s, r, j) ==
  IF Candidate(r, j) THEN ~s.saw
  ELSE ~context.tagged /\ j.status /\ ~j.failed /\ ~FromWorker(r, j) /\ Intercepting

Undecided == [unsent |-> "none", need |-> "none", candidate |-> FALSE,
              elsewhere |-> FALSE, hit |-> FALSE, swnet |-> FALSE]

\* _decide: what the server address is needed for, and what is known without it.
Decide(s, r, j) ==
  LET none == [Undecided EXCEPT !.unsent = NoNetwork(r, j)]
  IN  IF none.unsent # "none" \/ ~j.status THEN none
      ELSE IF FromWorker(r, j)
      THEN [none EXCEPT !.swnet = ~j.failed /\ j.raw /\ ShowsWire(r),
                        !.need = IF ~j.failed /\ ~(j.raw /\ ShowsWire(r)) /\ Intercepting THEN "sw" ELSE "none"]
      ELSE IF context.browser \in {"firefox", "webkit"}
      THEN [none EXCEPT !.need = IF Cacheable(r, j) THEN "non_cdp" ELSE "none"]
      ELSE [none EXCEPT !.candidate = Candidate(r, j),
                        !.need = IF NeedsServerAddr(s, r, j) THEN "cdp" ELSE "none"]

\* _apply_addr, with the address the driver gave, or "missing" when it failed.
ApplyAddr(d, a) ==
  CASE d.need = "sw"  -> [d EXCEPT !.swnet = a \notin {"none", "missing"}]
    [] d.need = "non_cdp" /\ a = "none" ->
         IF ~context.tagged /\ Intercepting THEN [d EXCEPT !.unsent = "fulfilled"] ELSE [d EXCEPT !.hit = TRUE]
    [] d.need = "cdp" -> [d EXCEPT !.unsent = IF a = "none" /\ ~d.candidate THEN "fulfilled" ELSE @,
                                   !.elsewhere = d.candidate /\ a = "elsewhere"]
    [] OTHER -> d

\* _build_request_event: what the event says of the bytes.
Says(r, j, d, diskCache) ==
  IF d.unsent # "none" \/ (FromWorker(r, j) /\ ~d.swnet) THEN "zero"
  ELSE IF ~j.sizes THEN "unknown"
  ELSE IF diskCache \/ (~d.swnet /\ Cacheable(r, j) /\ Req(r).via = "memory") THEN "cache"
  ELSE IF j.failed \/ d.swnet \/ Req(r).via = "memory" THEN "unknown"
  ELSE "sized"

-----------------------------------------------------------------------------
(* Writing.                                                                 *)

Writes(to, r, what) == [to EXCEPT ![r] = Append(@, what)]

HeldRequests(s) == {s.held[i] : i \in DOMAIN s.held}

\* _release_held: every held candidate is written, as a cache hit or as sized.
Released(to, s, asCache) ==
  [r \in Requests |-> to[r] \o [i \in 1 .. Cardinality({k \in DOMAIN s.held : s.held[k] = r}) |->
                                  IF asCache THEN "cache" ELSE "sized"]]

\* _saw_wire.
SawWire(s) == IF s.saw THEN s ELSE [s EXCEPT !.saw = TRUE, !.held = <<>>]
WrittenBySawWire(to, s) == IF s.saw THEN to ELSE Released(to, s, TRUE)

\* _record, in state s and with written as w: held, or written.
Record(s, w, r, j, d) ==
  LET late == d.candidate /\ ~s.saw /\ ~d.elsewhere
  IN  IF d.unsent = "none" /\ ~d.hit /\ late /\ ~s.closed
      THEN /\ state' = [s EXCEPT !.held = Append(@, r)]
           /\ written' = w
      ELSE /\ state' = s
           /\ written' = Writes(w, r, Says(r, j, d,
                IF d.hit THEN TRUE ELSE d.candidate /\ (late => context.browser = "chromium")))

-----------------------------------------------------------------------------
(* The browser's events and their handlers.                                 *)

\* "request": _on_request.  Only routes answer or abort, and they turn the cache off.
OnRequest(r) ==
  /\ page[r].at = "new" /\ ~over
  /\ Req(r).via \in {"fulfilled", "aborted"} => routes.on
  /\ Hit(r) => ~routes.on
  /\ page' = [page EXCEPT ![r] = [@ EXCEPT !.at = "sent", !.masked = routes.on, !.late = state.closed]]
  /\ state' = [state EXCEPT !.inflight = IF state.closed THEN @ ELSE @ \cup {r}]
  /\ UNCHANGED <<context, routes, job, probe, tally, closer, mine, over, written, spoke>>

\* "response": the headers arrived; a navigation's are looked at early (_on_response).
OnResponse(r) ==
  /\ page[r].at = "sent" /\ ~page[r].answered /\ ~over
  /\ Req(r).via \notin {"aborted", "blocked"}
  /\ page' = [page EXCEPT ![r].answered = TRUE]
  /\ probe' = [probe EXCEPT ![r] = IF Req(r).nav /\ ~state.saw THEN "headers" ELSE @]
  /\ UNCHANGED <<context, routes, job, state, tally, closer, mine, over, written, spoke>>

\* The early look gets the headers, or fails (_probe_async, _note_wire_headers).
Probed(r, ok) ==
  /\ probe[r] = "headers" /\ ~over
  /\ probe' = [probe EXCEPT ![r] = "end"]
  /\ IF ok /\ ShowsWire(r)
     THEN state' = SawWire(state) /\ written' = WrittenBySawWire(written, state)
     ELSE UNCHANGED <<state, written>>
  /\ UNCHANGED <<context, page, routes, job, tally, closer, mine, over, spoke>>

\* "requestfinished" or "requestfailed": _on_done.
StartsCollecting(r, failed) ==
  [job EXCEPT ![r] = [NoJob EXCEPT !.pc = "sizes", !.failed = failed, !.status = page[r].answered]]
DoneAgain(r, failed) ==
  /\ state' = [state EXCEPT !.inflight = @ \ {r}]
  /\ job' = IF ~Req(r).net THEN job ELSE StartsCollecting(r, failed)
Done(r, failed) ==
  /\ state' = [state EXCEPT !.inflight = @ \ {r}]
  /\ job' = IF r \in state.flushed \/ ~Req(r).net THEN job ELSE StartsCollecting(r, failed)
OnDone(r, failed) ==
  /\ page[r].at = "sent" /\ ~over
  /\ failed \/ page[r].answered
  /\ Req(r).via \in {"aborted", "blocked"} => failed
  /\ page' = [page EXCEPT ![r].at = "done"]
  /\ Done(r, failed)
  /\ UNCHANGED <<context, routes, probe, tally, closer, mine, over, written, spoke>>

\* _collect_sync and _collect_async: request.sizes(), asked only with a response.
GotSizes(r, ok) ==
  /\ job[r].pc = "sizes" /\ ~over
  /\ ok => job[r].status
  /\ job' = [job EXCEPT ![r] = [@ EXCEPT !.pc = "headers", !.sizes = ok]]
  /\ UNCHANGED <<context, page, routes, probe, state, tally, closer, mine, over, written, spoke>>

\* request.all_headers(), then the decision; recorded now unless an address is needed.
GotHeaders(r, ok) ==
  /\ job[r].pc = "headers" /\ ~over
  /\ LET j == [job[r] EXCEPT !.raw = ok]
         shows == ok /\ ShowsWire(r)
         s == IF shows THEN SawWire(state) ELSE state
         w == IF shows THEN WrittenBySawWire(written, state) ELSE written
         d == Decide(s, r, j)
     IN  IF d.need = "none"
         THEN job' = [job EXCEPT ![r] = [j EXCEPT !.pc = "end"]] /\ Record(s, w, r, j, d)
         ELSE /\ job' = [job EXCEPT ![r] = [j EXCEPT !.pc = d.need, !.candidate = d.candidate]]
              /\ state' = s /\ written' = w
  /\ UNCHANGED <<context, page, routes, probe, tally, closer, mine, over, spoke>>

\* response.server_addr(), when the first half of the decision is already made.
GotAddr(r, ok) ==
  /\ job[r].pc \in {"sw", "non_cdp", "cdp"} /\ ~over
  /\ job' = [job EXCEPT ![r] = [@ EXCEPT !.pc = "end", !.lost = ~ok]]
  /\ LET d == [Undecided EXCEPT !.need = job[r].pc, !.candidate = job[r].candidate]
     IN  Record(state, written, r, job[r], ApplyAddr(d, IF ok THEN Address(r) ELSE "missing"))
  /\ UNCHANGED <<context, page, routes, probe, tally, closer, mine, over, spoke>>

\* The script switches routes or credentials on or off.
Reroute ==
  /\ routes.switched < MaxRoutes /\ ~over /\ ~state.closed
  /\ routes' = [on |-> ~routes.on, switched |-> routes.switched + 1]
  /\ UNCHANGED <<context, page, job, probe, state, tally, closer, mine, over, written, spoke>>

-----------------------------------------------------------------------------
(* WebSockets: _watch_websocket and _WebSocketTally.                        *)

OpenSocket(w) ==
  /\ w \in context.sockets /\ tally[w].at = "new" /\ ~over
  /\ tally' = [tally EXCEPT ![w].at = "open"]
  /\ state' = [state EXCEPT !.sockets = IF state.closed THEN @ ELSE @ \cup {w}]
  /\ UNCHANGED <<context, page, routes, job, probe, closer, mine, over, written, spoke>>

Frame(w) ==
  /\ tally[w].at = "open" /\ tally[w].frames < MaxFrames /\ ~over
  /\ tally' = [tally EXCEPT ![w].frames = @ + 1]
  /\ UNCHANGED <<context, page, routes, job, probe, state, closer, mine, over, written, spoke>>

\* _WebSocketTally.finish for each of ws, in the tallies t.
Finished(t, ws) == [w \in Sockets |-> IF w \in ws THEN [t[w] EXCEPT !.done = TRUE] ELSE t[w]]
Spoken(t, ws)   == [w \in Sockets |-> IF w \in ws /\ ~t[w].done THEN Append(spoke[w], t[w].frames) ELSE spoke[w]]

CloseSocket(w) ==
  /\ tally[w].at = "open" /\ ~over
  /\ tally' = Finished([tally EXCEPT ![w].at = "closed"], {w})
  /\ spoke' = Spoken(tally, {w})
  /\ state' = [state EXCEPT !.sockets = @ \ {w}]
  /\ UNCHANGED <<context, page, routes, job, probe, closer, mine, over, written>>

-----------------------------------------------------------------------------
(* The end of the context and of the script.                                *)

\* _flush_unfinished, which is run by the "close" event and at exit.
Flush ==
  LET held == Released(written, state, context.browser = "chromium")
      left == {r \in state.inflight : Req(r).net}
  IN  /\ written' = [r \in Requests |-> IF r \in left THEN Append(held[r], "unknown") ELSE held[r]]
      /\ state' = [state EXCEPT !.closed = TRUE, !.held = <<>>, !.inflight = {},
                                !.flushed = @ \cup state.inflight, !.sockets = {}]
      /\ tally' = Finished(tally, state.sockets)
      /\ spoke' = Spoken(tally, state.sockets)

\* context.close() of the async API waits for the tasks there are now.
CloseContext ==
  /\ closer = "open" /\ ~over
  /\ closer' = IF Pending = {} THEN "closing" ELSE "draining"
  /\ mine' = Pending
  /\ UNCHANGED <<context, page, routes, job, probe, state, tally, over, written, spoke>>

\* _wait: they are done, or DRAIN_TIMEOUT_S has passed and the promise is void.
Drained ==
  /\ closer = "draining" /\ ~over
  /\ closer' = "closing"
  /\ mine' = IF mine \cap Pending = {} THEN mine ELSE {}
  /\ UNCHANGED <<context, page, routes, job, probe, state, tally, over, written, spoke>>

\* The "close" event: of close(), or of a browser that went away.
OnClose ==
  /\ ~state.closed /\ ~over
  /\ closer' = "closed"
  /\ mine' = IF closer = "closing" THEN mine ELSE {}
  /\ Flush
  /\ UNCHANGED <<context, page, routes, job, probe, over>>

\* The loop ends, with it every task and suspended handler; at exit, contexts
\* that are still open are flushed (_flush_open_contexts).
Exit ==
  /\ ~over
  /\ over' = TRUE
  /\ IF state.closed THEN UNCHANGED <<state, tally, written, spoke>> ELSE Flush
  /\ UNCHANGED <<context, page, routes, job, probe, closer, mine>>

NextRecorder ==
  \/ \E r \in Requests : OnRequest(r) \/ OnResponse(r)
  \/ \E r \in Requests, ok \in BOOLEAN :
       OnDone(r, ok) \/ Probed(r, ok) \/ GotSizes(r, ok) \/ GotHeaders(r, ok) \/ GotAddr(r, ok)
  \/ \E w \in Sockets : OpenSocket(w) \/ Frame(w) \/ CloseSocket(w)
  \/ Reroute \/ CloseContext \/ Drained \/ OnClose \/ Exit

RecorderSpec == InitRecorder /\ [][NextRecorder]_recorderVars

-----------------------------------------------------------------------------
(* Properties.                                                              *)

Collecting(r) == job[r].pc \notin {"none", "end"}

\* A request is written once, however it ends: by its own event, as a held
\* candidate, or at the close.  When the script is over or the context closed
\* and nothing is being collected, every request that the context saw start
\* has its event, unless the end of the loop cut its collecting short; one whose
\* collecting a close() that did not time out found under way has its event
\* whatever comes after; and a WebSocket has one, with all frames before it.
OneEventEach ==
  /\ \A r \in Requests : Len(written[r]) <= 1
  /\ state.closed => \A r \in Requests :
       page[r].at # "new" /\ ~page[r].late /\ Req(r).net /\ ~Collecting(r) => written[r] # <<>>
  /\ closer = "closed" => \A r \in Requests : Task(r) \in mine => written[r] # <<>>
  /\ \A w \in Sockets :
       /\ Len(spoke[w]) <= 1
       /\ tally[w].at = "closed" => Len(spoke[w]) = 1
       /\ spoke[w] # <<>> /\ w \notin state.sockets /\ ~state.closed => spoke[w] = <<tally[w].frames>>

\* What an event says of the bytes is true.  From the cache came only what did,
\* unless routes hid the request's headers and were off again when it was
\* judged; nothing that crossed the network counts as zero; and a cache hit
\* counts as sized only if the driver failed, if routes were switched on
\* meanwhile, in an unknown browser that closed without evidence, or, of the disk's,
\* as a redirect hop or a service worker's script.
\* A hit of the disk cache passes for a fulfilled request only in Firefox and
\* WebKit, where Route could not be wrapped and routes were switched meanwhile.
EventsAreTrue ==
  \A r \in Requests : \A i \in DOMAIN written[r] :
    CASE written[r][i] = "cache" -> Hit(r) \/ (page[r].masked /\ routes.switched > 0)
      [] written[r][i] = "zero"  ->
           \/ Req(r).via \notin {"network", "fallback", "disk"}
           \/ Req(r).via = "fallback" /\ (job[r].failed \/ ~job[r].raw \/ page[r].masked)
           \/ /\ Req(r).via = "disk" /\ ~context.tagged /\ routes.switched > 0
              /\ context.browser \in {"firefox", "webkit"}
      [] written[r][i] = "sized" ->
           \/ Req(r).via = "network"
           \/ Req(r).via = "disk" /\ (Req(r).hop \/ Req(r).script)
           \/ Req(r).via = "disk" /\ (~job[r].raw \/ job[r].lost \/ routes.switched > 0)
           \/ Req(r).via = "disk" /\ context.browser = "other" /\ state.closed
           \/ Req(r).via = "fulfilled" /\ ~context.tagged
      [] OTHER -> TRUE

\* A page's requests are in the events file, each once and as it was.
RequestsAreRecorded == OneEventEach /\ EventsAreTrue
=============================================================================
