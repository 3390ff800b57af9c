# A formal model of scrapescope

scrapescope measures what a scraper costs in proxy traffic. It puts a local
forward proxy (the *forwarder*) between a scraper and its proxy provider, counts
every byte at the upstream socket, stops the job when a budget is used up, and
afterwards attributes the bytes to requests. This directory holds TLA+ modules of
the parts where a mistake would be hard to find by a test, the TLC
configurations that check them on small instances, and proofs for every value of
the constants.

## 1. Inventory

| component | state it keeps | operations | hard behaviour |
|---|---|---|---|
| Meter (`forwarder/meter.py`) | tunnel records, open tunnels, the budget's counter, trip, warning and cap state, events, a snapshot cache with dirty marks, timeline slots | open, deny, hand over, annotate, add, discard, finish, close all, snapshot | called from the loop and from other threads; aborts and callbacks run after the lock is released; counts are taken back after a trip; slots are merged while bytes go on being counted, and the clock may be set back |
| Client connections (`forwarder/server.py`) | per client: the socket, the current tunnel, a kept upstream session, two pumps | accept, decide, rewrite, CONNECT, plain HTTP with keep-alive, upgrade, reply, watchdog, stop | one task per client on one loop; every await lets a trip, a cap, a reset, the watchdog or stop in between; what was told the client decides how its connection must end |
| Upstream connections (`forwarder/upstream.py`) | a transport, its write buffer, the record it is charged to | resolve, order addresses, connect in parallel, HTTP CONNECT and SOCKS5 negotiation, write, rebind, abort, close | buffered bytes that never leave; a socket that connects after its tunnel was closed; a provider that stops at any point |
| Forwarder thread (`forwarder/server.py`) | a thread with the loop, the final snapshot | start, stop, snapshot | stop from several threads, a crash during shutdown, timeouts of every wait |
| Limits (`forwarder/limits.py`) | none | raise the descriptor limit | none |
| Command runner (`runner.py`) | the child process group, the signals seen, the kill deadline, the files made | run, serve, find: prepare, start, wait, stop the group, report, exit code | a trip, a signal and the child's exit race each other; every step may fail, with files of the earlier ones there |
| Playwright helper (`helpers/playwright.py`) | requests in flight, held cache candidates, open WebSockets, collect tasks; proxies it has rerouted | on request, response, done, close; launch, new context | each request is written once, whichever event comes first; a launch must go through the meter |
| requests/httpx hooks (`helpers/hooks.py`) | a record's once-flag, a mark on request objects | hooks, wrapped send, readers, close, finaliser | closed by two threads and a finaliser; request objects that are sent again |
| Events writer (`helpers/events.py`) | a cached descriptor under a lock | emit | forks, threads, a new file name, a finaliser with the lock held |
| Attribution (`attribution/*.py`) | the events read, the counts of dropped and capped lines | read, match, allocate, classify, split by time, bypass check | a file that others write; events matched to tunnels by host and time only; sums that must be exact |
| Find (`find/*.py`) | a page collector, candidates, matches, a replay | load, collect, drain, search, rank, verify | callbacks against a deadline; each body counted once; the meter's own replies look like a site's; numbers have many spellings |
| Report, cost model, snippets, catalogue | none | formatting, decimal arithmetic, templates | none a model checker reaches |

**How they interact.** The server's tasks and the transports' callbacks call the
meter; the meter calls back: its tail aborts the transports of the tunnels it
closed and hands events to the budget callbacks. The runner's main thread starts
and stops the forwarder's thread, reads the meter's snapshots and the
`budget_tripped` event, and stops the child. The child's environment leads it to the
meter; the helpers run in the child and write an events file; attribution reads
it together with the final snapshot; report prints the outcome. `find` drives a
browser of its own through the meter and looks at the meter's records to tell the
meter's replies from a site's.

**What makes each part correct.**

- *Meter*: the report's totals equal the budget's counter at all times; the trip
  comes at the byte that reaches the budget, once; a connection stays below the
  cap however many records it spans; the first closing status stays; a snapshot
  is never stale; a tunnel the meter closed moves no more bytes; the timeline
  loses nothing, however often it is coarsened.
- *Server and upstream*: every open record has a task that will close it; no
  upstream socket outlives its task; of parallel attempts one socket stays; bytes
  are charged to the host they are for; a trip leaves nothing open; a client that
  left is let go of; credentials of the two proxies stay apart; an answer that
  was cut does not pass as whole; a failure is told by its name.
- *Forwarder thread*: calls return, and the final snapshot has everything.
- *Runner*: after a trip the child's group ends, within the grace period; the
  exit code tells the most serious thing that happened; nothing private stays.
- *Helpers*: one event per request, true to what crossed the network; all traffic
  goes through the meter or is warned of. *Attribution*: parts add up to totals, and
  what it says of shares, pages and bypass is true of the job. *Find*: every
  response counted once, found means written there, and only what the site said
  decides.

The hazards behind these, with their lines and the properties about them, are in
`PROJECT.json`. Two that are known are about the length of waits and have no
property, as no module has a clock for them: the watchdog's idle timeout against the reply
timeout of the same length (server.py:1720), and a request that is refused after it
waited in its client for longer than the slack (attribution/core.py:303), which
`Attribution` assumes away.

## 2. Modules

| module | models | role |
|---|---|---|
| `MeterState` | `Meter` in `forwarder/meter.py`: the state as one record, each method as an operator on it | data module used by the next two |
| `Meter` | the meter and its callers: methods in any legal order, the unlocked tail cut into its steps | component |
| `Ledger` | what the meter promises: ids in order, one final status per record, one trip that closes everything open | abstract specification, implemented by `Meter` |
| `Timeline` | the meter's timeline: adding, coarsening, discarding | component |
| `Relay` | `forwarder/server.py`, `forwarder/upstream.py`: client tasks, transports, watchdog, stop, sharing the meter | composition over `MeterState` |
| `Requests` | one request head: reading, `_decide`, the rewritten head | component |
| `Exchange` | the exchanges of a kept plain-HTTP connection, both pumps | component |
| `Dial` | how a tunnel gets its connection: resolution, SOCKS5, HTTP CONNECT | component |
| `Picking` | loops that copy some entries of a list in order | used by `Dial`, `Requests` and `Attribution` |
| `Race` | parallel connection attempts of `open_direct` | component, a step of `Dial` |
| `Lifecycle` | `ForwarderThread` and what its start and stop do on the loop | component |
| `Runner` | `run_command` from the start of the job to the exit code: `_ChildWaiter`, `_SignalGuard`, signals, the job's process group | component |
| `Command` | `run`, `serve` and `find` around it: files, failures, signals, reports, the exit code, find's abort check | component |
| `Launches` | the rewriting of the job's environment (`config.py`) and of the browsers' proxies | component |
| `Recorder` | what `helpers/playwright.py` records of a context | component |
| `Hooks` | what `helpers/hooks.py` records of an HTTP client's exchanges | component |
| `EventWriter` | `helpers/events.py`: `emit` | component |
| `Allocate` | `attribution/allocate.py`: the largest-remainder split, as operators | data module of the next |
| `Attribution` | `attribution/intake.py` and `attribution/core.py`: a job that leaves tunnels and a file of events, the reading of the file, the figures | component |
| `PageLoad` | `find/browser.py`: `load_page` and its collector | component |
| `Numbers` | `find/search.py`: how a number is found in a text | component |
| `Verdict` | `find/core.py`, `heuristics.py`, `verify.py`: matches, their order, the replay, the outcome | component |
| `SumLemmas`, `MeterLemmas`, `MeterProofs`, `RelayProofs`, `ConnectionProofs`, `JobProofs`, `HelperProofs`, `ReportProofs` | | theorems (section 4) |
| `MCMeter`, `MCRelay`, `MCBudget`, `MCConnection`, `MCLive`, `MCRunner`, `MCHelpers`, `MCAttribution`, `MCReport` | | instances for TLC |

### Meter and Timeline

`meter` is the state under `Meter._lock`: `rec` (the `TunnelRecord`s by id), `open`,
`closing` (the `Tunnel.closing` flags), `base` (`Tunnel._base_bytes`, what a
handed-over connection had counted), `counted`, `tripped`, `warned`, `events`,
`copies` and `dirty` (the snapshot cache). `pending` is what `_run_pending` still has
to do after the lock is released, `wire` and `queued` are the transports and
their write buffers, `delivered` what the callbacks saw.

The loop thread makes all calls but `snapshot`; so while `pending` is not empty
only `RunAbort`, `RunCallback` and `TakeSnapshot` (from the runner's thread) happen.
`Count` covers `add_sent` and `add_received` with a chunk of one or more bytes;
`CloseTunnel`, `Abort`, `AbortConnection`, `CloseConnection` and `StopAll` the ways a tunnel
ends. One record update that concerns no property (`update`, `set_connect_sizes`,
`count_request`, ...) is `Annotate`: it dirties the record, which is what the
snapshot cache must not miss.

`Timeline` has `_timeline_add_locked`, `_coarsen_timeline_locked` and `_untimeline_sent_locked`, with a
wall clock that moves on and may be set back. Its ghost `tally` keeps what was counted
at which time; `TimelineIsTrue` says that the slots hold exactly that, and less what was
discarded unless a discard came from longer ago than it looks back.

### Relay

`conn[c]` is one `_ClientConn`: `pc` names the await its task is in. A step of the
model is what the task does from one await to the next, with everything it calls.
`Settle` is the whole tail of a count: all tunnels closed by it are aborted on
both sides. `Writes` is `UpstreamConnection.write`, `Closes` its `close`, `AbortUp` its
`abort`. `unsent` has the bytes counted on a record that still wait in a
write buffer; `opened`, `finals` and `atTrip` are history
variables that only properties read.

| code | actions |
|---|---|
| `_on_client`, `_serve`, `_decide` | `Accept`, `Request` = `Refuse`, `StartTunnel`, `Reuse` or `Continue` |
| `_handle_connect`, `_establish`, `http_connect`, `socks5_connect` | `Connects`, `ConnectFails`, `ConnectsTooLate`, `Negotiated`, `Rejected`, `NegotiationFails`, `ClientLeftSetup` |
| `_splice` | `Upload`, `Receive`, `RelayEnds`, `RelayReset` |
| `_handle_http`, `_exchange`, `_continue_session` | `Answers`, `ExchangeEnds`, `Upgrades`, `ExchangeFails`, `ClientLeft`, `OpenAfterClose` |
| `TunnelAborted` handlers | `TunnelAborted` |
| `_close_session`, `_reply_and_close`, the `finally` blocks | `CloseSession`, `Closed`, `Lingered` |
| `_watch_idle`, `Forwarder.stop` | `WatchdogCloses`, `Stop` |
| asyncio and the peers (external) | `Flush`, `PeerResets`, `ClientGoes` |

What is abstracted: heads, chunks and replies are one byte each; parsing, negotiation
and the exchange of parts are their outcomes, which `Requests`, `Dial` and `Exchange` have in
detail; all setup errors other than a provider's status share the status
`failed:setup`; credentials and ports are part of the host; `close` hands the
buffer to the kernel at once and then waits; `stop` is one step; notes on a record
are left to `Meter`; a task that fails with an internal error is not modelled; there
is no clock, so any timeout may fire at any time.

### Requests, Exchange, Dial, Race

| code | definitions |
|---|---|
| `_read_request`, `_inject_host` | `ReadsRequest` |
| `_decide`: `_credentials`, deny and direct rules, `_is_self_host` | `Decide`, `Credentials`, `Route`; the action `Decides` |
| `_strip_hop_by_hop`, `_replace_proxy_authorization`, `_set_host`, `_connect_head` | `RequestHead`, `ConnectHead`; the action `Sends` |
| `_handle_http`, `_pump_request`, `_drain_upstream`, `_next_client_event` | `Begins`, `Uploads`, `UploadBreaks`, `ClientIsGone` |
| `_pump_response`, `_take_response_heads`, `_client_write`, `_exchange` | `InformReaches`, `HeadReaches`, `HeadTaken`, `PartReaches`, `EndReaches`, `EofReaches`, `ResetReaches`, `JunkReaches`, `Finishes`, `Leaves` |
| `direct_candidates`, `is_own_or_on_link`, `interleave_families`, `open_direct` | `Resolves`, `ResolverFails`, `Dials`, `AttemptWins`, `AttemptFails`, `OutOfTime` |
| `_socks5_exchange` | `Greets`, `Method`, `Accepted`, `Reply`, `Bound`, `Cuts` |
| `http_connect` | `AsksToConnect`, `ReadsHead`, `HeadIsCut`, `ReadsPiece`, `BodyIsRead`, `BodyTimesOut` |
| `_race_connect` | `StartNext`, `WaitOn`, `Won`, `Odd`, `GiveUp`, `NoWinner`, `Unwind`, `Gathered`, `Adopt` |
| clients, servers, providers, resolver, asyncio (external) | `ClientGives`, `ClientLeaves`, `Gives`, `Babbles`, `ServerEnds`, `Comes`, `PeerEnds`, `Expires`, `AttemptEnds`, `Cancelled`, `Cancel`, ... |

In `Requests` a header is a name, a value and the options of `Connection`; hosts have a
canonical form and an address they may embed. In `Exchange` h11's state is the stage of
the request and of the answer; ghosts keep what each side really sent, so that the
properties compare what one got with what the other gave. In `Dial` a provider is a
script of parts, of which it sends so many and then ends or resets. In `Race` every
attempt is a task that may be open though it was cancelled.

### Lifecycle, Runner and Command

`Lifecycle`: callers hold `guard` (`_lock`) while they start or stop; `loop` is the thread,
`starting` and `stopping` the submitted coroutines; any wait may end by its timeout, and the
loop's thread may die at any time.

`Runner`: `group` is the job's process group: any process of it may fork, end by itself, or
hang. `status` and `returncode` keep apart the leader's own status, one after it was
asked to end, and one of a killed leader, which is what the exit code tells apart.
`told` is a history variable: who was sent a signal. `handled`, `deadline` and
`sigints` are the fields of `_ChildWaiter`; `tripped` and `noted` are the meter's flag and
the event that its callback sets a little later.

`Command`: `at` is where the main thread is; `disk` the files; `mind` what the code remembers,
with a ghost for what went wrong; `records` the tunnels that find's abort check reads.

| code | actions |
|---|---|
| `ForwarderThread.start`, `stop`, `snapshot` | `Call`, `StepOf` (lock, submit, wait, give up, tell the loop to stop, join) |
| `Forwarder.start`, `stop`, the thread's main function | `RunStart`, `RunStop`, `EndStop`, `ThreadEnds`, `LoopDies` |
| `_SignalGuard.__enter__`, `_ChildWaiter.on_signal`, the default handlers | `Guard`, `OnSignal`, `DefaultSignal` |
| `_ChildWaiter.wait`, one round of the loop | `CheckTrip`, `Poll`, `Judge`, `Pause`; the clock is `GraceEnds` |
| `_drain` and `fw.stop()`; report and exit code | `Stop`; `Report` |
| the meter and `ForwarderThread` in their thread | `Trip`, `NoteBudget`, `Crash` |
| `_prepare`, `_TokenFile`, `_start_forwarder` | `NotPrepared`, `MakesFiles`, `TokenRefused`, `StartsMeter`, `MeterFails`, `TokenUnwritten`, `Begins`, `NoCommand` |
| `run_command`, `_serve` with its periodic report, `find_command`, `_find_abort_check` | `JobEnds`, `Wakes`, `Rewrites`, `FindEnds`, `FindRaises`, `Checks` |
| `_drain`, `_write_outputs`, `gate`, `_find_exit_code` | `StopsMeter`, `Reports`, `ReportFails`, `Chooses` |
| the job's processes, signals (external) | `Forks`, `Exits`, `Signal` |

What is abstracted: process ids are not used again; a signal that scrapescope was
started with as ignored is not modelled; the loop does not crash within the callbacks
of a trip, which only set an event and append to a list; a report is its byte count and
what its gates look at.

### Launches, Recorder, Hooks, EventWriter

| code | definitions |
|---|---|
| `build_child_env`, `unmetered_proxy_variables`, `other_proxy_variables`, `resolve_upstream` | `ChildEnv`, `Unmetered`, `Others`, `Upstream`; the action `Prepares` |
| `_rewrite_proxy`, `launch`, `wrap_new_context`, `instrument`, `record_launch` | `Launches`, `LaunchesOwn`, `OpensContext`, `Wraps`, `InstrumentsContext`, `RecordsLaunch` |
| `_on_request`, `_on_response`, `_on_done`, `_probe_async`, `_collect_async`, `_collect_sync` | `OnRequest`, `OnResponse`, `OnDone`, `Probed`, `GotSizes`, `GotHeaders`, `GotAddr` |
| `_watch_websocket`, `_WebSocketTally`; routes; `_wrap_async_close`, `_flush_unfinished`, `_flush_open_contexts` | `OpenSocket`, `Frame`, `CloseSocket`; `Reroute`; `CloseContext`, `Drained`, `OnClose`, `Exit` |
| hooks and wrapped sends; `_stream_classes`, `_observe`; `_RequestsRecord`, `_HttpxRecord` | `Send`, `Answer`, `Raise`; `Read`, `EndRead`, `BreakRead`, `Close`, `Collect`; `Take`, `WriteEvent` |
| `emit`, `_descriptor`, `_drop_descriptor`, `_after_fork_in_child` | `Emit`, `Enter`, `Replace`, `Forget`, `Open`, `Cache`, `Write`, `Drop`, `Fork` |
| the job (external) | `Rename`, `OpenOwn`, `CloseOwn`, `Finaliser` |

An event is what it says of the bytes; the driver's answers may succeed or fail at every
wait. The script of a service worker is never a cache candidate (`_worker_script`), and a redirect hop out of the memory
cache has a body of unknown size. In `Hooks` a record is taken under its lock and written after it; an answer
without a body by its method or status counts 0 even if it is chunked. In `EventWriter` the
descriptor table of each process is explicit, because a number is all that `os.write` has;
opening may fail at any time (no descriptor, no file, no regular one).

### Attribution

The code is a function of the events file and the final snapshot. What makes it hard
is that the two are all it has: requests are matched to tunnels by host name and
time, sizes are the client's word, lines may be missing. So the module runs a job
first. `req` is what the job really did with each request: `how` it ended (over a
tunnel, lost with its page after its bytes had moved, around the meter, from a cache,
refused by the meter after the trip or by a rule, or challenged for its token) and where its chain of redirects really `start`ed. Only `tunnels`, `wire`,
`tripAt` and `file` are there for the code to see. Properties compare its figures with
`req`.

| code | definitions |
|---|---|
| `read_events` | actions `SkipLine`, `KeepLine`, `DropLine`, `EndOfFile`; `Scribble` goes on while it reads |
| `_overhead_allowance`, `_unbounded`, `allocate_host`, `largest_remainder` | `OverheadAllowance`, `Unbounded`, `Attributable`, `Shares`, `Unreported` |
| `_classify_idle_tunnel`, `_add_to_run_buckets`, `_fold_types` | `Classify`, `Buckets`, `Kept`, `FoldTypes` |
| `_redirect_chain_starts`, units and timeline in `attribute` | `NextHop`, `ChainStarts`, `Stamps`, `BytesEndingBy`, `PerUnit` |
| `_refused_after_trip`, the bypass check in `attribute` | `RefusedAfterTrip`, `Suspects`, `OutsideTunnels`, `Weighed`, `BypassHosts` |
| the job, its helpers and the meter (external) | `Start`, `Metered`, `Unmetered`, `Refused`, `Challenged`, `RefusedByRule`, `OpenTunnel`, `CloseTunnel`, `Trip`, `Observe`, `EndJob` |

What is abstracted: time is a small integer, sizes have one direction, a line is its
kind, its time and the request it is about; the tunnels of direct mode (synthetic
negotiation) and of `direct.json` hosts are left out, as are schemes, paths, ports and
warnings; an oversized line is a bad one. What is assumed of clients is in
`IsKind`: reported sizes miss at most a quarter of what went over the wire and the
unknown headers, and exceed it only for WebSockets and in Firefox. A refused request
after the trip is assumed to have started no earlier than the slack before it. `Challenged` stands for every refusal
of the meter that leaves no record and is not the budget's (407 for the token, 400 for what it cannot read).

### PageLoad, Numbers, Verdict

`reader[r]` says where the task of a response is, and whether its headers could not be read or came
too late (`bare`): `_observe` then goes on with none (browser.py:649-655), so no reply is known by them. `load.blind` says
the same of the main document, whose body counts as well (browser.py:757-769, `find/core.py:716`).

| code | definitions |
|---|---|
| `_Collector._on_request`, `_on_finished`, `_on_failed`, `_on_websocket`, `_process`, `_observe` | `Request`, `OnFinished`, `OnFailed`, `OpensWire`, `ReaderStep` |
| `load_page`, `_goto`, `_Collector.settle`, `drain`, `cancel` | `GotoFails`, `Commits`, `Judges`, `Settles`, `Overruns`, `DrainEnds`, `Dropped` |
| `meter_reply_check_from_snapshot`, `confirm_meter_reply` | `Shown`, `StatusCodes`, `OwnReply` |
| the browser, the meter and the site (external) | `Respond` |
| `prepare_values`: `_number_readings`, `number_pattern`, `_int_forms` | `NumberReadings`, `Forms`, `LooseForms`; the action `PreparesValue` |
| `NumberMatcher`: `_search_bounded`, `_edges_ok`, `minus_before`; `_form_leaks`, `contains_any_value` | `NumberFound`, `Leaks`; the action `Searches` |
| `_ranked_matches`, `code_eligibility`, `replay_candidate`, `select_verify_target` | `RankedMatches`, `Ineligible`, `Target`; the actions `NothingToSearch`, `Lists`, `NotSent`, `Sends` |
| `verify_replay_detail`, `BoundedDecoder`, `_verify_top` | `HeadArrives`, `Chunk`, `WholeBody`, `Verifies`, `GivenUp` |

In `Numbers` a text is a sequence of characters that a page wrote number by number, so
the properties compare what the search says with what the numbers mean. The verdicts
of the module were compared with those of the Python code on all 196,830 searched
states of its instance, without a difference.

## 3. Runs

Components that do not touch each other are checked together, as *scenes*: an MC module
EXTENDS several of them, the variable `scene` is chosen at first and only the module it
names acts, while the others stay in one initial state. No scene restricts what a
module does.

| run | instance | what it shows |
|---|---|---|
| `meter` | `MCMeter`, scenes `meter`, `timeline`, `race` | ten properties of `Meter`, that it implements `Ledger` (`LedgerSpec`), `TimelineIsTrue`, `OneSocketSurvives` |
| `relay` | `MCBudget`: two clients under a budget; scene `setup` behind an HTTP CONNECT and a SOCKS5 provider with two records, scene `trip` direct with three | `NothingLeaks`, `FailedSocksIsNegotiation`, and `LateTunnels`: at most one tunnel per client opens after a trip |
| `connections` | `MCConnection`, scenes `session` (`Relay`: one client, four hosts, a cap), `dial`, `request`, `exchange` | `SessionsAreCharged`, `DialIsTrue`, `RequestIsKept`, `ExchangeIsWhole` |
| `observers` | `MCHelpers`, scenes `browser`, `client`, `file`, `launch`, `find`, `verdict` | `RequestsAreRecorded`, `EventPerExchange`, `DescriptorIsOurs` and `LockIsLetGo`, `JobIsMetered`, `SearchIsOfThePage`, `FindIsReliable` |
| `report` | `MCReport`, scenes `command`, `report` (`Attribution`), `numbers` | `CommandEndsTruly`, five properties of `Attribution`, `NumbersAreRead` |
| `liveness` | `MCLive`, scenes `relay`, `runner`, `thread`, with fairness | `GoneClientsAreReleased`, `EveryTunnelCloses`, `RunEnds`, `EveryCallReturns`; `StoppedGroupIsGone`, `StoppedJobSaysSo`, `FinalIsWhole` |
| `late_tunnel`, `late_trip`, `early_signal`, `failed_retry`, `own_reply`, `provider_reset` | the same instances or parts of them | six statements of the repository that the code does not keep (section 5) |

Some properties are conjunctions of named parts, each with a comment of its own in its module:

- `SessionsAreCharged`: `ChargedToRequest`, `RefusedCredentialsShow`.
- `DialIsTrue`: `LeadsOut` (never to the meter itself or a forbidden address), `TakesTurns`,
  `HandshakeIsApart` (what is negotiation and what is payload), `ReasonsAreTrue`.
- `RequestIsKept`: `CredentialsStayApart`, `RulesAreKept`, `HeadIsClean`.
- `ExchangeIsWhole`: `NothingPassesAsWhole`, `AnswersBelong`, `AnsweredOnce`, `RequestsAreWhole`, `NobodyWaits`.
- `RequestsAreRecorded`: `OneEventEach`, `EventsAreTrue`.
- `JobIsMetered`: `EnvironmentIsMetered`, `BrowsersAreMetered`, `LaunchesAreCounted`.
- `SearchIsOfThePage`: `CountedOnce`, `OwnRepliesAside`.
- `FindIsReliable`: `CodeIsEarned`, `VerdictIsOfTheSite`, `NothingFoundIsLost`.
- `CommandEndsTruly`: `NothingIsLeft`, `CodeTellsTheEnd`, `AdviceIsForTheFirst`, `ReportsKeepUp`.
- `BytesAreShared`: `BytesAddUp`, `SharesFollowSizes`; `PagesAreTimed`: `PagesStartWithTheirHops`, `SplitRespectsTime`.
- `NumbersAreRead`: `FoundIsThere`, `ThereIsFound`, `PathsTellNothing`.

**Bounds.** Every bound is a constant, and its comment says what it bounds.

- *Meter, Relay.* `MaxRecords` (ids), `MaxTraffic` (bytes counted before everybody falls
  silent), chunks of one or two bytes. A trip needs an open tunnel that counts, another
  that is open at that time and one opened later: three records. A hand-over needs two. The
  budget is reached in two or three counts, with the warning apart from the trip or in the
  same count; the cap only by the sum over a handed-over connection or by one record alone.
  Traffic is enough for a negotiation, a request and an answer on each side of each of these.
- *Timeline.* Five points in eight units of time against three slots: two coarsenings, and a
  discard that looks back too short; one step back of the clock. *Race.* Three attempts: one that wins,
  one that fails and one that connects while it is cancelled.
- *Requests.* Every setup of the instance with every kind of target and credentials, and
  every head of up to three headers beside `Host`. *Dial.* Answers of up to two of ten kinds of
  addresses, and longer ones where the order matters; every reply of a provider, cut
  anywhere. *Exchange.* Two requests, two answers, bodies of one part and an end: a kept connection, an
  answer to nothing, a request sent again.
- *Lifecycle.* Two callers with two calls each. *Runner.* Two processes besides the leader:
  one that outlives it and one forked while the group is being stopped; three signals: one
  that asks, the second interrupt that kills, and one more. *Command.* Every combination of
  the options that change its course; two counts, for a report that is behind; two tunnels for find.
- *Recorder, Hooks.* Two requests or exchanges of one context or job: a cached copy with its
  original, a hop with its end, the same request object twice. *EventWriter.* Two threads, a child, two
  names, two descriptors, two lines each, and pairs of habits of the job. A descriptor that
  was closed can then be taken by the job and by the other thread.
- *Launches.* One provider in every near-identical spelling; two browsers, two contexts.
  *PageLoad.* Three requests, one slot. *Verdict.* Three responses of thirteen kinds, two values, two listed matches.
  *Numbers.* Two numbers a text, of one to four digits, in ten styles of sign, grouping and fraction.
- *Attribution.* A job is one of `Plans`, each with the dimension that its question needs:
  three pages over four points in time in one context or two (redirect chains, slots of
  two); three types of requests with a limit of two rows (folding); known, unknown and
  claimed sizes over one or two tunnels (allowances); Firefox; a denied host, this
  machine, a trip and a client without the token (bypass); four events against a cap of three, with two bad or
  blank lines between them (intake).

Where deadlock checking is off, the system really may stop: ids and bytes run out, the
forwarder has stopped, a page or a run is over. **Symmetry** is used for clients, in
`relay` only, which has no liveness property.

**Fairness** (`MCLive!SceneSpec`, each within its scene). *Relay:* weak fairness of `Proceeds(c)`,
the steps of a task that its own timeouts or its sockets' ends bring about (connect and
negotiation timeouts, the 2 s of a close and the 1 s of a linger, `TunnelAborted`, the end of
a relay), and of `WatchdogCloses(c)`: the watchdog's loop (server.py:1707-1727) comes
back every tick for every connection. Nothing is asked of peers: no byte, answer
or request ever has to come. After `MaxTraffic` bytes nobody talks, which is the
case the watchdog exists for; a peer that talks for ever keeps its tunnel. *Runner:* weak
fairness of the main thread's next step, of the end of the grace period and of the
meter's callback. Nothing is asked of the job: it may hang and ignore every signal it
can. *Lifecycle:* weak fairness of `StepOf(c)`, the next step of a caller. All of its waits but
that for the lock have a timeout, and nothing is asked of the loop's thread.

## 4. What is proved

Every theorem is for all values of the constants that the named `ASSUME`s allow, which TLC
evaluates in each run. Each safety theorem rests on an inductive invariant, which TLC found
to hold before it was proved.

`MeterProofs`, about `Meter!Spec`, for every number of records, budget, warning level, cap
and chunk size: `TypeCorrect` (`[]TypeOK`; not obvious: uncounting must not take a count below
zero), `CopiesAreCurrent`, `NegotiationIsPart`, `TripsInTime`, `CapPerConnection`,
`AbortsWhatItCloses`, `CallbacksAreInOrder`, `TripIsExact`, `SnapshotsAddUp` and
`MeterImplementsLedger`. The first six follow from `MeterInv`: the type invariant,
`Books` (which ids exist and what an unused id looks like, that open tunnels are
not closed, that negotiation is part of the totals, the cached copies), `Below`
(the counter before a trip), `Chain` (a handed-over record points to an earlier one,
is alone in doing so, and has as base what that connection counted) and
`Connections` (what is live, queued and pending agrees with the records). `Chain` and
`Connections` are needed because `UnderCap` and `ClosedTunnelsAborted` alone are not
inductive: the first needs to know that a record which was handed over counts no
more, the second that what is pending is exactly what was just closed.
`EventInv` adds what the events say of the meter (`Told`: each kind at most once, the warning
before the trip, and the number the trip tells is that of the records with status `budget`), for which
the meter's assumption has that the warning level is not above the budget (`BUDGET_WARN_FRACTION` is 0.8): otherwise a count
that trips need not warn. `Balanced`
(the total is the sum of the records) is inductive only with `Books`, since a discard that took more than was sent
would unbalance it; the snapshot's sum is the same because the copies are current.
The refinement has one step per action: each operator of `MeterState` that the action calls is a step of `Ledger` or leaves
what the ledger shows unchanged (`LedgerCreates`, `LedgerFinishes` and the like).
`MeterLemmas` has, for each operator of `MeterState`, a lemma that it keeps `Books`,
`Below` and `Chain`, and what it changes.

`MeterProofs` also has `TimelineTellsTrue` (`[]TimelineIsTrue` of `Timeline`), for any finite set of times, number of slots and
lookback. `TimelineInv` has what the property does not say: the resolution and the highest index fit the slots (`LineIs`), each
slot holds the bytes of its own time, and once something was taken back at most as many that were sent (`SlotsTell`), the slots add up
to what was counted, less what was found of what was taken back (`SlotsAddUp`), and the highest index is that of the newest byte
(`EndIsNewest`). A round of the coarsening keeps all of it (`RoundSound`: two slots that become one hold the sum of two, `SumOfPairs`, and
floor(t / 2r) is floor(t / r) // 2, `DivTwice`). The loop ends since every round halves an index that only a line with too many slots
keeps above zero (`RoundEnds`, `CoarsenedSound`). What a discard finds is taken from the slots it is in, and all of it is found if
there is enough within the lookback (`SearchTakes`), which is so unless something lies further back (`NotFar`).

`SumLemmas` has what these proofs and those about `Attribution` need of folds and sums over finite sets: how a sum follows
from its parts, its terms and their bounds, and a table's from its rows and its columns (`SumOfParts`, `SumAtMost`, `SumOfTable`), and that places in a line
are the numbers from 0, each taken once (`PlacesInLine`, `LineUp`). The library defines folds by recursion and states induction with an operator as a parameter, which the
provers cannot instantiate; `SetInduction` takes the property as a set of subsets instead, `UpTo` as a set of numbers, and
`RoundsExist` gives the function that a loop of n rounds computes.

`RelayProofs`, about `Relay!Spec`, for every finite set of clients, any kinds and hosts, every number
of records, budget and cap: `NothingIsLeaked` (`[]NothingLeaks`), `FailedSocksHasNoPayload`
(`[]FailedSocksIsNegotiation`), `OneLateTunnelEach` (`[]LateTunnels`) and `SessionsAreChargedTruly`
(`[]SessionsAreCharged`). None of the four is inductive. `RelayInv` is `Sound` and the types; `Sound` says of every
task what it owns (`Owns`: its tunnel is a record of its own client and host, open or just closed), what its
upstream connection is bound to (`Connected`), and what may be true at the await that it is in (`Stands`); of every record that
an open one has an owner, and that its answers and its status agree (`RecordOK`); that whoever waits to
open a tunnel will have an id for it (`HasRoom`); and that who waits has opened none since the trip (`Late`).
The relay's tasks interfere in one place only, the tail of a count (`Settle`), which aborts the sockets of
other tasks; a lemma says what that tail leaves of a task (`TailTasks`), and three cover all actions:
a step of one task (`StepSound`, with answers `AnswerSound`), one that opens a tunnel (`NewSound`), one that counts (`SettleSound`).
That the meter's books stay in order under all of this is `MeterLemmas` again. The relay's assumption says that there are
finitely many clients, and some kind of request and some host.

`ConnectionProofs`, about `Race` for any number of addresses: `SurvivorIsAlone` (`[]OneSocketSurvives`), which speaks of the end
only. What carries it there is who the winner is at each place of the tunnel's task (`Winning`) and which
attempts can still be running there (`Ending`): none is tried from the `finally` block on, none is being
cancelled behind it.

`ConnectionProofs`, about `Exchange` for any requests and answers and any number of them: `ExchangesAreWhole`
(`[]ExchangeIsWhole`). What a client got is whole only if what is still on the wire is the rest of it, so
`ExchangeSound` says what may come after what on the wire (`WireFollows`: `ComesAfter` holds from what was read last to
what was put last; the number of an item among its answer's parts is in the model for this), that the heads on it are of later
answers than all that were read (`WireKnows`), and that the server has put on it all that it gave (`GivingTells`: what
ends with the connection is whole when the connection ends in order). That an answer goes to its own request is a
matter of counting: none is given twice (`AnswersTell`), and each request before this one has had its own
(`ViewKnows`, `ViewTells`), so without an unasked answer the next is this one's (`HeadBelongs`). One lemma covers
what ends an exchange (`EndSound`), one what is read (`ReadWireSound`, `ReadViewsSound`), one what is put on the wire
(`PutFollows`, `PutKnows`).

`ConnectionProofs`, about `Dial` for any answers of the resolver, any providers and any credentials: `DialsAreTrue`
(`[]DialIsTrue`). The order of the addresses is proved of the operators: `PickedWalks` says that
`Picked` copies just the entries at the chosen positions and keeps their order (by counting: the `k`-th is the one that
has `k` positions at or before it), so `Distinct`, `Allowed` and `Interleaved` are maps of positions (`DistinctIs`,
`AllowedIs`, `InterleavedIs`; the arithmetic of the turns is `TurnsAreFair`, `TurnsKeepOrder` and `TurnsEndTogether`).
The rest is an invariant of the dialing, `DialInv`: which addresses are tried (`OrderKnown`), which places a route
reaches (`PlaceKnown`), how much of the handshake is taken and named there (`LineKnown`), what has been said by then
(`TalkKnown`). Proving it for any address showed two cases that no address of the instance had: a gateway's address that stands
for a public address of this machine passes every check (its socket looks like any other), and an address of a range
that is never public is refused though it leads out. `LeadsOut` and `ReasonsAreTrue` now name them, and the instance has both.

`ConnectionProofs`, about `Requests` for any heads, rules, spellings and credentials: `RequestsAreKept`
(`[]RequestIsKept`). The steps are few and the invariant, `RequestInv`, only says that the decision is the one about this
case and the head is what the code makes of the one that came; the work is in the operators. Two lists
from which the same entries are left when some names are set aside (`Rest`) have the same headers of every other name
(`SamePlaces`), and each rewriting changes only what it names: `RestThrough` says so of any loop that copies, and
`ReplacedIs`, `SetHostIs`, `StripIs` of the three there are, with how often the header they write is left. So
`ForwardedIs` follows by setting aside the union of the names. `CredentialsAre` and `DecideIs` are
the tables, case by case. One assumption was missing: no host is called by the word that stands for
"no address" (`"none" \notin DOMAIN Embedded`), or a deny rule could match it.

`JobProofs`, about `Lifecycle` for any set of callers: `FinalSnapshotIsWhole` (`[]FinalIsWhole`). The invariant
`LifecycleInv` says who holds the lock (`LockIsHeld`), so that the snapshot is taken once (`TakenOnce`); that a
loop which ended in order before that never carried a connection (`StartsOnce`, `FailedStart`) and one that died
left its error (`DeathIsNoted`); and that nothing moves any more when the snapshot is taken or is there
(`StopHalts`, `ReadsStill`, `FinalStill`).

`JobProofs`, about `Runner` for any set of processes and number of signals: `GroupGone`
(`[]StoppedGroupIsGone`) and `ExitSaysSo` (`[]StoppedJobSaysSo`), both from `RunnerInvariant` (`[]RunnerInv`).
`RunnerInv` adds to the type: `Stopping` (a handled trip whose deadline is not pending
any more has ended the group), `Settled` (the wait loop is never left with a deadline
pending), `Reported` (only a noted trip is handled, and the code is chosen last) and
`Counted`. `StoppedGroupIsGone` alone says nothing about the time before the loop ends;
`Stopping` and `Settled` carry it there, because a group that is gone cannot fork.

`HelperProofs`, about `Hooks` for any job, with any number of exchanges, redirects, reused request objects, chunks
and closes: `ExchangeHasItsEvent` (`[]EventPerExchange`). `HooksInv` says where an exchange's event can be
(`IsKept`), that whoever finishes a record has a reason, which is the end of the body unless
something cut it short (`Sealed`), and whose the marks on request objects are (`ObjectMarks`).

`HelperProofs`, about `Launches` for any start, any proxy settings, browsers and contexts: `JobIsMeteredAlways`
(`[]JobIsMetered`). What is said of the environment is inductive as it stands; for the browsers `LaunchesInv` adds
what the helper is told (`ToldOnce`), where a proxy leads that it rewrote, with what it then remembers and
has said of it (`ProxiesKept`, `SecondIsTold`: a second server is in `_rerouted_servers` before its context is there),
and that the marks on a browser tell whether it was counted (`SeenIsCounted`), of which a context's mark says the
browser's as well, except for a bare one. The proof needed two facts of `IsStart`: the upstream has a host which is not the
meter's own (`parse_upstream_url` refuses none, and the meter binds its port later), and no URL has credentials without a
host (`_lenient_proxy_endpoint`).

`JobProofs`, about `EventWriter` for any threads, names and descriptors: `LockIsFree` (`[]LockIsLetGo`) and
`DescriptorStaysOurs` (`[]DescriptorIsOurs`). In `WriterInv` the threads inside `_descriptor` are the holders
of the locks (`Locked`); so what one of them found stays true until it leaves (`Carries`, `Finds`), the
cached number names the cached file (`CacheIs`), and no other number names an events file
(`OnlyThese`). What a thread past `_descriptor` is about to write to holds only as long as nothing
was closed (`NotAstray`), which is why the property says so.

`HelperProofs`, about `Recorder` for any context, any requests and sockets, routes switched any number of times, and any
order of the browser's events and the driver's answers: `RequestsAreTold` (`[]RequestsAreRecorded`). `RecorderInv`
says where a request is between its start and its one event (`Where`: in flight, flushed, being collected, held, or
written), that the handlers and the held list agree on it (`Fits`: a request is held once, and only while no header as
it was sent was seen and the context is open), and what is decided of a request that waits for
its address (`Collected`): a candidate of the disk cache is one, or was masked by routes that are off again
(`CandidateIs`), which is all that is true of it when the answer comes, since routes may be switched during the
wait. `Routed` says what routes have to do with a request, `SocketsTell` and `Closing` the rest. TLC found that
`EventsAreTrue` was too strong before it was proved: in Firefox and WebKit, where `Route` could not be wrapped, a
hit of the disk cache has no address either, and passes for a fulfilled request when routes were
switched on during the collecting; the property now says so.

`HelperProofs`, about `PageLoad` for any page, requests and endings: `SearchIsTrue` (`[]SearchIsOfThePage`), from
`LoadIsWhole`: where a request of the attempt is (`Placed`: pending, being read, or counted), that these and the counters add up to what
was taken at every moment until the drain has dropped what is left (`Whole`), and what is known of a reply of the meter's own
(`Known`: it is in the meter's records by the time it is there, and is past no look at them unless its headers, or the
main document's, could not be read: `bare`, `blind`). The proof needed
that an own reply's status and its record go together, which `IsFetch` now says as the meter does it.

`HelperProofs`, about `Verdict` for any page load, any reply, any cap and number of listed matches: `FindTellsTrue`
(`[]FindIsReliable`). `VerdictInv` says that nothing was searched (`NotListed`), or what is listed is what the ranking gives
(`AsListed`), or one match more has code since the replay proved it (`OneProven`); that the replay is of the chosen match, and
only the site answers for an https one (`Exchange`); that a body without a flaw is within the cap (`Within`); and what a verdict
rests on (`VerdictSays`). From there:

- *The ranking.* `_rank_key` compares six numbers, the last of which no two matches share, so it is a strict order
  (`LexIsOrder`) and each match has its place (`RankedIs`, from `LineUp`). As the first number says whether a match holds every
  value, what gets code holds them all if anything kept does (`CodeIsForAll`).
- *The target.* It is the first that is eligible or worth a try, or a much smaller eligible one (`TargetIs`). So a
  match that the replay proves was the first that is wanted, and still is the target once it is eligible.
- *The assumption.* What a provider answers itself is a 407, a 502 or a 504. On plain http nothing tells any other answer of
  a provider's from the site's, and in the model it is the site's.

`ReportProofs`, about `Allocate`, for any finite set of positions, any weights and any total:

- `LargerWeightLargerShare`: a larger weight never gets a smaller part. The whole parts
  keep the order (`DivOrder`); where they are equal the larger weight has the larger
  remainder and is ahead in line (`QueueIsLine`).
- `LeftoverIsHandedOut`: exactly as many positions get an extra unit as are left over.
  The places in line are all different (`PlacesInLine`), so they are 0 to n - 1.
- `SharesAreFair`: `largest_remainder` gives shares that add up to the total, keep the order of the weights, and give
  a weight of zero nothing beside one that is not. The whole parts miss less than one unit each of the total, so what is
  left over is not more than there are positions with a remainder.

`ReportProofs`, about `Attribution` for any job of any length, any file of events and any sizes a client may report:
`EventsAreRead` (`[]EventsAreThePrefix`), `BytesAreKept` (`[]BytesAreShared`), `AlarmsAreBypass` (`[]OnlyBypassIsReported`),
`AllowancesSuffice` (`[]ReportedHostsAreExplained`) and `PagesAreTimely` (`[]PagesAreTimed`). All five speak of the figures at the end, which are operators of
the log and the records; `AttributionInv` says how these came to be. `RequestsEnd` has for each request how it ended and
that a record of its host was there for it (`Covers`: one that was not closed when it started); `LinesAreTrue` that each
request has one line at most, which tells its time, and none while it is under way; `LaunchIsFirst` that Firefox was told before
anything it did; `BytesAreCarried` that a host's records hold its connections and the requests that were sent over them, and
`TimelineIsWhole` that the timeline has the same bytes; `LogIsOfTheFile` and `ReadingIsTold` what has been read so far, with the
file still growing. From there:

- *No byte is lost.* A host's bytes are its shares and its unreported rest (`SharesFollow`), so those of the attributed hosts are
  the rows by type and the unreported row (`TypesAddUp`, a table read by rows and by columns), folding keeps the sum
  (`FoldAddsUp`), and at most as many rows are kept as there are places in line (`LargestFits`).
- *No false alarm.* An event that is looked at has a record which was open when it began (`SuspectsAre`), so it is not
  outside of its host's tunnels; those that are weighed were carried, as no websocket and no Firefox is among them
  (`WeighedIsCarried`). The replies of a deny rule count as reported bytes and are on no record: about two hundred refused plain
  requests to a host exceed the slack of 64 KiB, and the property makes that exception.
- *Allowances.* What `IsKind` assumes of each request's size adds up, with the quarters rounded once
  for the host and not once for each request (`AllowedAddsUp`), and each connection has its own overhead (`WireIsAllowed`).
- *Pages.* `AttributionInv` does not say in which order navigations were made, so `PagesInv` is added to it, and is inductive
  beside it: requests start in the order of their times and a context's next navigation when the last has ended (`InTurn`), so
  their lines are in that order too, in the file and in the log (`FileInTurn`, `LogInTurn`), and each navigation has a first hop, from
  which on all before it were redirects (`HopsLead`). Sorting the log by time is then sorting it by request (`OrderFacts`), even
  where times are equal. The walk over that order is a recursive function, which exists by
  `RoundsExist`; what it knows between two hops is found by induction on the position (`WalkFindsFirst`), where the property's
  two conditions are used: no hop that was lost, which `recent` tells, and none that came too late.
- *The timeline's parts.* A slot is the sum of its times (`SlotsTogether`), so the slots that end by a stamp hold nothing
  that was moved at the stamp or later (`EndedBytes`), the stamps are in order (`StampsInOrder`), and the three parts are the whole
  timeline, which is the records' bytes by `TimelineIsWhole` (`PartsRespectTime`).

`ReportProofs`, about `Command` for any commands and options, byte counts, tunnels and signals: `CommandsEndTruly`
(`[]CommandEndsTruly`). `CommandInv` adds to the four parts of the property who made a token file (`FilesAreOurs`),
what each point has decided of the outcome (`Undecided`), that the meter is up where it is asked
(`MeterIsUp`), that nothing is counted between the last snapshot and the reports made of it (`ShotIsLast`), and that
a tunnel which was established has not failed before (`WasReached`): without it the advice on a refusal could
be of a connection that had worked. `IsCommand` says that somebody else's token file is one at the path that was given.

Only model-checked: `NumbersAreRead` (texts and readings character by character), and all liveness, which the prover does not reach.

## 5. Where the code and its documents disagree

- `late_tunnel`. `docs/dev/contracts.md:560-562` says that a trip closes every open
  tunnel and that all new requests are refused until the forwarder stops. A
  plain-HTTP request that passes the budget check (server.py:772) and then waits
  for its client's old session to close (server.py:1160) opens its tunnel after
  the wait without another look. If the trip falls into the wait, that tunnel is
  open after the trip, and as the meter trips once nothing limits it.
  `LateTunnels` shows how far it goes: one tunnel per client.
- `late_trip`. `docs/method.md:346-349` says that on a trip `run` stops the job's whole
  process group. The event is looked at once per round (runner.py:595); when the
  leader ends after that look and a process it left behind trips the budget, the
  loop ends in the same round and the group goes on, cut off but not stopped.
- `early_signal`. `docs/exit-codes.md:63-64` says that a signal received during `run` is
  forwarded to the job's process group. The job is started (runner.py:700) before
  the handlers are installed (runner.py:711 and 513-524); a signal in between ends
  scrapescope only.
- `failed_retry`. `helpers/hooks.py:40-41` says that the instrumented clients record requests
  that raised before any response. A request object that was answered, or whose failure was
  recorded, keeps the `_RESPONDED` mark; when the job sends the same object again and that
  send raises, no event is written (hooks.py:340, 595).
- `own_reply`. `find/browser.py:46` says of the meter's own replies that such a sub-response is
  never searched. After an upstream reset the tunnel ends as `failed:upstream_reset` and the client
  gets 502 `upstream-closed` (server.py:1222-1237); the check looks for
  `failed:upstream_closed` only (browser.py:257) and takes the reply for the site's.
- `provider_reset`. `docs/dev/contracts.md:498` says that an upstream that closes before replying is
  `failed:upstream_closed` with a 502. A SOCKS5 provider that resets before one of the requests of the
  exchange fails a `drain()` outside the guard of the reads (upstream.py:875, 885, 890): a CONNECT is
  told as the client's leaving, without a reply, a plain request as `failed:internal`.

Seen while modelling, and allowed for in the properties (each comment says so):

- *Race.* A task that is cancelled again while it gathers the losers, or whose deadline passes then,
  leaves sockets of late winners to the collector (`"dropped"`).
- *Relay.* With an HTTP CONNECT provider the record of a failed negotiation is closed before its
  connection (server.py:1056, 1066), so bytes in between count as payload; and what asyncio drops
  when a peer resets was counted as sent and is never taken back.
- *Lifecycle.* A `stop` before any `start` keeps an empty final snapshot, which later calls return.
- *Command.* SIGTERM where no handler is installed leaves the private files. A direct tunnel that was reset
  is forgotten by find's abort check, so its advice comes again; a tunnel still `open` counts as
  reached, so a connect that is pending makes a second refusal a "rebound" (runner.py:1065-1067).
- *EventWriter.* A child forked while a thread was in `_descriptor` inherits a half-made cache: it may close a
  file of the job's, or keep a descriptor open. A finaliser that runs with the lock held waits
  for its own thread. A line may go astray after the helper closed a descriptor for another thread.
- *Exchange.* An HTTP/1.0 client, whose answers end with the connection, sees an answer as complete that was cut
  by the meter, broken off between chunks, or reset while the client was slow to take the head, although
  `docs/security.md:71-73` says that a truncated response never passes as complete; a 502 may follow a head longer than 64 KiB that a slow client has not taken; an unasked
  answer (an idle 408) on a kept connection becomes the next request's.
- *Launches.* A browser that the script launched itself and only wraps goes direct unless `proxy=` is
  given; in `serve` without `UPSTREAM_ID` the first proxy's credentials go to the meter's upstream without a
  warning; in direct mode `proxy=` settings lead to the meter and from there go direct.
- *PageLoad.* Where the headers of a response cannot be read, or come too late, find goes on with none
  (browser.py:649-655), and with those of the main document, or its body, likewise (browser.py:757-769). A reply of the
  meter's own is then not known as such, and is searched as the site's.
- *Attribution.* Of the meter's refusals without a record only the budget's are told from bypass (core.py:293-304): a
  plain-HTTP request that was answered 407 for the token, or 400, makes its host look bypassed.
- *Verdict.* A cached copy may give way to a network copy that is then beyond the listed matches.
- *Numbers.* "007.50" is found in "007.5" but a path with "007.5" is not dropped (search.py:433-439);
  a U+2212 right after a digit hides both -4.5 and 4.5.

## 6. Not modelled, and what is left

Not modelled: connection limits, the cost model, the report's fields and formats, snippets and
catalogue (no state that steps of several actors could break); the parsing of bytes into
heads, which h11 does; flow control and TLS to a provider; the test-only connect map;
top-host windows and refusal counters of the meter; sizes of heads and the fields of events that
need no round trip; the search for plain strings, JSON numbers, ISO codes, normalised and folded
texts; challenge pages and rendering; a short write of the events file, which the code takes for a
whole one; the clock.

Left to do, in this order:

1. A timed variant of `Relay` for the watchdog and the reply timeout, and of `Attribution` for a request that
   waits in its client.
2. Proofs: `NumbersAreRead`, the one invariant that is only model-checked.
3. `Dial` and `Exchange` composed with the records of `Relay`.
