------------------------------ MODULE Attribution ------------------------------
(***************************************************************************)
(* attribution/core.py and attribution/intake.py: what a run's tunnels and *)
(* the helpers' events are made into.                                      *)
(*                                                                         *)
(* First the job runs: tunnels open and close, requests start, go over a   *)
(* tunnel of their host, around the meter, nowhere, or are lost, and what  *)
(* the helpers see of them is a line of the events file.  Then read_events *)
(* reads the file, line by line, while what is left of the job may still   *)
(* append to it.  Then the figures of `attribute` are operators of the     *)
(* events read and of the final snapshot.  So the figures can be compared  *)
(* with what really happened, which only the model knows.                  *)
(***************************************************************************)
EXTENDS Allocate, Picking, Sequences, SequencesExt, FiniteSetsExt

CONSTANTS
  Plans,            \* the jobs that may run, see PlanAssumption
  Canon,            \* canonical_host, for the names that requests use
  Loopback,         \* the hosts that is_loopback_host knows
  Denied,           \* the hosts of a deny rule
  Background,       \* the hosts of the background catalog
  TypeOrder,        \* resource types in alphabetical order
  MaxEvents,        \* intake.MAX_EVENTS
  MaxTypes,         \* MAX_TYPES
  Overhead,         \* OVERHEAD_PER_TUNNEL_BYTES
  UnknownHeaders,   \* UNKNOWN_HEADERS_BYTES
  VolumeSlack,      \* BYPASS_VOLUME_SLACK_BYTES
  TimeSlack,        \* BYPASS_TIME_SLACK_S
  MaxGap,           \* REDIRECT_CHAIN_MAX_GAP_S
  IdleMax,          \* what an idle tunnel may have carried
  Resolution,       \* timeline_resolution_s
  Negotiation, Handshake,                          \* bytes of a new connection
  MaxTime           \* bound: the length of a run

Hosts == {Canon[n] : n \in DOMAIN Canon}
Types == {TypeOrder[n] : n \in DOMAIN TypeOrder}
Times == 0 .. MaxTime
Never == -1

\* A kind of request: who reports it, the context and the host name it uses, whether it
\* is a main-frame navigation, its type, the bytes it costs on the wire and those the client reports,
\* and whether header and body sizes are among these.  Reported sizes are sound: what
\* they miss is framing (a quarter at most) and unknown headers, and they exceed the
\* wire only for WebSockets and in Firefox.
IsKind(k) ==
  /\ k.source \in {"playwright", "requests"} /\ k.name \in DOMAIN Canon
  /\ k.main => k.source = "playwright"
  /\ k.main \in BOOLEAN /\ k.firefox \in BOOLEAN /\ k.headers \in BOOLEAN /\ k.body \in BOOLEAN
  /\ k.type \in Types /\ k.wire \in Nat /\ k.reported \in Nat
  /\ k.body => k.wire <= k.reported + k.reported \div 4 + IF k.headers THEN 0 ELSE UnknownHeaders
  /\ k.reported > k.wire => k.type = "websocket" \/ (k.firefox /\ k.source = "playwright")

\* A job: the requests it makes, in order, and bounds on what else happens in it: how many
\* tunnels, until when, how many lines that are no events, and which observations,
\* whether the budget trips, and whether a client may come without the meter's token.
ASSUME PlanAssumption ==
  \A p \in Plans :
    /\ \A n \in DOMAIN p.requests : IsKind(p.requests[n])
    /\ p.tunnels \in Nat /\ p.time \in Times /\ p.noise \in Nat
    /\ p.observes \subseteq {"attach", "launch"} /\ p.trips \in BOOLEAN /\ p.tokenless \in BOOLEAN

ASSUME SizeAssumption ==
  /\ \A c \in {MaxTypes, Overhead, UnknownHeaders, VolumeSlack, TimeSlack, MaxGap, IdleMax,
               Negotiation, Handshake, MaxTime} : c \in Nat
  /\ Handshake <= Overhead
  /\ MaxTypes >= 2 /\ MaxEvents \in Nat \ {0} /\ Resolution \in Nat \ {0}

ASSUME TypeAssumption == TypeOrder \in Seq(STRING)

VARIABLES
  plan,       \* the job that runs
  phase,      \* "running", "reading" or "done"
  clock,
  tunnels,    \* the snapshot's records
  wire,       \* the meter's timeline before it is put into slots: bytes by time
  tripAt,     \* when the budget tripped, or Never
  req,        \* the requests that the job made, as they really were
  file,       \* the lines of the events file
  pos,        \* how many of them were read
  log,        \* EventsLog.events
  dropped,    \* EventsLog.dropped
  capped      \* EventsLog.capped

vars   == <<plan, phase, clock, tunnels, wire, tripAt, req, file, pos, log, dropped, capped>>
job    == <<plan, tunnels, wire, tripAt, req>>
intake == <<pos, log, dropped, capped>>

Line(kind, ts, r) == [kind |-> kind, ts |-> ts, req |-> r]
Valid(line) == line.kind \in {"attach", "launch", "request"}

Init ==
  /\ plan \in Plans
  /\ phase = "running" /\ clock = 0
  /\ tunnels = <<>> /\ wire = [t \in Times |-> 0] /\ tripAt = Never
  /\ req = <<>> /\ file = <<>>
  /\ pos = 0 /\ log = <<>> /\ dropped = 0 /\ capped = 0

-----------------------------------------------------------------------------
(* The job runs.                                                           *)

Tick ==
  /\ phase = "running" /\ clock < plan.time
  /\ clock' = clock + 1
  /\ UNCHANGED <<phase, job, file, intake>>

IsOpen(t) == tunnels[t].closed = Never
CloseAll == [t \in DOMAIN tunnels |-> IF IsOpen(t) THEN [tunnels[t] EXCEPT !.closed = clock] ELSE tunnels[t]]

\* A helper attaches to a context; the browser it launched is Firefox.
Observe(kind) ==
  /\ phase = "running"
  /\ kind \in plan.observes
  /\ \A n \in DOMAIN file : file[n].kind # kind
  /\ file' = Append(file, Line(kind, clock, 0))
  /\ UNCHANGED <<phase, clock, job, intake>>

\* Any process that knows the path may append a blank line, or one that does not parse.
Scribble(kind) ==
  /\ phase \in {"running", "reading"}
  /\ Cardinality({n \in DOMAIN file : ~Valid(file[n])}) < plan.noise
  /\ file' = Append(file, Line(kind, clock, 0))
  /\ UNCHANGED <<phase, clock, job, intake>>

\* A tunnel with a connection of its own, or one that takes over the connection of a
\* tunnel that just ended; a new connection may fail before it carries anything.
OpenTunnel(h, own, failed) ==
  /\ phase = "running" /\ tripAt = Never
  /\ h \notin Denied \cup Loopback
  /\ Len(tunnels) < plan.tunnels
  /\ own \/ (~failed /\ \E t \in DOMAIN tunnels : tunnels[t].closed = clock /\ ~tunnels[t].failed)
  /\ LET setup   == IF own THEN Negotiation ELSE 0
         payload == IF own /\ ~failed THEN Handshake ELSE 0
     IN  /\ tunnels' = Append(tunnels,
              [host |-> h, route |-> "target", opened |-> clock,
               closed |-> IF failed THEN clock ELSE Never, own |-> own, failed |-> failed,
               negotiation |-> setup, payload |-> payload])
         /\ wire' = [wire EXCEPT ![clock] = @ + setup + payload]
  /\ UNCHANGED <<plan, phase, clock, tripAt, req, file, intake>>

CloseTunnel(t) ==
  /\ phase = "running" /\ IsOpen(t)
  /\ tunnels' = [tunnels EXCEPT ![t].closed = clock]
  /\ UNCHANGED <<plan, phase, clock, wire, tripAt, req, file, intake>>

\* The budget trips and the meter closes every tunnel.
Trip ==
  /\ phase = "running" /\ tripAt = Never /\ plan.trips
  /\ tripAt' = clock
  /\ tunnels' = CloseAll
  /\ UNCHANGED <<plan, phase, clock, wire, req, file, intake>>

IsRedirect(status) == status \in 300 .. 399 /\ status # 304

\* A context loads one page at a time; a navigation after a redirect is where it led.
Start ==
  /\ phase = "running" /\ Len(req) + 1 \in DOMAIN plan.requests
  /\ LET k    == plan.requests[Len(req) + 1]
         navs == {i \in DOMAIN req : req[i].kind.main /\ req[i].kind.context = k.context}
         last == Max(navs)
         hop  == k.main /\ navs # {} /\ IsRedirect(req[last].status)
     IN  /\ k.firefox => \E n \in DOMAIN file : file[n].kind = "launch"
         /\ k.main => \A i \in navs : req[i].how # "flight"
         /\ req' = Append(req, [kind |-> k, ts |-> clock, how |-> "flight", status |-> 0,
                                start |-> IF hop THEN req[last].start ELSE clock])
  /\ UNCHANGED <<plan, phase, clock, tunnels, wire, tripAt, file, intake>>

HostOf(i) == Canon[req[i].kind.name]

\* A request ends; the helpers write a line unless the page is gone before they can.
Ends(i, how, status, seen) ==
  /\ phase = "running" /\ req[i].how = "flight"
  /\ req' = [req EXCEPT ![i].how = how, ![i].status = status]
  /\ IF seen
     THEN file' = Append(file, Line("request", req[i].ts, i))
     ELSE UNCHANGED file
  /\ UNCHANGED <<plan, phase, clock, tripAt, intake>>

\* Over a tunnel of its host: its bytes are on the record and in the timeline.
Metered(i, t, status, seen) ==
  /\ IsOpen(t) /\ tunnels[t].host = HostOf(i)
  /\ status = 302 => req[i].kind.main
  /\ Ends(i, IF seen THEN "metered" ELSE "lost", status, seen)
  /\ tunnels' = [tunnels EXCEPT ![t].payload = @ + req[i].kind.wire]
  /\ wire' = [wire EXCEPT ![clock] = @ + req[i].kind.wire]

\* Around the meter, or out of the browser's cache.
Unmetered(i, how) ==
  /\ Ends(i, how, 200, TRUE)
  /\ UNCHANGED <<tunnels, wire>>

\* By the meter after the trip: plain HTTP is answered with 403, a CONNECT just fails.
Refused(i, status) ==
  /\ tripAt # Never /\ req[i].ts >= tripAt - TimeSlack
  /\ HostOf(i) \notin Loopback
  /\ Ends(i, "refused", status, TRUE)
  /\ UNCHANGED <<tunnels, wire>>

\* By the meter for its token, whatever else it would say; of what it cannot read it
\* refuses (400) it leaves no record either.
Challenged(i) ==
  /\ plan.tokenless
  /\ HostOf(i) \notin Loopback
  /\ Ends(i, "challenged", 407, TRUE)
  /\ UNCHANGED <<tunnels, wire>>

\* By a deny rule, which leaves a record without bytes.
RefusedByRule(i, status) ==
  /\ tripAt = Never /\ HostOf(i) \in Denied
  /\ Len(tunnels) < plan.tunnels
  /\ tunnels' = Append(tunnels,
       [host |-> HostOf(i), route |-> "refused", opened |-> clock, closed |-> clock,
        own |-> FALSE, failed |-> FALSE, negotiation |-> 0, payload |-> 0])
  /\ Ends(i, "denied", status, TRUE)
  /\ UNCHANGED wire

\* The job is over and the forwarder has stopped.
EndJob ==
  /\ phase = "running"
  /\ phase' = "reading"
  /\ tunnels' = CloseAll
  /\ UNCHANGED <<plan, clock, wire, tripAt, req, file, intake>>

-----------------------------------------------------------------------------
(* read_events.                                                            *)

NextLine == file[pos + 1]
Full == Len(log) >= MaxEvents

Reads ==
  /\ phase = "reading" /\ pos < Len(file)
  /\ pos' = pos + 1
  /\ UNCHANGED <<phase, clock, job, file>>

SkipLine ==
  /\ Reads /\ NextLine.kind = "blank"
  /\ UNCHANGED <<log, dropped, capped>>

KeepLine ==
  /\ Reads /\ Valid(NextLine) /\ ~Full
  /\ log' = Append(log, NextLine)
  /\ UNCHANGED <<dropped, capped>>

\* Mutant: the cap is looked for after the line is parsed.
DropLineLate ==
  /\ Reads /\ NextLine.kind # "blank" /\ (Full \/ ~Valid(NextLine))
  /\ dropped' = dropped + 1
  /\ capped' = IF Valid(NextLine) THEN capped + 1 ELSE capped
  /\ UNCHANGED log

\* Past the cap no line is looked into: a bad one counts as capped too.
DropLine ==
  /\ Reads /\ NextLine.kind # "blank" /\ (Full \/ ~Valid(NextLine))
  /\ dropped' = dropped + 1
  /\ capped' = IF Full THEN capped + 1 ELSE capped
  /\ UNCHANGED log

EndOfFile ==
  /\ phase = "reading" /\ pos = Len(file)
  /\ phase' = "done"
  /\ UNCHANGED <<clock, job, file, intake>>

Next ==
  \/ Tick \/ Trip \/ Start \/ EndJob
  \/ \E kind \in {"attach", "launch"} : Observe(kind)
  \/ \E kind \in {"blank", "bad"} : Scribble(kind)
  \/ \E h \in Hosts, own, failed \in BOOLEAN : OpenTunnel(h, own, failed)
  \/ \E t \in DOMAIN tunnels : CloseTunnel(t)
  \/ \E i \in DOMAIN req :
       \/ \E t \in DOMAIN tunnels, status \in {200, 302}, seen \in BOOLEAN : Metered(i, t, status, seen)
       \/ \E how \in {"around", "cache"} : Unmetered(i, how)
       \/ Challenged(i)
       \/ \E status \in {0, 403} : Refused(i, status) \/ RefusedByRule(i, status)
  \/ SkipLine \/ KeepLine \/ DropLine \/ EndOfFile

Spec == Init /\ [][Next]_vars

-----------------------------------------------------------------------------
(* attribute: hosts, shares, buckets and types.                            *)

Events(kind) == {n \in DOMAIN log : log[n].kind = kind}
Requests == Events("request")
Ts(n) == log[n].ts
Made(n) == req[log[n].req]
Event(n) == Made(n).kind
Status(n) == Made(n).status

FirstObservation ==
  IF Events("attach") # {} THEN Min({Ts(n) : n \in Events("attach")})
  ELSE IF Requests # {} THEN Min({Ts(n) : n \in Requests})
  ELSE Never

\* hit_network, by canonical host.
Network(h) == {n \in Requests : Made(n).how # "cache" /\ Canon[Event(n).name] = h}

TargetTunnels(h) == {t \in DOMAIN tunnels : tunnels[t].host = h /\ tunnels[t].route = "target"}
WithConnect == [t \in DOMAIN tunnels |-> tunnels[t].negotiation + tunnels[t].payload]
Carried(h) == SumFunctionOnSet(WithConnect, TargetTunnels(h))

\* reported_bytes: a refusal of the meter is small, and a failure has no sizes.
Size == [n \in Requests |-> IF Made(n).how \notin {"refused", "challenged", "denied"} THEN Event(n).reported
                            ELSE IF Status(n) = 0 THEN 0 ELSE 1]
Reported(N) == SumFunctionOnSet(Size, N)

\* Mutant: every record has the allowance of a new connection, and no other.
OverheadAllowanceFlat(T, N) ==
  Overhead * Cardinality(T) + Reported(N) \div 4

\* _overhead_allowance: how far reported bytes may be scaled up.
OverheadAllowance(T, N) ==
  SumFunctionOnSet([t \in T |-> tunnels[t].negotiation + IF tunnels[t].own THEN Overhead ELSE 0], T)
  + UnknownHeaders * Cardinality({n \in N : ~Event(n).headers})
  + Reported(N) \div 4

Unbounded(N) == \E n \in N : ~Event(n).body /\ Status(n) # 0

Attributable(h) ==
  LET N == Network(h)
  IN  IF Unbounded(N) THEN Carried(h)
      ELSE Min({Carried(h), Reported(N) + OverheadAllowance(TargetTunnels(h), N)})

IsAttributed(h) == TargetTunnels(h) # {} /\ Network(h) # {}
Shares(h) == largest_remainder(Attributable(h), [n \in Network(h) |-> Size[n]])
Unreported(h) == IF IsAttributed(h) THEN Carried(h) - Attributable(h) ELSE 0

\* _classify_idle_tunnel, for the tunnels of a host without a request.
Classify(t) ==
  CASE tunnels[t].host \in Background -> "background"
    [] tunnels[t].host \notin Background /\ FirstObservation # Never
         /\ tunnels[t].opened < FirstObservation -> "before_attach"
    [] tunnels[t].host \notin Background /\ FirstObservation # Never
         /\ tunnels[t].opened >= FirstObservation
         /\ ~tunnels[t].failed /\ tunnels[t].payload <= IdleMax -> "preconnect_idle"
    [] OTHER -> "unattributed"

BucketOf(t) == IF IsAttributed(tunnels[t].host) THEN "attributed" ELSE Classify(t)
BucketNames == {"attributed", "background", "before_attach", "preconnect_idle", "unattributed"}
Target == {t \in DOMAIN tunnels : tunnels[t].route = "target"}
Buckets == [b \in BucketNames |-> SumFunctionOnSet(WithConnect, {t \in Target : BucketOf(t) = b})]

\* A request that claims the type "unreported" is filed as "other".
TypeOf(n) == IF Event(n).type = "unreported" THEN "other" ELSE Event(n).type

\* The types' rows before they are folded: bytes by type, for the types that occur.
Attributed == {h \in {tunnels[t].host : t \in Target} : IsAttributed(h)}
TypesSeen == UNION {{TypeOf(n) : n \in Network(h)} : h \in Attributed}
BytesOf(h, type) == SumFunctionOnSet(Shares(h), {n \in Network(h) : TypeOf(n) = type})
AllUnreported == SumFunctionOnSet([h \in Attributed |-> Unreported(h)], Attributed)
TypeRows ==
  [type \in TypesSeen \cup (IF AllUnreported > 0 THEN {"unreported"} ELSE {}) |->
     IF type = "unreported" THEN AllUnreported
     ELSE SumFunctionOnSet([h \in Attributed |-> BytesOf(h, type)], Attributed)]

Alphabetical(type) == CHOOSE n \in DOMAIN TypeOrder : TypeOrder[n] = type

\* The types of S before each one when the largest are kept first.
Larger(rows, S) ==
  [a \in S |-> {b \in S : \/ rows[b] > rows[a]
                          \/ rows[b] = rows[a] /\ Alphabetical(b) < Alphabetical(a)}]
Largest(rows, S, places) == {a \in S : Cardinality(Larger(rows, S)[a]) < places}

\* Mutant: the unreported bytes are folded like any other type.
KeptUnpinned(rows) == Largest(rows, DOMAIN rows \ {"other"}, MaxTypes - 1)

\* The types that are kept of rows which are more than MaxTypes.
Kept(rows) ==
  LET pinned == DOMAIN rows \cap {"unreported"}
  IN  pinned \cup Largest(rows, DOMAIN rows \ {"other", "unreported"},
                         MaxTypes - 1 - Cardinality(pinned))

FoldTypes(rows) ==
  IF Cardinality(DOMAIN rows) <= MaxTypes THEN rows
  ELSE [type \in Kept(rows) \cup {"other"} |->
          IF type \in Kept(rows) THEN rows[type]
          ELSE SumFunctionOnSet(rows, DOMAIN rows \ Kept(rows))]

-----------------------------------------------------------------------------
(* attribute: units and the timeline.                                      *)

\* Earlier first, and as written where the times are equal (Python's sort is stable).
InOrder(N) == InLine([a \in N |-> {b \in N : Ts(b) < Ts(a) \/ (Ts(b) = Ts(a) /\ b < a)}])

Navigations == {n \in Requests : Event(n).main}

\* Mutant: hops that are too old still start the page.
NextHopAnyAge(chain, n) ==
  LET first == chain.first
  IN  IF IsRedirect(Status(n))
      THEN [chain EXCEPT !.first = IF first = Never THEN Ts(n) ELSE first, !.previous = Ts(n)]
      ELSE [first |-> Never, previous |-> Ts(n),
            starts |-> [chain.starts EXCEPT ![n] = IF first = Never THEN @ ELSE first]]

\* One navigation of a context: the first hop so far, the navigation before, the starts.
NextHop(chain, n) ==
  LET late  == chain.previous # Never /\ Ts(n) - chain.previous > MaxGap
      first == IF late THEN Never ELSE chain.first
  IN  IF IsRedirect(Status(n))
      THEN [chain EXCEPT !.first = IF first = Never THEN Ts(n) ELSE first, !.previous = Ts(n)]
      ELSE [first |-> Never, previous |-> Ts(n),
            starts |-> [chain.starts EXCEPT ![n] = IF first = Never THEN @ ELSE first]]

\* _redirect_chain_starts, and a navigation's own time where there is no chain.
NoChain == [first |-> Never, previous |-> Never, starts |-> [n \in Navigations |-> Ts(n)]]
Chained(order) ==
  LET after[k \in 0 .. Len(order)] == IF k = 0 THEN NoChain ELSE NextHop(after[k - 1], order[k])
  IN  after[Len(order)]
NavigationsOf(context) == {n \in Navigations : Event(n).context = context}
ChainStarts ==
  [n \in Navigations |-> Chained(InOrder(NavigationsOf(Event(n).context))).starts[n]]

NavigationUnits == {n \in Navigations : ~IsRedirect(Status(n))}
HookUnits == {n \in Requests : Event(n).source = "requests" /\ ~IsRedirect(Status(n))}
Units == IF NavigationUnits # {} THEN NavigationUnits ELSE HookUnits

UnitStart == IF NavigationUnits # {} THEN ChainStarts ELSE [n \in HookUnits |-> Ts(n)]

\* When the units started, sorted.
Timed == {<<UnitStart[n], n>> : n \in Units}
Stamps ==
  LET sorted == InLine([a \in Timed |-> {b \in Timed : b[1] < a[1] \/ (b[1] = a[1] /\ b[2] < a[2])}])
  IN  [k \in DOMAIN sorted |-> sorted[k][1]]

Slots == {t \div Resolution : t \in Times}
SlotBytes ==
  [slot \in Slots |-> SumFunctionOnSet(wire, {t \in Times : t \div Resolution = slot})]

\* Mutant: a slot counts as before when it begins before.
BytesEndingByBegin(stamp) ==
  SumFunctionOnSet(SlotBytes, {slot \in Slots : slot * Resolution < stamp})

\* The timeline's bytes in slots that end by a stamp: a slot that straddles it does not.
BytesEndingBy(stamp) ==
  SumFunctionOnSet(SlotBytes, {slot \in Slots : slot * Resolution + Resolution <= stamp})

AllBytes == SumFunctionOnSet(SlotBytes, Slots)

\* The bytes before the first unit, of the first unit and of the others.  The latter are
\* withheld where the first two units began within a slot.
PerUnit ==
  LET stamps   == Stamps
      ended(n) == BytesEndingBy(stamps[n])
  IN  [before   |-> ended(1),
       withheld |-> Len(stamps) > 1 /\ stamps[2] - stamps[1] < Resolution,
       first    |-> (IF Len(stamps) > 1 THEN ended(2) ELSE AllBytes) - ended(1),
       rest     |-> IF Len(stamps) > 1 THEN AllBytes - ended(2) ELSE 0]

-----------------------------------------------------------------------------
(* attribute: bypass.                                                      *)

TunnelsTo(h) == {t \in DOMAIN tunnels : tunnels[t].host = h}
LastClose(h) == Max({tunnels[t].closed : t \in TunnelsTo(h)})

\* Mutant: no 403 is the meter's own.
RefusedNever(n) == FALSE

\* _refused_after_trip.
RefusedAfterTrip(n) == tripAt # Never /\ Status(n) = 403 /\ Ts(n) >= tripAt - TimeSlack

\* The events that the bypass check looks at: not to this machine, not failed without a
\* status, not answered by the meter itself.
Suspects(h) == {n \in Network(h) : h \notin Loopback /\ Status(n) # 0 /\ ~RefusedAfterTrip(n)}

\* No tunnel can have carried it: there is none to its host, or all had closed before.
OutsideTunnels(h, n) == TunnelsTo(h) = {} \/ Ts(n) > LastClose(h) + TimeSlack

\* The others whose sizes are evidence of what went over the wire.
Weighed(h) ==
  {n \in Suspects(h) : /\ ~OutsideTunnels(h, n) /\ Event(n).type # "websocket"
                       /\ Events("launch") # {} => Event(n).source # "playwright"}

BypassHosts ==
  {h \in Hosts : \/ \E n \in Suspects(h) : OutsideTunnels(h, n)
                 \/ /\ Weighed(h) # {}
                    /\ 2 * Reported(Weighed(h)) >
                         3 * SumFunctionOnSet(WithConnect, TunnelsTo(h)) + 2 * VolumeSlack}

-----------------------------------------------------------------------------
(* Properties.                                                             *)

Done == phase = "done"

\* The events read are the file's first valid lines, as far as the cap allows, and every
\* line that is not blank is kept or dropped; what capped adds to dropped are exactly
\* the lines after the last event kept, so that the warning names the right number.
EventsAreThePrefix ==
  LET valid == {n \in DOMAIN file : Valid(file[n])}
      upto(n) == Cardinality({m \in valid : m <= n})
      kept  == {n \in valid : upto(n) <= MaxEvents}
      last  == IF Cardinality(valid) < MaxEvents THEN Len(file)
               ELSE CHOOSE n \in valid : upto(n) = MaxEvents
  IN  Done =>
        /\ log = Picked(file, kept)
        /\ capped = Cardinality({n \in DOMAIN file : n > last /\ file[n].kind # "blank"})
        /\ dropped - capped = Cardinality({n \in DOMAIN file : n <= last /\ file[n].kind = "bad"})

\* Contract 6: buckets add up to the totals and the folded types to the attributed
\* bucket, at most MaxTypes of them, with the unreported bytes never folded away.
BytesAddUp ==
  Done =>
    LET rows == FoldTypes(TypeRows)
    IN  /\ SumFunction(Buckets) = SumFunctionOnSet(WithConnect, Target)
        /\ SumFunction(rows) = Buckets["attributed"]
        /\ Cardinality(DOMAIN rows) <= MaxTypes
        /\ AllUnreported = IF "unreported" \in DOMAIN rows THEN rows["unreported"] ELSE 0

\* A host's shares add up to what is attributable, a request that reported more never
\* gets less, and one that reported nothing gets nothing beside one that did.
SharesFollowSizes ==
  Done => \A h \in Hosts : IsAttributed(h) =>
    LET share == Shares(h)
    IN  /\ SumFunction(share) = Attributable(h)
        /\ \A m, n \in Network(h) : Size[m] > Size[n] =>
             share[m] >= share[n] /\ (Size[n] = 0 => share[n] = 0)

\* No byte is lost or counted twice between the meter and the tables of the report.
BytesAreShared == BytesAddUp /\ SharesFollowSizes

\* The allowances are large enough for the traffic they stand for: where every request
\* that used a host's tunnels was reported, no byte of them is called unreported.
ReportedHostsAreExplained ==
  Done => \A h \in Hosts :
    (\A i \in DOMAIN req : HostOf(i) = h /\ req[i].how \in {"metered", "lost"} =>
        \E n \in Requests : log[n].req = i)
      => Unreported(h) = 0

\* The page's time is that of the first hop of the redirects that really led to it, as
\* long as no navigation of its context since then was lost and no hop took too long;
\* a redirect that led nowhere long ago, or in another context, does not move it.
PagesStartWithTheirHops ==
  Done => \A n \in NavigationUnits :
    LET page == log[n].req
        before == {i \in 1 .. page : req[i].kind.main /\ req[i].kind.context = Event(n).context}
        chain == {i \in before : req[i].start = Made(n).start}
        recent == {i \in before : req[i].ts >= Made(n).start - MaxGap}
        read == {log[m].req : m \in Requests}
    IN  /\ recent \subseteq read
        /\ \A i \in chain \ {page} : \E j \in chain : j > i /\ req[j].ts - req[i].ts <= MaxGap
        => ChainStarts[n] = Made(n).start

\* What the report says about the time before the first page and about the first page
\* holds in real time, not only in slots: no byte moved after a page began is in the
\* part before it, and the three parts are the whole timeline.
SplitRespectsTime ==
  Done /\ Units # {} =>
    LET until(stamp) == SumFunctionOnSet(wire, {t \in Times : t < stamp})
        stamps == Stamps
        parts  == PerUnit
    IN  /\ parts.before <= until(stamps[1])
        /\ ~parts.withheld =>
             /\ parts.first >= 0 /\ parts.rest >= 0
             /\ parts.before + parts.first + parts.rest = SumFunctionOnSet(WithConnect, Target)
             /\ Len(stamps) > 1 => parts.before + parts.first <= until(stamps[2])

\* What the report says of pages and of time.
PagesAreTimed == PagesStartWithTheirHops /\ SplitRespectsTime

\* No false alarm: a host is only said to be bypassed when a request to it really went
\* around the meter, whatever was refused, cached, lost, read past the cap or resized;
\* unless a deny rule answered so many requests that its replies, which no record counts,
\* exceed the slack, or the meter asked one for its token, which only the budget's
\* refusals are told from.
OnlyBypassIsReported ==
  Done => \A h \in BypassHosts :
    \/ \E i \in DOMAIN req : HostOf(i) = h /\ req[i].how \in {"around", "challenged"}
    \/ Reported({n \in Network(h) : Made(n).how = "denied"}) > VolumeSlack
=============================================================================
