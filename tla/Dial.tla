-------------------------------- MODULE Dial ---------------------------------
(***************************************************************************)
(* forwarder/upstream.py, with the callers of it in server.py: how a       *)
(* tunnel gets its connection.  For a direct route the name is resolved,   *)
(* its addresses are checked and put in order, and one of them is          *)
(* connected to (which one of several is the race of module Race); for a   *)
(* route through the provider the HTTP CONNECT or the SOCKS5 exchange      *)
(* follows.                                                                *)
(*                                                                         *)
(* What the provider says is a sequence of parts, each of which the code   *)
(* reads as a whole: method, status, reply and bound address of SOCKS5,    *)
(* the head and the pieces of the body of an HTTP reply; then payload.     *)
(* The meter counts a part when it comes, before it is read; it is marked  *)
(* as negotiation later.  The test-only connect map is left out.           *)
(***************************************************************************)
EXTENDS Naturals, Sequences, Picking

CONSTANTS
  Ways,      \* the tunnels to try: see IsWay
  Lookups,   \* what the resolver may say: sequences of addresses
  Offers,    \* what a provider may say: see IsOffer
  MaxBody    \* MAX_ERROR_BODY, in pieces

\* kind: of the record.  creds: for SOCKS5, whether there are any and whether they can be
\* said.  allow: private addresses are allowed.  mine: the port is one the meter listens at.
IsWay(w) ==
  /\ w.route \in {"direct", "http-connect", "socks5"} /\ w.kind \in {"connect", "http"}
  /\ w.creds \in {"none", "fit", "long"} /\ w.allow \in BOOLEAN /\ w.mine \in BOOLEAN

\* An address, its form and where it leads: to this machine's loopback ("self"), somewhere
\* private, to this machine or its link by a public address ("ours"), or out.  It may embed
\* an IPv4 address, mapped (then it is that address) or for a gateway; or be of a range
\* that is never public, whatever Python says of it.
IsAddress(a) ==
  /\ a.v6 \in BOOLEAN /\ a.form \in {"plain", "mapped", "gateway", "local"}
  /\ a.leads \in {"self", "private", "ours", "out"}

\* rep: 0, or why not; bound: the type of the bound address is known.  head: of an HTTP
\* reply; frame, pieces: its body.  sends: how many parts come before it falls silent.
IsOffer(o) ==
  /\ o.version \in BOOLEAN /\ o.method \in {"none", "password", "other"} /\ o.pass \in BOOLEAN
  /\ o.rep \in Nat /\ o.bound \in BOOLEAN
  /\ o.head \in {"ok", "refused", "bare", "junk", "long"}
  /\ o.frame \in {"length", "chunked", "close"} /\ o.pieces \in Nat /\ o.sends \in Nat

ASSUME DialAssumption ==
  /\ \A w \in Ways : IsWay(w)
  /\ \A s \in Lookups : s \in Seq({s[i] : i \in DOMAIN s}) /\ \A i \in DOMAIN s : IsAddress(s[i])
  /\ \A o \in Offers : IsOffer(o)
  /\ MaxBody \in Nat

VARIABLES
  way,      \* the tunnel, one of Ways
  answer,   \* the resolver's answer
  offer,    \* the provider, one of Offers
  dialer,   \* where the task is; how it ended; the last failure of an attempt; the address used
  hopes,    \* the addresses in the order to try them, and (ghost) those that were tried
  line,     \* the connection: parts heard (and counted), taken and named negotiation, pieces of
            \* the body kept; and the peer: "open", "eof", "resets" (the loop has not seen it), "reset"
  said,     \* what the meter said
  cut       \* the meter has closed the tunnel

dialVars == <<way, answer, offer, dialer, hopes, line, said, cut>>
given == <<way, answer, offer>>

InitDial ==
  /\ way \in Ways /\ answer \in Lookups /\ offer \in Offers
  /\ dialer = [at |-> "begins", end |-> "none", last |-> "none", to |-> 0]
  /\ hopes = [order |-> <<>>, tried |-> {}]
  /\ line = [heard |-> 0, taken |-> 0, named |-> 0, kept |-> 0, peer |-> "open"]
  /\ said = <<>>
  /\ cut = FALSE

-----------------------------------------------------------------------------
(* The end.  A failure is told by its reason; every byte of it is           *)
(* negotiation.  An error of the socket that is none of upstream.py's own   *)
(* is taken for the client's, or is an internal error.                      *)

Settles(end) == dialer' = [dialer EXCEPT !.at = "ended", !.end = end]
FailsWith(end) == Settles(end) /\ line' = [line EXCEPT !.named = line.heard] /\ UNCHANGED <<given, hopes, said, cut>>
Tears == Settles("cut") /\ UNCHANGED <<given, hopes, line, said, cut>>
\* A tunnel's failure is finished as it is told, all of it negotiation, unless the meter closed it.
Breaks(l) ==
  IF way.kind = "connect" THEN FailsWith(IF cut THEN "cut" ELSE "client_closed")
  ELSE Settles(IF cut THEN "cut" ELSE "internal") /\ line' = l /\ UNCHANGED <<given, hopes, said, cut>>

-----------------------------------------------------------------------------
(* Direct routes.                                                           *)

Embeds(a) == a.form \in {"mapped", "gateway"}
IsSelf(a) == a.leads = "self" /\ a.form # "local"
\* The same without a look at what is embedded (a mutant), and the code's.
IsPrivatePlain(a) == a.form = "local" \/ (a.form # "gateway" /\ a.leads \notin {"ours", "out"})
IsPrivate(a) ==
  \/ Embeds(a) /\ a.leads \notin {"ours", "out"}
  \/ a.form = "local"
  \/ a.form = "plain" /\ a.leads \notin {"ours", "out"}

\* The socket's two ends are one, or on one IPv6 link.
IsOwnOrOnLink(a) == a.leads \in {"self", "ours"} /\ a.form # "gateway"

Distinct(s) == Picked(s, {i \in DOMAIN s : \A j \in 1 .. i - 1 : s[j] # s[i]})
Allowed(s) == Picked(s, {i \in DOMAIN s : way.allow \/ ~IsPrivate(s[i])})

\* Families in turns, from the first address's on.
Interleaved(s) ==
  LET first == Picked(s, {i \in DOMAIN s : s[i].v6 = s[1].v6})
      other == Picked(s, {i \in DOMAIN s : s[i].v6 # s[1].v6})
      Pairs == IF Len(first) < Len(other) THEN Len(first) ELSE Len(other)
  IN  [i \in 1 .. Len(first) + Len(other) |->
         IF i > 2 * Pairs THEN (IF Len(first) > Pairs THEN first ELSE other)[i - Pairs]
         ELSE IF i % 2 = 1 THEN first[(i + 1) \div 2] ELSE other[i \div 2]]

Resolves ==
  LET found == Distinct(answer)
      allowed == Allowed(found)
  IN  /\ dialer.at = "begins" /\ way.route = "direct"
      /\ IF found = <<>> THEN FailsWith("dns")
         ELSE IF way.mine /\ \E i \in DOMAIN found : IsSelf(found[i])
           THEN FailsWith("self_loop")
         ELSE IF allowed = <<>> THEN FailsWith("private_address")
         ELSE /\ hopes' = [hopes EXCEPT !.order = Interleaved(allowed)]
              /\ dialer' = [dialer EXCEPT !.at = "tries"]
              /\ UNCHANGED <<given, line, said, cut>>
ResolverFails ==
  /\ dialer.at = "begins" /\ way.route = "direct"
  /\ \E end \in {"dns", "connect_timeout", "local_limit"} : FailsWith(end)

\* An attempt ends: it failed, or connected to this machine; or it is the first to connect.
Untried == DOMAIN hopes.order \ hopes.tried
AttemptFails(i, why) ==
  /\ dialer.at = "tries" /\ i \in Untried
  /\ why = "private_address" => ~way.allow /\ IsOwnOrOnLink(hopes.order[i])
  /\ hopes' = [hopes EXCEPT !.tried = @ \cup {i}]
  /\ dialer' = IF Untried = {i} THEN [dialer EXCEPT !.at = "ended", !.end = why, !.last = why]
               ELSE [dialer EXCEPT !.last = why]
  /\ UNCHANGED <<given, line, said, cut>>
AttemptWins(i) ==
  /\ dialer.at = "tries" /\ i \in Untried
  /\ way.allow \/ ~IsOwnOrOnLink(hopes.order[i])
  /\ dialer' = [dialer EXCEPT !.at = "ended", !.end = IF cut THEN "cut" ELSE "open", !.to = i]
  /\ UNCHANGED <<given, hopes, line, said, cut>>
OutOfTime == dialer.at = "tries" /\ FailsWith("connect_timeout")

-----------------------------------------------------------------------------
(* The provider.                                                            *)

Dials ==
  /\ dialer.at = "begins" /\ way.route # "direct"
  /\ \/ way.route = "socks5" /\ way.creds = "long" /\ FailsWith("socks_auth_unsupported")
     \/ /\ ~(way.route = "socks5" /\ way.creds = "long")
        /\ \/ \E end \in {"upstream_unreachable", "upstream_timeout", "local_limit"} : FailsWith(end)
           \/ cut /\ Tears
           \/ ~cut /\ way.mine /\ FailsWith("self_loop")
           \/ /\ ~cut /\ ~way.mine
              /\ dialer' = [dialer EXCEPT !.at = "speaks"]
              /\ UNCHANGED <<given, hopes, line, said, cut>>

Dead == line.peer \in {"resets", "reset"}
\* A part can be read, though the end of the stream may be behind it; or never will be.
Here == line.heard > line.taken /\ line.peer # "reset"
Gone == line.peer = "reset" \/ (line.peer = "eof" /\ line.heard = line.taken)
ReadsPart == [line EXCEPT !.taken = @ + 1, !.named = @ + 1]

\* The end of the stream while a reply is waited for: the meter's own doing, or not.
StreamEnds == IF cut THEN Tears ELSE FailsWith("upstream_closed")

\* write, and drain, of a request of SOCKS5 after what was read is in l: a connection that
\* is lost by then is not met here but by the callers.
Says(what, l, at) ==
  IF cut \/ Dead THEN Breaks(l)
  ELSE /\ said' = Append(said, what)
       /\ line' = l
       /\ dialer' = [dialer EXCEPT !.at = at]
       /\ UNCHANGED <<given, hopes, cut>>

Greets == dialer.at = "speaks" /\ way.route = "socks5" /\ Says("hello", line, "method")
Method ==
  /\ dialer.at = "method" /\ Here
  /\ IF ~offer.version THEN FailsWith("upstream_protocol")
     ELSE IF offer.method # (IF way.creds = "fit" THEN "password" ELSE "none") THEN FailsWith("socks_method")
     ELSE IF way.creds = "fit" THEN Says("password", ReadsPart, "status")
     ELSE Says("target", ReadsPart, "reply")
Accepted ==
  /\ dialer.at = "status" /\ Here
  /\ IF ~offer.pass THEN FailsWith("socks_auth") ELSE Says("target", ReadsPart, "reply")
Reply ==
  /\ dialer.at = "reply" /\ Here
  /\ IF offer.bound
     THEN dialer' = [dialer EXCEPT !.at = "bound"] /\ line' = ReadsPart /\ UNCHANGED <<given, hopes, said, cut>>
     ELSE FailsWith(IF offer.rep = 0 THEN "upstream_protocol" ELSE "socks_reply")
Bound ==
  /\ dialer.at = "bound" /\ Here
  /\ IF offer.rep # 0 THEN FailsWith("socks_reply")
     ELSE Settles("open") /\ line' = ReadsPart /\ UNCHANGED <<given, hopes, said, cut>>
\* A refusal counts also when its address is cut off.
Cuts ==
  /\ dialer.at \in {"method", "status", "reply", "bound"} /\ Gone
  /\ IF dialer.at = "bound" /\ offer.rep # 0 /\ ~cut THEN FailsWith("socks_reply") ELSE StreamEnds

-----------------------------------------------------------------------------
(* HTTP CONNECT.                                                            *)

AsksToConnect ==
  /\ dialer.at = "speaks" /\ way.route = "http-connect"
  /\ IF cut THEN Tears
     ELSE IF Dead THEN FailsWith("upstream_closed")
     ELSE /\ said' = Append(said, "target")
          /\ dialer' = [dialer EXCEPT !.at = "head"]
          /\ UNCHANGED <<given, hopes, line, cut>>
ReadsHead ==
  /\ dialer.at = "head" /\ Here
  /\ CASE offer.head \in {"junk", "long"} -> FailsWith("upstream_protocol")
       [] offer.head = "ok" -> Settles("open") /\ line' = ReadsPart /\ UNCHANGED <<given, hopes, said, cut>>
       [] offer.head = "bare" -> FailsWith("upstream_status")
       [] offer.head = "refused" ->
            dialer' = [dialer EXCEPT !.at = "body"] /\ line' = ReadsPart /\ UNCHANGED <<given, hopes, said, cut>>
HeadIsCut == dialer.at = "head" /\ Gone /\ StreamEnds

\* The body of a refusal is relayed whole, cut off, or not at all.
Wanted == IF offer.frame = "chunked" THEN offer.pieces ELSE IF offer.pieces < MaxBody THEN offer.pieces ELSE MaxBody
BodyEnds(kept) ==
  /\ Settles("upstream_status")
  /\ line' = [line EXCEPT !.kept = kept, !.named = line.heard]
  /\ UNCHANGED <<given, hopes, said, cut>>
ReadsPiece ==
  /\ dialer.at = "body" /\ Here /\ line.kept < Wanted
  /\ line' = [line EXCEPT !.taken = @ + 1, !.kept = @ + 1]
  /\ UNCHANGED <<given, hopes, dialer, said, cut>>
BodyIsRead ==
  /\ dialer.at = "body"
  /\ \/ line.kept = Wanted /\ (offer.frame # "close" \/ Wanted = MaxBody) /\ BodyEnds(line.kept)
     \/ line.kept < Wanted /\ line.peer = "eof" /\ Gone /\ BodyEnds(IF offer.frame = "chunked" THEN 0 ELSE line.kept)
     \/ offer.frame = "close" /\ line.peer # "reset" /\ (line.kept = Wanted \/ ~Here) /\ BodyEnds(line.kept)
     \/ line.peer = "reset" /\ BodyEnds(0)
BodyTimesOut == dialer.at = "body" /\ BodyEnds(0)

-----------------------------------------------------------------------------
(* The peer, the clock and the meter.                                       *)

Speaking == dialer.at \in {"speaks", "method", "status", "reply", "bound", "head", "body"}
Awaits == dialer.at \in {"method", "status", "reply", "bound", "head"}

Comes ==
  /\ Speaking /\ line.peer = "open" /\ ~cut
  /\ line.heard < offer.sends
  /\ line.heard < Len(said) + (CASE dialer.at = "body" -> offer.pieces
                                 [] dialer.at \in {"reply", "bound"} -> 2
                                 [] OTHER -> 1)
  /\ line' = [line EXCEPT !.heard = @ + 1]
  /\ UNCHANGED <<given, hopes, dialer, said, cut>>
PeerEnds ==
  /\ Speaking /\ ~cut
  /\ \/ line.peer = "open" /\ \E how \in {"eof", "resets"} : line' = [line EXCEPT !.peer = how]
     \/ line.peer = "resets" /\ line' = [line EXCEPT !.peer = "reset"]
  /\ UNCHANGED <<given, hopes, dialer, said, cut>>
Expires == Awaits /\ FailsWith("upstream_timeout")

\* A trip, the cap or a stop: the transport is aborted, and its reader at its end.
CutsTunnel ==
  /\ dialer.at # "ended" /\ ~cut
  /\ cut' = TRUE
  /\ line' = IF line.peer = "open" THEN [line EXCEPT !.peer = "eof"] ELSE line
  /\ UNCHANGED <<given, hopes, dialer, said>>

NextDial ==
  \/ Resolves \/ ResolverFails \/ OutOfTime \/ Dials
  \/ \E i \in Untried : AttemptWins(i)
  \/ \E i \in Untried, why \in {"connect_refused", "connect_timeout", "local_limit", "private_address"} :
       AttemptFails(i, why)
  \/ Greets \/ Method \/ Accepted \/ Reply \/ Bound \/ Cuts
  \/ AsksToConnect \/ ReadsHead \/ HeadIsCut \/ ReadsPiece \/ BodyIsRead \/ BodyTimesOut
  \/ Comes \/ PeerEnds \/ Expires \/ CutsTunnel

DialSpec == InitDial /\ [][NextDial]_dialVars

-----------------------------------------------------------------------------
(* Properties.                                                              *)

\* A direct connection leads out: never to the meter itself, and, unless it was allowed,
\* to no host that only this machine can reach, in whatever form its address came.  (A
\* gateway may lead back to a public address of this machine: its socket does not show it.)
LeadsOut ==
  way.route = "direct" /\ dialer.end = "open" =>
    LET a == hopes.order[dialer.to]
    IN  /\ \E i \in DOMAIN answer : answer[i] = a
        /\ ~(way.mine /\ IsSelf(a))
        /\ ~way.allow => a.leads = "out" \/ (a.form = "gateway" /\ a.leads = "ours")

\* Two addresses of a family follow each other only when no other family is left, and
\* the resolver's order is kept within each.
TakesTurns ==
  LET o == hopes.order
  IN  /\ \A i \in 1 .. Len(o) - 1 : o[i].v6 = o[i + 1].v6 => \A j \in i + 1 .. Len(o) : o[j].v6 = o[i].v6
      /\ o # <<>> => o[1] = Allowed(Distinct(answer))[1] /\ Len(o) = Len(Allowed(Distinct(answer)))
      /\ \A i, j \in DOMAIN o : i < j /\ o[i].v6 = o[j].v6 =>
           \E x, y \in DOMAIN answer : answer[x] = o[i] /\ answer[y] = o[j] /\ \A z \in 1 .. x : answer[z] # o[j]

\* Of what was heard the handshake is negotiation, and what came behind it is left for the
\* tunnel; of a failure everything is.
HandshakeIsApart ==
  /\ line.taken <= line.heard /\ line.named <= line.heard
  /\ dialer.end = "open" /\ way.route = "http-connect" => line.taken = 1 /\ line.named = 1
  /\ dialer.end = "open" /\ way.route = "socks5" =>
       line.taken = (IF way.creds = "fit" THEN 4 ELSE 3) /\ line.named = line.taken
  /\ dialer.at = "ended" /\ dialer.end \notin {"open", "cut", "internal"} => line.named = line.heard

\* Nobody gets a password that was not asked for, or a target before it accepted one; and a
\* reason is one that the provider gave.
ReasonsAreTrue ==
  LET Said(what) == \E i \in DOMAIN said : said[i] = what
      socks == way.route = "socks5"
  IN  /\ Said("password") => way.creds = "fit" /\ offer.version /\ offer.method = "password"
      /\ socks /\ Said("target") => IF way.creds = "fit" THEN offer.pass ELSE offer.version /\ offer.method = "none"
      /\ socks /\ dialer.end = "open" => offer.rep = 0 /\ offer.bound
      /\ dialer.end = "socks_reply" => offer.rep # 0 /\ Said("target")
      /\ dialer.end = "socks_auth" => ~offer.pass /\ Said("password")
      /\ dialer.end = "cut" => cut
      /\ dialer.end = "upstream_closed" => line.peer # "open" /\ ~cut
      /\ dialer.end = "private_address" =>
           ~way.allow /\ \E i \in DOMAIN answer : answer[i].leads # "out" \/ answer[i].form = "local"
      /\ line.kept > 0 /\ dialer.at = "ended" => line.kept <= Wanted

\* What a tunnel is connected to, and what is said and told on the way.
DialIsTrue == LeadsOut /\ TakesTurns /\ HandshakeIsApart /\ ReasonsAreTrue

\* docs/dev/contracts.md: a provider that closes before replying is told as such, and
\* "client_closed" is for a client that went away (none does here).
ProviderClosesAreTold == dialer.end \notin {"client_closed", "internal"}
=============================================================================
