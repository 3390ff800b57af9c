------------------------------ MODULE Requests -------------------------------
(***************************************************************************)
(* forwarder/server.py: what becomes of one request head.  It is read, and *)
(* a missing Host put in; decided upon, in a fixed order of checks; and    *)
(* written for the provider or the target with other credentials and       *)
(* without what belongs to the client's connection only.                   *)
(*                                                                         *)
(* A header is a name, a value and, of Connection, the options it lists    *)
(* (their order is left out).  The value of Host says whether it names the *)
(* target, of Proxy-Authorization the kind of credentials.  Of an          *)
(* authority there is its host, in some spelling, and whether its port is  *)
(* one the meter has.                                                      *)
(***************************************************************************)
EXTENDS Naturals, Sequences, Picking

CONSTANTS
  Cases,      \* pairs of a setup and a request: see IsSetup, IsAsk
  Canonical,  \* Canonical[h]: the one spelling of host h
  Embedded,   \* Embedded[h]: the IPv4 address that the canonical h stands for, or "none"
  SelfHosts   \* the canonical hosts that name this machine

Presented == {"token", "mapped", "badtoken", "basic", "other"}

\* own: the provider's URL has credentials.  deny, direct: the hosts that the rules match.
IsSetup(s) ==
  /\ s.listener \in {"main", "auth"} /\ s.token \in BOOLEAN /\ s.require \in BOOLEAN
  /\ s.require => s.token
  /\ s.upstream \in {"none", "http-connect", "socks5"} /\ s.own \in BOOLEAN
  /\ s.deny \subseteq DOMAIN Embedded /\ s.direct \subseteq DOMAIN Embedded /\ s.tripped \in BOOLEAN

\* form: of the request target; "bad": no authority can be read of it.  safe: the
\* authority can be written into a header.  both: it has two framings.  old: it is of HTTP/1.0.
IsAsk(a) ==
  /\ a.form \in {"connect", "http", "https", "origin", "bad"} /\ a.host \in DOMAIN Canonical
  /\ a.mine \in BOOLEAN /\ a.safe \in BOOLEAN /\ a.both \in BOOLEAN /\ a.old \in BOOLEAN
  /\ a.headers \in Seq({a.headers[i] : i \in DOMAIN a.headers})
  /\ \A i \in DOMAIN a.headers :
       LET h == a.headers[i]
       IN  /\ h = [name |-> h.name, value |-> h.value, options |-> h.options]
           /\ h.name = "proxy-authorization" => h.value \in Presented
           /\ h.name = "host" => h.value \in {"target", "foreign"}
           /\ h.name # "connection" => h.options = {}

ASSUME RequestsAssumption ==
  /\ Canonical \in [DOMAIN Canonical -> DOMAIN Embedded]
  /\ Embedded \in [DOMAIN Embedded -> DOMAIN Embedded \cup {"none"}] /\ "none" \notin DOMAIN Embedded
  /\ SelfHosts \subseteq DOMAIN Embedded
  /\ \A c \in Cases : IsSetup(c.setup) /\ IsAsk(c.ask)

VARIABLES
  case,     \* the setup and the request, of Cases
  step,     \* what was done last: "raw", "read", "decided", "sent"
  injected, \* the Host header was put in
  verdict,  \* the refusal, or the route with the credentials to present
  head      \* the headers as they go out

requestVars == <<case, step, injected, verdict, head>>
setup == case.setup
ask == case.ask

NoCreds == [auth |-> "none", header |-> "none", socks |-> "none", plain |-> FALSE]
NoVerdict == [refused |-> "none", counted |-> "none", route |-> "none", creds |-> NoCreds, denied |-> FALSE]

InitRequest == step = "raw" /\ injected = FALSE /\ verdict = NoVerdict /\ head = <<>>

Places(h, name) == {i \in DOMAIN h : h[i].name = name}
Values(h, name) == [k \in 1 .. Cardinality(Places(h, name)) |-> Picked(h, Places(h, name))[k].value]
Header(name, value) == [name |-> name, value |-> value, options |-> {}]
Connection(options) == [name |-> "connection", value |-> "any", options |-> options]
Refusal(code, counted) == [NoVerdict EXCEPT !.refused = code, !.counted = counted]

-----------------------------------------------------------------------------
(* The checks.                                                              *)

\* The provider's own credentials, when the client gave none.
Inject ==
  IF setup.upstream # "none" /\ setup.own
  THEN [NoCreds EXCEPT !.auth = "injected", !.header = "own", !.socks = "own"] ELSE NoCreds
Passes(value, socks) == [NoCreds EXCEPT !.auth = "passthrough", !.header = value, !.socks = socks, !.plain = socks = "none"]

\* The credential table: a refusal's name, or what to present.
Credentials ==
  LET given == Values(ask.headers, "proxy-authorization")
      Told(code) == [refused |-> code, creds |-> NoCreds]
      With(creds) == [refused |-> "none", creds |-> creds]
  IN  CASE given = <<>> /\ setup.listener = "auth" -> Told("auth-challenge")
        [] given = <<>> /\ setup.listener # "auth" -> IF setup.require THEN Told("token-required") ELSE With(Inject)
        [] given # <<>> /\ setup.token /\ given[1] = "badtoken" -> Told("bad-token")
        [] given # <<>> /\ setup.token /\ given[1] = "token" -> With(Inject)
        [] given # <<>> /\ setup.token /\ given[1] = "mapped" ->
             With([NoCreds EXCEPT !.auth = "token-mapped", !.header = "user", !.socks = "user"])
        [] OTHER -> IF setup.require THEN Told("token-required")
                    ELSE With(Passes(given[1], IF given[1] = "other" THEN "none" ELSE given[1]))

IsSelfHost(h) == h \in SelfHosts
Matches(rules, h) == h \in rules
\* What the deny rules are asked: the address that the host stands for, too.
DenyMatches(h) == Matches(setup.deny, h) \/ (Embedded[h] # "none" /\ Matches(setup.deny, Embedded[h]))

Route(h) == IF Matches(setup.direct, h) THEN "non-target" ELSE IF setup.upstream = "none" THEN "direct" ELSE setup.upstream

Decide ==
  LET h == Canonical[ask.host]
      c == Credentials
  IN  CASE ask.form = "bad" -> Refusal("bad-request", "bad_request")
        [] ask.form = "https" -> Refusal("https-absolute-form", "https_absolute_form")
        [] ask.form = "origin" -> Refusal("bare", "origin_form")
        [] OTHER ->
           CASE ask.form = "http" /\ ask.both -> Refusal("bad-request", "bad_request")
             [] ~(ask.form = "http" /\ ask.both) /\ ask.mine /\ IsSelfHost(h) -> Refusal("self-loop", "self_loop")
             [] OTHER ->
                IF c.refused # "none" THEN Refusal(c.refused, c.refused)
                ELSE IF setup.tripped THEN Refusal("budget", "budget")
                ELSE IF DenyMatches(h) THEN [Refusal("denied", "none") EXCEPT !.denied = TRUE]
                ELSE [NoVerdict EXCEPT !.route = Route(h),
                        !.creds = IF Route(h) \in {"direct", "non-target"} THEN NoCreds ELSE c.creds]

-----------------------------------------------------------------------------
(* The head that goes out.                                                  *)

Earliest(S) == {i \in S : \A j \in S : i <= j}

NeverStripped == {"host", "content-length", "transfer-encoding", "proxy-authorization", "upgrade", "te"}
KeptOptions == {"close", "upgrade", "te"}
Listed(h) == UNION {h[i].options : i \in DOMAIN h}
StripHopByHop(h) ==
  LET connection == Places(h, "connection")
      drop == {"keep-alive", "proxy-connection"} \cup (Listed(h) \ NeverStripped)
      kept == Listed(h) \cap KeptOptions
      first == IF kept = {} THEN {} ELSE Earliest(connection)
      rest == {i \in DOMAIN h \ connection : h[i].name \notin drop}
  IN  Picked([i \in DOMAIN h |-> IF i \in first THEN Connection(kept) ELSE h[i]], first \cup rest)

\* Only the first is looked at (a mutant).
ReplacedFirst(h, name, value) ==
  LET places == Places(h, name)
  IN  IF places = {} THEN (IF value = "none" THEN h ELSE Append(h, Header(name, value)))
      ELSE IF value = "none" THEN Picked(h, DOMAIN h \ Earliest(places))
      ELSE [i \in DOMAIN h |-> IF i \in Earliest(places) THEN Header(name, value) ELSE h[i]]
\* The value in the place of the first header of that name, or at the end; or none at all.
Replaced(h, name, value) ==
  LET places == Places(h, name)
      gone == IF value = "none" THEN places ELSE places \ Earliest(places)
      put == [i \in DOMAIN h |-> IF i \in places THEN Header(name, value) ELSE h[i]]
  IN  IF places # {} THEN Picked(put, DOMAIN h \ gone)
      ELSE IF value = "none" THEN h ELSE Append(h, Header(name, value))
ReplaceProxyAuthorization(h, value) == Replaced(h, "proxy-authorization", value)

SetHost(h) ==
  IF Places(h, "host") = {} THEN <<Header("host", "target")>> \o h
  ELSE Replaced(h, "host", "target")

ConnectHead(h, value) ==
  ReplaceProxyAuthorization(IF injected /\ h # <<>> THEN SubSeq(h, 1, Len(h) - 1) ELSE h, value)
RequestHead(h) ==
  SetHost(ReplaceProxyAuthorization(StripHopByHop(h), IF verdict.route = "http-connect" THEN verdict.creds.header ELSE "none"))

-----------------------------------------------------------------------------
(* The steps.                                                               *)

\* h11 wants one Host of an HTTP/1.1 client: a missing one is put in, last, where that can be done.
ReadsRequest ==
  LET hosts == Len(Values(ask.headers, "host"))
      injects == hosts = 0 /\ ~ask.old /\ ask.safe /\ ask.form \in {"connect", "http"}
  IN  /\ step = "raw" /\ step' = "read"
      /\ injected' = injects
      /\ head' = IF injects THEN Append(ask.headers, Header("host", "target")) ELSE ask.headers
      /\ verdict' = IF hosts = 1 \/ injects \/ (hosts = 0 /\ ask.old) THEN NoVerdict ELSE Refusal("bad-request", "bad_request")
      /\ UNCHANGED case

Decides ==
  /\ step = "read" /\ verdict.refused = "none"
  /\ step' = "decided" /\ verdict' = Decide
  /\ UNCHANGED <<case, injected, head>>

\* A CONNECT goes to an HTTP provider only: elsewhere only its host and port are said.
Sends ==
  /\ step = "decided" /\ verdict.refused = "none"
  /\ step' = "sent"
  /\ head' = CASE ask.form = "http" -> RequestHead(head)
               [] ask.form = "connect" /\ verdict.route = "http-connect" -> ConnectHead(head, verdict.creds.header)
               [] OTHER -> <<>>
  /\ UNCHANGED <<case, injected, verdict>>

NextRequest == ReadsRequest \/ Decides \/ Sends
RequestSpec == case \in Cases /\ InitRequest /\ [][NextRequest]_requestVars

-----------------------------------------------------------------------------
(* Properties.                                                              *)

First(name) == Values(ask.headers, name)[1]
Gave(kinds) == Values(ask.headers, "proxy-authorization") # <<>> /\ First("proxy-authorization") \in kinds
Has(name) == Places(ask.headers, name) # {}

\* The token of the meter goes nowhere, whatever else the client sends; a provider gets one
\* set of credentials, its own only from a client that may use them; a target gets none.
CredentialsStayApart ==
  LET out == Values(head, "proxy-authorization")
      said == {out[i] : i \in DOMAIN out} \cup {verdict.creds.socks}
  IN  step = "sent" =>
        /\ setup.token => said \cap {"token", "mapped", "badtoken"} = {}
        /\ Len(out) <= 1 /\ (verdict.route # "http-connect" => out = <<>>)
        /\ verdict.route \in {"direct", "non-target"} => verdict.creds = NoCreds
        /\ "own" \in said => Gave({"token"}) \/ (~Has("proxy-authorization") /\ setup.listener = "main")
        /\ "user" \in said => Gave({"mapped"})
        /\ setup.require => Gave({"token", "mapped"})
        /\ verdict.route = "http-connect" => (out = <<>> <=> verdict.creds.auth = "none")

\* Nobody learns of the rules or the budget who would not be let in, and no request goes
\* to a host that is denied, by any spelling or by the address that it stands for.
RulesAreKept ==
  LET h == Canonical[ask.host]
      LetIn == IF setup.require THEN Gave({"token", "mapped"})
               ELSE (setup.listener = "main" \/ Has("proxy-authorization")) /\ ~(setup.token /\ Gave({"badtoken"}))
  IN  /\ verdict.refused \in {"denied", "budget"} => LetIn
      /\ verdict.denied <=> verdict.refused = "denied"
      /\ step = "sent" =>
           /\ LetIn /\ ~setup.tripped
           /\ ~(ask.mine /\ h \in SelfHosts)
           /\ {h, Embedded[h]} \cap setup.deny = {}
           /\ verdict.route = "non-target" <=> h \in setup.direct

\* A request that is forwarded has one Host, which is the target's; nothing of the client's
\* own connection; and all the rest as it came.  A CONNECT is the client's but for credentials.
Aside == {"connection", "keep-alive", "proxy-connection", "proxy-authorization", "host"}
Rest(h, aside) == Picked(h, {i \in DOMAIN h : h[i].name \notin aside})
HeadIsClean ==
  LET listed == Listed(ask.headers)
      hop == Aside \cup (listed \ NeverStripped)
  IN  /\ step = "sent" /\ ask.form = "http" =>
           /\ Values(head, "host") = <<"target">>
           /\ Places(head, "keep-alive") \cup Places(head, "proxy-connection") = {}
           /\ Len(Values(head, "connection")) <= 1
           /\ \A i \in Places(head, "connection") : head[i].options = listed \cap KeptOptions
           /\ Rest(head, Aside) = Rest(ask.headers, hop)
      /\ step = "sent" /\ ask.form = "connect" /\ head # <<>> =>
           Rest(head, {"proxy-authorization"}) = Rest(ask.headers, {"proxy-authorization"})

\* What is asked of the meter, and what it asks for in turn.
RequestIsKept == CredentialsStayApart /\ RulesAreKept /\ HeadIsClean
=============================================================================
