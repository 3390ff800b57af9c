---------------------------- MODULE MCConnection -----------------------------
(* What a client's connection meets, for TLC: how its requests are decided    *)
(* upon, how connections are made for them (answers of up to four of ten      *)
(* addresses, and providers that say everything, stop early or go on), the    *)
(* exchanges over a kept one, and the sessions that are charged for them.     *)
(* scene says which of them acts.                                             *)
EXTENDS MCRelay, Dial, Requests, Exchange

VARIABLE scene

Address(v6, form, leads) == [v6 |-> v6, form |-> form, leads |-> leads]
MCAddresses ==
  {Address(FALSE, "plain", "out"), Address(FALSE, "plain", "private"), Address(FALSE, "plain", "self"),
   Address(TRUE, "plain", "out"), Address(TRUE, "plain", "ours"), Address(TRUE, "gateway", "private"),
   Address(TRUE, "gateway", "ours"), Address(TRUE, "mapped", "self"), Address(TRUE, "local", "private"),
   Address(TRUE, "local", "out")}
MCLookups == UNION {[1 .. n -> MCAddresses] : n \in 0 .. 2} \cup
  {<<Address(TRUE, "plain", "out"), Address(TRUE, "plain", "ours"), Address(FALSE, "plain", "out")>>,
   <<Address(FALSE, "plain", "out"), Address(FALSE, "plain", "private"), Address(FALSE, "plain", "out"),
     Address(TRUE, "plain", "out")>>}

Way(route, kind, creds, allow, mine) ==
  [route |-> route, kind |-> kind, creds |-> creds, allow |-> allow, mine |-> mine]
MCWays ==
  {Way("direct", "connect", "none", allow, mine) : allow \in BOOLEAN, mine \in BOOLEAN} \cup
  {Way("socks5", kind, creds, FALSE, FALSE) : kind \in {"connect", "http"}, creds \in {"none", "fit", "long"}} \cup
  {Way("http-connect", "connect", "none", FALSE, mine) : mine \in BOOLEAN}

Socks(version, method, pass, rep, bound, sends) ==
  [version |-> version, method |-> method, pass |-> pass, rep |-> rep, bound |-> bound,
   head |-> "ok", frame |-> "length", pieces |-> 0, sends |-> sends]
Http(first, frame, pieces, sends) ==
  [Socks(TRUE, "none", TRUE, 0, TRUE, sends) EXCEPT !.head = first, !.frame = frame, !.pieces = pieces]
SocksOffers ==
  {Socks(version, method, pass, rep, bound, sends) :
     version \in BOOLEAN, method \in {"none", "password", "other"}, pass \in BOOLEAN, rep \in {0, 5},
     bound \in BOOLEAN, sends \in {2, 5}}
HttpOffers ==
  {Http(first, frame, pieces, sends) : first \in {"ok", "refused", "bare", "junk"},
     frame \in {"length", "chunked", "close"}, pieces \in {0, 1, 3}, sends \in {1, 3, 5}}
MCOffers == SocksOffers \cup HttpOffers

\* Hosts that the rules tell apart: a site by its name or address, the address spelled another
\* way or carried by an IPv6 one, an API past the provider, and this machine, spelled two ways.
MCCanonical == [site |-> "site", odd |-> "site", nat64 |-> "nat64", api |-> "api", local |-> "local", loop |-> "local"]
MCEmbedded == [site |-> "none", nat64 |-> "site", api |-> "none", local |-> "none"]
MCSelfHosts == {"local"}
Setup(listener, token, require, upstream, own, deny, tripped) ==
  [listener |-> listener, token |-> token, require |-> require, upstream |-> upstream, own |-> own,
   deny |-> deny, direct |-> {"api"}, tripped |-> tripped]
Ask(form, host, mine, headers) ==
  [form |-> form, host |-> host, mine |-> mine, headers |-> headers, safe |-> TRUE, both |-> FALSE, old |-> FALSE]
Authorized(value) == Header("proxy-authorization", value)
TargetHost == Header("host", "target")
\* Every decision, of short heads.
Decisions ==
  {[setup |-> s, ask |-> a] :
     s \in {Setup(listener, token # "no", token = "require", upstream, own, deny, tripped) :
              listener \in {"main", "auth"}, token \in {"no", "yes", "require"},
              upstream \in {"none", "http-connect", "socks5"}, own \in BOOLEAN, deny \in {{}, {"site"}}, tripped \in BOOLEAN},
     a \in {Ask(form, host, mine, headers) :
              form \in {"connect", "http"}, host \in DOMAIN MCCanonical, mine \in BOOLEAN,
              headers \in {<<TargetHost>>} \cup {<<TargetHost, Authorized(v)>> : v \in Presented}}}
\* Every head of up to three headers beside Host, of a few requests.
Headers ==
  {Connection(o) : o \in {{"close", "x-hop"}, {"x-hop", "proxy-authorization", "te"}}}
    \cup {Header(n, "any") : n \in {"x-hop", "keep-alive", "proxy-connection", "te", "accept"}}
    \cup {Authorized(v) : v \in {"token", "basic"}} \cup {Header("host", "foreign")}
Heads ==
  {[setup |-> Setup("main", token, FALSE, "http-connect", TRUE, {}, FALSE),
    ask |-> [Ask(form, "site", FALSE, headers) EXCEPT !.both = both, !.safe = safe, !.old = old]] :
     token \in BOOLEAN, form \in {"connect", "http"}, both \in BOOLEAN, safe \in BOOLEAN, old \in BOOLEAN,
     headers \in UNION {[1 .. n -> Headers] : n \in 1 .. 3}}
Forms == {[setup |-> Setup("main", FALSE, FALSE, "none", FALSE, {}, FALSE), ask |-> Ask(form, "site", FALSE, <<TargetHost>>)] :
            form \in {"https", "origin", "bad"}}
MCCases == Decisions \cup Heads \cup Forms

RequestKind(old, expects, shuts, parts) == [old |-> old, expects |-> expects, shuts |-> shuts, parts |-> parts]
AnswerKind(frame, coded, keeps, parts) == [frame |-> frame, coded |-> coded, keeps |-> keeps, parts |-> parts]
MCRequestKinds ==
  {RequestKind(FALSE, FALSE, FALSE, 0), RequestKind(FALSE, TRUE, FALSE, 1), RequestKind(TRUE, FALSE, TRUE, 1),
   RequestKind(FALSE, FALSE, TRUE, 0)}
MCAnswerKinds ==
  {AnswerKind("length", FALSE, TRUE, 1), AnswerKind("chunked", TRUE, TRUE, 1), AnswerKind("chunked", FALSE, FALSE, 1),
   AnswerKind("close", FALSE, FALSE, 1)}

\* One of S where it does not matter.
OneOf(S) == {CHOOSE x \in S : TRUE}
SceneInit ==
  /\ scene \in {"session", "dial", "request", "exchange"} /\ Init /\ InitExchange
  /\ way \in (IF scene = "dial" THEN Ways ELSE OneOf(Ways))
  /\ answer \in (IF scene = "dial" /\ way.route = "direct" THEN Lookups ELSE OneOf(Lookups))
  /\ offer \in (CASE scene = "dial" /\ way.route = "socks5" -> Offers \cap SocksOffers
                  [] scene = "dial" /\ way.route = "http-connect" -> Offers \cap HttpOffers
                  [] OTHER -> OneOf(Offers))
  /\ InitDial
  /\ case \in (IF scene = "request" THEN Cases ELSE OneOf(Forms))
  /\ InitRequest
SceneNext ==
  \/ scene = "session" /\ Next /\ UNCHANGED <<scene, dialVars, requestVars, exchangeVars>>
  \/ scene = "dial" /\ NextDial /\ UNCHANGED <<scene, vars, requestVars, exchangeVars>>
  \/ scene = "request" /\ NextRequest /\ UNCHANGED <<scene, vars, dialVars, exchangeVars>>
  \/ scene = "exchange" /\ NextExchange /\ UNCHANGED <<scene, vars, dialVars, requestVars>>
SceneSpec == SceneInit /\ [][SceneNext]_<<scene, vars, dialVars, requestVars, exchangeVars>>
=============================================================================
