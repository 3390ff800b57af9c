----------------------------- MODULE MCHelpers ------------------------------
(* The helper modules and find's two parts for TLC, one at a time: scene says *)
(* which one acts.                                                           *)
EXTENDS Recorder, Hooks, EventWriter, Launches, PageLoad, Verdict, TLC

VARIABLE scene

CONSTANTS r1, r2, w1, t1, t2, child, f1, f2, f3

\* Contexts of two requests, with a mix of ways that the decision has to tell apart.
Plain(via) == [via |-> via, addr |-> "meter", nav |-> FALSE, hop |-> FALSE, script |-> FALSE, net |-> TRUE]
Script(q)  == [q EXCEPT !.script = TRUE]
Hop(q)     == [q EXCEPT !.hop = TRUE]
Old(q)     == [q EXCEPT !.addr = "elsewhere"]
Nav(q)     == [q EXCEPT !.nav = TRUE]
Context(browser, routed, tagged, x, y) ==
  [browser |-> browser, async |-> TRUE, tagged |-> tagged, routed |-> routed,
   sockets |-> {}, reqs |-> r1 :> x @@ r2 :> y]
MCContexts ==
  {Context(b, FALSE, TRUE, x, y) : b \in {"chromium", "other"},
     x \in {Nav(Plain("network")), Plain("memory")}, y \in {Plain("disk"), Old(Plain("disk"))}}
  \cup {Context("chromium", TRUE, tag, x, Plain("network")) : tag \in BOOLEAN,
          x \in {Plain("fulfilled"), Plain("aborted"), Plain("fallback")}}
  \cup {Context("firefox", FALSE, tag, Plain("disk"), Hop(Plain("network"))) : tag \in BOOLEAN}
  \cup {Context("chromium", FALSE, TRUE, Plain("blocked"), [Plain("network") EXCEPT !.net = FALSE]),
        Context("chromium", FALSE, TRUE, Plain("worker"), Nav(Plain("fallback"))),
        Context("chromium", FALSE, TRUE, Script(Plain("network")), Hop(Plain("memory"))),
        Context("chromium", FALSE, TRUE, Nav(Plain("network")), Script(Plain("network"))),
        Context("chromium", FALSE, TRUE, Script(Plain("disk")), Hop(Plain("disk"))),
        [Context("chromium", FALSE, TRUE, Plain("disk"), Plain("disk")) EXCEPT !.async = FALSE],
        [Context("chromium", FALSE, TRUE, [Plain("network") EXCEPT !.net = FALSE], Plain("disk"))
           EXCEPT !.sockets = {w1}]}

\* Two exchanges: of one send or of two, with one request object or with two, the
\* first with a body of two chunks, the second bodiless; and empty or short bodies.
Job(c, send, object, body) ==
  [client |-> c, send |-> send, object |-> object, body |-> body, bodiless |-> <<FALSE, FALSE>>,
   early |-> <<FALSE, FALSE>>, chunked |-> <<FALSE, FALSE>>]
MCJobs ==
  {[Job(c, s, o, <<2, 0>>) EXCEPT !.bodiless = <<FALSE, TRUE>>, !.chunked = k] :
     c \in {"requests", "httpx"}, s \in {<<1, 1>>, <<1, 2>>}, o \in {<<1, 1>>, <<1, 2>>},
     k \in {<<FALSE, FALSE>>, <<TRUE, TRUE>>}}
  \cup {Job("requests", <<1, 2>>, <<1, 2>>, <<0, 1>>),
        [Job("httpx", <<1, 2>>, <<1, 2>>, <<1, 1>>) EXCEPT !.early = <<TRUE, FALSE>>]}

MCHabits == {{"forks", "renames"}, {"forks", "opens"}, {"forks", "fills"}, {"opens", "fills"},
             {"renames", "opens"}, {"forgets"}}

\* Providers: one with credentials, one that trusts this machine, a local relay; and what else a
\* variable may hold: the same in other words, its host or credentials elsewhere, another proxy.
Gate(scheme, port, spelling, creds) == Url(scheme, "gate", port, spelling, creds)
Providers == {Gate("http", 1, "plain", "mine"), Gate("socks5", 1, "plain", "none"), Url("http", "local", 1, "plain", "mine")}
Near(u) ==
  {u, [u EXCEPT !.spelling = "odd"], [u EXCEPT !.spelling = "alias"], [u EXCEPT !.scheme = "socks5h"],
   [u EXCEPT !.scheme = "https"], [u EXCEPT !.port = 2], [u EXCEPT !.creds = "other"], [u EXCEPT !.host = "else"],
   [u EXCEPT !.host = "else", !.creds = "other"], Url("junk", "none", 0, "plain", "none"), MeterUrl, NoUrl}
Start(mode, var, all, e, auth, logs, proxies) ==
  [mode |-> mode, var |-> var, all |-> all, env |-> e, auth |-> auth, events |-> logs, proxies |-> proxies]
Bare == [n \in Names |-> NoUrl]
Environments(u, var) ==
  {[[[Bare EXCEPT ![n] = x] EXCEPT ![m] = y] EXCEPT ![var] = u] : n \in Names, m \in {"https_proxy", "SETTING"}, x \in Near(u), y \in Near(u)}
Wants(u, user) == [server |-> u, user |-> user]
SomeProxies ==
  {NoProxy, Wants(Gate("http", 1, "odd", "none"), "mine"), Wants(Gate("http", 2, "plain", "none"), "mine"),
   Wants(Url("http", "else", 1, "plain", "none"), "other"), Wants(AuthUrl, "other"), Wants(NoUrl, "other")}
Alone == Start("alone", "none", FALSE, Bare, FALSE, FALSE, {NoProxy, Wants(AuthUrl, "other")})
FewProxies == {p \in SomeProxies : p.server # AuthUrl /\ p.server.port # 2}
MCStarts ==
  {Alone} \cup UNION {{Start("run", var, all, e, TRUE, TRUE, {}) : all \in BOOLEAN, e \in Environments(u, var)} :
           u \in Providers, var \in {"HTTPS_PROXY", "MY_PROXY"}} \cup
  {Start("run", "HTTPS_PROXY", FALSE, [Bare EXCEPT !["HTTPS_PROXY"] = Gate("http", 1, "plain", "mine")], TRUE, TRUE, SomeProxies),
   Start("direct", "none", TRUE, Bare, TRUE, TRUE, FewProxies),
   Start("serve", "none", FALSE, Bare, TRUE, TRUE, FewProxies), Start("serve", "none", FALSE, Bare, FALSE, FALSE, FewProxies)}

\* Pages: of the site alone; with an answer of the meter's own and a look-alike, to one host or
\* two; with a request that is not of the network, or with a URL that cannot be read.
Site(scheme) == [scheme |-> scheme, host |-> 1, by |-> "site", code |-> "none"]
Meters(code, what) == [scheme |-> "http", host |-> 1, by |-> "meter", code |-> code, record |-> what]
Alike(scheme, host, code) == [scheme |-> scheme, host |-> host, by |-> "look-alike", code |-> code]
MCPages ==
  {f1 :> Site("https") @@ f2 :> Site("https") @@ f3 :> Site("data")}
  \cup {f1 :> x @@ f2 :> y :
          x \in {Meters("budget", "count"), Meters("denied", "denied"), Meters("self-loop", "self-loop"),
                 Meters("self-loop", "count"), Meters("upstream-closed", "upstream-reset"),
                 Meters("bad-request", "count"), Site("odd"), Site("data")},
          y \in {Site("http"), Alike("http", 1, "denied"), Alike("http", 2, "unheard"), Alike("https", 1, "budget")}}

\* Responses of two values: of the page itself, with its cookies, of an API with a token header,
\* a POST, an error; and copies of the cache and of a service worker.
Seen(url, kinds, size) ==
  [url |-> url, method |-> "GET", https |-> FALSE, status |-> 200, from |-> {}, carried |-> {},
   size |-> size, kinds |-> kinds]
Both == <<"match", "match">>
One  == <<"match", "weak">>
MCResponses ==
  {Seen(1, Both, 9), Seen(1, One, 3), [Seen(1, Both, 0) EXCEPT !.from = {"cache"}],
   [Seen(2, Both, 2) EXCEPT !.carried = {"cookies"}, !.https = TRUE], [Seen(2, Both, 5) EXCEPT !.carried = {"token header"}],
   [Seen(2, One, 2) EXCEPT !.carried = {"cookies", "authorization"}], [Seen(3, Both, 1) EXCEPT !.method = "POST"],
   [Seen(3, One, 1) EXCEPT !.status = 404], [Seen(3, Both, 0) EXCEPT !.from = {"worker"}], Seen(4, <<"weak", "none">>, 1),
   Seen(4, <<>>, 1), [Seen(5, One, 1) EXCEPT !.carried = {"cookies"}], [Seen(6, Both, 4) EXCEPT !.carried = {"token in URL"}]}
MCLoads == {<<x, y, z>> : x \in MCResponses, y \in MCResponses, z \in MCResponses} \cup {<<>>}

Reply(by, status, kinds) ==
  [by |-> by, status |-> status, marked |-> by = "meter", shown |-> by = "meter", coding |-> "known",
   kinds |-> kinds, chunks |-> <<[raw |-> 1, out |-> 1, bad |-> FALSE]>>]
Chunked(r, chunks) == [r EXCEPT !.chunks = chunks]
Part(raw, out) == [raw |-> raw, out |-> out, bad |-> FALSE]
MCReplies ==
  {Reply("site", 200, k) : k \in {Both, One, <<"weak", "weak">>}} \cup
  {Reply("site", 403, One), Reply("site", 502, One), Reply("meter", 503, <<"none", "none">>),
   [Reply("meter", 502, <<"none", "none">>) EXCEPT !.shown = FALSE], [Reply("site", 200, Both) EXCEPT !.marked = TRUE],
   Reply("proxy", 407, <<"none", "none">>), Reply("proxy", 504, <<"none", "none">>),
   [Reply("site", 200, Both) EXCEPT !.coding = "other"], Chunked(Reply("site", 200, Both), <<Part(1, 2), Part(1, 1)>>),
   Chunked(Reply("site", 200, Both), <<Part(1, 9)>>), Chunked(Reply("site", 404, Both), <<Part(2, 2), Part(2, 2)>>),
   Chunked(Reply("site", 200, Both), <<Part(1, 1), [raw |-> 1, out |-> 0, bad |-> TRUE]>>)}

First(S) == CHOOSE x \in S : TRUE

\* All of S in a scene of its own, one of S elsewhere.
In(own, S) == IF scene = own THEN S ELSE {First(S)}

Init ==
  /\ scene \in {"browser", "client", "file", "launch", "find", "verdict"}
  /\ context \in In("browser", Contexts)
  /\ doing \in In("client", Jobs)
  /\ habits \in In("file", Habits)
  /\ start \in (IF scene = "launch" THEN Starts ELSE {Alone})
  /\ asks \in In("find", Pages)
  /\ seen \in In("verdict", Loads)
  /\ InitRecorder /\ InitHooks /\ InitWriter /\ InitLaunches /\ InitLoad /\ InitVerdict

Next ==
  \/ scene = "browser" /\ NextRecorder /\ UNCHANGED <<scene, hooksVars, writerVars, launchVars, loadVars, verdictVars>>
  \/ scene = "client" /\ NextHooks /\ UNCHANGED <<scene, recorderVars, writerVars, launchVars, loadVars, verdictVars>>
  \/ scene = "file" /\ NextWriter /\ UNCHANGED <<scene, recorderVars, hooksVars, launchVars, loadVars, verdictVars>>
  \/ scene = "launch" /\ NextLaunches /\ UNCHANGED <<scene, recorderVars, hooksVars, writerVars, loadVars, verdictVars>>
  \/ scene = "find" /\ NextLoad /\ UNCHANGED <<scene, recorderVars, hooksVars, writerVars, launchVars, verdictVars>>
  \/ scene = "verdict" /\ NextVerdict /\ UNCHANGED <<scene, recorderVars, hooksVars, writerVars, launchVars, loadVars>>

Spec == Init /\ [][Next]_<<scene, recorderVars, hooksVars, writerVars, launchVars, loadVars, verdictVars>>
=============================================================================
