------------------------------ MODULE Launches -------------------------------
(***************************************************************************)
(* config.py and helpers/playwright.py: how a job's traffic is led to the  *)
(* meter.  The run rewrites the job's proxy variables and names those that *)
(* it leaves; inside the job the helper rewrites the proxies of browsers   *)
(* and contexts, and counts each browser once.                             *)
(*                                                                         *)
(* A URL is its parts.  Its spelling is "plain", "odd" (other text, parsed *)
(* to the same) or "alias" (its address written another way, which only    *)
(* the canonical form shows).                                              *)
(***************************************************************************)
EXTENDS Naturals, Sequences, FiniteSets

CONSTANTS
  Starts,     \* how jobs are started: see IsStart
  BrowserIds,
  MaxContexts \* bound

Standard == {"HTTP_PROXY", "http_proxy", "HTTPS_PROXY", "https_proxy", "ALL_PROXY"}
ProxyNames == Standard \cup {"MY_PROXY"}
Names == ProxyNames \cup {"SETTING"}

Url(scheme, host, port, spelling, creds) ==
  [scheme |-> scheme, host |-> host, port |-> port, spelling |-> spelling, creds |-> creds]
NoUrl == Url("none", "none", 0, "plain", "none")
MeterUrl == Url("http", "meter", 1, "plain", "none")
AuthUrl == Url("http", "meter", 2, "plain", "none")
MeterUrls == {MeterUrl, AuthUrl}

\* A proxy= setting: where it leads and the credentials given for it.
NoProxy == [server |-> NoUrl, user |-> "none"]

\* mode: "run" of an upstream, "direct", "serve" (the meter's URL is set by hand) or "alone".
\* var: the variable that names the upstream; all: --env-all; auth: the second listener's URL
\* is known; events: so is an events file; proxies: the settings that the script uses.
IsStart(s) ==
  /\ s.mode \in {"run", "direct", "serve", "alone"} /\ s.env \in [Names -> {s.env[n] : n \in Names}]
  /\ s.mode = "run" <=> s.var \in Names
  /\ s.mode = "run" => s.env[s.var].scheme \in {"http", "socks5", "socks5h"} /\ s.env[s.var].host \notin {"none", "meter"}
  /\ \A n \in Names : s.env[n].host = "none" => s.env[n].creds = "none"
  /\ s.all \in BOOLEAN /\ s.auth \in BOOLEAN /\ s.events \in BOOLEAN
  /\ s.mode \in {"run", "direct"} => s.auth /\ s.events

ASSUME LaunchesAssumption == (\A s \in Starts : IsStart(s)) /\ MaxContexts \in Nat

VARIABLES
  start,    \* of Starts
  env,      \* the job's variables
  told,     \* whether the job runs, and what the helper is told: the meter's URLs, an events file, the upstream's fingerprint
  notes,    \* the variables that the run warns of
  launched, \* the browsers of the job
  contexts, \* theirs: of which browser, what was asked for, where it leads, and by whom it was opened
  rerouted, \* _rerouted_servers
  warned    \* _warned_proxy

launchVars == <<start, env, told, notes, launched, contexts, rerouted, warned>>

NoBrowser == [kind |-> "none", asked |-> NoProxy, proxy |-> NoProxy, ours |-> FALSE, wrapped |-> FALSE,
              marks |-> {}, wrote |-> 0]
InitLaunches ==
  /\ env = start.env /\ told = [runs |-> FALSE, meter |-> FALSE, auth |-> FALSE, events |-> FALSE, id |-> <<>>] /\ notes = {}
  /\ launched = [b \in BrowserIds |-> NoBrowser] /\ contexts = <<>> /\ rerouted = {} /\ warned = {}

-----------------------------------------------------------------------------
(* The run: the job's environment.                                          *)

Upstream == start.env[start.var]

\* clean_host leaves an address as it is written.
Endpoint(u) == IF u.host = "none" THEN <<>> ELSE <<u.host, u.spelling = "alias", u.port>>
Identity(u) ==
  IF u.scheme \notin {"http", "socks5", "socks5h"} THEN <<>>
  ELSE <<IF u.scheme = "http" THEN "http-connect" ELSE "socks5", Endpoint(u), u.creds>>
SameUpstream(n, u) == u = Upstream \/ (n \in ProxyNames /\ Identity(u) = Identity(Upstream))

ChildEnv ==
  [n \in Names |->
    IF \/ start.all /\ n \in Standard
       \/ start.mode = "run" /\ (n = start.var \/ SameUpstream(n, start.env[n]))
    THEN MeterUrl ELSE start.env[n]]

\* To the provider past the meter: by its host, or by its credentials.
Unmetered(e) ==
  LET local == Upstream.host = "local"
      SameHost(u) == u.host = Upstream.host /\ (u.port = Upstream.port \/ ~local)
      SameCreds(u) == Upstream.creds # "none" /\ u.creds = Upstream.creds
  IN  {n \in ProxyNames : e[n].host # "none" /\ e[n] \notin MeterUrls /\ (SameHost(e[n]) \/ SameCreds(e[n]))}
Others(e) == {n \in Standard \ {start.var} : e[n] \notin MeterUrls \cup {NoUrl}}

Prepares ==
  /\ ~told.runs
  /\ env' = IF start.mode \in {"run", "direct"} THEN ChildEnv ELSE start.env
  /\ notes' = IF start.mode = "run" THEN Unmetered(env') \cup Others(env') ELSE {}
  /\ told' = [runs |-> TRUE, meter |-> start.mode # "alone", auth |-> start.auth /\ start.mode # "alone", events |-> start.events,
              id |-> IF start.mode = "run" THEN Endpoint(Upstream) ELSE <<>>]
  /\ UNCHANGED <<start, launched, contexts, rerouted, warned>>

-----------------------------------------------------------------------------
(* The helper: proxies.                                                     *)

Endpoints == {Endpoint(u) : u \in IF told.auth THEN MeterUrls ELSE {MeterUrl}}
\* One host is one provider (a mutant).
ForeignHost(server) ==
  /\ told.id # <<>> /\ Endpoint(server) \notin Endpoints
  /\ Endpoint(server) = <<>> \/ Head(Endpoint(server)) # Head(told.id)
\* Not the run's upstream, by the fingerprint; without one nothing is known to be foreign.
Foreign(server) == told.id # <<>> /\ Endpoint(server) \notin Endpoints /\ Endpoint(server) # told.id

Settings(user) == [server |-> IF user # "none" /\ told.auth THEN AuthUrl ELSE MeterUrl, user |-> user]
Rewritten(p) == IF ~told.meter \/ Foreign(p.server) THEN p ELSE Settings(p.user)
\* What rewriting p leaves behind in the process.
Remembers(p) ==
  LET moved == IF ~told.meter \/ Foreign(p.server) THEN {} ELSE {Endpoint(p.server)} \ (Endpoints \cup {<<>>})
      all == rerouted \cup moved
  IN  /\ rerouted' = all
      /\ warned' = warned
           \cup (IF told.meter /\ Foreign(p.server) THEN {"foreign"} ELSE {})
           \cup (IF moved # {} /\ told.id = <<>> /\ Cardinality(all) > 1 THEN {"several"} ELSE {})
Forgets == UNCHANGED <<rerouted, warned>>

-----------------------------------------------------------------------------
(* The helper: browsers.  Of kind "normal", or a persistent context, with   *)
(* its Browser or, of older Playwright versions, "bare".                    *)

\* record_launch(obj): the marks of obj, and of the Browser behind a context.
Marks(obj, kind) == {obj} \cup (IF obj = "context" /\ kind # "bare" THEN {"browser"} ELSE {})
Recorded(w, obj) ==
  IF ~told.events THEN w
  ELSE [w EXCEPT !.wrote = IF Marks(obj, w.kind) \cap w.marks = {} THEN @ + 1 ELSE @,
                 !.marks = @ \cup Marks(obj, w.kind)]
\* instrument(context) counts the Browser behind it.
Instrumented(w) == IF w.kind = "bare" THEN w ELSE Recorded(w, "browser")

Running(b) == told.runs /\ launched[b].kind # "none"
Of(b) == {i \in DOMAIN contexts : contexts[i].of = b}
ContextOf(b, asked, proxy, ours) == [of |-> b, asked |-> asked, proxy |-> proxy, ours |-> ours]

\* launch(browser_type, proxy=p): the browser is counted and wrapped.
Launches(b, p) ==
  LET fresh == [NoBrowser EXCEPT !.kind = "normal", !.asked = p, !.ours = TRUE,
                   !.proxy = IF p # NoProxy THEN Rewritten(p) ELSE IF told.meter THEN Settings("none") ELSE p]
  IN  /\ told.runs /\ ~Running(b)
      /\ launched' = [launched EXCEPT ![b] = [Recorded(fresh, "browser") EXCEPT !.wrapped = told.meter \/ told.events]]
      /\ IF p # NoProxy THEN Remembers(p) ELSE Forgets
      /\ UNCHANGED <<start, env, told, notes, contexts>>
\* The script's own launch, or launch_persistent_context.
LaunchesOwn(b, p, kind) ==
  /\ told.runs /\ ~Running(b)
  /\ kind # "normal" => Len(contexts) < MaxContexts
  /\ launched' = [launched EXCEPT ![b] = [NoBrowser EXCEPT !.kind = kind, !.asked = p, !.proxy = p]]
  /\ contexts' = (IF kind = "normal" THEN contexts ELSE Append(contexts, ContextOf(b, p, p, FALSE)))
  /\ UNCHANGED <<start, env, told, notes, rerouted, warned>>

\* wrap_new_context(browser): the contexts that it has are instrumented.
Wraps(b) ==
  /\ Running(b) /\ launched[b].kind = "normal" /\ ~launched[b].wrapped
  /\ told.meter \/ told.events
  /\ launched' = [launched EXCEPT ![b] = [(IF Of(b) = {} THEN @ ELSE Instrumented(@)) EXCEPT !.wrapped = TRUE]]
  /\ UNCHANGED <<start, env, told, notes, contexts, rerouted, warned>>

\* browser.new_context(proxy=p), or new_page.
OpensContext(b, p) ==
  LET w == launched[b]
      proxy == IF p = NoProxy THEN w.proxy ELSE IF w.wrapped THEN Rewritten(p) ELSE p
  IN  /\ Running(b) /\ w.kind = "normal" /\ Len(contexts) < MaxContexts
      /\ contexts' = Append(contexts, ContextOf(b, IF p = NoProxy THEN w.asked ELSE p, proxy,
                                              w.wrapped /\ (w.ours \/ p # NoProxy)))
      /\ launched' = IF w.wrapped THEN [launched EXCEPT ![b] = Instrumented(w)] ELSE launched
      /\ IF p # NoProxy /\ w.wrapped THEN Remembers(p) ELSE Forgets
      /\ UNCHANGED <<start, env, told, notes>>

InstrumentsContext(b) ==
  /\ Running(b) /\ Of(b) # {}
  /\ launched' = [launched EXCEPT ![b] = Instrumented(@)]
  /\ UNCHANGED <<start, env, told, notes, contexts, rerouted, warned>>
RecordsLaunch(b, obj) ==
  /\ Running(b) /\ IF obj = "browser" THEN launched[b].kind # "bare" ELSE Of(b) # {}
  /\ launched' = [launched EXCEPT ![b] = Recorded(@, obj)]
  /\ UNCHANGED <<start, env, told, notes, contexts, rerouted, warned>>

NextLaunches ==
  \/ Prepares
  \/ \E b \in BrowserIds :
       \/ \E p \in start.proxies : \/ Launches(b, p) \/ OpensContext(b, p)
                                   \/ \E kind \in {"normal", "persistent", "bare"} : LaunchesOwn(b, p, kind)
       \/ Wraps(b) \/ InstrumentsContext(b)
       \/ \E obj \in {"browser", "context"} : RecordsLaunch(b, obj)

LaunchesSpec == start \in Starts /\ InitLaunches /\ [][NextLaunches]_launchVars

-----------------------------------------------------------------------------
(* Properties.                                                              *)

\* In the job's environment, what leads to the upstream leads to the meter, whatever its
\* spelling; no proxy variable has the upstream's host or credentials, and no client reads a
\* proxy of the standard variables, without the run saying so; and nothing else is changed.
EnvironmentIsMetered ==
  start.mode = "run" /\ told.runs =>
    /\ \A n \in Names :
         \/ env[n] = start.env[n] /\ env[n] # Upstream
         \/ env[n] = MeterUrl /\ (n = start.var \/ (start.all /\ n \in Standard) \/ SameUpstream(n, start.env[n]))
    /\ \A n \in ProxyNames \ notes :
         /\ Upstream.creds # "none" => env[n].creds # Upstream.creds
         /\ env[n].host = Upstream.host => Upstream.host = "local" /\ env[n].port # Upstream.port
         /\ n \in Standard => env[n] \in MeterUrls \cup {NoUrl}
    /\ start.all => notes \cap Standard = {}

\* A context that the helper opened in a run leads to the meter, or to a server that is not
\* the run's upstream, and then the helper has said so.  The credentials given for one server
\* go to no other provider: not in a run, and elsewhere not without a warning.
BrowsersAreMetered ==
  LET Led(i) == contexts[i].proxy.server \in MeterUrls
      Asked(i) == Endpoint(contexts[i].asked.server)
      Given == {Asked(i) : i \in {j \in DOMAIN contexts : contexts[j].ours /\ Led(j)}} \ (Endpoints \cup {<<>>})
  IN  /\ \A i \in DOMAIN contexts : contexts[i].ours /\ told.meter =>
           Led(i) \/ (Asked(i) # told.id /\ told.id # <<>> /\ "foreign" \in warned)
      /\ start.mode = "run" => Given \subseteq {told.id}
      /\ Cardinality(Given) > 1 => "several" \in warned
      /\ \A i \in DOMAIN contexts : contexts[i].proxy.user = contexts[i].asked.user

\* A browser is counted once, whoever launched it, in whatever order it, its contexts and
\* its launch are shown to the helper; and it is counted as soon as the helper has seen it.
LaunchesAreCounted ==
  \A b \in BrowserIds :
    /\ launched[b].wrote <= 1
    /\ told.events /\ (launched[b].ours \/ (launched[b].wrapped /\ Of(b) # {})) => launched[b].wrote = 1

\* What a job's report rests on: that its traffic is there to be counted.
JobIsMetered == EnvironmentIsMetered /\ BrowsersAreMetered /\ LaunchesAreCounted
=============================================================================
