----------------------------- MODULE MCAttribution -----------------------------
(* Attribution for TLC: an address with two spellings, a catalogued host, one   *)
(* that is denied and this machine; two contexts with a page each, requests     *)
(* with unknown sizes, a WebSocket, Firefox and an HTTP client.                 *)
EXTENDS Attribution

Kind(source, context, name, main, type, wireBytes, reported) ==
  [source |-> source, context |-> context, name |-> name, main |-> main, type |-> type,
   wire |-> wireBytes, reported |-> reported, headers |-> TRUE, body |-> TRUE, firefox |-> FALSE]

Page(context) == Kind("playwright", context, "a", TRUE, "document", 4, 4)
Script  == [Kind("playwright", "x", "a'", FALSE, "script", 5, 3) EXCEPT !.headers = FALSE]
Claims  == Kind("playwright", "x", "a", FALSE, "unreported", 1, 1)
Socket  == Kind("playwright", "x", "b", FALSE, "websocket", 1, 9)
Fox     == [Kind("playwright", "x", "a", FALSE, "script", 1, 9) EXCEPT !.firefox = TRUE]
Chunked == [Kind("requests", "none", "a'", FALSE, "http_client", 9, 1) EXCEPT !.body = FALSE]
Barred  == Kind("requests", "none", "d", FALSE, "http_client", 0, 0)
Local   == Kind("requests", "none", "l", FALSE, "http_client", 2, 2)

Plan(requests, tunnelCount, time, noise, observes, trips) ==
  [requests |-> requests, tunnels |-> tunnelCount, time |-> time, noise |-> noise,
   observes |-> observes, trips |-> trips, tokenless |-> FALSE]

MCPlans ==
  { Plan(<<Page("x"), Page("x"), Page("x")>>, 1, 3, 0, {}, FALSE),
    Plan(<<Page("x"), Page("y"), Page("x")>>, 1, 2, 0, {}, FALSE),
    Plan(<<Page("x"), Script, Socket>>, 2, 0, 0, {}, FALSE),
    Plan(<<Script, Claims>>, 2, 1, 0, {"attach"}, FALSE),
    Plan(<<Chunked, Script>>, 2, 1, 0, {"attach"}, FALSE),
    Plan(<<Fox, Script>>, 1, 1, 0, {"launch"}, FALSE),
    Plan(<<Barred, Local>>, 1, 3, 0, {}, TRUE),
    Plan(<<Barred, Barred>>, 2, 0, 0, {}, FALSE),
    [Plan(<<Script, Barred>>, 1, 2, 0, {}, TRUE) EXCEPT !.tokenless = TRUE],
    Plan(<<Script, Barred>>, 2, 2, 0, {}, TRUE),
    Plan(<<Script, Claims>>, 1, 0, 2, {"attach", "launch"}, FALSE) }
MCCanon == [n \in {"a", "a'", "b", "d", "l"} |-> IF n = "a'" THEN "a" ELSE n]
MCTypeOrder == <<"document", "http_client", "other", "script", "unreported", "websocket">>
=============================================================================
