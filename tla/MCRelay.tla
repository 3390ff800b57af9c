------------------------------ MODULE MCRelay -------------------------------
(* Relay for TLC.  a and d are hosts behind an HTTP CONNECT provider, b one  *)
(* behind a SOCKS5 provider, e and n go direct or past it, x is denied.  A   *)
(* forwarder has one provider; the hosts of both kinds in one instance only  *)
(* save a run.                                                               *)
EXTENDS Relay, TLC
MCKinds == {"connect", "http"}
BudgetRoutes == [a |-> "http-connect", b |-> "socks5"]
BudgetHosts == DOMAIN BudgetRoutes
TripRoutes == [e |-> "direct"]
TripHosts == DOMAIN TripRoutes
LiveRoutes == [b |-> "socks5"]
LiveHosts == DOMAIN LiveRoutes
SessionRoutes == [a |-> "http-connect", d |-> "http-connect", n |-> "non-target", x |-> "denied"]
SessionHosts == DOMAIN SessionRoutes

AnyClient == Permutations(Clients)
=============================================================================
