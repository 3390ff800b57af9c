------------------------------ MODULE MCBudget ------------------------------
(* Relay under a budget, for TLC, in one of two instances: tunnels through a *)
(* provider in two records, or direct ones in three, of which the last is    *)
(* opened after a trip that came while a kept session was being closed.      *)
EXTENDS MCRelay

VARIABLE scene

AllRoutes == BudgetRoutes @@ TripRoutes
AllHosts  == DOMAIN AllRoutes
Asked     == IF scene = "setup" THEN BudgetHosts ELSE TripHosts
Rooms     == IF scene = "setup" THEN 2 ELSE 3

\* The next state keeps to the scene.
Within ==
  /\ \A c \in Clients : conn'[c].pc \notin {"done", "reading"} => conn'[c].host \in Asked
  /\ meter'.next + Cardinality(Waiting') <= Rooms + 1

BudgetInit == scene \in {"setup", "trip"} /\ Init
BudgetNext == Next /\ Within /\ UNCHANGED scene
BudgetSpec == BudgetInit /\ [][BudgetNext]_<<vars, scene>>
=============================================================================
