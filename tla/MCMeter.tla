------------------------------ MODULE MCMeter -------------------------------
(* The meter, its timeline and the race of connection attempts for TLC, one  *)
(* at a time: scene says which one acts.  Two records on a billed and a      *)
(* non-billed route; one byte or two at a time reach the cap, the warning    *)
(* and the budget exactly, past them, or two of them at once.                *)
EXTENDS Meter, Timeline, Race

VARIABLE scene

MCRoutes == {"http-connect", "non-target"}
MCChunks == {1, 2}
MCEndings == {"ok"}
MCTimes == {0, 1, 3, 4, 7}

SceneInit == scene \in {"meter", "timeline", "race"} /\ Init /\ InitTimeline /\ InitRace
SceneNext ==
  \/ scene = "meter" /\ Next /\ UNCHANGED <<scene, timelineVars, raceVars>>
  \/ scene = "timeline" /\ NextTimeline /\ UNCHANGED <<scene, vars, raceVars>>
  \/ scene = "race" /\ NextRace /\ UNCHANGED <<scene, vars, timelineVars>>
SceneSpec == SceneInit /\ [][SceneNext]_<<scene, vars, timelineVars, raceVars>>
=============================================================================
