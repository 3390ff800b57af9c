------------------------------- MODULE MCLive --------------------------------
(* What must come to an end, for TLC: a client's tunnel in the relay, the    *)
(* runner's wait for its job, a call of the thread that the forwarder lives  *)
(* in.  scene says which of them acts.                                       *)
EXTENDS MCRelay, MCRunner, Lifecycle

VARIABLE scene

InScene(name, A, others) == scene = name /\ A /\ UNCHANGED <<scene, others>>
NotRelay  == <<runnerVars, lifecycleVars>>
NotRunner == <<vars, lifecycleVars>>
NotThread == <<vars, runnerVars>>

SceneNext ==
  \/ InScene("relay", Next, NotRelay)
  \/ InScene("runner", NextRunner, NotRunner)
  \/ InScene("thread", NextLifecycle, NotThread)

\* The fairness of each, in its scene.
all == <<scene, vars, runnerVars, lifecycleVars>>
InRelay(A)  == InScene("relay", A, NotRelay)
InRunner(A) == InScene("runner", A, NotRunner)
InThread(A) == InScene("thread", A, NotThread)
SceneInit == scene \in {"relay", "runner", "thread"} /\ Init /\ InitRunner /\ InitLifecycle
SceneSpec ==
  /\ SceneInit /\ [][SceneNext]_all
  /\ \A c \in Clients : WF_all(InRelay(Proceeds(c))) /\ WF_all(InRelay(WatchdogCloses(c)))
  /\ WF_all(InRunner(MainStep)) /\ WF_all(InRunner(GraceEnds)) /\ WF_all(InRunner(NoteBudget))
  /\ \A c \in Callers : WF_all(InThread(StepOf(c)))
=============================================================================
