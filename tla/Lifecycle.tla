------------------------------ MODULE Lifecycle -----------------------------
(***************************************************************************)
(* forwarder/server.py: ForwarderThread, with what its start and stop do   *)
(* to the Forwarder on the loop.                                           *)
(*                                                                         *)
(* Threads of the program call start, stop and snapshot; start and stop    *)
(* hold the lock, submit a coroutine to the loop's thread, wait for it for *)
(* 10 s, and stop and join the thread for 5 s.  The loop's thread may be   *)
(* slow, or die, at any time.  There is no clock: every wait may end by    *)
(* its timeout.  Connections come after a start that returned.             *)
(***************************************************************************)
EXTENDS Naturals

CONSTANTS
  Callers,   \* the threads that use the ForwarderThread
  MaxCalls,  \* bound: calls that a thread makes
  MaxMoved   \* bound: bytes that are counted

NobodyCalls == "nobody"

ASSUME LifecycleAssumption == MaxCalls \in Nat /\ MaxMoved \in Nat /\ NobodyCalls \notin Callers

NoSnapshot == [open |-> FALSE, bytes |-> 0, errors |-> 0, is |-> "none"]

VARIABLES
  guard,     \* who holds _lock
  loop,      \* _loop and its thread: "none", "runs", "told" (loop.stop was called), "died",
             \* "ended", "closed"
  error,     \* ForwarderThread.error is set
  starting,  \* the start coroutine: "none", "queued", "done", "failed"
  stopping,  \* the stop coroutine: "none", "queued", "closing", "done", "failed"
  running,   \* Forwarder: started and not stopped
  counts,    \* the meter: a tunnel is open, bytes counted, internal errors
  final,     \* _final
  caller     \* caller[c]: where it is, how many calls it made, what stop gave it, what it saw

lifecycleVars == <<guard, loop, error, starting, stopping, running, counts, final, caller>>

Snapshots == [open : BOOLEAN, bytes : Nat, errors : Nat, is : {"none", "taken"}]
Places == {"idle", "wants start", "starting", "wants stop", "stopping", "reads", "shuts", "joins", "returns"}

LifecycleTypes ==
  /\ guard \in Callers \cup {NobodyCalls}
  /\ loop \in {"none", "runs", "told", "died", "ended", "closed"}
  /\ error \in BOOLEAN /\ running \in BOOLEAN
  /\ starting \in {"none", "queued", "done", "failed"}
  /\ stopping \in {"none", "queued", "closing", "done", "failed"}
  /\ counts \in [open : BOOLEAN, bytes : Nat, errors : Nat]
  /\ final \in Snapshots
  /\ caller \in [Callers -> [pc : Places, calls : Nat, got : Snapshots, ok : BOOLEAN]]

InitLifecycle ==
  /\ guard = NobodyCalls
  /\ loop = "none"
  /\ error = FALSE
  /\ starting = "none" /\ stopping = "none"
  /\ running = FALSE
  /\ counts = [open |-> FALSE, bytes |-> 0, errors |-> 0]
  /\ final = NoSnapshot
  /\ caller = [c \in Callers |-> [pc |-> "idle", calls |-> 0, got |-> NoSnapshot, ok |-> FALSE]]

MovesTo(c, place) == caller' = [caller EXCEPT ![c].pc = place]
ThreadAlive == loop \in {"runs", "told", "died"}
Now == [open |-> counts.open, bytes |-> counts.bytes, errors |-> counts.errors, is |-> "taken"]

-----------------------------------------------------------------------------
(* start.                                                                   *)

Calls(c, place) ==
  /\ caller[c].pc = "idle" /\ caller[c].calls < MaxCalls
  /\ caller' = [caller EXCEPT ![c].pc = place, ![c].calls = @ + 1]
  /\ UNCHANGED <<guard, loop, error, starting, stopping, running, counts, final>>

\* A second start raises; the first has the thread made and the coroutine submitted.
StartEnters(c) ==
  /\ caller[c].pc = "wants start" /\ guard = NobodyCalls
  /\ IF loop # "none"
     THEN MovesTo(c, "idle") /\ UNCHANGED <<guard, loop, starting>>
     ELSE MovesTo(c, "starting") /\ guard' = c /\ loop' = "runs" /\ starting' = "queued"
  /\ UNCHANGED <<error, stopping, running, counts, final>>

Started(c) ==
  /\ caller[c].pc = "starting" /\ starting = "done"
  /\ caller' = [caller EXCEPT ![c].pc = "idle", ![c].ok = TRUE]
  /\ guard' = NobodyCalls
  /\ UNCHANGED <<loop, error, starting, stopping, running, counts, final>>

\* It failed, or did not end in time.
StartFails(c) ==
  /\ caller[c].pc = "starting" /\ starting # "done"
  /\ MovesTo(c, "shuts")
  /\ UNCHANGED <<guard, loop, error, starting, stopping, running, counts, final>>

-----------------------------------------------------------------------------
(* stop and snapshot.                                                       *)

StopEnters(c) ==
  /\ caller[c].pc = "wants stop" /\ guard = NobodyCalls
  /\ IF final # NoSnapshot
     THEN /\ caller' = [caller EXCEPT ![c].pc = "idle", ![c].got = final]
          /\ UNCHANGED <<guard, stopping>>
     ELSE /\ guard' = c
          /\ IF ThreadAlive
             THEN MovesTo(c, "stopping") /\ stopping' = "queued"
             ELSE MovesTo(c, "reads") /\ UNCHANGED stopping
  /\ UNCHANGED <<loop, error, starting, running, counts, final>>

Stopped(c) ==
  /\ caller[c].pc = "stopping" /\ stopping = "done"
  /\ MovesTo(c, "reads")
  /\ UNCHANGED <<guard, loop, error, starting, stopping, running, counts, final>>

\* It failed, or did not end in time: an internal error, counted before the snapshot.
\* (Two mutants before it: nothing is counted; the wait has no timeout.)
StopFailsQuietly(c) ==
  /\ caller[c].pc = "stopping" /\ stopping # "done"
  /\ MovesTo(c, "reads")
  /\ UNCHANGED <<guard, loop, error, starting, stopping, running, counts, final>>
StopFailsOnly(c) ==
  /\ caller[c].pc = "stopping" /\ stopping = "failed"
  /\ MovesTo(c, "reads")
  /\ counts' = [counts EXCEPT !.errors = @ + 1]
  /\ UNCHANGED <<guard, loop, error, starting, stopping, running, final>>
StopFails(c) ==
  /\ caller[c].pc = "stopping" /\ stopping # "done"
  /\ MovesTo(c, "reads")
  /\ counts' = [counts EXCEPT !.errors = @ + 1]
  /\ UNCHANGED <<guard, loop, error, starting, stopping, running, final>>

ReadsFinal(c) ==
  /\ caller[c].pc = "reads"
  /\ final' = Now
  /\ MovesTo(c, "shuts")
  /\ UNCHANGED <<guard, loop, error, starting, stopping, running, counts>>

\* _shutdown_loop: the loop is told to stop, and its thread joined; then it is
\* closed, if the thread has ended.
Shuts(c) ==
  /\ caller[c].pc = "shuts"
  /\ loop' = IF loop = "runs" THEN "told" ELSE loop
  /\ MovesTo(c, IF loop = "none" THEN "returns" ELSE "joins")
  /\ UNCHANGED <<guard, error, starting, stopping, running, counts, final>>
Joins(c) ==
  /\ caller[c].pc = "joins"
  /\ loop' = IF ThreadAlive THEN loop ELSE "closed"
  /\ MovesTo(c, "returns")
  /\ UNCHANGED <<guard, error, starting, stopping, running, counts, final>>
Returns(c) ==
  /\ caller[c].pc = "returns"
  /\ caller' = [caller EXCEPT ![c].pc = "idle", ![c].got = final]
  /\ guard' = NobodyCalls
  /\ UNCHANGED <<loop, error, starting, stopping, running, counts, final>>

-----------------------------------------------------------------------------
(* The loop's thread.                                                       *)

LoopRuns == loop \in {"runs", "told"}

RunStart ==
  /\ LoopRuns /\ starting = "queued"
  /\ \E end \in {"done", "failed"} : starting' = end /\ running' = (end = "done" /\ stopping = "none")
  /\ UNCHANGED <<guard, loop, error, stopping, counts, final, caller>>

\* Forwarder.stop: listeners and tunnels are closed in one go, then the tasks are
\* waited for; it may fail while it waits.
RunStop ==
  /\ LoopRuns /\ stopping = "queued"
  /\ stopping' = "closing"
  /\ running' = FALSE
  /\ counts' = [counts EXCEPT !.open = FALSE]
  /\ UNCHANGED <<guard, loop, error, starting, final, caller>>
EndStop ==
  /\ LoopRuns /\ stopping = "closing"
  /\ stopping' \in {"done", "failed"}
  /\ UNCHANGED <<guard, loop, error, starting, running, counts, final, caller>>

\* A client's tunnel opens or closes, and bytes pass through it.
Moved(open, bytes) ==
  /\ LoopRuns /\ running /\ \E c \in Callers : caller[c].ok
  /\ counts.bytes + bytes <= MaxMoved
  /\ counts' = [counts EXCEPT !.open = open, !.bytes = @ + bytes]
  /\ UNCHANGED <<guard, loop, error, starting, stopping, running, final, caller>>
OpensOrCloses == Moved(~counts.open, 0)
Passes == counts.open /\ Moved(TRUE, 1)

\* run_forever returns; or raises, and the error is set before the thread ends.
LoopDies ==
  /\ LoopRuns
  /\ loop' = "died"
  /\ error' = TRUE
  /\ UNCHANGED <<guard, starting, stopping, running, counts, final, caller>>
ThreadEnds ==
  /\ loop \in {"told", "died"}
  /\ loop' = "ended"
  /\ UNCHANGED <<guard, error, starting, stopping, running, counts, final, caller>>

\* The program stops only what a thread of it has started.
Call(c) == Calls(c, "wants start") \/ (loop # "none" /\ Calls(c, "wants stop"))
StepOf(c) ==
  StartEnters(c) \/ Started(c) \/ StartFails(c) \/ StopEnters(c) \/ Stopped(c) \/ StopFails(c)
    \/ ReadsFinal(c) \/ Shuts(c) \/ Joins(c) \/ Returns(c)
NextLifecycle ==
  \/ \E c \in Callers : Call(c) \/ StepOf(c)
  \/ RunStart \/ RunStop \/ EndStop \/ OpensOrCloses \/ Passes \/ LoopDies \/ ThreadEnds

\* What the calls owe: every wait has a timeout, and a thread that finds the lock
\* free for good takes it.
LifecycleSpec ==
  /\ InitLifecycle /\ [][NextLifecycle]_lifecycleVars
  /\ \A c \in Callers : WF_lifecycleVars(StepOf(c))

-----------------------------------------------------------------------------

\* The snapshot that stop returns is the one for every thread and for good, also of
\* a stop that timed out or found the loop dead.  It is whole: no tunnel is
\* open in it and no byte is counted after it, unless it or the thread's error says
\* that something went wrong.
FinalIsWhole ==
  /\ \A c \in Callers : caller[c].got # NoSnapshot => caller[c].got = final
  /\ final # NoSnapshot /\ final.errors = 0 /\ ~error
       => ~final.open /\ final.bytes = counts.bytes /\ ~counts.open

\* Every start and every stop returns, whatever becomes of the loop's thread.
EveryCallReturns == \A c \in Callers : caller[c].pc # "idle" ~> caller[c].pc = "idle"
=============================================================================
