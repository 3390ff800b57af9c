-------------------------------- MODULE Race --------------------------------
(***************************************************************************)
(* forwarder/upstream.py: open_direct, when a name has several addresses.  *)
(*                                                                         *)
(* Connection attempts are tasks, started one after the other; the first   *)
(* that connects wins and the others are cancelled.  The tunnel's own task *)
(* may be cancelled (its client left, the forwarder stops) and the meter   *)
(* may close the tunnel, at any of its waits.                              *)
(*                                                                         *)
(* An attempt is "open" when its task is done and holds a connected socket;*)
(* a cancelled one may be open all the same.  Time is two flags.           *)
(***************************************************************************)
EXTENDS Naturals

CONSTANT Addresses  \* how many there are, families interleaved

ASSUME RaceAssumption == Addresses \in Nat /\ Addresses > 1

Attempts == 1 .. Addresses

VARIABLES
  attempt,  \* attempt[i]: "queued", "trying", "open", "failed", "odd", "cancelling", "cancelled", "closed"
  seen,     \* the failed attempts that the loop has dealt with
  racer,    \* where the tunnel's task is, and the winner (0: none)
  due,      \* the next attempt may start
  expired,  \* the deadline has passed
  result,   \* "none", "adopted", "aborted" (the tunnel was closed), "raised", "cancelled",
            \* "dropped" (cancelled again, or late: what came after the gather was left out)
  shut      \* the meter has closed the tunnel

raceVars == <<attempt, seen, racer, due, expired, result, shut>>

RaceTypes ==
  /\ attempt \in [Attempts -> {"queued", "trying", "open", "failed", "odd", "cancelling", "cancelled", "closed"}]
  /\ seen \subseteq Attempts
  /\ racer \in [pc : {"loop", "waiting", "unwinding", "gathering", "adopting", "end"}, winner : 0 .. Addresses]
  /\ due \in BOOLEAN /\ expired \in BOOLEAN /\ shut \in BOOLEAN
  /\ result \in {"none", "adopted", "aborted", "raised", "cancelled", "dropped"}

InitRace ==
  /\ attempt = [i \in Attempts |-> "queued"]
  /\ seen = {}
  /\ racer = [pc |-> "loop", winner |-> 0]
  /\ due = TRUE
  /\ expired = FALSE
  /\ result = "none"
  /\ shut = FALSE

In(what) == {i \in Attempts : attempt[i] = what}
Losers   == {i \in Attempts : attempt[i] # "queued" /\ i # racer.winner}
Goes(pc) == racer' = [racer EXCEPT !.pc = pc]

-----------------------------------------------------------------------------
(* The loop of _race_connect.                                               *)

\* The next address, the queue in order.
NextAddress == CHOOSE i \in In("queued") : \A j \in In("queued") : i <= j

\* A round that starts the next attempt: it is due, or none is running.
StartNext ==
  /\ racer.pc = "loop" /\ ~expired
  /\ In("queued") # {} /\ (due \/ In("trying") = {})
  /\ attempt' = [attempt EXCEPT ![NextAddress] = "trying"]
  /\ due' = FALSE
  /\ Goes("waiting")
  /\ UNCHANGED <<seen, expired, result, shut>>

\* A round that waits for those that run.
WaitOn ==
  /\ racer.pc = "loop" /\ ~expired
  /\ In("queued") = {} \/ ~due
  /\ In("trying") # {}
  /\ Goes("waiting")
  /\ UNCHANGED <<attempt, seen, due, expired, result, shut>>

\* The deadline has passed, or all have failed.
GiveUp ==
  /\ racer.pc = "loop"
  /\ expired \/ (In("queued") = {} /\ In("trying") = {})
  /\ Goes("unwinding")
  /\ result' = "raised"
  /\ UNCHANGED <<attempt, seen, due, expired, shut>>

\* asyncio.wait returns: something is done, the next attempt is due or time is up.
\* Of those that are done the loop takes one after the other, in no order.
Won(i) ==
  /\ racer.pc = "waiting" /\ attempt[i] = "open"
  /\ racer' = [pc |-> "unwinding", winner |-> i]
  /\ UNCHANGED <<attempt, seen, due, expired, result, shut>>
Odd(i) ==
  /\ racer.pc = "waiting" /\ attempt[i] = "odd"
  /\ Goes("unwinding")
  /\ result' = "raised"
  /\ UNCHANGED <<attempt, seen, due, expired, shut>>
NoWinner ==
  LET failed == In("failed") \ seen IN
  /\ racer.pc = "waiting" /\ In("open") = {} /\ In("odd") = {}
  /\ failed # {} \/ (due /\ In("queued") # {}) \/ expired
  /\ seen' = seen \cup failed
  /\ due' = (due \/ failed # {})
  /\ Goes("loop")
  /\ UNCHANGED <<attempt, expired, result, shut>>

AfterGather == IF result = "none" THEN "adopting" ELSE "end"

\* The finally block: every loser is cancelled, then waited for.
Unwind ==
  /\ racer.pc = "unwinding"
  /\ attempt' = [i \in Attempts |->
       IF i \in Losers /\ attempt[i] = "trying" THEN "cancelling" ELSE attempt[i]]
  /\ Goes(IF Losers # {} THEN "gathering" ELSE AfterGather)
  /\ UNCHANGED <<seen, due, expired, result, shut>>

\* All are done: one that connected too late is closed.
LateOnes == Losers \cap In("open")
Gathered ==
  /\ racer.pc = "gathering" /\ In("cancelling") = {}
  /\ attempt' = [i \in Attempts |-> IF i \in LateOnes THEN "closed" ELSE attempt[i]]
  /\ Goes(AfterGather)
  /\ UNCHANGED <<seen, due, expired, result, shut>>

\* _adopt, in the same step of the task: a tunnel that was closed meanwhile is not opened.
AdoptAnyway ==
  /\ racer.pc = "adopting"
  /\ result' = "adopted"
  /\ UNCHANGED attempt
  /\ Goes("end")
  /\ UNCHANGED <<seen, due, expired, shut>>
Adopt ==
  /\ racer.pc = "adopting"
  /\ result' = IF shut THEN "aborted" ELSE "adopted"
  /\ attempt' = IF shut THEN [attempt EXCEPT ![racer.winner] = "closed"] ELSE attempt
  /\ Goes("end")
  /\ UNCHANGED <<seen, due, expired, shut>>

-----------------------------------------------------------------------------
(* The attempts, which run while the task waits, the clock, and the outside.*)

\* _open_direct_socket: connected; or not, or to this machine, which closes it; or
\* an error that is not UpstreamError.
AttemptEnds(i) ==
  /\ racer.pc = "waiting" /\ attempt[i] = "trying"
  /\ \E end \in {"open", "failed", "odd"} : attempt' = [attempt EXCEPT ![i] = end]
  /\ UNCHANGED <<seen, racer, due, expired, result, shut>>
Cancelled(i) ==
  /\ racer.pc = "gathering" /\ attempt[i] = "cancelling"
  /\ \E end \in {"open", "failed", "cancelled"} : attempt' = [attempt EXCEPT ![i] = end]
  /\ UNCHANGED <<seen, racer, due, expired, result, shut>>

Timer ==
  /\ racer.pc = "waiting" /\ ~due
  /\ due' = TRUE
  /\ UNCHANGED <<attempt, seen, racer, expired, result, shut>>
Deadline ==
  /\ racer.pc # "end" /\ ~expired
  /\ expired' = TRUE
  /\ UNCHANGED <<attempt, seen, racer, due, result, shut>>

\* The task is cancelled while it waits for the attempts.
Cancel ==
  /\ racer.pc = "waiting"
  /\ Goes("unwinding")
  /\ result' = "cancelled"
  /\ UNCHANGED <<attempt, seen, due, expired, shut>>

\* It is cancelled while it waits for the losers: what comes after the gather is
\* left out, and a winner is not returned.
CancelGathering ==
  /\ racer.pc = "gathering" /\ In("cancelling") = {}
  /\ Goes("end")
  /\ result' = "dropped"
  /\ UNCHANGED <<attempt, seen, due, expired, shut>>

\* The budget trips, or the forwarder stops; an adopted connection is aborted by it.
Shut ==
  /\ ~shut
  /\ shut' = TRUE
  /\ IF result = "adopted"
     THEN attempt' = [attempt EXCEPT ![racer.winner] = "closed"]
     ELSE UNCHANGED attempt
  /\ UNCHANGED <<seen, racer, due, expired, result>>

NextRace ==
  \/ StartNext \/ WaitOn \/ GiveUp \/ NoWinner \/ Unwind \/ Gathered \/ Adopt
  \/ \E i \in Attempts : Won(i) \/ Odd(i) \/ AttemptEnds(i) \/ Cancelled(i)
  \/ Timer \/ Deadline \/ Cancel \/ CancelGathering \/ Shut

RaceSpec == InitRace /\ [][NextRace]_raceVars

-----------------------------------------------------------------------------

\* When open_direct is over, only the connection it returned is open, and that only
\* while its tunnel is: however many attempts connected, in whatever order they and
\* the deadline, the cancelling and the closing of the tunnel came.  One case is
\* left: a task that is cancelled while the losers are being waited for drops its
\* winner and does not close the losers that are open.
OneSocketSurvives ==
  racer.pc = "end" =>
    /\ In("trying") = {} /\ In("cancelling") = {}
    /\ result # "dropped" => In("open") = IF result = "adopted" /\ ~shut THEN {racer.winner} ELSE {}
    /\ result = "adopted" => racer.winner # 0
=============================================================================
