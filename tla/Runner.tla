------------------------------- MODULE Runner -------------------------------
(***************************************************************************)
(* runner.py: run_command from the start of the job to its exit code, with *)
(* _ChildWaiter, the signal handlers and what the meter's thread tells it. *)
(*                                                                         *)
(* The job is a process group of its own.  The main thread's steps are cut *)
(* where the meter's thread, the processes of the group or a signal may    *)
(* come in between; Python runs a signal's handler between two of them.    *)
(* A process that was asked to end (SIGTERM, SIGINT, SIGHUP) may take any  *)
(* time or ignore it, one that was killed is gone.  There is no clock: the *)
(* grace period ends when GraceEnds says so.                               *)
(***************************************************************************)
EXTENDS Naturals

CONSTANTS
  Procs,       \* the processes the job's group may have
  Leader,      \* the process that run_command started
  MaxSignals   \* bound: signals sent to scrapescope

ASSUME RunnerAssumption == Leader \in Procs /\ MaxSignals \in Nat

VARIABLES
  group,       \* group[p]: whether p was forked, is alive, has ended
  status,      \* the leader's exit status, by what ended it
  told,        \* the processes that were sent a signal
  tripped,     \* Meter.budget_tripped
  noted,       \* the ForwarderThread.budget_tripped event
  crashed,     \* ForwarderThread.error is set
  pc,          \* where the main thread is
  returncode,  \* what _ChildWaiter.proc.poll() gave
  handled,     \* _ChildWaiter._trip_handled
  deadline,    \* _ChildWaiter._kill_deadline: "none", or "set" and "past"
  sigints,     \* _ChildWaiter._sigint_count
  signals,     \* how many signals scrapescope received
  code         \* the exit code of scrapescope

runnerVars == <<group, status, told, tripped, noted, crashed, pc, returncode, handled,
          deadline, sigints, signals, code>>
jobVars   == <<group, status, told>>
meterVars == <<tripped, noted, crashed>>
main  == <<pc, returncode, handled, deadline, sigints, code>>

(* pc: the job is "started" and the handlers are not installed yet; the wait *)
(* loop is about to "check" for a trip, to "poll" the leader, to "judge" the *)
(* deadline, or is in its "pause" of 50 ms; then the tunnels are "draining", *)
(* the meter has stopped and the report is written ("reporting"), and the    *)
(* run is "finished", or "gone" by a signal nobody handled.                  *)
WaitPoints  == {"check", "poll", "judge", "pause"}
RunOver    == {"finished", "gone"}
PCs      == {"started", "draining", "reporting"} \cup WaitPoints \cup RunOver
Statuses == {"none", "own", "asked", "killed"}
Codes    == {"none", "internal", "budget", "own", "asked", "killed"}

Alive == {p \in Procs : group[p] = "alive"}

InitRunner ==
  /\ group = [p \in Procs |-> IF p = Leader THEN "alive" ELSE "unborn"]
  /\ status = "none"
  /\ told = {}
  /\ tripped = FALSE /\ noted = FALSE /\ crashed = FALSE
  /\ pc = "started"
  /\ returncode = "none"
  /\ handled = FALSE
  /\ deadline = "none"
  /\ sigints = 0
  /\ signals = 0
  /\ code = "none"

-----------------------------------------------------------------------------
(* The job: processes fork, and end by themselves or because they were     *)
(* asked to.                                                               *)

Forks(p) ==
  /\ Alive # {}
  /\ group[p] = "unborn"
  /\ group' = [group EXCEPT ![p] = "alive"]
  /\ UNCHANGED <<status, told, meterVars, main, signals>>

Exits(p) ==
  /\ p \in Alive
  /\ group' = [group EXCEPT ![p] = "ended"]
  /\ status' = IF p = Leader THEN IF p \in told THEN "asked" ELSE "own" ELSE status
  /\ UNCHANGED <<told, meterVars, main, signals>>

\* _signal_group with SIGKILL; a group that is gone is ignored.
KillGroup ==
  /\ group' = [p \in Procs |-> IF p \in Alive THEN "ended" ELSE group[p]]
  /\ status' = IF Leader \in Alive THEN "killed" ELSE status
  /\ told' = told \cup Alive

\* _signal_group with a signal that a process may ignore.
AskGroup ==
  /\ told' = told \cup Alive
  /\ UNCHANGED <<group, status>>

-----------------------------------------------------------------------------
(* The meter's thread.                                                     *)

\* The budget trips: the meter has closed every tunnel, its callbacks come next.
BudgetTrips ==
  /\ pc \in {"started", "draining"} \cup WaitPoints
  /\ ~tripped /\ ~crashed
  /\ tripped' = TRUE
  /\ UNCHANGED <<jobVars, noted, crashed, main, signals>>

\* ForwarderThread._note_budget.
NoteBudget ==
  /\ tripped /\ ~noted
  /\ noted' = TRUE
  /\ UNCHANGED <<jobVars, tripped, crashed, main, signals>>

\* The loop dies; not within the callbacks of a trip, which raise nothing.
Crash ==
  /\ pc \in {"started", "draining"} \cup WaitPoints
  /\ ~crashed /\ tripped = noted
  /\ crashed' = TRUE
  /\ UNCHANGED <<jobVars, tripped, noted, main, signals>>

-----------------------------------------------------------------------------
(* The main thread.                                                        *)

\* _SignalGuard.__enter__.
Guard ==
  /\ pc = "started"
  /\ pc' = "check"
  /\ UNCHANGED <<jobVars, meterVars, returncode, handled, deadline, sigints, signals, code>>

\* Mutant: every round of the loop handles the trip again.
CheckTripAgain ==
  /\ pc = "check"
  /\ IF noted
     THEN handled' = TRUE /\ AskGroup /\ deadline' = "set"
     ELSE UNCHANGED <<handled, deadline, jobVars>>
  /\ pc' = "poll"
  /\ UNCHANGED <<meterVars, returncode, sigints, signals, code>>

\* wait: a trip is handled once; _stop_group asks the group and sets the deadline.
CheckTrip ==
  /\ pc = "check"
  /\ IF ~handled /\ noted
     THEN handled' = TRUE /\ AskGroup /\ deadline' = "set"
     ELSE UNCHANGED <<handled, deadline, jobVars>>
  /\ pc' = "poll"
  /\ UNCHANGED <<meterVars, returncode, sigints, signals, code>>

Poll ==
  /\ pc = "poll"
  /\ returncode' = status
  /\ pc' = "judge"
  /\ UNCHANGED <<jobVars, meterVars, handled, deadline, sigints, signals, code>>

\* Mutant: the deadline is dropped with the leader, whatever its group does.
JudgeLeaderOnly ==
  /\ pc = "judge"
  /\ deadline' = IF deadline = "past" \/ returncode # "none" THEN "none" ELSE deadline
  /\ IF deadline = "past" THEN KillGroup ELSE UNCHANGED jobVars
  /\ pc' = IF returncode # "none" /\ deadline' = "none" THEN "draining" ELSE "pause"
  /\ UNCHANGED <<meterVars, returncode, handled, sigints, signals, code>>

\* wait: at the deadline the group is killed; before it, a group that is gone ends
\* the wait, and a leader that is gone ends it only when no deadline is set.
Judge ==
  /\ pc = "judge"
  /\ deadline' = CASE deadline = "past" -> "none"
                   [] deadline = "set" /\ returncode # "none" /\ Alive = {} -> "none"
                   [] OTHER -> deadline
  /\ IF deadline = "past" THEN KillGroup ELSE UNCHANGED jobVars
  /\ pc' = IF returncode # "none" /\ deadline' = "none" THEN "draining" ELSE "pause"
  /\ UNCHANGED <<meterVars, returncode, handled, sigints, signals, code>>

\* proc.wait(timeout=0.05) is over.
Pause ==
  /\ pc = "pause"
  /\ pc' = "check"
  /\ UNCHANGED <<jobVars, meterVars, returncode, handled, deadline, sigints, signals, code>>

\* STOP_GRACE_S have passed since the deadline was set.
GraceEnds ==
  /\ deadline = "set"
  /\ deadline' = "past"
  /\ UNCHANGED <<jobVars, meterVars, pc, returncode, handled, sigints, signals, code>>

\* _drain ends, at most a second later; fw.stop() closes what is left, after the
\* callbacks that are running.
StopJob ==
  /\ pc = "draining"
  /\ tripped = noted
  /\ pc' = "reporting"
  /\ UNCHANGED <<jobVars, meterVars, returncode, handled, deadline, sigints, signals, code>>

\* Mutant: the job's own status goes before the budget.
ReportChildFirst ==
  /\ pc = "reporting"
  /\ code' = IF crashed THEN "internal" ELSE IF returncode # "own" THEN returncode
             ELSE IF tripped THEN "budget" ELSE returncode
  /\ pc' = "finished"
  /\ UNCHANGED <<jobVars, meterVars, returncode, handled, deadline, sigints, signals>>

\* The report is written, or cannot be, and the exit code is chosen.
Report ==
  /\ pc = "reporting"
  /\ code' \in {"internal", IF crashed THEN "internal"
                            ELSE IF tripped THEN "budget" ELSE returncode}
  /\ pc' = "finished"
  /\ UNCHANGED <<jobVars, meterVars, returncode, handled, deadline, sigints, signals>>

-----------------------------------------------------------------------------
(* Signals sent to scrapescope.                                            *)

\* _ChildWaiter.on_signal, between two steps of the wait loop.
OnSignal(interrupt) ==
  /\ pc \in WaitPoints
  /\ signals < MaxSignals
  /\ signals' = signals + 1
  /\ sigints' = IF interrupt THEN sigints + 1 ELSE sigints
  /\ IF interrupt /\ sigints >= 1 THEN KillGroup ELSE AskGroup
  /\ UNCHANGED <<meterVars, pc, returncode, handled, deadline, code>>

\* Before the handlers are installed and after they were taken away a signal does
\* what it does by default: it ends scrapescope, SIGINT by KeyboardInterrupt.
DefaultSignal ==
  /\ pc \in {"started", "draining", "reporting"}
  /\ signals < MaxSignals
  /\ signals' = signals + 1
  /\ pc' = "gone"
  /\ UNCHANGED <<jobVars, meterVars, returncode, handled, deadline, sigints, code>>

MainStep == Guard \/ CheckTrip \/ Poll \/ Judge \/ Pause \/ StopJob \/ Report

NextRunner ==
  \/ MainStep
  \/ GraceEnds
  \/ NoteBudget
  \/ BudgetTrips
  \/ Crash
  \/ \E p \in Procs : Forks(p) \/ Exits(p)
  \/ \E interrupt \in BOOLEAN : OnSignal(interrupt)
  \/ DefaultSignal

RunnerSpec == InitRunner /\ [][NextRunner]_runnerVars

\* The main thread runs, time passes, and the meter's callbacks are run; nothing is
\* asked of the job.
FairRunnerSpec ==
  /\ RunnerSpec
  /\ WF_runnerVars(MainStep) /\ WF_runnerVars(GraceEnds) /\ WF_runnerVars(NoteBudget)

-----------------------------------------------------------------------------
(* Properties.                                                             *)

TypeOK ==
  /\ group \in [Procs -> {"unborn", "alive", "ended"}]
  /\ status \in Statuses
  /\ told \subseteq Procs
  /\ tripped \in BOOLEAN /\ noted \in BOOLEAN /\ crashed \in BOOLEAN
  /\ pc \in PCs
  /\ returncode \in Statuses
  /\ handled \in BOOLEAN
  /\ deadline \in {"none", "set", "past"}
  /\ sigints \in 0 .. MaxSignals
  /\ signals \in 0 .. MaxSignals
  /\ code \in Codes

\* Contract 12.2: once the runner has stopped a job for its budget no process of the
\* job's group is left, also one that ignores SIGTERM and outlives the leader.
StoppedGroupIsGone ==
  handled /\ pc \in {"draining", "reporting", "finished"} => Alive = {}

\* A job that the runner stopped for its budget never looks like one that failed or
\* succeeded by itself, whichever way its leader ended.
StoppedJobSaysSo == handled /\ code # "none" => code \in {"budget", "internal"}

\* A trip, or the end of the job's leader, ends the run: the job may hang, ignore
\* signals and leave processes behind, and the loop must neither wait for them nor
\* put the deadline off.
RunEnds == (tripped \/ status # "none") ~> pc \in RunOver

\* docs/method.md: on a trip run sends SIGTERM to the job's whole process group, and
\* SIGKILL five seconds later if anything is still running.
TripStopsTheJob == tripped /\ pc = "finished" => Alive = {}

\* docs/exit-codes.md: a signal that scrapescope receives during run is forwarded to
\* the job's process group.
SignalsReachTheJob == pc = "gone" => Alive \subseteq told
=============================================================================
