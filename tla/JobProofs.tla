------------------------------ MODULE JobProofs ------------------------------
(***************************************************************************)
(* Theorems about what a job runs in: Runner, for any job and any number   *)
(* of signals; Lifecycle, for any number of threads, calls and bytes; and  *)
(* EventWriter, for any threads, descriptors and paths.                    *)
(*                                                                         *)
(* StoppedGroupIsGone is not inductive: that the group is gone at the end  *)
(* comes from the deadline, which is taken back only when the group is     *)
(* gone or killed (Stopping), and which the wait loop never leaves behind  *)
(* (Settled); a group that is gone cannot fork.  StoppedJobSaysSo needs    *)
(* that only a noted trip is handled and that the code is chosen last.     *)
(*                                                                         *)
(* FinalIsWhole speaks of a snapshot that is there.  It is inductive only  *)
(* with what leads to the snapshot: who holds the lock (LockIsHeld), so    *)
(* that it is taken once (TakenOnce); that a loop which ended in order     *)
(* before it was taken never carried a connection (FailedStart); and that  *)
(* nothing moves any more when it is taken (Still).                        *)
(*                                                                         *)
(* DescriptorIsOurs needs who is where.  The threads inside _descriptor    *)
(* are the holders of the locks (Locked), so the cache is a matter of one  *)
(* thread at a time: what that thread has and finds there (Carries, Finds),*)
(* which file a cached descriptor names (CacheIs), and that it and the one *)
(* being opened are the only ones (OnlyThese).  A thread past _descriptor  *)
(* has no lock: what its number names holds as long as nothing was closed  *)
(* (NotAstray).                                                            *)
(***************************************************************************)
EXTENDS Runner, Lifecycle, EventWriter, TLAPS

-----------------------------------------------------------------------------
(* The runner *)

\* A handled trip whose deadline is not pending any more has ended the group.
Stopping == handled /\ deadline = "none" => Alive = {}

\* The run leaves the wait loop only when no deadline is pending.
Settled == pc \in {"draining", "reporting", "finished"} => deadline = "none"

\* The runner handles trips that happened, and decides the exit code last.
Reported ==
  /\ handled => noted
  /\ noted => tripped
  /\ pc # "finished" => code = "none"
  /\ StoppedJobSaysSo

\* For the type of sigints: interrupts are some of the signals.
Counted == sigints <= signals

RunnerInv == TypeOK /\ Counted /\ Stopping /\ Settled /\ Reported

-----------------------------------------------------------------------------
\* KillGroup ends every process of the group and keeps the job's type.
LEMMA KillEnds ==
  ASSUME TypeOK, KillGroup
  PROVE  /\ Alive' = {}
         /\ group' \in [Procs -> {"unborn", "alive", "ended"}]
         /\ status' \in Statuses
         /\ told' \subseteq Procs
<1>1. group' = [p \in Procs |-> IF p \in Alive THEN "ended" ELSE group[p]]
  BY DEF KillGroup
<1>2. \A p \in Procs : group'[p] # "alive" /\ group'[p] \in {"unborn", "alive", "ended"}
  BY <1>1 DEF Alive, TypeOK
<1>3. Alive' = {}
  BY <1>2 DEF Alive
<1>4. group' \in [Procs -> {"unborn", "alive", "ended"}]
  BY <1>1, <1>2
<1>5. Alive \subseteq Procs
  BY DEF Alive
<1>6. status' \in Statuses /\ told' \subseteq Procs
  BY <1>5 DEF KillGroup, TypeOK, Statuses
<1> QED  BY <1>3, <1>4, <1>6

\* AskGroup ends none by itself.
LEMMA AskKeeps ==
  ASSUME TypeOK, AskGroup
  PROVE  /\ Alive' = Alive
         /\ group' = group /\ status' = status
         /\ told' \subseteq Procs
BY DEF AskGroup, Alive, TypeOK

\* The invariant holds when the job starts.
LEMMA RunnerInit == InitRunner => RunnerInv
<1> SUFFICES ASSUME InitRunner PROVE RunnerInv
  OBVIOUS
<1>1. TypeOK
  <2>1. group \in [Procs -> {"unborn", "alive", "ended"}]
    BY DEF InitRunner
  <2>2. 0 \in 0 .. MaxSignals
    BY RunnerAssumption
  <2> QED  BY <2>1, <2>2 DEF InitRunner, TypeOK, Statuses, PCs, Codes
<1>2. Counted /\ Stopping /\ Settled /\ Reported
  BY DEF InitRunner, Counted, Stopping, Settled, Reported, StoppedJobSaysSo
<1> QED  BY <1>1, <1>2 DEF RunnerInv

\* Every step of the main thread, the meter's thread, the job and the signals keeps it.
LEMMA RunnerStep == RunnerInv /\ [NextRunner]_runnerVars => RunnerInv'
<1> SUFFICES ASSUME RunnerInv, [NextRunner]_runnerVars PROVE RunnerInv'
  OBVIOUS
<1>0. Counted'
  <2>1. ASSUME NEW interrupt \in BOOLEAN, OnSignal(interrupt) PROVE Counted'
    BY <2>1 DEF OnSignal, Counted, RunnerInv, TypeOK
  <2>2. CASE DefaultSignal
    BY <2>2 DEF DefaultSignal, Counted, RunnerInv, TypeOK
  <2>3. CASE UNCHANGED <<sigints, signals>>
    BY <2>3 DEF Counted, RunnerInv
  <2>4. \/ \E interrupt \in BOOLEAN : OnSignal(interrupt)
        \/ DefaultSignal
        \/ UNCHANGED <<sigints, signals>>
    BY DEF NextRunner, MainStep, Guard, CheckTrip, Poll, Judge, Pause, StopJob, Report, GraceEnds,
           NoteBudget, BudgetTrips, Crash, Forks, Exits, main, runnerVars
  <2> QED  BY <2>1, <2>2, <2>3, <2>4
<1> USE <1>0 DEF RunnerInv
<1>1. CASE Guard
  BY <1>1 DEF Guard, jobVars, meterVars, TypeOK, Stopping, Settled, Reported, StoppedJobSaysSo, Alive,
              PCs, WaitPoints, RunOver
<1>2. CASE CheckTrip
  <2>1. CASE ~handled /\ noted
    <3>1. AskGroup /\ handled' = TRUE /\ deadline' = "set" /\ pc' = "poll"
      BY <1>2, <2>1 DEF CheckTrip
    <3>2. group' = group /\ status' = status /\ told' \subseteq Procs
      BY <3>1, AskKeeps
    <3>3. TypeOK'
      BY <1>2, <3>1, <3>2 DEF CheckTrip, meterVars, TypeOK, PCs, WaitPoints
    <3>4. Stopping' /\ Settled'
      BY <3>1 DEF Stopping, Settled
    <3>5. Reported'
      BY <1>2, <2>1, <3>1 DEF CheckTrip, meterVars, Reported, StoppedJobSaysSo
    <3> QED  BY <3>3, <3>4, <3>5
  <2>2. CASE ~(~handled /\ noted)
    BY <1>2, <2>2 DEF CheckTrip, jobVars, meterVars, TypeOK, Stopping, Settled, Reported,
                      StoppedJobSaysSo, Alive, PCs, WaitPoints
  <2> QED  BY <2>1, <2>2
<1>3. CASE Poll
  BY <1>3 DEF Poll, jobVars, meterVars, TypeOK, Stopping, Settled, Reported, StoppedJobSaysSo, Alive,
              PCs, WaitPoints
<1>4. CASE Judge
  <2>1. CASE deadline = "past"
    <3>1. KillGroup /\ deadline' = "none"
      BY <1>4, <2>1 DEF Judge
    <3>2. TypeOK'
      BY <1>4, <3>1, KillEnds DEF Judge, meterVars, TypeOK, PCs, WaitPoints
    <3>3. Stopping' /\ Settled'
      BY <3>1, KillEnds DEF Stopping, Settled
    <3>4. Reported'
      BY <1>4 DEF Judge, meterVars, Reported, StoppedJobSaysSo
    <3> QED  BY <3>2, <3>3, <3>4
  <2>2. CASE deadline # "past"
    <3>1. group' = group /\ status' = status /\ told' = told /\ Alive' = Alive
      BY <1>4, <2>2 DEF Judge, jobVars, Alive
    <3>2. deadline' = "none" \/ deadline' = deadline
      BY <1>4, <2>2 DEF Judge
    <3>3. deadline' = "none" => deadline = "none" \/ Alive = {}
      BY <1>4, <2>2 DEF Judge
    <3>4. TypeOK'
      BY <1>4, <3>1, <3>2 DEF Judge, meterVars, TypeOK, PCs, WaitPoints
    <3>5. Stopping' /\ Settled'
      BY <1>4, <3>1, <3>3 DEF Judge, Stopping, Settled
    <3>6. Reported'
      BY <1>4 DEF Judge, meterVars, Reported, StoppedJobSaysSo
    <3> QED  BY <3>4, <3>5, <3>6
  <2> QED  BY <2>1, <2>2
<1>5. CASE Pause
  BY <1>5 DEF Pause, jobVars, meterVars, TypeOK, Stopping, Settled, Reported, StoppedJobSaysSo, Alive,
              PCs, WaitPoints
<1>6. CASE StopJob
  BY <1>6 DEF StopJob, jobVars, meterVars, TypeOK, Stopping, Settled, Reported, StoppedJobSaysSo, Alive, PCs
<1>7. CASE Report
  <2>1. TypeOK'
    BY <1>7 DEF Report, jobVars, meterVars, TypeOK, PCs, RunOver, Codes, Statuses
  <2>2. Stopping' /\ Settled'
    BY <1>7 DEF Report, jobVars, Stopping, Settled, Alive
  <2>3. Reported'
    BY <1>7 DEF Report, jobVars, meterVars, Reported, StoppedJobSaysSo
  <2> QED  BY <2>1, <2>2, <2>3
<1>8. CASE GraceEnds
  BY <1>8 DEF GraceEnds, jobVars, meterVars, TypeOK, Stopping, Settled, Reported, StoppedJobSaysSo, Alive
<1>9. CASE NoteBudget \/ BudgetTrips \/ Crash
  <2>1. group' = group /\ status' = status /\ told' = told /\ signals' = signals
    BY <1>9 DEF NoteBudget, BudgetTrips, Crash, jobVars
  <2>2. UNCHANGED main
    BY <1>9 DEF NoteBudget, BudgetTrips, Crash
  <2>3. tripped' \in BOOLEAN /\ noted' \in BOOLEAN /\ crashed' \in BOOLEAN
    BY <1>9 DEF NoteBudget, BudgetTrips, Crash, TypeOK
  <2>4. (noted => noted') /\ (noted' => tripped')
    BY <1>9 DEF NoteBudget, BudgetTrips, Crash, TypeOK, Reported
  <2>5. TypeOK'
    BY <2>1, <2>2, <2>3 DEF main, TypeOK
  <2>6. Stopping' /\ Settled'
    BY <2>1, <2>2 DEF main, Stopping, Settled, Alive
  <2>7. Reported'
    BY <2>2, <2>4 DEF main, Reported, StoppedJobSaysSo
  <2> QED  BY <2>5, <2>6, <2>7
<1>10. ASSUME NEW p \in Procs, Forks(p) \/ Exits(p) PROVE RunnerInv'
  <2>1. group' \in [Procs -> {"unborn", "alive", "ended"}]
    BY <1>10 DEF Forks, Exits, TypeOK
  <2>2. status' \in Statuses
    BY <1>10 DEF Forks, Exits, TypeOK, Statuses
  <2>3. TypeOK'
    BY <1>10, <2>1, <2>2 DEF Forks, Exits, meterVars, main, TypeOK
  <2>4. Alive = {} => Alive' = {}
    BY <1>10 DEF Forks, Exits, Alive, TypeOK
  <2>5. Stopping' /\ Settled' /\ Reported'
    BY <1>10, <2>4 DEF Forks, Exits, meterVars, main, Stopping, Settled, Reported, StoppedJobSaysSo
  <2> QED  BY <2>3, <2>5
<1>11. ASSUME NEW interrupt \in BOOLEAN, OnSignal(interrupt) PROVE RunnerInv'
  <2>1. KillGroup \/ AskGroup
    BY <1>11 DEF OnSignal
  <2>2. /\ group' \in [Procs -> {"unborn", "alive", "ended"}]
        /\ status' \in Statuses
        /\ told' \subseteq Procs
        /\ Alive' = {} \/ Alive' = Alive
    BY <2>1, KillEnds, AskKeeps DEF TypeOK
  <2>3. signals' \in 0 .. MaxSignals
    BY <1>11, RunnerAssumption DEF OnSignal, TypeOK
  <2>4. sigints' \in 0 .. MaxSignals
    BY <1>11, <2>3, RunnerAssumption DEF OnSignal, TypeOK, Counted
  <2>5. TypeOK'
    BY <1>11, <2>2, <2>3, <2>4 DEF OnSignal, meterVars, TypeOK
  <2>6. Stopping' /\ Settled' /\ Reported'
    BY <1>11, <2>2 DEF OnSignal, meterVars, Stopping, Settled, Reported, StoppedJobSaysSo
  <2> QED  BY <2>5, <2>6
<1>12. CASE DefaultSignal
  <2>1. signals' \in 0 .. MaxSignals
    BY <1>12, RunnerAssumption DEF DefaultSignal, TypeOK
  <2> QED
    BY <1>12, <2>1 DEF DefaultSignal, jobVars, meterVars, TypeOK, Stopping, Settled, Reported,
                       StoppedJobSaysSo, Alive, PCs, RunOver
<1>13. CASE UNCHANGED runnerVars
  BY <1>13 DEF runnerVars, TypeOK, Stopping, Settled, Reported, StoppedJobSaysSo, Alive
<1> QED
  BY <1>1, <1>2, <1>3, <1>4, <1>5, <1>6, <1>7, <1>8, <1>9, <1>10, <1>11, <1>12, <1>13
  DEF NextRunner, MainStep

\* The invariant is one.
THEOREM RunnerInvariant == RunnerSpec => []RunnerInv
BY RunnerInit, RunnerStep, PTL DEF RunnerSpec

\* A job that was stopped for its budget leaves no process of its group behind: what
\* _ChildWaiter.wait owes for any number of processes, forks and signals.
THEOREM GroupGone == RunnerSpec => []StoppedGroupIsGone
<1>1. RunnerInv => StoppedGroupIsGone
  BY DEF RunnerInv, Stopping, Settled, StoppedGroupIsGone
<1> QED  BY <1>1, RunnerInvariant, PTL

\* The exit code of a run that stopped its job says so: run_command's last lines.
THEOREM ExitSaysSo == RunnerSpec => []StoppedJobSaysSo
<1>1. RunnerInv => StoppedJobSaysSo
  BY DEF RunnerInv, Reported
<1> QED  BY <1>1, RunnerInvariant, PTL

-----------------------------------------------------------------------------
(* The thread that the forwarder lives in *)

Inside(c) == caller[c].pc \in {"starting", "stopping", "reads", "shuts", "joins", "returns"}
LockIsHeld == \A c \in Callers : Inside(c) => guard = c

TakenOnce == \A c \in Callers :
  /\ caller[c].got # NoSnapshot => caller[c].got = final
  /\ caller[c].pc \in {"stopping", "reads"} => final = NoSnapshot

\* No start has returned, and none is under way.
NobodyOk == \A c \in Callers : ~caller[c].ok
Unused   == NobodyOk /\ \A c \in Callers : caller[c].pc # "starting"

StartsOnce ==
  /\ loop = "none" => Unused /\ \A c \in Callers : caller[c].pc \in {"idle", "wants start"}
  /\ \A c \in Callers : caller[c].pc = "starting" => NobodyOk
  /\ NobodyOk => ~counts.open

FailedStart ==
  final = NoSnapshot =>
    /\ \A c \in Callers : caller[c].pc \in {"shuts", "joins", "returns"} => Unused
    /\ loop \in {"told", "ended", "closed"} /\ ~error => Unused
DeathIsNoted == loop = "died" => error

\* Nothing is open and nothing can open.
Halted == stopping \in {"closing", "done", "failed"} /\ ~running
Still  == ~counts.open /\ ((Unused /\ loop # "none") \/ Halted)

StopHalts   == stopping \in {"closing", "done", "failed"} => ~running /\ ~counts.open
ReadsStill  == \A c \in Callers : caller[c].pc = "reads" /\ counts.errors = 0 /\ ~error => Still
FinalStill  ==
  final # NoSnapshot /\ final.errors = 0 /\ ~error
    => Still /\ ~final.open /\ final.bytes = counts.bytes

LifecycleInv ==
  /\ LifecycleTypes /\ LockIsHeld /\ TakenOnce /\ StartsOnce /\ FailedStart /\ DeathIsNoted
  /\ StopHalts /\ ReadsStill /\ FinalStill

-----------------------------------------------------------------------------
\* A thread at its place, with what it has; the others stay where they are.
Sits(c, place, got, ok) ==
  /\ caller'[c].pc = place /\ caller'[c].got = got /\ caller'[c].ok = ok
  /\ \A d \in Callers : d # c => caller'[d] = caller[d]
CallerTypes == [Callers -> [pc : Places, calls : Nat, got : Snapshots, ok : BOOLEAN]]

\* MovesTo moves one thread and keeps what it has.
LEMMA MovesSits ==
  ASSUME caller \in CallerTypes, NEW c \in Callers, NEW place \in Places, MovesTo(c, place)
  PROVE  caller' \in CallerTypes /\ Sits(c, place, caller[c].got, caller[c].ok)
BY DEF CallerTypes, MovesTo, Sits

\* Nobody has called and nothing runs.
LEMMA LifecycleStarts == InitLifecycle => LifecycleInv
<1> SUFFICES ASSUME InitLifecycle PROVE LifecycleInv
  OBVIOUS
<1>1. NoSnapshot \in Snapshots
  BY DEF NoSnapshot, Snapshots
<1>2. [pc |-> "idle", calls |-> 0, got |-> NoSnapshot, ok |-> FALSE]
        \in [pc : Places, calls : Nat, got : Snapshots, ok : BOOLEAN]
  BY <1>1, LifecycleAssumption DEF Places
<1>3. \A c \in Callers : caller[c].pc = "idle" /\ caller[c].got = NoSnapshot /\ ~caller[c].ok
  BY DEF InitLifecycle
<1>4. LifecycleTypes
  BY <1>1, <1>2 DEF InitLifecycle, LifecycleTypes
<1>5. LockIsHeld /\ TakenOnce
  BY <1>3 DEF InitLifecycle, LockIsHeld, Inside, TakenOnce
<1>6. StartsOnce /\ FailedStart /\ DeathIsNoted
  BY <1>3 DEF InitLifecycle, StartsOnce, FailedStart, DeathIsNoted, Unused, NobodyOk
<1>7. StopHalts /\ ReadsStill /\ FinalStill
  BY <1>3 DEF InitLifecycle, StopHalts, ReadsStill, FinalStill
<1> QED  BY <1>4, <1>5, <1>6, <1>7 DEF LifecycleInv

\* A start returns.
LEMMA StartedKeeps ==
  ASSUME LifecycleInv, NEW c \in Callers, Started(c)
  PROVE  LifecycleInv'
<1> USE DEF LifecycleInv
<1>1. caller' \in CallerTypes /\ Sits(c, "idle", caller[c].got, TRUE)
  BY MovesSits, LifecycleAssumption, ZenonT(60) DEF Started, LifecycleTypes, CallerTypes, Places, Sits
<1>2. LifecycleTypes'
  BY <1>1, LifecycleAssumption DEF Started, Sits, CallerTypes, LifecycleTypes
<1>3. LockIsHeld'
  BY <1>1, LifecycleAssumption DEF Started, Sits, CallerTypes, LockIsHeld, Inside
<1>4. TakenOnce'
  BY <1>1, LifecycleAssumption DEF Started, Sits, CallerTypes, TakenOnce, LockIsHeld, Inside
<1>5. StartsOnce'
  BY <1>1, LifecycleAssumption DEF Started, Sits, CallerTypes, LockIsHeld, Inside, StartsOnce, Unused, NobodyOk
<1>6. FailedStart'
  BY <1>1, LifecycleAssumption DEF Started, Sits, CallerTypes, FailedStart, Unused, NobodyOk
<1>7. DeathIsNoted'
  BY <1>1, LifecycleAssumption DEF Started, Sits, CallerTypes, DeathIsNoted
<1>8. StopHalts'
  BY <1>1, LifecycleAssumption DEF Started, Sits, CallerTypes, StopHalts
<1>9. ReadsStill'
  BY <1>1, LifecycleAssumption DEF Started, Sits, CallerTypes, ReadsStill, Still, Halted, Unused, NobodyOk
<1>10. FinalStill'
  BY <1>1, LifecycleAssumption DEF Started, Sits, CallerTypes, FinalStill, Still, Halted, Unused, NobodyOk
<1> QED  BY <1>2, <1>3, <1>4, <1>5, <1>6, <1>7, <1>8, <1>9, <1>10

\* A start fails.
LEMMA StartFailsKeeps ==
  ASSUME LifecycleInv, NEW c \in Callers, StartFails(c)
  PROVE  LifecycleInv'
<1> USE DEF LifecycleInv
<1>1. caller' \in CallerTypes /\ Sits(c, "shuts", caller[c].got, caller[c].ok)
  BY MovesSits, LifecycleAssumption DEF StartFails, LifecycleTypes, CallerTypes, Places, Sits
<1>2. LifecycleTypes'
  BY <1>1, LifecycleAssumption DEF StartFails, Sits, CallerTypes, LifecycleTypes
<1>3. LockIsHeld'
  BY <1>1, LifecycleAssumption DEF StartFails, Sits, CallerTypes, LockIsHeld, Inside
<1>4. TakenOnce'
  BY <1>1, LifecycleAssumption DEF StartFails, Sits, CallerTypes, TakenOnce, LockIsHeld, Inside
<1>5. StartsOnce'
  BY <1>1, LifecycleAssumption DEF StartFails, Sits, CallerTypes, StartsOnce, Unused, NobodyOk
<1>6. FailedStart'
  BY <1>1, LifecycleAssumption DEF StartFails, Sits, CallerTypes, LockIsHeld, Inside, StartsOnce, FailedStart, Unused, NobodyOk
<1>7. DeathIsNoted'
  BY <1>1, LifecycleAssumption DEF StartFails, Sits, CallerTypes, DeathIsNoted
<1>8. StopHalts'
  BY <1>1, LifecycleAssumption DEF StartFails, Sits, CallerTypes, StopHalts
<1>9. ReadsStill'
  BY <1>1, LifecycleAssumption DEF StartFails, Sits, CallerTypes, ReadsStill, Still, Halted, Unused, NobodyOk
<1>10. FinalStill'
  BY <1>1, LifecycleAssumption DEF StartFails, Sits, CallerTypes, FinalStill, Still, Halted, Unused, NobodyOk
<1> QED  BY <1>2, <1>3, <1>4, <1>5, <1>6, <1>7, <1>8, <1>9, <1>10

\* The stop coroutine is through.
LEMMA StoppedKeeps ==
  ASSUME LifecycleInv, NEW c \in Callers, Stopped(c)
  PROVE  LifecycleInv'
<1> USE DEF LifecycleInv
<1>1. caller' \in CallerTypes /\ Sits(c, "reads", caller[c].got, caller[c].ok)
  BY MovesSits, LifecycleAssumption DEF Stopped, LifecycleTypes, CallerTypes, Places, Sits
<1>2. LifecycleTypes'
  BY <1>1, LifecycleAssumption DEF Stopped, Sits, CallerTypes, LifecycleTypes
<1>3. LockIsHeld'
  BY <1>1, LifecycleAssumption DEF Stopped, Sits, CallerTypes, LockIsHeld, Inside
<1>4. TakenOnce'
  BY <1>1, LifecycleAssumption DEF Stopped, Sits, CallerTypes, TakenOnce, LockIsHeld, Inside
<1>5. StartsOnce'
  BY <1>1, LifecycleAssumption DEF Stopped, Sits, CallerTypes, StartsOnce, Unused, NobodyOk
<1>6. FailedStart'
  BY <1>1, LifecycleAssumption DEF Stopped, Sits, CallerTypes, FailedStart, Unused, NobodyOk
<1>7. DeathIsNoted'
  BY <1>1, LifecycleAssumption DEF Stopped, Sits, CallerTypes, DeathIsNoted
<1>8. StopHalts'
  BY <1>1, LifecycleAssumption DEF Stopped, Sits, CallerTypes, StopHalts
<1>9. ReadsStill'
  BY <1>1, LifecycleAssumption DEF Stopped, Sits, CallerTypes, LockIsHeld, Inside, StopHalts, ReadsStill, Still, Halted, Unused, NobodyOk
<1>10. FinalStill'
  BY <1>1, LifecycleAssumption DEF Stopped, Sits, CallerTypes, FinalStill, Still, Halted, Unused, NobodyOk
<1> QED  BY <1>2, <1>3, <1>4, <1>5, <1>6, <1>7, <1>8, <1>9, <1>10

\* It is not, and is counted as an error.
LEMMA StopFailsKeeps ==
  ASSUME LifecycleInv, NEW c \in Callers, StopFails(c)
  PROVE  LifecycleInv'
<1> USE DEF LifecycleInv
<1>1. caller' \in CallerTypes /\ Sits(c, "reads", caller[c].got, caller[c].ok)
  BY MovesSits, LifecycleAssumption DEF StopFails, LifecycleTypes, CallerTypes, Places, Sits
<1> counts' = [counts EXCEPT !.errors = @ + 1] /\ counts'.open = counts.open /\ counts'.bytes = counts.bytes
    /\ counts'.errors # 0
  BY DEF StopFails, LifecycleTypes
<1>2. LifecycleTypes'
  BY <1>1, LifecycleAssumption DEF StopFails, Sits, CallerTypes, LifecycleTypes
<1>3. LockIsHeld'
  BY <1>1, LifecycleAssumption DEF StopFails, Sits, CallerTypes, LockIsHeld, Inside
<1>4. TakenOnce'
  BY <1>1, LifecycleAssumption DEF StopFails, Sits, CallerTypes, TakenOnce, LockIsHeld, Inside
<1>5. StartsOnce'
  BY <1>1, LifecycleAssumption DEF StopFails, Sits, CallerTypes, StartsOnce, Unused, NobodyOk
<1>6. FailedStart'
  BY <1>1, LifecycleAssumption DEF StopFails, Sits, CallerTypes, FailedStart, Unused, NobodyOk
<1>7. DeathIsNoted'
  BY <1>1, LifecycleAssumption DEF StopFails, Sits, CallerTypes, DeathIsNoted
<1>8. StopHalts'
  BY <1>1, LifecycleAssumption DEF StopFails, Sits, CallerTypes, StopHalts
<1>9. ReadsStill'
  BY <1>1, LifecycleAssumption DEF StopFails, Sits, CallerTypes, LockIsHeld, Inside, ReadsStill, Still, Halted, Unused, NobodyOk
<1>10. FinalStill'
  BY <1>1, LifecycleAssumption DEF StopFails, Sits, CallerTypes, FinalStill, Still, Halted, Unused, NobodyOk
<1> QED  BY <1>2, <1>3, <1>4, <1>5, <1>6, <1>7, <1>8, <1>9, <1>10

\* The last snapshot is taken.
LEMMA ReadsKeeps ==
  ASSUME LifecycleInv, NEW c \in Callers, ReadsFinal(c)
  PROVE  LifecycleInv'
<1> USE DEF LifecycleInv
<1>1. caller' \in CallerTypes /\ Sits(c, "shuts", caller[c].got, caller[c].ok)
  BY MovesSits, LifecycleAssumption DEF ReadsFinal, LifecycleTypes, CallerTypes, Places, Sits
<1> final' = Now /\ Now \in Snapshots /\ Now # NoSnapshot
    /\ Now.open = counts.open /\ Now.bytes = counts.bytes /\ Now.errors = counts.errors
  BY DEF ReadsFinal, LifecycleTypes, Now, Snapshots, NoSnapshot
<1>2. LifecycleTypes'
  BY <1>1, LifecycleAssumption DEF ReadsFinal, Sits, CallerTypes, LifecycleTypes
<1>3. LockIsHeld'
  BY <1>1, LifecycleAssumption DEF ReadsFinal, Sits, CallerTypes, LockIsHeld, Inside
<1>4. TakenOnce'
  BY <1>1, LifecycleAssumption DEF ReadsFinal, Sits, CallerTypes, TakenOnce, LockIsHeld, Inside
<1>5. StartsOnce'
  BY <1>1, LifecycleAssumption DEF ReadsFinal, Sits, CallerTypes, StartsOnce, Unused, NobodyOk
<1>6. FailedStart'
  BY <1>1, LifecycleAssumption DEF ReadsFinal, Sits, CallerTypes, FailedStart, Unused, NobodyOk
<1>7. DeathIsNoted'
  BY <1>1, LifecycleAssumption DEF ReadsFinal, Sits, CallerTypes, DeathIsNoted
<1>8. StopHalts'
  BY <1>1, LifecycleAssumption DEF ReadsFinal, Sits, CallerTypes, StopHalts
<1>9. ReadsStill'
  BY <1>1, LifecycleAssumption DEF ReadsFinal, Sits, CallerTypes, ReadsStill, Still, Halted, Unused, NobodyOk
<1>10. FinalStill'
  BY <1>1, LifecycleAssumption DEF ReadsFinal, Sits, CallerTypes, ReadsStill, FinalStill, Still, Halted, Unused, NobodyOk
<1> QED  BY <1>2, <1>3, <1>4, <1>5, <1>6, <1>7, <1>8, <1>9, <1>10

\* The loop is told to stop.
LEMMA ShutsKeeps ==
  ASSUME LifecycleInv, NEW c \in Callers, Shuts(c)
  PROVE  LifecycleInv'
<1> USE DEF LifecycleInv
<1>1. caller' \in CallerTypes /\ \E place \in {"returns", "joins"} : Sits(c, place, caller[c].got, caller[c].ok)
  BY MovesSits, LifecycleAssumption DEF Shuts, LifecycleTypes, CallerTypes, Places, Sits
<1>2. LifecycleTypes'
  BY <1>1, LifecycleAssumption DEF Shuts, Sits, CallerTypes, LifecycleTypes
<1>3. LockIsHeld'
  BY <1>1, LifecycleAssumption DEF Shuts, Sits, CallerTypes, LockIsHeld, Inside
<1>4. TakenOnce'
  BY <1>1, LifecycleAssumption DEF Shuts, Sits, CallerTypes, TakenOnce, LockIsHeld, Inside
<1>5. StartsOnce'
  BY <1>1, LifecycleAssumption DEF Shuts, Sits, CallerTypes, StartsOnce, Unused, NobodyOk
<1>6. FailedStart'
  BY <1>1, LifecycleAssumption DEF Shuts, Sits, CallerTypes, FailedStart, Unused, NobodyOk
<1>7. DeathIsNoted'
  BY <1>1, LifecycleAssumption DEF Shuts, Sits, CallerTypes, DeathIsNoted
<1>8. StopHalts'
  BY <1>1, LifecycleAssumption DEF Shuts, Sits, CallerTypes, StopHalts
<1>9. ReadsStill'
  BY <1>1, LifecycleAssumption DEF Shuts, Sits, CallerTypes, ReadsStill, Still, Halted, Unused, NobodyOk
<1>10. FinalStill'
  BY <1>1, LifecycleAssumption DEF Shuts, Sits, CallerTypes, FinalStill, Still, Halted, Unused, NobodyOk
<1> QED  BY <1>2, <1>3, <1>4, <1>5, <1>6, <1>7, <1>8, <1>9, <1>10

\* Its thread is joined.
LEMMA JoinsKeeps ==
  ASSUME LifecycleInv, NEW c \in Callers, Joins(c)
  PROVE  LifecycleInv'
<1> USE DEF LifecycleInv
<1>1. caller' \in CallerTypes /\ Sits(c, "returns", caller[c].got, caller[c].ok)
  BY MovesSits, LifecycleAssumption DEF Joins, LifecycleTypes, CallerTypes, Places, Sits
<1>2. LifecycleTypes'
  BY <1>1, LifecycleAssumption DEF Joins, Sits, CallerTypes, LifecycleTypes
<1>3. LockIsHeld'
  BY <1>1, LifecycleAssumption DEF Joins, Sits, CallerTypes, LockIsHeld, Inside
<1>4. TakenOnce'
  BY <1>1, LifecycleAssumption DEF Joins, Sits, CallerTypes, TakenOnce, LockIsHeld, Inside
<1>5. StartsOnce'
  BY <1>1, LifecycleAssumption DEF Joins, Sits, CallerTypes, StartsOnce, Unused, NobodyOk
<1>6. FailedStart'
  BY <1>1, LifecycleAssumption DEF Joins, Sits, CallerTypes, FailedStart, Unused, NobodyOk
<1>7. DeathIsNoted'
  BY <1>1, LifecycleAssumption DEF Joins, Sits, CallerTypes, DeathIsNoted
<1>8. StopHalts'
  BY <1>1, LifecycleAssumption DEF Joins, Sits, CallerTypes, StopHalts
<1>9. ReadsStill'
  BY <1>1, LifecycleAssumption DEF Joins, Sits, CallerTypes, ReadsStill, Still, Halted, Unused, NobodyOk
<1>10. FinalStill'
  BY <1>1, LifecycleAssumption DEF Joins, Sits, CallerTypes, FinalStill, Still, Halted, Unused, NobodyOk
<1> QED  BY <1>2, <1>3, <1>4, <1>5, <1>6, <1>7, <1>8, <1>9, <1>10

\* The call returns.
LEMMA ReturnsKeeps ==
  ASSUME LifecycleInv, NEW c \in Callers, Returns(c)
  PROVE  LifecycleInv'
<1> USE DEF LifecycleInv
<1>1. caller' \in CallerTypes /\ Sits(c, "idle", final, caller[c].ok)
  BY LifecycleAssumption DEF Returns, LifecycleTypes, CallerTypes, Places, Sits
<1>2. LifecycleTypes'
  BY <1>1, LifecycleAssumption DEF Returns, Sits, CallerTypes, LifecycleTypes
<1>3. LockIsHeld'
  BY <1>1, LifecycleAssumption DEF Returns, Sits, CallerTypes, LockIsHeld, Inside
<1>4. TakenOnce'
  BY <1>1, LifecycleAssumption DEF Returns, Sits, CallerTypes, TakenOnce, LockIsHeld, Inside
<1>5. StartsOnce'
  BY <1>1, LifecycleAssumption DEF Returns, Sits, CallerTypes, StartsOnce, Unused, NobodyOk
<1>6. FailedStart'
  BY <1>1, LifecycleAssumption DEF Returns, Sits, CallerTypes, FailedStart, Unused, NobodyOk
<1>7. DeathIsNoted'
  BY <1>1, LifecycleAssumption DEF Returns, Sits, CallerTypes, DeathIsNoted
<1>8. StopHalts'
  BY <1>1, LifecycleAssumption DEF Returns, Sits, CallerTypes, StopHalts
<1>9. ReadsStill'
  BY <1>1, LifecycleAssumption DEF Returns, Sits, CallerTypes, ReadsStill, Still, Halted, Unused, NobodyOk
<1>10. FinalStill'
  BY <1>1, LifecycleAssumption DEF Returns, Sits, CallerTypes, FinalStill, Still, Halted, Unused, NobodyOk
<1> QED  BY <1>2, <1>3, <1>4, <1>5, <1>6, <1>7, <1>8, <1>9, <1>10

\* Counting up stays in the numbers.
LEMMA OneMore == \A n \in Nat : n + 1 \in Nat
OBVIOUS

\* A thread calls.
LEMMA CallKeeps ==
  ASSUME LifecycleInv, NEW c \in Callers, Call(c)
  PROVE  LifecycleInv'
<1> USE DEF LifecycleInv
<1> caller[c] \in [pc : Places, calls : Nat, got : Snapshots, ok : BOOLEAN]
  BY DEF LifecycleTypes
<1> caller[c].calls \in Nat
  OBVIOUS
<1> PICK place \in {"wants start", "wants stop"} : Calls(c, place) /\ (place = "wants stop" => loop # "none")
  BY DEF Call
<1> caller' = [caller EXCEPT ![c].pc = place, ![c].calls = caller[c].calls + 1]
  BY DEF Calls
<1>1. caller' \in CallerTypes /\ Sits(c, place, caller[c].got, caller[c].ok)
  <2> caller[c].calls + 1 \in Nat
    BY OneMore, Zenon
  <2> QED  BY DEF LifecycleTypes, CallerTypes, Places, Sits
<1>2. LifecycleTypes'
  BY <1>1, LifecycleAssumption DEF Calls, Sits, CallerTypes, LifecycleTypes
<1>3. LockIsHeld'
  BY <1>1, LifecycleAssumption DEF Calls, Sits, CallerTypes, LockIsHeld, Inside
<1>4. TakenOnce'
  BY <1>1, LifecycleAssumption, ZenonT(60) DEF Calls, Sits, CallerTypes, TakenOnce, LockIsHeld, Inside
<1>5. StartsOnce'
  BY <1>1, LifecycleAssumption DEF Calls, Sits, CallerTypes, StartsOnce, Unused, NobodyOk
<1>6. FailedStart'
  BY <1>1, LifecycleAssumption DEF Calls, Sits, CallerTypes, FailedStart, Unused, NobodyOk
<1>7. DeathIsNoted'
  BY <1>1, LifecycleAssumption DEF Calls, Sits, CallerTypes, DeathIsNoted
<1>8. StopHalts'
  BY <1>1, LifecycleAssumption DEF Calls, Sits, CallerTypes, StopHalts
<1>9. ReadsStill'
  BY <1>1, LifecycleAssumption, ZenonT(60) DEF Calls, Sits, CallerTypes, ReadsStill, Still, Halted, Unused, NobodyOk
<1>10. FinalStill'
  BY <1>1, LifecycleAssumption DEF Calls, Sits, CallerTypes, FinalStill, Still, Halted, Unused, NobodyOk
<1> QED  BY <1>2, <1>3, <1>4, <1>5, <1>6, <1>7, <1>8, <1>9, <1>10

\* A start finds the lock free.
LEMMA EntersStart ==
  ASSUME LifecycleInv, NEW c \in Callers, StartEnters(c)
  PROVE  LifecycleInv'
<1> USE DEF LifecycleInv
<1>1. CASE loop # "none"
  <2>1. caller' \in CallerTypes /\ Sits(c, "idle", caller[c].got, caller[c].ok)
    BY <1>1, MovesSits DEF StartEnters, LifecycleTypes, CallerTypes, Places
  <2>2. LifecycleTypes'
    BY <1>1, <2>1, LifecycleAssumption DEF StartEnters, Sits, CallerTypes, LifecycleTypes
  <2>3. LockIsHeld'
    BY <1>1, <2>1, LifecycleAssumption DEF StartEnters, Sits, CallerTypes, LockIsHeld, Inside
  <2>4. TakenOnce'
    BY <1>1, <2>1, LifecycleAssumption DEF StartEnters, Sits, CallerTypes, TakenOnce, LockIsHeld, Inside
  <2>5. StartsOnce'
    <3>1. loop' # "none" /\ counts' = counts /\ \A d \in Callers : caller'[d].ok = caller[d].ok
      BY <1>1, <2>1 DEF StartEnters, Sits
    <3>2. \A d \in Callers : caller'[d].pc = "starting" => caller[d].pc = "starting"
      BY <2>1 DEF Sits
    <3> QED  BY <3>1, <3>2 DEF StartsOnce, NobodyOk
  <2>6. FailedStart'
    BY <1>1, <2>1, LifecycleAssumption DEF StartEnters, Sits, CallerTypes, FailedStart, Unused, NobodyOk
  <2>7. DeathIsNoted'
    BY <1>1, <2>1, LifecycleAssumption DEF StartEnters, Sits, CallerTypes, DeathIsNoted
  <2>8. StopHalts'
    BY <1>1, <2>1, LifecycleAssumption DEF StartEnters, Sits, CallerTypes, StopHalts
  <2>9. ReadsStill'
    BY <1>1, <2>1, LifecycleAssumption DEF StartEnters, Sits, CallerTypes, ReadsStill, Still, Halted, Unused, NobodyOk
  <2>10. FinalStill'
    BY <1>1, <2>1, LifecycleAssumption DEF StartEnters, Sits, CallerTypes, FinalStill, Still, Halted, Unused, NobodyOk
  <2> QED  BY <2>2, <2>3, <2>4, <2>5, <2>6, <2>7, <2>8, <2>9, <2>10
<1>2. CASE loop = "none"
  <2>1. caller' \in CallerTypes /\ Sits(c, "starting", caller[c].got, caller[c].ok)
    BY <1>2, MovesSits DEF StartEnters, LifecycleTypes, CallerTypes, Places
  <2>2. LifecycleTypes'
    BY <1>2, <2>1, LifecycleAssumption DEF StartEnters, Sits, CallerTypes, LifecycleTypes
  <2>3. LockIsHeld'
    BY <1>2, <2>1, LifecycleAssumption DEF StartEnters, Sits, CallerTypes, LockIsHeld, Inside
  <2>4. TakenOnce'
    BY <1>2, <2>1, LifecycleAssumption DEF StartEnters, Sits, CallerTypes, TakenOnce, LockIsHeld, Inside
  <2>5. StartsOnce'
    BY <1>2, <2>1, LifecycleAssumption DEF StartEnters, Sits, CallerTypes, StartsOnce, Unused, NobodyOk
  <2>6. FailedStart'
    BY <1>2, <2>1, LifecycleAssumption DEF StartEnters, Sits, CallerTypes, FailedStart, Unused, NobodyOk, StartsOnce, LockIsHeld, Inside
  <2>7. DeathIsNoted'
    BY <1>2, <2>1, LifecycleAssumption DEF StartEnters, Sits, CallerTypes, DeathIsNoted
  <2>8. StopHalts'
    BY <1>2, <2>1, LifecycleAssumption DEF StartEnters, Sits, CallerTypes, StopHalts
  <2>9. ReadsStill'
    BY <1>2, <2>1, LifecycleAssumption DEF StartEnters, Sits, CallerTypes, ReadsStill, Still, Halted, Unused, NobodyOk, LockIsHeld, Inside
  <2>10. FinalStill'
    BY <1>2, <2>1, LifecycleAssumption DEF StartEnters, Sits, CallerTypes, FinalStill, Still, Halted, Unused, NobodyOk, LockIsHeld, Inside
  <2> QED  BY <2>2, <2>3, <2>4, <2>5, <2>6, <2>7, <2>8, <2>9, <2>10
<1> QED  BY <1>1, <1>2

\* A stop finds the lock free; another has taken the snapshot, or it takes the lock.
LEMMA EntersStop ==
  ASSUME LifecycleInv, NEW c \in Callers, StopEnters(c)
  PROVE  LifecycleInv'
<1> USE DEF LifecycleInv
<1>1. CASE final # NoSnapshot
  <2>1. caller' \in CallerTypes /\ Sits(c, "idle", final, caller[c].ok)
    <3>1. caller' = [caller EXCEPT ![c].pc = "idle", ![c].got = final]
      BY <1>1 DEF StopEnters
    <3> QED  BY <3>1 DEF LifecycleTypes, CallerTypes, Places, Sits
  <2>2. LifecycleTypes'
    BY <1>1, <2>1, LifecycleAssumption DEF StopEnters, Sits, CallerTypes, LifecycleTypes
  <2>3. LockIsHeld'
    BY <1>1, <2>1, LifecycleAssumption DEF StopEnters, Sits, CallerTypes, LockIsHeld, Inside
  <2>4. TakenOnce'
    BY <1>1, <2>1, LifecycleAssumption DEF StopEnters, Sits, CallerTypes, TakenOnce, LockIsHeld, Inside
  <2>5. StartsOnce'
    BY <1>1, <2>1, LifecycleAssumption DEF StopEnters, Sits, CallerTypes, StartsOnce, Unused, NobodyOk
  <2>6. FailedStart'
    BY <1>1, <2>1, LifecycleAssumption DEF StopEnters, Sits, CallerTypes, FailedStart, Unused, NobodyOk
  <2>7. DeathIsNoted'
    BY <1>1, <2>1, LifecycleAssumption DEF StopEnters, Sits, CallerTypes, DeathIsNoted
  <2>8. StopHalts'
    BY <1>1, <2>1, LifecycleAssumption DEF StopEnters, Sits, CallerTypes, StopHalts
  <2>9. ReadsStill'
    BY <1>1, <2>1, LifecycleAssumption DEF StopEnters, Sits, CallerTypes, ReadsStill, Still, Halted, Unused, NobodyOk
  <2>10. FinalStill'
    BY <1>1, <2>1, LifecycleAssumption DEF StopEnters, Sits, CallerTypes, FinalStill, Still, Halted, Unused, NobodyOk
  <2> QED  BY <2>2, <2>3, <2>4, <2>5, <2>6, <2>7, <2>8, <2>9, <2>10
<1>2. CASE final = NoSnapshot /\ ThreadAlive
  <2>1. caller' \in CallerTypes /\ Sits(c, "stopping", caller[c].got, caller[c].ok)
    BY <1>2, MovesSits DEF StopEnters, LifecycleTypes, CallerTypes, Places
  <2>2. LifecycleTypes'
    BY <1>2, <2>1, LifecycleAssumption DEF StopEnters, ThreadAlive, Sits, CallerTypes, LifecycleTypes
  <2>3. LockIsHeld'
    BY <1>2, <2>1, LifecycleAssumption DEF StopEnters, ThreadAlive, Sits, CallerTypes, LockIsHeld, Inside
  <2>4. TakenOnce'
    BY <1>2, <2>1, LifecycleAssumption DEF StopEnters, ThreadAlive, Sits, CallerTypes, TakenOnce, LockIsHeld, Inside
  <2>5. StartsOnce'
    BY <1>2, <2>1, LifecycleAssumption DEF StopEnters, ThreadAlive, Sits, CallerTypes, StartsOnce, Unused, NobodyOk
  <2>6. FailedStart'
    BY <1>2, <2>1, LifecycleAssumption DEF StopEnters, ThreadAlive, Sits, CallerTypes, FailedStart, Unused, NobodyOk
  <2>7. DeathIsNoted'
    BY <1>2, <2>1, LifecycleAssumption DEF StopEnters, ThreadAlive, Sits, CallerTypes, DeathIsNoted
  <2>8. StopHalts'
    BY <1>2, <2>1, LifecycleAssumption DEF StopEnters, ThreadAlive, Sits, CallerTypes, StopHalts
  <2>9. ReadsStill'
    BY <1>2, <2>1, LifecycleAssumption DEF StopEnters, ThreadAlive, Sits, CallerTypes, ReadsStill, Still, Halted, Unused, NobodyOk, LockIsHeld, Inside
  <2>10. FinalStill'
    BY <1>2, <2>1, LifecycleAssumption DEF StopEnters, ThreadAlive, Sits, CallerTypes, FinalStill, Still, Halted, Unused, NobodyOk
  <2> QED  BY <2>2, <2>3, <2>4, <2>5, <2>6, <2>7, <2>8, <2>9, <2>10
<1>3. CASE final = NoSnapshot /\ ~ThreadAlive
  <2>1. caller' \in CallerTypes /\ Sits(c, "reads", caller[c].got, caller[c].ok)
    BY <1>3, MovesSits DEF StopEnters, LifecycleTypes, CallerTypes, Places
  <2>2. LifecycleTypes'
    BY <1>3, <2>1, LifecycleAssumption DEF StopEnters, ThreadAlive, Sits, CallerTypes, LifecycleTypes
  <2>3. LockIsHeld'
    BY <1>3, <2>1, LifecycleAssumption DEF StopEnters, ThreadAlive, Sits, CallerTypes, LockIsHeld, Inside
  <2>4. TakenOnce'
    BY <1>3, <2>1, LifecycleAssumption DEF StopEnters, ThreadAlive, Sits, CallerTypes, TakenOnce, LockIsHeld, Inside
  <2>5. StartsOnce'
    BY <1>3, <2>1, LifecycleAssumption DEF StopEnters, ThreadAlive, Sits, CallerTypes, StartsOnce, Unused, NobodyOk
  <2>6. FailedStart'
    BY <1>3, <2>1, LifecycleAssumption DEF StopEnters, ThreadAlive, Sits, CallerTypes, FailedStart, Unused, NobodyOk
  <2>7. DeathIsNoted'
    BY <1>3, <2>1, LifecycleAssumption DEF StopEnters, ThreadAlive, Sits, CallerTypes, DeathIsNoted
  <2>8. StopHalts'
    BY <1>3, <2>1, LifecycleAssumption DEF StopEnters, ThreadAlive, Sits, CallerTypes, StopHalts
  <2>9. ReadsStill'
    BY <1>3, <2>1, LifecycleAssumption DEF StopEnters, ThreadAlive, Sits, CallerTypes, ReadsStill, Still, Halted, Unused, NobodyOk, LockIsHeld, Inside, StartsOnce, FailedStart, LifecycleTypes
  <2>10. FinalStill'
    BY <1>3, <2>1, LifecycleAssumption DEF StopEnters, ThreadAlive, Sits, CallerTypes, FinalStill, Still, Halted, Unused, NobodyOk
  <2> QED  BY <2>2, <2>3, <2>4, <2>5, <2>6, <2>7, <2>8, <2>9, <2>10
<1> QED  BY <1>1, <1>2, <1>3

\* The loop's thread, with the clients.
LEMMA LoopKeeps ==
  ASSUME LifecycleInv, RunStart \/ RunStop \/ EndStop \/ OpensOrCloses \/ Passes \/ LoopDies \/ ThreadEnds
  PROVE  LifecycleInv'
<1> USE DEF LifecycleInv
<1>1. CASE RunStart
  <2>2. LifecycleTypes'
    BY <1>1, LifecycleAssumption DEF RunStart, LoopRuns, LifecycleTypes
  <2>3. LockIsHeld'
    BY <1>1, LifecycleAssumption DEF RunStart, LoopRuns, LockIsHeld, Inside
  <2>4. TakenOnce'
    BY <1>1, LifecycleAssumption DEF RunStart, LoopRuns, TakenOnce, LockIsHeld, Inside
  <2>5. StartsOnce'
    BY <1>1, LifecycleAssumption DEF RunStart, LoopRuns, StartsOnce, Unused, NobodyOk
  <2>6. FailedStart'
    BY <1>1, LifecycleAssumption DEF RunStart, LoopRuns, FailedStart, Unused, NobodyOk
  <2>7. DeathIsNoted'
    BY <1>1, LifecycleAssumption DEF RunStart, LoopRuns, DeathIsNoted
  <2>8. StopHalts'
    BY <1>1, LifecycleAssumption DEF RunStart, LoopRuns, StopHalts
  <2>9. ReadsStill'
    BY <1>1, LifecycleAssumption DEF RunStart, LoopRuns, ReadsStill, Still, Halted, Unused, NobodyOk
  <2>10. FinalStill'
    BY <1>1, LifecycleAssumption DEF RunStart, LoopRuns, FinalStill, Still, Halted, Unused, NobodyOk
  <2> QED  BY <2>2, <2>3, <2>4, <2>5, <2>6, <2>7, <2>8, <2>9, <2>10
<1>2. CASE RunStop
  <2>1. counts' \in [open : BOOLEAN, bytes : Nat, errors : Nat] /\ ~counts'.open
        /\ counts'.bytes = counts.bytes /\ counts'.errors = counts.errors
    BY <1>2 DEF RunStop, LifecycleTypes
  <2>2. LifecycleTypes'
    BY <1>2, <2>1, LifecycleAssumption DEF RunStop, LoopRuns, LifecycleTypes
  <2>3. LockIsHeld'
    BY <1>2, <2>1, LifecycleAssumption DEF RunStop, LoopRuns, LockIsHeld, Inside
  <2>4. TakenOnce'
    BY <1>2, <2>1, LifecycleAssumption DEF RunStop, LoopRuns, TakenOnce, LockIsHeld, Inside
  <2>5. StartsOnce'
    BY <1>2, <2>1, LifecycleAssumption DEF RunStop, LoopRuns, StartsOnce, Unused, NobodyOk
  <2>6. FailedStart'
    BY <1>2, <2>1, LifecycleAssumption DEF RunStop, LoopRuns, FailedStart, Unused, NobodyOk
  <2>7. DeathIsNoted'
    BY <1>2, <2>1, LifecycleAssumption DEF RunStop, LoopRuns, DeathIsNoted
  <2>8. StopHalts'
    BY <1>2, <2>1, LifecycleAssumption DEF RunStop, LoopRuns, StopHalts
  <2>9. ReadsStill'
    BY <1>2, <2>1, LifecycleAssumption DEF RunStop, LoopRuns, ReadsStill, Still, Halted, Unused, NobodyOk
  <2>10. FinalStill'
    BY <1>2, <2>1, LifecycleAssumption DEF RunStop, LoopRuns, FinalStill, Still, Halted, Unused, NobodyOk
  <2> QED  BY <2>2, <2>3, <2>4, <2>5, <2>6, <2>7, <2>8, <2>9, <2>10
<1>3. CASE EndStop
  <2>2. LifecycleTypes'
    BY <1>3, LifecycleAssumption DEF EndStop, LoopRuns, LifecycleTypes
  <2>3. LockIsHeld'
    BY <1>3, LifecycleAssumption DEF EndStop, LoopRuns, LockIsHeld, Inside
  <2>4. TakenOnce'
    BY <1>3, LifecycleAssumption DEF EndStop, LoopRuns, TakenOnce, LockIsHeld, Inside
  <2>5. StartsOnce'
    BY <1>3, LifecycleAssumption DEF EndStop, LoopRuns, StartsOnce, Unused, NobodyOk
  <2>6. FailedStart'
    BY <1>3, LifecycleAssumption DEF EndStop, LoopRuns, FailedStart, Unused, NobodyOk
  <2>7. DeathIsNoted'
    BY <1>3, LifecycleAssumption DEF EndStop, LoopRuns, DeathIsNoted
  <2>8. StopHalts'
    BY <1>3, LifecycleAssumption DEF EndStop, LoopRuns, StopHalts
  <2>9. ReadsStill'
    BY <1>3, LifecycleAssumption DEF EndStop, LoopRuns, ReadsStill, Still, Halted, Unused, NobodyOk
  <2>10. FinalStill'
    BY <1>3, LifecycleAssumption DEF EndStop, LoopRuns, FinalStill, Still, Halted, Unused, NobodyOk
  <2> QED  BY <2>2, <2>3, <2>4, <2>5, <2>6, <2>7, <2>8, <2>9, <2>10
<1>4. CASE LoopDies
  <2>2. LifecycleTypes'
    BY <1>4, LifecycleAssumption DEF LoopDies, LoopRuns, LifecycleTypes
  <2>3. LockIsHeld'
    BY <1>4, LifecycleAssumption DEF LoopDies, LoopRuns, LockIsHeld, Inside
  <2>4. TakenOnce'
    BY <1>4, LifecycleAssumption DEF LoopDies, LoopRuns, TakenOnce, LockIsHeld, Inside
  <2>5. StartsOnce'
    BY <1>4, LifecycleAssumption DEF LoopDies, LoopRuns, StartsOnce, Unused, NobodyOk
  <2>6. FailedStart'
    BY <1>4, LifecycleAssumption DEF LoopDies, LoopRuns, FailedStart, Unused, NobodyOk
  <2>7. DeathIsNoted'
    BY <1>4, LifecycleAssumption DEF LoopDies, LoopRuns, DeathIsNoted
  <2>8. StopHalts'
    BY <1>4, LifecycleAssumption DEF LoopDies, LoopRuns, StopHalts
  <2>9. ReadsStill'
    BY <1>4, LifecycleAssumption DEF LoopDies, LoopRuns, ReadsStill, Still, Halted, Unused, NobodyOk
  <2>10. FinalStill'
    BY <1>4, LifecycleAssumption DEF LoopDies, LoopRuns, FinalStill, Still, Halted, Unused, NobodyOk
  <2> QED  BY <2>2, <2>3, <2>4, <2>5, <2>6, <2>7, <2>8, <2>9, <2>10
<1>5. CASE ThreadEnds
  <2>2. LifecycleTypes'
    BY <1>5, LifecycleAssumption DEF ThreadEnds, LoopRuns, LifecycleTypes
  <2>3. LockIsHeld'
    BY <1>5, LifecycleAssumption DEF ThreadEnds, LoopRuns, LockIsHeld, Inside
  <2>4. TakenOnce'
    BY <1>5, LifecycleAssumption DEF ThreadEnds, LoopRuns, TakenOnce, LockIsHeld, Inside
  <2>5. StartsOnce'
    BY <1>5, LifecycleAssumption DEF ThreadEnds, LoopRuns, StartsOnce, Unused, NobodyOk
  <2>6. FailedStart'
    BY <1>5, LifecycleAssumption DEF ThreadEnds, LoopRuns, DeathIsNoted, FailedStart, Unused, NobodyOk
  <2>7. DeathIsNoted'
    BY <1>5, LifecycleAssumption DEF ThreadEnds, LoopRuns, DeathIsNoted
  <2>8. StopHalts'
    BY <1>5, LifecycleAssumption DEF ThreadEnds, LoopRuns, StopHalts
  <2>9. ReadsStill'
    BY <1>5, LifecycleAssumption DEF ThreadEnds, LoopRuns, ReadsStill, Still, Halted, Unused, NobodyOk
  <2>10. FinalStill'
    BY <1>5, LifecycleAssumption DEF ThreadEnds, LoopRuns, FinalStill, Still, Halted, Unused, NobodyOk
  <2> QED  BY <2>2, <2>3, <2>4, <2>5, <2>6, <2>7, <2>8, <2>9, <2>10
<1>6. CASE OpensOrCloses \/ Passes
  <2> PICK open \in BOOLEAN, bytes \in {0, 1} : Moved(open, bytes)
    BY <1>6 DEF OpensOrCloses, Passes, LifecycleTypes
  <2> counts' = [counts EXCEPT !.open = open, !.bytes = counts.bytes + bytes] /\ counts.bytes + bytes \in Nat
    BY DEF Moved, LifecycleTypes
  <2>1. counts' \in [open : BOOLEAN, bytes : Nat, errors : Nat] /\ counts'.errors = counts.errors
    BY DEF LifecycleTypes
  <2>2. LifecycleTypes'
    BY <2>1 DEF Moved, LoopRuns, LifecycleTypes
  <2>3. LockIsHeld'
    BY <2>1 DEF Moved, LoopRuns, LockIsHeld, Inside
  <2>4. TakenOnce'
    BY <2>1 DEF Moved, LoopRuns, TakenOnce, LockIsHeld, Inside
  <2>5. StartsOnce'
    BY <2>1 DEF Moved, LoopRuns, StartsOnce, Unused, NobodyOk
  <2>6. FailedStart'
    BY <2>1 DEF Moved, LoopRuns, FailedStart, Unused, NobodyOk
  <2>7. DeathIsNoted'
    BY <2>1 DEF Moved, LoopRuns, DeathIsNoted
  <2>8. StopHalts'
    BY <2>1 DEF Moved, LoopRuns, StopHalts
  <2>9. ReadsStill'
    BY <2>1 DEF Moved, LoopRuns, ReadsStill, Still, Halted, Unused, NobodyOk, StopHalts
  <2>10. FinalStill'
    BY <2>1 DEF Moved, LoopRuns, FinalStill, Still, Halted, Unused, NobodyOk, StopHalts
  <2> QED  BY <2>2, <2>3, <2>4, <2>5, <2>6, <2>7, <2>8, <2>9, <2>10
<1> QED  BY <1>1, <1>2, <1>3, <1>4, <1>5, <1>6

\* Every step of the threads.
LEMMA LifecycleStep == LifecycleInv /\ [NextLifecycle]_lifecycleVars => LifecycleInv'
<1> SUFFICES ASSUME LifecycleInv, [NextLifecycle]_lifecycleVars PROVE LifecycleInv'
  OBVIOUS
<1>1. CASE UNCHANGED lifecycleVars
  <2> USE <1>1 DEF lifecycleVars, LifecycleInv
  <2>1. LifecycleTypes' /\ LockIsHeld' /\ TakenOnce'
    BY DEF LifecycleTypes, LockIsHeld, Inside, TakenOnce
  <2>2. StartsOnce' /\ FailedStart' /\ DeathIsNoted'
    BY DEF StartsOnce, Unused, NobodyOk, FailedStart, DeathIsNoted
  <2>3. StopHalts' /\ ReadsStill' /\ FinalStill'
    BY DEF StopHalts, ReadsStill, FinalStill, Still, Halted, Unused, NobodyOk
  <2> QED  BY <2>1, <2>2, <2>3
<1>2. ASSUME NEW c \in Callers, Call(c) \/ StepOf(c) PROVE LifecycleInv'
  BY <1>2, CallKeeps, EntersStart, StartedKeeps, StartFailsKeeps, EntersStop, StoppedKeeps, StopFailsKeeps,
     ReadsKeeps, ShutsKeeps, JoinsKeeps, ReturnsKeeps
  DEF StepOf
<1>3. CASE RunStart \/ RunStop \/ EndStop \/ OpensOrCloses \/ Passes \/ LoopDies \/ ThreadEnds
  BY <1>3, LoopKeeps
<1> QED  BY <1>1, <1>2, <1>3 DEF NextLifecycle

\* The invariant says it of the final snapshot.
LEMMA LifecycleInvEnough == LifecycleInv => FinalIsWhole
BY DEF LifecycleInv, TakenOnce, FinalStill, Still, FinalIsWhole

\* The snapshot that stop returns is one for all threads and for good, and it is whole
\* unless it or the thread's error says otherwise: for any number of threads and calls,
\* wherever a wait ends by its timeout and wherever the loop dies.
THEOREM FinalSnapshotIsWhole == LifecycleSpec => []FinalIsWhole
<1>1. InitLifecycle => LifecycleInv
  BY LifecycleStarts
<1>2. LifecycleInv /\ [NextLifecycle]_lifecycleVars => LifecycleInv'
  BY LifecycleStep
<1>3. LifecycleInv => FinalIsWhole
  BY LifecycleInvEnough
<1> QED  BY <1>1, <1>2, <1>3, PTL DEF LifecycleSpec

-----------------------------------------------------------------------------
(* The events file *)

Files  == Paths \cup {Own, Closed}
PathsOrNone == Paths \cup {Closed}
FdOrNone == Descriptors \cup {Closed}
WriterPlaces == {"unborn", "idle", "wants", "opens", "replaces", "forgets", "caches", "stuck", "writes", "drops"}
ThreadTypes == [Everyone -> [pc : WriterPlaces, path : PathsOrNone, fd : FdOrNone]]
CacheTypes  == [Processes -> [pid : Processes \cup {Nobody}, path : PathsOrNone, fd : FdOrNone]]

WriterTypes ==
  /\ habits \in Habits
  /\ named \in [Processes -> Paths]
  /\ cache \in CacheTypes
  /\ lock \in [Processes -> Everyone \cup {Nobody}]
  /\ table \in [Processes -> [Descriptors -> Files]]
  /\ thread \in ThreadTypes
  /\ forked \in {"no", "quietly", "middle"}
  /\ lines \in [Everyone -> [begun : Nat, stray : BOOLEAN]]
  /\ closed \in [Processes -> SUBSET Files]

In(t) == thread[t].pc \in {"opens", "replaces", "forgets", "caches", "stuck"}
Locked ==
  /\ \A p \in Processes : lock[p] # Nobody => Home(lock[p]) = p /\ In(lock[p])
  /\ \A t \in Everyone : In(t) => lock[Home(t)] = t

\* What a thread has at its place.
Carries(t) ==
  /\ thread[t].pc \notin {"unborn", "idle"} => thread[t].path \in Paths
  /\ thread[t].pc \in {"wants", "opens", "replaces", "forgets"} => thread[t].fd = Closed
  /\ thread[t].pc \in {"caches", "writes", "drops"} => thread[t].fd \in Descriptors
  /\ thread[t].pc = "stuck" => "forgets" \in habits
\* What one inside _descriptor finds.
Finds(t) ==
  /\ thread[t].pc \in {"opens", "caches", "stuck"} => cache[Home(t)] = NoCache
  /\ thread[t].pc \in {"replaces", "forgets"} => cache[Home(t)].pid # Nobody
  /\ thread[t].pc = "forgets" => table[Home(t)][cache[Home(t)].fd] \notin Paths
  /\ thread[t].pc = "caches" => table[Home(t)][thread[t].fd] = thread[t].path

\* Before a fork there is nothing in the child.
Unborn == forked = "no" =>
  /\ thread[Child].pc = "unborn" /\ ~lines[Child].stray
  /\ lock["child"] = Nobody /\ cache["child"] = NoCache /\ closed["child"] = {}
  /\ \A d \in Descriptors : table["child"][d] = Closed

\* The cache and the descriptor table; a process forked in the middle is not Clean.
Clean(p) == p = "child" => forked # "middle"
Forgetting(p) == lock[p] # Nobody /\ thread[lock[p]].pc = "forgets"
CacheIs(p) ==
  /\ cache[p].pid \in {p, "parent", Nobody}
  /\ cache[p].pid = Nobody => cache[p] = NoCache
  /\ cache[p].pid # Nobody => cache[p].fd \in Descriptors /\ cache[p].path \in Paths
  /\ cache[p].pid = p /\ ~Forgetting(p) => table[p][cache[p].fd] = cache[p].path
  /\ Clean(p) /\ cache[p].pid # Nobody /\ ~Forgetting(p) => table[p][cache[p].fd] \in Paths
OnlyThese(p) ==
  Clean(p) =>
    /\ Own \notin closed[p]
    /\ \A d \in Descriptors : table[p][d] \in Paths =>
         d = cache[p].fd \/ (lock[p] # Nobody /\ d = thread[lock[p]].fd)

\* What is written, or about to be, goes to the right file.
NotAstray(t) ==
  closed[Home(t)] = {} =>
    /\ ~lines[t].stray
    /\ thread[t].pc = "writes" => table[Home(t)][thread[t].fd] = thread[t].path

WriterInv ==
  /\ WriterTypes /\ Locked /\ Unborn
  /\ \A t \in Everyone : Carries(t) /\ Finds(t) /\ NotAstray(t)
  /\ \A p \in Processes : CacheIs(p) /\ OnlyThese(p)

-----------------------------------------------------------------------------
\* Everyone is of one of the two processes, the forked child of its own.
LEMMA Homes == \A t \in Everyone : Home(t) \in Processes /\ (Home(t) = "child" <=> t = Child)
  BY DEF Home, Processes

\* emit begins.
LEMMA EmitKeeps ==
  ASSUME WriterInv, NEW t \in Everyone, Emit(t)
  PROVE  WriterInv'
<1> USE WriterAssumption, Homes DEF WriterInv, Home, Processes, Closed, Nobody, Own, NoCache, Moves, Becomes, Free
<1>1. /\ thread'[t].pc = "wants"
      /\ thread'[t].path = named[Home(t)]
      /\ thread'[t].fd = Closed
      /\ \A u \in Everyone : u # t => thread'[u] = thread[u]
  BY DEF Emit, WriterTypes, ThreadTypes, CacheTypes, WriterPlaces, PathsOrNone, FdOrNone, Files
<1>2. /\ lines'[t].begun \in Nat /\ lines'[t].stray = lines[t].stray
      /\ \A u \in Everyone : u # t => lines'[u] = lines[u]
  BY OneMore DEF Emit, WriterTypes, ThreadTypes, CacheTypes, WriterPlaces, PathsOrNone, FdOrNone, Files
<1>w. WriterTypes'
  BY <1>1, <1>2 DEF WriterTypes, ThreadTypes, CacheTypes, WriterPlaces, PathsOrNone, FdOrNone, Files, Emit
<1>l. Locked'
  BY <1>1, <1>2 DEF Locked, In, Emit
<1>u. Unborn'
  BY <1>1, <1>2 DEF Unborn, Emit
<1>ca. ASSUME NEW u \in Everyone PROVE Carries(u)'
  BY <1>1, <1>2 DEF Carries, WriterTypes, Emit
<1>fi. ASSUME NEW u \in Everyone PROVE Finds(u)'
  BY <1>1, <1>2 DEF Finds, Emit
<1>no. ASSUME NEW u \in Everyone PROVE NotAstray(u)'
  BY <1>1, <1>2 DEF NotAstray, Emit
<1>ci. ASSUME NEW q \in Processes PROVE CacheIs(q)'
  BY <1>1, <1>2 DEF CacheIs, Forgetting, Clean, WriterTypes, Emit
<1>on. ASSUME NEW q \in Processes PROVE OnlyThese(q)'
  BY <1>1, <1>2 DEF OnlyThese, Clean, Locked, In, Emit
<1> QED BY <1>w, <1>l, <1>u, <1>ca, <1>fi, <1>no, <1>ci, <1>on

\* The cached descriptor is closed; nothing of its process may rely on it.
LEMMA ReplaceKeeps ==
  ASSUME WriterInv, NEW t \in Everyone, Replace(t)
  PROVE  WriterInv'
<1> USE WriterAssumption, Homes DEF WriterInv, Home, Processes, Closed, Nobody, Own, NoCache, Moves, Becomes, Free
<1>1. /\ thread'[t].pc = "forgets"
      /\ thread'[t].path = thread[t].path
      /\ thread'[t].fd = thread[t].fd
      /\ \A u \in Everyone : u # t => thread'[u] = thread[u]
  BY DEF Replace, WriterTypes, ThreadTypes, CacheTypes, WriterPlaces, PathsOrNone, FdOrNone, Files
<1>w. WriterTypes'
  <2>1. cache[Home(t)].fd \in Descriptors
    BY DEF Replace, Finds, CacheIs
  <2> QED BY <1>1, <2>1 DEF Replace, WriterTypes, ThreadTypes, CacheTypes, WriterPlaces, Files
<1>l. Locked'
  BY <1>1 DEF Locked, In, Replace
<1>u. Unborn'
  BY <1>1 DEF Unborn, Replace
<1>ca. ASSUME NEW u \in Everyone PROVE Carries(u)'
  BY <1>1 DEF Carries, Replace
<1>fi. ASSUME NEW u \in Everyone PROVE Finds(u)'
  BY <1>1
     DEF Finds, Carries, Locked, In, CacheIs, Forgetting, WriterTypes, ThreadTypes, CacheTypes, WriterPlaces,
         PathsOrNone, FdOrNone, Files, Replace
<1>no. ASSUME NEW u \in Everyone PROVE NotAstray(u)'
  <2>1. CASE Home(u) = Home(t)
    <3>1. closed'[Home(u)] # {}
      BY <2>1 DEF Replace, WriterTypes
    <3> QED BY <3>1 DEF NotAstray
  <2>2. CASE Home(u) # Home(t)
    <3>1. closed'[Home(u)] = closed[Home(u)] /\ table'[Home(u)] = table[Home(u)] /\ thread'[u] = thread[u]
      BY <1>1, <2>2 DEF Replace, WriterTypes
    <3> QED BY <3>1 DEF Replace, NotAstray
  <2> QED BY <2>1, <2>2
<1>ci. ASSUME NEW q \in Processes PROVE CacheIs(q)'
  BY <1>1 DEF CacheIs, Forgetting, Clean, Locked, In, WriterTypes, Replace
<1>on. ASSUME NEW q \in Processes PROVE OnlyThese(q)'
  BY <1>1 DEF OnlyThese, Clean, CacheIs, Forgetting, Finds, Locked, In, WriterTypes, Replace
<1> QED BY <1>w, <1>l, <1>u, <1>ca, <1>fi, <1>no, <1>ci, <1>on

\* The cache is emptied.
LEMMA ForgetKeeps ==
  ASSUME WriterInv, NEW t \in Everyone, Forget(t)
  PROVE  WriterInv'
<1> USE WriterAssumption, Homes DEF WriterInv, Home, Processes, Closed, Nobody, Own, NoCache, Moves, Becomes, Free
<1>1. /\ thread'[t].pc = "opens"
      /\ thread'[t].path = thread[t].path
      /\ thread'[t].fd = thread[t].fd
      /\ \A u \in Everyone : u # t => thread'[u] = thread[u]
  BY DEF Forget, WriterTypes, ThreadTypes, CacheTypes, WriterPlaces, PathsOrNone, FdOrNone, Files
<1>w. WriterTypes'
  BY <1>1 DEF WriterTypes, ThreadTypes, CacheTypes, WriterPlaces, PathsOrNone, FdOrNone, Files, Forget
<1>l. Locked'
  BY <1>1 DEF Locked, In, Forget
<1>u. Unborn'
  BY <1>1 DEF Unborn, Forget
<1>ca. ASSUME NEW u \in Everyone PROVE Carries(u)'
  BY <1>1 DEF Carries, Forget
<1>fi. ASSUME NEW u \in Everyone PROVE Finds(u)'
  BY <1>1 DEF Finds, Locked, In, WriterTypes, CacheTypes, Forget
<1>no. ASSUME NEW u \in Everyone PROVE NotAstray(u)'
  BY <1>1 DEF NotAstray, Forget
<1>ci. ASSUME NEW q \in Processes PROVE CacheIs(q)'
  BY <1>1
     DEF CacheIs, Carries, Finds, Forgetting, Clean, Locked, In, WriterTypes, ThreadTypes, CacheTypes,
         WriterPlaces, PathsOrNone, FdOrNone, Files, Forget
<1>on. ASSUME NEW q \in Processes PROVE OnlyThese(q)'
  BY <1>1 DEF OnlyThese, Clean, CacheIs, Forgetting, Finds, Locked, In, WriterTypes, Forget
<1> QED BY <1>w, <1>l, <1>u, <1>ca, <1>fi, <1>no, <1>ci, <1>on

\* A finaliser waits for its own lock.
LEMMA FinaliserKeeps ==
  ASSUME WriterInv, NEW t \in Everyone, Finaliser(t)
  PROVE  WriterInv'
<1> USE WriterAssumption, Homes DEF WriterInv, Home, Processes, Closed, Nobody, Own, NoCache, Moves, Becomes, Free
<1>1. /\ thread'[t].pc = "stuck"
      /\ thread'[t].path = thread[t].path
      /\ thread'[t].fd = thread[t].fd
      /\ \A u \in Everyone : u # t => thread'[u] = thread[u]
  BY DEF Finaliser, WriterTypes, ThreadTypes, CacheTypes, WriterPlaces, PathsOrNone, FdOrNone, Files
<1>w. WriterTypes'
  BY <1>1 DEF WriterTypes, ThreadTypes, WriterPlaces, Finaliser
<1>l. Locked'
  BY <1>1 DEF Locked, In, Finaliser
<1>u. Unborn'
  BY <1>1 DEF Unborn, Finaliser
<1>ca. ASSUME NEW u \in Everyone PROVE Carries(u)'
  BY <1>1 DEF Carries, Finaliser
<1>fi. ASSUME NEW u \in Everyone PROVE Finds(u)'
  BY <1>1 DEF Finds, Finaliser
<1>no. ASSUME NEW u \in Everyone PROVE NotAstray(u)'
  BY <1>1 DEF NotAstray, Finaliser
<1>ci. ASSUME NEW q \in Processes PROVE CacheIs(q)'
  BY <1>1 DEF CacheIs, Forgetting, Clean, WriterTypes, Finaliser
<1>on. ASSUME NEW q \in Processes PROVE OnlyThese(q)'
  BY <1>1 DEF OnlyThese, Clean, Finaliser
<1> QED BY <1>w, <1>l, <1>u, <1>ca, <1>fi, <1>no, <1>ci, <1>on

\* The new descriptor is cached.
LEMMA CacheKeeps ==
  ASSUME WriterInv, NEW t \in Everyone, Cache(t)
  PROVE  WriterInv'
<1> USE WriterAssumption, Homes DEF WriterInv, Home, Processes, Closed, Nobody, Own, NoCache, Moves, Becomes, Free
<1>1. /\ thread'[t].pc = "writes"
      /\ thread'[t].path = thread[t].path
      /\ thread'[t].fd = thread[t].fd
      /\ \A u \in Everyone : u # t => thread'[u] = thread[u]
  BY DEF Cache, WriterTypes, ThreadTypes, CacheTypes, WriterPlaces, PathsOrNone, FdOrNone, Files
<1>w. WriterTypes'
  BY <1>1 DEF WriterTypes, ThreadTypes, CacheTypes, WriterPlaces, PathsOrNone, FdOrNone, Files, Cache
<1>l. Locked'
  BY <1>1 DEF Locked, In, WriterTypes, Cache
<1>u. Unborn'
  BY <1>1 DEF Unborn, Cache
<1>ca. ASSUME NEW u \in Everyone PROVE Carries(u)'
  BY <1>1 DEF Carries, Cache
<1>fi. ASSUME NEW u \in Everyone PROVE Finds(u)'
  BY <1>1 DEF Finds, Locked, In, Cache
<1>no. ASSUME NEW u \in Everyone PROVE NotAstray(u)'
  BY <1>1 DEF NotAstray, Finds, WriterTypes, Cache
<1>ci. ASSUME NEW q \in Processes PROVE CacheIs(q)'
  BY <1>1 DEF CacheIs, Forgetting, Clean, Finds, Carries, Locked, In, WriterTypes, Cache
<1>on. ASSUME NEW q \in Processes PROVE OnlyThese(q)'
  BY <1>1
     DEF OnlyThese, CacheIs, Carries, Finds, Forgetting, Clean, Locked, In, WriterTypes, ThreadTypes,
         CacheTypes, WriterPlaces, PathsOrNone, FdOrNone, Files, Cache
<1> QED BY <1>w, <1>l, <1>u, <1>ca, <1>fi, <1>no, <1>ci, <1>on

\* _descriptor: the cached one.
LEMMA ReturnsCached ==
  ASSUME WriterInv, NEW t \in Everyone, Enter(t), Cached(t)
  PROVE  WriterInv'
<1> USE WriterAssumption, Homes DEF WriterInv, Home, Processes, Closed, Nobody, Own, NoCache, Moves, Becomes, Free
<1>1. thread[t].pc = "wants" /\ UNCHANGED <<habits, named, cache, table, forked, lines, closed, lock>>
  BY DEF Enter, Cached
<1>2. forked = "no" => t # Child
  BY <1>1 DEF Unborn
<1>3. thread' = [thread EXCEPT ![t].pc = "writes", ![t].fd = cache[Home(t)].fd]
  BY DEF Enter
<1>4. /\ thread'[t].pc = "writes"
      /\ thread'[t].path = thread[t].path
      /\ thread'[t].fd = cache[Home(t)].fd
      /\ \A u \in Everyone : u # t => thread'[u] = thread[u]
  BY <1>3 DEF ThreadTypes, WriterTypes
<1>5. cache[Home(t)].fd \in Descriptors /\ cache[Home(t)].pid = Home(t) /\ cache[Home(t)].path = thread[t].path
  BY DEF Cached, CacheIs
<1>w. WriterTypes'
  BY <1>1, <1>2, <1>3, <1>4, <1>5, ZenonT(60) DEF WriterTypes, ThreadTypes, CacheTypes, WriterPlaces, PathsOrNone, FdOrNone, Files
<1>l. Locked'
  BY <1>1, <1>2, <1>3, <1>4, <1>5 DEF Locked, In, WriterTypes, ThreadTypes
<1>u. Unborn'
  BY <1>1, <1>2, <1>3, <1>4, <1>5 DEF Unborn, Everyone
<1>ca. ASSUME NEW u \in Everyone PROVE Carries(u)'
  BY <1>1, <1>2, <1>3, <1>4, <1>5 DEF Carries
<1>fi. ASSUME NEW u \in Everyone PROVE Finds(u)'
  BY <1>1, <1>2, <1>3, <1>4, <1>5, ZenonT(60) DEF Finds
<1>no. ASSUME NEW u \in Everyone PROVE NotAstray(u)'
  BY <1>1, <1>2, <1>3, <1>4, <1>5
     DEF NotAstray, Carries, Finds, Locked, In, CacheIs, Forgetting, WriterTypes, ThreadTypes,
         CacheTypes, WriterPlaces, PathsOrNone, FdOrNone, Files
<1>ci. ASSUME NEW q \in Processes PROVE CacheIs(q)'
  BY <1>1, <1>2, <1>3, <1>4, <1>5
     DEF CacheIs, Carries, Finds, Forgetting, Clean, Locked, In, WriterTypes, ThreadTypes, CacheTypes,
         WriterPlaces, PathsOrNone, FdOrNone, Files
<1>on. ASSUME NEW q \in Processes PROVE OnlyThese(q)'
  BY <1>1, <1>2, <1>3, <1>4, <1>5
     DEF OnlyThese, CacheIs, Carries, Finds, Forgetting, Clean, Locked, In, WriterTypes, ThreadTypes,
         CacheTypes, WriterPlaces, PathsOrNone, FdOrNone, Files
<1> QED BY <1>w, <1>l, <1>u, <1>ca, <1>fi, <1>no, <1>ci, <1>on

\* _descriptor: none, or another's; the lock is kept.
LEMMA TakesLock ==
  ASSUME WriterInv, NEW t \in Everyone, Enter(t), ~Cached(t)
  PROVE  WriterInv'
<1> USE WriterAssumption, Homes DEF WriterInv, Home, Processes, Closed, Nobody, Own, NoCache, Moves, Becomes, Free
<1>1. thread[t].pc = "wants" /\ UNCHANGED <<habits, named, cache, table, forked, lines, closed>>
  BY DEF Enter
<1>2. forked = "no" => t # Child
  BY <1>1 DEF Unborn
<1>3. lock' = [lock EXCEPT ![Home(t)] = t] /\ lock[Home(t)] = Nobody
  BY DEF Enter
<1>4. Moves(t, IF cache[Home(t)].pid = Nobody THEN "opens" ELSE "replaces")
  BY DEF Enter
<1>5. /\ thread'[t].pc = IF cache[Home(t)].pid = Nobody THEN "opens" ELSE "replaces"
      /\ thread'[t].path = thread[t].path
      /\ thread'[t].fd = thread[t].fd
      /\ \A u \in Everyone : u # t => thread'[u] = thread[u]
  BY <1>4 DEF ThreadTypes, WriterTypes
<1>w. WriterTypes'
  BY <1>1, <1>2, <1>3, <1>4, <1>5 DEF WriterTypes, ThreadTypes, WriterPlaces
<1>l. Locked'
  BY <1>1, <1>2, <1>3, <1>4, <1>5 DEF Locked, In, WriterTypes
<1>u. Unborn'
  BY <1>1, <1>2, <1>3, <1>4, <1>5 DEF Unborn
<1>ca. ASSUME NEW u \in Everyone PROVE Carries(u)'
  BY <1>1, <1>2, <1>3, <1>4, <1>5 DEF Carries
<1>fi. ASSUME NEW u \in Everyone PROVE Finds(u)'
  BY <1>1, <1>2, <1>3, <1>4, <1>5
     DEF Finds, Carries, Locked, In, CacheIs, Forgetting, WriterTypes, ThreadTypes, CacheTypes, WriterPlaces,
         PathsOrNone, FdOrNone, Files
<1>no. ASSUME NEW u \in Everyone PROVE NotAstray(u)'
  BY <1>1, <1>2, <1>3, <1>4, <1>5 DEF NotAstray
<1>ci. ASSUME NEW q \in Processes PROVE CacheIs(q)'
  BY <1>1, <1>2, <1>3, <1>4, <1>5 DEF CacheIs, Forgetting, Clean, WriterTypes
<1>on. ASSUME NEW q \in Processes PROVE OnlyThese(q)'
  BY <1>1, <1>2, <1>3, <1>4, <1>5 DEF OnlyThese, Clean
<1> QED BY <1>w, <1>l, <1>u, <1>ca, <1>fi, <1>no, <1>ci, <1>on

\* os.open succeeds.
LEMMA OpensFile ==
  ASSUME WriterInv, NEW t \in Everyone, NEW d \in Free(Home(t)), Open(t),
         thread' = [thread EXCEPT ![t].pc = "caches", ![t].fd = d], Becomes(Home(t), d,
         thread[t].path), lock' = lock
  PROVE  WriterInv'
<1> USE WriterAssumption, Homes DEF WriterInv, Home, Processes, Closed, Nobody, Own, NoCache, Moves, Becomes, Free
<1>1. thread[t].pc = "opens" /\ UNCHANGED <<habits, named, cache, forked, lines, closed>>
  BY DEF Open
<1>2. forked = "no" => t # Child
  BY <1>1 DEF Unborn
<1>3. /\ thread'[t].pc = "caches"
      /\ thread'[t].path = thread[t].path
      /\ thread'[t].fd = d
      /\ \A u \in Everyone : u # t => thread'[u] = thread[u]
  BY DEF ThreadTypes, WriterTypes
<1>4. d \in Descriptors /\ table[Home(t)][d] = Closed
  OBVIOUS
<1>5. lock[Home(t)] = t /\ thread[t].path \in Paths
  BY <1>1 DEF Locked, In, Carries
<1>w. WriterTypes'
  BY <1>1, <1>2, <1>3, <1>4, <1>5, ZenonT(60) DEF WriterTypes, ThreadTypes, CacheTypes, WriterPlaces, PathsOrNone, FdOrNone, Files
<1>l. Locked'
  BY <1>1, <1>2, <1>3, <1>4, <1>5 DEF Locked, In, WriterTypes, ThreadTypes
<1>u. Unborn'
  <2>1. forked = "no" => Home(t) = "parent"
    BY <1>2
  <2>2. table'["child"] = table["child"] \/ forked # "no"
    BY <2>1 DEF WriterTypes
  <2>3. thread'[Child] = thread[Child] \/ forked # "no"
    BY <1>2, <1>3 DEF Everyone
  <2> QED BY <1>1, <2>2, <2>3 DEF Unborn
<1>ca. ASSUME NEW u \in Everyone PROVE Carries(u)'
  BY <1>1, <1>2, <1>3, <1>4, <1>5 DEF Carries
<1>fi. ASSUME NEW u \in Everyone PROVE Finds(u)'
  BY <1>1, <1>2, <1>3, <1>4, <1>5
     DEF Finds, Carries, Locked, In, CacheIs, Forgetting, WriterTypes, ThreadTypes, CacheTypes, WriterPlaces,
         PathsOrNone, FdOrNone, Files
<1>no. ASSUME NEW u \in Everyone PROVE NotAstray(u)'
  BY <1>1, <1>2, <1>3, <1>4, <1>5
     DEF NotAstray, Carries, Finds, Locked, In, CacheIs, Forgetting, WriterTypes, ThreadTypes,
         CacheTypes, WriterPlaces, PathsOrNone, FdOrNone, Files
<1>ci. ASSUME NEW q \in Processes PROVE CacheIs(q)'
  BY <1>1, <1>2, <1>3, <1>4, <1>5
     DEF CacheIs, Carries, Finds, Forgetting, Clean, Locked, In, WriterTypes, ThreadTypes, CacheTypes,
         WriterPlaces, PathsOrNone, FdOrNone, Files
<1>on. ASSUME NEW q \in Processes PROVE OnlyThese(q)'
  BY <1>1, <1>2, <1>3, <1>4, <1>5
     DEF OnlyThese, CacheIs, Carries, Finds, Forgetting, Clean, Locked, In, WriterTypes, ThreadTypes,
         CacheTypes, WriterPlaces, PathsOrNone, FdOrNone, Files
<1> QED BY <1>w, <1>l, <1>u, <1>ca, <1>fi, <1>no, <1>ci, <1>on

\* os.open fails.
LEMMA CannotOpen ==
  ASSUME WriterInv, NEW t \in Everyone, Open(t), Moves(t, "idle"),
         lock' = [lock EXCEPT ![Home(t)] = Nobody], table' = table
  PROVE  WriterInv'
<1> USE WriterAssumption, Homes DEF WriterInv, Home, Processes, Closed, Nobody, Own, NoCache, Moves, Becomes, Free
<1>1. thread[t].pc = "opens" /\ UNCHANGED <<habits, named, cache, forked, lines, closed>>
  BY DEF Open
<1>2. forked = "no" => t # Child
  BY <1>1 DEF Unborn
<1>3. /\ thread'[t].pc = "idle"
      /\ thread'[t].path = thread[t].path
      /\ thread'[t].fd = thread[t].fd
      /\ \A u \in Everyone : u # t => thread'[u] = thread[u]
  BY DEF ThreadTypes, WriterTypes
<1>4. lock[Home(t)] = t
  BY <1>1 DEF Locked, In
<1>w. WriterTypes'
  BY <1>1, <1>2, <1>3, <1>4 DEF WriterTypes, ThreadTypes, WriterPlaces
<1>l. Locked'
  BY <1>1, <1>2, <1>3, <1>4 DEF Locked, In, WriterTypes
<1>u. Unborn'
  BY <1>1, <1>2, <1>3, <1>4 DEF Unborn
<1>ca. ASSUME NEW u \in Everyone PROVE Carries(u)'
  BY <1>1, <1>2, <1>3, <1>4 DEF Carries
<1>fi. ASSUME NEW u \in Everyone PROVE Finds(u)'
  BY <1>1, <1>2, <1>3, <1>4 DEF Finds
<1>no. ASSUME NEW u \in Everyone PROVE NotAstray(u)'
  BY <1>1, <1>2, <1>3, <1>4 DEF NotAstray
<1>ci. ASSUME NEW q \in Processes PROVE CacheIs(q)'
  BY <1>1, <1>2, <1>3, <1>4 DEF CacheIs, Forgetting, Clean, WriterTypes
<1>on. ASSUME NEW q \in Processes PROVE OnlyThese(q)'
  BY <1>1, <1>2, <1>3, <1>4
     DEF OnlyThese, CacheIs, Carries, Finds, Forgetting, Clean, Locked, In, WriterTypes, ThreadTypes,
         CacheTypes, WriterPlaces, PathsOrNone, FdOrNone, Files
<1> QED BY <1>w, <1>l, <1>u, <1>ca, <1>fi, <1>no, <1>ci, <1>on

\* os.write succeeds.
LEMMA WritesLine ==
  ASSUME WriterInv, NEW t \in Everyone, Write(t), Moves(t, "idle"),
         lines' = [lines EXCEPT ![t].stray = @ \/ table[Home(t)][thread[t].fd] # thread[t].path]
  PROVE  WriterInv'
<1> USE WriterAssumption, Homes DEF WriterInv, Home, Processes, Closed, Nobody, Own, NoCache, Moves, Becomes, Free
<1>1. thread[t].pc = "writes" /\ UNCHANGED <<habits, named, cache, lock, table, forked, closed>>
  BY DEF Write
<1>2. forked = "no" => t # Child
  BY <1>1 DEF Unborn
<1>3. /\ thread'[t].pc = "idle"
      /\ thread'[t].path = thread[t].path
      /\ thread'[t].fd = thread[t].fd
      /\ \A u \in Everyone : u # t => thread'[u] = thread[u]
  BY DEF ThreadTypes, WriterTypes
<1>4. /\ lines' \in [Everyone -> [begun : Nat, stray : BOOLEAN]]
      /\ lines'[t].stray = (lines[t].stray \/ table[Home(t)][thread[t].fd] # thread[t].path)
      /\ \A u \in Everyone : u # t => lines'[u] = lines[u]
  <2> DEFINE s == lines[t].stray \/ table[Home(t)][thread[t].fd] # thread[t].path
  <2>1. s \in BOOLEAN
    BY DEF WriterTypes
  <2>2. lines' = [lines EXCEPT ![t].stray = s]
    OBVIOUS
  <2> HIDE DEF s
  <2>3. /\ lines' \in [Everyone -> [begun : Nat, stray : BOOLEAN]] /\ lines'[t].stray = s
        /\ \A u \in Everyone : u # t => lines'[u] = lines[u]
    BY <2>1, <2>2 DEF WriterTypes
  <2> QED BY <2>3 DEF s
<1>w. WriterTypes'
  BY <1>1, <1>2, <1>3, <1>4 DEF WriterTypes, ThreadTypes, WriterPlaces
<1>l. Locked'
  BY <1>1, <1>2, <1>3, <1>4 DEF Locked, In
<1>u. Unborn'
  BY <1>1, <1>2, <1>3, <1>4 DEF Unborn
<1>ca. ASSUME NEW u \in Everyone PROVE Carries(u)'
  BY <1>1, <1>2, <1>3, <1>4 DEF Carries
<1>fi. ASSUME NEW u \in Everyone PROVE Finds(u)'
  BY <1>1, <1>2, <1>3, <1>4 DEF Finds
<1>no. ASSUME NEW u \in Everyone PROVE NotAstray(u)'
  BY <1>1, <1>2, <1>3, <1>4 DEF NotAstray
<1>ci. ASSUME NEW q \in Processes PROVE CacheIs(q)'
  BY <1>1, <1>2, <1>3, <1>4 DEF CacheIs, Forgetting, Clean, WriterTypes
<1>on. ASSUME NEW q \in Processes PROVE OnlyThese(q)'
  BY <1>1, <1>2, <1>3, <1>4 DEF OnlyThese, Clean
<1> QED BY <1>w, <1>l, <1>u, <1>ca, <1>fi, <1>no, <1>ci, <1>on

\* os.write fails.
LEMMA FailsToWrite ==
  ASSUME WriterInv, NEW t \in Everyone, Write(t), Moves(t, "drops"), lines' = lines
  PROVE  WriterInv'
<1> USE WriterAssumption, Homes DEF WriterInv, Home, Processes, Closed, Nobody, Own, NoCache, Moves, Becomes, Free
<1>1. thread[t].pc = "writes" /\ UNCHANGED <<habits, named, cache, lock, table, forked, closed>>
  BY DEF Write
<1>2. forked = "no" => t # Child
  BY <1>1 DEF Unborn
<1>3. /\ thread'[t].pc = "drops"
      /\ thread'[t].path = thread[t].path
      /\ thread'[t].fd = thread[t].fd
      /\ \A u \in Everyone : u # t => thread'[u] = thread[u]
  BY DEF ThreadTypes, WriterTypes
<1>w. WriterTypes'
  BY <1>1, <1>2, <1>3 DEF WriterTypes, ThreadTypes, WriterPlaces
<1>l. Locked'
  BY <1>1, <1>2, <1>3 DEF Locked, In
<1>u. Unborn'
  BY <1>1, <1>2, <1>3 DEF Unborn
<1>ca. ASSUME NEW u \in Everyone PROVE Carries(u)'
  BY <1>1, <1>2, <1>3 DEF Carries
<1>fi. ASSUME NEW u \in Everyone PROVE Finds(u)'
  BY <1>1, <1>2, <1>3 DEF Finds
<1>no. ASSUME NEW u \in Everyone PROVE NotAstray(u)'
  BY <1>1, <1>2, <1>3 DEF NotAstray
<1>ci. ASSUME NEW q \in Processes PROVE CacheIs(q)'
  BY <1>1, <1>2, <1>3 DEF CacheIs, Forgetting, Clean, WriterTypes
<1>on. ASSUME NEW q \in Processes PROVE OnlyThese(q)'
  BY <1>1, <1>2, <1>3 DEF OnlyThese, Clean
<1> QED BY <1>w, <1>l, <1>u, <1>ca, <1>fi, <1>no, <1>ci, <1>on

\* _drop_descriptor: the number is the cached one.
LEMMA DropsMine ==
  ASSUME WriterInv, NEW t \in Everyone, Drop(t), cache[Home(t)].fd = thread[t].fd
  PROVE  WriterInv'
<1> USE WriterAssumption, Homes DEF WriterInv, Home, Processes, Closed, Nobody, Own, NoCache, Moves, Becomes, Free
<1>1. thread[t].pc = "drops" /\ UNCHANGED <<habits, named, lock, forked, lines>>
  BY DEF Drop
<1>2. forked = "no" => t # Child
  BY <1>1 DEF Unborn
<1>3. /\ lock[Home(t)] = Nobody
      /\ Moves(t, "idle")
      /\ cache' = [cache EXCEPT ![Home(t)] = NoCache]
      /\ Becomes(Home(t), thread[t].fd, Closed)
      /\ closed' = [closed EXCEPT ![Home(t)] = @ \cup {table[Home(t)][thread[t].fd]}]
  BY DEF Drop
<1>4. /\ thread'[t].pc = "idle"
      /\ thread'[t].path = thread[t].path
      /\ thread'[t].fd = thread[t].fd
      /\ \A u \in Everyone : u # t => thread'[u] = thread[u]
  BY <1>3 DEF ThreadTypes, WriterTypes
<1>5. thread[t].fd \in Descriptors
  BY <1>1 DEF Carries
<1>w. WriterTypes'
  BY <1>1, <1>2, <1>3, <1>4, <1>5 DEF WriterTypes, ThreadTypes, CacheTypes, WriterPlaces, PathsOrNone, FdOrNone, Files
<1>l. Locked'
  BY <1>1, <1>2, <1>3, <1>4, <1>5 DEF Locked, In
<1>u. Unborn'
  BY <1>1, <1>2, <1>3, <1>4, <1>5 DEF Unborn
<1>ca. ASSUME NEW u \in Everyone PROVE Carries(u)'
  BY <1>1, <1>2, <1>3, <1>4, <1>5 DEF Carries
<1>fi. ASSUME NEW u \in Everyone PROVE Finds(u)'
  BY <1>1, <1>2, <1>3, <1>4, <1>5 DEF Finds, Locked, In
<1>no. ASSUME NEW u \in Everyone PROVE NotAstray(u)'
  <2>1. CASE Home(u) = Home(t)
    <3>1. closed'[Home(u)] # {}
      BY <1>3, <2>1 DEF WriterTypes
    <3> QED BY <3>1 DEF NotAstray
  <2>2. CASE Home(u) # Home(t)
    <3>1. closed'[Home(u)] = closed[Home(u)] /\ table'[Home(u)] = table[Home(u)] /\ thread'[u] = thread[u]
      BY <1>3, <1>4, <2>2 DEF WriterTypes
    <3> QED BY <1>1, <3>1 DEF NotAstray
  <2> QED BY <2>1, <2>2
<1>ci. ASSUME NEW q \in Processes PROVE CacheIs(q)'
  BY <1>1, <1>2, <1>3, <1>4, <1>5
     DEF CacheIs, Carries, Finds, Forgetting, Clean, Locked, In, WriterTypes, ThreadTypes, CacheTypes,
         WriterPlaces, PathsOrNone, FdOrNone, Files
<1>on. ASSUME NEW q \in Processes PROVE OnlyThese(q)'
  BY <1>1, <1>2, <1>3, <1>4, <1>5 DEF OnlyThese, Clean, CacheIs, Forgetting, Locked, In, WriterTypes
<1> QED BY <1>w, <1>l, <1>u, <1>ca, <1>fi, <1>no, <1>ci, <1>on

\* _drop_descriptor: it is not.
LEMMA DropsNothing ==
  ASSUME WriterInv, NEW t \in Everyone, Drop(t), cache[Home(t)].fd # thread[t].fd
  PROVE  WriterInv'
<1> USE WriterAssumption, Homes DEF WriterInv, Home, Processes, Closed, Nobody, Own, NoCache, Moves, Becomes, Free
<1>1. thread[t].pc = "drops" /\ UNCHANGED <<habits, named, lock, forked, lines>>
  BY DEF Drop
<1>2. forked = "no" => t # Child
  BY <1>1 DEF Unborn
<1>3. Moves(t, "idle") /\ UNCHANGED <<cache, table, closed>>
  BY DEF Drop
<1>4. /\ thread'[t].pc = "idle"
      /\ thread'[t].path = thread[t].path
      /\ thread'[t].fd = thread[t].fd
      /\ \A u \in Everyone : u # t => thread'[u] = thread[u]
  BY <1>3 DEF ThreadTypes, WriterTypes
<1>w. WriterTypes'
  BY <1>1, <1>2, <1>3, <1>4 DEF WriterTypes, ThreadTypes, WriterPlaces
<1>l. Locked'
  BY <1>1, <1>2, <1>3, <1>4 DEF Locked, In
<1>u. Unborn'
  BY <1>1, <1>2, <1>3, <1>4 DEF Unborn
<1>ca. ASSUME NEW u \in Everyone PROVE Carries(u)'
  BY <1>1, <1>2, <1>3, <1>4 DEF Carries
<1>fi. ASSUME NEW u \in Everyone PROVE Finds(u)'
  BY <1>1, <1>2, <1>3, <1>4 DEF Finds
<1>no. ASSUME NEW u \in Everyone PROVE NotAstray(u)'
  BY <1>1, <1>2, <1>3, <1>4 DEF NotAstray
<1>ci. ASSUME NEW q \in Processes PROVE CacheIs(q)'
  BY <1>1, <1>2, <1>3, <1>4 DEF CacheIs, Forgetting, Clean, WriterTypes
<1>on. ASSUME NEW q \in Processes PROVE OnlyThese(q)'
  BY <1>1, <1>2, <1>3, <1>4 DEF OnlyThese, Clean
<1> QED BY <1>w, <1>l, <1>u, <1>ca, <1>fi, <1>no, <1>ci, <1>on

\* A fork: the child's cache and table are the parent's, its lock is new.
LEMMA ForkKeeps ==
  ASSUME WriterInv, NEW t \in Everyone, Fork(t)
  PROVE  WriterInv'
<1> USE WriterAssumption, Homes DEF WriterInv, Home, Processes, Closed, Nobody, Own, NoCache, Moves, Becomes, Free
<1>1. Child \in Everyone /\ forked = "no" /\ forked' \in {"quietly", "middle"} /\ Moves(Child, "idle")
  BY DEF Fork, Everyone
<1>2. /\ thread'[Child].pc = "idle"
      /\ thread'[Child].path = thread[Child].path
      /\ thread'[Child].fd = thread[Child].fd
      /\ \A u \in Everyone : u # Child => thread'[u] = thread[u]
  BY <1>1 DEF WriterTypes, ThreadTypes
<1>3. /\ lock'["child"] = Nobody /\ lock'["parent"] = lock["parent"]
      /\ lock' \in [Processes -> Everyone \cup {Nobody}]
  BY DEF Fork, LockAfterFork, WriterTypes
<1>4. /\ cache'["child"] = cache["parent"] /\ cache'["parent"] = cache["parent"]
      /\ table'["child"] = table["parent"] /\ table'["parent"] = table["parent"]
      /\ UNCHANGED <<habits, lines, closed>>
  BY DEF Fork, WriterTypes, CacheTypes
<1>5. closed["child"] = {} /\ ~lines[Child].stray /\ (forked' = "quietly" => lock["parent"] = Nobody)
  BY <1>1 DEF Fork, Unborn
<1>w. WriterTypes'
  BY <1>1, <1>2, <1>3, <1>4 DEF Fork, WriterTypes, ThreadTypes, CacheTypes, WriterPlaces
<1>l. Locked'
  BY <1>1, <1>2, <1>3 DEF Everyone, Locked, In, WriterTypes
<1>u. Unborn'
  BY <1>1, <1>2, <1>3, <1>4, <1>5 DEF Unborn, Fork
<1>ca. ASSUME NEW u \in Everyone PROVE Carries(u)'
  BY <1>1, <1>2, <1>3, <1>4, <1>5 DEF Carries, Fork
<1>fi. ASSUME NEW u \in Everyone PROVE Finds(u)'
  BY <1>1, <1>2, <1>3, <1>4, <1>5 DEF Finds, Fork
<1>no. ASSUME NEW u \in Everyone PROVE NotAstray(u)'
  BY <1>1, <1>2, <1>3, <1>4, <1>5 DEF NotAstray, Fork
<1>ci. ASSUME NEW q \in Processes PROVE CacheIs(q)'
  BY <1>1, <1>2, <1>3, <1>4, <1>5 DEF Everyone, CacheIs, Forgetting, Clean, Locked, In, WriterTypes
<1>on. ASSUME NEW q \in Processes PROVE OnlyThese(q)'
  BY <1>1, <1>2, <1>3, <1>4, <1>5 DEF Everyone, OnlyThese, Forgetting, Clean, Locked, In, WriterTypes
<1> QED BY <1>w, <1>l, <1>u, <1>ca, <1>fi, <1>no, <1>ci, <1>on

\* What the job does.
LEMMA RenameKeeps ==
  ASSUME WriterInv, NEW p \in Processes, Rename(p)
  PROVE  WriterInv'
<1> USE WriterAssumption, Homes DEF WriterInv, Home, Processes, Closed, Nobody, Own, NoCache, Moves, Becomes, Free
<1>w. WriterTypes'
  BY DEF WriterTypes, Rename
<1>l. Locked'
  BY DEF Locked, In, Rename
<1>u. Unborn'
  BY DEF Unborn, Rename
<1>ca. ASSUME NEW u \in Everyone PROVE Carries(u)'
  BY DEF Carries, Rename
<1>fi. ASSUME NEW u \in Everyone PROVE Finds(u)'
  BY DEF Finds, Rename
<1>no. ASSUME NEW u \in Everyone PROVE NotAstray(u)'
  BY DEF NotAstray, Rename
<1>ci. ASSUME NEW q \in Processes PROVE CacheIs(q)'
  BY DEF CacheIs, Forgetting, Clean, WriterTypes, Rename
<1>on. ASSUME NEW q \in Processes PROVE OnlyThese(q)'
  BY DEF OnlyThese, Clean, Rename
<1> QED BY <1>w, <1>l, <1>u, <1>ca, <1>fi, <1>no, <1>ci, <1>on

\* The rest of a process opens a file of its own.
LEMMA OpenOwnKeeps ==
  ASSUME WriterInv, NEW p \in Processes, OpenOwn(p), NEW d \in Free(p), Becomes(p, d, Own)
  PROVE  WriterInv'
<1> USE WriterAssumption, Homes DEF WriterInv, Home, Processes, Closed, Nobody, Own, NoCache, Moves, Becomes, Free
<1>w. WriterTypes'
  BY DEF WriterTypes, CacheTypes, Files, OpenOwn, Free, Becomes
<1>l. Locked'
  BY DEF Locked, In, OpenOwn, Free, Becomes
<1>u. Unborn'
  BY DEF Unborn, OpenOwn, Free, Becomes
<1>ca. ASSUME NEW u \in Everyone PROVE Carries(u)'
  BY DEF Carries, OpenOwn, Free, Becomes
<1>fi. ASSUME NEW u \in Everyone PROVE Finds(u)'
  BY DEF Finds, Carries, OpenOwn, Free, Becomes
<1>no. ASSUME NEW u \in Everyone PROVE NotAstray(u)'
  BY DEF NotAstray, Carries, WriterTypes, OpenOwn, Free, Becomes
<1>ci. ASSUME NEW q \in Processes PROVE CacheIs(q)'
  BY DEF CacheIs, Forgetting, Clean, WriterTypes, OpenOwn, Free, Becomes
<1>on. ASSUME NEW q \in Processes PROVE OnlyThese(q)'
  BY DEF OnlyThese, Clean, OpenOwn, Free, Becomes
<1> QED BY <1>w, <1>l, <1>u, <1>ca, <1>fi, <1>no, <1>ci, <1>on

\* The rest of a process closes a descriptor.
LEMMA CloseOwnKeeps ==
  ASSUME WriterInv, NEW p \in Processes, NEW d \in Descriptors, CloseOwn(p, d)
  PROVE  WriterInv'
<1> USE WriterAssumption, Homes DEF WriterInv, Home, Processes, Closed, Nobody, Own, NoCache, Moves, Becomes, Free
<1>w. WriterTypes'
  BY DEF WriterTypes, CacheTypes, Files, CloseOwn
<1>l. Locked'
  BY DEF Locked, In, CloseOwn
<1>u. Unborn'
  BY DEF Unborn, CloseOwn
<1>ca. ASSUME NEW u \in Everyone PROVE Carries(u)'
  BY DEF Carries, CloseOwn
<1>fi. ASSUME NEW u \in Everyone PROVE Finds(u)'
  BY DEF Finds, Carries, CloseOwn
<1>no. ASSUME NEW u \in Everyone PROVE NotAstray(u)'
  BY DEF NotAstray, Carries, WriterTypes, CloseOwn
<1>ci. ASSUME NEW q \in Processes PROVE CacheIs(q)'
  BY DEF CacheIs, Forgetting, Clean, WriterTypes, CloseOwn
<1>on. ASSUME NEW q \in Processes PROVE OnlyThese(q)'
  BY DEF OnlyThese, Clean, CloseOwn
<1> QED BY <1>w, <1>l, <1>u, <1>ca, <1>fi, <1>no, <1>ci, <1>on

\* Nothing changes.
LEMMA StutterKeeps ==
  ASSUME WriterInv, UNCHANGED writerVars
  PROVE  WriterInv'
<1> USE WriterAssumption, Homes DEF WriterInv, Home, Processes, Closed, Nobody, Own, NoCache, Moves, Becomes, Free
<1>w. WriterTypes'
  BY DEF WriterTypes, writerVars
<1>l. Locked'
  BY DEF Locked, In, writerVars
<1>u. Unborn'
  BY DEF Unborn, writerVars
<1>ca. ASSUME NEW u \in Everyone PROVE Carries(u)'
  BY DEF Carries, writerVars
<1>fi. ASSUME NEW u \in Everyone PROVE Finds(u)'
  BY DEF Finds, writerVars
<1>no. ASSUME NEW u \in Everyone PROVE NotAstray(u)'
  BY DEF NotAstray, writerVars
<1>ci. ASSUME NEW q \in Processes PROVE CacheIs(q)'
  BY DEF CacheIs, Forgetting, Clean, WriterTypes, writerVars
<1>on. ASSUME NEW q \in Processes PROVE OnlyThese(q)'
  BY DEF OnlyThese, Clean, writerVars
<1> QED BY <1>w, <1>l, <1>u, <1>ca, <1>fi, <1>no, <1>ci, <1>on

\* The invariant holds at first, and after every step.
LEMMA WriterStart == InitWriter => WriterInv
<1> SUFFICES ASSUME InitWriter PROVE WriterInv
  OBVIOUS
<1> USE WriterAssumption, Homes DEF InitWriter, Processes, Closed, Nobody, Own, NoCache
<1>0. PICK n \in Paths : named = [p \in Processes |-> n]
  OBVIOUS
<1>1. WriterTypes
  BY <1>0 DEF WriterTypes, ThreadTypes, CacheTypes, WriterPlaces, PathsOrNone, FdOrNone, Files
<1>2. Locked /\ Unborn
  BY DEF Locked, In, Unborn, Everyone
<1>3. \A t \in Everyone : Carries(t) /\ Finds(t) /\ NotAstray(t)
  BY DEF Carries, Finds, NotAstray
<1>4. \A p \in Processes : CacheIs(p) /\ OnlyThese(p)
  BY DEF CacheIs, OnlyThese, Forgetting
<1> QED BY <1>1, <1>2, <1>3, <1>4 DEF WriterInv

\* A thread enters emit.
LEMMA EnterKeeps == ASSUME WriterInv, NEW t \in Everyone, Enter(t) PROVE WriterInv'
  BY ReturnsCached, TakesLock

\* A thread opens the file.
LEMMA OpenKeeps == ASSUME WriterInv, NEW t \in Everyone, Open(t) PROVE WriterInv'
<1>1. ASSUME NEW d \in Free(Home(t)),
             thread' = [thread EXCEPT ![t].pc = "caches", ![t].fd = d],
             Becomes(Home(t), d, thread[t].path), lock' = lock
      PROVE  WriterInv'
  BY <1>1, OpensFile
<1>2. ASSUME Moves(t, "idle"), lock' = [lock EXCEPT ![Home(t)] = Nobody], table' = table PROVE WriterInv'
  BY <1>2, CannotOpen
<1> QED BY <1>1, <1>2 DEF Open

\* A thread writes its line.
LEMMA WriteKeeps == ASSUME WriterInv, NEW t \in Everyone, Write(t) PROVE WriterInv'
<1>1. ASSUME Moves(t, "idle"),
             lines' = [lines EXCEPT ![t].stray = @ \/ table[Home(t)][thread[t].fd] # thread[t].path]
      PROVE  WriterInv'
  BY <1>1, WritesLine
<1>2. ASSUME Moves(t, "drops"), lines' = lines PROVE WriterInv'
  BY <1>2, FailsToWrite
<1> QED BY <1>1, <1>2 DEF Write

\* A thread gives up.
LEMMA DropKeeps == ASSUME WriterInv, NEW t \in Everyone, Drop(t) PROVE WriterInv'
  BY DropsMine, DropsNothing

\* Every step of the writer.
LEMMA WriterStep == WriterInv /\ [NextWriter]_writerVars => WriterInv'
<1> SUFFICES ASSUME WriterInv, [NextWriter]_writerVars PROVE WriterInv'
  OBVIOUS
<1>1. ASSUME NEW t \in Everyone, Emit(t) \/ Steps(t) \/ Finaliser(t) \/ Fork(t) PROVE WriterInv'
  BY <1>1, EmitKeeps, EnterKeeps, ReplaceKeeps, ForgetKeeps, OpenKeeps, CacheKeeps, WriteKeeps, DropKeeps,
     FinaliserKeeps, ForkKeeps DEF Steps
<1>2. ASSUME NEW p \in Processes, OpenOwn(p) PROVE WriterInv'
  <2>1. PICK d \in Free(p) : Becomes(p, d, Own)
    BY <1>2 DEF OpenOwn
  <2> QED BY <1>2, <2>1, OpenOwnKeeps
<1>3. ASSUME NEW p \in Processes, Rename(p) \/ \E d \in Descriptors : CloseOwn(p, d) PROVE WriterInv'
  BY <1>3, RenameKeeps, CloseOwnKeeps
<1>4. CASE UNCHANGED writerVars
  BY <1>4, StutterKeeps
<1> QED BY <1>1, <1>2, <1>3, <1>4 DEF NextWriter

-----------------------------------------------------------------------------
\* Nobody waits for the lock of emit for ever, whoever held it when the process was
\* forked: its holder is a thread of the process on its way through _descriptor
\* (_descriptor, _drop_descriptor, _after_fork_in_child).
THEOREM LockIsFree == WriterSpec => []LockIsLetGo
<1>1. WriterInv => LockIsLetGo
  BY WriterAssumption DEF WriterInv, WriterTypes, Locked, In, Carries, LockIsLetGo
<1> QED BY <1>1, WriterStart, WriterStep, PTL DEF WriterSpec

\* Lines go to the file that was named when they were emitted as long as the helper
\* closed no descriptor meanwhile, and the helper closes no file of the job and
\* leaves none of its own open, but in a child that was forked while a thread was
\* in _descriptor.
THEOREM DescriptorStaysOurs == WriterSpec => []DescriptorIsOurs
<1>1. WriterInv => DescriptorIsOurs
  <2> SUFFICES ASSUME WriterInv, NEW p \in Processes
               PROVE  /\ closed[p] = {} => \A t \in Everyone : Home(t) = p => ~lines[t].stray
                      /\ (p = "child" => forked # "middle")
                         => /\ Own \notin closed[p]
                            /\ \A d \in Descriptors : table[p][d] \in Paths =>
                                 d \in {cache[p].fd} \cup (IF lock[p] = Nobody THEN {} ELSE {thread[lock[p]].fd})
    BY DEF DescriptorIsOurs
  <2>1. closed[p] = {} => \A t \in Everyone : Home(t) = p => ~lines[t].stray
    BY DEF WriterInv, NotAstray
  <2>2. Clean(p) => /\ Own \notin closed[p]
                    /\ \A d \in Descriptors : table[p][d] \in Paths =>
                         d \in {cache[p].fd} \cup (IF lock[p] = Nobody THEN {} ELSE {thread[lock[p]].fd})
    BY DEF WriterInv, OnlyThese
  <2> QED BY <2>1, <2>2 DEF Clean
<1> QED BY <1>1, WriterStart, WriterStep, PTL DEF WriterSpec
=============================================================================
