------------------------------ MODULE Command -------------------------------
(***************************************************************************)
(* runner.py: the commands run, serve and find around the meter that each  *)
(* of them starts, from their options to the exit code, with the files     *)
(* that they make: helper events, serve's token, the report.               *)
(*                                                                         *)
(* What is told to stop the job, and what is in a report, is elsewhere; a  *)
(* report is the bytes that its snapshot counted and what its two gates    *)
(* look at, which the command report asks it again.  A signal may          *)
(* come between any two steps; where no handler is installed SIGINT is an  *)
(* exception, which runs the finally clauses, and the others end the       *)
(* process.  For find, what its abort check says of the tunnels is here.   *)
(***************************************************************************)
EXTENDS Naturals, Sequences

CONSTANTS
  Commands,   \* the commands and options to try: see IsCommand
  MaxCounted, \* bound: bytes counted
  MaxTunnels  \* bound: tunnels of a find

\* html: --html; keep: --keep-events; gate: --fail-on bypass; token: how serve hands over
\* its token ("terminal", "path", "private" directory); there: a file is at that path.
IsCommand(c) ==
  /\ c.name \in {"run", "serve", "find"} /\ c.html \in BOOLEAN /\ c.keep \in BOOLEAN /\ c.gate \in BOOLEAN
  /\ c.token \in {"terminal", "path", "private"} /\ c.there \in BOOLEAN
  /\ c.there => c.token = "path"

ASSUME CommandAssumption ==
  /\ \A c \in Commands : IsCommand(c)
  /\ MaxCounted \in Nat /\ MaxTunnels \in Nat

VARIABLES
  cmd,      \* the command, one of Commands
  at,       \* where the main thread is
  disk,     \* the events file, the token file ("theirs": somebody else's), and of report.json and
            \* report.html what they tell, <<>> before they are written
  gauge,    \* the meter: not started, up or stopped; bytes counted; tripped; crashed
  shot,     \* the snapshot that fw.stop() returned: its bytes, and whether the budget had tripped;
            \* and whether the attribution of run found hosts that went around the meter
  mind,     \* what the code keeps: the job ran and its events are kept, serve's stop event, find's
            \* outcome, and (ghost) whether something went wrong that the code should call 88
  records,  \* find: the tunnels in the meter's records, by id
  advice,   \* find: what the abort check said
  exit      \* the exit code

\* What a report tells.
Telling(bytes, tripped, incomplete) == [bytes |-> bytes, tripped |-> tripped, incomplete |-> incomplete]

commandVars == <<cmd, at, disk, gauge, shot, mind, records, advice, exit>>
files == <<disk, shot>>

InitCommand ==
  /\ cmd \in Commands
  /\ at = "start"
  /\ disk = [events |-> "none", token |-> IF cmd.there THEN "theirs" ELSE "none", json |-> <<>>, html |-> <<>>]
  /\ gauge = [is |-> "none", bytes |-> 0, tripped |-> FALSE, crashed |-> FALSE]
  /\ shot = Telling(0, FALSE, FALSE)
  /\ mind = [keep |-> FALSE, stop |-> FALSE, outcome |-> "none", wrong |-> FALSE]
  /\ records = <<>>
  /\ advice = "none"
  /\ exit = "none"

-----------------------------------------------------------------------------
(* The way out.                                                             *)

\* _TokenFile.remove, of a file that serve made itself; PrivateEventsFile.cleanup.  (Before
\* it a mutant that removes what it did not make.)
CleanDiskAll(d) ==
  [d EXCEPT !.events = IF @ = "none" THEN @ ELSE "gone", !.token = IF @ = "none" THEN @ ELSE "gone"]
CleanDisk(d) ==
  [d EXCEPT !.events = IF @ = "none" \/ mind.keep THEN @ ELSE "gone",
            !.token  = IF @ \in {"empty", "url"} THEN "gone" ELSE @]

\* The finally clauses: the meter is stopped, the files are removed.
Leaves(code, d) ==
  /\ exit' = code
  /\ at' = "end"
  /\ disk' = CleanDisk(d)
  /\ gauge' = [gauge EXCEPT !.is = IF @ = "up" THEN "stopped" ELSE @]

\* The command ends here with an error that is none of the meter's.
Fails(code) == Leaves(code, disk) /\ UNCHANGED <<cmd, shot, mind, records, advice>>
FailsInside ==
  /\ Leaves("internal", disk)
  /\ mind' = [mind EXCEPT !.wrong = TRUE]
  /\ UNCHANGED <<cmd, shot, records, advice>>

-----------------------------------------------------------------------------
(* The way in.                                                              *)

\* _prepare and what find checks besides; the exit codes of each.
NotPrepared ==
  /\ at = "start"
  /\ Fails("usage") \/ Fails("config") \/ FailsInside \/ (cmd.name = "find" /\ Fails("no browser"))

\* PrivateEventsFile.create; _TokenFile.create, which never opens a file that is there.
MakesFiles ==
  /\ at = "start"
  /\ at' = "made"
  /\ disk' = CASE cmd.name = "run" -> [disk EXCEPT !.events = "there"]
               [] cmd.name = "serve" /\ cmd.token # "terminal" -> [disk EXCEPT !.token = "empty"]
               [] OTHER -> disk
  /\ ~(cmd.name = "serve" /\ cmd.token = "path" /\ cmd.there)
  /\ UNCHANGED <<cmd, gauge, shot, mind, records, advice, exit>>
TokenRefused ==
  /\ at = "start" /\ cmd.name = "serve" /\ cmd.token # "terminal"
  /\ Fails("usage")

StartsMeter ==
  /\ at = "made"
  /\ at' = "up"
  /\ gauge' = [gauge EXCEPT !.is = "up"]
  /\ UNCHANGED <<cmd, files, mind, records, advice, exit>>
MeterFails == at = "made" /\ FailsInside

\* The job is started, the token is handed over, the page load begins.
Begins ==
  /\ at = "up"
  /\ at' = "waits"
  /\ disk' = [disk EXCEPT !.token = IF @ = "empty" THEN "url" ELSE @]
  /\ UNCHANGED <<cmd, gauge, shot, mind, records, advice, exit>>
TokenUnwritten == at = "up" /\ disk.token = "empty" /\ FailsInside
NoCommand == at = "up" /\ cmd.name = "run" /\ (Fails("no command") \/ Fails("not executable"))

-----------------------------------------------------------------------------
(* Meanwhile.                                                               *)

Counts ==
  /\ gauge.is = "up" /\ ~gauge.crashed /\ gauge.bytes < MaxCounted
  /\ gauge' = [gauge EXCEPT !.bytes = @ + 1]
  /\ UNCHANGED <<cmd, at, files, mind, records, advice, exit>>
Trips ==
  /\ gauge.is = "up" /\ ~gauge.crashed /\ ~gauge.tripped
  /\ gauge' = [gauge EXCEPT !.tripped = TRUE]
  /\ UNCHANGED <<cmd, at, files, mind, records, advice, exit>>
Crashes ==
  /\ gauge.is = "up" /\ ~gauge.crashed
  /\ gauge' = [gauge EXCEPT !.crashed = TRUE]
  /\ UNCHANGED <<cmd, at, files, mind, records, advice, exit>>

\* A report is written: JSON, then HTML if asked for, each whole or not at all.
Writes(report, how) ==
  disk' = CASE how = "fails" -> disk
            [] how = "json"  -> [disk EXCEPT !.json = <<report>>]
            [] how = "whole" -> [disk EXCEPT !.json = <<report>>, !.html = IF cmd.html THEN <<report>> ELSE @]

\* serve's loop: the meter has died or it was told to stop; or it is time to write.
Wakes ==
  /\ at = "waits" /\ cmd.name = "serve"
  /\ gauge.crashed \/ mind.stop
  /\ at' = "after"
  /\ UNCHANGED <<cmd, files, gauge, mind, records, advice, exit>>
Rewrites ==
  /\ at = "waits" /\ cmd.name = "serve" /\ ~gauge.crashed /\ ~mind.stop
  /\ \E how \in {"fails", "whole"} \cup (IF cmd.html THEN {"json"} ELSE {}) :
       Writes(Telling(gauge.bytes, gauge.tripped, FALSE), how)
  /\ UNCHANGED <<cmd, at, gauge, shot, mind, records, advice, exit>>

\* run: the wait is over, and the events may be kept from here on.
JobEnds ==
  /\ at = "waits" /\ cmd.name = "run"
  /\ at' = "after"
  /\ mind' = [mind EXCEPT !.keep = cmd.keep, !.outcome = "job"]
  /\ UNCHANGED <<cmd, files, gauge, records, advice, exit>>

\* find: run_find returns, or raises what has a code of its own, or anything else.
FindEnds ==
  /\ at = "waits" /\ cmd.name = "find"
  /\ at' = "after"
  /\ \E outcome \in {"found", "partial", "not found", "blocked", "load error", "crash"} :
       /\ advice # "none" => outcome \in {"found", "partial", "load error", "crash"}
       /\ mind' = [mind EXCEPT !.outcome = outcome, !.wrong = @ \/ outcome = "crash"]
  /\ UNCHANGED <<cmd, files, gauge, records, advice, exit>>
FindRaises ==
  /\ at = "waits" /\ cmd.name = "find"
  /\ Fails("no browser") \/ Fails("usage")

-----------------------------------------------------------------------------
(* find's abort check.                                                      *)

\* A tunnel: to the target itself or elsewhere; its status; and whether it was ever
\* established (ghost).  "reset" came after that, the other failures before.
Refusals  == {"private", "denied", "self loop"}
Upstreams == {"407", "socks", "unreachable"}

\* The page makes a connection: it is recorded when it is asked for.
Connects(own) ==
  /\ at = "waits" /\ cmd.name = "find" /\ advice = "none" /\ Len(records) < MaxTunnels
  /\ records' = Append(records, [own |-> own, status |-> "open", was |-> FALSE])
  /\ UNCHANGED <<cmd, at, files, gauge, mind, advice, exit>>
Proceeds(i) ==
  /\ at = "waits" /\ advice = "none" /\ records[i].status = "open"
  /\ \/ ~records[i].was /\ records' = [records EXCEPT ![i].was = TRUE]
     \/ records[i].was /\ \E status \in {"ok", "reset"} : records' = [records EXCEPT ![i].status = status]
     \/ ~records[i].was /\ \E status \in Refusals \cup Upstreams \cup {"closed"} :
                             records' = [records EXCEPT ![i].status = status]
  /\ UNCHANGED <<cmd, at, files, gauge, mind, advice, exit>>

\* check: the first tunnel that is a reason, and what it says.  An earlier one to the
\* target that neither failed nor was denied makes a private address a rebound.
Decides(i) == (records[i].own /\ records[i].status \in Refusals) \/ records[i].status \in Upstreams
Reached(i) == \E j \in 1 .. i - 1 : records[j].own /\ records[j].status \in {"open", "ok"}
Reason(i) ==
  IF records[i].status = "private" THEN IF Reached(i) THEN "rebound" ELSE "allow private"
  ELSE records[i].status
Checks ==
  /\ at = "waits" /\ cmd.name = "find" /\ advice = "none"
  /\ IF gauge.tripped THEN advice' = "budget"
     ELSE \E i \in DOMAIN records :
            Decides(i) /\ (\A j \in 1 .. i - 1 : ~Decides(j)) /\ advice' = Reason(i)
  /\ UNCHANGED <<cmd, at, files, gauge, mind, records, exit>>

-----------------------------------------------------------------------------
(* The end.                                                                 *)

\* _drain is over; fw.stop().
StopsMeter ==
  /\ at = "after"
  /\ at' = "reports"
  /\ gauge' = [gauge EXCEPT !.is = "stopped"]
  /\ \E incomplete \in (IF cmd.name = "run" THEN BOOLEAN ELSE {FALSE}) :
       shot' = Telling(gauge.bytes, gauge.tripped, incomplete)
  /\ UNCHANGED <<cmd, disk, mind, records, advice, exit>>

Reports ==
  /\ at = "reports"
  /\ Writes(shot, "whole")
  /\ at' = "chooses"
  /\ UNCHANGED <<cmd, gauge, shot, mind, records, advice, exit>>
ReportFails ==
  /\ at = "reports"
  /\ \/ Leaves("internal", disk)
     \/ cmd.html /\ Leaves("internal", [disk EXCEPT !.json = <<shot>>])
  /\ mind' = [mind EXCEPT !.wrong = TRUE]
  /\ UNCHANGED <<cmd, shot, records, advice>>

\* The codes in their order.
Code ==
  IF gauge.crashed \/ mind.outcome = "crash" THEN "internal"
  ELSE IF shot.tripped THEN "budget"
  ELSE IF cmd.name = "run" /\ cmd.gate /\ shot.incomplete THEN "bypass"
  ELSE IF cmd.name = "serve" THEN "ok" ELSE mind.outcome
Chooses == at = "chooses" /\ Fails(Code)

\* gate, of report.json: what the command report says later.
Gated(report, failOn) ==
  IF "budget" \in failOn /\ report.tripped THEN "budget"
  ELSE IF "bypass" \in failOn /\ report.incomplete THEN "bypass" ELSE "ok"

-----------------------------------------------------------------------------
(* Signals.                                                                 *)

\* Where serve's handler is installed any signal sets its stop event; run's forwards
\* it to the job; asyncio has its own for find's SIGINT.
Handled(sig) == at = "waits" /\ (cmd.name \in {"run", "serve"} \/ (cmd.name = "find" /\ sig = "INT"))
Signal(sig) ==
  /\ at \notin {"end", "gone"}
  /\ IF Handled(sig) /\ cmd.name # "find"
     THEN /\ mind' = [mind EXCEPT !.stop = @ \/ cmd.name = "serve"]
          /\ UNCHANGED <<cmd, at, files, gauge, records, advice, exit>>
     ELSE IF sig = "INT" THEN Fails("interrupted")
     ELSE at' = "gone" /\ UNCHANGED <<cmd, files, gauge, mind, records, advice, exit>>

NextCommand ==
  \/ NotPrepared \/ MakesFiles \/ TokenRefused \/ StartsMeter \/ MeterFails \/ Begins \/ TokenUnwritten \/ NoCommand
  \/ Counts \/ Trips \/ Crashes \/ Wakes \/ Rewrites \/ JobEnds \/ FindEnds \/ FindRaises
  \/ (\E own \in BOOLEAN : Connects(own)) \/ (\E i \in DOMAIN records : Proceeds(i)) \/ Checks
  \/ StopsMeter \/ Reports \/ ReportFails \/ Chooses
  \/ \E sig \in {"INT", "TERM"} : Signal(sig)

CommandSpec == InitCommand /\ [][NextCommand]_commandVars

-----------------------------------------------------------------------------
(* Properties.                                                              *)

\* Whatever way a command ends by itself or by Ctrl-C, its meter is stopped, its private
\* files are gone, except events that were to be kept of a job that ran, and a file
\* that was at the token's path before it is untouched.
NothingIsLeft ==
  at = "end" =>
    /\ gauge.is # "up"
    /\ disk.events = "there" => cmd.keep /\ mind.outcome = "job"
    /\ disk.token = IF cmd.there THEN "theirs" ELSE IF disk.token = "none" THEN "none" ELSE "gone"

\* The exit code is what the documentation makes of the end: an outcome only with both
\* reports whole and of all bytes counted, 88 only if the meter or the command failed,
\* and a find that was aborted never says that nothing was found.  86 and 87 are what
\* the command report makes of the report that is left, under the same gates.
Outcomes == {"ok", "job", "found", "partial", "not found", "blocked", "load error", "budget", "bypass"}
CodeTellsTheEnd ==
  /\ exit \in Outcomes =>
       /\ Len(disk.json) = 1 /\ disk.json[1].bytes = gauge.bytes /\ (cmd.html => disk.html = disk.json)
       /\ ~gauge.crashed /\ ~mind.wrong
       /\ LET gated == Gated(disk.json[1], {"budget"} \cup IF cmd.gate THEN {"bypass"} ELSE {})
          IN  IF exit \in {"budget", "bypass"} THEN gated = exit ELSE gated = "ok" /\ ~gauge.tripped
  /\ exit = "internal" => gauge.crashed \/ mind.wrong
  /\ advice # "none" => exit \notin {"not found", "blocked"}

\* --allow-private-targets is advised for the first connection to the target only; of
\* an earlier one that was reset later nothing is known any more.
AdviceIsForTheFirst ==
  advice = "allow private" =>
    \E i \in DOMAIN records :
      /\ records[i].status = "private" /\ records[i].own
      /\ \A j \in 1 .. i - 1 : records[j].own /\ records[j].was => records[j].status = "reset"

\* A report that is on the disk is never newer than what was counted, and HTML is
\* never newer than JSON.
ReportsKeepUp ==
  /\ disk.json # <<>> => disk.json[1].bytes <= gauge.bytes
  /\ disk.html # <<>> => disk.html[1].bytes <= disk.json[1].bytes

\* What a command leaves behind can be relied on.
CommandEndsTruly == NothingIsLeft /\ CodeTellsTheEnd /\ AdviceIsForTheFirst /\ ReportsKeepUp
=============================================================================
