-------------------------- MODULE ConnectionProofs ---------------------------
(***************************************************************************)
(* Theorems about the connections that the meter makes and keeps: Race, for *)
(* any number of addresses; Exchange, for any requests and answers; Dial,  *)
(* for any answers of the resolver and of the providers; and Requests, for *)
(* any heads and rules.                                                    *)
(*                                                                         *)
(* OneSocketSurvives speaks of the end only.  What carries it there is who *)
(* the winner is at each place of the tunnel's task (Winning), and which   *)
(* attempts can still be running there (Ending): from the finally block on *)
(* none is merely tried, and behind it none is being cancelled.            *)
(*                                                                         *)
(* ExchangeIsWhole speaks of what a client got.  Whether that is a whole   *)
(* answer depends on what is still on its way, so ExchangeSound says what  *)
(* may come after what on the wire (WireFollows, WireKnows), that the last *)
(* of it is what the server gave last (GivingTells), and that what the     *)
(* client got is what came before the first of it (Prior).  An answer is   *)
(* the one to the request (ViewKnows) because answers come in the order    *)
(* in which they were given and each request before has had its own.       *)
(***************************************************************************)
EXTENDS Race, Exchange, Dial, Requests, FiniteSetTheorems, SequenceTheorems, TLAPS

-----------------------------------------------------------------------------
(* The race of the addresses.                                               *)

None(what) == \A i \in Attempts : attempt[i] # what

\* Until an attempt won, or the race is given up, there is neither winner nor result;
\* then one of the two, and the winner is connected.
Winning ==
  /\ racer.pc \in {"loop", "waiting"} => result = "none" /\ racer.winner = 0
  /\ racer.pc \in {"unwinding", "gathering", "adopting"} =>
       /\ result \in {"none", "raised", "cancelled"}
       /\ result = "none" => racer.winner \in Attempts /\ attempt[racer.winner] = "open"
       /\ result # "none" => racer.winner = 0
  /\ racer.pc = "end" => result # "none"

\* Which attempts may still run.
Ending ==
  /\ racer.pc \in {"loop", "waiting", "unwinding"} => None("cancelling")
  /\ racer.pc \in {"gathering", "adopting", "end"} => None("trying")
  /\ racer.pc \in {"adopting", "end"} => None("cancelling")

\* The connection that is adopted is the only one.
Alone ==
  /\ racer.pc = "adopting" => result = "none" /\ \A i \in Attempts : attempt[i] = "open" => i = racer.winner
  /\ racer.pc = "end" /\ result # "dropped" =>
       \A i \in Attempts : attempt[i] = "open" => result = "adopted" /\ ~shut /\ i = racer.winner
  /\ racer.pc = "end" /\ result = "adopted" =>
       racer.winner \in Attempts /\ (~shut => attempt[racer.winner] = "open")

RaceInv == RaceTypes /\ Winning /\ Ending /\ Alone

-----------------------------------------------------------------------------
\* No attempt is under way.
LEMMA RaceStarts == InitRace => RaceInv
<1> SUFFICES ASSUME InitRace PROVE RaceInv
  OBVIOUS
<1>1. attempt \in [Attempts -> {"queued", "trying", "open", "failed", "odd", "cancelling", "cancelled", "closed"}]
      /\ \A i \in Attempts : attempt[i] = "queued"
  BY DEF InitRace
<1>2. 0 \in 0 .. Addresses
  BY RaceAssumption
<1>3. racer \in [pc : {"loop", "waiting", "unwinding", "gathering", "adopting", "end"}, winner : 0 .. Addresses]
      /\ racer.pc = "loop" /\ racer.winner = 0
  BY <1>2 DEF InitRace
<1> QED  BY <1>1, <1>3 DEF InitRace, RaceInv, RaceTypes, Winning, Ending, Alone, None

\* The rounds of the loop neither cancel nor close an attempt.
LEMMA LoopKeeps ==
  ASSUME RaceInv, StartNext \/ WaitOn \/ GiveUp \/ NoWinner
  PROVE  RaceInv'
<1> USE DEF RaceInv, RaceTypes, Winning, Ending, Alone, None, Goes
<1>1. CASE StartNext
  <2>1. attempt' \in [Attempts -> {"queued", "trying", "open", "failed", "odd", "cancelling", "cancelled", "closed"}]
    BY <1>1 DEF StartNext
  <2>2. \A i \in Attempts : attempt'[i] # "cancelling"
    BY <1>1 DEF StartNext
  <2> QED  BY <1>1, <2>1, <2>2 DEF StartNext
<1>2. CASE WaitOn
  BY <1>2 DEF WaitOn
<1>3. CASE GiveUp
  BY <1>3 DEF GiveUp
<1>4. CASE NoWinner
  BY <1>4 DEF NoWinner, In
<1> QED  BY <1>1, <1>2, <1>3, <1>4

\* The wait ends with a winner, with an error that nobody expects, or by cancelling.
LEMMA WaitKeeps ==
  ASSUME RaceInv, Cancel \/ \E i \in Attempts : Won(i) \/ Odd(i)
  PROVE  RaceInv'
<1> USE DEF RaceInv, RaceTypes, Winning, Ending, Alone, None, Goes
<1>1. CASE Cancel
  BY <1>1 DEF Cancel
<1>2. ASSUME NEW i \in Attempts, Won(i) PROVE RaceInv'
  BY <1>2, RaceAssumption DEF Won, Attempts
<1>3. ASSUME NEW i \in Attempts, Odd(i) PROVE RaceInv'
  BY <1>3 DEF Odd
<1> QED  BY <1>1, <1>2, <1>3

\* The finally block: the losers are cancelled, waited for, and closed if they connected.
LEMMA UnwindKeeps ==
  ASSUME RaceInv, Unwind
  PROVE  RaceInv'
<1> USE DEF RaceInv, RaceTypes, Winning, Ending, Alone, None, Goes
<1>1. \A i \in Attempts : attempt'[i] = IF i \in Losers /\ attempt[i] = "trying" THEN "cancelling" ELSE attempt[i]
  BY DEF Unwind
<1>2. attempt' \in [Attempts -> {"queued", "trying", "open", "failed", "odd", "cancelling", "cancelled", "closed"}]
  BY DEF Unwind
<1>3. \A i \in Attempts : attempt[i] = "trying" => i \in Losers
  BY DEF Unwind, Losers, Attempts
<1>4. \A i \in Attempts : attempt'[i] # "trying"
  BY <1>1, <1>3
<1>5. CASE Losers # {}
  BY <1>1, <1>2, <1>4, <1>5 DEF Unwind, Losers
<1>6. CASE Losers = {}
  <2>1. \A i \in Attempts : attempt'[i] = attempt[i] /\ (i # racer.winner => attempt[i] = "queued")
    BY <1>1, <1>6 DEF Losers
  <2>2. racer' = [racer EXCEPT !.pc = AfterGather] /\ UNCHANGED <<seen, due, expired, result, shut>>
    BY <1>6 DEF Unwind
  <2>3. CASE result = "none"
    BY <1>2, <1>4, <2>1, <2>2, <2>3 DEF Unwind, AfterGather
  <2>4. CASE result # "none"
    <3>1. racer.winner = 0 /\ 0 \notin Attempts
      BY <2>4 DEF Unwind, Attempts
    <3>2. \A i \in Attempts : attempt'[i] = "queued"
      BY <2>1, <3>1
    <3> QED  BY <1>2, <2>2, <2>4, <3>2 DEF Unwind, AfterGather
  <2> QED  BY <2>3, <2>4
<1> QED  BY <1>5, <1>6

\* The finished attempts are looked at.
LEMMA GatherKeeps ==
  ASSUME RaceInv, Gathered \/ CancelGathering
  PROVE  RaceInv'
<1> USE DEF RaceInv, RaceTypes, Winning, Ending, Alone, None, Goes
<1>1. CASE Gathered
  <2>1. \A i \in Attempts : attempt'[i] = IF i \in LateOnes THEN "closed" ELSE attempt[i]
    BY <1>1 DEF Gathered
  <2>2. attempt' \in [Attempts -> {"queued", "trying", "open", "failed", "odd", "cancelling", "cancelled", "closed"}]
    BY <1>1 DEF Gathered
  <2>3. \A i \in Attempts : attempt[i] = "open" /\ i # racer.winner => i \in LateOnes
    BY DEF LateOnes, Losers, In
  <2>4. racer.winner \notin LateOnes
    BY DEF LateOnes, Losers
  <2>5. \A i \in Attempts : attempt'[i] = "open" => i = racer.winner
    BY <2>1, <2>3
  <2>6. None("cancelling")
    BY <1>1 DEF Gathered, In
  <2>7. \A i \in Attempts : attempt'[i] # "cancelling" /\ attempt'[i] # "trying"
    BY <1>1, <2>1, <2>6 DEF Gathered
  <2>8. racer.winner \in Attempts => attempt'[racer.winner] = attempt[racer.winner]
    BY <2>1, <2>4
  <2>9. racer.winner = 0 => racer.winner \notin Attempts
    BY DEF Attempts
  <2> QED  BY <1>1, <2>2, <2>5, <2>7, <2>8, <2>9 DEF Gathered, AfterGather
<1>2. CASE CancelGathering
  BY <1>2 DEF CancelGathering, In
<1> QED  BY <1>1, <1>2

\* The winner is adopted, or closed if the tunnel is.
LEMMA AdoptKeeps ==
  ASSUME RaceInv, Adopt
  PROVE  RaceInv'
<1> USE DEF RaceInv, RaceTypes, Winning, Ending, Alone, None, Goes
<1>1. CASE shut
  BY <1>1 DEF Adopt
<1>2. CASE ~shut
  BY <1>2 DEF Adopt
<1> QED  BY <1>1, <1>2

\* The attempts, the clock and the meter.
LEMMA OthersKeep ==
  ASSUME RaceInv, Timer \/ Deadline \/ Shut \/ \E i \in Attempts : AttemptEnds(i) \/ Cancelled(i)
  PROVE  RaceInv'
<1> USE DEF RaceInv, RaceTypes, Winning, Ending, Alone, None, Goes
<1>1. CASE Timer
  BY <1>1 DEF Timer
<1>2. CASE Deadline
  BY <1>2 DEF Deadline
<1>3. CASE Shut
  <2>1. CASE result = "adopted"
    <3>1. racer.pc = "end" /\ racer.winner \in Attempts
      BY <2>1
    <3>2. attempt' = [attempt EXCEPT ![racer.winner] = "closed"]
      BY <1>3, <2>1 DEF Shut
    <3> QED  BY <1>3, <2>1, <3>1, <3>2 DEF Shut
  <2>2. CASE result # "adopted"
    BY <1>3, <2>2 DEF Shut
  <2> QED  BY <2>1, <2>2
<1>4. ASSUME NEW i \in Attempts, AttemptEnds(i) PROVE RaceInv'
  BY <1>4 DEF AttemptEnds
<1>5. ASSUME NEW i \in Attempts, Cancelled(i) PROVE RaceInv'
  <2>1. PICK end \in {"open", "failed", "cancelled"} : attempt' = [attempt EXCEPT ![i] = end]
    BY <1>5 DEF Cancelled
  <2>2. \A j \in Attempts : attempt[j] = "open" => attempt'[j] = "open"
    BY <1>5, <2>1 DEF Cancelled
  <2> QED  BY <1>5, <2>1, <2>2 DEF Cancelled
<1> QED  BY <1>1, <1>2, <1>3, <1>4, <1>5

\* Every step of the race.
LEMMA RaceStep == RaceInv /\ [NextRace]_raceVars => RaceInv'
<1> SUFFICES ASSUME RaceInv, [NextRace]_raceVars PROVE RaceInv'
  OBVIOUS
<1>1. CASE UNCHANGED raceVars
  BY <1>1 DEF raceVars, RaceInv, RaceTypes, Winning, Ending, Alone, None
<1>2. CASE NextRace
  BY <1>2, LoopKeeps, WaitKeeps, UnwindKeeps, GatherKeeps, AdoptKeeps, OthersKeep DEF NextRace
<1> QED  BY <1>1, <1>2

\* The invariant says it of the sockets.
LEMMA RaceInvEnough == RaceInv => OneSocketSurvives
<1> SUFFICES ASSUME RaceInv, racer.pc = "end"
             PROVE  /\ In("trying") = {} /\ In("cancelling") = {}
                    /\ result # "dropped" => In("open") = IF result = "adopted" /\ ~shut THEN {racer.winner} ELSE {}
                    /\ result = "adopted" => racer.winner # 0
  BY DEF OneSocketSurvives
<1>1. In("trying") = {} /\ In("cancelling") = {}
  BY DEF RaceInv, Ending, None, In
<1>2. CASE result = "adopted" /\ ~shut
  <2>1. racer.winner \in Attempts /\ attempt[racer.winner] = "open"
    BY <1>2 DEF RaceInv, Alone
  <2>2. In("open") = {racer.winner}
    BY <1>2, <2>1 DEF RaceInv, Alone, In
  <2>3. racer.winner # 0
    BY <2>1 DEF Attempts
  <2> QED  BY <1>1, <1>2, <2>2, <2>3
<1>3. CASE ~(result = "adopted" /\ ~shut)
  <2>1. result # "dropped" => In("open") = {}
    BY <1>3 DEF RaceInv, Alone, In
  <2>2. result = "adopted" => racer.winner # 0
    BY DEF RaceInv, Alone, Attempts
  <2> QED  BY <1>1, <1>3, <2>1, <2>2
<1> QED  BY <1>2, <1>3

\* When open_direct is over, only the connection that it returned is open, and that only
\* while its tunnel is, however many addresses there are.
THEOREM SurvivorIsAlone == RaceSpec => []OneSocketSurvives
<1>1. InitRace => RaceInv
  BY RaceStarts
<1>2. RaceInv /\ [NextRace]_raceVars => RaceInv'
  BY RaceStep
<1>3. RaceInv => OneSocketSurvives
  BY RaceInvEnough
<1> QED  BY <1>1, <1>2, <1>3, PTL DEF RaceSpec

-----------------------------------------------------------------------------
(* The exchanges over a connection: types.                                  *)

Items ==
  [kind : {"inform", "head", "part", "end", "junk"}, id : Nat, nth : Nat]
Views ==
  [id : Nat, frame : {"none", "length", "chunked", "close"}, parts : Nat, ended : BOOLEAN,
   own : BOOLEAN, informed : BOOLEAN]
Replies == [for : Nat, kind : AnswerKinds, sent : Nat, whole : BOOLEAN]
Logs == [n : Nat, body : Nat, full : Nat]
Servers ==
  [up : BOOLEAN, log : Seq(Logs), giving : Nat, answered : BOOLEAN,
   end : {"open", "eof", "reset"}]
Askers ==
  [n : Nat, ask : RequestKinds \cup {CHOOSE a \in RequestKinds : TRUE}, gave : Nat, gone : BOOLEAN]
Exchanges ==
  [pc : {"reads", "exchanges", "ended"}, body : Nat, pumped : {"runs", "done", "cut"},
   answer : {"head", "body", "done"}, completed : Nat, received : BOOLEAN, headed : BOOLEAN,
   stalled : BOOLEAN, waits : BOOLEAN, abandoned : BOOLEAN, closes : BOOLEAN]

ClientTyped == client \in Askers /\ (ex.pc = "exchanges" => client.n > 0 /\ client.ask \in RequestKinds)
ViewsTyped == views \in Seq(Views) /\ Len(views) = client.n
ExTyped == ex \in Exchanges /\ hungUp \in {"no", "fin", "reset"} /\ cutOff \in BOOLEAN
\* The one being given is the last.
ServerTyped == server \in Servers /\ (server.giving # 0 => server.giving = Len(answers))
ExchangeTypes ==
  /\ ClientTyped /\ ViewsTyped /\ ExTyped /\ ServerTyped
  /\ wire \in Seq(Items) /\ answers \in Seq(Replies)

\* Requests and answers are what the assumption says.
LEMMA AskTypes == ASSUME NEW a \in RequestKinds
                  PROVE  a.old \in BOOLEAN /\ a.expects \in BOOLEAN /\ a.shuts \in BOOLEAN /\ a.parts \in Nat
  BY ExchangeAssumption
LEMMA KindTypes == ASSUME NEW k \in AnswerKinds
                   PROVE  /\ k.frame \in {"length", "chunked", "close"} /\ k.coded \in BOOLEAN
                          /\ k.keeps \in BOOLEAN /\ k.parts \in Nat
  BY ExchangeAssumption


\* No step leaves the types.
LEMMA TypesStep == ASSUME ExchangeTypes, [NextExchange]_exchangeVars PROVE ExchangeTypes'
<1> USE DEF ExchangeTypes
<1>m. ASSUME Exchanging PROVE client.n \in 1 .. Len(views) /\ Mine \in Views
  BY <1>m DEF ViewsTyped, ClientTyped, Mine, Exchanging, Askers
<1>s. ASSUME NEW v \in Views, Sees(v), Exchanging PROVE views' \in Seq(Views) /\ Len(views') = Len(views)
  BY <1>s, <1>m DEF ViewsTyped, Sees
<1>h. wire # <<>> => Head(wire) \in Items /\ Tail(wire) \in Seq(Items)
  OBVIOUS
<1>a. \A id \in 1 .. Len(answers) : answers[id] \in Replies
  OBVIOUS
<1>e. ASSUME NEW how \in {"fin", "reset"}, Ends(how)
      PROVE  /\ ex' \in Exchanges /\ ex'.pc = "ended" /\ hungUp' \in {"fin", "reset"} /\ server' \in Servers
             /\ wire' = <<>> /\ server'.giving = server.giving
  BY <1>e DEF Ends, ExTyped, ServerTyped, Exchanges, Servers
<1>p. ASSUME NEW kind \in {"inform", "head", "part", "end", "junk"}, NEW id \in Nat, NEW nth \in Nat,
             Puts(kind, id, nth)
      PROVE  wire' \in Seq(Items)
  BY <1>p DEF Puts, Items
<1>n. ASSUME UNCHANGED <<client, answers>>, ex' \in Exchanges, ex'.pc \in {ex.pc, "ended"},
             hungUp' \in {"no", "fin", "reset"}, server' \in Servers, server'.giving = server.giving, cutOff' \in BOOLEAN,
             views' \in Seq(Views), Len(views') = Len(views), wire' \in Seq(Items)
      PROVE  ExchangeTypes'
  BY <1>n DEF ClientTyped, ViewsTyped, ExTyped, ServerTyped
<1>ab. ASSUME Aborts, UNCHANGED <<client, answers>>, cutOff' \in BOOLEAN PROVE ExchangeTypes'
  <2>1. PICK how \in {"fin", "reset"} : Ends(how) /\ UNCHANGED views
    BY <1>ab DEF Aborts
  <2>2. /\ ex' \in Exchanges /\ ex'.pc = "ended" /\ hungUp' \in {"fin", "reset"} /\ server' \in Servers
        /\ wire' = <<>> /\ server'.giving = server.giving
    BY <2>1, <1>e
  <2> QED BY ONLY <2>1, <2>2, <1>n, <1>ab, ExchangeTypes DEF ViewsTyped, ExchangeTypes
<1>en. ASSUME NEW how \in {"fin", "reset"}, Ends(how), UNCHANGED <<client, views, answers, cutOff>> PROVE ExchangeTypes'
  <2>1. /\ ex' \in Exchanges /\ ex'.pc = "ended" /\ hungUp' \in {"fin", "reset"} /\ server' \in Servers
        /\ wire' = <<>> /\ server'.giving = server.giving
    BY <1>en, <1>e
  <2> QED BY ONLY <2>1, <1>n, <1>en, ExchangeTypes DEF ViewsTyped, ExTyped, ExchangeTypes
<1>up. ASSUME NEW reset \in BOOLEAN, NEW received \in BOOLEAN, UpstreamGoes(reset, received), Exchanging
       PROVE  ExchangeTypes'
  <2>1. CASE Aborts
    BY <2>1, <1>ab, <1>up DEF UpstreamGoes, ExTyped
  <2>2. CASE \E how \in {"fin", "reset"} : Ends(how) /\ UNCHANGED views
    BY <2>2, <1>en, <1>up DEF UpstreamGoes
  <2>3. CASE Ends("fin") /\ Sees([Mine EXCEPT !.own = TRUE])
    <3>1. [Mine EXCEPT !.own = TRUE] \in Views
      BY <1>m, <1>up DEF Views
    <3> QED BY <2>3, <3>1, <1>s, <1>e, <1>n, <1>up DEF UpstreamGoes, ExTyped
  <2> QED BY <2>1, <2>2, <2>3, <1>up DEF UpstreamGoes, UpstreamGone, Tells
<1>1. ASSUME NEW wanted \in RequestKinds, NEW fresh \in BOOLEAN, Begins(wanted, fresh) PROVE ExchangeTypes'
  <2>1. client' \in Askers /\ client'.n = client.n + 1 /\ client'.ask = wanted
    <3>1. client' = [client EXCEPT !.n = @ + 1, !.ask = wanted, !.gave = 0]
      BY <1>1 DEF Begins
    <3>2. PICK n \in Nat : n = client.n + 1
      BY DEF ClientTyped, Askers
    <3>3. client' = [client EXCEPT !.n = n, !.ask = wanted, !.gave = 0]
      BY ONLY <3>1, <3>2
    <3>4. client \in Askers
      BY DEF ClientTyped
    <3>5. client' \in Askers
      BY ONLY <3>3, <3>4, wanted \in RequestKinds, n \in Nat DEF Askers
    <3> QED BY <3>5, <3>4, <3>3, <3>2 DEF Askers
  <2>2. NoView \in Views
    BY DEF NoView, Views
  <2>3. NoServer \in Servers
    BY DEF NoServer, Servers
  <2>4. PICK log : log = IF fresh THEN <<>> ELSE server.log
    OBVIOUS
  <2>5. log \in Seq(Logs)
    BY <2>4 DEF ServerTyped, Servers
  <2>6. [n |-> client.n + 1, body |-> 0, full |-> wanted.parts + 1] \in Logs
    BY AskTypes DEF ClientTyped, Askers, Logs
  <2>7. Append(log, [n |-> client.n + 1, body |-> 0, full |-> wanted.parts + 1]) \in Seq(Logs)
    BY <2>5, <2>6
  <2>8. PICK more : more = Append(log, [n |-> client.n + 1, body |-> 0, full |-> wanted.parts + 1])
    OBVIOUS
  <2>9. more \in Seq(Logs) /\ server' = [(IF fresh THEN NoServer ELSE server) EXCEPT !.up = TRUE, !.log = more, !.answered = FALSE]
    BY <2>7, <2>8, <2>4, <1>1 DEF Begins
  <2>10. server' \in Servers /\ (server'.giving # 0 => server'.giving = server.giving)
    BY <2>9, <2>3 DEF ServerTyped, Servers, NoServer
  <2>11. ex' \in Exchanges /\ ex'.pc = "exchanges"
    BY <1>1, AskTypes DEF Begins, NoExchange, Exchanges, ExTyped
  <2>12. views' \in Seq(Views) /\ Len(views') = client'.n
    <3>1. views' = Append(views, NoView)
      BY <1>1 DEF Begins
    <3> QED BY ONLY <3>1, <2>1, <2>2, ViewsTyped DEF ViewsTyped
  <2>13. ClientTyped'
    BY <2>1, <1>1 DEF ClientTyped, Askers
  <2>14. wire' \in Seq(Items) /\ UNCHANGED <<hungUp, answers, cutOff>>
    BY <1>1 DEF Begins
  <2> QED BY <2>10, <2>11, <2>12, <2>13, <2>14 DEF ViewsTyped, ExTyped, ServerTyped
<1>2. ASSUME ClientGives \/ ClientLeaves PROVE ExchangeTypes'
  <2>1. client' \in Askers /\ client'.n = client.n /\ client'.ask = client.ask
    <3>1. client' = [client EXCEPT !.gave = @ + 1] \/ client' = [client EXCEPT !.gone = TRUE]
      BY <1>2 DEF ClientGives, ClientLeaves
    <3>2. PICK gave \in Nat : gave = client.gave + 1
      BY DEF ClientTyped, Askers
    <3>3. client \in Askers
      BY DEF ClientTyped
    <3>4. client' = [client EXCEPT !.gave = gave] \/ client' = [client EXCEPT !.gone = TRUE]
      BY ONLY <3>1, <3>2, <3>3 DEF Askers
    <3>5. client' \in Askers
      BY ONLY <3>4, <3>3, gave \in Nat DEF Askers
    <3> QED BY <3>5, <3>3, <3>4 DEF Askers
  <2>2. UNCHANGED <<views, hungUp, server, wire, answers, ex, cutOff>>
    BY <1>2 DEF ClientGives, ClientLeaves
  <2> QED BY <2>1, <2>2 DEF ClientTyped, ViewsTyped, ExTyped, ServerTyped
<1>3. ASSUME Informs PROVE ExchangeTypes'
  BY <1>3, <1>p, <1>n DEF Informs, ViewsTyped, ExTyped, ServerTyped
<1>4. ASSUME NEW kind \in AnswerKinds, AnswersWith(kind) PROVE ExchangeTypes'
  <2>1. PICK reply : reply = [for |-> IF server.answered THEN 0 ELSE client.n, kind |-> kind, sent |-> 0, whole |-> FALSE]
    OBVIOUS
  <2>2. reply \in Replies /\ answers' = Append(answers, reply)
    BY <2>1, <1>4 DEF AnswersWith, Replies, ClientTyped, Askers
  <2>3. answers' \in Seq(Replies) /\ Len(answers') = Len(answers) + 1
    BY <2>2
  <2>4. wire' \in Seq(Items)
    <3>1. Puts("head", Len(answers) + 1, 0) /\ Len(answers) + 1 \in Nat
      BY <1>4 DEF AnswersWith
    <3> QED BY <3>1, <1>p
  <2>5. server' \in Servers /\ server'.giving = Len(answers) + 1
    <3>1. server' = [server EXCEPT !.giving = Len(answers) + 1, !.answered = TRUE] /\ Len(answers) + 1 \in Nat
      BY <1>4 DEF AnswersWith
    <3> QED BY ONLY <3>1, ServerTyped DEF ServerTyped, Servers
  <2> QED BY <1>4, <2>3, <2>4, <2>5 DEF AnswersWith, ClientTyped, ViewsTyped, ExTyped, ServerTyped
<1>5. ASSUME Gives PROVE ExchangeTypes'
  <2>1. server.giving \in 1 .. Len(answers) /\ Giving \in Replies
    BY <1>5, <1>a DEF Gives, ServerTyped, Servers, Giving
  <2>2. ASSUME Giving.sent < Giving.kind.parts PROVE ExchangeTypes'
    <3>1. PICK reply : reply = [Giving EXCEPT !.sent = @ + 1]
      OBVIOUS
    <3>2. reply \in Replies /\ answers' = [answers EXCEPT ![server.giving] = reply]
      <4>1. reply \in Replies
        <5>1. PICK sent \in Nat : sent = Giving.sent + 1
          BY <2>1 DEF Replies
        <5> QED BY ONLY <5>1, <3>1, <2>1 DEF Replies
      <4>2. answers' = [answers EXCEPT ![server.giving].sent = @ + 1]
        BY <2>2, <1>5 DEF Gives
      <4> QED BY ONLY <4>1, <4>2, <3>1, <2>1, answers \in Seq(Replies) DEF Giving, Replies
    <3>3. answers' \in Seq(Replies) /\ Len(answers') = Len(answers)
      BY <3>2, <2>1
    <3>4. wire' \in Seq(Items)
      <4>1. Puts("part", server.giving, Giving.sent + 1) /\ server.giving \in Nat
        BY <1>5, <2>2, <2>1 DEF Gives
      <4>2. Giving.sent + 1 \in Nat
        BY <2>1 DEF Replies
      <4> QED BY <4>1, <4>2, <1>p
    <3> QED BY <1>5, <2>2, <3>3, <3>4 DEF Gives, ClientTyped, ViewsTyped, ExTyped, ServerTyped
  <2>3. ASSUME ~(Giving.sent < Giving.kind.parts) PROVE ExchangeTypes'
    <3>1. PICK reply : reply = [Giving EXCEPT !.whole = TRUE]
      OBVIOUS
    <3>2. reply \in Replies /\ answers' = [answers EXCEPT ![server.giving] = reply]
      BY <3>1, <2>1, <2>3, <1>5 DEF Gives, Giving, Replies
    <3>3. answers' \in Seq(Replies) /\ Len(answers') = Len(answers)
      BY <3>2, <2>1
    <3>4. wire' \in Seq(Items)
      BY <1>5, <2>1, <2>3, <1>p DEF Gives, Replies, ServerTyped, Servers
    <3>5. server' \in Servers /\ server'.giving = 0
      <4>1. server' = [server EXCEPT !.giving = 0] \/ server' = [server EXCEPT !.giving = 0, !.end = "eof"]
        BY <1>5, <2>3 DEF Gives
      <4>2. server' \in Servers
        <5>1. ASSUME server' = [server EXCEPT !.giving = 0] PROVE server' \in Servers
          BY <5>1 DEF ServerTyped, Servers
        <5>2. ASSUME server' = [server EXCEPT !.giving = 0, !.end = "eof"] PROVE server' \in Servers
          BY <5>2 DEF ServerTyped, Servers
        <5> QED BY <4>1, <5>1, <5>2
      <4> QED BY <4>1, <4>2 DEF ServerTyped, Servers
    <3> QED BY <1>5, <2>3, <3>3, <3>4, <3>5 DEF Gives, ClientTyped, ViewsTyped, ExTyped, ServerTyped
  <2> QED BY <2>2, <2>3
<1>6. ASSUME Babbles PROVE ExchangeTypes'
  <2>1. server' \in Servers /\ server'.giving = server.giving
    BY <1>6 DEF Babbles, ServerTyped, Servers
  <2> QED BY <1>6, <2>1, <1>p, <1>n DEF Babbles, ViewsTyped, ExTyped
<1>7. ASSUME ServerEnds PROVE ExchangeTypes'
  <2>1. server' \in Servers /\ server'.giving = server.giving
    BY <1>7 DEF ServerEnds, ServerTyped, Servers
  <2> QED BY <1>7, <2>1, <1>n DEF ServerEnds, ViewsTyped, ExTyped
<1>8. ASSUME Uploads PROVE ExchangeTypes'
  <2>1. ex' \in Exchanges /\ ex'.pc = ex.pc
    <3>1. PICK pumped \in {"runs", "done"} : ex' = [ex EXCEPT !.body = @ + 1, !.waits = FALSE, !.pumped = pumped]
      BY <1>8 DEF Uploads
    <3>2. PICK body \in Nat : body = ex.body + 1
      BY DEF ExTyped, Exchanges
    <3>3. ex' = [ex EXCEPT !.body = body, !.waits = FALSE, !.pumped = pumped]
      BY <3>1, <3>2
    <3> QED BY ONLY <3>3, ExTyped DEF ExTyped, Exchanges
  <2>2. ex.body + 1 \in Nat
    BY DEF ExTyped, Exchanges
  <2>3. PICK last : last = Len(server.log)
    OBVIOUS
  <2>4. PICK log : log = [server.log EXCEPT ![last].body = ex.body + 1]
    OBVIOUS
  <2>5. server' = [server EXCEPT !.log = log]
    BY <1>8, <2>3, <2>4 DEF Uploads
  <2>6. log \in Seq(Logs)
    <3>1. server.log \in Seq(Logs)
      BY DEF ServerTyped, Servers
    <3>2. PICK before : before = server.log
      OBVIOUS
    <3>3. before \in Seq(Logs) /\ last = Len(before)
      BY <3>1, <3>2, <2>3
    <3>4. CASE before = <<>>
      <4>1. server.log = <<>> /\ DOMAIN server.log = {}
        BY <3>2, <3>4
      <4>2. DOMAIN log = {}
        BY <4>1, <2>4
      <4>3. log = [i \in {} |-> i]
        <5>1. log = [i \in DOMAIN server.log |-> log[i]]
          BY ONLY <2>4
        <5> QED BY ONLY <5>1, <4>1
      <4>4. server.log = [i \in {} |-> i]
        <5>1. server.log = [i \in DOMAIN server.log |-> server.log[i]]
          BY ONLY <3>1
        <5> QED BY ONLY <5>1, <4>1
      <4> QED BY ONLY <4>3, <4>4, <3>1
    <3>5. CASE before # <<>>
      <4>1. last \in 1 .. Len(before) /\ before[last] \in Logs
        BY ONLY <3>3, <3>5
      <4>2. PICK entry : entry = [before[last] EXCEPT !.body = ex.body + 1]
        OBVIOUS
      <4>3. entry \in Logs
        BY ONLY <4>1, <4>2, <2>2 DEF Logs
      <4>4. log = [before EXCEPT ![last] = entry]
        BY ONLY <4>2, <2>4, <3>2, <4>1, <3>3
      <4> QED BY ONLY <4>4, <4>3, <4>1, <3>3
    <3> QED BY <3>4, <3>5
  <2>7. server' \in Servers /\ server'.giving = server.giving
    BY <2>5, <2>6 DEF ServerTyped, Servers
  <2> QED BY <1>8, <2>1, <2>7, <1>n DEF Uploads, ViewsTyped, ExTyped
<1>9. ASSUME UploadBreaks PROVE ExchangeTypes'
  <2>1. CASE ex.answer = "done"
    <3>1. ex' \in Exchanges /\ ex'.pc = ex.pc
      BY <1>9, <2>1 DEF UploadBreaks, ExTyped, Exchanges
    <3> QED BY <1>9, <2>1, <3>1, <1>n DEF UploadBreaks, ViewsTyped, ExTyped, ServerTyped
  <2>2. CASE ex.answer # "done"
    BY <1>9, <2>2, <1>up DEF UploadBreaks, ExTyped, Exchanges
  <2> QED BY <2>1, <2>2
<1>10. ASSUME ClientIsGone \/ Leaves PROVE ExchangeTypes'
  BY <1>10, <1>en DEF ClientIsGone, Leaves
<1>11. ASSUME InformReaches PROVE ExchangeTypes'
  <2>1. ex' \in Exchanges /\ ex'.pc = ex.pc
    BY <1>11 DEF InformReaches, ExTyped, Exchanges
  <2>2. client.ask.old \in BOOLEAN /\ Exchanging
    BY <1>11, AskTypes DEF InformReaches, NextIs, Pumping, ClientTyped, Exchanging
  <2>3. [Mine EXCEPT !.informed = ~client.ask.old] \in Views
    BY <2>2, <1>m DEF Views
  <2>4. views' \in Seq(Views) /\ Len(views') = Len(views)
    BY <1>11, <2>2, <2>3, <1>s DEF InformReaches
  <2> QED BY <1>11, <2>1, <2>4, <1>h, <1>n DEF InformReaches, NextIs, Quietly, ExTyped, ServerTyped
<1>12. ASSUME HeadReaches PROVE ExchangeTypes'
  <2>1. Exchanging /\ client.ask \in RequestKinds /\ wire # <<>>
    BY <1>12 DEF HeadReaches, Pumping, ClientTyped, Exchanging
  <2>2. PICK id : id = Head(wire).id
    OBVIOUS
  <2>3. id \in Nat
    BY <2>1, <2>2, <1>h DEF Items
  <2>4. PICK kind : kind = answers[id].kind
    OBVIOUS
  <2>5. CASE Refused(kind)
    BY <1>12, <2>1, <2>2, <2>4, <2>5, <1>up DEF HeadReaches
  <2>6. CASE ~Refused(kind)
    <3>1. PICK stalled \in BOOLEAN :
             ex' = [ex EXCEPT !.received = TRUE, !.answer = "body", !.headed = ~stalled, !.stalled = stalled,
                      !.abandoned = ex.waits, !.waits = FALSE, !.closes = ~kind.keeps \/ kind.frame = "close"]
      BY <1>12, <2>6, <2>2, <2>4 DEF HeadReaches
    <3>2. PICK closes \in BOOLEAN : closes = (~kind.keeps \/ kind.frame = "close")
      OBVIOUS
    <3>3. ex' \in Exchanges /\ ex'.pc = ex.pc
      <4>1. ex' = [ex EXCEPT !.received = TRUE, !.answer = "body", !.headed = ~stalled, !.stalled = stalled,
                      !.abandoned = ex.waits, !.waits = FALSE, !.closes = closes]
        BY <3>1, <3>2
      <4> QED BY <4>1 DEF ExTyped, Exchanges
    <3>4. Framing(kind) \in {"length", "chunked", "close"}
      BY DEF Framing
    <3>5. [Mine EXCEPT !.id = id, !.frame = Framing(kind)] \in Views
      BY <3>4, <2>3, <2>1, <1>m DEF Views
    <3>6. views' \in Seq(Views) /\ Len(views') = Len(views)
      BY <1>12, <2>1, <2>6, <2>2, <2>4, <3>5, <1>s DEF HeadReaches
    <3>7. wire' = Tail(wire) /\ Quietly
      BY <1>12, <2>6, <2>2, <2>4 DEF HeadReaches
    <3> QED BY <2>1, <3>3, <3>6, <3>7, <1>h, <1>n DEF Quietly, ExTyped, ServerTyped
  <2> QED BY <2>5, <2>6
<1>13. ASSUME HeadTaken PROVE ExchangeTypes'
  <2>1. ex' \in Exchanges /\ ex'.pc = ex.pc
    BY <1>13 DEF HeadTaken, ExTyped, Exchanges
  <2> QED BY <1>13, <2>1, <1>n DEF HeadTaken, ViewsTyped, ExTyped, ServerTyped
<1>14. ASSUME PartReaches PROVE ExchangeTypes'
  <2>1. Exchanging
    BY <1>14 DEF PartReaches, NextIs, Pumping
  <2>2. [Mine EXCEPT !.parts = @ + 1] \in Views
    BY <2>1, <1>m DEF Views
  <2> QED BY <1>14, <2>1, <2>2, <1>s, <1>h, <1>n DEF PartReaches, NextIs, Quietly, ExTyped, ServerTyped
<1>c. ASSUME Completed PROVE /\ ex' \in Exchanges /\ ex'.pc \in {ex.pc, "ended"} /\ hungUp' \in {"no", "fin", "reset"}
                             /\ server' \in Servers /\ server'.giving = server.giving
  <2>1. CASE Ends("fin")
    BY <2>1, <1>e
  <2>2. CASE ex' = [ex EXCEPT !.answer = "done"] /\ UNCHANGED <<hungUp, server>>
    BY <2>2 DEF ExTyped, Exchanges, ServerTyped
  <2> QED BY <1>c, <2>1, <2>2 DEF Completed
<1>15. ASSUME EndReaches PROVE ExchangeTypes'
  <2>1. Exchanging
    BY <1>15 DEF EndReaches, Pumping
  <2>2. [Mine EXCEPT !.ended = TRUE] \in Views
    BY <2>1, <1>m DEF Views
  <2>3. wire' \in Seq(Items)
    BY <1>15, <1>h DEF EndReaches
  <2> QED BY <1>15, <2>1, <2>2, <2>3, <1>s, <1>c, <1>n DEF EndReaches, ExTyped
<1>16. ASSUME EofReaches PROVE ExchangeTypes'
  <2>1. Exchanging
    BY <1>16 DEF EofReaches, Pumping
  <2>2. CASE ex.answer = "body" /\ answers[Mine.id].kind.frame = "close"
    <3>1. [Mine EXCEPT !.ended = Mine.frame = "chunked"] \in Views
      BY <2>1, <1>m DEF Views
    <3> QED BY <1>16, <2>1, <2>2, <3>1, <1>s, <1>c, <1>n DEF EofReaches, ExTyped
  <2>3. CASE ~(ex.answer = "body" /\ answers[Mine.id].kind.frame = "close")
    BY <1>16, <2>1, <2>3, <1>up DEF EofReaches, ExTyped, Exchanges
  <2> QED BY <2>2, <2>3
<1>17. ASSUME ResetReaches \/ JunkReaches PROVE ExchangeTypes'
  BY <1>17, <1>up DEF ResetReaches, JunkReaches, Pumping, ExTyped, Exchanges
<1>18. ASSUME Finishes PROVE ExchangeTypes'
  <2> DEFINE GoesOn ==
    /\ ex' = [ex EXCEPT !.pc = "reads", !.completed = @ + 1]
    /\ server' = [server EXCEPT !.up = ~ex.closes]
    /\ wire' = (IF ex.closes THEN <<>> ELSE wire)
    /\ UNCHANGED hungUp
  <2>0. (Ends("fin") \/ GoesOn) /\ UNCHANGED <<client, views, answers, cutOff>>
    BY <1>18 DEF Finishes
  <2>1. CASE Ends("fin")
    BY <2>0, <2>1, <1>en
  <2>2. CASE GoesOn
    <3>1. ex' \in Exchanges /\ ex'.pc = "reads"
      <4>1. PICK completed \in Nat : completed = ex.completed + 1
        BY DEF ExTyped, Exchanges
      <4>2. ex' = [ex EXCEPT !.pc = "reads", !.completed = completed]
        BY <2>2, <4>1
      <4> QED BY ONLY <4>2, completed \in Nat, ExTyped DEF ExTyped, Exchanges
    <3>2. server' \in Servers /\ server'.giving = server.giving
      BY <2>2 DEF ExTyped, Exchanges, ServerTyped, Servers
    <3>3. wire' \in Seq(Items) /\ UNCHANGED <<client, views, answers, hungUp, cutOff>>
      BY <2>2, <2>0
    <3> QED BY <3>1, <3>2, <3>3 DEF ClientTyped, ViewsTyped, ExTyped, ServerTyped
  <2> QED BY <2>0, <2>1, <2>2
<1>19. ASSUME CutsOff PROVE ExchangeTypes'
  BY <1>19, <1>ab DEF CutsOff
<1>20. ASSUME UNCHANGED exchangeVars PROVE ExchangeTypes'
  BY <1>20 DEF exchangeVars, ClientTyped, ViewsTyped, ExTyped, ServerTyped
<1> QED BY <1>1, <1>2, <1>3, <1>4, <1>5, <1>6, <1>7, <1>8, <1>9, <1>10, <1>11, <1>12, <1>13, <1>14, <1>15,
           <1>16, <1>17, <1>18, <1>19, <1>20 DEF NextExchange
-----------------------------------------------------------------------------
(* The invariant.                                                           *)

\* What was read last of the connection that is up, and what was put on it last.
Prior == IF Exchanging /\ ex.answer = "body" THEN [kind |-> "part", id |-> Mine.id, nth |-> Mine.parts]
         ELSE [kind |-> "end", id |-> 0, nth |-> 0]
Last == IF wire = <<>> THEN Prior ELSE wire[Len(wire)]

IsWhole(a, parts) == a.whole /\ parts = a.kind.parts

\* On the wire, b can come after a.
ComesAfter(a, b, as) ==
  /\ a.kind # "junk"
  /\ b.kind \in {"inform", "head"} => a.kind \in {"end", "inform"}
  /\ b.kind = "head" => b.nth = 0
  /\ b.kind \in {"part", "end"} => a.kind \in {"head", "part"} /\ b.id = a.id
  /\ b.kind = "part" => b.nth = a.nth + 1
  /\ b.kind = "end" => b.nth = a.nth /\ IsWhole(as[b.id], b.nth)
  /\ b.kind = "junk" /\ a.kind \in {"head", "part"} => as[a.id].kind.frame = "chunked"

\* What is on the wire is in order, and junk is the last of it.
WireFollows ==
  /\ wire # <<>> => server.up /\ ComesAfter(Prior, wire[1], answers)
  /\ \A i \in 1 .. Len(wire) - 1 : ComesAfter(wire[i], wire[i + 1], answers)
  /\ server.up /\ server.end = "open" => \A i \in 1 .. Len(wire) : wire[i].kind # "junk"
\* It is of answers that there are; their heads come in the order of the answers, after those that were read.
WireKnows ==
  /\ \A i \in 1 .. Len(wire) : wire[i].kind \in {"head", "part", "end"} => wire[i].id \in 1 .. Len(answers)
  /\ \A i \in 1 .. Len(wire) : wire[i].kind = "head" => \A n \in 1 .. Len(views) : views[n].id < wire[i].id
  /\ \A i, j \in 1 .. Len(wire) : i < j /\ wire[i].kind = "head" /\ wire[j].kind = "head" => wire[i].id < wire[j].id

\* The server has put on the wire all that it gave of its answer; one that it gave all of, and
\* that is not ended on the wire, ends with the connection.
GivingTells == server.up =>
  /\ server.giving # 0 =>
       /\ ~Giving.whole /\ Giving.sent <= Giving.kind.parts
       /\ Last.kind = "junk" \/ (Last.kind \in {"head", "part"} /\ Last.id = server.giving /\ Last.nth = Giving.sent)
       /\ server.end = "eof" => Giving.kind.frame # "close"
  /\ server.giving = 0 /\ Last.kind \in {"head", "part"} =>
       /\ server.end # "open" /\ Last.id \in 1 .. Len(answers) /\ IsWhole(answers[Last.id], Last.nth)
       /\ answers[Last.id].kind.frame = "close"

\* Each request has one answer at most, and none before it is there.
AnswersTell ==
  /\ \A k \in 1 .. Len(answers) : answers[k].for <= client.n
  /\ \A k, l \in 1 .. Len(answers) : answers[k].for = answers[l].for /\ answers[k].for # 0 => k = l
  /\ server.up /\ ~server.answered => \A k \in 1 .. Len(answers) : answers[k].for # client.n

\* A client has got a whole answer.
DoneView(v) == v.id # 0 /\ IsWhole(answers[v.id], v.parts)
\* The answer that the client got for its request n.
ViewKnows(n) ==
  /\ views[n].id # 0 => views[n].id \in 1 .. Len(answers)
  /\ \A m \in 1 .. Len(views) : views[m].id = views[n].id /\ views[n].id # 0 => m = n
  /\ views[n].id # 0 => answers[views[n].id].for = n \/ \E k \in 1 .. views[n].id : answers[k].for = 0
  /\ views[n].id # 0 /\ views[n].frame = "close" =>
       answers[views[n].id].kind.frame # "length" /\ (n = client.n => client.ask.old)
\* It is whole when the next request comes, and when it looks so.
ViewTells(n) ==
  /\ n < client.n \/ ex.pc = "reads" \/ (Exchanging /\ ex.answer = "done") \/ views[n].ended => DoneView(views[n])
  /\ views[n].own => ex.pc = "ended" /\ (views[n].id # 0 => n = client.n /\ ex.stalled)
  /\ ex.pc = "ended" /\ n = client.n /\ hungUp = "fin" /\ views[n].id # 0 /\ views[n].frame = "close" /\ ~client.gone =>
       DoneView(views[n]) \/ cutOff \/ ex.stalled \/ answers[views[n].id].kind.frame = "chunked"
ViewsTell == \A n \in 1 .. Len(views) : ViewKnows(n) /\ ViewTells(n)

\* Where the exchange is, and what of its answer the client got there.
ExchangeStands ==
  /\ ex.pc = "ended" => ~server.up
  /\ ex.pc # "ended" => hungUp = "no"
  /\ Exchanging =>
       /\ server.up
       /\ ex.answer = "head" <=> Mine.id = 0
       /\ ex.answer = "head" => Mine.parts = 0 /\ ~ex.headed /\ ~ex.stalled
       /\ ex.answer # "done" => ~Mine.ended
       /\ ex.stalled => ex.answer = "body"
       /\ ex.headed <=> ex.answer # "head" /\ ~ex.stalled
\* The request's body, and who waits for what of it.
AskStands == Exchanging =>
  /\ ex.body <= client.gave
  /\ ex.pumped = "done" => ex.body = Full
  /\ ex.pumped = "cut" => ex.answer = "done"
AskWaits == Exchanging =>
  /\ client.ask.old => ~Mine.informed
  /\ client.ask.expects /\ ex.answer = "head" /\ ~ex.waits => Mine.informed \/ client.gave > 0
  /\ client.ask.expects /\ ex.answer # "head" /\ ~ex.abandoned => Mine.informed \/ client.gave > 0
  /\ ex.answer = "done" /\ ex.pumped = "runs" => ~ex.abandoned
\* What the server got: all of each request but the last.
LogTells == server.up =>
  /\ \A i \in 1 .. Len(server.log) - 1 : server.log[i].body = server.log[i].full
  /\ Len(server.log) > 0
  /\ Exchanging => server.log[Len(server.log)].body = ex.body /\ server.log[Len(server.log)].full = Full
  /\ ex.pc = "reads" => server.log[Len(server.log)].body = server.log[Len(server.log)].full

ExchangeSound ==
  /\ ExchangeTypes /\ WireFollows /\ WireKnows /\ GivingTells /\ AnswersTell /\ ViewsTell
  /\ ExchangeStands /\ AskStands /\ AskWaits /\ LogTells

\* It says what the property says.
LEMMA SoundIsWhole == ASSUME ExchangeSound PROVE ExchangeIsWhole
<1> USE DEF ExchangeSound
<1>1. DOMAIN views = 1 .. Len(views) /\ DOMAIN answers = 1 .. Len(answers) /\ Len(views) = client.n /\ client.n \in Nat
  BY DEF ExchangeTypes, ViewsTyped, ClientTyped, Askers
<1>2. NothingPassesAsWhole
  <2> SUFFICES ASSUME NEW n \in 1 .. Len(views), Answered(n), LooksWhole(n), ~client.gone
               PROVE  LET a == answers[views[n].id]
                      IN  \/ a.whole /\ views[n].parts = a.kind.parts
                          \/ views[n].frame = "close" /\ client.ask.old /\ (cutOff \/ ex.stalled \/ a.kind.frame = "chunked")
    BY <1>1 DEF NothingPassesAsWhole
  <2>1. ViewKnows(n) /\ ViewTells(n)
    BY DEF ViewsTell
  <2>2. hungUp = "fin" => ex.pc = "ended"
    BY DEF ExchangeStands
  <2> QED BY <2>1, <2>2 DEF ViewKnows, ViewTells, Answered, LooksWhole, DoneView, IsWhole
<1>3. AnswersBelong
  BY <1>1 DEF AnswersBelong, Answered, ViewsTell, ViewKnows
<1>4. AnsweredOnce
  BY <1>1 DEF AnsweredOnce, Answered, ViewsTell, ViewTells
<1>5. RequestsAreWhole
  BY DEF RequestsAreWhole, LogTells
<1>6. NobodyWaits
  BY DEF NobodyWaits, AskWaits
<1> QED BY <1>2, <1>3, <1>4, <1>5, <1>6 DEF ExchangeIsWhole

\* It holds at first.
LEMMA InitSound == ASSUME InitExchange PROVE ExchangeSound
<1> USE DEF InitExchange
<1>1. ExchangeTypes
  <2>1. ex.pc # "exchanges" /\ ExTyped
    BY DEF ExTyped, Exchanges, NoExchange
  <2>2. ClientTyped /\ ViewsTyped
    BY <2>1 DEF ClientTyped, ViewsTyped, Askers
  <2>3. ServerTyped
    BY DEF ServerTyped, Servers, NoServer
  <2> QED BY <2>1, <2>2, <2>3 DEF ExchangeTypes
<1>2. WireFollows /\ WireKnows
  BY DEF WireFollows, WireKnows
<1>3. GivingTells /\ LogTells
  BY DEF GivingTells, LogTells, NoServer
<1>4. AnswersTell /\ ViewsTell
  BY DEF AnswersTell, ViewsTell
<1>5. ExchangeStands /\ AskStands /\ AskWaits
  BY DEF ExchangeStands, AskStands, AskWaits, NoServer, NoExchange, Exchanging
<1> QED BY <1>1, <1>2, <1>3, <1>4, <1>5 DEF ExchangeSound

-----------------------------------------------------------------------------
(* Steps that end the exchange.                                              *)

\* What the client gets, it gets of its last request.
LEMMA SeesOne ==
  ASSUME ExchangeTypes, Exchanging, NEW v, Sees(v)
  PROVE  /\ client.n \in 1 .. Len(views) /\ Len(views') = Len(views) /\ views'[client.n] = v
         /\ \A n \in 1 .. Len(views) : n # client.n => views'[n] = views[n]
BY DEF ExchangeTypes, ViewsTyped, ClientTyped, Askers, Sees, Exchanging

\* Neither connection outlives the exchange.
LEMMA EndsAll ==
  ASSUME ExchangeTypes, NEW how, Ends(how)
  PROVE  /\ ex'.pc = "ended" /\ ex'.stalled = ex.stalled /\ ex'.answer = ex.answer
         /\ hungUp' = how /\ ~server'.up /\ wire' = <<>>
BY DEF ExchangeTypes, ExTyped, Exchanges, ServerTyped, Servers, Ends

\* What the client got of answers stays theirs.
LEMMA SameViewsKnow ==
  ASSUME ExchangeSound, UNCHANGED answers, client'.n = client.n, client'.ask = client.ask, Len(views') = Len(views),
         \A n \in 1 .. Len(views) :
           views'[n].id = views[n].id /\ views'[n].frame = views[n].frame /\ views'[n].parts = views[n].parts,
         NEW n \in 1 .. Len(views)
  PROVE  ViewKnows(n)'
<1>1. \A m \in 1 .. Len(views) : ViewKnows(m)
  BY DEF ExchangeSound, ViewsTell
<1> QED BY <1>1 DEF ViewKnows

\* An end, once the client is not misled.
LEMMA EndSound ==
  ASSUME ExchangeSound, ExchangeTypes', NEW how, Ends(how), UNCHANGED <<client, answers>>, Len(views') = Len(views),
         \A n \in 1 .. Len(views) :
           views'[n].id = views[n].id /\ views'[n].frame = views[n].frame /\ views'[n].parts = views[n].parts,
         \A n \in 1 .. Len(views) : ViewTells(n)'
  PROVE  ExchangeSound'
<1>1. ex'.pc = "ended" /\ ~server'.up /\ wire' = <<>>
  BY EndsAll DEF ExchangeSound
<1>2. WireFollows'
  BY <1>1 DEF WireFollows
<1>3. WireKnows'
  BY <1>1 DEF WireKnows
<1>4. GivingTells' /\ LogTells'
  BY <1>1 DEF GivingTells, LogTells
<1>5. AnswersTell'
  BY <1>1 DEF AnswersTell, ExchangeSound
<1>6. ViewsTell'
  BY SameViewsKnow DEF ViewsTell
<1>7. ExchangeStands' /\ AskStands' /\ AskWaits'
  BY <1>1 DEF ExchangeStands, AskStands, AskWaits, Exchanging
<1> QED BY <1>2, <1>3, <1>4, <1>5, <1>6, <1>7 DEF ExchangeSound

\* The client sees no more than it did.
LEMMA QuietEndSound ==
  ASSUME ExchangeSound, ExchangeTypes', NEW how, Ends(how), UNCHANGED <<client, views, answers>>, ex.pc # "ended",
         \/ how = "reset" \/ cutOff' \/ ex.stalled \/ client.gone
         \/ views # <<>> => \/ DoneView(views[client.n]) \/ views[client.n].id = 0
                            \/ views[client.n].frame = "close" => answers[views[client.n].id].kind.frame = "chunked"
  PROVE  ExchangeSound'
<1>1. ex'.pc = "ended" /\ ex'.stalled = ex.stalled /\ hungUp' = how
  BY EndsAll DEF ExchangeSound
<1>2. ASSUME NEW n \in 1 .. Len(views) PROVE ViewTells(n)'
  <2>1. ViewTells(n)
    BY DEF ExchangeSound, ViewsTell
  <2>2. views # <<>>
    OBVIOUS
  <2> QED BY <2>1, <2>2, <1>1 DEF ViewTells, DoneView, Exchanging
<1> QED BY <1>2, EndSound

\* The meter answers itself.
LEMMA OwnEndSound ==
  ASSUME ExchangeSound, ExchangeTypes', Ends("fin"), Sees([Mine EXCEPT !.own = TRUE]), UNCHANGED <<client, answers>>,
         Exchanging, ex.answer = "head" \/ ex.stalled
  PROVE  ExchangeSound'
<1> USE DEF ExchangeSound
<1>1. ex'.pc = "ended" /\ ex'.stalled = ex.stalled /\ hungUp' = "fin"
  BY EndsAll
<1>2. /\ client.n \in 1 .. Len(views) /\ Len(views') = Len(views) /\ views'[client.n] = [Mine EXCEPT !.own = TRUE]
      /\ \A n \in 1 .. Len(views) : n # client.n => views'[n] = views[n]
  BY SeesOne
<1>3. Mine \in Views /\ views[client.n] = Mine
  BY <1>2 DEF ExchangeTypes, ViewsTyped, Mine
<1>4. /\ views'[client.n].id = Mine.id /\ views'[client.n].frame = Mine.frame /\ views'[client.n].parts = Mine.parts
      /\ views'[client.n].ended = Mine.ended
  BY <1>2, <1>3 DEF Views
<1>5. \A n \in 1 .. Len(views) :
           views'[n].id = views[n].id /\ views'[n].frame = views[n].frame /\ views'[n].parts = views[n].parts /\ views'[n].ended = views[n].ended
  BY <1>2, <1>3, <1>4
<1>6. ex.answer = "head" <=> Mine.id = 0
  BY DEF ExchangeStands
<1>7. ASSUME NEW n \in 1 .. Len(views) PROVE ViewTells(n)'
  <2>1. ViewTells(n)
    BY DEF ViewsTell
  <2>2. CASE n = client.n
    BY <2>1, <2>2, <1>1, <1>5, <1>6, <1>3 DEF ViewTells, DoneView, Exchanging, IsWhole
  <2>3. CASE n # client.n
    BY <2>1, <2>3, <1>1, <1>2 DEF ViewTells, DoneView, Exchanging, IsWhole
  <2> QED BY <2>2, <2>3
<1> QED BY <1>7, <1>5, <1>2, EndSound

\* The upstream goes, and what ends its answer is not that.
LEMMA GoesSound ==
  ASSUME ExchangeSound, ExchangeTypes', NEW reset \in BOOLEAN, NEW received \in BOOLEAN, UpstreamGoes(reset, received),
         Exchanging, ex.answer # "done",
         reset \/ (ex.answer = "body" => answers[Mine.id].kind.frame # "close")
  PROVE  ExchangeSound'
<1> USE DEF ExchangeSound
<1>0. ex.answer \in {"head", "body"}
  BY DEF ExchangeTypes, ExTyped, Exchanges
<1>1. CASE ~ex.headed
  <2>1. ex.answer = "head" \/ ex.stalled
    BY <1>1 DEF ExchangeStands
  <2>2. ASSUME NEW how \in {"fin", "reset"}, Ends(how), UNCHANGED views PROVE ExchangeSound'
    <3>1. ex.stalled \/ Mine.id = 0
      BY <2>1 DEF ExchangeStands
    <3> QED BY <2>2, <3>1, QuietEndSound DEF UpstreamGoes, Exchanging, Mine
  <2> QED BY <1>1, <2>1, <2>2, OwnEndSound DEF UpstreamGoes, UpstreamGone, Tells
<1>2. CASE ex.headed
  <2>1. PICK how \in {"fin", "reset"} : Ends(how) /\ UNCHANGED views /\ (reset => how = "reset")
    BY <1>2 DEF UpstreamGoes, UpstreamGone, Aborts
  <2>2. ex.answer = "body" /\ Mine.id # 0
    BY <1>2, <1>0 DEF ExchangeStands
  <2>3. how = "reset" \/ (Mine.frame = "close" => answers[Mine.id].kind.frame = "chunked")
    <3>1. ViewKnows(client.n)
      BY DEF ViewsTell, ExchangeTypes, ViewsTyped, ClientTyped, Exchanging, Askers
    <3>2. Mine.id \in 1 .. Len(answers) => answers[Mine.id].kind.frame \in {"length", "chunked", "close"}
      <4>1. Mine.id \in 1 .. Len(answers) => answers[Mine.id] \in Replies
        BY DEF ExchangeTypes
      <4> QED BY <4>1, KindTypes DEF Replies
    <3> QED BY <2>1, <2>2, <3>1, <3>2 DEF ViewKnows, Mine
  <2> QED BY <2>1, <2>3, QuietEndSound DEF UpstreamGoes, Exchanging, Mine
<1> QED BY <1>1, <1>2

-----------------------------------------------------------------------------
(* Steps of the server.                                                      *)

\* Answers are added to; a whole one stays what it is.
Grows(as, bs) ==
  /\ Len(as) <= Len(bs)
  /\ \A k \in 1 .. Len(as) : bs[k].for = as[k].for /\ bs[k].kind = as[k].kind /\ (as[k].whole => bs[k] = as[k])

\* The order on the wire stays right while answers grow.
LEMMA AfterGrows ==
  ASSUME NEW as \in Seq(Replies), NEW bs \in Seq(Replies), Grows(as, bs), NEW a, NEW b, ComesAfter(a, b, as),
         b.kind = "end" => b.id \in 1 .. Len(as),
         b.kind = "junk" /\ a.kind \in {"head", "part"} => a.id \in 1 .. Len(as)
  PROVE  ComesAfter(a, b, bs)
BY DEF Grows, ComesAfter, IsWhole

\* What was read last is a part of the answer that the client gets, if it gets one.
LEMMA PriorTells ==
  ASSUME ExchangeSound
  PROVE  /\ Prior.kind \in {"part", "end"}
         /\ Prior.kind = "part" <=> Exchanging /\ ex.answer = "body"
         /\ Prior.kind = "part" =>
              Prior.id = Mine.id /\ Prior.nth = Mine.parts /\ Prior.id \in 1 .. Len(answers) /\ ViewKnows(client.n)
<1> USE DEF ExchangeSound
<1>1. ASSUME Exchanging PROVE ViewKnows(client.n) /\ Mine \in Views
  BY <1>1 DEF ExchangeTypes, ViewsTyped, ClientTyped, Askers, Exchanging, Mine, ViewsTell
<1>2. Exchanging => (ex.answer = "head" <=> Mine.id = 0)
  BY DEF ExchangeStands
<1> QED BY <1>1, <1>2 DEF Prior, ViewKnows, Mine

\* The last on the wire.
LEMMA LastTells ==
  ASSUME ExchangeSound
  PROVE  /\ Last.kind \in {"inform", "head", "part", "end", "junk"}
         /\ Last.kind \in {"head", "part"} => Last.id \in 1 .. Len(answers)
         /\ server.up /\ server.end = "open" => Last.kind # "junk"
<1> USE DEF ExchangeSound
<1>1. CASE wire = <<>>
  BY <1>1, PriorTells DEF Last
<1>2. CASE wire # <<>>
  <2>1. Len(wire) \in 1 .. Len(wire) /\ wire[Len(wire)] \in Items
    BY <1>2 DEF ExchangeTypes
  <2> QED BY <1>2, <2>1 DEF Last, WireKnows, WireFollows, Items
<1> QED BY <1>1, <1>2

\* The server changes nothing of the exchange, ...
LEMMA ServerStands ==
  ASSUME ExchangeSound, UNCHANGED <<client, views, hungUp, ex, cutOff>>, server.up, server'.up = server.up, server'.log = server.log
  PROVE  ExchangeStands' /\ AskStands' /\ AskWaits' /\ LogTells' /\ Prior' = Prior
<1>1. Mine' = Mine /\ Exchanging' = Exchanging /\ Full' = Full
  BY DEF Mine, Exchanging, Full
<1>2. ExchangeStands'
  BY <1>1 DEF ExchangeSound, ExchangeStands
<1>3. AskStands' /\ AskWaits'
  BY <1>1 DEF ExchangeSound, AskStands, AskWaits
<1>4. LogTells'
  BY <1>1 DEF ExchangeSound, LogTells
<1> QED BY <1>1, <1>2, <1>3, <1>4 DEF Prior

\* ... nothing that the client got, ...
LEMMA ServerViews ==
  ASSUME ExchangeSound, UNCHANGED <<client, views, hungUp, ex, cutOff>>, Grows(answers, answers')
  PROVE  ViewsTell'
<1>1. ASSUME NEW n \in 1 .. Len(views) PROVE ViewKnows(n)'
  <2>1. ViewKnows(n) /\ views[n].id \in Nat
    <3>1. views[n] \in Views
      BY DEF ExchangeSound, ExchangeTypes, ViewsTyped
    <3> QED BY <3>1 DEF ExchangeSound, ViewsTell, Views
  <2>2. Len(answers) \in Nat /\ Len(answers') >= Len(answers)
    BY DEF ExchangeSound, ExchangeTypes, Grows
  <2> QED BY <2>1, <2>2 DEF ViewKnows, Grows
<1>2. ASSUME NEW n \in 1 .. Len(views) PROVE ViewTells(n)'
  <2>1. ViewKnows(n) /\ ViewTells(n)
    BY DEF ExchangeSound, ViewsTell
  <2>2. DoneView(views[n]) => DoneView(views[n])'
    BY <2>1 DEF ViewKnows, DoneView, Grows, IsWhole
  <2>3. views[n].id # 0 => answers'[views[n].id].kind = answers[views[n].id].kind
    BY <2>1 DEF ViewKnows, Grows
  <2>4. Exchanging' = Exchanging
    BY DEF Exchanging
  <2> QED BY <2>1, <2>2, <2>3, <2>4 DEF ViewTells
<1> QED BY <1>1, <1>2 DEF ViewsTell

\* ... and puts on the wire what may follow.
LEMMA PutFollows ==
  ASSUME ExchangeSound, ExchangeTypes', Prior' = Prior, Grows(answers, answers'), NEW b, wire' = Append(wire, b),
         ComesAfter(Last, b, answers'), Serving, server'.up, b.kind = "junk" => server'.end # "open"
  PROVE  WireFollows'
<1> USE DEF ExchangeSound
<1>1. answers \in Seq(Replies) /\ answers' \in Seq(Replies) /\ wire \in Seq(Items) /\ wire' \in Seq(Items)
  BY DEF ExchangeTypes
<1>2. /\ Len(wire') = Len(wire) + 1 /\ wire' # <<>> /\ wire'[Len(wire) + 1] = b /\ Len(wire) \in Nat
      /\ \A i \in 1 .. Len(wire) : wire'[i] = wire[i]
  BY <1>1, SMTT(30)
<1>3. ASSUME wire # <<>> PROVE ComesAfter(Prior, wire[1], answers')
  <2>1. ComesAfter(Prior, wire[1], answers) /\ 1 \in 1 .. Len(wire)
    BY <1>3, <1>1 DEF WireFollows
  <2>2. wire[1].kind = "end" => wire[1].id \in 1 .. Len(answers)
    BY <2>1 DEF WireKnows
  <2> QED BY <2>1, <2>2, <1>1, AfterGrows, PriorTells
<1>4. ComesAfter(Prior, wire'[1], answers')
  BY <1>2, <1>3, <1>1 DEF Last
<1>5. ASSUME NEW i \in 1 .. Len(wire) PROVE ComesAfter(wire'[i], wire'[i + 1], answers')
  <2>1. CASE i = Len(wire)
    BY <2>1, <1>2, <1>1 DEF Last
  <2>2. CASE i # Len(wire)
    <3>1. i \in 1 .. Len(wire) - 1 /\ i + 1 \in 1 .. Len(wire)
      BY <2>2, <1>2
    <3>2. ComesAfter(wire[i], wire[i + 1], answers)
      BY <3>1 DEF WireFollows
    <3>3. /\ wire[i + 1].kind = "end" => wire[i + 1].id \in 1 .. Len(answers)
          /\ wire[i].kind \in {"head", "part"} => wire[i].id \in 1 .. Len(answers)
      BY <3>1 DEF WireKnows
    <3> QED BY <3>1, <3>2, <3>3, <1>1, <1>2, AfterGrows
  <2> QED BY <2>1, <2>2
<1>6. server'.end = "open" => \A i \in 1 .. Len(wire') : wire'[i].kind # "junk"
  BY <1>2 DEF WireFollows, Serving
<1>7. \A i \in 1 .. Len(wire') - 1 : ComesAfter(wire'[i], wire'[i + 1], answers')
  <2> TAKE i \in 1 .. Len(wire') - 1
  <2>1. i \in 1 .. Len(wire)
    BY ONLY <1>2, i \in 1 .. Len(wire') - 1
  <2> QED BY ONLY <1>5, <2>1
<1> QED BY <1>4, <1>6, <1>7, <1>2 DEF WireFollows

\* Its items are of answers that there are.
LEMMA PutKnows ==
  ASSUME ExchangeSound, ExchangeTypes', UNCHANGED views, Grows(answers, answers'), NEW b, wire' = Append(wire, b),
         b.kind \in {"head", "part", "end"} => b.id \in 1 .. Len(answers'),
         b.kind = "head" => b.id = Len(answers) + 1
  PROVE  WireKnows'
<1> USE DEF ExchangeSound
<1>1. /\ answers \in Seq(Replies) /\ answers' \in Seq(Replies) /\ wire \in Seq(Items) /\ wire' \in Seq(Items)
      /\ Len(answers) \in Nat /\ Len(answers') \in Nat
  BY DEF ExchangeTypes
<1>2. /\ Len(wire') = Len(wire) + 1 /\ wire' # <<>> /\ wire'[Len(wire) + 1] = b /\ Len(wire) \in Nat
      /\ \A i \in 1 .. Len(wire) : wire'[i] = wire[i]
  BY <1>1
<1>3. \A n \in 1 .. Len(views) : views[n].id <= Len(answers)
  <2> TAKE n \in 1 .. Len(views)
  <2>1. views[n] \in Views /\ ViewKnows(n)
    BY DEF ExchangeTypes, ViewsTyped, ViewsTell
  <2> QED BY <2>1, <1>1 DEF ViewKnows, Views
<1>4. \A n \in 1 .. Len(views) : views[n].id \in Nat
  <2> TAKE n \in 1 .. Len(views)
  <2>1. views[n] \in Views
    BY DEF ExchangeTypes, ViewsTyped, ViewsTell
  <2> QED BY <2>1 DEF Views
<1>5. \A i \in 1 .. Len(wire) : wire[i].kind \in {"head", "part", "end"} => wire[i].id \in 1 .. Len(answers')
  <2>1. WireKnows /\ Len(answers) <= Len(answers')
    BY DEF Grows
  <2> QED BY ONLY <1>1, <2>1 DEF WireKnows
<1>6. b.kind = "head" => \A n \in 1 .. Len(views) : views[n].id < b.id
  BY ONLY <1>3, <1>4, <1>1, b.kind = "head" => b.id = Len(answers) + 1
<1>7. \A i \in 1 .. Len(wire) : b.kind = "head" /\ wire[i].kind = "head" => wire[i].id < b.id
  BY <1>1 DEF WireKnows
<1>8. ASSUME NEW i \in 1 .. Len(wire'), NEW j \in 1 .. Len(wire'), i < j, wire'[i].kind = "head", wire'[j].kind = "head"
      PROVE  wire'[i].id < wire'[j].id
  <2>1. i \in 1 .. Len(wire) /\ wire'[i] = wire[i]
    BY <1>8, <1>2
  <2>2. CASE j = Len(wire) + 1
    BY <2>1, <2>2, <1>7, <1>8, <1>2
  <2>3. CASE j # Len(wire) + 1
    BY <2>1, <2>3, <1>8, <1>2 DEF WireKnows
  <2> QED BY <2>2, <2>3
<1>9. ASSUME NEW i \in 1 .. Len(wire'), wire'[i].kind = "head" PROVE \A n \in 1 .. Len(views) : views[n].id < wire'[i].id
  BY <1>9, <1>6, <1>2 DEF WireKnows
<1>10. ASSUME NEW i \in 1 .. Len(wire'), wire'[i].kind \in {"head", "part", "end"} PROVE wire'[i].id \in 1 .. Len(answers')
  BY <1>10, <1>5, <1>2
<1> QED BY <1>8, <1>9, <1>10 DEF WireKnows

\* Answers that stay the same have grown (by nothing).
LEMMA SameGrows == ASSUME ExchangeTypes, UNCHANGED answers PROVE Grows(answers, answers')
BY DEF ExchangeTypes, Grows

\* The last is what was put last.
LEMMA PutLast ==
  ASSUME ExchangeTypes, ExchangeTypes', NEW b, wire' = Append(wire, b)
  PROVE  Last' = b
BY SMTT(30) DEF ExchangeTypes, Last

\* One lemma for each action.
LEMMA InformsSound == ASSUME ExchangeSound, ExchangeTypes', Informs PROVE ExchangeSound'
<1> USE DEF ExchangeSound
<1>1. PICK b : b = [kind |-> "inform", id |-> 0, nth |-> 0]
  OBVIOUS
<1>2. wire' = Append(wire, b) /\ b.kind = "inform" /\ UNCHANGED <<client, views, hungUp, server, answers, ex, cutOff>> /\ Serving
  BY <1>1 DEF Informs, Puts
<1>3. Grows(answers, answers')
  BY <1>2, SameGrows
<1>4. ExchangeStands' /\ AskStands' /\ AskWaits' /\ LogTells' /\ Prior' = Prior
  BY <1>2, ServerStands DEF Serving
<1>5. ViewsTell'
  BY <1>2, <1>3, ServerViews
<1>6. server.giving = 0 /\ server.up /\ server.end = "open"
  BY <1>2 DEF Informs, Serving
<1>7. Last.kind \in {"end", "inform"}
  BY <1>6, LastTells DEF GivingTells
<1>8. ComesAfter(Last, b, answers')
  BY <1>7, <1>2 DEF ComesAfter
<1>9. WireFollows'
  BY <1>2, <1>3, <1>4, <1>6, <1>8, PutFollows
<1>10. WireKnows'
  BY <1>2, <1>3, PutKnows
<1>11. GivingTells'
  BY <1>1, <1>2, <1>6, PutLast DEF GivingTells
<1>12. AnswersTell'
  BY <1>2 DEF AnswersTell
<1> QED BY <1>4, <1>5, <1>9, <1>10, <1>11, <1>12

LEMMA AnswersWithSound ==
  ASSUME ExchangeSound, ExchangeTypes', NEW kind \in AnswerKinds, AnswersWith(kind) PROVE ExchangeSound'
<1> USE DEF ExchangeSound
<1>1. PICK b : b = [kind |-> "head", id |-> Len(answers) + 1, nth |-> 0]
  OBVIOUS
<1>2. wire' = Append(wire, b) /\ b.kind = "head" /\ UNCHANGED <<client, views, hungUp, ex, cutOff>> /\ Serving
  BY <1>1 DEF AnswersWith, Puts
<1>a. PICK reply : reply = [for |-> IF server.answered THEN 0 ELSE client.n, kind |-> kind, sent |-> 0, whole |-> FALSE]
  OBVIOUS
<1>b. /\ answers' = Append(answers, reply) /\ server' = [server EXCEPT !.giving = Len(answers) + 1, !.answered = TRUE]
      /\ reply.for = (IF server.answered THEN 0 ELSE client.n) /\ reply.kind = kind /\ reply.sent = 0 /\ reply.whole = FALSE
      /\ server.giving = 0
  BY <1>a DEF AnswersWith
<1>c. /\ Len(answers) \in Nat /\ Len(answers') = Len(answers) + 1 /\ answers'[Len(answers) + 1] = reply
      /\ \A k \in 1 .. Len(answers) : answers'[k] = answers[k]
  BY <1>b DEF ExchangeTypes
<1>d. server'.giving = Len(answers) + 1 /\ server'.answered /\ server'.up = server.up /\ server'.log = server.log /\ server'.end = server.end
  BY <1>b DEF ExchangeTypes, ServerTyped, Servers
<1>3. Grows(answers, answers')
  BY <1>c DEF Grows
<1>4. ExchangeStands' /\ AskStands' /\ AskWaits' /\ LogTells' /\ Prior' = Prior
  BY <1>2, <1>d, ServerStands DEF Serving
<1>5. ViewsTell'
  BY <1>2, <1>3, ServerViews
<1>6. server.giving = 0 /\ server.up /\ server.end = "open"
  BY <1>2, <1>b DEF Serving
<1>7. Last.kind \in {"end", "inform"}
  BY <1>6, LastTells DEF GivingTells
<1>8. ComesAfter(Last, b, answers')
  BY <1>7, <1>2, <1>1 DEF ComesAfter
<1>9. WireFollows'
  BY <1>2, <1>3, <1>4, <1>6, <1>8, <1>d, PutFollows
<1>10. WireKnows'
  BY <1>1, <1>2, <1>3, <1>c, PutKnows
<1>11. GivingTells'
  <2>1. Last' = b
    BY <1>2, PutLast
  <2>2. Giving' = reply
    BY <1>c, <1>d DEF Giving
  <2>3. kind.parts \in Nat
    BY KindTypes
  <2> QED BY <2>1, <2>2, <2>3, <1>1, <1>6, <1>b, <1>c, <1>d DEF GivingTells
<1>12. AnswersTell'
  <2>1. reply.for <= client.n
    BY <1>b DEF ExchangeTypes, ClientTyped, Askers
  <2>2. \A k \in 1 .. Len(answers') : answers'[k].for <= client'.n
    BY <1>c, <1>2, <2>1 DEF AnswersTell
  <2>3. reply.for # 0 => \A k \in 1 .. Len(answers) : answers[k].for # reply.for
    BY <1>b, <1>6 DEF AnswersTell
  <2>4. \A k, l \in 1 .. Len(answers') : answers'[k].for = answers'[l].for /\ answers'[k].for # 0 => k = l
    <3> SUFFICES ASSUME NEW k \in 1 .. Len(answers'), NEW l \in 1 .. Len(answers'), answers'[k].for = answers'[l].for, answers'[k].for # 0
                 PROVE  k = l
      OBVIOUS
    <3>1. CASE k \in 1 .. Len(answers) /\ l \in 1 .. Len(answers)
      BY <3>1, <1>c DEF AnswersTell
    <3>2. CASE ~(k \in 1 .. Len(answers) /\ l \in 1 .. Len(answers))
      BY <3>2, <1>c, <2>3
    <3> QED BY <3>1, <3>2
  <2> QED BY <2>2, <2>4, <1>d DEF AnswersTell
<1> QED BY <1>4, <1>5, <1>9, <1>10, <1>11, <1>12

LEMMA GivesSound == ASSUME ExchangeSound, ExchangeTypes', Gives PROVE ExchangeSound'
<1> USE DEF ExchangeSound
<1>1. PICK id : id = server.giving
  OBVIOUS
<1>2. UNCHANGED <<client, views, hungUp, ex, cutOff>> /\ Serving /\ server.up /\ server.end = "open" /\ id # 0
  BY <1>1 DEF Gives, Serving
<1>3. id \in 1 .. Len(answers) /\ answers[id] \in Replies /\ Giving = answers[id] /\ id = Len(answers)
  BY <1>1, <1>2 DEF ExchangeTypes, ServerTyped, Servers, Giving
<1>4. ~Giving.whole /\ Giving.sent <= Giving.kind.parts /\ Last.kind \in {"head", "part"} /\ Last.id = id /\ Last.nth = Giving.sent
  BY <1>1, <1>2, LastTells DEF GivingTells
<1>5. Giving.sent \in Nat /\ Giving.kind.parts \in Nat
  BY <1>3, KindTypes DEF Replies
<1>f. PICK more \in {0, 1} : more = 1 <=> Giving.sent < Giving.kind.parts
  OBVIOUS
<1>6. PICK reply : reply = IF more = 1 THEN [answers[id] EXCEPT !.sent = @ + 1] ELSE [answers[id] EXCEPT !.whole = TRUE]
  OBVIOUS
<1>7. answers' = [answers EXCEPT ![id] = reply]
  BY <1>1, <1>3, <1>6, <1>f DEF Gives, ExchangeTypes, Replies
<1>8. /\ reply.for = Giving.for /\ reply.kind = Giving.kind
      /\ more = 1 => reply.sent = Giving.sent + 1 /\ ~reply.whole
      /\ more = 0 => reply.sent = Giving.sent /\ reply.whole
  <2>1. answers[id] \in Replies
    BY <1>3
  <2> QED BY ONLY <2>1, <1>6, <1>3, <1>4, more \in {0, 1} DEF Replies
<1>9. /\ Len(answers') = Len(answers) /\ answers'[id] = reply
      /\ \A k \in 1 .. Len(answers) : k # id => answers'[k] = answers[k]
  BY <1>7, <1>3 DEF ExchangeTypes
<1>10. Grows(answers, answers')
  BY <1>9, <1>8, <1>3, <1>4 DEF Grows, ExchangeTypes
<1>11. /\ server'.up = server.up /\ server'.log = server.log /\ server'.answered = server.answered
       /\ more = 1 => server'.giving = id /\ server'.end = "open"
       /\ more = 0 => server'.giving = 0
       /\ more = 0 /\ Giving.kind.frame # "close" => server'.end = "open"
       /\ more = 0 /\ Giving.kind.frame = "close" => server'.end = "eof" /\ wire' = wire
  <2>1. server \in Servers
    BY DEF ExchangeTypes, ServerTyped
  <2>2. more = 1 => server' = server
    BY <1>f DEF Gives
  <2>3. more = 0 /\ Giving.kind.frame # "close" => server' = [server EXCEPT !.giving = 0]
    BY <1>f DEF Gives
  <2>4. more = 0 /\ Giving.kind.frame = "close" => server' = [server EXCEPT !.giving = 0, !.end = "eof"] /\ wire' = wire
    BY <1>f DEF Gives
  <2> QED BY ONLY <2>1, <2>2, <2>3, <2>4, <1>1, <1>2, more \in {0, 1} DEF Servers
<1>12. ExchangeStands' /\ AskStands' /\ AskWaits' /\ LogTells' /\ Prior' = Prior
  BY <1>2, <1>11, ServerStands
<1>13. ViewsTell'
  BY <1>2, <1>10, ServerViews
<1>14. AnswersTell'
  BY <1>2, <1>9, <1>8, <1>3, <1>11 DEF AnswersTell
<1>15. ASSUME more = 1 \/ Giving.kind.frame # "close" PROVE WireFollows' /\ WireKnows' /\ GivingTells'
  <2>1. PICK b : b = IF more = 1 THEN [kind |-> "part", id |-> id, nth |-> Giving.sent + 1] ELSE [kind |-> "end", id |-> id, nth |-> Giving.sent]
    OBVIOUS
  <2>2. wire' = Append(wire, b) /\ b.id = id /\ b.kind = (IF more = 1 THEN "part" ELSE "end") /\ b.nth = (IF more = 1 THEN Giving.sent + 1 ELSE Giving.sent)
    BY <2>1, <1>15, <1>1, <1>f DEF Gives, Puts
  <2>3. ComesAfter(Last, b, answers')
    BY <2>2, <1>4, <1>5, <1>8, <1>9, <1>3, <1>f DEF ComesAfter, IsWhole
  <2>4. WireFollows'
    BY <2>2, <2>3, <1>2, <1>10, <1>11, <1>12, PutFollows
  <2>5. WireKnows'
    BY <2>2, <1>2, <1>10, <1>3, <1>9, PutKnows
  <2>6. Last' = b
    BY <2>2, PutLast
  <2>7. Giving' = answers'[server'.giving]
    BY DEF Giving
  <2>8. GivingTells'
    <3>1. ASSUME more = 1 PROVE GivingTells'
      <4>1. server'.giving = id /\ server'.end = "open" /\ Giving' = reply /\ id # 0
        BY <3>1, <2>7, <1>9, <1>11, <1>2
      <4>2. ~reply.whole /\ reply.sent <= reply.kind.parts /\ Last'.nth = reply.sent /\ Last'.kind = "part" /\ Last'.id = id
        BY <3>1, <2>6, <2>2, <1>8, <1>5, <1>f
      <4> QED BY <4>1, <4>2 DEF GivingTells
    <3>2. ASSUME more = 0 PROVE GivingTells'
      BY <3>2, <2>6, <2>2, <1>11 DEF GivingTells
    <3> QED BY <3>1, <3>2
  <2> QED BY <2>4, <2>5, <2>8
<1>16. ASSUME more = 0, Giving.kind.frame = "close" PROVE WireFollows' /\ WireKnows' /\ GivingTells'
  <2>1. wire' = wire /\ Last' = Last /\ server'.up
    BY <1>16, <1>11, <1>12, <1>2 DEF Last
  <2>2. ASSUME NEW a, NEW b, ComesAfter(a, b, answers),
               b.kind = "end" => b.id \in 1 .. Len(answers),
               b.kind = "junk" /\ a.kind \in {"head", "part"} => a.id \in 1 .. Len(answers)
        PROVE  ComesAfter(a, b, answers')
    BY <2>2, <1>10, AfterGrows DEF ExchangeTypes
  <2>3. wire # <<>> => ComesAfter(Prior, wire[1], answers')
    <3>1. wire # <<>> => 1 \in 1 .. Len(wire)
      BY DEF ExchangeTypes
    <3> QED BY <3>1, <2>2, PriorTells DEF WireFollows, WireKnows
  <2>4. \A i \in 1 .. Len(wire) - 1 : ComesAfter(wire[i], wire[i + 1], answers')
    <3> TAKE i \in 1 .. Len(wire) - 1
    <3>1. i \in 1 .. Len(wire) /\ i + 1 \in 1 .. Len(wire)
      BY DEF ExchangeTypes
    <3>2. /\ wire[i + 1].kind = "end" => wire[i + 1].id \in 1 .. Len(answers)
          /\ wire[i].kind \in {"head", "part"} => wire[i].id \in 1 .. Len(answers)
      BY <3>1 DEF WireKnows
    <3> QED BY <3>2, <2>2 DEF WireFollows
  <2>5. WireFollows'
    BY <2>1, <2>3, <2>4, <1>2, <1>11, <1>12, <1>16 DEF WireFollows
  <2>6. WireKnows'
    BY <2>1, <1>9, <1>2 DEF WireKnows
  <2>7. GivingTells'
    BY <2>1, <1>3, <1>4, <1>5, <1>8, <1>9, <1>11, <1>16, <1>f DEF GivingTells, IsWhole
  <2> QED BY <2>5, <2>6, <2>7
<1> QED BY <1>12, <1>13, <1>14, <1>15, <1>16

LEMMA BabblesSound == ASSUME ExchangeSound, ExchangeTypes', Babbles PROVE ExchangeSound'
<1> USE DEF ExchangeSound
<1>1. PICK b : b = [kind |-> "junk", id |-> 0, nth |-> 0]
  OBVIOUS
<1>2. wire' = Append(wire, b) /\ b.kind = "junk" /\ UNCHANGED <<client, views, hungUp, answers, ex, cutOff>> /\ Serving
  BY <1>1 DEF Babbles, Puts
<1>3. /\ server.up /\ server.end = "open" /\ server'.up = server.up /\ server'.log = server.log /\ server'.end = "eof"
      /\ server'.giving = server.giving /\ server'.answered = server.answered
  BY <1>2 DEF Babbles, Serving, ExchangeTypes, ServerTyped, Servers
<1>4. Grows(answers, answers')
  BY <1>2, SameGrows
<1>5. ExchangeStands' /\ AskStands' /\ AskWaits' /\ LogTells' /\ Prior' = Prior
  BY <1>2, <1>3, ServerStands
<1>6. ViewsTell'
  BY <1>2, <1>4, ServerViews
<1>7. server.giving # 0 => Giving.kind.frame = "chunked"
  BY DEF Babbles
<1>8. Last.kind \in {"head", "part"} => answers[Last.id].kind.frame = "chunked"
  BY <1>7, <1>3, LastTells DEF GivingTells, Giving
<1>9. ComesAfter(Last, b, answers')
  BY <1>2, <1>3, <1>8, LastTells DEF ComesAfter
<1>10. WireFollows'
  BY <1>2, <1>3, <1>4, <1>5, <1>9, PutFollows
<1>11. WireKnows'
  BY <1>2, <1>4, PutKnows
<1>12. GivingTells'
  BY <1>2, <1>3, <1>7, PutLast DEF GivingTells, Giving
<1>13. AnswersTell'
  BY <1>2, <1>3 DEF AnswersTell
<1> QED BY <1>5, <1>6, <1>10, <1>11, <1>12, <1>13

LEMMA ServerEndsSound == ASSUME ExchangeSound, ExchangeTypes', ServerEnds PROVE ExchangeSound'
<1> USE DEF ExchangeSound
<1>1. PICK how \in {"eof", "reset"} : server' = [server EXCEPT !.end = how]
  BY DEF ServerEnds
<1>2. /\ server.up /\ server'.up = server.up /\ server'.log = server.log /\ server'.end = how
      /\ server'.giving = server.giving /\ server'.answered = server.answered
      /\ how = "eof" /\ server.giving # 0 => Giving.kind.frame # "close"
      /\ UNCHANGED <<client, views, hungUp, wire, answers, ex, cutOff>>
  BY <1>1 DEF ServerEnds, ExchangeTypes, ServerTyped, Servers
<1>3. ExchangeStands' /\ AskStands' /\ AskWaits' /\ LogTells' /\ Prior' = Prior
  BY <1>2, ServerStands
<1>4. ViewsTell'
  BY <1>2, SameGrows, ServerViews
<1>5. WireFollows' /\ WireKnows'
  BY <1>2, <1>3 DEF WireFollows, WireKnows
<1>6. GivingTells'
  BY <1>2, <1>3 DEF GivingTells, Giving, Last
<1>7. AnswersTell'
  BY <1>2 DEF AnswersTell
<1> QED BY <1>3, <1>4, <1>5, <1>6, <1>7

-----------------------------------------------------------------------------
(* Steps of the client, of its request's task, and of a slow client.         *)

\* They leave the wire and the answers alone.
LEMMA SameWireSound ==
  ASSUME ExchangeSound, UNCHANGED <<views, wire, answers, hungUp>>, client'.n = client.n, client'.ask = client.ask,
         ex'.pc = ex.pc, ex.pc # "ended", ex'.answer = ex.answer,
         server'.up = server.up, server'.end = server.end, server'.giving = server.giving, server'.answered = server.answered
  PROVE  WireFollows' /\ WireKnows' /\ GivingTells' /\ AnswersTell' /\ ViewsTell'
<1> USE DEF ExchangeSound
<1>1. Mine' = Mine /\ Exchanging' = Exchanging
  BY DEF Mine, Exchanging
<1>2. Prior' = Prior
  BY <1>1 DEF Prior
<1>3. WireFollows' /\ WireKnows'
  BY <1>2 DEF WireFollows, WireKnows
<1>4. GivingTells'
  BY <1>2 DEF GivingTells, Giving, Last
<1>5. AnswersTell'
  BY DEF AnswersTell
<1>6. \A n \in 1 .. Len(views) : ViewKnows(n)'
  BY SameViewsKnow
<1>7. ASSUME NEW n \in 1 .. Len(views) PROVE ViewTells(n)'
  <2>1. ViewTells(n)
    BY DEF ViewsTell
  <2> QED BY <2>1, <1>1 DEF ViewTells, DoneView
<1> QED BY <1>3, <1>4, <1>5, <1>6, <1>7 DEF ViewsTell

LEMMA ClientSound == ASSUME ExchangeSound, ExchangeTypes', ClientGives \/ ClientLeaves PROVE ExchangeSound'
<1> USE DEF ExchangeSound
<1>1. /\ client'.n = client.n /\ client'.ask = client.ask /\ client'.gave \in {client.gave, client.gave + 1}
      /\ UNCHANGED <<views, hungUp, server, wire, answers, ex, cutOff>> /\ ex.pc # "ended"
  BY DEF ClientGives, ClientLeaves, ExchangeTypes, ClientTyped, Askers, Exchanging
<1>2. WireFollows' /\ WireKnows' /\ GivingTells' /\ AnswersTell' /\ ViewsTell'
  BY <1>1, SameWireSound
<1>3. Mine' = Mine /\ Exchanging' = Exchanging /\ Full' = Full
  BY <1>1 DEF Mine, Exchanging, Full
<1>4. client.gave \in Nat /\ ex.body \in Nat
  BY DEF ExchangeTypes, ClientTyped, Askers, ExTyped, Exchanges
<1>5. ExchangeStands'
  BY <1>1, <1>3 DEF ExchangeStands
<1>6. AskStands' /\ AskWaits'
  BY <1>1, <1>3, <1>4 DEF AskStands, AskWaits
<1>7. LogTells'
  BY <1>1, <1>3 DEF LogTells
<1> QED BY <1>2, <1>5, <1>6, <1>7

LEMMA UploadsSound == ASSUME ExchangeSound, ExchangeTypes', Uploads PROVE ExchangeSound'
<1> USE DEF ExchangeSound
<1>1. PICK pumped \in {"runs", "done"} :
        /\ ex' = [ex EXCEPT !.body = @ + 1, !.waits = FALSE, !.pumped = pumped]
        /\ pumped = "done" => ex.body + 1 = Full
  BY DEF Uploads
<1>2. /\ ex'.pc = ex.pc /\ ex'.body = ex.body + 1 /\ ex'.waits = FALSE /\ ex'.pumped = pumped /\ ex'.answer = ex.answer
      /\ ex'.headed = ex.headed /\ ex'.stalled = ex.stalled /\ ex'.abandoned = ex.abandoned /\ ex.body \in Nat
  BY <1>1 DEF ExchangeTypes, ExTyped, Exchanges
<1>3. Exchanging /\ client.gave > ex.body /\ client.gave \in Nat /\ UNCHANGED <<client, views, hungUp, wire, answers, cutOff>>
      /\ ex.pumped = "runs" /\ ex.pc # "ended"
  BY DEF Uploads, ExchangeTypes, ClientTyped, Askers, Exchanging
<1>4. PICK last : last = Len(server.log)
  OBVIOUS
<1>5. PICK log : log = [server.log EXCEPT ![last].body = ex.body + 1]
  OBVIOUS
<1>6. server' = [server EXCEPT !.log = log]
  BY <1>4, <1>5 DEF Uploads
<1>7. /\ server'.up = server.up /\ server'.end = server.end /\ server'.giving = server.giving
      /\ server'.answered = server.answered /\ server'.log = log
  BY <1>6 DEF ExchangeTypes, ServerTyped, Servers
<1>8. WireFollows' /\ WireKnows' /\ GivingTells' /\ AnswersTell' /\ ViewsTell'
  BY <1>2, <1>3, <1>7, SameWireSound
<1>9. Mine' = Mine /\ Exchanging' /\ Full' = Full
  BY <1>2, <1>3 DEF Mine, Exchanging, Full
<1>10. ExchangeStands'
  BY <1>2, <1>3, <1>7, <1>9 DEF ExchangeStands
<1>11. AskStands'
  BY <1>1, <1>2, <1>3, <1>9 DEF AskStands
<1>12. AskWaits'
  BY <1>2, <1>3, <1>9 DEF AskWaits
<1>13. LogTells'
  <2>1. server.up /\ server.log \in Seq(Logs) /\ last \in 1 .. last /\ last = Len(server.log)
    BY <1>3, <1>4 DEF ExchangeStands, LogTells, ExchangeTypes, ServerTyped, Servers
  <2>2. server.log[last] \in Logs /\ server.log[last].full = Full
    BY <2>1, <1>3 DEF LogTells
  <2>3. PICK entry : entry = [server.log[last] EXCEPT !.body = ex.body + 1]
    OBVIOUS
  <2>4. entry.full = Full /\ entry.body = ex.body + 1
    BY ONLY <2>2, <2>3 DEF Logs
  <2>5. Len(log) = last /\ log[last] = entry /\ \A i \in 1 .. last - 1 : log[i] = server.log[i]
    BY ONLY <2>1, <2>3, <1>5
  <2> QED BY <2>1, <2>4, <2>5, <1>2, <1>3, <1>7, <1>9 DEF LogTells, Exchanging
<1> QED BY <1>8, <1>10, <1>11, <1>12, <1>13

\* The upload breaks after the answer is complete, or the client takes the head.
LEMMA QuietSound ==
  ASSUME ExchangeSound, ExchangeTypes', (UploadBreaks /\ ex.answer = "done") \/ HeadTaken
  PROVE  ExchangeSound'
<1> USE DEF ExchangeSound
<1>1. /\ Exchanging /\ UNCHANGED <<client, views, hungUp, server, wire, answers, cutOff>>
      /\ \/ ex' = [ex EXCEPT !.pumped = "cut"] /\ ex.answer = "done"
         \/ ex' = [ex EXCEPT !.stalled = FALSE, !.headed = TRUE] /\ ex.stalled
  BY DEF UploadBreaks, HeadTaken
<1>2. /\ ex'.pc = ex.pc /\ ex'.body = ex.body /\ ex'.waits = ex.waits /\ ex'.answer = ex.answer /\ ex'.abandoned = ex.abandoned
      /\ ex'.pumped = ex.pumped \/ (ex'.pumped = "cut" /\ ex.answer = "done")
      /\ \/ ex'.stalled = ex.stalled /\ ex'.headed = ex.headed
         \/ ex.stalled /\ ~ex'.stalled /\ ex'.headed
  <2>0. ex \in Exchanges
    BY DEF ExchangeTypes, ExTyped
  <2>1. CASE ex' = [ex EXCEPT !.pumped = "cut"] /\ ex.answer = "done"
    BY ONLY <2>0, <2>1 DEF Exchanges
  <2>2. CASE ex' = [ex EXCEPT !.stalled = FALSE, !.headed = TRUE] /\ ex.stalled
    BY ONLY <2>0, <2>2 DEF Exchanges
  <2> QED BY <2>1, <2>2, <1>1
<1>3. WireFollows' /\ WireKnows' /\ GivingTells' /\ AnswersTell' /\ ViewsTell'
  BY <1>1, <1>2, SameWireSound DEF Exchanging
<1>4. Mine' = Mine /\ Exchanging' = Exchanging /\ Full' = Full
  BY <1>1, <1>2 DEF Mine, Exchanging, Full
<1>5. ExchangeStands'
  BY <1>1, <1>2, <1>4 DEF ExchangeStands, Exchanging
<1>6. AskStands' /\ AskWaits'
  BY <1>1, <1>2, <1>4 DEF AskStands, AskWaits
<1>7. LogTells'
  BY <1>1, <1>2, <1>4 DEF LogTells
<1> QED BY <1>3, <1>5, <1>6, <1>7

-----------------------------------------------------------------------------
(* Steps of the answer's task.                                               *)

\* To what comes next, p is what h was.
Stays(p, h) ==
  /\ h.kind # "junk" /\ p.kind # "junk"
  /\ p.kind \in {"head", "part"} <=> h.kind \in {"head", "part"}
  /\ p.kind \in {"end", "inform"} <=> h.kind \in {"end", "inform"}
  /\ h.kind \in {"head", "part"} => p.id = h.id /\ p.nth = h.nth

\* The first is taken off the wire, and stands for itself in what was read last.
LEMMA ReadWireSound ==
  ASSUME ExchangeSound, ExchangeTypes', wire # <<>>, wire' = Tail(wire), Stays(Prior', Head(wire)),
         UNCHANGED <<server, answers>>, Len(views') = Len(views),
         \A n \in 1 .. Len(views) : views'[n].id = views[n].id \/ (Head(wire).kind = "head" /\ views'[n].id = Head(wire).id)
  PROVE  WireFollows' /\ WireKnows' /\ GivingTells'
<1> USE DEF ExchangeSound
<1>1. /\ wire \in Seq(Items) /\ Len(wire) \in Nat \ {0} /\ Len(wire') = Len(wire) - 1 /\ Head(wire) = wire[1]
      /\ \A i \in 1 .. Len(wire) - 1 : wire'[i] = wire[i + 1]
  BY DEF ExchangeTypes
<1>2. server'.up /\ server.up
  BY DEF WireFollows
<1>3. ASSUME NEW b, ComesAfter(Head(wire), b, answers) PROVE ComesAfter(Prior', b, answers')
  BY <1>3 DEF ComesAfter, Stays
<1>4. ASSUME wire' # <<>> PROVE ComesAfter(Prior', wire'[1], answers')
  <2>1. wire' \in Seq(Items) /\ Len(wire') > 0
    BY <1>4 DEF ExchangeTypes
  <2>2. 1 \in 1 .. Len(wire) - 1
    BY <2>1, <1>1
  <2> QED BY <2>2, <1>1, <1>3 DEF WireFollows
<1>5. ASSUME NEW i \in 1 .. Len(wire') - 1 PROVE ComesAfter(wire'[i], wire'[i + 1], answers')
  <2>1. i + 1 \in 1 .. Len(wire) - 1 /\ wire'[i] = wire[i + 1] /\ wire'[i + 1] = wire[i + 1 + 1]
    BY <1>1
  <2> QED BY <2>1 DEF WireFollows
<1>6. server'.end = "open" => \A i \in 1 .. Len(wire') : wire'[i].kind # "junk"
  BY <1>1, <1>2 DEF WireFollows
<1>7. WireFollows'
  BY <1>2, <1>4, <1>5, <1>6 DEF WireFollows
<1>8. \A i \in 1 .. Len(wire') : i + 1 \in 1 .. Len(wire) /\ wire'[i] = wire[i + 1]
  BY <1>1
<1>9. WireKnows'
  <2>1. \A i \in 1 .. Len(wire') : wire'[i].kind \in {"head", "part", "end"} => wire'[i].id \in 1 .. Len(answers')
    BY <1>8 DEF WireKnows
  <2>2. ASSUME NEW i \in 1 .. Len(wire'), wire'[i].kind = "head", NEW n \in 1 .. Len(views') PROVE views'[n].id < wire'[i].id
    <3>1. i + 1 \in 1 .. Len(wire) /\ wire'[i] = wire[i + 1] /\ 1 \in 1 .. Len(wire) /\ 1 < i + 1
      BY <1>8, <1>1
    <3> QED BY <3>1, <2>2, <1>1 DEF WireKnows
  <2>3. ASSUME NEW i \in 1 .. Len(wire'), NEW j \in 1 .. Len(wire'), i < j, wire'[i].kind = "head", wire'[j].kind = "head"
        PROVE  wire'[i].id < wire'[j].id
    <3>1. i + 1 \in 1 .. Len(wire) /\ j + 1 \in 1 .. Len(wire) /\ i + 1 < j + 1 /\ wire'[i] = wire[i + 1] /\ wire'[j] = wire[j + 1]
      BY <1>8, <2>3, <1>1
    <3> QED BY <3>1, <2>3 DEF WireKnows
  <2> QED BY <2>1, <2>2, <2>3 DEF WireKnows
<1>10. GivingTells'
  <2>1. CASE wire' = <<>>
    <3>1. Last' = Prior' /\ Last = Head(wire)
      BY <2>1, <1>1 DEF Last
    <3> QED BY <3>1 DEF GivingTells, Stays, Giving
  <2>2. CASE wire' # <<>>
    <3>1. Len(wire') \in 1 .. Len(wire') /\ Len(wire') = Len(wire) - 1
      BY <2>2, <1>1 DEF ExchangeTypes
    <3>2. Last' = Last
      BY <2>2, <3>1, <1>1 DEF Last
    <3> QED BY <3>2 DEF GivingTells, Giving
  <2> QED BY <2>1, <2>2
<1> QED BY <1>7, <1>9, <1>10

\* The client gets v of the answer to its request.
LEMMA ReadViewsSound ==
  ASSUME ExchangeSound, ExchangeTypes', Exchanging, ex'.pc = "exchanges", UNCHANGED <<client, answers>>, NEW v \in Views, Sees(v),
         v.id = Mine.id \/ (\A n \in 1 .. Len(views) : views[n].id < v.id),
         v.id # 0 => /\ v.id \in 1 .. Len(answers)
                     /\ answers[v.id].for = client.n \/ \E k \in 1 .. v.id : answers[k].for = 0
                     /\ v.frame = "close" => answers[v.id].kind.frame # "length" /\ client.ask.old,
         ~v.own, v.ended \/ ex'.answer = "done" => DoneView(v)
  PROVE  ViewsTell' /\ Mine' = v
<1> USE DEF ExchangeSound
<1>1. /\ client.n \in 1 .. Len(views) /\ Len(views') = Len(views) /\ views'[client.n] = v /\ Mine' = v
      /\ \A n \in 1 .. Len(views) : n # client.n => views'[n] = views[n]
  BY SeesOne DEF Mine
<1>2. \A n \in 1 .. Len(views) : views[n] \in Views /\ ViewKnows(n) /\ ViewTells(n)
  BY DEF ExchangeTypes, ViewsTyped, ViewsTell
<1>3. ASSUME NEW n \in 1 .. Len(views), NEW m \in 1 .. Len(views), views'[m].id = views'[n].id, views'[n].id # 0
      PROVE  m = n
  <2>1. \A i \in 1 .. Len(views) : views[i].id \in Nat
    BY <1>2 DEF Views
  <2>2. v.id \in Nat
    BY DEF Views
  <2>3. CASE m # client.n /\ n # client.n
    BY <2>3, <1>1, <1>2, <1>3 DEF ViewKnows
  <2>4. CASE v.id = Mine.id
    BY <2>4, <1>1, <1>2, <1>3 DEF ViewKnows, Mine
  <2>5. CASE \A i \in 1 .. Len(views) : views[i].id < v.id
    BY <2>5, <2>3, <2>1, <2>2, <1>1, <1>3
  <2> QED BY <2>4, <2>5
<1>4. ASSUME NEW n \in 1 .. Len(views) PROVE ViewKnows(n)'
  <2>1. CASE n = client.n
    BY <2>1, <1>1, <1>3 DEF ViewKnows
  <2>2. CASE n # client.n
    BY <2>2, <1>1, <1>2, <1>3 DEF ViewKnows
  <2> QED BY <2>1, <2>2
<1>5. ASSUME NEW n \in 1 .. Len(views) PROVE ViewTells(n)'
  <2>1. CASE n = client.n
    BY <2>1, <1>1 DEF ViewTells, DoneView, Exchanging
  <2>2. CASE n # client.n
    <3>1. n < client.n
      BY <2>2, <1>1 DEF ExchangeTypes, ViewsTyped, ClientTyped, Askers
    <3>2. DoneView(views[n]) /\ (views[n].own => ex.pc = "ended")
      BY <3>1, <1>2 DEF ViewTells
    <3> QED BY <2>2, <3>1, <3>2, <1>1 DEF ViewTells, DoneView, Exchanging
  <2> QED BY <2>1, <2>2
<1> QED BY <1>1, <1>4, <1>5 DEF ViewsTell

\* What is read next.
LEMMA NextRead ==
  ASSUME ExchangeSound, wire # <<>>
  PROVE  /\ Head(wire) \in Items /\ ComesAfter(Prior, Head(wire), answers) /\ server.up
         /\ Head(wire).kind \in {"head", "part", "end"} => Head(wire).id \in 1 .. Len(answers)
         /\ Head(wire).kind = "head" => \A n \in 1 .. Len(views) : views[n].id < Head(wire).id
<1> USE DEF ExchangeSound
<1>1. 1 \in 1 .. Len(wire) /\ Head(wire) = wire[1] /\ wire[1] \in Items
  BY DEF ExchangeTypes
<1> QED BY <1>1 DEF WireFollows, WireKnows

\* What the exchange has, and what the client has seen of its answer.
LEMMA MineTells ==
  ASSUME ExchangeSound, Exchanging
  PROVE  /\ client.n \in 1 .. Len(views) /\ Mine = views[client.n] /\ Mine \in Views /\ ViewKnows(client.n) /\ ~Mine.own
         /\ client.ask \in RequestKinds /\ client.ask.old \in BOOLEAN /\ client.ask.expects \in BOOLEAN
         /\ ex \in Exchanges /\ server.up /\ ex.pc = "exchanges"
         /\ client.gave \in Nat
<1> USE DEF ExchangeSound
<1>1. client.n \in 1 .. Len(views) /\ Mine = views[client.n] /\ client.ask \in RequestKinds /\ ex.pc = "exchanges"
  BY DEF ExchangeTypes, ViewsTyped, ClientTyped, Askers, Exchanging, Mine
<1>2. ViewKnows(client.n) /\ ViewTells(client.n)
  BY <1>1 DEF ViewsTell
<1> QED BY <1>1, <1>2, AskTypes DEF ViewTells, ExchangeTypes, ViewsTyped, ExTyped, ExchangeStands, ClientTyped, Askers


LEMMA InformReachesSound == ASSUME ExchangeSound, ExchangeTypes', InformReaches PROVE ExchangeSound'
<1> USE DEF ExchangeSound
<1>1. Exchanging /\ ex.answer = "head" /\ wire # <<>> /\ wire' = Tail(wire) /\ Head(wire).kind = "inform"
      /\ UNCHANGED <<client, hungUp, server, answers, cutOff>>
  BY DEF InformReaches, NextIs, Pumping, Quietly
<1>2. PICK v : v = [Mine EXCEPT !.informed = ~client.ask.old]
  OBVIOUS
<1>3. v \in Views /\ v.id = Mine.id /\ v.frame = Mine.frame /\ v.parts = Mine.parts /\ v.ended = Mine.ended /\ v.own = Mine.own
      /\ v.informed = ~client.ask.old
  <2>1. Mine \in Views /\ client.ask.old \in BOOLEAN
    BY <1>1, MineTells
  <2> QED BY ONLY <2>1, <1>2 DEF Views
<1>4. Sees(v)
  BY <1>2 DEF InformReaches
<1>5. PICK waits \in BOOLEAN : ex' = [ex EXCEPT !.received = TRUE, !.waits = waits] /\ (client.ask.old => waits = ex.waits)
  BY <1>1, MineTells DEF InformReaches, Exchanges
<1>6. /\ ex'.pc = ex.pc /\ ex'.body = ex.body /\ ex'.waits = waits /\ ex'.answer = ex.answer /\ ex'.abandoned = ex.abandoned
      /\ ex'.pumped = ex.pumped /\ ex'.stalled = ex.stalled /\ ex'.headed = ex.headed
  BY <1>5, <1>1, MineTells DEF Exchanges
<1>7. Mine.id = 0 /\ ~Mine.ended /\ ~Mine.own
  BY <1>1, MineTells DEF ExchangeStands
<1>8. ViewsTell' /\ Mine' = v
  BY <1>1, <1>3, <1>4, <1>6, <1>7, ReadViewsSound, MineTells
<1>9. Exchanging' = Exchanging /\ Full' = Full
  BY <1>1, <1>6 DEF Exchanging, Full
<1>10. Stays(Prior', Head(wire))
  BY <1>1, <1>6, <1>9 DEF Stays, Prior
<1>11. Len(views') = Len(views) /\ \A n \in 1 .. Len(views) : views'[n].id = views[n].id
  BY <1>1, <1>3, <1>4, SeesOne, MineTells
<1>12. WireFollows' /\ WireKnows' /\ GivingTells'
  BY <1>1, <1>10, <1>11, ReadWireSound
<1>13. AnswersTell' /\ LogTells'
  BY <1>1, <1>6, <1>9 DEF AnswersTell, LogTells
<1>14. ExchangeStands' /\ AskStands'
  BY <1>1, <1>3, <1>6, <1>8, <1>9 DEF ExchangeStands, AskStands
<1>15. AskWaits'
  BY <1>1, <1>3, <1>5, <1>6, <1>8, <1>9, MineTells DEF AskWaits
<1> QED BY <1>8, <1>12, <1>13, <1>14, <1>15

\* What is on the wire is for this request, unless an answer was for none.
LEMMA HeadBelongs ==
  ASSUME ExchangeSound, Exchanging, wire # <<>>, Head(wire).kind = "head", NEW id, id = Head(wire).id
  PROVE  answers[id].for = client.n \/ \E k \in 1 .. id : answers[k].for = 0
<1> USE DEF ExchangeSound
<1>1. id \in 1 .. Len(answers) /\ \A n \in 1 .. Len(views) : views[n].id < id
  BY NextRead
<1>2. answers[id] \in Replies /\ client.n \in Nat /\ Len(views) = client.n
  BY <1>1 DEF ExchangeTypes, ClientTyped, Askers, ViewsTyped
<1>3. PICK m \in Nat : m = answers[id].for
  BY <1>2 DEF Replies
<1>4. m <= client.n
  BY <1>1, <1>3 DEF AnswersTell
<1>5. CASE m = 0
  BY <1>5, <1>3, <1>1
<1>6. ASSUME m # 0, m # client.n, \A k \in 1 .. id : answers[k].for # 0 PROVE FALSE
  <2>1. m \in 1 .. Len(views) /\ m < client.n
    BY <1>6, <1>4, <1>2
  <2>2. ViewKnows(m) /\ ViewTells(m) /\ views[m] \in Views
    BY <2>1 DEF ViewsTell, ExchangeTypes, ViewsTyped
  <2>3. views[m].id # 0 /\ views[m].id < id /\ views[m].id \in Nat
    BY <2>1, <2>2, <1>1 DEF ViewTells, DoneView, Views
  <2>4. \A k \in 1 .. views[m].id : k \in 1 .. id
    BY <2>3, <1>1
  <2>5. answers[views[m].id].for = m /\ views[m].id \in 1 .. Len(answers)
    BY <2>2, <2>3, <2>4, <1>6 DEF ViewKnows
  <2>6. views[m].id = id
    BY <2>5, <1>1, <1>3, <1>6 DEF AnswersTell
  <2> QED BY <2>6, <2>3
<1> QED BY <1>5, <1>6, <1>3

LEMMA HeadReachesSound == ASSUME ExchangeSound, ExchangeTypes', HeadReaches PROVE ExchangeSound'
<1> USE DEF ExchangeSound
<1>1. Exchanging /\ ex.answer = "head" /\ wire # <<>> /\ Head(wire).kind = "head"
  BY DEF HeadReaches, Pumping
<1>2. PICK id : id = Head(wire).id
  OBVIOUS
<1>3. PICK kind : kind = answers[id].kind
  OBVIOUS
<1>4. CASE Refused(kind)
  <2>1. UpstreamGoes(FALSE, TRUE)
    BY <1>2, <1>3, <1>4 DEF HeadReaches
  <2> QED BY <2>1, <1>1, GoesSound
<1>5. CASE ~Refused(kind)
  <2>1. id \in 1 .. Len(answers) /\ id # 0 /\ \A n \in 1 .. Len(views) : views[n].id < id
    BY <1>1, <1>2, NextRead, SMTT(30) DEF ExchangeTypes
  <2>2. kind \in AnswerKinds
    <3>1. answers[id] \in Replies
      BY <2>1 DEF ExchangeTypes
    <3> QED BY <3>1, <1>3 DEF Replies
  <2>3. PICK v : v = [Mine EXCEPT !.id = id, !.frame = Framing(kind)]
    OBVIOUS
  <2>4. PICK frame \in {"length", "chunked", "close"} :
          frame = Framing(kind) /\ (frame = "close" => kind.frame # "length" /\ client.ask.old)
    BY DEF Framing
  <2>5. v \in Views /\ v.id = id /\ v.frame = frame /\ v.parts = Mine.parts /\ v.ended = Mine.ended /\ v.own = Mine.own
        /\ v.informed = Mine.informed
    <3>1. Mine \in Views /\ id \in Nat
      BY <1>1, <2>1, MineTells
    <3> QED BY ONLY <3>1, <2>3, <2>4 DEF Views
  <2>6. wire' = Tail(wire) /\ Sees(v) /\ UNCHANGED <<client, hungUp, server, answers, cutOff>>
    BY <1>2, <1>3, <1>5, <2>3 DEF HeadReaches, Quietly
  <2>7. /\ ex'.pc = ex.pc /\ ex'.body = ex.body /\ ex'.answer = "body" /\ ex'.abandoned = ex.waits
        /\ ex'.pumped = ex.pumped /\ ex'.headed = ~ex'.stalled /\ ex'.stalled \in BOOLEAN
    <3>1. ex \in Exchanges
      BY <1>1, MineTells
    <3>2. PICK stalled \in BOOLEAN :
            ex' = [ex EXCEPT !.received = TRUE, !.answer = "body", !.headed = ~stalled, !.stalled = stalled,
                     !.abandoned = ex.waits, !.waits = FALSE, !.closes = ~kind.keeps \/ kind.frame = "close"]
      BY <1>2, <1>3, <1>5 DEF HeadReaches
    <3> QED BY ONLY <3>1, <3>2 DEF Exchanges
  <2>8. Mine.id = 0 /\ ~Mine.ended /\ ~Mine.own /\ Mine.parts = 0
    BY <1>1, MineTells DEF ExchangeStands
  <2>9. answers[id].for = client.n \/ \E k \in 1 .. id : answers[k].for = 0
    BY <1>1, <1>2, HeadBelongs
  <2>10. ex'.pc = "exchanges" /\ ex'.answer # "done" /\ ~v.ended /\ ~v.own
    BY <1>1, <2>5, <2>7, <2>8, MineTells
  <2>11. v.frame = "close" => answers[v.id].kind.frame # "length" /\ client.ask.old
    BY <2>4, <2>5, <1>3
  <2>12. ViewsTell' /\ Mine' = v
    BY <1>1, <2>1, <2>5, <2>6, <2>9, <2>10, <2>11, ReadViewsSound
  <2>13. Exchanging' /\ Full' = Full
    BY <2>6, <2>10 DEF Exchanging, Full
  <2>14. Stays(Prior', Head(wire))
    <3>1. Head(wire).nth = 0
      BY <1>1, NextRead DEF ComesAfter
    <3>2. Prior' = [kind |-> "part", id |-> v.id, nth |-> v.parts]
      BY <2>7, <2>12, <2>13 DEF Prior
    <3> QED BY <3>1, <3>2, <1>1, <1>2, <2>5, <2>8 DEF Stays
  <2>15. Len(views') = Len(views) /\ \A n \in 1 .. Len(views) : views'[n].id = views[n].id \/ views'[n].id = Head(wire).id
    BY <1>1, <1>2, <2>5, <2>6, SeesOne
  <2>16. WireFollows' /\ WireKnows' /\ GivingTells'
    BY <1>1, <2>6, <2>14, <2>15, ReadWireSound
  <2>17. AnswersTell' /\ LogTells'
    BY <1>1, <2>6, <2>7, <2>13 DEF AnswersTell, LogTells
  <2>18. ExchangeStands'
    BY <1>1, <2>1, <2>5, <2>6, <2>7, <2>8, <2>12, <2>13 DEF ExchangeStands
  <2>19. AskStands' /\ AskWaits'
    BY <1>1, <2>5, <2>6, <2>7, <2>12, <2>13 DEF AskStands, AskWaits
  <2> QED BY <2>12, <2>16, <2>17, <2>18, <2>19
<1> QED BY <1>4, <1>5

LEMMA PartReachesSound == ASSUME ExchangeSound, ExchangeTypes', PartReaches PROVE ExchangeSound'
<1> USE DEF ExchangeSound
<1>1. Exchanging /\ ex.answer = "body" /\ wire # <<>> /\ wire' = Tail(wire) /\ Head(wire).kind = "part"
      /\ UNCHANGED <<client, hungUp, server, answers, cutOff, ex>>
  BY DEF PartReaches, NextIs, Pumping, Quietly
<1>2. PICK v : v = [Mine EXCEPT !.parts = @ + 1]
  OBVIOUS
<1>3. v \in Views /\ v.id = Mine.id /\ v.frame = Mine.frame /\ v.parts = Mine.parts + 1 /\ v.ended = Mine.ended /\ v.own = Mine.own
      /\ v.informed = Mine.informed
  <2>1. Mine \in Views
    BY <1>1, MineTells
  <2>2. PICK parts \in Nat : parts = Mine.parts + 1
    BY <2>1 DEF Views
  <2> QED BY ONLY <2>1, <2>2, <1>2 DEF Views
<1>4. Sees(v)
  BY <1>2 DEF PartReaches
<1>5. Mine.id # 0 /\ ~Mine.ended /\ ~Mine.own
  BY <1>1, MineTells DEF ExchangeStands
<1>6. v.id \in 1 .. Len(answers) /\ (answers[v.id].for = client.n \/ \E k \in 1 .. v.id : answers[k].for = 0)
      /\ (v.frame = "close" => answers[v.id].kind.frame # "length" /\ client.ask.old)
  BY <1>1, <1>3, <1>5, MineTells DEF ViewKnows
<1>7. ViewsTell' /\ Mine' = v
  BY <1>1, <1>3, <1>4, <1>5, <1>6, ReadViewsSound, MineTells
<1>8. Exchanging' = Exchanging /\ Full' = Full
  BY <1>1 DEF Exchanging, Full
<1>9. Stays(Prior', Head(wire))
  <2>1. Prior' = [kind |-> "part", id |-> v.id, nth |-> v.parts] /\ Prior = [kind |-> "part", id |-> Mine.id, nth |-> Mine.parts]
    BY <1>1, <1>7, <1>8 DEF Prior
  <2>2. Head(wire).id = Prior.id /\ Head(wire).nth = Prior.nth + 1
    BY <1>1, NextRead DEF ComesAfter
  <2> QED BY <2>1, <2>2, <1>1, <1>3 DEF Stays
<1>10. Len(views') = Len(views) /\ \A n \in 1 .. Len(views) : views'[n].id = views[n].id
  BY <1>1, <1>3, <1>4, SeesOne, MineTells
<1>11. WireFollows' /\ WireKnows' /\ GivingTells'
  BY <1>1, <1>9, <1>10, ReadWireSound
<1>12. AnswersTell' /\ LogTells'
  BY <1>1, <1>8 DEF AnswersTell, LogTells
<1>13. ExchangeStands' /\ AskStands'
  BY <1>1, <1>3, <1>5, <1>7, <1>8 DEF ExchangeStands, AskStands
<1>14. AskWaits'
  BY <1>1, <1>3, <1>7, <1>8 DEF AskWaits
<1> QED BY <1>7, <1>11, <1>12, <1>13, <1>14

\* The answer is complete: v is all that the client gets of it.
LEMMA CompletedSound ==
  ASSUME ExchangeSound, ExchangeTypes', Exchanging, ex.answer = "body", ~ex.stalled, Completed, UNCHANGED <<client, answers, cutOff>>,
         NEW v \in Views, Sees(v), v.id = Mine.id, v.frame = Mine.frame, v.parts = Mine.parts, v.own = Mine.own,
         v.informed = Mine.informed, DoneView(Mine),
         wire' = IF ex'.pc = "ended" THEN <<>> ELSE IF wire = <<>> THEN wire ELSE Tail(wire),
         IF wire = <<>> THEN server.giving = 0 ELSE Head(wire).kind = "end"
  PROVE  ExchangeSound'
<1> USE DEF ExchangeSound
<1>1. /\ client.n \in 1 .. Len(views) /\ Len(views') = Len(views) /\ views'[client.n] = v
      /\ \A n \in 1 .. Len(views) : n # client.n => views'[n] = views[n]
  BY SeesOne
<1>2. Mine = views[client.n] /\ ~Mine.own /\ ViewKnows(client.n) /\ ex \in Exchanges /\ server.up /\ ex.pc = "exchanges"
  BY MineTells
<1>3. DoneView(v)
  BY DEF DoneView
<1>4. \A n \in 1 .. Len(views) :
           views'[n].id = views[n].id /\ views'[n].frame = views[n].frame /\ views'[n].parts = views[n].parts
  BY <1>1, <1>2
<1>5. CASE Ends("fin")
  <2>1. ex'.pc = "ended" /\ ex'.stalled = ex.stalled /\ hungUp' = "fin"
    BY <1>5, EndsAll
  <2>2. ASSUME NEW n \in 1 .. Len(views) PROVE ViewTells(n)'
    <3>1. CASE n = client.n
      BY <3>1, <1>1, <1>2, <1>3, <2>1 DEF ViewTells, DoneView
    <3>2. CASE n # client.n
      <4>1. ViewTells(n)
        BY DEF ViewsTell
      <4> QED BY <3>2, <4>1, <1>1, <1>2, <2>1 DEF ViewTells, DoneView, Exchanging
    <3> QED BY <3>1, <3>2
  <2> QED BY <1>5, <1>1, <1>4, <2>2, EndSound
<1>6. CASE ~(ex.pumped = "runs" /\ (ex.abandoned \/ ex.closes \/ client.ask.shuts \/ client.ask.old))
  <2>1. ex' = [ex EXCEPT !.answer = "done"] /\ UNCHANGED <<hungUp, server>>
    BY <1>6 DEF Completed
  <2>2. /\ ex'.pc = "exchanges" /\ ex'.body = ex.body /\ ex'.waits = ex.waits /\ ex'.answer = "done" /\ ex'.abandoned = ex.abandoned
        /\ ex'.pumped = ex.pumped /\ ex'.stalled = ex.stalled /\ ex'.headed = ex.headed
    BY ONLY <2>1, <1>2 DEF Exchanges
  <2>3. ViewsTell' /\ Mine' = v
    BY <1>2, <1>3, <2>2, ReadViewsSound DEF ViewKnows
  <2>4. Exchanging' /\ Full' = Full
    BY <2>2 DEF Exchanging, Full
  <2>5. Prior' = [kind |-> "end", id |-> 0, nth |-> 0]
    BY <2>2 DEF Prior
  <2>6. ASSUME wire = <<>> PROVE WireFollows' /\ WireKnows' /\ GivingTells'
    <3>1. wire' = <<>> /\ server.giving = 0
      BY <2>6, <2>2
    <3>2. WireFollows' /\ WireKnows'
      <4>1. wire' = <<>>
        BY <3>1
      <4> QED BY ONLY <4>1 DEF WireFollows, WireKnows
    <3>3. GivingTells'
      BY <3>1, <2>1, <2>5 DEF GivingTells, Last
    <3> QED BY <3>2, <3>3
  <2>7. ASSUME wire # <<>> PROVE WireFollows' /\ WireKnows' /\ GivingTells'
    <3>1. wire' = Tail(wire) /\ Head(wire).kind = "end"
      BY <2>7, <2>2
    <3>2. Stays(Prior', Head(wire))
      BY <3>1, <2>5 DEF Stays
    <3> QED BY <2>1, <2>7, <3>1, <3>2, <1>1, <1>4, ReadWireSound
  <2>8. AnswersTell' /\ LogTells'
    BY <2>1, <2>2, <2>4, <1>2 DEF AnswersTell, LogTells
  <2>9. ExchangeStands'
    BY <2>1, <2>2, <2>3, <2>4, <1>2, <1>3 DEF ExchangeStands, DoneView
  <2>10. AskStands' /\ AskWaits'
    BY <1>6, <1>2, <2>2, <2>3, <2>4 DEF AskStands, AskWaits
  <2>11. WireFollows' /\ WireKnows' /\ GivingTells'
    BY <2>6, <2>7
  <2> QED BY <2>3, <2>8, <2>9, <2>10, <2>11
<1> QED BY <1>5, <1>6 DEF Completed

LEMMA EndReachesSound == ASSUME ExchangeSound, ExchangeTypes', EndReaches PROVE ExchangeSound'
<1> USE DEF ExchangeSound
<1>1. Exchanging /\ ex.answer = "body" /\ ~ex.stalled /\ wire # <<>> /\ Head(wire).kind = "end" /\ Completed
      /\ UNCHANGED <<client, answers, cutOff>> /\ wire' = IF ex'.pc = "ended" THEN <<>> ELSE Tail(wire)
  BY DEF EndReaches, Pumping
<1>2. PICK v : v = [Mine EXCEPT !.ended = TRUE]
  OBVIOUS
<1>3. v \in Views /\ v.id = Mine.id /\ v.frame = Mine.frame /\ v.parts = Mine.parts /\ v.own = Mine.own /\ v.informed = Mine.informed
  <2>1. Mine \in Views
    BY <1>1, MineTells
  <2> QED BY ONLY <2>1, <1>2 DEF Views
<1>4. Sees(v)
  BY <1>2 DEF EndReaches
<1>5. DoneView(Mine)
  <2>1. Prior = [kind |-> "part", id |-> Mine.id, nth |-> Mine.parts] /\ Mine.id # 0
    BY <1>1 DEF Prior, ExchangeStands
  <2>2. Head(wire).id = Prior.id /\ Head(wire).nth = Prior.nth /\ IsWhole(answers[Head(wire).id], Head(wire).nth)
    BY <1>1, NextRead DEF ComesAfter
  <2> QED BY <2>1, <2>2 DEF DoneView
<1> QED BY <1>1, <1>3, <1>4, <1>5, CompletedSound

LEMMA EofReachesSound == ASSUME ExchangeSound, ExchangeTypes', EofReaches PROVE ExchangeSound'
<1> USE DEF ExchangeSound
<1>1. Exchanging /\ ex.answer # "done" /\ ~ex.stalled /\ wire = <<>> /\ server.end = "eof"
  BY DEF EofReaches, Pumping
<1>2. CASE ex.answer = "body" /\ answers[Mine.id].kind.frame = "close"
  <2>1. Completed /\ UNCHANGED <<client, wire, answers, cutOff>>
    BY <1>2 DEF EofReaches
  <2>2. PICK ended \in BOOLEAN : Sees([Mine EXCEPT !.ended = ended])
    BY <1>2 DEF EofReaches
  <2>3. PICK v : v = [Mine EXCEPT !.ended = ended]
    OBVIOUS
  <2>4. v \in Views /\ v.id = Mine.id /\ v.frame = Mine.frame /\ v.parts = Mine.parts /\ v.own = Mine.own /\ v.informed = Mine.informed
    <3>1. Mine \in Views
      BY <1>1, MineTells
    <3> QED BY ONLY <3>1, <2>3, ended \in BOOLEAN DEF Views
  <2>5. Last = [kind |-> "part", id |-> Mine.id, nth |-> Mine.parts] /\ Mine.id # 0 /\ server.up
    BY <1>1, <1>2, MineTells DEF Last, Prior, ExchangeStands
  <2>6. server.giving = 0
    BY <1>1, <1>2, <2>5 DEF GivingTells, Giving
  <2>7. DoneView(Mine)
    BY <2>5, <2>6 DEF GivingTells, DoneView
  <2> QED BY <1>1, <1>2, <2>1, <2>2, <2>3, <2>4, <2>6, <2>7, CompletedSound
<1>3. CASE ~(ex.answer = "body" /\ answers[Mine.id].kind.frame = "close")
  <2>1. UpstreamGoes(FALSE, ex.received)
    BY <1>3 DEF EofReaches
  <2>2. ex.received \in BOOLEAN
    BY <1>1, MineTells DEF Exchanges
  <2> QED BY <1>1, <1>3, <2>1, <2>2, GoesSound
<1> QED BY <1>2, <1>3

-----------------------------------------------------------------------------
(* Steps that go to the next request, and those that end the connection.     *)

LEMMA BreaksSound ==
  ASSUME ExchangeSound, ExchangeTypes',
         (UploadBreaks /\ ex.answer # "done") \/ ResetReaches \/ JunkReaches
  PROVE  ExchangeSound'
<1> USE DEF ExchangeSound
<1>1. Exchanging /\ ex.answer # "done"
  BY DEF UploadBreaks, ResetReaches, JunkReaches, Pumping
<1>2. ex.received \in BOOLEAN
  BY <1>1, MineTells DEF Exchanges
<1>3. CASE (UploadBreaks /\ ex.answer # "done") \/ ResetReaches
  <2>1. UpstreamGoes(TRUE, ex.received)
    BY <1>3 DEF UploadBreaks, ResetReaches
  <2> QED BY <1>1, <1>2, <2>1, GoesSound
<1>4. CASE JunkReaches
  <2>1. UpstreamGoes(FALSE, TRUE) /\ wire # <<>> /\ Head(wire).kind = "junk"
    BY <1>4 DEF JunkReaches
  <2>2. ex.answer = "body" => Prior.kind = "part" /\ Prior.id = Mine.id
    BY <1>1 DEF Prior
  <2>3. ex.answer = "body" => answers[Mine.id].kind.frame = "chunked"
    BY <2>1, <2>2, NextRead DEF ComesAfter
  <2> QED BY <1>1, <2>1, <2>3, GoesSound
<1> QED BY <1>3, <1>4

LEMMA LeavesSound ==
  ASSUME ExchangeSound, ExchangeTypes', ClientIsGone \/ Leaves \/ CutsOff
  PROVE  ExchangeSound'
<1>1. PICK how : Ends(how)
  BY DEF ClientIsGone, Leaves, CutsOff, Aborts
<1>2. UNCHANGED <<client, views, answers>> /\ ex.pc # "ended" /\ (client.gone \/ cutOff')
  BY DEF ClientIsGone, Leaves, CutsOff, Aborts, Exchanging
<1> QED BY <1>1, <1>2, QuietEndSound

LEMMA FinishesSound == ASSUME ExchangeSound, ExchangeTypes', Finishes PROVE ExchangeSound'
<1> USE DEF ExchangeSound
<1>1. Exchanging /\ ex.answer = "done" /\ UNCHANGED <<client, views, answers, cutOff>>
  BY DEF Finishes
<1>2. DoneView(Mine)
  <2>1. ViewTells(client.n)
    BY <1>1, MineTells DEF ViewsTell
  <2> QED BY <2>1, <1>1, MineTells DEF ViewTells
<1>3. CASE Ends("fin")
  BY <1>3, <1>1, <1>2, QuietEndSound DEF Mine, Exchanging
<1>4. ASSUME ex.pumped = "done", ex' = [ex EXCEPT !.pc = "reads", !.completed = @ + 1],
             server' = [server EXCEPT !.up = ~ex.closes], wire' = (IF ex.closes THEN <<>> ELSE wire), UNCHANGED hungUp
      PROVE  ExchangeSound'
  <2>1. ex'.pc = "reads" /\ ex.pc = "exchanges"
    BY <1>1, <1>4, MineTells DEF Exchanges
  <2>2. /\ server'.up = ~ex.closes /\ server'.log = server.log /\ server'.end = server.end /\ server'.giving = server.giving
        /\ server'.answered = server.answered
    BY <1>4 DEF ExchangeTypes, ServerTyped, Servers
  <2>3. ~Exchanging'
    BY <2>1 DEF Exchanging
  <2>4. Prior' = Prior
    BY <1>1, <2>3 DEF Prior
  <2>5. WireFollows' /\ WireKnows'
    <3>1. CASE ex.closes
      BY <3>1, <1>4 DEF WireFollows, WireKnows
    <3>2. CASE ~ex.closes
      BY <3>2, <1>1, <1>4, <2>2, <2>4, MineTells DEF WireFollows, WireKnows
    <3> QED BY <3>1, <3>2
  <2>6. GivingTells'
    <3>1. CASE ex.closes
      BY <3>1, <2>2 DEF GivingTells
    <3>2. CASE ~ex.closes
      BY <3>2, <1>1, <1>4, <2>2, <2>4, MineTells DEF GivingTells, Last, Giving
    <3> QED BY <3>1, <3>2
  <2>7. AnswersTell'
    BY <1>1, <2>2, MineTells DEF AnswersTell
  <2>8. \A n \in 1 .. Len(views) : ViewKnows(n)'
    BY <1>1, SameViewsKnow
  <2>9. ASSUME NEW n \in 1 .. Len(views) PROVE ViewTells(n)'
    <3>1. ViewTells(n)
      BY DEF ViewsTell
    <3>2. n = client.n \/ n < client.n
      BY DEF ExchangeTypes, ViewsTyped, ClientTyped, Askers
    <3>3. DoneView(views[n])
      BY <3>1, <3>2, <1>2 DEF ViewTells, Mine
    <3> QED BY <3>1, <3>3, <2>1, <1>1 DEF ViewTells, DoneView
  <2>10. ViewsTell'
    BY <2>8, <2>9, <1>1 DEF ViewsTell
  <2>11. ExchangeStands' /\ AskStands' /\ AskWaits'
    BY <2>1, <2>3, <1>4, <2>2 DEF ExchangeStands, AskStands, AskWaits
  <2>12. LogTells'
    BY <1>1, <1>4, <2>2, <2>3, MineTells DEF LogTells, AskStands
  <2> QED BY <2>5, <2>6, <2>7, <2>10, <2>11, <2>12
<1> QED BY <1>3, <1>4 DEF Finishes

LEMMA BeginsSound ==
  ASSUME ExchangeSound, ExchangeTypes', NEW wanted \in RequestKinds, NEW fresh \in BOOLEAN, Begins(wanted, fresh)
  PROVE  ExchangeSound'
<1> USE DEF ExchangeSound
<1>1. /\ ex.pc = "reads" /\ client' = [client EXCEPT !.n = @ + 1, !.ask = wanted, !.gave = 0] /\ views' = Append(views, NoView)
      /\ UNCHANGED <<hungUp, answers, cutOff>>
      /\ fresh \/ server.up
  BY DEF Begins
<1>2. client'.n = client.n + 1 /\ client'.ask = wanted /\ client'.gave = 0 /\ client.n \in Nat
  <2>1. client \in Askers
    BY DEF ExchangeTypes, ClientTyped
  <2> QED BY ONLY <2>1, <1>1 DEF Askers
<1>3. /\ Len(views) = client.n /\ Len(views') = client.n + 1 /\ views'[client.n + 1] = NoView
      /\ \A n \in 1 .. Len(views) : views'[n] = views[n]
  BY <1>1, <1>2 DEF ExchangeTypes, ViewsTyped
<1>4. ex' = [NoExchange EXCEPT !.pc = "exchanges", !.completed = IF fresh THEN 0 ELSE ex.completed, !.waits = wanted.expects]
  BY DEF Begins
<1>5. /\ ex'.pc = "exchanges" /\ ex'.body = 0 /\ ex'.pumped = "runs" /\ ex'.answer = "head" /\ ~ex'.headed /\ ~ex'.stalled
      /\ ex'.waits = wanted.expects
  BY <1>4 DEF NoExchange
<1>6. Exchanging' /\ Mine' = NoView /\ Full' = wanted.parts + 1
  BY <1>2, <1>3, <1>5 DEF Exchanging, Mine, Full
<1>7. Prior' = [kind |-> "end", id |-> 0, nth |-> 0] /\ Prior = [kind |-> "end", id |-> 0, nth |-> 0]
  BY <1>1, <1>5 DEF Prior, Exchanging
<1>8. PICK log : log = IF fresh THEN <<>> ELSE server.log
  OBVIOUS
<1>9. PICK entry : entry = [n |-> client.n + 1, body |-> 0, full |-> wanted.parts + 1]
  OBVIOUS
<1>10. PICK more : more = Append(log, entry)
  OBVIOUS
<1>11. server' = [(IF fresh THEN NoServer ELSE server) EXCEPT !.up = TRUE, !.log = more, !.answered = FALSE]
  BY <1>8, <1>9, <1>10 DEF Begins
<1>12. /\ server'.up /\ server'.log = more /\ ~server'.answered
       /\ fresh => server'.giving = 0 /\ server'.end = "open"
       /\ ~fresh => server'.giving = server.giving /\ server'.end = server.end
  <2>1. server \in Servers
    BY DEF ExchangeTypes, ServerTyped
  <2> QED BY ONLY <2>1, <1>11, fresh \in BOOLEAN DEF Servers, NoServer
<1>13. wire' = IF fresh THEN <<>> ELSE wire
  BY DEF Begins
<1>14. WireFollows' /\ WireKnows'
  <2>1. ASSUME fresh PROVE WireFollows' /\ WireKnows'
    BY <2>1, <1>13 DEF WireFollows, WireKnows
  <2>2. ASSUME ~fresh PROVE WireFollows'
    BY <2>2, <1>13, <1>12, <1>7, <1>1 DEF WireFollows
  <2>3. ASSUME ~fresh PROVE WireKnows'
    <3>1. wire' = wire /\ wire \in Seq(Items)
      BY <2>3, <1>13 DEF ExchangeTypes
    <3>2. ASSUME NEW i \in 1 .. Len(wire), wire[i].kind = "head", NEW n \in 1 .. Len(views') PROVE views'[n].id < wire[i].id
      <4>1. CASE n \in 1 .. Len(views)
        BY <4>1, <3>2, <1>3 DEF WireKnows
      <4>2. CASE n = client.n + 1
        BY <4>2, <3>2, <1>3, <3>1 DEF WireKnows, NoView, ExchangeTypes
      <4> QED BY <4>1, <4>2, <1>3, <1>2
    <3> QED BY <3>1, <3>2, <1>1 DEF WireKnows
  <2> QED BY <2>1, <2>2, <2>3
<1>15. GivingTells'
  <2>1. ASSUME fresh PROVE GivingTells'
    BY <2>1, <1>12, <1>13, <1>7 DEF GivingTells, Last
  <2>2. ASSUME ~fresh PROVE GivingTells'
    BY <2>2, <1>12, <1>13, <1>7, <1>1 DEF GivingTells, Last, Giving
  <2> QED BY <2>1, <2>2
<1>16. AnswersTell'
  <2>1. \A k \in 1 .. Len(answers) : answers[k].for \in Nat /\ answers[k].for <= client.n
    <3> TAKE k \in 1 .. Len(answers)
    <3>1. answers[k] \in Replies
      BY DEF ExchangeTypes
    <3> QED BY <3>1 DEF Replies, AnswersTell
  <2>2. \A k \in 1 .. Len(answers) : answers[k].for <= client'.n /\ answers[k].for # client'.n
    BY <2>1, <1>2
  <2> QED BY <2>2, <1>1 DEF AnswersTell
<1>17. ASSUME NEW n \in 1 .. Len(views') PROVE ViewKnows(n)' /\ ViewTells(n)'
  <2>1. CASE n = client.n + 1
    BY <2>1, <1>3, <1>2, <1>5 DEF ViewKnows, ViewTells, NoView, Exchanging
  <2>2. CASE n # client.n + 1
    <3>1. n \in 1 .. Len(views) /\ n < client'.n
      BY <2>2, <1>3, <1>2
    <3>2. ViewKnows(n) /\ ViewTells(n) /\ views'[n] = views[n]
      BY <3>1, <1>3 DEF ViewsTell
    <3>3. \A m \in 1 .. Len(views') : views'[m].id = views'[n].id /\ views'[n].id # 0 => m = n
      <4> SUFFICES ASSUME NEW m \in 1 .. Len(views'), views'[m].id = views'[n].id, views'[n].id # 0 PROVE m = n
        OBVIOUS
      <4>1. m # client.n + 1
        BY <1>3 DEF NoView
      <4>2. m \in 1 .. Len(views)
        BY <4>1, <1>2, <1>3
      <4> QED BY <4>2, <3>2, <1>3 DEF ViewKnows
    <3>4. ViewKnows(n)'
      BY <3>1, <3>2, <3>3, <1>1, <1>2 DEF ViewKnows
    <3>5. ViewTells(n)'
      BY <3>1, <3>2, <1>1, <1>5, <1>2 DEF ViewTells, DoneView
    <3> QED BY <3>4, <3>5
  <2> QED BY <2>1, <2>2
<1>18. ViewsTell'
  BY <1>17 DEF ViewsTell
<1>19. ExchangeStands'
  BY <1>1, <1>5, <1>6, <1>12 DEF ExchangeStands, NoView
<1>20. AskStands'
  BY <1>2, <1>5, <1>6 DEF AskStands
<1>21. AskWaits'
  BY <1>2, <1>5, <1>6, AskTypes DEF AskWaits, NoView
<1>22. LogTells'
  <2>1. log \in Seq(Logs) /\ server.log \in Seq(Logs)
    BY <1>8 DEF ExchangeTypes, ServerTyped, Servers
  <2>2. entry \in Logs /\ entry.body = 0 /\ entry.full = wanted.parts + 1
    BY <1>9, <1>2, AskTypes DEF Logs
  <2>3. /\ Len(more) = Len(log) + 1 /\ more[Len(log) + 1] = entry /\ \A i \in 1 .. Len(log) : more[i] = log[i]
        /\ Len(log) \in Nat
    BY ONLY <1>10, <2>1, <2>2
  <2>4. \A i \in 1 .. Len(log) : log[i].body = log[i].full
    <3>1. ASSUME fresh PROVE Len(log) = 0
      BY <3>1, <1>8
    <3>2. ASSUME ~fresh PROVE \A i \in 1 .. Len(log) : log[i].body = log[i].full
      <4>1. log = server.log /\ server.up
        BY <3>2, <1>8, <1>1
      <4> QED BY <4>1, <1>1, <2>3 DEF LogTells
    <3> QED BY <3>1, <3>2
  <2>5. \A i \in 1 .. Len(server'.log) - 1 : server'.log[i].body = server'.log[i].full
    BY <2>3, <2>4, <1>12
  <2> QED BY <2>2, <2>3, <2>5, <1>5, <1>6, <1>12 DEF LogTells
<1> QED BY <1>14, <1>15, <1>16, <1>18, <1>19, <1>20, <1>21, <1>22

-----------------------------------------------------------------------------
(* The theorem.                                                              *)

\* Every step keeps it.
LEMMA ExchangeStep == ASSUME ExchangeSound, [NextExchange]_exchangeVars PROVE ExchangeSound'
<1>1. ExchangeTypes'
  BY TypesStep DEF ExchangeSound
<1>2. ASSUME NEW wanted \in RequestKinds, NEW fresh \in BOOLEAN, Begins(wanted, fresh) PROVE ExchangeSound'
  BY <1>1, <1>2, BeginsSound
<1>3. ASSUME NEW kind \in AnswerKinds, AnswersWith(kind) PROVE ExchangeSound'
  BY <1>1, <1>3, AnswersWithSound
<1>4. CASE ClientGives \/ ClientLeaves
  BY <1>1, <1>4, ClientSound
<1>5. CASE Informs \/ Gives
  BY <1>1, <1>5, InformsSound, GivesSound
<1>6. CASE Babbles \/ ServerEnds
  BY <1>1, <1>6, BabblesSound, ServerEndsSound
<1>7. CASE Uploads
  BY <1>1, <1>7, UploadsSound
<1>8. CASE UploadBreaks
  BY <1>1, <1>8, QuietSound, BreaksSound
<1>9. CASE ClientIsGone \/ Leaves \/ CutsOff
  BY <1>1, <1>9, LeavesSound
<1>10. CASE InformReaches \/ HeadReaches
  BY <1>1, <1>10, InformReachesSound, HeadReachesSound
<1>11. CASE HeadTaken
  BY <1>1, <1>11, QuietSound
<1>12. CASE PartReaches \/ EndReaches
  BY <1>1, <1>12, PartReachesSound, EndReachesSound
<1>13. CASE EofReaches
  BY <1>1, <1>13, EofReachesSound
<1>14. CASE ResetReaches \/ JunkReaches
  BY <1>1, <1>14, BreaksSound
<1>15. CASE Finishes
  BY <1>1, <1>15, FinishesSound
<1>16. CASE UNCHANGED exchangeVars
  <2> USE <1>16 DEF exchangeVars, ExchangeSound
  <2>1. Mine' = Mine /\ Exchanging' = Exchanging /\ Full' = Full /\ Prior' = Prior /\ Last' = Last /\ Giving' = Giving
    BY DEF Mine, Exchanging, Full, Prior, Last, Giving
  <2>2. WireFollows' /\ WireKnows' /\ GivingTells' /\ AnswersTell'
    BY <2>1 DEF WireFollows, WireKnows, GivingTells, AnswersTell
  <2>3. ViewsTell'
    BY <2>1 DEF ViewsTell, ViewKnows, ViewTells, DoneView
  <2>4. ExchangeStands' /\ AskStands' /\ AskWaits' /\ LogTells'
    BY <2>1 DEF ExchangeStands, AskStands, AskWaits, LogTells
  <2> QED BY <1>1, <2>2, <2>3, <2>4
<1> QED BY <1>2, <1>3, <1>4, <1>5, <1>6, <1>7, <1>8, <1>9, <1>10, <1>11, <1>12, <1>13, <1>14, <1>15, <1>16 DEF NextExchange

\* For any requests and answers, whatever the client, the server and the meter break off and when: a
\* truncated answer is never passed off as complete but in the three cases that NothingPassesAsWhole
\* names, an answer goes to the request that it is for, once, a kept connection carries whole
\* requests, and nobody waits for a body that is not coming.
THEOREM ExchangesAreWhole == ExchangeSpec => []ExchangeIsWhole
<1>1. InitExchange => ExchangeSound
  BY InitSound
<1>2. ExchangeSound /\ [NextExchange]_exchangeVars => ExchangeSound'
  BY ExchangeStep
<1>3. ExchangeSound => ExchangeIsWhole
  BY SoundIsWhole
<1> QED BY <1>1, <1>2, <1>3, PTL DEF ExchangeSpec

-----------------------------------------------------------------------------
(* The dialing: the order of the addresses.                                 *)

\* p goes through S from its least position to its greatest.
Walks(p, S) ==
  /\ p \in [1 .. Cardinality(S) -> S]
  /\ \A i \in S : \E k \in DOMAIN p : p[k] = i
  /\ \A k, l \in DOMAIN p : k < l => p[k] < p[l]

\* How many positions of S are not behind i.
Rank(S, i) == Cardinality({j \in S : j <= i})

LEMMA RankIsStrict ==
  ASSUME NEW n \in Nat, NEW S \in SUBSET (1 .. n)
  PROVE  /\ IsFiniteSet(S) /\ Cardinality(S) \in Nat
         /\ \A i \in S : Rank(S, i) \in 1 .. Cardinality(S)
         /\ \A i, j \in S : i < j => Rank(S, i) < Rank(S, j)
<1>1. IsFiniteSet(S)
  <2>1. IsFiniteSet(1 .. n)
    BY FS_Interval
  <2> QED  BY <2>1, FS_Subset
<1>2. Cardinality(S) \in Nat
  BY <1>1, FS_CardinalityType
<1>3. ASSUME NEW i \in S PROVE IsFiniteSet({j \in S : j <= i}) /\ Rank(S, i) \in 1 .. Cardinality(S)
  <2>1. /\ IsFiniteSet({j \in S : j <= i})
        /\ Cardinality({j \in S : j <= i}) <= Cardinality(S)
    BY <1>1, FS_Subset
  <2>2. i \in {j \in S : j <= i}
    OBVIOUS
  <2>3. Cardinality({j \in S : j <= i}) \in Nat /\ Cardinality({j \in S : j <= i}) # 0
    BY <2>1, <2>2, FS_CardinalityType, FS_EmptySet
  <2> QED  BY <1>2, <2>1, <2>3 DEF Rank
<1>4. ASSUME NEW i \in S, NEW j \in S, i < j PROVE Rank(S, i) < Rank(S, j)
  <2> DEFINE A == {k \in S : k <= i}
             B == {k \in S : k <= j}
  <2>1. IsFiniteSet(A) /\ IsFiniteSet(B) /\ Rank(S, i) \in Nat /\ Rank(S, j) \in Nat
    BY <1>2, <1>3
  <2>2. A \in SUBSET B /\ j \in B /\ j \notin A
    <3>1. S \in SUBSET Nat /\ i \in Nat /\ j \in Nat
      OBVIOUS
    <3>2. \A k \in S : k <= i => k <= j
      BY <3>1, <1>4
    <3>3. ~(j <= i) /\ j <= j
      BY <3>1, <1>4
    <3> QED  BY <3>2, <3>3
  <2>3. Cardinality(A) <= Cardinality(B) /\ (Cardinality(B) = Cardinality(A) => B = A)
    BY <2>1, <2>2, FS_Subset
  <2> HIDE DEF A, B
  <2>4. Rank(S, i) = Cardinality(A) /\ Rank(S, j) = Cardinality(B)
    BY DEF Rank, A, B
  <2> QED  BY <2>1, <2>2, <2>3, <2>4
<1> QED  BY <1>1, <1>2, <1>3, <1>4

\* Picked keeps the order of what it picks, and picks all of it.
LEMMA PickedWalks ==
  ASSUME NEW A, NEW s \in Seq(A), NEW S \in SUBSET DOMAIN s
  PROVE  /\ Cardinality(S) \in Nat
         /\ Picked(s, S) \in Seq(A) /\ Len(Picked(s, S)) = Cardinality(S)
         /\ \E p : Walks(p, S) /\ \A k \in 1 .. Cardinality(S) : Picked(s, S)[k] = s[p[k]]
<1> DEFINE n == Cardinality(S)
           rank == [i \in S |-> Rank(S, i)]
           p == [k \in 1 .. n |-> CHOOSE i \in S : Rank(S, i) = k]
<1>1. DOMAIN s = 1 .. Len(s) /\ Len(s) \in Nat
  BY LenProperties
<1>2. /\ IsFiniteSet(S) /\ n \in Nat
      /\ \A i \in S : Rank(S, i) \in 1 .. n
      /\ \A i, j \in S : i < j => Rank(S, i) < Rank(S, j)
  BY <1>1, RankIsStrict
<1> HIDE DEF n
<1>3. rank \in Injection(S, 1 .. n)
  <2>1. rank \in [S -> 1 .. n]
    BY <1>2
  <2>2. ASSUME NEW i \in S, NEW j \in S, rank[i] = rank[j] PROVE i = j
    BY <1>1, <1>2, <2>2
  <2> QED  BY <2>1, <2>2 DEF Injection, IsInjective
<1>4. rank \in Surjection(S, 1 .. n)
  <2>1. IsFiniteSet(1 .. n) /\ Cardinality(1 .. n) = n
    BY <1>2, FS_Interval
  <2> QED  BY <1>3, <2>1, FS_Injection DEF n
<1>5. \A k \in 1 .. n : \E i \in S : Rank(S, i) = k
  BY <1>4 DEF Surjection
<1>6. \A k \in 1 .. n : p[k] \in S /\ Rank(S, p[k]) = k
  BY <1>5
<1>7. p \in [1 .. n -> S]
  BY <1>6
<1> HIDE DEF p, rank
<1>8. \A i \in S : \E k \in 1 .. n : p[k] = i
  <2> TAKE i \in S
  <2>1. PICK k \in 1 .. n : Rank(S, i) = k
    BY <1>2
  <2>2. p[k] \in S /\ Rank(S, p[k]) = k
    BY <1>6
  <2>3. p[k] = i
    BY <1>1, <1>2, <2>1, <2>2
  <2> QED  BY <2>3
<1>9. ASSUME NEW k \in 1 .. n, NEW l \in 1 .. n, k < l PROVE p[k] < p[l]
  <2>1. p[k] \in S /\ p[l] \in S /\ Rank(S, p[k]) = k /\ Rank(S, p[l]) = l
    BY <1>6
  <2>2. p[k] \in Nat /\ p[l] \in Nat
    BY <1>1, <2>1
  <2>3. ~(p[l] < p[k]) /\ p[k] # p[l]
    BY <1>2, <1>9, <2>1
  <2> QED  BY <2>2, <2>3
<1>10. Walks(p, S)
  BY <1>7, <1>8, <1>9 DEF Walks, n
<1>11. Picked(s, S) = [k \in 1 .. n |-> s[p[k]]]
  BY DEF Picked, p, Rank, n
<1>12. \A k \in 1 .. n : s[p[k]] \in A
  <2> TAKE k \in 1 .. n
  <2>1. p[k] \in 1 .. Len(s)
    BY <1>1, <1>7
  <2> QED  BY <2>1, ElementOfSeq
<1>13. Picked(s, S) \in [1 .. n -> A]
  BY <1>11, <1>12
<1>14. Picked(s, S) \in Seq(A) /\ Len(Picked(s, S)) = n
  BY <1>2, <1>13
<1> QED  BY <1>2, <1>10, <1>11, <1>14 DEF n
\* The first of each address.
LEMMA DistinctIs ==
  ASSUME NEW A, NEW s \in Seq(A)
  PROVE  /\ Distinct(s) \in Seq(A)
         /\ \E d \in [1 .. Len(Distinct(s)) -> 1 .. Len(s)] :
              /\ \A k \in 1 .. Len(Distinct(s)) : Distinct(s)[k] = s[d[k]] /\ \A z \in 1 .. d[k] - 1 : s[z] # s[d[k]]
              /\ \A k, l \in 1 .. Len(Distinct(s)) : k < l => d[k] < d[l]
<1> DEFINE S == {i \in DOMAIN s : \A j \in 1 .. i - 1 : s[j] # s[i]}
<1>1. DOMAIN s = 1 .. Len(s) /\ Len(s) \in Nat
  BY LenProperties
<1>2. Distinct(s) = Picked(s, S)
  BY DEF Distinct
<1>3. \A i \in S : i \in 1 .. Len(s) /\ \A j \in 1 .. i - 1 : s[j] # s[i]
  BY <1>1
<1>4. S \in SUBSET DOMAIN s
  OBVIOUS
<1> HIDE DEF S
<1>5. /\ Distinct(s) \in Seq(A) /\ Len(Distinct(s)) = Cardinality(S)
      /\ \E p : Walks(p, S) /\ \A k \in 1 .. Cardinality(S) : Distinct(s)[k] = s[p[k]]
  BY <1>2, <1>4, PickedWalks
<1>6. PICK p : Walks(p, S) /\ \A k \in 1 .. Cardinality(S) : Distinct(s)[k] = s[p[k]]
  BY <1>5
<1>7. p \in [1 .. Len(Distinct(s)) -> 1 .. Len(s)] /\ p \in [1 .. Len(Distinct(s)) -> S]
  BY <1>3, <1>5, <1>6 DEF Walks
<1>8. \A k, l \in 1 .. Len(Distinct(s)) : k < l => p[k] < p[l]
  BY <1>5, <1>6 DEF Walks
<1>9. \A k \in 1 .. Len(Distinct(s)) : Distinct(s)[k] = s[p[k]] /\ \A z \in 1 .. p[k] - 1 : s[z] # s[p[k]]
  BY <1>3, <1>5, <1>6, <1>7
<1> QED  BY <1>5, <1>7, <1>8, <1>9

\* Nobody is there who is not allowed, and everybody is who was.
LEMMA AllowedIs ==
  ASSUME NEW A, NEW s \in Seq(A)
  PROVE  /\ Allowed(s) \in Seq(A)
         /\ \E d \in [1 .. Len(Allowed(s)) -> 1 .. Len(s)] :
              /\ \A k \in 1 .. Len(Allowed(s)) : Allowed(s)[k] = s[d[k]] /\ (way.allow \/ ~IsPrivate(s[d[k]]))
              /\ \A k, l \in 1 .. Len(Allowed(s)) : k < l => d[k] < d[l]
         /\ (\E i \in 1 .. Len(s) : way.allow \/ ~IsPrivate(s[i])) => Len(Allowed(s)) # 0
<1> DEFINE S == {i \in DOMAIN s : way.allow \/ ~IsPrivate(s[i])}
<1>1. DOMAIN s = 1 .. Len(s) /\ Len(s) \in Nat
  BY LenProperties
<1>2. Allowed(s) = Picked(s, S)
  BY DEF Allowed
<1>3. \A i \in S : i \in 1 .. Len(s) /\ (way.allow \/ ~IsPrivate(s[i]))
  BY <1>1
<1>4. S \in SUBSET DOMAIN s /\ \A i \in 1 .. Len(s) : way.allow \/ ~IsPrivate(s[i]) => i \in S
  BY <1>1
<1> HIDE DEF S
<1>5. /\ Allowed(s) \in Seq(A) /\ Len(Allowed(s)) = Cardinality(S) /\ Cardinality(S) \in Nat
      /\ \E p : Walks(p, S) /\ \A k \in 1 .. Cardinality(S) : Allowed(s)[k] = s[p[k]]
  BY <1>2, <1>4, PickedWalks
<1>6. PICK p : Walks(p, S) /\ \A k \in 1 .. Cardinality(S) : Allowed(s)[k] = s[p[k]]
  BY <1>5
<1>7. p \in [1 .. Len(Allowed(s)) -> 1 .. Len(s)] /\ p \in [1 .. Len(Allowed(s)) -> S]
  BY <1>3, <1>5, <1>6 DEF Walks
<1>8. \A k, l \in 1 .. Len(Allowed(s)) : k < l => p[k] < p[l]
  BY <1>5, <1>6 DEF Walks
<1>9. \A k \in 1 .. Len(Allowed(s)) : Allowed(s)[k] = s[p[k]] /\ (way.allow \/ ~IsPrivate(s[p[k]]))
  BY <1>3, <1>5, <1>6, <1>7
<1>10. (\E i \in 1 .. Len(s) : way.allow \/ ~IsPrivate(s[i])) => Len(Allowed(s)) # 0
  <2> SUFFICES ASSUME NEW i \in 1 .. Len(s), way.allow \/ ~IsPrivate(s[i]) PROVE Cardinality(S) # 0
    BY <1>5
  <2>1. i \in S
    BY <1>4
  <2>2. \E k \in 1 .. Cardinality(S) : TRUE
    BY <1>6, <2>1 DEF Walks
  <2> QED  BY <1>5, <2>2
<1> QED  BY <1>5, <1>7, <1>8, <1>9, <1>10
\* Where the k-th address in turns comes from, when the one family has f and the other has g.
FromFirst(f, g, k) == IF k <= 2 * f /\ k <= 2 * g THEN k % 2 = 1 ELSE f > g
Place(f, g, k) ==
  IF k <= 2 * f /\ k <= 2 * g THEN (IF k % 2 = 1 THEN (k + 1) \div 2 ELSE k \div 2)
  ELSE k - (IF f < g THEN f ELSE g)

LEMMA Halves ==
  ASSUME NEW k \in Nat
  PROVE  /\ k % 2 = 1 => (k + 1) \div 2 \in Nat /\ k = 2 * ((k + 1) \div 2) - 1
         /\ k % 2 # 1 => k \div 2 \in Nat /\ k = 2 * (k \div 2)
         /\ k % 2 = 1 <=> (k + 1) % 2 # 1
  OBVIOUS

LEMMA TurnsAreFair ==
  ASSUME NEW f \in Nat \ {0}, NEW g \in Nat, NEW k \in 1 .. f + g
  PROVE  /\ FromFirst(f, g, k) => Place(f, g, k) \in 1 .. f
         /\ ~FromFirst(f, g, k) => Place(f, g, k) \in 1 .. g
         /\ FromFirst(f, g, 1) /\ Place(f, g, 1) = 1
<1>1. CASE k <= 2 * f /\ k <= 2 * g
  BY <1>1, Halves DEF FromFirst, Place
<1>2. CASE ~(k <= 2 * f /\ k <= 2 * g)
  BY <1>2 DEF FromFirst, Place
<1>3. FromFirst(f, g, 1) /\ Place(f, g, 1) = 1
  BY DEF FromFirst, Place
<1> QED  BY <1>1, <1>2, <1>3

LEMMA TurnsKeepOrder ==
  ASSUME NEW f \in Nat \ {0}, NEW g \in Nat, NEW k \in 1 .. f + g, NEW l \in 1 .. f + g, k < l,
         FromFirst(f, g, k) <=> FromFirst(f, g, l)
  PROVE  Place(f, g, k) < Place(f, g, l)
<1>1. CASE l <= 2 * f /\ l <= 2 * g
  <2>1. k <= 2 * f /\ k <= 2 * g
    BY <1>1
  <2>2. k % 2 = 1 <=> l % 2 = 1
    BY <1>1, <2>1 DEF FromFirst
  <2>3. CASE k % 2 = 1
    BY <1>1, <2>1, <2>2, <2>3, Halves DEF Place
  <2>4. CASE k % 2 # 1
    BY <1>1, <2>1, <2>2, <2>4, Halves DEF Place
  <2> QED  BY <2>3, <2>4
<1>2. CASE ~(l <= 2 * f /\ l <= 2 * g) /\ k <= 2 * f /\ k <= 2 * g
  <2>1. Place(f, g, l) = l - (IF f < g THEN f ELSE g)
    BY <1>2 DEF Place
  <2>2. CASE k % 2 = 1
    <3>1. f > g
      BY <1>2, <2>2 DEF FromFirst
    <3>2. Place(f, g, k) = (k + 1) \div 2
      BY <1>2, <2>2 DEF Place
    <3> QED  BY <1>2, <2>1, <2>2, <3>1, <3>2, Halves
  <2>3. CASE k % 2 # 1
    <3>1. ~(f > g)
      BY <1>2, <2>3 DEF FromFirst
    <3>2. Place(f, g, k) = k \div 2
      BY <1>2, <2>3 DEF Place
    <3> QED  BY <1>2, <2>1, <2>3, <3>1, <3>2, Halves
  <2> QED  BY <2>2, <2>3
<1>3. CASE ~(l <= 2 * f /\ l <= 2 * g) /\ ~(k <= 2 * f /\ k <= 2 * g)
  BY <1>3 DEF Place
<1> QED  BY <1>1, <1>2, <1>3

LEMMA TurnsEndTogether ==
  ASSUME NEW f \in Nat \ {0}, NEW g \in Nat, NEW k \in 1 .. f + g, NEW l \in 1 .. f + g, k < l,
         FromFirst(f, g, k) <=> FromFirst(f, g, k + 1)
  PROVE  FromFirst(f, g, k) <=> FromFirst(f, g, l)
<1>1. ~(k + 1 <= 2 * f /\ k + 1 <= 2 * g)
  <2> SUFFICES ASSUME k + 1 <= 2 * f /\ k + 1 <= 2 * g PROVE FALSE
    OBVIOUS
  <2>1. k <= 2 * f /\ k <= 2 * g
    OBVIOUS
  <2>2. k % 2 = 1 <=> (k + 1) % 2 = 1
    BY <2>1 DEF FromFirst
  <2> QED  BY <2>2, Halves
<1>2. ~(l <= 2 * f /\ l <= 2 * g)
  BY <1>1
<1>3. FromFirst(f, g, k + 1) <=> f > g
  BY <1>1 DEF FromFirst
<1>4. FromFirst(f, g, l) <=> f > g
  BY <1>2 DEF FromFirst
<1> QED  BY <1>3, <1>4
\* Nobody is lost on the way, the families take turns, and within each the order is kept.
LEMMA InterleavedIs ==
  ASSUME NEW A, NEW s \in Seq(A), Len(s) # 0, \A i \in 1 .. Len(s) : s[i].v6 \in BOOLEAN
  PROVE  LET o == Interleaved(s)
         IN  /\ o \in Seq(A) /\ Len(o) = Len(s) /\ o[1] = s[1]
             /\ \A k, l \in 1 .. Len(s) : k < l /\ o[k].v6 = o[k + 1].v6 => o[l].v6 = o[k].v6
             /\ \E q \in [1 .. Len(s) -> 1 .. Len(s)] :
                  /\ \A k \in 1 .. Len(s) : o[k] = s[q[k]]
                  /\ \A k, l \in 1 .. Len(s) : k < l /\ o[k].v6 = o[l].v6 => q[k] < q[l]
<1> DEFINE F == {i \in DOMAIN s : s[i].v6 = s[1].v6}
           O == {i \in DOMAIN s : s[i].v6 # s[1].v6}
           first == Picked(s, F)
           other == Picked(s, O)
           f == Cardinality(F)
           g == Cardinality(O)
           o == Interleaved(s)
<1>1. DOMAIN s = 1 .. Len(s) /\ Len(s) \in Nat /\ 1 \in 1 .. Len(s)
  BY LenProperties
<1>2. F \in SUBSET DOMAIN s /\ O \in SUBSET DOMAIN s
  OBVIOUS
<1>3. /\ f \in Nat /\ Len(first) = f
      /\ \E p : Walks(p, F) /\ \A k \in 1 .. f : first[k] = s[p[k]]
  <2> HIDE DEF F
  <2> QED  BY <1>2, PickedWalks
<1>4. /\ g \in Nat /\ Len(other) = g
      /\ \E p : Walks(p, O) /\ \A k \in 1 .. g : other[k] = s[p[k]]
  <2> HIDE DEF O
  <2> QED  BY <1>2, PickedWalks
<1>5. /\ \A i \in F : i \in 1 .. Len(s) /\ s[i].v6 = s[1].v6
      /\ \A i \in O : i \in 1 .. Len(s) /\ s[i].v6 # s[1].v6
      /\ F \cup O = 1 .. Len(s) /\ F \cap O = {} /\ 1 \in F
  BY <1>1
<1>6. o = [i \in 1 .. Len(first) + Len(other) |->
             IF i > 2 * (IF Len(first) < Len(other) THEN Len(first) ELSE Len(other))
             THEN (IF Len(first) > (IF Len(first) < Len(other) THEN Len(first) ELSE Len(other)) THEN first ELSE other)
                    [i - (IF Len(first) < Len(other) THEN Len(first) ELSE Len(other))]
             ELSE IF i % 2 = 1 THEN first[(i + 1) \div 2] ELSE other[i \div 2]]
  BY DEF Interleaved
<1> HIDE DEF F, O, first, other, o
<1>7. f + g = Len(s) /\ f # 0
  <2>1. IsFiniteSet(1 .. Len(s)) /\ Cardinality(1 .. Len(s)) = Len(s)
    BY <1>1, FS_Interval
  <2>2. IsFiniteSet(F) /\ IsFiniteSet(O)
    BY <1>5, <2>1, FS_Subset
  <2>3. Cardinality(F \cup O) = f + g - Cardinality(F \cap O)
    BY <2>2, FS_Union
  <2>4. Cardinality(F \cap O) = 0
    BY <1>5, FS_EmptySet
  <2>5. f # 0
    BY <1>5, <2>2, FS_EmptySet
  <2>6. Cardinality(F \cup O) = Len(s)
    BY <1>5, <2>1
  <2> HIDE DEF f, g
  <2> QED  BY <1>3, <1>4, <2>3, <2>4, <2>5, <2>6
<1>8. PICK p : Walks(p, F) /\ \A k \in 1 .. f : first[k] = s[p[k]]
  BY <1>3
<1>9. PICK r : Walks(r, O) /\ \A k \in 1 .. g : other[k] = s[r[k]]
  BY <1>4
<1>10. /\ \A k \in 1 .. f : p[k] \in F
       /\ \A k, l \in 1 .. f : k < l => p[k] < p[l]
       /\ \A i \in F : \E k \in 1 .. f : p[k] = i
  BY <1>8 DEF Walks
<1>11. /\ \A k \in 1 .. g : r[k] \in O
       /\ \A k, l \in 1 .. g : k < l => r[k] < r[l]
  BY <1>9 DEF Walks
<1> HIDE DEF f, g
<1> DEFINE at(k) == IF FromFirst(f, g, k) THEN p[Place(f, g, k)] ELSE r[Place(f, g, k)]
           q == [k \in 1 .. Len(s) |-> at(k)]
<1>12. \A k \in 1 .. Len(s) : /\ FromFirst(f, g, k) => Place(f, g, k) \in 1 .. f
                              /\ ~FromFirst(f, g, k) => Place(f, g, k) \in 1 .. g
  BY <1>3, <1>4, <1>7, TurnsAreFair
<1>13. \A k \in 1 .. Len(s) : /\ FromFirst(f, g, k) => at(k) \in F
                              /\ ~FromFirst(f, g, k) => at(k) \in O
  BY <1>10, <1>11, <1>12
<1>14. \A k \in 1 .. Len(s) : o[k] = IF FromFirst(f, g, k) THEN first[Place(f, g, k)] ELSE other[Place(f, g, k)]
  <2> TAKE k \in 1 .. Len(s)
  <2>1. o[k] = IF k > 2 * (IF f < g THEN f ELSE g)
               THEN (IF f > (IF f < g THEN f ELSE g) THEN first ELSE other)[k - (IF f < g THEN f ELSE g)]
               ELSE IF k % 2 = 1 THEN first[(k + 1) \div 2] ELSE other[k \div 2]
    BY <1>3, <1>4, <1>6, <1>7
  <2>2. CASE f > g
    BY <1>3, <1>4, <2>1, <2>2 DEF FromFirst, Place
  <2>3. CASE ~(f > g)
    BY <1>3, <1>4, <2>1, <2>3 DEF FromFirst, Place
  <2> QED  BY <2>2, <2>3
<1>15. \A k \in 1 .. Len(s) : o[k] = s[at(k)]
  <2> TAKE k \in 1 .. Len(s)
  <2>1. CASE FromFirst(f, g, k)
    BY <1>8, <1>12, <1>14, <2>1 DEF f
  <2>2. CASE ~FromFirst(f, g, k)
    BY <1>9, <1>12, <1>14, <2>2 DEF g
  <2> QED  BY <2>1, <2>2
<1>16. \A k, l \in 1 .. Len(s) : o[k].v6 = o[l].v6 <=> (FromFirst(f, g, k) <=> FromFirst(f, g, l))
  <2> TAKE k, l \in 1 .. Len(s)
  <2>1. /\ FromFirst(f, g, k) => at(k) \in 1 .. Len(s) /\ o[k].v6 = s[1].v6
        /\ ~FromFirst(f, g, k) => at(k) \in 1 .. Len(s) /\ o[k].v6 # s[1].v6
    BY <1>5, <1>13, <1>15
  <2>2. /\ FromFirst(f, g, l) => at(l) \in 1 .. Len(s) /\ o[l].v6 = s[1].v6
        /\ ~FromFirst(f, g, l) => at(l) \in 1 .. Len(s) /\ o[l].v6 # s[1].v6
    BY <1>5, <1>13, <1>15
  <2> HIDE DEF at
  <2>3. o[k] = s[at(k)] /\ o[l] = s[at(l)] /\ at(k) \in 1 .. Len(s) /\ at(l) \in 1 .. Len(s)
    BY <1>15, <2>1, <2>2
  <2>4. o[k].v6 \in BOOLEAN /\ o[l].v6 \in BOOLEAN /\ s[1].v6 \in BOOLEAN
    BY <1>1, <2>3
  <2> QED  BY <2>1, <2>2, <2>4
<1>17. q \in [1 .. Len(s) -> 1 .. Len(s)] /\ \A k \in 1 .. Len(s) : o[k] = s[q[k]]
  <2>1. \A k \in 1 .. Len(s) : at(k) \in 1 .. Len(s)
    BY <1>5, <1>13
  <2> HIDE DEF at
  <2> QED  BY <1>15, <2>1
<1>18. ASSUME NEW k \in 1 .. Len(s), NEW l \in 1 .. Len(s), k < l, o[k].v6 = o[l].v6 PROVE q[k] < q[l]
  <2>1. FromFirst(f, g, k) <=> FromFirst(f, g, l)
    BY <1>16, <1>18
  <2>2. Place(f, g, k) < Place(f, g, l)
    BY <1>3, <1>4, <1>7, <1>18, <2>1, TurnsKeepOrder
  <2>3. CASE FromFirst(f, g, k)
    BY <1>10, <1>12, <2>1, <2>2, <2>3
  <2>4. CASE ~FromFirst(f, g, k)
    BY <1>11, <1>12, <2>1, <2>2, <2>4
  <2> QED  BY <2>3, <2>4
<1>19. ASSUME NEW k \in 1 .. Len(s), NEW l \in 1 .. Len(s), k < l, o[k].v6 = o[k + 1].v6 PROVE o[l].v6 = o[k].v6
  <2>1. k + 1 \in 1 .. Len(s)
    BY <1>1, <1>19
  <2>2. FromFirst(f, g, k) <=> FromFirst(f, g, k + 1)
    BY <1>16, <1>19, <2>1
  <2>3. FromFirst(f, g, k) <=> FromFirst(f, g, l)
    BY <1>3, <1>4, <1>7, <1>19, <2>2, TurnsEndTogether
  <2> QED  BY <1>16, <2>3
<1>20. o[1] = s[1]
  <2>1. FromFirst(f, g, 1) /\ Place(f, g, 1) = 1
    BY <1>3, <1>4, <1>7, TurnsAreFair
  <2>2. p[1] = 1
    <3>1. PICK k \in 1 .. f : p[k] = 1
      BY <1>5, <1>10
    <3>2. 1 \in 1 .. f /\ p[1] \in 1 .. Len(s)
      BY <1>3, <1>5, <1>7, <1>10
    <3>3. k = 1 \/ 1 < k
      BY <1>3
    <3>4. ~(p[1] < 1)
      BY <1>1, <3>2
    <3> QED  BY <1>10, <3>1, <3>2, <3>3, <3>4
  <2> QED  BY <1>1, <1>15, <2>1, <2>2
<1>21. o \in [1 .. Len(s) -> A]
  <2>1. DOMAIN o = 1 .. Len(s) /\ o = [k \in DOMAIN o |-> o[k]]
    BY <1>3, <1>4, <1>6, <1>7
  <2>2. \A k \in 1 .. Len(s) : o[k] \in A
    <3> HIDE DEF q
    <3> QED  BY <1>17, ElementOfSeq
  <2> QED  BY <2>1, <2>2
<1>22. o \in Seq(A) /\ Len(o) = Len(s)
  BY <1>1, <1>21
<1> HIDE DEF q
<1> QED  BY <1>17, <1>18, <1>19, <1>20, <1>22 DEF o
(* The state of the dialing.                                                *)

\* The addresses that were resolved.
Heard == {answer[i] : i \in DOMAIN answer}
Stages == {"begins", "tries", "speaks", "method", "status", "reply", "bound", "head", "body", "ended"}
Failures ==
  {"dns", "connect_timeout", "connect_refused", "local_limit", "self_loop", "private_address", "cut",
   "client_closed", "internal", "upstream_unreachable", "upstream_timeout", "upstream_closed",
   "upstream_protocol", "upstream_status", "socks_auth_unsupported", "socks_method", "socks_auth", "socks_reply"}
Lines == [heard : Nat, taken : Nat, named : Nat, kept : Nat, peer : {"open", "eof", "resets", "reset"}]
Requested == {"hello", "password", "target"}
DialTypes ==
  /\ way \in Ways /\ answer \in Lookups /\ offer \in Offers
  /\ dialer \in [at : Stages, end : Failures \cup {"none", "open"}, last : Failures \cup {"none"}, to : Nat]
  /\ hopes \in [order : Seq(Heard), tried : SUBSET Nat]
  /\ line \in Lines
  /\ said \in Seq(Requested) /\ cut \in BOOLEAN

\* The addresses that are tried are the allowed ones, in turns.
OrderKnown ==
  hopes.order # <<>> =>
    /\ Len(Allowed(Distinct(answer))) # 0
    /\ hopes.order = Interleaved(Allowed(Distinct(answer)))
    /\ way.mine => \A i \in DOMAIN Distinct(answer) : ~IsSelf(Distinct(answer)[i])

\* Which places belong to which route, and what is settled there.
PlaceKnown ==
  /\ way.route = "direct" => dialer.at \in {"begins", "tries", "ended"}
  /\ way.route = "socks5" => dialer.at \in {"begins", "speaks", "method", "status", "reply", "bound", "ended"}
  /\ way.route = "http-connect" => dialer.at \in {"begins", "speaks", "head", "body", "ended"}
  /\ dialer.at # "ended" => dialer.end = "none"
  /\ way.route = "direct" /\ dialer.end = "open" =>
       dialer.to \in DOMAIN hopes.order /\ (way.allow \/ ~IsOwnOrOnLink(hopes.order[dialer.to]))

\* How much of a handshake is taken at each place, and named by then.
LineKnown ==
  /\ dialer.at \in {"begins", "tries"} => line.heard = 0
  /\ dialer.at \in {"begins", "tries", "speaks", "method", "head"} => line.taken = 0 /\ line.named = 0
  /\ dialer.at = "status" => line.taken = 1 /\ line.named = 1
  /\ dialer.at = "reply" => line.taken = (IF way.creds = "fit" THEN 2 ELSE 1) /\ line.named = line.taken
  /\ dialer.at = "bound" => line.taken = (IF way.creds = "fit" THEN 3 ELSE 2) /\ line.named = line.taken
  /\ dialer.at = "body" => line.named = 1
  /\ line.kept <= Wanted

Told(what) == \E i \in DOMAIN said : said[i] = what

\* What has been said, and was answered, by the time a place is reached.
TalkKnown ==
  /\ dialer.at = "status" => way.creds = "fit" /\ Told("password")
  /\ dialer.at \in {"reply", "bound"} => Told("target")
  /\ dialer.at = "bound" => offer.bound

DialInv == DialTypes /\ OrderKnown /\ PlaceKnown /\ LineKnown /\ TalkKnown /\ HandshakeIsApart /\ ReasonsAreTrue

LEMMA Given ==
  ASSUME DialTypes
  PROVE  /\ IsWay(way) /\ IsOffer(offer) /\ Wanted \in Nat
         /\ answer \in Seq(Heard) /\ \A a \in Heard : IsAddress(a)
<1>1. /\ IsWay(way) /\ IsOffer(offer) /\ MaxBody \in Nat
      /\ answer \in Seq({answer[i] : i \in DOMAIN answer}) /\ \A i \in DOMAIN answer : IsAddress(answer[i])
  BY DialAssumption DEF DialTypes
<1>2. Wanted \in Nat
  BY <1>1 DEF Wanted, IsOffer
<1> QED  BY <1>1, <1>2 DEF Heard

\* What may be tried: addresses of the answer that are allowed, none of them twice.
LEMMA FitIs ==
  ASSUME DialTypes
  PROVE  LET found == Distinct(answer)
             fit == Allowed(found)
         IN  /\ found \in Seq(Heard) /\ fit \in Seq(Heard)
             /\ (\E i \in 1 .. Len(found) : way.allow \/ ~IsPrivate(found[i])) => Len(fit) # 0
             /\ \E w \in [1 .. Len(fit) -> 1 .. Len(answer)] :
                  /\ \A k \in 1 .. Len(fit) :
                       /\ fit[k] = answer[w[k]] /\ (\A z \in 1 .. w[k] - 1 : answer[z] # fit[k])
                       /\ way.allow \/ ~IsPrivate(fit[k])
                       /\ \E i \in 1 .. Len(found) : fit[k] = found[i]
                  /\ \A k, l \in 1 .. Len(fit) : k < l => w[k] < w[l]
<1> DEFINE found == Distinct(answer)
           fit == Allowed(found)
<1>1. answer \in Seq(Heard)
  BY Given
<1>2. /\ found \in Seq(Heard)
      /\ \E d \in [1 .. Len(found) -> 1 .. Len(answer)] :
           /\ \A k \in 1 .. Len(found) : found[k] = answer[d[k]] /\ \A z \in 1 .. d[k] - 1 : answer[z] # answer[d[k]]
           /\ \A k, l \in 1 .. Len(found) : k < l => d[k] < d[l]
  BY <1>1, DistinctIs
<1>3. /\ fit \in Seq(Heard)
      /\ \E e \in [1 .. Len(fit) -> 1 .. Len(found)] :
           /\ \A k \in 1 .. Len(fit) : fit[k] = found[e[k]] /\ (way.allow \/ ~IsPrivate(found[e[k]]))
           /\ \A k, l \in 1 .. Len(fit) : k < l => e[k] < e[l]
      /\ (\E i \in 1 .. Len(found) : way.allow \/ ~IsPrivate(found[i])) => Len(fit) # 0
  BY <1>2, AllowedIs
<1> HIDE DEF found, fit
<1>4. PICK d \in [1 .. Len(found) -> 1 .. Len(answer)] :
           /\ \A k \in 1 .. Len(found) : found[k] = answer[d[k]] /\ \A z \in 1 .. d[k] - 1 : answer[z] # answer[d[k]]
           /\ \A k, l \in 1 .. Len(found) : k < l => d[k] < d[l]
  BY <1>2
<1>5. PICK e \in [1 .. Len(fit) -> 1 .. Len(found)] :
           /\ \A k \in 1 .. Len(fit) : fit[k] = found[e[k]] /\ (way.allow \/ ~IsPrivate(found[e[k]]))
           /\ \A k, l \in 1 .. Len(fit) : k < l => e[k] < e[l]
  BY <1>3
<1> DEFINE w == [k \in 1 .. Len(fit) |-> d[e[k]]]
<1>6. w \in [1 .. Len(fit) -> 1 .. Len(answer)]
  BY <1>4, <1>5
<1>7. ASSUME NEW k \in 1 .. Len(fit)
      PROVE  /\ fit[k] = answer[w[k]] /\ (\A z \in 1 .. w[k] - 1 : answer[z] # fit[k])
             /\ way.allow \/ ~IsPrivate(fit[k])
             /\ \E i \in 1 .. Len(found) : fit[k] = found[i]
  <2>1. e[k] \in 1 .. Len(found) /\ fit[k] = found[e[k]] /\ (way.allow \/ ~IsPrivate(fit[k]))
    BY <1>5
  <2>2. found[e[k]] = answer[d[e[k]]] /\ \A z \in 1 .. d[e[k]] - 1 : answer[z] # answer[d[e[k]]]
    BY <1>4, <2>1
  <2>3. w[k] = d[e[k]]
    OBVIOUS
  <2> HIDE DEF w
  <2> QED  BY <2>1, <2>2, <2>3
<1>8. ASSUME NEW k \in 1 .. Len(fit), NEW l \in 1 .. Len(fit), k < l PROVE w[k] < w[l]
  BY <1>4, <1>5, <1>8
<1> HIDE DEF w
<1> QED  BY <1>2, <1>3, <1>6, <1>7, <1>8 DEF found, fit

\* The order in which they are tried.
InTurns(o) ==
  /\ o \in Seq(Heard) /\ Len(o) = Len(Allowed(Distinct(answer))) /\ o[1] = Allowed(Distinct(answer))[1]
  /\ \A k, l \in 1 .. Len(o) : k < l /\ o[k].v6 = o[k + 1].v6 => o[l].v6 = o[k].v6
  /\ \E w \in [1 .. Len(o) -> 1 .. Len(answer)] :
       /\ \A k \in 1 .. Len(o) :
            /\ o[k] = answer[w[k]] /\ (\A z \in 1 .. w[k] - 1 : answer[z] # o[k])
            /\ way.allow \/ ~IsPrivate(o[k])
            /\ \E i \in 1 .. Len(Distinct(answer)) : o[k] = Distinct(answer)[i]
       /\ \A k, l \in 1 .. Len(o) : k < l /\ o[k].v6 = o[l].v6 => w[k] < w[l]

LEMMA OrderIs ==
  ASSUME DialTypes, Len(Allowed(Distinct(answer))) # 0
  PROVE  InTurns(Interleaved(Allowed(Distinct(answer))))
<1> DEFINE found == Distinct(answer)
           fit == Allowed(found)
           o == Interleaved(fit)
<1>1. /\ fit \in Seq(Heard) /\ Len(fit) # 0
      /\ \E w \in [1 .. Len(fit) -> 1 .. Len(answer)] :
                  /\ \A k \in 1 .. Len(fit) :
                       /\ fit[k] = answer[w[k]] /\ (\A z \in 1 .. w[k] - 1 : answer[z] # fit[k])
                       /\ way.allow \/ ~IsPrivate(fit[k])
                       /\ \E i \in 1 .. Len(found) : fit[k] = found[i]
                  /\ \A k, l \in 1 .. Len(fit) : k < l => w[k] < w[l]
  BY FitIs
<1> HIDE DEF found, fit
<1>2. Len(fit) \in Nat /\ \A i \in 1 .. Len(fit) : fit[i] \in Heard
  BY <1>1, ElementOfSeq, LenProperties
<1>3. \A i \in 1 .. Len(fit) : fit[i].v6 \in BOOLEAN
  BY <1>2, Given DEF IsAddress
<1>4. /\ o \in Seq(Heard) /\ Len(o) = Len(fit) /\ o[1] = fit[1]
      /\ \A k, l \in 1 .. Len(fit) : k < l /\ o[k].v6 = o[k + 1].v6 => o[l].v6 = o[k].v6
      /\ \E q \in [1 .. Len(fit) -> 1 .. Len(fit)] :
           /\ \A k \in 1 .. Len(fit) : o[k] = fit[q[k]]
           /\ \A k, l \in 1 .. Len(fit) : k < l /\ o[k].v6 = o[l].v6 => q[k] < q[l]
  BY <1>1, <1>3, InterleavedIs
<1> HIDE DEF o
<1>5. PICK v \in [1 .. Len(fit) -> 1 .. Len(answer)] :
        /\ \A k \in 1 .. Len(fit) :
             /\ fit[k] = answer[v[k]] /\ (\A z \in 1 .. v[k] - 1 : answer[z] # fit[k])
             /\ way.allow \/ ~IsPrivate(fit[k])
             /\ \E i \in 1 .. Len(found) : fit[k] = found[i]
        /\ \A k, l \in 1 .. Len(fit) : k < l => v[k] < v[l]
  BY <1>1
<1>6. PICK q \in [1 .. Len(fit) -> 1 .. Len(fit)] :
           /\ \A k \in 1 .. Len(fit) : o[k] = fit[q[k]]
           /\ \A k, l \in 1 .. Len(fit) : k < l /\ o[k].v6 = o[l].v6 => q[k] < q[l]
  BY <1>4
<1> DEFINE w == [k \in 1 .. Len(fit) |-> v[q[k]]]
<1>7. w \in [1 .. Len(fit) -> 1 .. Len(answer)]
  BY <1>5, <1>6
<1>8. ASSUME NEW k \in 1 .. Len(fit)
      PROVE  /\ o[k] = answer[w[k]] /\ (\A z \in 1 .. w[k] - 1 : answer[z] # o[k])
             /\ way.allow \/ ~IsPrivate(o[k])
             /\ \E i \in 1 .. Len(found) : o[k] = found[i]
  <2>1. q[k] \in 1 .. Len(fit) /\ o[k] = fit[q[k]] /\ w[k] = v[q[k]]
    BY <1>6
  <2> HIDE DEF w
  <2> QED  BY <1>5, <2>1
<1>9. ASSUME NEW k \in 1 .. Len(fit), NEW l \in 1 .. Len(fit), k < l, o[k].v6 = o[l].v6 PROVE w[k] < w[l]
  BY <1>5, <1>6, <1>9
<1> HIDE DEF w
<1>10. PICK n : n = Len(fit)
  OBVIOUS
<1>11. /\ w \in [1 .. n -> 1 .. Len(answer)]
       /\ \A k \in 1 .. n :
            /\ o[k] = answer[w[k]] /\ (\A z \in 1 .. w[k] - 1 : answer[z] # o[k])
            /\ way.allow \/ ~IsPrivate(o[k])
            /\ \E i \in 1 .. Len(found) : o[k] = found[i]
       /\ \A k, l \in 1 .. n : k < l /\ o[k].v6 = o[l].v6 => w[k] < w[l]
  BY <1>7, <1>8, <1>9, <1>10
<1>12. /\ o \in Seq(Heard) /\ Len(o) = Len(fit) /\ o[1] = fit[1] /\ Len(fit) \in Nat /\ Len(o) = n
       /\ \A k, l \in 1 .. n : k < l /\ o[k].v6 = o[k + 1].v6 => o[l].v6 = o[k].v6
  BY <1>2, <1>4, <1>10
<1> QED  BY ONLY <1>11, <1>12 DEF InTurns, found, fit, o

\* Where an open direct connection leads, and in which order the addresses were tried.
LEMMA OrderTells ==
  ASSUME DialInv
  PROVE  LeadsOut /\ TakesTurns
<1> DEFINE o == hopes.order
           found == Distinct(answer)
<1>1. DialTypes /\ OrderKnown /\ PlaceKnown
  BY DEF DialInv
<1>2. o \in Seq(Heard) /\ DOMAIN answer = 1 .. Len(answer) /\ DOMAIN found = 1 .. Len(found)
  BY <1>1, Given, FitIs, LenProperties DEF DialTypes
<1>3. DOMAIN o = 1 .. Len(o) /\ Len(o) \in Nat /\ \A k \in 1 .. Len(o) : o[k] \in Heard
  BY <1>2, LenProperties, ElementOfSeq
<1>4. CASE o = <<>>
  <2>1. DOMAIN o = {} /\ Len(o) = 0
    BY <1>4
  <2>2. LeadsOut
    BY <1>1, <2>1 DEF LeadsOut, PlaceKnown
  <2>3. TakesTurns
    BY <1>4, <2>1 DEF TakesTurns
  <2> QED  BY <2>2, <2>3
<1>5. CASE o # <<>>
  <2>1. /\ Len(Allowed(found)) # 0 /\ o = Interleaved(Allowed(found))
        /\ way.mine => \A i \in 1 .. Len(found) : ~IsSelf(found[i])
    BY <1>1, <1>2, <1>5 DEF OrderKnown
  <2>2. /\ Len(o) = Len(Allowed(found)) /\ o[1] = Allowed(found)[1]
        /\ \A k, l \in 1 .. Len(o) : k < l /\ o[k].v6 = o[k + 1].v6 => o[l].v6 = o[k].v6
        /\ \E w \in [1 .. Len(o) -> 1 .. Len(answer)] :
             /\ \A k \in 1 .. Len(o) :
                  /\ o[k] = answer[w[k]] /\ (\A z \in 1 .. w[k] - 1 : answer[z] # o[k])
                  /\ way.allow \/ ~IsPrivate(o[k])
                  /\ \E i \in 1 .. Len(found) : o[k] = found[i]
             /\ \A k, l \in 1 .. Len(o) : k < l /\ o[k].v6 = o[l].v6 => w[k] < w[l]
    <3>1. InTurns(o)
      BY <1>1, <2>1, OrderIs
    <3> HIDE DEF o
    <3> QED  BY <3>1 DEF InTurns
  <2> HIDE DEF o, found
  <2>3. PICK w \in [1 .. Len(o) -> 1 .. Len(answer)] :
          /\ \A k \in 1 .. Len(o) :
               /\ o[k] = answer[w[k]] /\ (\A z \in 1 .. w[k] - 1 : answer[z] # o[k])
               /\ way.allow \/ ~IsPrivate(o[k])
               /\ \E i \in 1 .. Len(found) : o[k] = found[i]
          /\ \A k, l \in 1 .. Len(o) : k < l /\ o[k].v6 = o[l].v6 => w[k] < w[l]
    BY <2>2
  <2>4. LeadsOut
    <3> SUFFICES ASSUME way.route = "direct", dialer.end = "open"
                 PROVE  LET a == o[dialer.to]
                        IN  /\ \E i \in DOMAIN answer : answer[i] = a
                            /\ ~(way.mine /\ IsSelf(a))
                            /\ ~way.allow => a.leads = "out" \/ (a.form = "gateway" /\ a.leads = "ours")
      BY DEF LeadsOut, o
    <3>1. dialer.to \in 1 .. Len(o) /\ (way.allow \/ ~IsOwnOrOnLink(o[dialer.to]))
      BY <1>1, <1>3 DEF PlaceKnown, o
    <3>2. PICK a : a = o[dialer.to]
      OBVIOUS
    <3>3. /\ w[dialer.to] \in 1 .. Len(answer) /\ a = answer[w[dialer.to]] /\ a \in Heard
          /\ way.allow \/ (~IsPrivate(a) /\ ~IsOwnOrOnLink(a))
          /\ \E i \in 1 .. Len(found) : a = found[i]
      <4>1. PICK k \in 1 .. Len(o) : k = dialer.to
        BY <3>1
      <4>2. o[k] = a /\ w[k] \in 1 .. Len(answer) /\ o[k] = answer[w[k]] /\ o[k] \in Heard
        BY <1>3, <2>3, <3>2, <4>1
      <4>3. way.allow \/ ~IsPrivate(o[k])
        BY <2>3
      <4>4. \E i \in 1 .. Len(found) : o[k] = found[i]
        BY <2>3
      <4> QED  BY <3>1, <4>1, <4>2, <4>3, <4>4
    <3>4. ~(way.mine /\ IsSelf(a))
      BY <2>1, <3>3
    <3>5. IsAddress(a)
      BY <1>1, <3>3, Given
    <3>6. ~way.allow => a.leads = "out" \/ (a.form = "gateway" /\ a.leads = "ours")
      BY <3>3, <3>5 DEF IsAddress, IsPrivate, IsOwnOrOnLink, Embeds
    <3> QED  BY <1>2, <3>2, <3>3, <3>4, <3>6
  <2>5. TakesTurns
    <3>1. ASSUME NEW i \in 1 .. Len(o) - 1, o[i].v6 = o[i + 1].v6, NEW j \in i + 1 .. Len(o)
          PROVE  o[j].v6 = o[i].v6
      <4>1. i \in 1 .. Len(o) /\ j \in 1 .. Len(o) /\ i < j
        BY <1>3
      <4> QED  BY <2>2, <3>1, <4>1
    <3>2. ASSUME NEW i \in 1 .. Len(o), NEW j \in 1 .. Len(o), i < j, o[i].v6 = o[j].v6
          PROVE  \E x, y \in 1 .. Len(answer) : answer[x] = o[i] /\ answer[y] = o[j] /\ \A z \in 1 .. x : answer[z] # o[j]
      <4>1. /\ w[i] \in 1 .. Len(answer) /\ w[j] \in 1 .. Len(answer) /\ w[i] < w[j]
            /\ answer[w[i]] = o[i] /\ answer[w[j]] = o[j]
            /\ \A z \in 1 .. w[j] - 1 : answer[z] # o[j]
        BY <2>3, <3>2
      <4>2. \A z \in 1 .. w[i] : z \in 1 .. w[j] - 1
        BY <4>1
      <4> QED  BY <4>1, <4>2
    <3>3. /\ \A i \in 1 .. Len(o) - 1 : o[i].v6 = o[i + 1].v6 => \A j \in i + 1 .. Len(o) : o[j].v6 = o[i].v6
          /\ o # <<>> => o[1] = Allowed(found)[1] /\ Len(o) = Len(Allowed(found))
          /\ \A i, j \in DOMAIN o : i < j /\ o[i].v6 = o[j].v6 =>
               \E x, y \in DOMAIN answer : answer[x] = o[i] /\ answer[y] = o[j] /\ \A z \in 1 .. x : answer[z] # o[j]
      <4>1. \A i \in 1 .. Len(o) - 1 : o[i].v6 = o[i + 1].v6 => \A j \in i + 1 .. Len(o) : o[j].v6 = o[i].v6
        BY <3>1
      <4>2. \A i, j \in 1 .. Len(o) : i < j /\ o[i].v6 = o[j].v6 =>
              \E x, y \in 1 .. Len(answer) : answer[x] = o[i] /\ answer[y] = o[j] /\ \A z \in 1 .. x : answer[z] # o[j]
        BY <3>2
      <4>3. DOMAIN o = 1 .. Len(o) /\ DOMAIN answer = 1 .. Len(answer)
        BY <1>2, <1>3
      <4>4. o[1] = Allowed(found)[1] /\ Len(o) = Len(Allowed(found))
        BY <2>2
      <4>5. ASSUME NEW i \in DOMAIN o, NEW j \in DOMAIN o, i < j, o[i].v6 = o[j].v6
            PROVE  \E x, y \in DOMAIN answer : answer[x] = o[i] /\ answer[y] = o[j] /\ \A z \in 1 .. x : answer[z] # o[j]
        <5>1. i \in 1 .. Len(o) /\ j \in 1 .. Len(o)
          BY <4>3
        <5>2. PICK x \in 1 .. Len(answer), y \in 1 .. Len(answer) :
                answer[x] = o[i] /\ answer[y] = o[j] /\ \A z \in 1 .. x : answer[z] # o[j]
          BY <4>2, <4>5, <5>1
        <5>3. x \in DOMAIN answer /\ y \in DOMAIN answer
          BY ONLY <4>3, <5>2
        <5> QED  BY ONLY <5>2, <5>3
      <4> QED  BY ONLY <4>1, <4>4, <4>5
    <3> QED  BY <3>3 DEF TakesTurns, o, found
  <2> QED  BY <2>4, <2>5
<1> QED  BY <1>4, <1>5

\* A failure is told by a reason that is true.
Reason(end) ==
  /\ end \in Failures
  /\ end = "socks_reply" => offer.rep # 0 /\ Told("target")
  /\ end = "socks_auth" => ~offer.pass /\ Told("password")
  /\ end = "cut" => cut
  /\ end = "upstream_closed" => line.peer # "open" /\ ~cut
  /\ end = "private_address" =>
       ~way.allow /\ \E i \in DOMAIN answer : answer[i].leads # "out" \/ answer[i].form = "local"

LEMMA EndsKeep ==
  ASSUME DialInv, dialer.at # "ended", NEW end, Reason(end), NEW l,
         l \in Lines,
         l.taken <= l.heard, l.named <= l.heard, l.kept <= Wanted, l.peer = line.peer,
         end \notin {"cut", "internal"} => l.named = l.heard,
         Settles(end), line' = l, UNCHANGED <<given, hopes, said, cut>>
  PROVE  DialInv'
<1>1. DialTypes /\ OrderKnown /\ PlaceKnown /\ LineKnown /\ TalkKnown /\ HandshakeIsApart /\ ReasonsAreTrue
  BY DEF DialInv
<1>2. /\ dialer' = [dialer EXCEPT !.at = "ended", !.end = end]
      /\ way' = way /\ answer' = answer /\ offer' = offer /\ hopes' = hopes /\ said' = said /\ cut' = cut
  BY DEF Settles, given
<1>3. dialer'.at = "ended" /\ dialer'.end = end /\ dialer'.to = dialer.to /\ end \notin {"none", "open"}
  BY <1>1, <1>2 DEF DialTypes, Reason, Failures
<1>4. DialTypes'
  <2>1. Heard' = Heard
    BY <1>2 DEF Heard
  <2>2. dialer' \in [at : Stages, end : Failures \cup {"none", "open"}, last : Failures \cup {"none"}, to : Nat]
    BY <1>1, <1>2 DEF DialTypes, Reason, Stages
  <2> QED  BY <1>1, <1>2, <2>1, <2>2 DEF DialTypes
<1>5. OrderKnown'
  BY <1>1, <1>2 DEF OrderKnown, Allowed
<1>6. PlaceKnown'
  BY <1>1, <1>2, <1>3 DEF PlaceKnown
<1>7. LineKnown'
  BY <1>1, <1>2, <1>3 DEF LineKnown, Wanted
<1>8. TalkKnown'
  BY <1>3 DEF TalkKnown
<1>9. HandshakeIsApart'
  BY <1>1, <1>2, <1>3 DEF HandshakeIsApart
<1>10. ReasonsAreTrue'
  BY <1>1, <1>2, <1>3 DEF ReasonsAreTrue, Reason, Told, Wanted
<1> QED  BY <1>4, <1>5, <1>6, <1>7, <1>8, <1>9, <1>10 DEF DialInv

LEMMA FailsKeeps ==
  ASSUME DialInv, dialer.at # "ended", NEW end, Reason(end), FailsWith(end)
  PROVE  DialInv'
<1>1. DialTypes /\ LineKnown /\ HandshakeIsApart
  BY DEF DialInv
<1>2. PICK l : l = [line EXCEPT !.named = line.heard]
  OBVIOUS
<1>3. /\ l \in Lines
      /\ l.taken <= l.heard /\ l.named <= l.heard /\ l.kept <= Wanted /\ l.peer = line.peer /\ l.named = l.heard
  BY <1>1, <1>2 DEF DialTypes, Lines, LineKnown, HandshakeIsApart
<1>4. Settles(end) /\ line' = l /\ UNCHANGED <<given, hopes, said, cut>>
  BY <1>2 DEF FailsWith
<1> QED  BY <1>3, <1>4, EndsKeep

LEMMA TearsKeeps ==
  ASSUME DialInv, dialer.at # "ended", cut, Tears
  PROVE  DialInv'
<1>1. DialTypes /\ LineKnown /\ HandshakeIsApart
  BY DEF DialInv
<1>2. /\ line \in Lines
      /\ line.taken <= line.heard /\ line.named <= line.heard /\ line.kept <= Wanted
  BY <1>1 DEF DialTypes, Lines, LineKnown, HandshakeIsApart
<1>3. Reason("cut")
  BY DEF Reason, Failures
<1>4. Settles("cut") /\ line' = line /\ UNCHANGED <<given, hopes, said, cut>>
  BY DEF Tears
<1> QED  BY <1>2, <1>3, <1>4, EndsKeep

LEMMA StreamEndsKeeps ==
  ASSUME DialInv, dialer.at # "ended", Gone, StreamEnds
  PROVE  DialInv'
<1>1. CASE cut
  BY <1>1, TearsKeeps DEF StreamEnds
<1>2. CASE ~cut
  <2>1. Reason("upstream_closed")
    BY <1>2 DEF Reason, Gone, Failures
  <2> QED  BY <1>2, <2>1, FailsKeeps DEF StreamEnds
<1> QED  BY <1>1, <1>2

\* A request is said: the connection is lost, or the next place is reached.
LEMMA SaysKeeps ==
  ASSUME DialInv, way.route = "socks5", NEW what \in Requested, NEW l, NEW at,
         at \in {"method", "status", "reply"},
         dialer.at \in {"speaks", "method", "status"},
         l \in Lines,
         l.taken <= l.heard, l.named <= l.heard, l.kept <= Wanted, l.peer = line.peer,
         at = "method" => l.taken = 0 /\ l.named = 0,
         at = "status" => l.taken = 1 /\ l.named = 1 /\ way.creds = "fit" /\ what = "password",
         at = "reply" => l.taken = (IF way.creds = "fit" THEN 2 ELSE 1) /\ l.named = l.taken /\ what = "target",
         what = "password" => way.creds = "fit" /\ offer.version /\ offer.method = "password",
         what = "target" => IF way.creds = "fit" THEN offer.pass ELSE offer.version /\ offer.method = "none",
         Says(what, l, at)
  PROVE  DialInv'
<1>1. DialTypes /\ OrderKnown /\ PlaceKnown /\ LineKnown /\ TalkKnown /\ HandshakeIsApart /\ ReasonsAreTrue
  BY DEF DialInv
<1>2. dialer.at # "ended" /\ dialer.end = "none"
  BY <1>1 DEF PlaceKnown
<1>3. CASE cut \/ Dead
  <2>1. Breaks(l)
    BY <1>3 DEF Says
  <2>2. CASE way.kind = "connect"
    <3>1. FailsWith(IF cut THEN "cut" ELSE "client_closed")
      BY <2>1, <2>2 DEF Breaks
    <3>2. Reason(IF cut THEN "cut" ELSE "client_closed")
      BY DEF Reason, Failures
    <3> QED  BY <1>2, <3>1, <3>2, FailsKeeps
  <2>3. CASE way.kind # "connect"
    <3>1. /\ Settles(IF cut THEN "cut" ELSE "internal") /\ line' = l /\ UNCHANGED <<given, hopes, said, cut>>
      BY <2>1, <2>3 DEF Breaks
    <3>2. Reason(IF cut THEN "cut" ELSE "internal")
      BY DEF Reason, Failures
    <3> QED  BY <1>2, <3>1, <3>2, EndsKeep
  <2> QED  BY <2>2, <2>3
<1>4. CASE ~(cut \/ Dead)
  <2>1. /\ said' = Append(said, what) /\ line' = l /\ dialer' = [dialer EXCEPT !.at = at]
        /\ way' = way /\ answer' = answer /\ offer' = offer /\ hopes' = hopes /\ cut' = cut
    BY <1>4 DEF Says, given
  <2>2. dialer'.at = at /\ dialer'.end = "none" /\ dialer'.to = dialer.to
    BY <1>1, <1>2, <2>1 DEF DialTypes
  <2>3. said \in Seq(Requested) /\ \A other : Told(other)' <=> Told(other) \/ other = what
    <3>1. said \in Seq(Requested)
      BY <1>1 DEF DialTypes
    <3> QED  BY <2>1, <3>1 DEF Told
  <2>4. DialTypes'
    <3>1. Heard' = Heard
      BY <2>1 DEF Heard
    <3>2. dialer' \in [at : Stages, end : Failures \cup {"none", "open"}, last : Failures \cup {"none"}, to : Nat]
      BY <1>1, <2>1 DEF DialTypes, Stages
    <3>3. said' \in Seq(Requested)
      BY <2>1, <2>3
    <3> QED  BY <1>1, <2>1, <3>1, <3>2, <3>3 DEF DialTypes
  <2>5. OrderKnown'
    BY <1>1, <2>1 DEF OrderKnown, Allowed
  <2>6. PlaceKnown'
    BY <1>1, <2>1, <2>2 DEF PlaceKnown
  <2>7. LineKnown'
    BY <1>1, <2>1, <2>2 DEF LineKnown, Wanted
  <2>8. TalkKnown'
    BY <2>1, <2>2, <2>3 DEF TalkKnown
  <2>9. HandshakeIsApart'
    BY <2>1, <2>2 DEF HandshakeIsApart
  <2>10. ReasonsAreTrue'
    <3>1. /\ Told("password") => way.creds = "fit" /\ offer.version /\ offer.method = "password"
          /\ Told("target") => IF way.creds = "fit" THEN offer.pass ELSE offer.version /\ offer.method = "none"
      BY <1>1 DEF ReasonsAreTrue, Told
    <3>2. /\ Told("password")' => way.creds = "fit" /\ offer.version /\ offer.method = "password"
          /\ Told("target")' => IF way.creds = "fit" THEN offer.pass ELSE offer.version /\ offer.method = "none"
      BY <2>3, <3>1
    <3> QED  BY <2>1, <2>2, <3>2 DEF ReasonsAreTrue, Told
  <2> QED  BY <2>4, <2>5, <2>6, <2>7, <2>8, <2>9, <2>10 DEF DialInv
<1> QED  BY <1>3, <1>4

\* A step that leaves the dialing open.
LEMMA GoesOnKeeps ==
  ASSUME DialInv, dialer.at # "ended", NEW at, NEW l, NEW h,
         way.route = "direct" => at \in {"begins", "tries"},
         way.route = "socks5" => at \in {"begins", "speaks", "method", "status", "reply", "bound"},
         way.route = "http-connect" => at \in {"begins", "speaks", "head", "body"},
         l \in Lines, l.taken <= l.heard, l.named <= l.heard,
         h \in [order : Seq(Heard), tried : SUBSET Nat],
         dialer' = [dialer EXCEPT !.at = at], line' = l, hopes' = h,
         UNCHANGED <<given, said>>, cut' \in BOOLEAN,
         OrderKnown', LineKnown', TalkKnown'
  PROVE  DialInv'
<1>1. DialTypes /\ PlaceKnown /\ HandshakeIsApart /\ ReasonsAreTrue
  BY DEF DialInv
<1>2. way' = way /\ answer' = answer /\ offer' = offer /\ said' = said
  BY DEF given
<1>3. dialer'.at = at /\ dialer'.end = "none" /\ at \in Stages /\ at # "ended"
  BY <1>1, Given DEF DialTypes, PlaceKnown, Stages, IsWay
<1>4. DialTypes'
  <2>1. Heard' = Heard
    BY <1>2 DEF Heard
  <2>2. dialer' \in [at : Stages, end : Failures \cup {"none", "open"}, last : Failures \cup {"none"}, to : Nat]
    BY <1>1, <1>3 DEF DialTypes
  <2> QED  BY <1>1, <1>2, <2>1, <2>2 DEF DialTypes
<1>5. PlaceKnown'
  BY <1>2, <1>3 DEF PlaceKnown
<1>6. HandshakeIsApart'
  BY <1>2, <1>3 DEF HandshakeIsApart
<1>7. ReasonsAreTrue'
  BY <1>1, <1>2, <1>3 DEF ReasonsAreTrue
<1> QED  BY <1>4, <1>5, <1>6, <1>7 DEF DialInv

\* The connection is there.
LEMMA OpensKeeps ==
  ASSUME DialInv, way.route # "direct", dialer.at # "ended", NEW l, l \in Lines, l.kept = line.kept,
         l.taken <= l.heard, l.named <= l.heard,
         way.route = "http-connect" => l.taken = 1 /\ l.named = 1,
         way.route = "socks5" =>
           l.taken = (IF way.creds = "fit" THEN 4 ELSE 3) /\ l.named = l.taken /\ offer.rep = 0 /\ offer.bound,
         Settles("open"), line' = l, UNCHANGED <<given, hopes, said, cut>>
  PROVE  DialInv'
<1>1. DialTypes /\ OrderKnown /\ PlaceKnown /\ LineKnown /\ TalkKnown /\ HandshakeIsApart /\ ReasonsAreTrue
  BY DEF DialInv
<1>2. /\ dialer' = [dialer EXCEPT !.at = "ended", !.end = "open"]
      /\ way' = way /\ answer' = answer /\ offer' = offer /\ hopes' = hopes /\ said' = said /\ cut' = cut
  BY DEF Settles, given
<1>3. dialer'.at = "ended" /\ dialer'.end = "open"
  BY <1>1, <1>2 DEF DialTypes
<1>4. DialTypes'
  <2>1. Heard' = Heard
    BY <1>2 DEF Heard
  <2>2. dialer' \in [at : Stages, end : Failures \cup {"none", "open"}, last : Failures \cup {"none"}, to : Nat]
    BY <1>1, <1>2 DEF DialTypes, Stages
  <2> QED  BY <1>1, <1>2, <2>1, <2>2 DEF DialTypes
<1>5. OrderKnown'
  BY <1>1, <1>2 DEF OrderKnown, Allowed
<1>6. PlaceKnown'
  BY <1>1, <1>2, <1>3 DEF PlaceKnown
<1>7. LineKnown'
  BY <1>1, <1>2, <1>3 DEF LineKnown, Wanted
<1>8. TalkKnown'
  BY <1>3 DEF TalkKnown
<1>9. HandshakeIsApart'
  BY <1>1, <1>2, <1>3 DEF HandshakeIsApart
<1>10. ReasonsAreTrue'
  <2>1. l.kept <= Wanted
    BY <1>1 DEF LineKnown
  <2> QED  BY <1>1, <1>2, <1>3, <2>1 DEF ReasonsAreTrue, Wanted
<1> QED  BY <1>4, <1>5, <1>6, <1>7, <1>8, <1>9, <1>10 DEF DialInv

-----------------------------------------------------------------------------
LEMMA ResolvesKeeps ==
  ASSUME DialInv, Resolves
  PROVE  DialInv'
<1> DEFINE found == Distinct(answer)
           fit == Allowed(found)
           self == \E i \in DOMAIN found : IsSelf(found[i])
<1>1. DialTypes /\ OrderKnown /\ PlaceKnown /\ LineKnown /\ TalkKnown /\ HandshakeIsApart /\ ReasonsAreTrue
  BY DEF DialInv
<1>2. dialer.at = "begins" /\ way.route = "direct"
  BY DEF Resolves
<1>3. /\ found \in Seq(Heard) /\ fit \in Seq(Heard)
      /\ (\E i \in 1 .. Len(found) : way.allow \/ ~IsPrivate(found[i])) => Len(fit) # 0
  BY <1>1, FitIs
<1>4. IF found = <<>> THEN FailsWith("dns")
      ELSE IF way.mine /\ self THEN FailsWith("self_loop")
      ELSE IF fit = <<>> THEN FailsWith("private_address")
      ELSE /\ hopes' = [hopes EXCEPT !.order = Interleaved(fit)]
           /\ dialer' = [dialer EXCEPT !.at = "tries"]
           /\ UNCHANGED <<given, line, said, cut>>
  BY DEF Resolves
<1>5. CASE found = <<>>
  <2>1. Reason("dns")
    BY DEF Reason, Failures
  <2> QED  BY <1>2, <1>4, <1>5, <2>1, FailsKeeps
<1>6. CASE found # <<>> /\ way.mine /\ self
  <2>1. Reason("self_loop")
    BY DEF Reason, Failures
  <2> QED  BY <1>2, <1>4, <1>6, <2>1, FailsKeeps
<1>7. CASE found # <<>> /\ ~(way.mine /\ self) /\ fit = <<>>
  <2>1. Len(fit) = 0
    BY <1>7
  <2> HIDE DEF found, fit
  <2>2. Len(found) \in Nat /\ Len(found) # 0
    BY <1>3, <1>7
  <2>3. 1 \in 1 .. Len(found) /\ found[1] \in Heard
    BY <1>3, <2>2, ElementOfSeq
  <2>4. ~way.allow /\ IsPrivate(found[1])
    BY <1>3, <2>1, <2>3
  <2>5. found[1].leads # "out" \/ found[1].form = "local"
    BY <2>4 DEF IsPrivate
  <2>6. \E i \in DOMAIN answer : answer[i] = found[1]
    BY <2>3 DEF Heard
  <2>7. Reason("private_address")
    BY <2>4, <2>5, <2>6 DEF Reason, Failures
  <2> QED  BY <1>2, <1>4, <1>7, <2>7, FailsKeeps
<1>8. CASE found # <<>> /\ ~(way.mine /\ self) /\ fit # <<>>
  <2>1. /\ hopes' = [hopes EXCEPT !.order = Interleaved(fit)]
        /\ dialer' = [dialer EXCEPT !.at = "tries"]
        /\ way' = way /\ answer' = answer /\ offer' = offer /\ line' = line /\ said' = said /\ cut' = cut
    BY <1>4, <1>8 DEF given
  <2>2. Len(fit) # 0
    <3> HIDE DEF fit
    <3> QED  BY <1>3, <1>8
  <2>3. Interleaved(fit) \in Seq(Heard)
    BY <1>1, <2>2, OrderIs DEF InTurns
  <2>4. PICK h : h = [hopes EXCEPT !.order = Interleaved(fit)]
    OBVIOUS
  <2>5. h \in [order : Seq(Heard), tried : SUBSET Nat] /\ hopes' = h /\ h.order = Interleaved(fit)
    <3> HIDE DEF fit
    <3> QED  BY <1>1, <2>1, <2>3, <2>4 DEF DialTypes
  <2>6. OrderKnown'
    BY <1>8, <2>1, <2>2, <2>5 DEF OrderKnown, Allowed
  <2>7. LineKnown'
    BY <1>1, <1>2, <2>1 DEF LineKnown, Wanted, DialTypes
  <2>8. TalkKnown'
    BY <1>1, <2>1 DEF TalkKnown, DialTypes
  <2>9. line \in Lines /\ line.taken <= line.heard /\ line.named <= line.heard /\ cut \in BOOLEAN
    BY <1>1 DEF DialTypes, HandshakeIsApart
  <2>10. UNCHANGED <<given, said>>
    BY <2>1 DEF given
  <2> HIDE DEF found, fit
  <2> QED  BY <1>2, <2>1, <2>5, <2>6, <2>7, <2>8, <2>9, <2>10, GoesOnKeeps
<1> QED  BY <1>5, <1>6, <1>7, <1>8

LEMMA AttemptFailsKeeps ==
  ASSUME DialInv, NEW i \in Untried,
         NEW why \in {"connect_refused", "connect_timeout", "local_limit", "private_address"}, AttemptFails(i, why)
  PROVE  DialInv'
<1>1. DialTypes /\ OrderKnown /\ PlaceKnown /\ LineKnown /\ TalkKnown /\ HandshakeIsApart /\ ReasonsAreTrue
  BY DEF DialInv
<1>2. /\ dialer.at = "tries" /\ (why = "private_address" => ~way.allow /\ IsOwnOrOnLink(hopes.order[i]))
      /\ hopes' = [hopes EXCEPT !.tried = @ \cup {i}]
      /\ dialer' = IF Untried = {i} THEN [dialer EXCEPT !.at = "ended", !.end = why, !.last = why]
                   ELSE [dialer EXCEPT !.last = why]
      /\ way' = way /\ answer' = answer /\ offer' = offer /\ line' = line /\ said' = said /\ cut' = cut
  BY DEF AttemptFails, given
<1>3. DOMAIN hopes.order = 1 .. Len(hopes.order) /\ i \in 1 .. Len(hopes.order)
  BY <1>1, LenProperties DEF DialTypes, Untried
<1>4. hopes.order[i] \in Heard
  BY <1>1, <1>3, ElementOfSeq DEF DialTypes
<1>5. hopes' \in [order : Seq(Heard), tried : SUBSET Nat] /\ hopes'.order = hopes.order
  BY <1>1, <1>2, <1>3 DEF DialTypes
<1>6. why = "private_address" =>
        ~way.allow /\ \E k \in DOMAIN answer : answer[k].leads # "out" \/ answer[k].form = "local"
  <2> SUFFICES ASSUME why = "private_address"
               PROVE  ~way.allow /\ \E k \in DOMAIN answer : answer[k].leads # "out" \/ answer[k].form = "local"
    OBVIOUS
  <2>1. ~way.allow /\ hopes.order[i].leads # "out"
    BY <1>2 DEF IsOwnOrOnLink
  <2> QED  BY <1>4, <2>1 DEF Heard
<1>7. /\ dialer' \in [at : Stages, end : Failures \cup {"none", "open"}, last : Failures \cup {"none"}, to : Nat]
      /\ (dialer'.at = "tries" /\ dialer'.end = "none") \/ (dialer'.at = "ended" /\ dialer'.end = why)
  <2>1. dialer.end = "none" /\ why \in Failures
    BY <1>1, <1>2 DEF PlaceKnown, Failures
  <2>2. CASE Untried = {i}
    <3>1. dialer' = [dialer EXCEPT !.at = "ended", !.end = why, !.last = why]
      BY <1>2, <2>2
    <3> QED  BY <1>1, <2>1, <3>1 DEF DialTypes, Stages
  <2>3. CASE Untried # {i}
    <3>1. dialer' = [dialer EXCEPT !.last = why]
      BY <1>2, <2>3
    <3>2. dialer'.at = "tries" /\ dialer'.end = "none"
      BY <1>1, <1>2, <2>1, <3>1 DEF DialTypes
    <3>3. dialer \in [at : Stages, end : Failures \cup {"none", "open"}, last : Failures \cup {"none"}, to : Nat]
      BY <1>1 DEF DialTypes
    <3>4. why \in Failures \cup {"none"}
      BY <2>1
    <3>5. dialer' \in [at : Stages, end : Failures \cup {"none", "open"}, last : Failures \cup {"none"}, to : Nat]
      BY ONLY <3>1, <3>3, <3>4
    <3> QED  BY ONLY <3>2, <3>5
  <2> QED  BY <2>2, <2>3
<1>8. DialTypes'
  <2>1. Heard' = Heard
    BY <1>2 DEF Heard
  <2> QED  BY <1>1, <1>2, <1>5, <1>7, <2>1 DEF DialTypes
<1>9. OrderKnown'
  BY <1>1, <1>2, <1>5 DEF OrderKnown, Allowed
<1>10. PlaceKnown'
  BY <1>1, <1>2, <1>7 DEF PlaceKnown
<1>11. LineKnown'
  BY <1>1, <1>2, <1>7 DEF LineKnown, Wanted
<1>12. TalkKnown'
  BY <1>7 DEF TalkKnown
<1>13. HandshakeIsApart'
  <2>1. way.route = "direct" /\ line.taken = 0 /\ line.named = 0 /\ line.heard = 0
    BY <1>1, <1>2, Given DEF PlaceKnown, LineKnown, DialTypes, Lines, IsWay
  <2> QED  BY <1>1, <1>2, <1>7, <2>1 DEF HandshakeIsApart
<1>14. ReasonsAreTrue'
  BY <1>1, <1>2, <1>6, <1>7 DEF ReasonsAreTrue, LineKnown, Wanted
<1> QED  BY <1>8, <1>9, <1>10, <1>11, <1>12, <1>13, <1>14 DEF DialInv

LEMMA AttemptWinsKeeps ==
  ASSUME DialInv, NEW i \in Untried, AttemptWins(i)
  PROVE  DialInv'
<1>1. DialTypes /\ OrderKnown /\ PlaceKnown /\ LineKnown /\ TalkKnown /\ HandshakeIsApart /\ ReasonsAreTrue
  BY DEF DialInv
<1>2. /\ dialer.at = "tries" /\ (way.allow \/ ~IsOwnOrOnLink(hopes.order[i]))
      /\ dialer' = [dialer EXCEPT !.at = "ended", !.end = IF cut THEN "cut" ELSE "open", !.to = i]
      /\ way' = way /\ answer' = answer /\ offer' = offer /\ line' = line /\ said' = said /\ cut' = cut /\ hopes' = hopes
  BY DEF AttemptWins, given
<1>3. i \in DOMAIN hopes.order /\ i \in Nat
  BY <1>1, LenProperties DEF DialTypes, Untried
<1>4. way.route = "direct"
  BY <1>1, <1>2, Given DEF PlaceKnown, IsWay
<1>5. /\ dialer' \in [at : Stages, end : Failures \cup {"none", "open"}, last : Failures \cup {"none"}, to : Nat]
      /\ dialer'.at = "ended" /\ dialer'.end = (IF cut THEN "cut" ELSE "open") /\ dialer'.to = i
  BY <1>1, <1>2, <1>3 DEF DialTypes, Stages, Failures
<1>6. DialTypes'
  <2>1. Heard' = Heard
    BY <1>2 DEF Heard
  <2> QED  BY <1>1, <1>2, <1>5, <2>1 DEF DialTypes
<1>7. OrderKnown'
  BY <1>1, <1>2 DEF OrderKnown, Allowed
<1>8. PlaceKnown'
  BY <1>2, <1>3, <1>4, <1>5 DEF PlaceKnown, IsOwnOrOnLink
<1>9. LineKnown'
  BY <1>1, <1>2, <1>5 DEF LineKnown, Wanted
<1>10. TalkKnown'
  BY <1>5 DEF TalkKnown
<1>11. HandshakeIsApart'
  BY <1>1, <1>2, <1>4, <1>5 DEF HandshakeIsApart
<1>12. ReasonsAreTrue'
  BY <1>1, <1>2, <1>4, <1>5 DEF ReasonsAreTrue, LineKnown, Wanted
<1> QED  BY <1>6, <1>7, <1>8, <1>9, <1>10, <1>11, <1>12 DEF DialInv

LEMMA DialsKeeps ==
  ASSUME DialInv, Dials
  PROVE  DialInv'
<1>1. DialTypes /\ OrderKnown /\ PlaceKnown /\ LineKnown /\ TalkKnown /\ HandshakeIsApart
  BY DEF DialInv
<1>2. dialer.at = "begins" /\ way.route # "direct"
  BY DEF Dials
<1>3. ASSUME NEW end \in {"socks_auth_unsupported", "upstream_unreachable", "upstream_timeout", "local_limit", "self_loop"},
             FailsWith(end)
      PROVE  DialInv'
  <2>1. Reason(end)
    BY DEF Reason, Failures
  <2> QED  BY <1>2, <1>3, <2>1, FailsKeeps
<1>4. CASE cut /\ Tears
  BY <1>2, <1>4, TearsKeeps
<1>5. CASE /\ dialer' = [dialer EXCEPT !.at = "speaks"]
           /\ UNCHANGED <<given, hopes, line, said, cut>>
  <2>1. way' = way /\ answer' = answer /\ offer' = offer /\ UNCHANGED <<given, said>>
    BY <1>5 DEF given
  <2>2. /\ hopes' = hopes /\ hopes \in [order : Seq(Heard), tried : SUBSET Nat] /\ cut' \in BOOLEAN
        /\ line' = line /\ line \in Lines /\ line.taken <= line.heard /\ line.named <= line.heard
    BY <1>1, <1>5 DEF DialTypes, HandshakeIsApart
  <2>3. OrderKnown'
    BY <1>1, <2>1, <2>2 DEF OrderKnown, Allowed
  <2>4. dialer'.at = "speaks" /\ way.route \in {"socks5", "http-connect"}
    BY <1>1, <1>2, <1>5, Given DEF DialTypes, IsWay
  <2>5. LineKnown' /\ TalkKnown'
    BY <1>1, <1>2, <2>1, <2>2, <2>4 DEF LineKnown, TalkKnown, Wanted
  <2> QED  BY <1>2, <1>5, <2>1, <2>2, <2>3, <2>4, <2>5, GoesOnKeeps
<1> QED  BY <1>3, <1>4, <1>5 DEF Dials

\* A part of the handshake is read.
LEMMA PartIsRead ==
  ASSUME DialInv, Here
  PROVE  /\ ReadsPart \in Lines /\ ReadsPart.taken = line.taken + 1 /\ ReadsPart.named = line.named + 1
         /\ ReadsPart.heard = line.heard /\ ReadsPart.kept = line.kept /\ ReadsPart.peer = line.peer
         /\ ReadsPart.kept <= Wanted /\ ReadsPart.taken <= ReadsPart.heard
         /\ line.named = line.taken => ReadsPart.named <= ReadsPart.heard
<1>1. line \in Lines /\ line.taken <= line.heard /\ line.named <= line.heard /\ line.kept <= Wanted
  BY DEF DialInv, DialTypes, HandshakeIsApart, LineKnown
<1>2. PICK n \in Nat : n = line.taken + 1
  BY <1>1 DEF Lines
<1>3. PICK m \in Nat : m = line.named + 1
  BY <1>1 DEF Lines
<1>4. ReadsPart = [line EXCEPT !.taken = n, !.named = m]
  BY <1>2, <1>3 DEF ReadsPart
<1>5. /\ ReadsPart \in Lines /\ ReadsPart.taken = n /\ ReadsPart.named = m
      /\ ReadsPart.heard = line.heard /\ ReadsPart.kept = line.kept /\ ReadsPart.peer = line.peer
  BY <1>1, <1>4 DEF Lines
<1>6. line.heard \in Nat /\ line.taken \in Nat /\ line.heard > line.taken
  BY <1>1 DEF Here, Lines
<1> QED  BY <1>1, <1>2, <1>3, <1>5, <1>6

LEMMA SocksKeeps ==
  ASSUME DialInv, Greets \/ Method \/ Accepted \/ Reply \/ Bound \/ Cuts
  PROVE  DialInv'
<1>1. DialTypes /\ OrderKnown /\ PlaceKnown /\ LineKnown /\ TalkKnown /\ HandshakeIsApart
  BY DEF DialInv
<1>2. \A end \in {"upstream_protocol", "socks_method"} : Reason(end)
  BY DEF Reason, Failures
<1>3. line \in Lines /\ line.taken <= line.heard /\ line.named <= line.heard /\ line.kept <= Wanted
  BY <1>1 DEF DialTypes, HandshakeIsApart, LineKnown
<1>4. dialer.at \in {"method", "status", "reply", "bound"} => way.route = "socks5" /\ dialer.at # "ended"
  BY <1>1, Given DEF PlaceKnown, IsWay
<1>5. CASE Greets
  <2>1. dialer.at = "speaks" /\ way.route = "socks5" /\ Says("hello", line, "method")
    BY <1>5 DEF Greets
  <2>2. line.taken = 0 /\ line.named = 0 /\ "hello" \in Requested
    BY <1>1, <2>1 DEF LineKnown, Requested
  <2> QED  BY <1>3, <2>1, <2>2, SaysKeeps
<1>6. CASE Method
  <2>1. /\ dialer.at = "method" /\ Here
        /\ IF ~offer.version THEN FailsWith("upstream_protocol")
           ELSE IF offer.method # (IF way.creds = "fit" THEN "password" ELSE "none") THEN FailsWith("socks_method")
           ELSE IF way.creds = "fit" THEN Says("password", ReadsPart, "status")
           ELSE Says("target", ReadsPart, "reply")
    BY <1>6 DEF Method
  <2>2. CASE FailsWith("upstream_protocol") \/ FailsWith("socks_method")
    BY <1>2, <1>4, <2>1, <2>2, FailsKeeps
  <2>3. way.route = "socks5" /\ line.taken = 0 /\ line.named = 0 /\ "password" \in Requested /\ "target" \in Requested
    BY <1>1, <1>4, <2>1 DEF LineKnown, Requested
  <2>4. /\ ReadsPart \in Lines /\ ReadsPart.taken = 1 /\ ReadsPart.named = 1 /\ ReadsPart.kept <= Wanted
        /\ ReadsPart.peer = line.peer /\ ReadsPart.taken <= ReadsPart.heard /\ ReadsPart.named <= ReadsPart.heard
    BY <2>1, <2>3, PartIsRead
  <2>5. CASE offer.version /\ offer.method = "password" /\ way.creds = "fit" /\ Says("password", ReadsPart, "status")
    BY <2>1, <2>3, <2>4, <2>5, SaysKeeps
  <2>6. CASE offer.version /\ offer.method = "none" /\ way.creds # "fit" /\ Says("target", ReadsPart, "reply")
    BY <2>1, <2>3, <2>4, <2>6, SaysKeeps
  <2> QED  BY <2>1, <2>2, <2>5, <2>6
<1>7. CASE Accepted
  <2>1. /\ dialer.at = "status" /\ Here
        /\ IF ~offer.pass THEN FailsWith("socks_auth") ELSE Says("target", ReadsPart, "reply")
    BY <1>7 DEF Accepted
  <2>2. way.route = "socks5" /\ line.taken = 1 /\ line.named = 1 /\ way.creds = "fit" /\ Told("password")
    BY <1>1, <1>4, <2>1 DEF LineKnown, TalkKnown
  <2>3. CASE ~offer.pass
    <3>1. Reason("socks_auth")
      BY <2>2, <2>3 DEF Reason, Failures
    <3> QED  BY <1>4, <2>1, <2>3, <3>1, FailsKeeps
  <2>4. CASE offer.pass
    <3>1. /\ ReadsPart \in Lines /\ ReadsPart.taken = 2 /\ ReadsPart.named = 2 /\ ReadsPart.kept <= Wanted
          /\ ReadsPart.peer = line.peer /\ ReadsPart.taken <= ReadsPart.heard /\ ReadsPart.named <= ReadsPart.heard
      BY <2>1, <2>2, PartIsRead
    <3>2. "target" \in Requested
      BY DEF Requested
    <3> QED  BY <2>1, <2>2, <2>4, <3>1, <3>2, SaysKeeps
  <2> QED  BY <2>3, <2>4
<1>8. CASE Reply
  <2>1. dialer.at = "reply" /\ Here
    BY <1>8 DEF Reply
  <2>2. way.route = "socks5" /\ line.taken = (IF way.creds = "fit" THEN 2 ELSE 1) /\ line.named = line.taken /\ Told("target")
    BY <1>1, <1>4, <2>1 DEF LineKnown, TalkKnown
  <2>3. CASE offer.bound
    <3>1. /\ dialer' = [dialer EXCEPT !.at = "bound"] /\ line' = ReadsPart
          /\ way' = way /\ answer' = answer /\ offer' = offer /\ hopes' = hopes /\ said' = said /\ cut' = cut
      BY <1>8, <2>3 DEF Reply, given
    <3>2. /\ ReadsPart \in Lines /\ ReadsPart.taken = (IF way.creds = "fit" THEN 3 ELSE 2)
          /\ ReadsPart.named = ReadsPart.taken /\ ReadsPart.kept <= Wanted
          /\ ReadsPart.taken <= ReadsPart.heard /\ ReadsPart.named <= ReadsPart.heard
      BY <1>3, <2>1, <2>2, PartIsRead DEF Lines
    <3>3. OrderKnown'
      BY <1>1, <3>1 DEF OrderKnown, Allowed
    <3>4. dialer'.at = "bound"
      BY <1>1, <3>1 DEF DialTypes
    <3>5. LineKnown'
      BY <3>1, <3>2, <3>4 DEF LineKnown, Wanted
    <3>6. TalkKnown'
      BY <2>2, <2>3, <3>1, <3>4 DEF TalkKnown, Told
    <3>7. hopes \in [order : Seq(Heard), tried : SUBSET Nat] /\ cut' \in BOOLEAN /\ UNCHANGED <<given, said>>
      BY <1>1, <3>1 DEF DialTypes, given
    <3> QED  BY <1>4, <2>1, <2>2, <3>1, <3>2, <3>3, <3>5, <3>6, <3>7, GoesOnKeeps
  <2>4. CASE ~offer.bound
    <3>1. FailsWith(IF offer.rep = 0 THEN "upstream_protocol" ELSE "socks_reply")
      BY <1>8, <2>4 DEF Reply
    <3>2. Reason(IF offer.rep = 0 THEN "upstream_protocol" ELSE "socks_reply")
      BY <2>2 DEF Reason, Failures
    <3> QED  BY <1>4, <2>1, <3>1, <3>2, FailsKeeps
  <2> QED  BY <2>3, <2>4
<1>9. CASE Bound
  <2>1. dialer.at = "bound" /\ Here
    BY <1>9 DEF Bound
  <2>2. /\ way.route = "socks5" /\ line.taken = (IF way.creds = "fit" THEN 3 ELSE 2) /\ line.named = line.taken
        /\ Told("target") /\ offer.bound
    BY <1>1, <1>4, <2>1 DEF LineKnown, TalkKnown
  <2>3. CASE offer.rep # 0
    <3>1. Reason("socks_reply")
      BY <2>2, <2>3 DEF Reason, Failures
    <3> QED  BY <1>4, <1>9, <2>1, <2>3, <3>1, FailsKeeps DEF Bound
  <2>4. CASE offer.rep = 0
    <3>1. Settles("open") /\ line' = ReadsPart /\ UNCHANGED <<given, hopes, said, cut>>
      BY <1>9, <2>4 DEF Bound
    <3>2. /\ ReadsPart \in Lines /\ ReadsPart.taken = (IF way.creds = "fit" THEN 4 ELSE 3)
          /\ ReadsPart.named = ReadsPart.taken /\ ReadsPart.kept = line.kept
          /\ ReadsPart.taken <= ReadsPart.heard /\ ReadsPart.named <= ReadsPart.heard
      BY <1>3, <2>1, <2>2, PartIsRead DEF Lines
    <3> QED  BY <1>4, <2>1, <2>2, <2>4, <3>1, <3>2, OpensKeeps
  <2> QED  BY <2>3, <2>4
<1>10. CASE Cuts
  <2>1. /\ dialer.at \in {"method", "status", "reply", "bound"} /\ Gone
        /\ IF dialer.at = "bound" /\ offer.rep # 0 /\ ~cut THEN FailsWith("socks_reply") ELSE StreamEnds
    BY <1>10 DEF Cuts
  <2>2. CASE dialer.at = "bound" /\ offer.rep # 0 /\ ~cut
    <3>1. Reason("socks_reply")
      BY <1>1, <2>2 DEF Reason, TalkKnown, Failures
    <3> QED  BY <1>4, <2>1, <2>2, <3>1, FailsKeeps
  <2>3. CASE ~(dialer.at = "bound" /\ offer.rep # 0 /\ ~cut)
    BY <1>4, <2>1, <2>3, StreamEndsKeeps
  <2> QED  BY <2>2, <2>3
<1> QED  BY <1>5, <1>6, <1>7, <1>8, <1>9, <1>10

\* A refusal ends, whatever of its body there is.
LEMMA BodyEndsKeeps ==
  ASSUME DialInv, dialer.at = "body", NEW kept \in Nat, kept <= Wanted, BodyEnds(kept)
  PROVE  DialInv'
<1>1. line \in Lines /\ line.taken <= line.heard /\ line.named <= line.heard
  BY DEF DialInv, DialTypes, HandshakeIsApart
<1>2. PICK l : l = [line EXCEPT !.kept = kept, !.named = line.heard]
  OBVIOUS
<1>3. /\ l \in Lines /\ l.taken <= l.heard /\ l.named <= l.heard /\ l.kept <= Wanted /\ l.peer = line.peer
      /\ l.named = l.heard
  <2>1. /\ l \in Lines /\ l.taken = line.taken /\ l.heard = line.heard /\ l.named = line.heard /\ l.kept = kept
        /\ l.peer = line.peer
    BY <1>1, <1>2 DEF Lines
  <2>2. line.heard \in Nat
    BY <1>1 DEF Lines
  <2> QED  BY <1>1, <2>1, <2>2
<1>4. Settles("upstream_status") /\ line' = l /\ UNCHANGED <<given, hopes, said, cut>>
  BY <1>2 DEF BodyEnds
<1>5. Reason("upstream_status")
  BY DEF Reason, Failures
<1> QED  BY <1>3, <1>4, <1>5, EndsKeep

LEMMA HttpKeeps ==
  ASSUME DialInv, AsksToConnect \/ ReadsHead \/ HeadIsCut \/ ReadsPiece \/ BodyIsRead \/ BodyTimesOut
  PROVE  DialInv'
<1>1. DialTypes /\ OrderKnown /\ PlaceKnown /\ LineKnown /\ TalkKnown /\ HandshakeIsApart /\ ReasonsAreTrue
  BY DEF DialInv
<1>2. line \in Lines /\ line.taken <= line.heard /\ line.named <= line.heard /\ line.kept <= Wanted /\ Wanted \in Nat
  BY <1>1, Given DEF DialTypes, HandshakeIsApart, LineKnown
<1>3. dialer.at \in {"head", "body"} => way.route = "http-connect" /\ dialer.at # "ended"
  BY <1>1, Given DEF PlaceKnown, IsWay
<1>4. hopes \in [order : Seq(Heard), tried : SUBSET Nat] /\ cut \in BOOLEAN
  BY <1>1 DEF DialTypes
<1>5. CASE AsksToConnect
  <2>1. dialer.at = "speaks" /\ way.route = "http-connect"
    BY <1>5 DEF AsksToConnect
  <2>2. CASE cut
    BY <1>5, <2>1, <2>2, TearsKeeps DEF AsksToConnect
  <2>3. CASE ~cut /\ Dead
    <3>1. Reason("upstream_closed")
      BY <2>3 DEF Reason, Failures, Dead
    <3> QED  BY <1>5, <2>1, <2>3, <3>1, FailsKeeps DEF AsksToConnect
  <2>4. CASE ~cut /\ ~Dead
    <3>1. /\ said' = Append(said, "target") /\ dialer' = [dialer EXCEPT !.at = "head"]
          /\ way' = way /\ answer' = answer /\ offer' = offer /\ hopes' = hopes /\ line' = line /\ cut' = cut
      BY <1>5, <2>4 DEF AsksToConnect, given
    <3>2. dialer'.at = "head" /\ dialer'.end = "none"
      BY <1>1, <2>1, <3>1 DEF DialTypes, PlaceKnown
    <3>3. DialTypes'
      <4>1. Heard' = Heard
        BY <3>1 DEF Heard
      <4>2. dialer' \in [at : Stages, end : Failures \cup {"none", "open"}, last : Failures \cup {"none"}, to : Nat]
        BY <1>1, <3>1 DEF DialTypes, Stages
      <4>3. said' \in Seq(Requested)
        BY <1>1, <3>1 DEF DialTypes, Requested
      <4> QED  BY <1>1, <3>1, <4>1, <4>2, <4>3 DEF DialTypes
    <3>4. OrderKnown'
      BY <1>1, <3>1 DEF OrderKnown, Allowed
    <3>5. PlaceKnown'
      BY <2>1, <3>1, <3>2 DEF PlaceKnown
    <3>6. LineKnown'
      BY <1>1, <2>1, <3>1, <3>2 DEF LineKnown, Wanted
    <3>7. TalkKnown'
      BY <3>2 DEF TalkKnown
    <3>8. HandshakeIsApart'
      BY <1>1, <3>1, <3>2 DEF HandshakeIsApart
    <3>9. ReasonsAreTrue'
      <4>1. said \in Seq(Requested)
        BY <1>1 DEF DialTypes
      <4>2. Told("password")' <=> Told("password")
        BY <3>1, <4>1 DEF Told
      <4>3. Told("password") => way.creds = "fit" /\ offer.version /\ offer.method = "password"
        BY <1>1 DEF ReasonsAreTrue, Told
      <4>4. Told("password")' => way.creds = "fit" /\ offer.version /\ offer.method = "password"
        BY <4>2, <4>3
      <4> QED  BY <2>1, <3>1, <3>2, <4>4 DEF ReasonsAreTrue, Told
    <3> QED  BY <3>3, <3>4, <3>5, <3>6, <3>7, <3>8, <3>9 DEF DialInv
  <2> QED  BY <2>2, <2>3, <2>4
<1>6. CASE ReadsHead
  <2>1. dialer.at = "head" /\ Here /\ way.route = "http-connect" /\ line.taken = 0 /\ line.named = 0
    BY <1>1, <1>3, <1>6 DEF ReadsHead, LineKnown
  <2>2. /\ ReadsPart \in Lines /\ ReadsPart.taken = 1 /\ ReadsPart.named = 1 /\ ReadsPart.kept = line.kept
        /\ ReadsPart.kept <= Wanted /\ ReadsPart.taken <= ReadsPart.heard /\ ReadsPart.named <= ReadsPart.heard
    BY <2>1, PartIsRead
  <2>3. offer.head \in {"ok", "refused", "bare", "junk", "long"}
    BY <1>1, Given DEF IsOffer
  <2>4. CASE FailsWith("upstream_protocol") \/ FailsWith("upstream_status")
    <3>1. Reason("upstream_protocol") /\ Reason("upstream_status")
      BY DEF Reason, Failures
    <3> QED  BY <2>1, <2>4, <3>1, FailsKeeps
  <2>5. CASE Settles("open") /\ line' = ReadsPart /\ UNCHANGED <<given, hopes, said, cut>>
    BY <2>1, <2>2, <2>5, OpensKeeps
  <2>6. CASE dialer' = [dialer EXCEPT !.at = "body"] /\ line' = ReadsPart /\ UNCHANGED <<given, hopes, said, cut>>
    <3>1. way' = way /\ answer' = answer /\ offer' = offer /\ hopes' = hopes /\ said' = said /\ cut' = cut
      BY <2>6 DEF given
    <3>2. OrderKnown'
      BY <1>1, <3>1 DEF OrderKnown, Allowed
    <3>3. dialer'.at = "body"
      BY <1>1, <2>6 DEF DialTypes
    <3>4. LineKnown' /\ TalkKnown'
      BY <2>2, <2>6, <3>1, <3>3 DEF LineKnown, TalkKnown, Wanted
    <3>5. UNCHANGED <<given, said>> /\ cut' \in BOOLEAN
      BY <1>4, <2>6
    <3> QED  BY <1>4, <2>1, <2>2, <2>6, <3>1, <3>2, <3>4, <3>5, GoesOnKeeps
  <2> QED  BY <1>6, <2>3, <2>4, <2>5, <2>6 DEF ReadsHead
<1>7. CASE HeadIsCut
  BY <1>3, <1>7, StreamEndsKeeps DEF HeadIsCut
<1>8. CASE ReadsPiece
  <2>1. /\ dialer.at = "body" /\ Here /\ line.kept < Wanted
        /\ line' = [line EXCEPT !.taken = @ + 1, !.kept = @ + 1]
        /\ way' = way /\ answer' = answer /\ offer' = offer /\ hopes' = hopes /\ dialer' = dialer /\ said' = said /\ cut' = cut
    BY <1>8 DEF ReadsPiece, given
  <2>2. PICK n \in Nat : n = line.taken + 1
    BY <1>2 DEF Lines
  <2>3. PICK m \in Nat : m = line.kept + 1
    BY <1>2 DEF Lines
  <2>4. line' = [line EXCEPT !.taken = n, !.kept = m]
    BY <2>1, <2>2, <2>3
  <2>5. /\ line' \in Lines /\ line'.taken = n /\ line'.kept = m /\ line'.heard = line.heard
        /\ line'.named = line.named /\ line'.peer = line.peer
    BY ONLY <1>2, <2>2, <2>3, <2>4 DEF Lines
  <2>6. n <= line.heard /\ m <= Wanted
    BY <1>2, <2>1, <2>2, <2>3 DEF Lines, Here
  <2>7. OrderKnown'
    BY <1>1, <2>1 DEF OrderKnown, Allowed
  <2>8. LineKnown'
    BY <1>1, <2>1, <2>5, <2>6 DEF LineKnown, Wanted
  <2>9. TalkKnown'
    BY <2>1 DEF TalkKnown
  <2>10. dialer' = [dialer EXCEPT !.at = "body"]
    BY <1>1, <2>1 DEF DialTypes
  <2>11. UNCHANGED <<given, said>> /\ cut' \in BOOLEAN /\ hopes' = hopes
    BY <1>4, <2>1 DEF given
  <2>12. line'.taken <= line'.heard /\ line'.named <= line'.heard
    BY <1>2, <2>5, <2>6
  <2>13. PICK l : l = line'
    OBVIOUS
  <2> QED  BY <1>3, <1>4, <2>1, <2>5, <2>7, <2>8, <2>9, <2>10, <2>11, <2>12, <2>13, GoesOnKeeps
<1>9. CASE BodyIsRead \/ BodyTimesOut
  <2>1. dialer.at = "body"
    BY <1>9 DEF BodyIsRead, BodyTimesOut
  <2>2. 0 \in Nat /\ 0 <= Wanted /\ line.kept \in Nat
    BY <1>2 DEF Lines
  <2>3. BodyEnds(0) \/ BodyEnds(line.kept)
    BY <1>9 DEF BodyIsRead, BodyTimesOut
  <2> QED  BY <1>2, <2>1, <2>2, <2>3, BodyEndsKeeps
<1> QED  BY <1>5, <1>6, <1>7, <1>8, <1>9

\* The peer, the clock and the meter.
LEMMA AroundKeeps ==
  ASSUME DialInv, Comes \/ PeerEnds \/ Expires \/ CutsTunnel \/ ResolverFails \/ OutOfTime
  PROVE  DialInv'
<1>1. DialTypes /\ OrderKnown /\ PlaceKnown /\ LineKnown /\ TalkKnown /\ HandshakeIsApart /\ ReasonsAreTrue
  BY DEF DialInv
<1>2. line \in Lines /\ line.taken <= line.heard /\ line.named <= line.heard
  BY <1>1 DEF DialTypes, HandshakeIsApart
<1>3. hopes \in [order : Seq(Heard), tried : SUBSET Nat] /\ cut \in BOOLEAN
  BY <1>1 DEF DialTypes
<1>4. ASSUME NEW end \in {"upstream_timeout", "connect_timeout", "local_limit", "dns"},
             dialer.at # "ended", FailsWith(end)
      PROVE  DialInv'
  <2>1. Reason(end)
    BY DEF Reason, Failures
  <2> QED  BY <1>4, <2>1, FailsKeeps
<1>5. CASE Expires \/ ResolverFails \/ OutOfTime
  <2>1. dialer.at # "ended"
    BY <1>5 DEF Expires, ResolverFails, OutOfTime, Awaits
  <2>2. FailsWith("upstream_timeout") \/ FailsWith("connect_timeout") \/ FailsWith("local_limit") \/ FailsWith("dns")
    BY <1>5 DEF Expires, ResolverFails, OutOfTime
  <2> QED  BY <1>4, <2>1, <2>2
<1>6. ASSUME UNCHANGED <<given, hopes, dialer, said>>, dialer.at # "ended", line' \in Lines, cut' \in BOOLEAN,
             line'.heard = line.heard \/ (Speaking /\ line'.heard > line.heard),
             line'.taken = line.taken, line'.named = line.named, line'.kept = line.kept
      PROVE  DialInv'
  <2>1. way' = way /\ answer' = answer /\ offer' = offer /\ hopes' = hopes /\ dialer' = dialer /\ said' = said
    BY <1>6 DEF given
  <2>2. dialer' = [dialer EXCEPT !.at = dialer.at]
    BY <1>1, <2>1 DEF DialTypes
  <2>3. OrderKnown'
    BY <1>1, <2>1 DEF OrderKnown, Allowed
  <2>4. LineKnown'
    BY <1>1, <1>6, <2>1 DEF LineKnown, Wanted, Speaking
  <2>5. TalkKnown'
    BY <1>1, <2>1 DEF TalkKnown, Told
  <2>6. line'.taken <= line'.heard /\ line'.named <= line'.heard
    BY <1>2, <1>6 DEF Lines
  <2>7. /\ way.route = "direct" => dialer.at \in {"begins", "tries"}
        /\ way.route = "socks5" => dialer.at \in {"begins", "speaks", "method", "status", "reply", "bound"}
        /\ way.route = "http-connect" => dialer.at \in {"begins", "speaks", "head", "body"}
    BY <1>1, <1>6 DEF PlaceKnown
  <2>8. PICK l : l = line'
    OBVIOUS
  <2> QED  BY <1>3, <1>6, <2>1, <2>2, <2>3, <2>4, <2>5, <2>6, <2>7, <2>8, GoesOnKeeps
<1>7. CASE Comes
  <2>1. Speaking /\ line' = [line EXCEPT !.heard = @ + 1] /\ UNCHANGED <<given, hopes, dialer, said, cut>>
    BY <1>7 DEF Comes
  <2>2. PICK n \in Nat : n = line.heard + 1
    BY <1>2 DEF Lines
  <2>3. line' = [line EXCEPT !.heard = n]
    BY <2>1, <2>2
  <2>4. /\ line' \in Lines /\ line'.heard = n /\ line'.taken = line.taken /\ line'.named = line.named
        /\ line'.kept = line.kept
    BY ONLY <1>2, <2>2, <2>3 DEF Lines
  <2>5. dialer.at # "ended" /\ n > line.heard
    BY <1>2, <2>1, <2>2 DEF Speaking, Lines
  <2> QED  BY <1>3, <1>6, <2>1, <2>4, <2>5
<1>8. CASE PeerEnds \/ CutsTunnel
  <2>1. PICK peer \in {"open", "eof", "resets", "reset"} : line' = [line EXCEPT !.peer = peer]
    <3>1. line = [line EXCEPT !.peer = line.peer] /\ line.peer \in {"open", "eof", "resets", "reset"}
      BY <1>2 DEF Lines
    <3> QED  BY <1>8, <3>1 DEF PeerEnds, CutsTunnel
  <2>2. dialer.at # "ended" /\ UNCHANGED <<given, hopes, dialer, said>> /\ cut' \in BOOLEAN
    BY <1>3, <1>8 DEF PeerEnds, CutsTunnel, Speaking
  <2>3. /\ line' \in Lines /\ line'.heard = line.heard /\ line'.taken = line.taken /\ line'.named = line.named
        /\ line'.kept = line.kept
    BY <1>2, <2>1 DEF Lines
  <2> QED  BY <1>6, <2>2, <2>3
<1> QED  BY <1>5, <1>7, <1>8

LEMMA DialInvHolds == DialSpec => []DialInv
<1>1. InitDial => DialInv
  <2> SUFFICES ASSUME InitDial PROVE DialInv
    OBVIOUS
  <2> USE DEF InitDial
  <2>1. DialTypes
    <3>1. <<>> \in Seq(Heard) /\ <<>> \in Seq(Requested)
      OBVIOUS
    <3>2. hopes \in [order : Seq(Heard), tried : SUBSET Nat]
      BY <3>1
    <3>3. line \in Lines
      BY DEF Lines
    <3>4. dialer \in [at : Stages, end : Failures \cup {"none", "open"}, last : Failures \cup {"none"}, to : Nat]
      BY DEF Stages
    <3> QED  BY <3>1, <3>2, <3>3, <3>4 DEF DialTypes
  <2>2. Wanted \in Nat
    BY <2>1, Given
  <2>3. OrderKnown /\ PlaceKnown /\ TalkKnown /\ HandshakeIsApart
    BY DEF OrderKnown, PlaceKnown, TalkKnown, HandshakeIsApart
  <2>4. LineKnown
    BY <2>2 DEF LineKnown
  <2>5. ReasonsAreTrue
    BY DEF ReasonsAreTrue
  <2> QED  BY <2>1, <2>3, <2>4, <2>5 DEF DialInv
<1>2. DialInv /\ [NextDial]_dialVars => DialInv'
  <2> SUFFICES ASSUME DialInv, [NextDial]_dialVars PROVE DialInv'
    OBVIOUS
  <2>1. CASE Resolves
    BY <2>1, ResolvesKeeps
  <2>2. CASE Dials
    BY <2>2, DialsKeeps
  <2>3. ASSUME NEW i \in Untried, AttemptWins(i) PROVE DialInv'
    BY <2>3, AttemptWinsKeeps
  <2>4. ASSUME NEW i \in Untried, NEW why \in {"connect_refused", "connect_timeout", "local_limit", "private_address"},
               AttemptFails(i, why)
        PROVE  DialInv'
    BY <2>4, AttemptFailsKeeps
  <2>5. CASE Greets \/ Method \/ Accepted \/ Reply \/ Bound \/ Cuts
    BY <2>5, SocksKeeps
  <2>6. CASE AsksToConnect \/ ReadsHead \/ HeadIsCut \/ ReadsPiece \/ BodyIsRead \/ BodyTimesOut
    BY <2>6, HttpKeeps
  <2>7. CASE Comes \/ PeerEnds \/ Expires \/ CutsTunnel \/ ResolverFails \/ OutOfTime
    BY <2>7, AroundKeeps
  <2>8. CASE UNCHANGED dialVars
    BY <2>8 DEF dialVars, DialInv, DialTypes, Heard, OrderKnown, Allowed, PlaceKnown, LineKnown, Wanted, TalkKnown,
         Told, HandshakeIsApart, ReasonsAreTrue
  <2> QED  BY <2>1, <2>2, <2>3, <2>4, <2>5, <2>6, <2>7, <2>8 DEF NextDial
<1> QED  BY <1>1, <1>2, PTL DEF DialSpec

\* A connection leads where it may, its addresses are tried in turns, the handshake is told
\* from the payload, and the reason of a failure is the true one (upstream.py).
THEOREM DialsAreTrue == DialSpec => []DialIsTrue
<1>1. DialInv => DialIsTrue
  <2> SUFFICES ASSUME DialInv PROVE DialIsTrue
    OBVIOUS
  <2> QED  BY OrderTells DEF DialIsTrue, DialInv
<1> QED  BY <1>1, DialInvHolds, PTL

-----------------------------------------------------------------------------
(* The requests: what is picked from a list.                                *)

\* A walk has k positions up to its k-th.
LEMMA WalksByRank ==
  ASSUME NEW n \in Nat, NEW S \in SUBSET (1 .. n), NEW p, Walks(p, S), NEW k \in 1 .. Cardinality(S)
  PROVE  p[k] \in S /\ Rank(S, p[k]) = k
<1> DEFINE T == {j \in S : j <= p[k]}
           q == [l \in 1 .. k |-> p[l]]
<1>1. /\ p \in [1 .. Cardinality(S) -> S] /\ DOMAIN p = 1 .. Cardinality(S)
      /\ \A i \in S : \E l \in DOMAIN p : p[l] = i
      /\ \A l, m \in DOMAIN p : l < m => p[l] < p[m]
  BY DEF Walks
<1>2. Cardinality(S) \in Nat /\ k \in Nat
  BY RankIsStrict
<1>3. \A l \in 1 .. Cardinality(S) : p[l] \in Nat /\ p[l] \in S
  <2>1. \A i \in S : i \in Nat
    OBVIOUS
  <2>2. \A l \in 1 .. Cardinality(S) : p[l] \in S
    BY <1>1
  <2> QED  BY <2>1, <2>2
<1>4. \A l \in 1 .. k : l \in DOMAIN p /\ p[l] <= p[k]
  BY <1>1, <1>2, <1>3
<1>5. q \in [1 .. k -> T]
  BY <1>1, <1>2, <1>3, <1>4
<1>6. ASSUME NEW l \in 1 .. k, NEW m \in 1 .. k, q[l] = q[m] PROVE l = m
  BY <1>1, <1>2, <1>3, <1>4, <1>6
<1>7. ASSUME NEW j \in T PROVE \E l \in 1 .. k : q[l] = j
  <2>1. PICK m \in 1 .. Cardinality(S) : p[m] = j
    BY <1>1
  <2>2. m <= k
    BY <1>1, <1>2, <1>3, <2>1
  <2>3. m \in 1 .. k
    BY <1>2, <2>2
  <2> QED  BY <2>1, <2>3
<1> HIDE DEF q, T
<1>8. q \in Bijection(1 .. k, T)
  BY <1>5, <1>6, <1>7 DEF Bijection, Injection, Surjection, IsInjective
<1>9. Cardinality(T) = k
  BY <1>2, <1>8, FS_CountingElements DEF ExistsBijection
<1> QED  BY <1>3, <1>9 DEF Rank, T

\* Any walk says what is picked.
LEMMA PickedBy ==
  ASSUME NEW A, NEW s \in Seq(A), NEW S \in SUBSET DOMAIN s, NEW p, Walks(p, S)
  PROVE  Picked(s, S) = [k \in 1 .. Cardinality(S) |-> s[p[k]]]
<1>1. DOMAIN s = 1 .. Len(s) /\ Len(s) \in Nat
  BY LenProperties
<1>2. \A i, j \in S : i < j => Rank(S, i) < Rank(S, j)
  BY <1>1, RankIsStrict
<1>3. \A i \in S : Rank(S, i) \in Nat
  <2>1. Cardinality(S) \in Nat /\ \A i \in S : Rank(S, i) \in 1 .. Cardinality(S)
    BY <1>1, RankIsStrict
  <2> QED  BY <2>1
<1>4. ASSUME NEW k \in 1 .. Cardinality(S) PROVE (CHOOSE i \in S : Rank(S, i) = k) = p[k]
  <2>1. p[k] \in S /\ Rank(S, p[k]) = k
    BY <1>1, WalksByRank
  <2>2. ASSUME NEW i \in S, Rank(S, i) = k PROVE i = p[k]
    BY <1>1, <1>2, <1>3, <2>1, <2>2
  <2> QED  BY <2>1, <2>2
<1>5. Picked(s, S) = [k \in 1 .. Cardinality(S) |-> s[CHOOSE i \in S : Rank(S, i) = k]]
  BY DEF Picked, Rank
<1> QED  BY <1>4, <1>5

\* What r has at R is what h has at H, in the same order: m says which is which.
Copies(m, r, R, h, H) ==
  /\ m \in [R -> H] /\ \A j \in H : \E i \in R : m[i] = j
  /\ \A i, j \in R : i < j => m[i] < m[j]
  /\ \A i \in R : r[i] = h[m[i]]

\* The same entries in the same order are the same list.
LEMMA PickedAlike ==
  ASSUME NEW A, NEW h \in Seq(A), NEW r \in Seq(A), NEW H \in SUBSET DOMAIN h, NEW R \in SUBSET DOMAIN r,
         NEW m, Copies(m, r, R, h, H)
  PROVE  Picked(r, R) = Picked(h, H) /\ Cardinality(R) = Cardinality(H)
<1>0. /\ m \in [R -> H] /\ \A j \in H : \E i \in R : m[i] = j
      /\ \A i, j \in R : i < j => m[i] < m[j]
      /\ \A i \in R : r[i] = h[m[i]]
  BY DEF Copies
<1>1. DOMAIN r = 1 .. Len(r) /\ Len(r) \in Nat /\ DOMAIN h = 1 .. Len(h) /\ Len(h) \in Nat
  BY LenProperties
<1>2. /\ IsFiniteSet(R) /\ Cardinality(R) \in Nat
  BY <1>1, RankIsStrict
<1>3. PICK p : Walks(p, R)
  BY PickedWalks
<1>4. m \in Bijection(R, H)
  <2>1. ASSUME NEW i \in R, NEW j \in R, m[i] = m[j] PROVE i = j
    <3>1. i \in Nat /\ j \in Nat /\ m[i] \in Nat
      BY <1>0, <1>1
    <3> QED  BY <1>0, <2>1, <3>1
  <2> QED  BY <1>0, <2>1 DEF Bijection, Injection, Surjection, IsInjective
<1>5. Cardinality(R) = Cardinality(H)
  BY <1>2, <1>4, FS_Bijection DEF ExistsBijection
<1> DEFINE q == [k \in 1 .. Cardinality(H) |-> m[p[k]]]
<1>6. /\ p \in [1 .. Cardinality(H) -> R] /\ DOMAIN p = 1 .. Cardinality(H)
      /\ \A i \in R : \E k \in DOMAIN p : p[k] = i
      /\ \A k, l \in DOMAIN p : k < l => p[k] < p[l]
  BY <1>3, <1>5 DEF Walks
<1>7. q \in [1 .. Cardinality(H) -> H] /\ DOMAIN q = 1 .. Cardinality(H)
  BY <1>0, <1>6
<1>8. ASSUME NEW j \in H PROVE \E k \in DOMAIN q : q[k] = j
  <2>1. PICK i \in R : m[i] = j
    BY <1>0
  <2>2. PICK k \in 1 .. Cardinality(H) : p[k] = i
    BY <1>6
  <2> QED  BY <1>7, <2>1, <2>2
<1>9. ASSUME NEW k \in DOMAIN q, NEW l \in DOMAIN q, k < l PROVE q[k] < q[l]
  <2>1. p[k] < p[l] /\ p[k] \in R /\ p[l] \in R
    BY <1>6, <1>7, <1>9
  <2> QED  BY <1>0, <1>7, <2>1
<1>10. Walks(q, H)
  BY <1>7, <1>8, <1>9 DEF Walks
<1>11. \A k \in 1 .. Cardinality(H) : q[k] = m[p[k]]
  OBVIOUS
<1> HIDE DEF q
<1>12. Picked(h, H) = [k \in 1 .. Cardinality(H) |-> h[q[k]]]
  BY ONLY <1>10, h \in Seq(A), H \in SUBSET DOMAIN h, PickedBy
<1>13. Picked(r, R) = [k \in 1 .. Cardinality(H) |-> r[p[k]]]
  <2>1. Picked(r, R) = [k \in 1 .. Cardinality(R) |-> r[p[k]]]
    BY ONLY <1>3, r \in Seq(A), R \in SUBSET DOMAIN r, PickedBy
  <2> QED  BY <1>5, <2>1
<1>14. \A k \in 1 .. Cardinality(H) : r[p[k]] = h[q[k]]
  BY <1>0, <1>6, <1>11
<1> QED  BY <1>5, <1>12, <1>13, <1>14

\* What is picked is what stands there.
LEMMA PickedIs ==
  ASSUME NEW A, NEW s \in Seq(A), NEW S \in SUBSET DOMAIN s
  PROVE  /\ \A k \in DOMAIN Picked(s, S) : \E i \in S : Picked(s, S)[k] = s[i]
         /\ \A i \in S : \E k \in DOMAIN Picked(s, S) : Picked(s, S)[k] = s[i]
<1>1. PICK p : Walks(p, S) /\ \A k \in 1 .. Cardinality(S) : Picked(s, S)[k] = s[p[k]]
  BY PickedWalks
<1>2. /\ p \in [1 .. Cardinality(S) -> S] /\ DOMAIN p = 1 .. Cardinality(S)
      /\ \A i \in S : \E k \in DOMAIN p : p[k] = i
  BY <1>1 DEF Walks
<1>3. DOMAIN Picked(s, S) = 1 .. Cardinality(S)
  BY DEF Picked
<1> QED  BY <1>1, <1>2, <1>3

-----------------------------------------------------------------------------
(* The requests: what becomes of a list of headers.                         *)

Named(h, name) == {i \in DOMAIN h : h[i].name = name}
Others(h, aside) == {i \in DOMAIN h : h[i].name \notin aside}
Names(h) == {h[i].name : i \in DOMAIN h}

\* What was changed and what was left out does not show where it is set aside.
LEMMA RestThrough ==
  ASSUME NEW A, NEW h \in Seq(A), NEW g \in Seq(A), DOMAIN g = DOMAIN h, NEW K \in SUBSET DOMAIN h, NEW aside,
         \A i \in K : g[i].name \notin aside => g[i] = h[i],
         \A i \in DOMAIN h : h[i].name \notin aside => i \in K /\ g[i] = h[i]
  PROVE  Rest(Picked(g, K), aside) = Rest(h, aside)
<1> DEFINE r == Picked(g, K)
           R == Others(r, aside)
           H == Others(h, aside)
<1>1. /\ Cardinality(K) \in Nat /\ r \in Seq(A) /\ Len(r) = Cardinality(K)
      /\ \E p : Walks(p, K) /\ \A k \in 1 .. Cardinality(K) : r[k] = g[p[k]]
  BY PickedWalks
<1>2. PICK p : Walks(p, K) /\ \A k \in 1 .. Cardinality(K) : r[k] = g[p[k]]
  BY <1>1
<1>3. /\ p \in [1 .. Cardinality(K) -> K] /\ DOMAIN p = 1 .. Cardinality(K)
      /\ \A i \in K : \E k \in DOMAIN p : p[k] = i
      /\ \A k, l \in DOMAIN p : k < l => p[k] < p[l]
  BY <1>2 DEF Walks
<1> HIDE DEF r
<1>4. DOMAIN r = 1 .. Cardinality(K)
  BY <1>1, LenProperties
<1> DEFINE m == [k \in R |-> p[k]]
<1>5. \A k \in R : k \in DOMAIN p /\ p[k] \in H /\ r[k] = h[p[k]]
  <2> TAKE k \in R
  <2>1. k \in DOMAIN r /\ r[k].name \notin aside
    BY DEF Others
  <2>2. k \in DOMAIN p /\ p[k] \in K /\ r[k] = g[p[k]]
    BY <1>2, <1>3, <1>4, <2>1
  <2>3. g[p[k]] = h[p[k]]
    BY <2>1, <2>2
  <2> QED  BY <2>1, <2>2, <2>3 DEF Others
<1>6. m \in [R -> H]
  BY <1>5
<1>7. ASSUME NEW j \in H PROVE \E i \in R : m[i] = j
  <2>1. j \in K /\ g[j] = h[j] /\ h[j].name \notin aside
    BY DEF Others
  <2>2. PICK k \in 1 .. Cardinality(K) : p[k] = j
    BY <1>3, <2>1
  <2>3. k \in R
    BY <1>2, <1>4, <2>1, <2>2 DEF Others
  <2> QED  BY <2>2, <2>3
<1>8. \A i, j \in R : i < j => m[i] < m[j]
  BY <1>3, <1>5
<1>9. \A i \in R : r[i] = h[m[i]]
  BY <1>5
<1>10. H \in SUBSET DOMAIN h /\ R \in SUBSET DOMAIN r
  BY DEF Others
<1>11. r \in Seq(A)
  BY <1>1
<1> HIDE DEF m, R, H
<1>12. Copies(m, r, R, h, H)
  BY <1>6, <1>7, <1>8, <1>9 DEF Copies
<1>13. Picked(r, R) = Picked(h, H)
  BY ONLY <1>10, <1>11, <1>12, h \in Seq(A), PickedAlike
<1> QED  BY <1>13 DEF Rest, R, H, r, Others

\* Setting aside more is setting aside the rest of it.
LEMMA RestOfRest ==
  ASSUME NEW A, NEW h \in Seq(A), NEW few, NEW more, few \subseteq more
  PROVE  Rest(h, few) \in Seq(A) /\ Rest(Rest(h, few), more) = Rest(h, more)
<1> DEFINE K == Others(h, few)
<1>1. K \in SUBSET DOMAIN h /\ \A i \in DOMAIN h : h[i].name \notin more => i \in K
  BY DEF Others
<1>2. Rest(h, few) = Picked(h, K)
  BY DEF Rest, Others
<1> HIDE DEF K
<1> QED  BY <1>1, <1>2, RestThrough, PickedWalks

LEMMA RestsAgree ==
  ASSUME NEW A, NEW h \in Seq(A), NEW r \in Seq(A), NEW few, NEW more, few \subseteq more, Rest(h, few) = Rest(r, few)
  PROVE  Rest(h, more) = Rest(r, more)
<1>1. Rest(Rest(h, few), more) = Rest(h, more)
  BY RestOfRest
<1>2. Rest(Rest(r, few), more) = Rest(r, more)
  BY RestOfRest
<1> QED  BY <1>1, <1>2

\* A header that is put last, or first.
LEMMA RestOfAppend ==
  ASSUME NEW A, NEW h \in Seq(A), NEW x \in A, NEW aside, x.name \in aside
  PROVE  Rest(Append(h, x), aside) = Rest(h, aside)
<1>1. PICK r \in Seq(A) : r = Append(h, x)
  BY AppendProperties
<1>2. /\ DOMAIN h = 1 .. Len(h) /\ Len(h) \in Nat /\ DOMAIN r = 1 .. Len(h) + 1
      /\ r[Len(h) + 1] = x /\ \A i \in 1 .. Len(h) : r[i] = h[i]
  BY <1>1, AppendProperties, LenProperties
<1> DEFINE m == [i \in Others(r, aside) |-> i]
<1>3. \A i \in Others(r, aside) : i \in Others(h, aside) /\ r[i] = h[i]
  BY <1>2 DEF Others
<1>4. \A i \in Others(h, aside) : i \in Others(r, aside)
  BY <1>2 DEF Others
<1>5. Copies(m, r, Others(r, aside), h, Others(h, aside))
  BY <1>3, <1>4 DEF Copies
<1>6. Others(r, aside) \in SUBSET DOMAIN r /\ Others(h, aside) \in SUBSET DOMAIN h
  BY DEF Others
<1> HIDE DEF m
<1>7. Picked(r, Others(r, aside)) = Picked(h, Others(h, aside))
  BY <1>5, <1>6, PickedAlike
<1> QED  BY <1>1, <1>7 DEF Rest, Others

LEMMA RestOfPrepended ==
  ASSUME NEW A, NEW h \in Seq(A), NEW x \in A, NEW aside, x.name \in aside
  PROVE  <<x>> \o h \in Seq(A) /\ Rest(<<x>> \o h, aside) = Rest(h, aside)
<1>0. <<x>> \in Seq(A) /\ Len(<<x>>) = 1
  OBVIOUS
<1>1. PICK r \in Seq(A) : r = <<x>> \o h
  BY <1>0, ConcatProperties
<1>2. /\ DOMAIN h = 1 .. Len(h) /\ Len(h) \in Nat /\ DOMAIN r = 1 .. Len(h) + 1
      /\ r[1] = x /\ \A i \in 1 .. Len(h) : r[i + 1] = h[i]
  BY <1>0, <1>1, ConcatProperties, LenProperties
<1> DEFINE m == [i \in Others(r, aside) |-> i - 1]
<1>3. \A i \in Others(r, aside) : i \in Nat /\ i - 1 \in Others(h, aside) /\ r[i] = h[i - 1]
  <2> TAKE i \in Others(r, aside)
  <2>1. i \in 1 .. Len(h) + 1 /\ r[i].name \notin aside
    BY <1>2 DEF Others
  <2>2. i # 1
    BY <1>2, <2>1
  <2>3. i - 1 \in 1 .. Len(h) /\ (i - 1) + 1 = i
    BY <1>2, <2>1, <2>2
  <2>4. r[i] = h[i - 1]
    BY <1>2, <2>3
  <2> QED  BY <1>2, <2>1, <2>3, <2>4 DEF Others
<1>4. \A j \in Others(h, aside) : j \in Nat /\ j + 1 \in Others(r, aside) /\ (j + 1) - 1 = j
  BY <1>2 DEF Others
<1>5. Copies(m, r, Others(r, aside), h, Others(h, aside))
  <2>1. m \in [Others(r, aside) -> Others(h, aside)]
    BY <1>3
  <2>2. \A j \in Others(h, aside) : \E i \in Others(r, aside) : m[i] = j
    <3> TAKE j \in Others(h, aside)
    <3>1. m[j + 1] = j
      BY <1>4
    <3> QED  BY <1>4, <3>1
  <2>3. \A i, j \in Others(r, aside) : i < j => m[i] < m[j]
    BY <1>3
  <2> QED  BY <1>3, <2>1, <2>2, <2>3 DEF Copies
<1>6. Others(r, aside) \in SUBSET DOMAIN r /\ Others(h, aside) \in SUBSET DOMAIN h
  BY DEF Others
<1> HIDE DEF m
<1>7. Picked(r, Others(r, aside)) = Picked(h, Others(h, aside))
  BY <1>5, <1>6, PickedAlike
<1> QED  BY <1>1, <1>7 DEF Rest, Others

\* A name that is not set aside stands in both as often, with the same headers.
LEMMA SamePlaces ==
  ASSUME NEW A, NEW h \in Seq(A), NEW r \in Seq(A), NEW aside, Rest(h, aside) = Rest(r, aside), NEW name, name \notin aside
  PROVE  /\ Values(r, name) = Values(h, name)
         /\ Cardinality(Places(r, name)) = Cardinality(Places(h, name))
         /\ \A i \in Places(r, name) : \E j \in Places(h, name) : r[i] = h[j]
<1> DEFINE more == (aside \cup Names(h) \cup Names(r)) \ {name}
<1>1. Rest(h, more) = Rest(r, more)
  BY RestsAgree
<1>2. Others(h, more) = Places(h, name) /\ Others(r, more) = Places(r, name)
  BY DEF Others, Places, Names
<1>3. Picked(h, Places(h, name)) = Picked(r, Places(r, name))
  BY <1>1, <1>2 DEF Rest, Others
<1>4. Places(h, name) \in SUBSET DOMAIN h /\ Places(r, name) \in SUBSET DOMAIN r
  BY DEF Places
<1>5. Len(Picked(h, Places(h, name))) = Cardinality(Places(h, name)) /\ Len(Picked(r, Places(r, name))) = Cardinality(Places(r, name))
  BY <1>4, PickedWalks
<1>6. Cardinality(Places(r, name)) = Cardinality(Places(h, name))
  BY <1>3, <1>5
<1>7. Values(r, name) = Values(h, name)
  BY <1>3, <1>6 DEF Values
<1>8. \A i \in Places(r, name) : \E k \in DOMAIN Picked(r, Places(r, name)) : r[i] = Picked(r, Places(r, name))[k]
  BY <1>4, PickedIs
<1>9. \A k \in DOMAIN Picked(h, Places(h, name)) : \E j \in Places(h, name) : Picked(h, Places(h, name))[k] = h[j]
  BY <1>4, PickedIs
<1>10. \A i \in Places(r, name) : \E j \in Places(h, name) : r[i] = h[j]
  BY <1>3, <1>8, <1>9
<1> QED  BY <1>6, <1>7, <1>10

\* There is a first of them.
LEMMA EarliestIs ==
  ASSUME NEW A, NEW h \in Seq(A), NEW S \in SUBSET DOMAIN h
  PROVE  /\ S = {} => Earliest(S) = {}
         /\ S # {} => \E e \in S : Earliest(S) = {e}
<1>1. DOMAIN h = 1 .. Len(h) /\ Len(h) \in Nat
  BY LenProperties
<1>2. S = {} => Earliest(S) = {}
  BY DEF Earliest
<1>3. ASSUME S # {} PROVE \E e \in S : Earliest(S) = {e}
  <2>1. PICK p : Walks(p, S)
    BY PickedWalks
  <2>2. Cardinality(S) \in Nat /\ IsFiniteSet(S)
    BY <1>1, RankIsStrict
  <2>3. /\ p \in [1 .. Cardinality(S) -> S] /\ DOMAIN p = 1 .. Cardinality(S)
        /\ \A i \in S : \E k \in DOMAIN p : p[k] = i
        /\ \A k, l \in DOMAIN p : k < l => p[k] < p[l]
    BY <2>1 DEF Walks
  <2>4. 1 \in 1 .. Cardinality(S)
    BY <1>3, <2>2, <2>3
  <2>5. p[1] \in S /\ \A i \in S : i \in Nat
    BY <1>1, <2>3, <2>4
  <2>6. \A i \in S : p[1] <= i
    <3> TAKE i \in S
    <3>1. PICK k \in 1 .. Cardinality(S) : p[k] = i
      BY <2>3
    <3>2. k = 1 \/ 1 < k
      BY <2>2, <3>1
    <3>3. 1 < k => p[1] < p[k]
      BY <2>3, <2>4
    <3> QED  BY <2>5, <3>1, <3>2, <3>3
  <2>7. ASSUME NEW j \in Earliest(S) PROVE j = p[1]
    BY <2>5, <2>6 DEF Earliest
  <2>8. p[1] \in Earliest(S)
    BY <2>5, <2>6 DEF Earliest
  <2> QED  BY <2>5, <2>7, <2>8
<1> QED  BY <1>2, <1>3

\* The values of a header are those at its places.
LEMMA ValuesAre ==
  ASSUME NEW A, NEW h \in Seq(A), NEW name
  PROVE  /\ Cardinality(Places(h, name)) \in Nat
         /\ Len(Values(h, name)) = Cardinality(Places(h, name))
         /\ DOMAIN Values(h, name) = 1 .. Len(Values(h, name))
         /\ \A k \in DOMAIN Values(h, name) : \E i \in Places(h, name) : Values(h, name)[k] = h[i].value
         /\ Values(h, name) = <<>> <=> Places(h, name) = {}
         /\ \A i : Places(h, name) = {i} => Values(h, name) = <<h[i].value>>
<1> DEFINE S == Places(h, name)
           v == Values(h, name)
<1>1. S \in SUBSET DOMAIN h
  BY DEF Places
<1>2. DOMAIN h = 1 .. Len(h) /\ Len(h) \in Nat
  BY LenProperties
<1>3. IsFiniteSet(S) /\ Cardinality(S) \in Nat
  BY <1>1, <1>2, RankIsStrict
<1>4. DOMAIN Picked(h, S) = 1 .. Cardinality(S)
  BY DEF Picked
<1>5. /\ \A k \in DOMAIN Picked(h, S) : \E i \in S : Picked(h, S)[k] = h[i]
      /\ \A i \in S : \E k \in DOMAIN Picked(h, S) : Picked(h, S)[k] = h[i]
  BY <1>1, PickedIs
<1>6. v = [k \in 1 .. Cardinality(S) |-> Picked(h, S)[k].value]
  BY DEF Values
<1> HIDE DEF S, v
<1>7. \A k \in 1 .. Cardinality(S) : \E i \in S : v[k] = h[i].value
  BY <1>4, <1>5, <1>6
<1>8. Len(v) = Cardinality(S) /\ DOMAIN v = 1 .. Cardinality(S)
  <2>1. DOMAIN v = 1 .. Cardinality(S)
    BY <1>6
  <2> QED  BY <1>3, <2>1
<1>9. v = <<>> <=> Cardinality(S) = 0
  <2>1. Cardinality(S) = 0 => v = <<>>
    BY <1>6
  <2>2. v = <<>> => Cardinality(S) = 0
    BY <1>8
  <2> QED  BY <2>1, <2>2
<1>10. Cardinality(S) = 0 <=> S = {}
  BY <1>3, FS_EmptySet
<1>11. ASSUME NEW i, S = {i} PROVE v = <<h[i].value>>
  <2>1. Cardinality(S) = 1
    BY <1>11, FS_Singleton
  <2>2. v[1] = h[i].value
    BY <1>7, <1>11, <2>1
  <2>3. v = [k \in 1 .. 1 |-> v[k]]
    BY <1>6, <2>1
  <2>4. v = [k \in 1 .. 1 |-> h[i].value]
    BY <2>2, <2>3
  <2> QED  BY <2>4
<1> QED  BY <1>3, <1>7, <1>8, <1>9, <1>10, <1>11 DEF S, v

\* One header of a name is left, or none.
LEMMA PickedPlaces ==
  ASSUME NEW A, NEW g \in Seq(A), NEW K \in SUBSET DOMAIN g, NEW name
  PROVE  /\ (\A i \in K : g[i].name # name) => Places(Picked(g, K), name) = {}
         /\ \A e \in K : (\A i \in K : g[i].name = name <=> i = e) =>
              \E k : Places(Picked(g, K), name) = {k} /\ Picked(g, K)[k] = g[e]
<1> DEFINE left == {i \in K : g[i].name = name}
           r == Picked(g, K)
           there == Places(r, name)
<1>1. PICK p : Walks(p, K) /\ \A k \in 1 .. Cardinality(K) : r[k] = g[p[k]]
  BY PickedWalks
<1>2. /\ p \in [1 .. Cardinality(K) -> K] /\ DOMAIN p = 1 .. Cardinality(K)
      /\ \A i \in K : \E k \in DOMAIN p : p[k] = i
      /\ \A k, l \in DOMAIN p : k < l => p[k] < p[l]
  BY <1>1 DEF Walks
<1>3. DOMAIN r = 1 .. Cardinality(K)
  BY DEF Picked
<1>4. \A i \in K : i \in Nat
  BY LenProperties
<1>5. Cardinality(K) \in Nat
  BY PickedWalks
<1> HIDE DEF r
<1>6. \A k \in there : k \in DOMAIN p /\ p[k] \in left /\ r[k] = g[p[k]]
  BY <1>1, <1>2, <1>3 DEF Places
<1>7. \A i \in left : \E k \in there : p[k] = i
  BY <1>1, <1>2, <1>3 DEF Places
<1>8. \A k, l \in DOMAIN p : p[k] = p[l] => k = l
  <2> TAKE k, l \in DOMAIN p
  <2>1. p[k] \in Nat /\ p[l] \in Nat /\ k \in Nat /\ l \in Nat
    BY <1>2, <1>4, <1>5
  <2> QED  BY <1>2, <2>1
<1>9. left = {} => there = {}
  BY <1>6
<1>10. ASSUME NEW e, left = {e} PROVE \E k : there = {k} /\ r[k] = g[e]
  <2>1. PICK k \in there : p[k] = e
    BY <1>7, <1>10
  <2>2. \A l \in there : l = k
    BY <1>6, <1>8, <1>10, <2>1
  <2>3. there = {k}
    BY <2>1, <2>2
  <2> QED  BY <1>6, <2>1, <2>3
<1>11. (\A i \in K : g[i].name # name) => left = {}
  OBVIOUS
<1>12. \A e \in K : (\A i \in K : g[i].name = name <=> i = e) => left = {e}
  OBVIOUS
<1> HIDE DEF left, there
<1>13. \A e \in K : (\A i \in K : g[i].name = name <=> i = e) => \E k : there = {k} /\ r[k] = g[e]
  BY <1>10, <1>12
<1> QED  BY <1>9, <1>11, <1>13 DEF r, there

LEMMA NamesOfPicked ==
  ASSUME NEW A, NEW g \in Seq(A), NEW K \in SUBSET DOMAIN g
  PROVE  Names(Picked(g, K)) = {g[i].name : i \in K}
<1>1. Names(Picked(g, K)) \subseteq {g[i].name : i \in K}
  BY PickedIs DEF Names
<1>2. {g[i].name : i \in K} \subseteq Names(Picked(g, K))
  BY PickedIs DEF Names
<1> QED  BY <1>1, <1>2

\* A header that is replaced is there once, with the new value, or not at all; the rest stays.
HasReplaced(A, h, r, name, value) ==
  /\ r \in Seq(A) /\ Rest(r, {name}) = Rest(h, {name}) /\ Names(r) \subseteq Names(h) \cup {name}
  /\ Values(r, name) = IF value = "none" THEN <<>> ELSE <<value>>

LEMMA ReplacedIs ==
  ASSUME NEW A, NEW h \in Seq(A), NEW name, NEW value, Header(name, value) \in A
  PROVE  HasReplaced(A, h, Replaced(h, name, value), name, value)
<1> DEFINE r == Replaced(h, name, value)
           places == Places(h, name)
           x == Header(name, value)
<1>1. x \in A /\ x.name = name /\ x.value = value
  BY DEF Header
<1>2. places \in SUBSET DOMAIN h /\ \A i \in DOMAIN h : i \in places <=> h[i].name = name
  BY DEF Places
<1>3. DOMAIN h = 1 .. Len(h) /\ Len(h) \in Nat
  BY LenProperties
<1>4. CASE places = {} /\ value = "none"
  <2>1. r = h
    BY <1>4 DEF Replaced
  <2> QED  BY <1>4, <2>1, ValuesAre DEF HasReplaced
<1>5. CASE places = {} /\ value # "none"
  <2>1. r = Append(h, x)
    BY <1>5 DEF Replaced
  <2> HIDE DEF r
  <2>2. /\ r \in Seq(A) /\ DOMAIN r = 1 .. Len(h) + 1 /\ r[Len(h) + 1] = x
        /\ \A i \in 1 .. Len(h) : r[i] = h[i]
    BY <1>1, <1>3, <2>1, AppendProperties, LenProperties
  <2>3. Rest(r, {name}) = Rest(h, {name})
    BY <1>1, <2>1, RestOfAppend
  <2>4. Places(r, name) = {Len(h) + 1}
    <3>1. ASSUME NEW i \in DOMAIN r PROVE r[i].name = name <=> i = Len(h) + 1
      <4>1. CASE i = Len(h) + 1
        BY <1>1, <2>2, <4>1
      <4>2. CASE i # Len(h) + 1
        <5>1. i \in DOMAIN h /\ r[i] = h[i]
          BY <1>3, <2>2, <4>2
        <5> QED  BY <1>2, <1>5, <4>2, <5>1
      <4> QED  BY <4>1, <4>2
    <3>2. Len(h) + 1 \in DOMAIN r
      BY <1>3, <2>2
    <3> QED  BY <3>1, <3>2 DEF Places
  <2>5. Values(r, name) = <<value>>
    BY <1>1, <2>2, <2>4, ValuesAre
  <2>6. ASSUME NEW i \in DOMAIN r PROVE r[i].name \in Names(h) \cup {name}
    <3>1. CASE i = Len(h) + 1
      BY <1>1, <2>2, <3>1
    <3>2. CASE i # Len(h) + 1
      <4>1. i \in DOMAIN h /\ r[i] = h[i]
        BY <1>3, <2>2, <3>2
      <4> QED  BY <4>1 DEF Names
    <3> QED  BY <3>1, <3>2
  <2>7. Names(r) \subseteq Names(h) \cup {name}
    BY <2>6 DEF Names
  <2> QED  BY <1>5, <2>2, <2>3, <2>5, <2>7 DEF r, HasReplaced
<1>6. CASE places # {}
  <2> DEFINE gone == IF value = "none" THEN places ELSE places \ Earliest(places)
             put == [i \in DOMAIN h |-> IF i \in places THEN x ELSE h[i]]
             K == DOMAIN h \ gone
  <2>1. r = Picked(put, K)
    BY <1>6 DEF Replaced
  <2>2. /\ put \in Seq(A) /\ DOMAIN put = DOMAIN h
        /\ \A i \in DOMAIN h : put[i] = IF i \in places THEN x ELSE h[i]
    <3>1. \A i \in DOMAIN h : h[i] \in A
      BY <1>3, ElementOfSeq
    <3>2. put \in [1 .. Len(h) -> A]
      BY <1>1, <1>3, <3>1
    <3> QED  BY <1>3, <3>2, IsASeq
  <2>3. PICK e \in places : Earliest(places) = {e}
    BY <1>2, <1>6, EarliestIs
  <2> HIDE DEF r, put
  <2>4. K \in SUBSET DOMAIN h /\ \A i \in DOMAIN h : i \notin places => i \in K
    BY <2>3
  <2>5. \A i \in DOMAIN h : put[i].name = name <=> i \in places
    BY <1>1, <1>2, <2>2
  <2>6. /\ value = "none" => \A i \in K : put[i].name # name
        /\ value # "none" => e \in K /\ \A i \in K : put[i].name = name <=> i = e
    BY <1>2, <2>3, <2>5
  <2> HIDE DEF K
  <2>7. /\ value = "none" => Places(r, name) = {}
        /\ value # "none" => \E k : Places(r, name) = {k} /\ r[k] = put[e]
    <3>1. K \in SUBSET DOMAIN put
      BY <2>2, <2>4
    <3> QED  BY <2>1, <2>2, <2>6, <3>1, PickedPlaces
  <2>8. put[e].value = value
    BY <1>1, <1>2, <2>2
  <2>9. r \in Seq(A)
    BY <2>1, <2>2, <2>4, PickedWalks
  <2>10. Values(r, name) = IF value = "none" THEN <<>> ELSE <<value>>
    BY <2>7, <2>8, <2>9, ValuesAre
  <2>11. Rest(r, {name}) = Rest(h, {name})
    <3>1. \A i \in K : put[i].name \notin {name} => put[i] = h[i]
      BY <2>2, <2>4, <2>5
    <3>2. \A i \in DOMAIN h : h[i].name \notin {name} => i \in K /\ put[i] = h[i]
      BY <1>2, <2>2, <2>4
    <3> QED  BY <2>1, <2>2, <2>4, <3>1, <3>2, RestThrough
  <2>12. \A i \in K : put[i].name \in Names(h) \cup {name}
    BY <1>1, <2>2, <2>4 DEF Names
  <2>13. Names(r) \subseteq Names(h) \cup {name}
    BY <2>1, <2>2, <2>4, <2>12, NamesOfPicked
  <2> QED  BY <2>9, <2>10, <2>11, <2>13 DEF r, HasReplaced
<1> QED  BY <1>4, <1>5, <1>6

\* There is one Host in the end, the target's.
LEMMA SetHostIs ==
  ASSUME NEW A, NEW h \in Seq(A), Header("host", "target") \in A
  PROVE  HasReplaced(A, h, SetHost(h), "host", "target")
<1> DEFINE r == SetHost(h)
           x == Header("host", "target")
<1>1. x \in A /\ x.name = "host" /\ x.value = "target"
  BY DEF Header
<1>2. DOMAIN h = 1 .. Len(h) /\ Len(h) \in Nat
  BY LenProperties
<1>3. CASE Places(h, "host") # {}
  <2>1. r = Replaced(h, "host", "target")
    BY <1>3 DEF SetHost
  <2> QED  BY <2>1, ReplacedIs
<1>4. CASE Places(h, "host") = {}
  <2>1. r = <<x>> \o h
    BY <1>4 DEF SetHost
  <2> HIDE DEF r
  <2>2. r \in Seq(A) /\ Rest(r, {"host"}) = Rest(h, {"host"})
    BY <1>1, <2>1, RestOfPrepended
  <2>3. /\ DOMAIN r = 1 .. Len(h) + 1 /\ r[1] = x /\ \A i \in 1 .. Len(h) : r[i + 1] = h[i]
    <3>1. <<x>> \in Seq(A) /\ Len(<<x>>) = 1
      BY <1>1
    <3> QED  BY <1>2, <2>1, <3>1, ConcatProperties, LenProperties
  <2>4. ASSUME NEW i \in DOMAIN r, i # 1 PROVE i - 1 \in DOMAIN h /\ r[i] = h[i - 1]
    <3>1. i - 1 \in 1 .. Len(h) /\ (i - 1) + 1 = i
      BY <1>2, <2>3, <2>4
    <3> QED  BY <1>2, <2>3, <3>1
  <2>5. 1 \in DOMAIN r
    BY <1>2, <2>3
  <2>6. \A i \in DOMAIN h : h[i].name # "host"
    BY <1>4 DEF Places
  <2>7. \A i \in DOMAIN r : r[i].name = "host" <=> i = 1
    BY <1>1, <2>3, <2>4, <2>6
  <2>8. Places(r, "host") = {1}
    BY <2>5, <2>7 DEF Places
  <2>9. Values(r, "host") = <<"target">>
    BY <1>1, <2>2, <2>3, <2>8, ValuesAre
  <2>10. \A i \in DOMAIN r : r[i].name \in Names(h) \cup {"host"}
    BY <1>1, <2>3, <2>4 DEF Names
  <2>11. Names(r) \subseteq Names(h) \cup {"host"}
    BY <2>10 DEF Names
  <2> QED  BY <2>2, <2>9, <2>11 DEF r, HasReplaced
<1> QED  BY <1>3, <1>4

\* What is for the client's connection only.
Hop(h) == {"keep-alive", "proxy-connection"} \cup (Listed(h) \ NeverStripped)

\* Nothing of the client's own connection is left but one Connection, of the options that are kept.
LEMMA StripIs ==
  ASSUME NEW A, NEW h \in Seq(A), Connection(Listed(h) \cap KeptOptions) \in A
  PROVE  LET r == StripHopByHop(h)
             aside == Hop(h) \cup {"connection"}
         IN  /\ r \in Seq(A) /\ Rest(r, aside) = Rest(h, aside) /\ Names(r) \cap Hop(h) \subseteq {"connection"}
             /\ Cardinality(Places(r, "connection")) <= 1
             /\ \A i \in Places(r, "connection") : r[i].options = Listed(h) \cap KeptOptions
<1> DEFINE r == StripHopByHop(h)
           connection == Places(h, "connection")
           drop == Hop(h)
           aside == drop \cup {"connection"}
           kept == Listed(h) \cap KeptOptions
           x == Connection(kept)
           first == IF kept = {} THEN {} ELSE Earliest(connection)
           rest == {i \in DOMAIN h \ connection : h[i].name \notin drop}
           K == first \cup rest
           put == [i \in DOMAIN h |-> IF i \in first THEN x ELSE h[i]]
<1>1. r = Picked(put, K)
  BY DEF StripHopByHop, Hop
<1>2. x \in A /\ x.name = "connection" /\ x.options = kept
  BY DEF Connection
<1>3. connection \in SUBSET DOMAIN h /\ \A i \in DOMAIN h : i \in connection <=> h[i].name = "connection"
  BY DEF Places
<1>4. DOMAIN h = 1 .. Len(h) /\ Len(h) \in Nat
  BY LenProperties
<1>5. first = {} \/ \E e \in connection : first = {e}
  BY <1>3, EarliestIs
<1> HIDE DEF r, kept, x, first, drop
<1>6. /\ put \in Seq(A) /\ DOMAIN put = DOMAIN h
      /\ \A i \in DOMAIN h : put[i] = IF i \in first THEN x ELSE h[i]
  <2>1. \A i \in DOMAIN h : h[i] \in A
    BY <1>4, ElementOfSeq
  <2>2. put \in [1 .. Len(h) -> A]
    BY <1>2, <1>4, <2>1
  <2> QED  BY <1>4, <2>2, IsASeq
<1> HIDE DEF put
<1>7. K \in SUBSET DOMAIN h /\ first \subseteq connection
  BY <1>3, <1>5
<1>8. \A i \in rest : i \in DOMAIN h /\ put[i] = h[i] /\ h[i].name # "connection" /\ h[i].name \notin drop
  BY <1>3, <1>6, <1>7
<1>9. \A i \in first : i \in DOMAIN h /\ put[i] = x
  BY <1>6, <1>7
<1>10. first \subseteq K /\ \A i \in K : put[i].name = "connection" <=> i \in first
  BY <1>2, <1>8, <1>9
<1>11. r \in Seq(A)
  BY <1>1, <1>6, <1>7, PickedWalks
<1>12. Rest(r, aside) = Rest(h, aside)
  <2>1. \A i \in K : put[i].name \notin aside => put[i] = h[i]
    BY <1>2, <1>8, <1>9
  <2>2. \A i \in DOMAIN h : h[i].name \notin aside => i \in K /\ put[i] = h[i]
    <3> TAKE i \in DOMAIN h
    <3>1. h[i].name \notin aside => i \in rest
      BY <1>3
    <3> QED  BY <1>8, <3>1
  <2> HIDE DEF K, aside
  <2> QED  BY <1>1, <1>6, <1>7, <2>1, <2>2, RestThrough
<1>13. \A i \in K : put[i].name \in drop => put[i].name = "connection"
  BY <1>2, <1>8, <1>9
<1> HIDE DEF K
<1>14. Names(r) = {put[i].name : i \in K}
  BY <1>1, <1>6, <1>7, NamesOfPicked
<1>15. Names(r) \cap drop \subseteq {"connection"}
  BY <1>13, <1>14
<1>16. /\ first = {} => Places(r, "connection") = {}
       /\ \A e : first = {e} => \E k : Places(r, "connection") = {k} /\ r[k] = put[e]
  <2>1. K \in SUBSET DOMAIN put
    BY <1>6, <1>7
  <2>2. first = {} => \A i \in K : put[i].name # "connection"
    BY <1>10
  <2>3. \A e : first = {e} => e \in K /\ \A i \in K : put[i].name = "connection" <=> i = e
    BY <1>10
  <2>4. ASSUME first = {} PROVE Places(r, "connection") = {}
    BY <1>1, <1>6, <2>1, <2>2, <2>4, PickedPlaces
  <2>5. ASSUME NEW e, first = {e} PROVE \E k : Places(r, "connection") = {k} /\ r[k] = put[e]
    <3>1. e \in K /\ \A i \in K : put[i].name = "connection" <=> i = e
      BY <2>3, <2>5
    <3>2. Picked(put, K) = r /\ put \in Seq(A)
      BY <1>1, <1>6
    <3>3. \E k : Places(Picked(put, K), "connection") = {k} /\ Picked(put, K)[k] = put[e]
      BY ONLY <2>1, <3>1, <3>2, PickedPlaces
    <3> QED  BY <3>2, <3>3
  <2> QED  BY <2>4, <2>5
<1>17. CASE first = {}
  <2>1. Places(r, "connection") = {} /\ Cardinality(Places(r, "connection")) = 0
    BY <1>16, <1>17, FS_EmptySet
  <2> QED  BY <1>11, <1>12, <1>15, <2>1 DEF r, drop
<1>18. CASE first # {}
  <2>1. PICK e \in connection : first = {e}
    BY <1>5, <1>18
  <2>2. PICK k : Places(r, "connection") = {k} /\ r[k] = put[e]
    BY <1>16, <2>1
  <2>3. r[k].options = kept
    BY <1>2, <1>9, <2>1, <2>2
  <2>4. Cardinality(Places(r, "connection")) = 1
    BY <2>2, FS_Singleton
  <2> QED  BY <1>11, <1>12, <1>15, <2>2, <2>3, <2>4 DEF r, drop, kept
<1> QED  BY <1>17, <1>18

\* What goes out of the headers that came, with the value v or none.
Forwards(a, z, v) ==
  /\ Values(z, "host") = <<"target">>
  /\ Values(z, "proxy-authorization") = IF v = "none" THEN <<>> ELSE <<v>>
  /\ Places(z, "keep-alive") \cup Places(z, "proxy-connection") = {}
  /\ Len(Values(z, "connection")) <= 1
  /\ \A i \in Places(z, "connection") : z[i].options = Listed(a) \cap KeptOptions
  /\ Rest(z, Aside) = Rest(a, Aside \cup (Listed(a) \ NeverStripped))

LEMMA ListedWithHost ==
  ASSUME NEW A, NEW a \in Seq(A), Header("host", "target") \in A
  PROVE  LET h == Append(a, Header("host", "target"))
         IN  h \in Seq(A) /\ Listed(h) = Listed(a) /\ Rest(h, {"host"}) = Rest(a, {"host"})
<1> DEFINE x == Header("host", "target")
           h == Append(a, x)
<1>1. x \in A /\ x.options = {} /\ x.name = "host"
  BY DEF Header
<1> HIDE DEF x
<1>2. /\ DOMAIN a = 1 .. Len(a) /\ Len(a) \in Nat /\ h \in Seq(A) /\ DOMAIN h = 1 .. Len(a) + 1
      /\ h[Len(a) + 1] = x /\ \A i \in 1 .. Len(a) : h[i] = a[i]
  BY <1>1, AppendProperties, LenProperties
<1>3. Rest(h, {"host"}) = Rest(a, {"host"})
  BY <1>1, RestOfAppend
<1> HIDE DEF h
<1>4. \A i \in DOMAIN a : i \in DOMAIN h /\ h[i] = a[i]
  BY <1>2
<1>5. \A i \in DOMAIN h : h[i].options = {} \/ (i \in DOMAIN a /\ h[i] = a[i])
  BY <1>1, <1>2
<1>6. Listed(h) \subseteq Listed(a)
  BY <1>5 DEF Listed
<1>7. Listed(a) \subseteq Listed(h)
  BY <1>4 DEF Listed
<1> QED  BY <1>2, <1>3, <1>6, <1>7 DEF h, x

LEMMA ForwardedIs ==
  ASSUME NEW A, NEW a \in Seq(A), NEW v, Header("host", "target") \in A, Header("proxy-authorization", v) \in A,
         Connection(Listed(a) \cap KeptOptions) \in A, NEW h \in {a, Append(a, Header("host", "target"))}
  PROVE  Forwards(a, SetHost(ReplaceProxyAuthorization(StripHopByHop(h), v)), v)
<1> DEFINE s == StripHopByHop(h)
           q == Replaced(s, "proxy-authorization", v)
           z == SetHost(q)
           hop == Aside \cup (Listed(a) \ NeverStripped)
           N == Hop(a) \cup {"connection"}
<1>1. h \in Seq(A) /\ Listed(h) = Listed(a) /\ Rest(h, {"host"}) = Rest(a, {"host"}) /\ Hop(h) = Hop(a)
  BY ListedWithHost DEF Hop
<1>2. /\ s \in Seq(A) /\ Rest(s, N) = Rest(h, N) /\ Names(s) \cap Hop(a) \subseteq {"connection"}
      /\ Cardinality(Places(s, "connection")) <= 1
      /\ \A i \in Places(s, "connection") : s[i].options = Listed(a) \cap KeptOptions
  BY <1>1, StripIs
<1> HIDE DEF s
<1>3. HasReplaced(A, s, q, "proxy-authorization", v)
  BY <1>2, ReplacedIs
<1> HIDE DEF q
<1>4. /\ q \in Seq(A) /\ Rest(q, {"proxy-authorization"}) = Rest(s, {"proxy-authorization"})
      /\ Names(q) \subseteq Names(s) \cup {"proxy-authorization"}
      /\ Values(q, "proxy-authorization") = IF v = "none" THEN <<>> ELSE <<v>>
  BY <1>3 DEF HasReplaced
<1>5. HasReplaced(A, q, z, "host", "target")
  BY <1>4, SetHostIs
<1> HIDE DEF z
<1>6. /\ z \in Seq(A) /\ Rest(z, {"host"}) = Rest(q, {"host"})
      /\ Names(z) \subseteq Names(q) \cup {"host"} /\ Values(z, "host") = <<"target">>
  BY <1>5 DEF HasReplaced
<1>7. Values(z, "proxy-authorization") = Values(q, "proxy-authorization")
  BY <1>4, <1>6, SamePlaces
<1>8. /\ Cardinality(Places(z, "connection")) = Cardinality(Places(s, "connection"))
      /\ \A i \in Places(z, "connection") : \E j \in Places(s, "connection") : z[i] = s[j]
  <2>1. /\ Cardinality(Places(z, "connection")) = Cardinality(Places(q, "connection"))
        /\ \A i \in Places(z, "connection") : \E j \in Places(q, "connection") : z[i] = q[j]
    BY <1>4, <1>6, SamePlaces
  <2>2. /\ Cardinality(Places(q, "connection")) = Cardinality(Places(s, "connection"))
        /\ \A i \in Places(q, "connection") : \E j \in Places(s, "connection") : q[i] = s[j]
    BY <1>2, <1>4, SamePlaces
  <2> QED  BY <2>1, <2>2
<1>9. Len(Values(z, "connection")) <= 1
  BY <1>2, <1>6, <1>8, ValuesAre
<1>10. \A i \in Places(z, "connection") : z[i].options = Listed(a) \cap KeptOptions
  BY <1>2, <1>8
<1>11. \A n \in Names(z) : n \in Hop(a) => n \in Aside
  BY <1>2, <1>4, <1>6 DEF Aside
<1>12. Places(z, "keep-alive") \cup Places(z, "proxy-connection") = {}
  <2>1. Names(z) \cap {"keep-alive", "proxy-connection"} = {}
    BY <1>2, <1>4, <1>6 DEF Hop
  <2> QED  BY <2>1 DEF Places, Names
<1>13. Rest(z, Aside) = Rest(z, hop)
  <2>1. \A i \in DOMAIN z : z[i].name \notin Aside <=> z[i].name \notin hop
    BY <1>11 DEF Names, Hop
  <2>2. {i \in DOMAIN z : z[i].name \notin Aside} = {i \in DOMAIN z : z[i].name \notin hop}
    BY <2>1
  <2> QED  BY <2>2 DEF Rest
<1>14. {"host"} \subseteq hop /\ {"proxy-authorization"} \subseteq hop /\ N \subseteq hop
  BY DEF Aside, Hop
<1> HIDE DEF hop, N
<1>15. Rest(z, hop) = Rest(q, hop)
  BY <1>4, <1>6, <1>14, RestsAgree
<1>16. Rest(q, hop) = Rest(s, hop)
  BY <1>2, <1>4, <1>14, RestsAgree
<1>17. Rest(s, hop) = Rest(h, hop)
  BY <1>1, <1>2, <1>14, RestsAgree
<1>18. Rest(h, hop) = Rest(a, hop)
  BY <1>1, <1>14, RestsAgree
<1>19. Forwards(a, z, v)
  BY <1>4, <1>6, <1>7, <1>9, <1>10, <1>12, <1>13, <1>15, <1>16, <1>17, <1>18 DEF Forwards, hop
<1> QED  BY <1>19 DEF z, q, s, ReplaceProxyAuthorization

-----------------------------------------------------------------------------
(* The requests: what is decided.                                           *)

\* The client is one that may go on.
MayGoOn ==
  IF setup.require THEN Gave({"token", "mapped"})
  ELSE (setup.listener = "main" \/ Has("proxy-authorization")) /\ ~(setup.token /\ Gave({"badtoken"}))

LEMMA CaseKnown == ASSUME case \in Cases PROVE IsSetup(setup) /\ IsAsk(ask) /\ Canonical[ask.host] \in DOMAIN Embedded
BY RequestsAssumption DEF setup, ask, IsAsk

LEMMA GivenKnown ==
  ASSUME case \in Cases
  PROVE  LET shown == Values(ask.headers, "proxy-authorization")
         IN  /\ shown = <<>> <=> ~Has("proxy-authorization")
             /\ shown # <<>> => shown[1] \in Presented
             /\ \A kinds : Gave(kinds) <=> shown # <<>> /\ shown[1] \in kinds
<1> DEFINE a == ask.headers
           A == {a[i] : i \in DOMAIN a}
           shown == Values(a, "proxy-authorization")
<1>1. /\ a \in Seq(A)
      /\ \A i \in DOMAIN a : a[i].name = "proxy-authorization" => a[i].value \in Presented
  BY CaseKnown DEF IsAsk
<1> HIDE DEF a, A
<1>2. /\ Cardinality(Places(a, "proxy-authorization")) \in Nat
      /\ Len(shown) = Cardinality(Places(a, "proxy-authorization"))
      /\ DOMAIN shown = 1 .. Len(shown)
      /\ \A k \in DOMAIN shown : \E i \in Places(a, "proxy-authorization") : shown[k] = a[i].value
      /\ shown = <<>> <=> Places(a, "proxy-authorization") = {}
  BY <1>1, ValuesAre
<1> HIDE DEF shown
<1>3. ASSUME shown # <<>> PROVE shown[1] \in Presented
  <2>1. Cardinality(Places(a, "proxy-authorization")) # 0
    <3>1. Places(a, "proxy-authorization") \in SUBSET DOMAIN a /\ DOMAIN a = 1 .. Len(a) /\ Len(a) \in Nat
      BY <1>1, LenProperties DEF Places
    <3>2. IsFiniteSet(Places(a, "proxy-authorization"))
      BY <3>1, RankIsStrict
    <3> QED  BY <1>2, <1>3, <3>2, FS_EmptySet
  <2>2. 1 \in DOMAIN shown
    BY <1>2, <2>1
  <2>3. PICK i \in Places(a, "proxy-authorization") : shown[1] = a[i].value
    BY <1>2, <2>2
  <2> QED  BY <1>1, <2>3 DEF Places
<1>4. /\ shown = <<>> <=> ~Has("proxy-authorization")
      /\ \A kinds : Gave(kinds) <=> shown # <<>> /\ shown[1] \in kinds
  BY <1>2 DEF Has, Gave, First, shown, a
<1> QED  BY <1>3, <1>4 DEF shown, a

\* What a client is told, and what may be presented for it.
CredentialsKnown(c) ==
  /\ c.refused \in {"none", "auth-challenge", "token-required", "bad-token"}
  /\ c.refused = "none" =>
       /\ MayGoOn
       /\ setup.token => {c.creds.header, c.creds.socks} \cap {"token", "mapped", "badtoken"} = {}
       /\ "own" \in {c.creds.header, c.creds.socks} =>
            Gave({"token"}) \/ (~Has("proxy-authorization") /\ setup.listener = "main")
       /\ "user" \in {c.creds.header, c.creds.socks} => Gave({"mapped"})
       /\ setup.upstream # "none" => (c.creds.header = "none" <=> c.creds.auth = "none")

LEMMA CredentialsAre == ASSUME case \in Cases PROVE CredentialsKnown(Credentials)
<1> PICK shown : shown = Values(ask.headers, "proxy-authorization")
  OBVIOUS
<1> PICK c : c = Credentials
  OBVIOUS
<1>1. /\ shown = <<>> <=> ~Has("proxy-authorization")
      /\ shown # <<>> => shown[1] \in Presented
      /\ \A kinds : Gave(kinds) <=> shown # <<>> /\ shown[1] \in kinds
  BY GivenKnown
<1>2. /\ setup.listener \in {"main", "auth"} /\ setup.token \in BOOLEAN /\ setup.require \in BOOLEAN
      /\ setup.require => setup.token
  BY CaseKnown DEF IsSetup
<1>3. /\ Gave({"token"}) <=> shown # <<>> /\ shown[1] = "token"
      /\ Gave({"mapped"}) <=> shown # <<>> /\ shown[1] = "mapped"
      /\ Gave({"badtoken"}) <=> shown # <<>> /\ shown[1] = "badtoken"
      /\ Gave({"token", "mapped"}) <=> shown # <<>> /\ shown[1] \in {"token", "mapped"}
  BY <1>1
<1>4. CASE shown = <<>>
  <2>1. c = IF setup.listener = "auth" THEN [refused |-> "auth-challenge", creds |-> NoCreds]
            ELSE IF setup.require THEN [refused |-> "token-required", creds |-> NoCreds]
            ELSE [refused |-> "none", creds |-> Inject]
    BY <1>4 DEF Credentials
  <2> QED  BY <1>1, <1>2, <1>3, <1>4, <2>1 DEF CredentialsKnown, MayGoOn, Inject, NoCreds
<1>5. CASE shown # <<>> /\ setup.token /\ shown[1] \in {"badtoken", "token", "mapped"}
  <2>1. c = IF shown[1] = "badtoken" THEN [refused |-> "bad-token", creds |-> NoCreds]
            ELSE IF shown[1] = "token" THEN [refused |-> "none", creds |-> Inject]
            ELSE [refused |-> "none", creds |-> [NoCreds EXCEPT !.auth = "token-mapped", !.header = "user", !.socks = "user"]]
    BY <1>5 DEF Credentials
  <2> QED  BY <1>1, <1>2, <1>3, <1>5, <2>1 DEF CredentialsKnown, MayGoOn, Inject, NoCreds
<1>6. CASE shown # <<>> /\ ~(setup.token /\ shown[1] \in {"badtoken", "token", "mapped"})
  <2> PICK socks : socks = IF shown[1] = "other" THEN "none" ELSE shown[1]
    OBVIOUS
  <2>1. c = IF setup.require THEN [refused |-> "token-required", creds |-> NoCreds]
            ELSE [refused |-> "none", creds |-> Passes(shown[1], socks)]
    BY <1>6 DEF Credentials
  <2>2. Passes(shown[1], socks).auth = "passthrough" /\ Passes(shown[1], socks).header = shown[1] /\ Passes(shown[1], socks).socks = socks
    BY DEF Passes, NoCreds
  <2>3. shown[1] \in {"token", "mapped", "badtoken", "basic", "other"}
    BY <1>1, <1>6 DEF Presented
  <2>4. CASE setup.require
    BY <1>2, <2>1, <2>4 DEF CredentialsKnown
  <2>5. CASE ~setup.require
    <3>1. c.refused = "none" /\ c.creds = Passes(shown[1], socks)
      BY <2>1, <2>5
    <3>2. MayGoOn
      BY <1>1, <1>2, <1>3, <1>6, <2>5 DEF MayGoOn
    <3> QED  BY <1>6, <2>2, <2>3, <3>1, <3>2 DEF CredentialsKnown
  <2> QED  BY <2>4, <2>5
<1> QED  BY <1>4, <1>5, <1>6

\* A request that is refused says no more than it may; one that is not goes where the rules let it.
DecisionKnown(d) ==
  LET h == Canonical[ask.host]
  IN  /\ d.refused \in {"denied", "budget"} => MayGoOn
      /\ d.denied <=> d.refused = "denied"
      /\ d.refused = "none" =>
           /\ ask.form \in {"connect", "http"}
           /\ MayGoOn /\ ~setup.tripped /\ ~(ask.mine /\ h \in SelfHosts)
           /\ {h, Embedded[h]} \cap setup.deny = {}
           /\ d.route = Route(h) /\ Credentials.refused = "none"
           /\ d.creds = IF Route(h) \in {"direct", "non-target"} THEN NoCreds ELSE Credentials.creds

LEMMA DecideIs == ASSUME case \in Cases PROVE DecisionKnown(Decide)
<1> PICK h : h = Canonical[ask.host]
  OBVIOUS
<1> PICK c : c = Credentials
  OBVIOUS
<1> PICK d : d = Decide
  OBVIOUS
<1>1. c.refused \in {"none", "auth-challenge", "token-required", "bad-token"} /\ (c.refused = "none" => MayGoOn)
  BY CredentialsAre DEF CredentialsKnown
<1>2. ask.form \in {"connect", "http", "https", "origin", "bad"} /\ h \in DOMAIN Embedded
  BY CaseKnown DEF IsAsk
<1>3. setup.deny \subseteq DOMAIN Embedded /\ "none" \notin DOMAIN Embedded
  BY CaseKnown, RequestsAssumption DEF IsSetup
<1>5. CASE ask.form \notin {"connect", "http"}
  <2>1. d \in {Refusal("bad-request", "bad_request"), Refusal("https-absolute-form", "https_absolute_form"), Refusal("bare", "origin_form")}
    BY <1>2, <1>5 DEF Decide
  <2>2. d.refused \in {"bad-request", "https-absolute-form", "bare"} /\ d.denied = FALSE
    BY <2>1 DEF Refusal, NoVerdict
  <2> QED  BY <2>2 DEF DecisionKnown
<1>6. CASE ask.form \in {"connect", "http"} /\ ((ask.form = "http" /\ ask.both) \/ (ask.mine /\ h \in SelfHosts))
  <2>1. d \in {Refusal("bad-request", "bad_request"), Refusal("self-loop", "self_loop")}
    BY <1>2, <1>6 DEF Decide, IsSelfHost
  <2>2. d.refused \in {"bad-request", "self-loop"} /\ d.denied = FALSE
    BY <2>1 DEF Refusal, NoVerdict
  <2> QED  BY <2>2 DEF DecisionKnown
<1>7. CASE ask.form \in {"connect", "http"} /\ ~((ask.form = "http" /\ ask.both) \/ (ask.mine /\ h \in SelfHosts))
  <2>1. d = IF c.refused # "none" THEN Refusal(c.refused, c.refused)
            ELSE IF setup.tripped THEN Refusal("budget", "budget")
            ELSE IF DenyMatches(h) THEN [Refusal("denied", "none") EXCEPT !.denied = TRUE]
            ELSE [NoVerdict EXCEPT !.route = Route(h),
                    !.creds = IF Route(h) \in {"direct", "non-target"} THEN NoCreds ELSE c.creds]
    BY <1>2, <1>7 DEF Decide, IsSelfHost
  <2>2. CASE c.refused # "none"
    <3>1. d.refused = c.refused /\ d.denied = FALSE
      BY <2>1, <2>2 DEF Refusal, NoVerdict
    <3> QED  BY <1>1, <2>2, <3>1 DEF DecisionKnown
  <2>3. CASE c.refused = "none" /\ setup.tripped
    <3>1. d.refused = "budget" /\ d.denied = FALSE
      BY <2>1, <2>3 DEF Refusal, NoVerdict
    <3> QED  BY <1>1, <2>3, <3>1 DEF DecisionKnown
  <2>4. CASE c.refused = "none" /\ ~setup.tripped /\ DenyMatches(h)
    <3>1. d.refused = "denied" /\ d.denied = TRUE
      BY <2>1, <2>4 DEF Refusal, NoVerdict
    <3> QED  BY <1>1, <2>4, <3>1 DEF DecisionKnown
  <2>5. CASE c.refused = "none" /\ ~setup.tripped /\ ~DenyMatches(h)
    <3>1. /\ d.refused = "none" /\ d.denied = FALSE /\ d.route = Route(h)
          /\ d.creds = IF Route(h) \in {"direct", "non-target"} THEN NoCreds ELSE c.creds
      <4>1. PICK creds : creds = IF Route(h) \in {"direct", "non-target"} THEN NoCreds ELSE c.creds
        OBVIOUS
      <4>2. d = [NoVerdict EXCEPT !.route = Route(h), !.creds = creds]
        BY <2>1, <2>5, <4>1
      <4> QED  BY <4>1, <4>2 DEF NoVerdict
    <3>2. {h, Embedded[h]} \cap setup.deny = {}
      BY <1>3, <2>5 DEF DenyMatches, Matches
    <3> QED  BY <1>1, <1>7, <2>5, <3>1, <3>2 DEF DecisionKnown
  <2> QED  BY <2>2, <2>3, <2>4, <2>5
<1> QED  BY <1>5, <1>6, <1>7

-----------------------------------------------------------------------------
(* The requests: the invariant.                                             *)

HeadRead == IF injected THEN Append(ask.headers, Header("host", "target")) ELSE ask.headers
HeadSent ==
  CASE ask.form = "http" -> RequestHead(HeadRead)
    [] ask.form = "connect" /\ verdict.route = "http-connect" -> ConnectHead(HeadRead, verdict.creds.header)
    [] OTHER -> <<>>

\* The decision is the one about this case, and the head is what was made of what came.
RequestInv ==
  /\ case \in Cases /\ step \in {"raw", "read", "decided", "sent"} /\ injected \in BOOLEAN
  /\ step = "raw" => verdict = NoVerdict
  /\ step = "read" => verdict \in {NoVerdict, Refusal("bad-request", "bad_request")}
  /\ step \in {"decided", "sent"} => verdict = Decide
  /\ step \in {"read", "decided"} => head = HeadRead
  /\ step = "sent" => verdict.refused = "none" /\ head = HeadSent

LEMMA DecideStays == UNCHANGED case => UNCHANGED Decide
BY DEF Decide, ask, setup, Credentials, Inject, DenyMatches, Route

LEMMA RequestStep == RequestInv /\ [NextRequest]_requestVars => RequestInv'
<1> SUFFICES ASSUME RequestInv, [NextRequest]_requestVars PROVE RequestInv'
  OBVIOUS
<1>1. UNCHANGED case /\ UNCHANGED Decide /\ ask' = ask /\ case \in Cases
  BY DecideStays DEF RequestInv, NextRequest, ReadsRequest, Decides, Sends, requestVars, ask
<1>2. CASE ReadsRequest
  <2>1. injected' \in BOOLEAN /\ step' = "read" /\ verdict' \in {NoVerdict, Refusal("bad-request", "bad_request")}
    BY <1>2 DEF ReadsRequest
  <2>2. head' = HeadRead'
    BY <1>1, <1>2 DEF ReadsRequest, HeadRead
  <2>3. {NoVerdict, Refusal("bad-request", "bad_request")}' = {NoVerdict, Refusal("bad-request", "bad_request")}
    BY DEF NoVerdict, Refusal, NoCreds
  <2> QED  BY <1>1, <2>1, <2>2, <2>3 DEF RequestInv
<1>3. CASE Decides
  <2>1. step' = "decided" /\ verdict' = Decide' /\ injected' = injected /\ injected \in BOOLEAN
    BY <1>1, <1>3 DEF Decides, RequestInv
  <2>2. head' = HeadRead'
    BY <1>1, <1>3 DEF Decides, HeadRead, RequestInv
  <2> QED  BY <1>1, <2>1, <2>2 DEF RequestInv
<1>4. CASE Sends
  <2>1. /\ step' = "sent" /\ verdict' = verdict /\ verdict.refused = "none" /\ injected' = injected /\ injected \in BOOLEAN
        /\ verdict = Decide /\ head = HeadRead
    BY <1>4 DEF Sends, RequestInv
  <2>2. head' = HeadSent
    BY <1>4, <2>1 DEF Sends, HeadSent
  <2>3. HeadSent' = HeadSent
    BY <1>1, <2>1 DEF HeadSent, HeadRead, RequestHead, ConnectHead
  <2> QED  BY <1>1, <2>1, <2>2, <2>3 DEF RequestInv
<1>5. CASE UNCHANGED requestVars
  <2>1. /\ step' = step /\ verdict' = verdict /\ injected' = injected /\ head' = head
    BY <1>5 DEF requestVars
  <2>2. HeadRead' = HeadRead /\ HeadSent' = HeadSent
    BY <1>1, <2>1 DEF HeadSent, HeadRead, RequestHead, ConnectHead
  <2>3. {NoVerdict, Refusal("bad-request", "bad_request")}' = {NoVerdict, Refusal("bad-request", "bad_request")} /\ NoVerdict' = NoVerdict
    BY DEF NoVerdict, Refusal, NoCreds
  <2> QED  BY <1>1, <2>1, <2>2, <2>3 DEF RequestInv
<1> QED  BY <1>2, <1>3, <1>4, <1>5 DEF NextRequest

\* What was written, with the credentials for an HTTP provider or none.
SentKnown(v) ==
  /\ ask.form = "http" => Forwards(ask.headers, head, v)
  /\ ask.form = "connect" /\ head # <<>> =>
       Rest(head, {"proxy-authorization"}) = Rest(ask.headers, {"proxy-authorization"})
  /\ Values(head, "proxy-authorization") = IF v = "none" THEN <<>> ELSE <<v>>

LEMMA SentIs ==
  ASSUME RequestInv, step = "sent"
  PROVE  SentKnown(IF verdict.route = "http-connect" THEN verdict.creds.header ELSE "none")
<1> DEFINE a == ask.headers
           x == Header("host", "target")
<1> PICK v : v = IF verdict.route = "http-connect" THEN verdict.creds.header ELSE "none"
  OBVIOUS
<1> PICK A : A = {a[i] : i \in DOMAIN a} \cup {x, Header("proxy-authorization", v), Connection(Listed(a) \cap KeptOptions)}
  OBVIOUS
<1>1. a \in Seq(A)
  <2>1. a \in Seq({a[i] : i \in DOMAIN a})
    BY CaseKnown DEF RequestInv, IsAsk
  <2> HIDE DEF a
  <2>2. DOMAIN a = 1 .. Len(a) /\ Len(a) \in Nat
    BY <2>1, LenProperties
  <2>3. a \in [1 .. Len(a) -> A]
    <3>1. a = [i \in 1 .. Len(a) |-> a[i]]
      BY <2>1, <2>2
    <3>2. \A i \in 1 .. Len(a) : a[i] \in A
      BY <2>2
    <3> QED  BY <3>1, <3>2
  <2> QED  BY <2>2, <2>3, IsASeq
<1>2. x \in A /\ Header("proxy-authorization", v) \in A /\ Connection(Listed(a) \cap KeptOptions) \in A
  OBVIOUS
<1>3. PICK h : h = HeadRead
  OBVIOUS
<1>4. h = IF injected THEN Append(a, x) ELSE a
  BY <1>3 DEF HeadRead
<1>5. head = CASE ask.form = "http" -> SetHost(ReplaceProxyAuthorization(StripHopByHop(h), v))
               [] ask.form = "connect" /\ verdict.route = "http-connect" -> ConnectHead(h, v)
               [] OTHER -> <<>>
  BY <1>3 DEF RequestInv, HeadSent, RequestHead
<1>6. ask.form \in {"connect", "http"}
  BY DecideIs DEF RequestInv, DecisionKnown
<1> HIDE DEF a, x
<1>7. CASE ask.form = "http"
  <2>1. Forwards(a, SetHost(ReplaceProxyAuthorization(StripHopByHop(h), v)), v)
    BY <1>1, <1>2, <1>4, ForwardedIs DEF x
  <2>2. Forwards(a, head, v)
    BY <1>5, <1>7, <2>1
  <2>3. Values(head, "proxy-authorization") = IF v = "none" THEN <<>> ELSE <<v>>
    BY <2>2 DEF Forwards
  <2> QED  BY <1>7, <2>2, <2>3 DEF SentKnown, a
<1>8. CASE ask.form = "connect" /\ verdict.route = "http-connect"
  <2>1. head = Replaced(a, "proxy-authorization", v)
    <3>1. head = ReplaceProxyAuthorization(IF injected /\ h # <<>> THEN SubSeq(h, 1, Len(h) - 1) ELSE h, v)
      BY <1>5, <1>8 DEF ConnectHead
    <3>2. (IF injected /\ h # <<>> THEN SubSeq(h, 1, Len(h) - 1) ELSE h) = a
      <4>1. CASE injected
        <5>1. /\ h \in Seq(A) /\ Len(h) = Len(a) + 1 /\ Len(a) \in Nat /\ DOMAIN a = 1 .. Len(a)
              /\ \A i \in 1 .. Len(a) : h[i] = a[i]
          BY <1>1, <1>2, <1>4, <4>1, AppendProperties, LenProperties
        <5>2. h # <<>> /\ Len(h) - 1 = Len(a)
          BY <5>1
        <5>3. SubSeq(h, 1, Len(a)) = [i \in 1 .. Len(a) |-> h[i]]
          BY <5>1
        <5>4. a = [i \in 1 .. Len(a) |-> a[i]]
          BY <1>1, <5>1
        <5> QED  BY <4>1, <5>1, <5>2, <5>3, <5>4
      <4>2. CASE ~injected
        BY <1>4, <4>2
      <4> QED  BY <4>1, <4>2
    <3> QED  BY <3>1, <3>2 DEF ReplaceProxyAuthorization
  <2>2. HasReplaced(A, a, head, "proxy-authorization", v)
    BY <1>1, <1>2, <2>1, ReplacedIs
  <2> QED  BY <1>8, <2>2 DEF SentKnown, HasReplaced, a
<1>9. CASE ask.form = "connect" /\ verdict.route # "http-connect"
  <2>1. head = <<>> /\ v = "none"
    BY <1>5, <1>9
  <2>2. <<>> \in Seq(A) /\ Places(<<>>, "proxy-authorization") = {}
    BY DEF Places
  <2>3. Values(head, "proxy-authorization") = <<>>
    BY <2>1, <2>2, ValuesAre
  <2> QED  BY <1>9, <2>1, <2>3 DEF SentKnown
<1> QED  BY <1>6, <1>7, <1>8, <1>9

LEMMA CredentialsApart == ASSUME RequestInv PROVE CredentialsStayApart
<1> SUFFICES ASSUME step = "sent" PROVE CredentialsStayApart
  BY DEF CredentialsStayApart
<1> PICK c : c = Credentials
  OBVIOUS
<1> PICK h : h = Canonical[ask.host]
  OBVIOUS
<1> PICK v : v = IF verdict.route = "http-connect" THEN verdict.creds.header ELSE "none"
  OBVIOUS
<1> PICK out : out = Values(head, "proxy-authorization")
  OBVIOUS
<1>1. out = IF v = "none" THEN <<>> ELSE <<v>>
  BY SentIs DEF SentKnown
<1>2. /\ MayGoOn /\ verdict.route = Route(h) /\ c.refused = "none"
      /\ verdict.creds = IF Route(h) \in {"direct", "non-target"} THEN NoCreds ELSE c.creds
  BY DecideIs DEF RequestInv, DecisionKnown
<1>3. CredentialsKnown(c)
  BY CredentialsAre DEF RequestInv
<1>4. /\ Route(h) \in {"direct", "non-target", setup.upstream}
      /\ Route(h) \notin {"direct", "non-target"} => setup.upstream # "none"
      /\ setup.require \in BOOLEAN
  BY CaseKnown DEF Route, RequestInv, IsSetup
<1> PICK presented : presented = {out[i] : i \in DOMAIN out} \cup {verdict.creds.socks}
  OBVIOUS
<1>5. presented \subseteq {v, verdict.creds.socks} /\ (v = "none" => presented = {verdict.creds.socks})
  BY <1>1
<1>6. CASE Route(h) \in {"direct", "non-target"}
  <2>1. verdict.creds = NoCreds /\ v = "none" /\ verdict.creds.socks = "none"
    BY <1>2, <1>6 DEF NoCreds
  <2>2. out = <<>> /\ presented = {"none"} /\ Len(out) = 0
    BY <1>1, <1>5, <2>1
  <2> QED  BY <1>2, <1>4, <1>6, <2>1, <2>2 DEF CredentialsStayApart, MayGoOn
<1>7. CASE Route(h) \notin {"direct", "non-target"}
  <2>1. verdict.creds = c.creds /\ setup.upstream # "none" /\ verdict.route = Route(h)
    BY <1>2, <1>4, <1>7
  <2>2. v = IF verdict.route = "http-connect" THEN c.creds.header ELSE "none"
    BY <2>1
  <2>3. presented \subseteq {"none", c.creds.header, c.creds.socks}
    BY <1>5, <2>1, <2>2
  <2>4. Len(out) <= 1 /\ (out = <<>> <=> v = "none")
    <3>1. CASE v = "none"
      BY <1>1, <3>1
    <3>2. CASE v # "none"
      <4>1. out = <<v>>
        BY <1>1, <3>2
      <4>2. Len(<<v>>) = 1 /\ <<v>> # <<>>
        OBVIOUS
      <4>3. Len(out) = 1 /\ out # <<>>
        BY ONLY <4>1, <4>2, Zenon
      <4> QED  BY ONLY <3>2, <4>3
    <3> QED  BY <3>1, <3>2
  <2>5. /\ setup.token => presented \cap {"token", "mapped", "badtoken"} = {}
        /\ "own" \in presented => Gave({"token"}) \/ (~Has("proxy-authorization") /\ setup.listener = "main")
        /\ "user" \in presented => Gave({"mapped"})
        /\ c.creds.header = "none" <=> c.creds.auth = "none"
    BY <1>2, <1>3, <2>1, <2>3 DEF CredentialsKnown
  <2>6. setup.require => Gave({"token", "mapped"})
    BY <1>2 DEF MayGoOn
  <2> QED  BY <1>7, <2>1, <2>2, <2>4, <2>5, <2>6 DEF CredentialsStayApart
<1> QED  BY <1>6, <1>7

LEMMA RulesKept == ASSUME RequestInv PROVE RulesAreKept
<1>1. CASE step \in {"raw", "read"}
  <2>1. verdict.refused \in {"none", "bad-request"} /\ verdict.denied = FALSE
    <3>1. NoVerdict.refused = "none" /\ NoVerdict.denied = FALSE
      BY DEF NoVerdict
    <3>2. Refusal("bad-request", "bad_request").refused = "bad-request" /\ Refusal("bad-request", "bad_request").denied = FALSE
      BY DEF NoVerdict, Refusal
    <3>3. verdict \in {NoVerdict, Refusal("bad-request", "bad_request")}
      BY <1>1 DEF RequestInv
    <3> QED  BY <3>1, <3>2, <3>3
  <2> QED  BY <1>1, <2>1 DEF RulesAreKept
<1>2. CASE step \in {"decided", "sent"}
  <2> PICK h : h = Canonical[ask.host]
    OBVIOUS
  <2>1. DecisionKnown(verdict) /\ (step = "sent" => verdict.refused = "none")
    BY <1>2, DecideIs DEF RequestInv
  <2>2. /\ verdict.refused \in {"denied", "budget"} => MayGoOn
        /\ verdict.denied <=> verdict.refused = "denied"
        /\ step = "sent" =>
             /\ MayGoOn /\ ~setup.tripped /\ ~(ask.mine /\ h \in SelfHosts)
             /\ {h, Embedded[h]} \cap setup.deny = {} /\ verdict.route = Route(h)
    BY <2>1 DEF DecisionKnown
  <2>3. Route(h) = "non-target" <=> h \in setup.direct
    BY CaseKnown DEF Route, Matches, RequestInv, IsSetup
  <2> QED  BY <2>2, <2>3 DEF RulesAreKept, MayGoOn
<1> QED  BY <1>1, <1>2 DEF RequestInv

LEMMA HeadClean == ASSUME RequestInv PROVE HeadIsClean
<1> SUFFICES ASSUME step = "sent" PROVE HeadIsClean
  BY DEF HeadIsClean
<1> PICK v : v = IF verdict.route = "http-connect" THEN verdict.creds.header ELSE "none"
  OBVIOUS
<1>1. SentKnown(v)
  BY SentIs
<1> QED  BY <1>1 DEF HeadIsClean, SentKnown, Forwards

\* What is asked of the meter and what it asks for in turn, for any requests and rules: the credentials
\* stay apart, the rules are kept whatever the spelling of a host, and the head that goes out is clean.
THEOREM RequestsAreKept == RequestSpec => []RequestIsKept
<1>1. case \in Cases /\ InitRequest => RequestInv
  BY DEF InitRequest, RequestInv
<1>2. RequestInv /\ [NextRequest]_requestVars => RequestInv'
  BY RequestStep
<1>3. RequestInv => RequestIsKept
  BY CredentialsApart, RulesKept, HeadClean DEF RequestIsKept
<1> QED  BY <1>1, <1>2, <1>3, PTL DEF RequestSpec
=============================================================================
