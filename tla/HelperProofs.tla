---------------------------- MODULE HelperProofs ----------------------------
(***************************************************************************)
(* Theorems about the helpers that a job's script loads, Hooks, Launches   *)
(* and Recorder, for any job: any number of exchanges, redirects, reused   *)
(* request objects, chunks and closes; any start, proxies, browsers and    *)
(* contexts; any requests and sockets of a context, and any order of the   *)
(* browser's events and the driver's answers.                              *)
(*                                                                         *)
(* What carries the first: where an exchange's event can be (IsKept), that *)
(* whoever finishes a record has a reason, which is the end of the body    *)
(* unless something cut it short (Sealed), and whose the marks on the      *)
(* request objects are (ObjectMarks).  The second: where a proxy that the  *)
(* helper rewrote leads (Leads), with what it remembers and has said of    *)
(* it, and the marks on a browser that a count leaves (MarksTell).  The    *)
(* third: where a request is between its start and its one event (Where),  *)
(* what is already decided of one that waits for its address (Collected,   *)
(* CandidateIs), and what routes have to do with it (Routed).              *)
(*                                                                         *)
(* And a theorem about PageLoad, for any page, requests and endings: where *)
(* a request of the attempt is (Placed), that these and the counters add   *)
(* up to what was taken (Whole), and what is known of a reply of the       *)
(* meter's own (Known).                                                    *)
(*                                                                         *)
(* And one about Verdict, for any page loads and replies: what was listed  *)
(* is in order (RankedIs), code is as at first or has one more, that the   *)
(* replay proved (AsListed, OneProven), and what a verdict rests on        *)
(* (Exchange, Within, VerdictSays).                                        *)
(***************************************************************************)
EXTENDS Hooks, Launches, Recorder, PageLoad, Verdict, SumLemmas

-----------------------------------------------------------------------------
(* Hooks.                                                                   *)

Events == [body : Nat \cup {"unknown"}, failed : BOOLEAN]

ExchTypes ==
  [Exchanges -> [at : {"new", "out", "answered", "raised", "collected"}, chunks : Nat, ended : BOOLEAN,
                 broken : BOOLEAN, closes : Nat, cut : BOOLEAN]]

HooksTypes ==
  /\ doing \in Jobs
  /\ exch \in ExchTypes
  /\ calls \in [Exchanges -> SUBSET Finishers]
  /\ record \in [Exchanges -> {"none", "waits", "taken", "written"}]
  /\ noted \in [Exchanges -> Seq(Events)]

\* Nothing of the exchange was read, closed or finished.
Untouched(x) ==
  calls[x] = {} /\ record[x] = "none" /\ ~exch[x].ended /\ ~exch[x].broken /\ ~exch[x].cut

IsKept(x) ==
  /\ exch[x].at \in {"new", "out"} => Untouched(x) /\ noted[x] = <<>>
  /\ exch[x].at = "raised" => Untouched(x) /\ (noted[x] = <<>> \/ (Len(noted[x]) = 1 /\ noted[x][1].failed))
  /\ exch[x].at \in {"answered", "collected"} => record[x] # "none"
  /\ record[x] \in {"waits", "taken"} => noted[x] = <<>>
  /\ record[x] = "written" => Len(noted[x]) = 1
  /\ exch[x].at = "collected" /\ record[x] = "waits" => calls[x] # {}

Sealed(x) ==
  /\ exch[x].ended => exch[x].chunks = doing.body[x]
  /\ calls[x] # {} \/ record[x] \in {"taken", "written"} =>
       exch[x].ended \/ exch[x].broken \/ exch[x].cut \/ exch[x].at = "collected"
  /\ record[x] = "written" /\ exch[x].ended /\ ~exch[x].cut => noted[x][1].body = Counted(x, doing.body[x])
  /\ record[x] = "written" /\ exch[x].broken /\ ~exch[x].cut /\ doing.client = "httpx" => noted[x][1].failed

Marked(o) == \E y \in Exchanges : Object(y) = o /\ Over(y)
ObjectMarks ==
  /\ \A x \in Exchanges : Answered(x) => Object(x) \in responded
  /\ \A x \in Exchanges : exch[x].at # "new" => \A y \in Before(x) : Answered(y)
  /\ \A o \in responded : Marked(o)
  /\ \A x \in Exchanges : exch[x].at = "raised" /\ noted[x] = <<>> =>
       \E y \in Exchanges \ {x} : Object(y) = Object(x) /\ Over(y)

HooksInv == HooksTypes /\ (\A x \in Exchanges : IsKept(x) /\ Sealed(x)) /\ ObjectMarks

-----------------------------------------------------------------------------
\* Counting up stays in the numbers.
LEMMA OneMore == \A n \in Nat : n + 1 \in Nat
OBVIOUS

\* What is not touched stays as it is.
LEMMA Elsewhere ==
  ASSUME NEW x \in Exchanges, IsKept(x), Sealed(x), doing' = doing,
         exch'[x] = exch[x], calls'[x] = calls[x], record'[x] = record[x], noted'[x] = noted[x]
  PROVE  IsKept(x)' /\ Sealed(x)'
BY DEF IsKept, Sealed, Untouched, Counted

\* An answered response may be collected; the marks do not change with that.
LEMMA MarksStay ==
  ASSUME ObjectMarks, doing' = doing, responded' = responded,
         \A x \in Exchanges : exch'[x].at = exch[x].at \/ (exch[x].at = "answered" /\ exch'[x].at = "collected"),
         \A x \in Exchanges : exch[x].at = "raised" => noted'[x] = noted[x]
  PROVE  ObjectMarks'
<1>1. \A x \in Exchanges : (Answered(x)' <=> Answered(x)) /\ (Over(x)' <=> Over(x)) /\ Object(x)' = Object(x)
  BY DEF Answered, Over, Object
<1>2. \A x \in Exchanges : Before(x)' = Before(x)
  BY DEF Before
<1>3. \A o \in responded' : Marked(o)'
  BY <1>1 DEF ObjectMarks, Marked
<1>4. \A x \in Exchanges : Answered(x)' => Object(x)' \in responded'
  BY <1>1 DEF ObjectMarks
<1>5. \A x \in Exchanges : exch'[x].at # "new" => \A y \in Before(x)' : Answered(y)'
  BY <1>1, <1>2 DEF ObjectMarks, Before
<1>6. \A x \in Exchanges : exch'[x].at = "raised" /\ noted'[x] = <<>> =>
        \E y \in Exchanges \ {x} : Object(y)' = Object(x)' /\ Over(y)'
  BY <1>1 DEF ObjectMarks
<1> QED  BY <1>3, <1>4, <1>5, <1>6 DEF ObjectMarks

\* A chunk is read.
LEMMA ReadKeeps ==
  ASSUME HooksInv, NEW x \in Exchanges, Read(x)
  PROVE  HooksInv'
<1> USE DEF HooksInv
<1> exch[x].chunks \in Nat
  BY DEF HooksTypes, ExchTypes
<1> exch[x].chunks + 1 \in Nat
  BY OneMore, Zenon
<1>1. exch' \in ExchTypes /\ exch'[x].at = exch[x].at /\ exch'[x].broken = exch[x].broken /\ exch'[x].cut = exch[x].cut
      /\ ~exch[x].ended /\ ~exch'[x].ended
  BY DEF Read, Readable, HooksTypes, ExchTypes
<1>2. HooksTypes'
  BY <1>1 DEF Read, Readable, Finishers, HooksTypes
<1>3. IsKept(x)'
  BY <1>1 DEF Read, Readable, HooksTypes, IsKept, Sealed, Untouched
<1>4. Sealed(x)'
  BY <1>1 DEF Read, Readable, HooksTypes, IsKept, Sealed, Untouched, Counted
<1>5. \A z \in Exchanges \ {x} : IsKept(z)' /\ Sealed(z)'
  BY Elsewhere DEF Read, Readable, HooksTypes, ExchTypes
<1>6. ObjectMarks'
  <2>1. \A z \in Exchanges : exch[z].at = "raised" => noted'[z] = noted[z]
    BY DEF Read, Readable, HooksTypes, IsKept, Untouched
  <2>2. \A z \in Exchanges : exch'[z].at = exch[z].at \/ (exch[z].at = "answered" /\ exch'[z].at = "collected")
    BY <1>1 DEF Read, Readable, HooksTypes, ExchTypes
  <2> QED  BY <2>1, <2>2, MarksStay DEF Read, Readable
<1> QED  BY <1>2, <1>3, <1>4, <1>5, <1>6

\* The body ends.
LEMMA EndReadKeeps ==
  ASSUME HooksInv, NEW x \in Exchanges, EndRead(x)
  PROVE  HooksInv'
<1> USE DEF HooksInv
<1>1. exch' \in ExchTypes /\ exch'[x].at = exch[x].at /\ exch'[x].broken = exch[x].broken /\ exch'[x].cut = exch[x].cut
      /\ exch'[x].ended /\ exch'[x].chunks = exch[x].chunks
  BY DEF EndRead, Readable, HooksTypes, ExchTypes
<1>2. HooksTypes'
  BY <1>1 DEF EndRead, Readable, Finishers, HooksTypes
<1>3. IsKept(x)'
  BY <1>1 DEF EndRead, Readable, HooksTypes, IsKept, Sealed, Untouched
<1>4. Sealed(x)'
  BY <1>1 DEF EndRead, Readable, HooksTypes, IsKept, Sealed, Untouched, Counted
<1>5. \A z \in Exchanges \ {x} : IsKept(z)' /\ Sealed(z)'
  BY Elsewhere DEF EndRead, Readable, HooksTypes, ExchTypes
<1>6. ObjectMarks'
  <2>1. \A z \in Exchanges : exch[z].at = "raised" => noted'[z] = noted[z]
    BY DEF EndRead, Readable, HooksTypes, IsKept, Untouched
  <2>2. \A z \in Exchanges : exch'[z].at = exch[z].at \/ (exch[z].at = "answered" /\ exch'[z].at = "collected")
    BY <1>1 DEF EndRead, Readable, HooksTypes, ExchTypes
  <2> QED  BY <2>1, <2>2, MarksStay DEF EndRead, Readable
<1> QED  BY <1>2, <1>3, <1>4, <1>5, <1>6

\* A read fails.
LEMMA BreakReadKeeps ==
  ASSUME HooksInv, NEW x \in Exchanges, BreakRead(x)
  PROVE  HooksInv'
<1> USE DEF HooksInv
<1>1. exch' \in ExchTypes /\ exch'[x].at = exch[x].at /\ exch'[x].ended = exch[x].ended /\ exch'[x].cut = exch[x].cut
      /\ exch'[x].broken /\ exch'[x].chunks = exch[x].chunks
  BY ZenonT(60) DEF BreakRead, Readable, HooksTypes, ExchTypes
<1>2. HooksTypes'
  BY <1>1 DEF BreakRead, Readable, Finishers, HooksTypes
<1>3. IsKept(x)'
  BY <1>1 DEF BreakRead, Readable, HooksTypes, IsKept, Sealed, Untouched
<1>4. Sealed(x)'
  BY <1>1 DEF BreakRead, Readable, HooksTypes, IsKept, Sealed, Untouched, Counted
<1>5. \A z \in Exchanges \ {x} : IsKept(z)' /\ Sealed(z)'
  BY Elsewhere DEF BreakRead, Readable, HooksTypes, ExchTypes
<1>6. ObjectMarks'
  <2>1. \A z \in Exchanges : exch[z].at = "raised" => noted'[z] = noted[z]
    BY DEF BreakRead, Readable, HooksTypes, IsKept, Untouched
  <2>2. \A z \in Exchanges : exch'[z].at = exch[z].at \/ (exch[z].at = "answered" /\ exch'[z].at = "collected")
    BY <1>1 DEF BreakRead, Readable, HooksTypes, ExchTypes
  <2> QED  BY <2>1, <2>2, MarksStay DEF BreakRead, Readable
<1> QED  BY <1>2, <1>3, <1>4, <1>5, <1>6

\* The response is closed.
LEMMA CloseKeeps ==
  ASSUME HooksInv, NEW x \in Exchanges, Close(x)
  PROVE  HooksInv'
<1> USE DEF HooksInv
<1> exch[x].closes \in Nat
  BY DEF HooksTypes, ExchTypes
<1> exch[x].closes + 1 \in Nat
  BY OneMore, Zenon
<1>1. exch' \in ExchTypes /\ exch'[x].at = exch[x].at /\ exch'[x].ended = exch[x].ended /\ exch'[x].broken = exch[x].broken
      /\ exch'[x].cut = (exch[x].cut \/ ~exch[x].ended) /\ exch'[x].chunks = exch[x].chunks
  BY DEF Close, HooksTypes, ExchTypes
<1>2. HooksTypes'
  BY <1>1 DEF Close, Finishers, HooksTypes
<1>3. IsKept(x)'
  BY <1>1 DEF Close, HooksTypes, IsKept, Sealed, Untouched
<1>4. Sealed(x)'
  BY <1>1 DEF Close, HooksTypes, IsKept, Sealed, Untouched, Counted
<1>5. \A z \in Exchanges \ {x} : IsKept(z)' /\ Sealed(z)'
  BY Elsewhere DEF Close, HooksTypes, ExchTypes
<1>6. ObjectMarks'
  <2>1. \A z \in Exchanges : exch[z].at = "raised" => noted'[z] = noted[z]
    BY DEF Close, HooksTypes, IsKept, Untouched
  <2>2. \A z \in Exchanges : exch'[z].at = exch[z].at \/ (exch[z].at = "answered" /\ exch'[z].at = "collected")
    BY <1>1 DEF Close, HooksTypes, ExchTypes
  <2> QED  BY <2>1, <2>2, MarksStay DEF Close
<1> QED  BY <1>2, <1>3, <1>4, <1>5, <1>6

\* It is collected.
LEMMA CollectKeeps ==
  ASSUME HooksInv, NEW x \in Exchanges, Collect(x)
  PROVE  HooksInv'
<1> USE DEF HooksInv
<1>1. exch' \in ExchTypes /\ exch'[x].ended = exch[x].ended /\ exch'[x].broken = exch[x].broken /\ exch'[x].cut = exch[x].cut /\ exch'[x].chunks = exch[x].chunks
      /\ exch[x].at = "answered" /\ exch'[x].at = "collected"
  BY DEF Collect, HooksTypes, ExchTypes
<1>2. HooksTypes'
  BY <1>1 DEF Collect, Finishers, HooksTypes
<1>3. IsKept(x)'
  BY <1>1 DEF Collect, HooksTypes, IsKept, Sealed, Untouched
<1>4. Sealed(x)'
  BY <1>1 DEF Collect, HooksTypes, IsKept, Sealed, Untouched, Counted
<1>5. \A z \in Exchanges \ {x} : IsKept(z)' /\ Sealed(z)'
  BY Elsewhere DEF Collect, HooksTypes, ExchTypes
<1>6. ObjectMarks'
  <2>1. \A z \in Exchanges : exch[z].at = "raised" => noted'[z] = noted[z]
    BY DEF Collect, HooksTypes, IsKept, Untouched
  <2>2. \A z \in Exchanges : exch'[z].at = exch[z].at \/ (exch[z].at = "answered" /\ exch'[z].at = "collected")
    BY <1>1 DEF Collect, HooksTypes, ExchTypes
  <2> QED  BY <2>1, <2>2, MarksStay DEF Collect
<1> QED  BY <1>2, <1>3, <1>4, <1>5, <1>6

\* A finisher takes the lock.
LEMMA TakeKeeps ==
  ASSUME HooksInv, NEW x \in Exchanges, NEW f \in Finishers, Take(x, f)
  PROVE  HooksInv'
<1> USE DEF HooksInv
<1>1. exch' \in ExchTypes /\ exch' = exch
  BY DEF Take, HooksTypes, ExchTypes
<1>2. HooksTypes'
  BY <1>1 DEF Take, Finishers, HooksTypes
<1>3. IsKept(x)'
  BY <1>1 DEF Take, HooksTypes, IsKept, Sealed, Untouched
<1>4. Sealed(x)'
  BY <1>1 DEF Take, HooksTypes, IsKept, Sealed, Untouched, Counted
<1>5. \A z \in Exchanges \ {x} : IsKept(z)' /\ Sealed(z)'
  BY Elsewhere DEF Take, HooksTypes, ExchTypes
<1>6. ObjectMarks'
  <2>1. \A z \in Exchanges : exch[z].at = "raised" => noted'[z] = noted[z]
    BY DEF Take, HooksTypes, IsKept, Untouched
  <2>2. \A z \in Exchanges : exch'[z].at = exch[z].at \/ (exch[z].at = "answered" /\ exch'[z].at = "collected")
    BY <1>1 DEF Take, HooksTypes, ExchTypes
  <2> QED  BY <2>1, <2>2, MarksStay DEF Take
<1> QED  BY <1>2, <1>3, <1>4, <1>5, <1>6

\* The first of them writes.
LEMMA WriteKeeps ==
  ASSUME HooksInv, NEW x \in Exchanges, WriteEvent(x)
  PROVE  HooksInv'
<1> USE DEF HooksInv
<1> DEFINE e == Event(Counted(x, exch[x].chunks), doing.client = "httpx" /\ exch[x].broken)
<1>1. e \in Events /\ e.body = Counted(x, exch[x].chunks) /\ e.failed = (doing.client = "httpx" /\ exch[x].broken)
  BY DEF Event, Events, Counted, HooksTypes, ExchTypes
<1>2. noted' = [noted EXCEPT ![x] = <<e>>]
  <2>1. noted' = [noted EXCEPT ![x] = Append(noted[x], e)] /\ noted[x] = <<>>
    BY DEF WriteEvent, IsKept
  <2>2. Append(<<>>, e) = <<e>>
    BY <1>1
  <2> QED  BY <2>1, <2>2
<1> HIDE DEF e
<1>3. noted'[x] = <<e>> /\ Len(noted'[x]) = 1 /\ noted'[x][1] = e /\ <<e>> \in Seq(Events)
  BY <1>1, <1>2 DEF HooksTypes
<1>4. HooksTypes'
  BY <1>2, <1>3 DEF WriteEvent, HooksTypes
<1>5. IsKept(x)'
  BY <1>3 DEF WriteEvent, HooksTypes, IsKept, Untouched
<1>6. Sealed(x)'
  BY <1>1, <1>3 DEF WriteEvent, HooksTypes, Sealed, Counted
<1>7. \A z \in Exchanges \ {x} : IsKept(z)' /\ Sealed(z)'
  BY <1>2, Elsewhere DEF WriteEvent, HooksTypes
<1>8. ObjectMarks'
  <2>1. exch[x].at # "raised"
    BY DEF WriteEvent, IsKept, Untouched
  <2> QED  BY <1>2, <2>1, MarksStay DEF WriteEvent, HooksTypes
<1> QED  BY <1>4, <1>5, <1>6, <1>7, <1>8

\* A request goes out: those before it in the same call were answered.
LEMMA SendKeeps ==
  ASSUME HooksInv, NEW x \in Exchanges, Send(x)
  PROVE  HooksInv'
<1> USE DEF HooksInv
<1>1. exch' \in ExchTypes /\ exch'[x] = [exch[x] EXCEPT !.at = "out"] /\ exch[x].at = "new"
      /\ \A z \in Exchanges \ {x} : exch'[z] = exch[z]
  BY DEF Send, HooksTypes, ExchTypes
<1>2. exch'[x].at = "out" /\ UNCHANGED <<exch[x].ended, exch[x].broken, exch[x].cut, exch[x].chunks>>
  BY <1>1 DEF HooksTypes, ExchTypes
<1>3. HooksTypes'
  BY <1>1 DEF Send, HooksTypes
<1>4. IsKept(x)' /\ Sealed(x)'
  BY <1>1, <1>2 DEF Send, IsKept, Sealed, Untouched
<1>5. \A z \in Exchanges \ {x} : IsKept(z)' /\ Sealed(z)'
  BY <1>1, Elsewhere DEF Send
<1>6. \A z \in Exchanges : (Answered(z)' <=> Answered(z)) /\ (Over(z)' <=> Over(z)) /\ Object(z)' = Object(z)
                          /\ Before(z)' = Before(z)
  BY <1>1, <1>2 DEF Send, Answered, Over, Object, Before
<1>7. ObjectMarks'
  <2>1. \A z \in Exchanges : Answered(z)' => Object(z)' \in responded'
    BY <1>6 DEF Send, ObjectMarks
  <2>2. \A z \in Exchanges : exch'[z].at # "new" => \A y \in Before(z)' : Answered(y)'
    BY <1>1, <1>6 DEF Send, ObjectMarks, Before
  <2>3. \A o \in responded' : Marked(o)'
    BY <1>6 DEF Send, ObjectMarks, Marked
  <2>4. \A z \in Exchanges : exch'[z].at = "raised" /\ noted'[z] = <<>> =>
          \E y \in Exchanges \ {z} : Object(y)' = Object(z)' /\ Over(y)'
    BY <1>1, <1>2, <1>6 DEF Send, ObjectMarks
  <2> QED  BY <2>1, <2>2, <2>3, <2>4 DEF ObjectMarks
<1> QED  BY <1>3, <1>4, <1>5, <1>7

\* It is answered, and its event written at once if the whole body is there.
LEMMA AnswerKeeps ==
  ASSUME HooksInv, NEW x \in Exchanges, Answer(x)
  PROVE  HooksInv'
<1> USE DEF HooksInv
<1> DEFINE whole == doing.early[x] \/ (doing.client = "requests" /\ doing.bodiless[x])
           e     == Event(Counted(x, doing.body[x]), FALSE)
<1>1. doing.body[x] \in Nat /\ whole \in BOOLEAN
  BY HooksAssumption DEF HooksTypes, IsJob
<1>2. e \in Events /\ e.body = Counted(x, doing.body[x]) /\ e.failed = FALSE
  BY <1>1 DEF Event, Events, Counted
<1>3. /\ exch[x].at = "out" /\ Untouched(x) /\ noted[x] = <<>>
      /\ exch' = [exch EXCEPT ![x].at = "answered", ![x].ended = whole, ![x].chunks = IF whole THEN doing.body[x] ELSE 0]
      /\ responded' = responded \cup {Object(x)}
      /\ record' = [record EXCEPT ![x] = IF whole THEN "written" ELSE "waits"]
      /\ noted' = [noted EXCEPT ![x] = IF whole THEN <<e>> ELSE <<>>]
      /\ UNCHANGED <<doing, calls>>
  <2>1. exch[x].at = "out" /\ Untouched(x) /\ noted[x] = <<>>
    BY DEF Answer, IsKept
  <2>2. noted' = IF whole THEN [noted EXCEPT ![x] = Append(noted[x], e)] ELSE noted
    BY DEF Answer
  <2>3. Append(<<>>, e) = <<e>>
    BY <1>2
  <2>4. noted = [noted EXCEPT ![x] = <<>>]
    BY <2>1 DEF HooksTypes
  <2>5. noted' = [noted EXCEPT ![x] = IF whole THEN <<e>> ELSE <<>>]
    BY <2>1, <2>2, <2>3, <2>4
  <2> QED  BY <2>1, <2>5 DEF Answer
<1> HIDE DEF whole, e
<1> DEFINE chunks == IF whole THEN doing.body[x] ELSE 0
<1> chunks \in Nat /\ (whole => chunks = doing.body[x])
  BY <1>1
<1> exch' = [exch EXCEPT ![x].at = "answered", ![x].ended = whole, ![x].chunks = chunks]
  BY <1>3
<1> Untouched(x)
  BY <1>3
<1> HIDE DEF chunks
<1>4. exch' \in ExchTypes /\ exch'[x].at = "answered" /\ exch'[x].ended = whole /\ ~exch'[x].broken /\ ~exch'[x].cut
      /\ (whole => exch'[x].chunks = doing.body[x]) /\ \A z \in Exchanges \ {x} : exch'[z] = exch[z]
  BY <1>1, ZenonT(60) DEF HooksTypes, ExchTypes, Untouched
<1>5. /\ <<e>> \in Seq(Events) /\ <<>> \in Seq(Events) /\ Len(<<e>>) = 1 /\ <<e>>[1] = e
      /\ noted'[x] = IF whole THEN <<e>> ELSE <<>>
  BY <1>2, <1>3 DEF HooksTypes
<1>6. HooksTypes'
  BY <1>3, <1>4, <1>5 DEF HooksTypes
<1>7. IsKept(x)' /\ Sealed(x)'
  BY <1>1, <1>2, <1>3, <1>4, <1>5 DEF HooksTypes, IsKept, Sealed, Untouched, Counted
<1>8. \A z \in Exchanges \ {x} : IsKept(z)' /\ Sealed(z)'
  BY <1>3, <1>4, Elsewhere DEF HooksTypes
<1>9. ObjectMarks'
  <2>1. /\ \A z \in Exchanges \ {x} : (Answered(z)' <=> Answered(z)) /\ (Over(z)' <=> Over(z))
        /\ Answered(x)' /\ Over(x)' /\ ~Answered(x) /\ ~Over(x)
        /\ \A z \in Exchanges : Object(z)' = Object(z) /\ Before(z)' = Before(z)
    BY <1>3, <1>4 DEF Answered, Over, Object, Before
  <2>2. \A z \in Exchanges : Answered(z)' => Object(z)' \in responded'
    BY <1>3, <2>1 DEF ObjectMarks
  <2>3. \A z \in Exchanges : exch'[z].at # "new" => \A y \in Before(z)' : Answered(y)'
    BY <1>3, <1>4, <2>1 DEF ObjectMarks, Before
  <2>4. \A o \in responded' : Marked(o)'
    BY <1>3, <2>1 DEF ObjectMarks, Marked
  <2>5. \A z \in Exchanges : exch'[z].at = "raised" /\ noted'[z] = <<>> =>
          \E y \in Exchanges \ {z} : Object(y)' = Object(z)' /\ Over(y)'
    BY <1>3, <1>4, <2>1, ZenonT(60) DEF ObjectMarks, HooksTypes
  <2> QED  BY <2>2, <2>3, <2>4, <2>5 DEF ObjectMarks
<1> QED  BY <1>6, <1>7, <1>8, <1>9

\* It raises: of the wrappers only its own may write, since the hops before it were answered.
LEMMA RaiseKeeps ==
  ASSUME HooksInv, NEW x \in Exchanges, Raise(x)
  PROVE  HooksInv'
<1> USE DEF HooksInv
<1> DEFINE e == Event("unknown", TRUE)
<1>1. e \in Events /\ e.failed = TRUE
  BY DEF Event, Events
<1>2. exch[x].at = "out" /\ Untouched(x) /\ noted[x] = <<>> /\ \A y \in Before(x) : Answered(y)
  BY DEF Raise, IsKept, ObjectMarks
<1>3. Failures(x) = IF Object(x) \in responded THEN {} ELSE {x}
  <2>1. \A y \in Before(x) : Object(y) \in responded
    BY <1>2 DEF ObjectMarks, Before
  <2>2. \A y \in Wrappers(x) : y = x \/ y \in Before(x)
    BY DEF Wrappers
  <2>3. x \in Wrappers(x)
    BY DEF Wrappers
  <2> QED  BY <2>1, <2>2, <2>3 DEF Failures
<1>4. /\ exch' = [exch EXCEPT ![x].at = "raised"] /\ UNCHANGED <<doing, calls, record>>
      /\ responded' = IF Object(x) \in responded THEN responded ELSE responded \cup {Object(x)}
  <2>1. {Object(y) : y \in {}} = {} /\ {Object(y) : y \in {x}} = {Object(x)}
    OBVIOUS
  <2> QED  BY <1>3, <2>1 DEF Raise
<1>5. noted' = [noted EXCEPT ![x] = IF Object(x) \in responded THEN <<>> ELSE <<e>>]
  <2>1. Append(<<>>, e) = <<e>>
    BY <1>1
  <2>2. noted' = [y \in Exchanges |-> IF y \in Failures(x) THEN Append(noted[y], e) ELSE noted[y]]
    BY DEF Raise
  <2>3. \A y \in Exchanges : y \in Failures(x) <=> y = x /\ Object(x) \notin responded
    BY <1>3
  <2>4. noted' = [y \in Exchanges |-> IF y = x THEN IF Object(x) \in responded THEN <<>> ELSE <<e>> ELSE noted[y]]
    BY <1>2, <2>1, <2>2, <2>3
  <2> QED  BY <2>4 DEF HooksTypes
<1> HIDE DEF e
<1>6. exch' \in ExchTypes /\ exch'[x].at = "raised" /\ ~exch'[x].ended /\ ~exch'[x].broken /\ ~exch'[x].cut
      /\ \A z \in Exchanges \ {x} : exch'[z] = exch[z]
  BY <1>2, <1>4 DEF HooksTypes, ExchTypes, Untouched
<1>7. /\ <<e>> \in Seq(Events) /\ <<>> \in Seq(Events) /\ Len(<<e>>) = 1 /\ <<e>>[1] = e /\ <<e>> # <<>>
      /\ noted'[x] = IF Object(x) \in responded THEN <<>> ELSE <<e>>
  BY <1>1, <1>5 DEF HooksTypes
<1>8. HooksTypes'
  BY <1>4, <1>5, <1>6, <1>7 DEF HooksTypes
<1>9. IsKept(x)' /\ Sealed(x)'
  BY <1>1, <1>2, <1>4, <1>6, <1>7 DEF IsKept, Sealed, Untouched
<1>10. \A z \in Exchanges \ {x} : IsKept(z)' /\ Sealed(z)'
  BY <1>4, <1>5, <1>6, Elsewhere DEF HooksTypes
<1>11. ObjectMarks'
  <2>1. /\ \A z \in Exchanges : (Answered(z)' <=> Answered(z)) /\ Object(z)' = Object(z) /\ Before(z)' = Before(z)
        /\ \A z \in Exchanges \ {x} : (Over(z)' <=> Over(z))
        /\ Over(x)' /\ ~Over(x) /\ ~Answered(x)
    BY <1>2, <1>4, <1>6 DEF Answered, Over, Object, Before
  <2>2. \A z \in Exchanges : Answered(z)' => Object(z)' \in responded'
    BY <1>4, <2>1 DEF ObjectMarks
  <2>3. \A z \in Exchanges : exch'[z].at # "new" => \A y \in Before(z)' : Answered(y)'
    BY <1>2, <1>4, <1>6, <2>1 DEF ObjectMarks, Before
  <2>4. \A o \in responded' : Marked(o)'
    BY <1>4, <2>1 DEF ObjectMarks, Marked
  <2>5. ASSUME NEW z \in Exchanges, exch'[z].at = "raised", noted'[z] = <<>>
        PROVE  \E y \in Exchanges \ {z} : Object(y)' = Object(z)' /\ Over(y)'
    <3>1. CASE z = x
      <4>1. Object(x) \in responded
        BY <1>7, <2>5, <3>1
      <4>2. PICK y \in Exchanges : Object(y) = Object(x) /\ Over(y)
        BY <4>1 DEF ObjectMarks, Marked
      <4> QED  BY <2>1, <3>1, <4>2
    <3>2. CASE z # x
      <4>1. PICK y \in Exchanges \ {z} : Object(y) = Object(z) /\ Over(y)
        BY <1>5, <1>6, <2>5, <3>2 DEF ObjectMarks, HooksTypes
      <4> QED  BY <2>1, <4>1
    <3> QED  BY <3>1, <3>2
  <2> QED  BY <2>2, <2>3, <2>4, <2>5 DEF ObjectMarks
<1> QED  BY <1>8, <1>9, <1>10, <1>11

\* No exchange has begun.
LEMMA HooksStart == InitHooks => HooksInv
<1> SUFFICES ASSUME InitHooks PROVE HooksInv
  OBVIOUS
<1>1. exch \in ExchTypes /\ \A x \in Exchanges : exch[x].at = "new" /\ ~exch[x].ended /\ ~exch[x].broken /\ ~exch[x].cut
  BY DEF InitHooks, ExchTypes
<1>2. HooksTypes
  BY <1>1 DEF InitHooks, HooksTypes
<1>3. \A x \in Exchanges : IsKept(x) /\ Sealed(x)
  BY <1>1 DEF InitHooks, IsKept, Sealed, Untouched
<1>4. ObjectMarks
  BY <1>1 DEF InitHooks, ObjectMarks, Answered
<1> QED  BY <1>2, <1>3, <1>4 DEF HooksInv

\* Every step of the hooks.
LEMMA HooksStep == HooksInv /\ [NextHooks]_hooksVars => HooksInv'
<1> SUFFICES ASSUME HooksInv, [NextHooks]_hooksVars PROVE HooksInv'
  OBVIOUS
<1>1. CASE UNCHANGED hooksVars
  <2>1. \A x \in Exchanges : IsKept(x)' /\ Sealed(x)'
    BY <1>1, Elsewhere DEF hooksVars, HooksInv
  <2>2. ObjectMarks'
    BY <1>1, MarksStay DEF hooksVars, HooksInv
  <2> QED  BY <1>1, <2>1, <2>2 DEF hooksVars, HooksInv, HooksTypes
<1>2. CASE NextHooks
  BY <1>2, SendKeeps, AnswerKeeps, RaiseKeeps, ReadKeeps, EndReadKeeps, BreakReadKeeps, CloseKeeps, CollectKeeps,
     WriteKeeps, TakeKeeps
  DEF NextHooks
<1> QED  BY <1>1, <1>2

\* The invariant says it of each exchange.
LEMMA HooksInvEnough == HooksInv => EventPerExchange
<1> SUFFICES ASSUME HooksInv, NEW x \in Exchanges
             PROVE  LET n == noted[x] IN
                    /\ Len(n) <= 1
                    /\ exch[x].at = "collected" /\ calls[x] = {} /\ record[x] # "taken" => Len(n) = 1
                    /\ exch[x].at = "raised" =>
                         \/ Len(n) = 1 /\ n[1].failed
                         \/ \E y \in Exchanges \ {x} : Object(y) = Object(x) /\ Over(y)
                    /\ n # <<>> /\ exch[x].ended /\ ~exch[x].cut => n[1].body = Counted(x, doing.body[x])
                    /\ n # <<>> /\ exch[x].broken /\ ~exch[x].cut /\ doing.client = "httpx" => n[1].failed
  BY DEF EventPerExchange
<1> USE DEF HooksInv
<1>1. noted[x] = <<>> \/ Len(noted[x]) = 1
  BY DEF IsKept, HooksTypes, ExchTypes
<1>2. Len(<<>>) = 0
  OBVIOUS
<1>3. exch[x].at = "collected" /\ calls[x] = {} /\ record[x] # "taken" => Len(noted[x]) = 1
  BY DEF IsKept, HooksTypes
<1>4. exch[x].at = "raised" =>
        \/ Len(noted[x]) = 1 /\ noted[x][1].failed
        \/ \E y \in Exchanges \ {x} : Object(y) = Object(x) /\ Over(y)
  BY DEF IsKept, ObjectMarks
<1>5. noted[x] # <<>> /\ (exch[x].ended \/ exch[x].broken) => record[x] = "written"
  BY DEF IsKept, HooksTypes, ExchTypes, Untouched
<1>6. noted[x] # <<>> /\ exch[x].ended /\ ~exch[x].cut => noted[x][1].body = Counted(x, doing.body[x])
  BY <1>5 DEF Sealed
<1>7. noted[x] # <<>> /\ exch[x].broken /\ ~exch[x].cut /\ doing.client = "httpx" => noted[x][1].failed
  BY <1>5 DEF Sealed
<1>8. Len(noted[x]) <= 1
  <2>1. Len(noted[x]) \in {0, 1}
    BY ONLY <1>1, <1>2, Zenon
  <2>2. \A n \in {0, 1} : n <= 1
    OBVIOUS
  <2> QED  BY ONLY <2>1, <2>2, Zenon
<1> QED  BY <1>3, <1>4, <1>6, <1>7, <1>8

\* Every exchange that was answered has one event when its response is gone, however its
\* readers, closers and finaliser raced, and never two; what the event says of the body
\* and of a failure is what happened: for any job.
THEOREM ExchangeHasItsEvent == HooksSpec => []EventPerExchange
<1>1. InitHooks => HooksInv
  BY HooksStart
<1>2. HooksInv /\ [NextHooks]_hooksVars => HooksInv'
  BY HooksStep
<1>3. HooksInv => EventPerExchange
  BY HooksInvEnough
<1> QED  BY <1>1, <1>2, <1>3, PTL DEF HooksSpec

-----------------------------------------------------------------------------
(* Launches.                                                                *)

\* What a script may ask for, and what comes of it.
Wanted  == {NoProxy} \cup UNION {s.proxies : s \in Starts}
Proxies == Wanted \cup {[server |-> u, user |-> p.user] : u \in MeterUrls, p \in Wanted}
KeptBrowsers ==
  [kind : {"none", "normal", "persistent", "bare"}, asked : Wanted, proxy : Proxies, ours : BOOLEAN,
   wrapped : BOOLEAN, marks : SUBSET {"browser", "context"}, wrote : Nat]
KeptContexts == [of : BrowserIds, asked : Wanted, proxy : Proxies, ours : BOOLEAN]

LaunchTypes ==
  /\ start \in Starts /\ IsStart(start)
  /\ launched \in [BrowserIds -> KeptBrowsers] /\ contexts \in Seq(KeptContexts)
  /\ IsFiniteSet(rerouted)

\* What the helper is told stays, and before the job runs there is nothing.
ToldOnce ==
  IF told.runs
  THEN told = [runs |-> TRUE, meter |-> start.mode # "alone", auth |-> start.auth /\ start.mode # "alone",
               events |-> start.events, id |-> IF start.mode = "run" THEN Endpoint(Upstream) ELSE <<>>]
  ELSE /\ launched = [b \in BrowserIds |-> NoBrowser] /\ contexts = <<>>
       /\ told = [runs |-> FALSE, meter |-> FALSE, auth |-> FALSE, events |-> FALSE, id |-> <<>>]

\* Where a proxy leads that the helper was asked for and has rewritten, and what it
\* remembers of it (in all) and has said of it (in warnings).
Leads(asked, proxy, all, warnings) ==
  IF ~told.meter THEN proxy = asked
  ELSE \/ /\ proxy.server \in MeterUrls
          /\ Endpoint(asked.server) \in Endpoints \cup {<<>>} \cup (IF told.id = <<>> THEN all ELSE {told.id})
       \/ /\ proxy.server \notin MeterUrls
          /\ told.id # <<>> /\ Endpoint(asked.server) # told.id /\ "foreign" \in warnings

ProxyKept(x, all, warnings) ==
  x.proxy.user = x.asked.user /\ (x.ours => Leads(x.asked, x.proxy, all, warnings))
ProxiesKept ==
  /\ \A b \in BrowserIds : ProxyKept(launched[b], rerouted, warned)
  /\ \A i \in DOMAIN contexts : ProxyKept(contexts[i], rerouted, warned)

\* Where nothing is known of an upstream, a second server is warned of.
SecondIsTold == told.id = <<>> /\ Cardinality(rerouted) > 1 => "several" \in warned

\* The marks that a count leaves, so that there is no second.
MarksTell(w) ==
  /\ w.wrote <= 1 /\ (w.wrote = 0 <=> w.marks = {})
  /\ w.kind = "bare" => w.marks \subseteq {"context"}
  /\ w.kind # "bare" => w.marks = {} \/ "browser" \in w.marks
OnceCounted(w) == MarksTell(w) /\ (w.ours /\ told.events => w.wrote = 1)
SeenIsCounted ==
  \A b \in BrowserIds :
    OnceCounted(launched[b]) /\ (told.events /\ launched[b].wrapped /\ Of(b) # {} => launched[b].wrote = 1)

LaunchesInv ==
  /\ LaunchTypes /\ ToldOnce /\ EnvironmentIsMetered /\ ProxiesKept /\ SecondIsTold /\ SeenIsCounted

-----------------------------------------------------------------------------
\* Before anything runs.
LEMMA LaunchesStart == start \in Starts /\ InitLaunches => LaunchesInv
<1> SUFFICES ASSUME start \in Starts, InitLaunches PROVE LaunchesInv
  OBVIOUS
<1>1. IsStart(start)
  BY LaunchesAssumption
<1>2. NoProxy \in Wanted /\ NoProxy \in Proxies
  BY DEF Wanted, Proxies
<1>3. NoBrowser \in KeptBrowsers
  BY <1>2 DEF NoBrowser, KeptBrowsers
<1>4. LaunchTypes
  BY <1>1, <1>3, FS_EmptySet DEF InitLaunches, LaunchTypes
<1>5. ToldOnce /\ EnvironmentIsMetered
  BY DEF InitLaunches, ToldOnce, EnvironmentIsMetered
<1>6. ProxiesKept
  BY DEF InitLaunches, ProxiesKept, ProxyKept, Leads, NoBrowser
<1>7. SecondIsTold
  BY FS_EmptySet DEF InitLaunches, SecondIsTold
<1>8. SeenIsCounted
  BY DEF InitLaunches, SeenIsCounted, OnceCounted, MarksTell, NoBrowser
<1> QED  BY <1>4, <1>5, <1>6, <1>7, <1>8 DEF LaunchesInv

\* The job's environment: build_child_env, and what the run says of the rest.
LEMMA ChildEnvMetered ==
  ASSUME IsStart(start), start.mode = "run", NEW e, e = ChildEnv, NEW n \in Names
  PROVE  /\ \/ e[n] = start.env[n] /\ e[n] # Upstream
            \/ e[n] = MeterUrl /\ (n = start.var \/ (start.all /\ n \in Standard) \/ SameUpstream(n, start.env[n]))
         /\ n = start.var \/ (start.all /\ n \in Standard) => e[n] = MeterUrl
         /\ e[n] = start.env[n] \/ e[n] = MeterUrl
BY DEF ChildEnv, SameUpstream

\* The job is started.
LEMMA PreparesKeeps ==
  ASSUME LaunchesInv, Prepares
  PROVE  LaunchesInv'
<1> USE DEF LaunchesInv
<1>1. IsStart(start) /\ ~told.runs /\ UNCHANGED <<start, launched, contexts, rerouted, warned>>
  BY DEF Prepares, LaunchTypes
<1>2. /\ launched = [b \in BrowserIds |-> NoBrowser] /\ contexts = <<>>
      /\ told = [runs |-> FALSE, meter |-> FALSE, auth |-> FALSE, events |-> FALSE, id |-> <<>>]
  BY <1>1 DEF ToldOnce
<1>3. LaunchTypes'
  BY <1>1 DEF LaunchTypes
<1>4. ToldOnce'
  BY <1>1 DEF Prepares, ToldOnce, Upstream
<1>5. EnvironmentIsMetered'
  <2>1. SUFFICES ASSUME start.mode = "run" PROVE EnvironmentIsMetered'
    BY <1>1 DEF EnvironmentIsMetered
  <2>2. PICK u : u = Upstream
    OBVIOUS
  <2>3. env' = ChildEnv /\ notes' = Unmetered(env') \cup Others(env')
    BY <2>1 DEF Prepares
  <2>4. u.host \notin {"none", "meter"} /\ start.var \in Names /\ \A n \in Names : start.env[n].host = "none" => start.env[n].creds = "none"
    BY <1>1, <2>1, <2>2 DEF IsStart, Upstream
  <2>5. \A n \in Names :
          /\ \/ env'[n] = start.env[n] /\ env'[n] # u
             \/ env'[n] = MeterUrl /\ (n = start.var \/ (start.all /\ n \in Standard) \/ SameUpstream(n, start.env[n]))
          /\ n = start.var \/ (start.all /\ n \in Standard) => env'[n] = MeterUrl
          /\ env'[n] = start.env[n] \/ env'[n] = MeterUrl
    BY <1>1, <2>1, <2>2, <2>3, ChildEnvMetered
  <2>6. MeterUrl.host = "meter" /\ MeterUrl.creds = "none" /\ AuthUrl.host = "meter" /\ AuthUrl.creds = "none"
    BY DEF MeterUrl, AuthUrl, Url
  <2>7. ASSUME NEW n \in ProxyNames \ notes'
        PROVE  /\ u.creds # "none" => env'[n].creds # u.creds
               /\ env'[n].host = u.host => u.host = "local" /\ env'[n].port # u.port
               /\ n \in Standard => env'[n] \in MeterUrls \cup {NoUrl}
    <3>1. n \in Names /\ n \notin Unmetered(env') /\ n \notin Others(env')
      BY <2>3, <2>7 DEF Names
    <3>2. env'[n].host = "none" => env'[n].creds = "none"
      BY <2>4, <2>5, <2>6, <3>1
    <3>3. env'[n] \in MeterUrls => env'[n].host = "meter" /\ env'[n].creds = "none"
      BY <2>6 DEF MeterUrls
    <3>4. \/ env'[n].host = "none" \/ env'[n] \in MeterUrls
          \/ /\ ~(env'[n].host = u.host /\ (env'[n].port = u.port \/ u.host # "local"))
             /\ ~(u.creds # "none" /\ env'[n].creds = u.creds)
      BY <2>2, <2>7, <3>1 DEF Unmetered
    <3>5. n \in Standard => env'[n] \in MeterUrls \cup {NoUrl}
      BY <2>4, <2>5, <3>1 DEF Others, MeterUrls
    <3> QED  BY <2>4, <3>2, <3>3, <3>4, <3>5
  <2>8. ASSUME start.all PROVE notes' \cap Standard = {}
    <3>1. \A n \in Standard : env'[n] = MeterUrl
      BY <2>5, <2>8 DEF Names, ProxyNames
    <3> QED  BY <2>3, <3>1 DEF Unmetered, Others, MeterUrls
  <2> QED  BY <1>1, <2>2, <2>5, <2>7, <2>8 DEF EnvironmentIsMetered, Upstream, SameUpstream, Identity
<1>6. ProxiesKept'
  BY <1>1, <1>2 DEF ProxiesKept, ProxyKept, NoBrowser
<1>7. SecondIsTold'
  BY <1>1, <1>2 DEF SecondIsTold
<1>8. SeenIsCounted'
  BY <1>1, <1>2 DEF SeenIsCounted, OnceCounted, MarksTell, NoBrowser, Of
<1> QED  BY <1>3, <1>4, <1>5, <1>6, <1>7, <1>8

-----------------------------------------------------------------------------
(* The helper. *)

\* A proxy is rewritten and remembered.
LEMMA RewrittenLeads ==
  ASSUME LaunchesInv, told.runs, NEW p \in Wanted, NEW q, q = Rewritten(p), Remembers(p)
  PROVE  /\ Leads(p, q, rerouted', warned') /\ q.user = p.user /\ q \in Proxies
         /\ rerouted \subseteq rerouted' /\ warned \subseteq warned' /\ IsFiniteSet(rerouted')
         /\ told.id = <<>> /\ Cardinality(rerouted') > 1 => "several" \in warned'
<1> USE DEF LaunchesInv
<1> DEFINE moved == IF ~told.meter \/ Foreign(p.server) THEN {} ELSE {Endpoint(p.server)} \ (Endpoints \cup {<<>>})
<1>1. PICK m : m = moved
  OBVIOUS
<1>2. /\ rerouted' = rerouted \cup m
      /\ warned' = warned
           \cup (IF told.meter /\ Foreign(p.server) THEN {"foreign"} ELSE {})
           \cup (IF m # {} /\ told.id = <<>> /\ Cardinality(rerouted \cup m) > 1 THEN {"several"} ELSE {})
  BY <1>1 DEF Remembers
<1>3. IsFiniteSet(m)
  <2>1. m \subseteq {Endpoint(p.server)}
    BY <1>1
  <2> QED  BY <2>1, FS_Singleton, FS_Subset
<1>4. IsFiniteSet(rerouted')
  BY <1>2, <1>3, FS_Union DEF LaunchTypes
<1>5. told.id = <<>> /\ Cardinality(rerouted') > 1 => "several" \in warned'
  <2>1. CASE m = {}
    <3>1. rerouted' = rerouted
      BY <1>2, <2>1
    <3> QED  BY <1>2, <3>1 DEF SecondIsTold
  <2>2. CASE m # {}
    BY <1>2, <2>2
  <2> QED  BY <2>1, <2>2
<1>6. q.user = p.user /\ q \in Proxies
  BY DEF Rewritten, Settings, Proxies, MeterUrls
<1>7. Leads(p, q, rerouted', warned')
  <2>1. CASE ~told.meter
    BY <2>1 DEF Rewritten, Leads
  <2>2. CASE told.meter /\ Foreign(p.server)
    <3>1. told.id # <<>> /\ Endpoint(p.server) \notin Endpoints /\ Endpoint(p.server) # told.id
      BY <2>2 DEF Foreign
    <3>2. start.mode = "run" /\ told.auth
      BY <3>1 DEF ToldOnce, LaunchTypes, IsStart
    <3>3. p.server \notin MeterUrls
      BY <3>1, <3>2 DEF Endpoints
    <3> QED  BY <1>2, <2>2, <3>1, <3>3 DEF Rewritten, Leads
  <2>3. CASE told.meter /\ ~Foreign(p.server)
    <3>1. q.server \in MeterUrls
      BY <2>3 DEF Rewritten, Settings, MeterUrls
    <3>2. Endpoint(p.server) \in Endpoints \cup {<<>>} \cup m
      BY <1>1, <2>3
    <3>3. told.id # <<>> => Endpoint(p.server) \in Endpoints \cup {told.id}
      BY <2>3 DEF Foreign
    <3> QED  BY <1>2, <2>3, <3>1, <3>2, <3>3 DEF Leads
  <2> QED  BY <2>1, <2>2, <2>3
<1> QED  BY <1>2, <1>4, <1>5, <1>6, <1>7

\* A browser, or what is behind a context, is counted.
LEMMA RecordedCounts ==
  ASSUME NEW w \in KeptBrowsers, MarksTell(w), NEW obj \in {"browser", "context"}, w.kind = "bare" => obj = "context",
         told.events \/ OnceCounted(w), NEW v, v = Recorded(w, obj)
  PROVE  /\ v \in KeptBrowsers /\ OnceCounted(v) /\ (told.events => v.wrote = 1)
         /\ v.kind = w.kind /\ v.asked = w.asked /\ v.proxy = w.proxy /\ v.ours = w.ours /\ v.wrapped = w.wrapped
<1>1. CASE ~told.events
  BY <1>1 DEF Recorded
<1>2. CASE told.events
  <2>1. PICK marks : marks = Marks(obj, w.kind)
    OBVIOUS
  <2>2. /\ marks \subseteq {"browser", "context"} /\ obj \in marks
        /\ w.kind = "bare" => marks = {"context"}
        /\ w.kind # "bare" => "browser" \in marks
    BY <2>1 DEF Marks
  <2>3. PICK n : n = IF marks \cap w.marks = {} THEN w.wrote + 1 ELSE w.wrote
    OBVIOUS
  <2>4. v = [w EXCEPT !.wrote = n, !.marks = w.marks \cup marks]
    BY <1>2, <2>1, <2>3 DEF Recorded, KeptBrowsers
  <2>5. n = 1
    BY <2>2, <2>3 DEF MarksTell, KeptBrowsers
  <2>6. /\ v.wrote = 1 /\ v.marks = w.marks \cup marks
        /\ v.kind = w.kind /\ v.asked = w.asked /\ v.proxy = w.proxy /\ v.ours = w.ours /\ v.wrapped = w.wrapped
    BY ONLY <2>4, <2>5, w \in KeptBrowsers DEF KeptBrowsers
  <2>7. v \in KeptBrowsers
    <3>1. n \in Nat /\ w.marks \cup marks \in SUBSET {"browser", "context"}
      BY <2>2, <2>5 DEF KeptBrowsers
    <3> QED  BY ONLY <2>4, <3>1, w \in KeptBrowsers DEF KeptBrowsers
  <2> QED  BY <2>2, <2>6, <2>7 DEF MarksTell, OnceCounted
<1> QED  BY <1>1, <1>2

\* A browser, or one of its contexts, is new or is shown to the helper.
LEMMA OneBrowser ==
  ASSUME LaunchesInv, told.runs, NEW b \in BrowserIds, NEW v \in KeptBrowsers, NEW more, more \in {<<>>} \cup {<<x>> : x \in KeptContexts},
         launched' = [launched EXCEPT ![b] = v], contexts' = contexts \o more,
         UNCHANGED <<start, env, told, notes>>,
         rerouted \subseteq rerouted', warned \subseteq warned', IsFiniteSet(rerouted'), SecondIsTold',
         ProxyKept(v, rerouted', warned'), OnceCounted(v),
         more # <<>> => more[1].of = b /\ ProxyKept(more[1], rerouted', warned'),
         told.events /\ v.wrapped /\ (Of(b) # {} \/ more # <<>>) => v.wrote = 1
  PROVE  LaunchesInv'
<1> USE DEF LaunchesInv
<1>1. contexts \in Seq(KeptContexts) /\ more \in Seq(KeptContexts) /\ (more # <<>> => Len(more) = 1)
  <2>1. CASE more = <<>>
    BY <2>1 DEF LaunchTypes
  <2>2. CASE more # <<>>
    <3>1. PICK x \in KeptContexts : more = <<x>>
      BY <2>2
    <3> QED  BY <3>1 DEF LaunchTypes
  <2> QED  BY <2>1, <2>2
<1>2. contexts' \in Seq(KeptContexts)
  BY <1>1
<1>3. \A i \in DOMAIN contexts' :
        \/ i \in DOMAIN contexts /\ contexts'[i] = contexts[i]
        \/ more # <<>> /\ contexts'[i] = more[1]
  BY <1>1
<1>4. \A d \in BrowserIds : launched'[d] = IF d = b THEN v ELSE launched[d]
  BY DEF LaunchTypes
<1>5. LaunchTypes'
  BY <1>2, <1>4 DEF LaunchTypes
<1>6. ToldOnce' /\ EnvironmentIsMetered'
  <2>1. told.runs /\ told' = told /\ start' = start /\ env' = env /\ notes' = notes
    OBVIOUS
  <2>2. ToldOnce'
    BY <2>1 DEF ToldOnce, Upstream
  <2>3. EnvironmentIsMetered'
    BY ONLY <2>1, EnvironmentIsMetered DEF EnvironmentIsMetered, Upstream, SameUpstream, Identity
  <2> QED  BY <2>2, <2>3
<1>7. ASSUME NEW x, ProxyKept(x, rerouted, warned)
      PROVE  ProxyKept(x, rerouted', warned')
  BY <1>7 DEF ProxyKept, Leads
<1>8. ProxiesKept'
  <2>1. ASSUME NEW x, ProxyKept(x, rerouted', warned')
        PROVE  ProxyKept(x, rerouted, warned)'
    BY <2>1 DEF ProxyKept, Leads, Endpoints
  <2>2. \A d \in BrowserIds : ProxyKept(launched'[d], rerouted', warned')
    BY <1>4, <1>7 DEF ProxiesKept
  <2>3. \A i \in DOMAIN contexts' : ProxyKept(contexts'[i], rerouted', warned')
    BY <1>3, <1>7 DEF ProxiesKept
  <2> QED  BY <2>2, <2>3 DEF ProxiesKept, ProxyKept, Leads, Endpoints
<1>9. SeenIsCounted'
  <2>1. ASSUME NEW d \in BrowserIds, d # b, Of(d)' # {} PROVE Of(d) # {}
    BY <1>3, <2>1 DEF Of
  <2>2. Of(b)' # {} => Of(b) # {} \/ more # <<>>
    BY <1>3 DEF Of
  <2> QED  BY <1>4, <2>1, <2>2 DEF SeenIsCounted, OnceCounted
<1> QED  BY <1>5, <1>6, <1>8, <1>9

\* What is wanted can be a proxy, and no proxy is one too.
LEMMA WantedIsProxy == NoProxy \in Wanted /\ Wanted \subseteq Proxies
  BY DEF Wanted, Proxies

LEMMA OwnIsWanted ==
  ASSUME LaunchesInv, NEW p \in start.proxies
  PROVE  p \in Wanted
BY DEF LaunchesInv, LaunchTypes, Wanted

\* launch: the browser is counted and wrapped.
LEMMA LaunchesKeeps ==
  ASSUME LaunchesInv, NEW b \in BrowserIds, NEW p \in start.proxies, Launches(b, p)
  PROVE  LaunchesInv'
<1> USE DEF LaunchesInv
<1>1. p \in Wanted
  BY OwnIsWanted
<1>2. PICK q : q = IF p # NoProxy THEN Rewritten(p) ELSE IF told.meter THEN Settings("none") ELSE p
  OBVIOUS
<1>3. PICK fresh : fresh = [NoBrowser EXCEPT !.kind = "normal", !.asked = p, !.ours = TRUE, !.proxy = q]
  OBVIOUS
<1>4. PICK r : r = Recorded(fresh, "browser")
  OBVIOUS
<1>5. PICK v : v = [r EXCEPT !.wrapped = told.meter \/ told.events]
  OBVIOUS
<1>6. /\ told.runs /\ launched' = [launched EXCEPT ![b] = v]
      /\ IF p # NoProxy THEN Remembers(p) ELSE Forgets
      /\ UNCHANGED <<start, env, told, notes, contexts>>
  BY <1>2, <1>3, <1>4, <1>5 DEF Launches
<1>7. /\ rerouted \subseteq rerouted' /\ warned \subseteq warned' /\ IsFiniteSet(rerouted') /\ SecondIsTold'
      /\ q.user = p.user /\ q \in Proxies /\ Leads(p, q, rerouted', warned')
  <2>1. CASE p # NoProxy
    <3>1. q = Rewritten(p) /\ Remembers(p)
      BY <1>2, <1>6, <2>1
    <3>2. /\ Leads(p, q, rerouted', warned') /\ q.user = p.user /\ q \in Proxies
          /\ rerouted \subseteq rerouted' /\ warned \subseteq warned' /\ IsFiniteSet(rerouted')
          /\ told.id = <<>> /\ Cardinality(rerouted') > 1 => "several" \in warned'
      BY ONLY <1>1, <1>6, <3>1, LaunchesInv, RewrittenLeads
    <3> QED  BY <1>6, <3>2 DEF SecondIsTold
  <2>2. CASE p = NoProxy
    <3>1. rerouted' = rerouted /\ warned' = warned
      BY <1>6, <2>2 DEF Forgets
    <3>2. q.user = "none" /\ p.user = "none" /\ (told.meter => q.server = MeterUrl) /\ (~told.meter => q = p)
      BY <1>2, <2>2 DEF Settings, NoProxy
    <3>3. Endpoint(p.server) = <<>>
      BY <2>2 DEF NoProxy, NoUrl, Url, Endpoint
    <3>4. q \in Proxies
      BY <1>2, <2>2, WantedIsProxy DEF Proxies, Settings, NoProxy, MeterUrls
    <3>5. Leads(p, q, rerouted', warned')
      BY <3>2, <3>3 DEF Leads, MeterUrls
    <3> QED  BY <1>6, <3>1, <3>2, <3>4, <3>5 DEF LaunchTypes, SecondIsTold
  <2> QED  BY <2>1, <2>2
<1>8. /\ fresh \in KeptBrowsers /\ fresh.marks = {} /\ fresh.wrote = 0 /\ fresh.kind = "normal"
      /\ fresh.asked = p /\ fresh.proxy = q /\ fresh.ours
  BY <1>1, <1>3, <1>7 DEF NoBrowser, KeptBrowsers
<1>9. MarksTell(fresh) /\ (told.events \/ OnceCounted(fresh))
  BY <1>8 DEF MarksTell, OnceCounted
<1>10. /\ r \in KeptBrowsers /\ OnceCounted(r) /\ (told.events => r.wrote = 1)
       /\ r.kind = "normal" /\ r.asked = p /\ r.proxy = q /\ r.ours
  BY ONLY <1>4, <1>8, <1>9, RecordedCounts
<1>11. /\ v \in KeptBrowsers /\ v.wrote = r.wrote /\ v.marks = r.marks /\ v.kind = r.kind /\ v.asked = p /\ v.proxy = q
       /\ v.ours
  <2>1. (told.meter \/ told.events) \in BOOLEAN
    OBVIOUS
  <2> QED  BY ONLY <1>5, <1>10, <2>1 DEF KeptBrowsers
<1>12. OnceCounted(v) /\ (told.events => v.wrote = 1)
  BY <1>10, <1>11 DEF OnceCounted, MarksTell
<1>13. ProxyKept(v, rerouted', warned')
  BY <1>7, <1>11 DEF ProxyKept
<1>14. contexts' = contexts \o <<>>
  BY <1>6 DEF LaunchTypes
<1> QED
  BY ONLY LaunchesInv, <1>6, <1>7, <1>11, <1>12, <1>13, <1>14, b \in BrowserIds, OneBrowser

\* A step of the helper that rewrites no proxy: its browser and context may be anything
\* that is kept.
LEMMA QuietBrowser ==
  ASSUME LaunchesInv, told.runs, NEW b \in BrowserIds, NEW v \in KeptBrowsers, NEW more, more \in {<<>>} \cup {<<x>> : x \in KeptContexts},
         launched' = [launched EXCEPT ![b] = v], contexts' = contexts \o more,
         UNCHANGED <<start, env, told, notes, rerouted, warned>>,
         ProxyKept(v, rerouted, warned), OnceCounted(v),
         more # <<>> => more[1].of = b /\ ProxyKept(more[1], rerouted, warned),
         told.events /\ v.wrapped /\ (Of(b) # {} \/ more # <<>>) => v.wrote = 1
  PROVE  LaunchesInv'
<1>1. rerouted' = rerouted /\ warned' = warned /\ IsFiniteSet(rerouted)
  BY DEF LaunchesInv, LaunchTypes
<1>2. SecondIsTold'
  BY <1>1 DEF LaunchesInv, SecondIsTold
<1> QED  BY <1>1, <1>2, OneBrowser

\* The script's own launch.
LEMMA LaunchesOwnKeeps ==
  ASSUME LaunchesInv, NEW b \in BrowserIds, NEW p \in start.proxies, NEW kind \in {"normal", "persistent", "bare"},
         LaunchesOwn(b, p, kind)
  PROVE  LaunchesInv'
<1>1. p \in Wanted /\ p \in Proxies
  BY OwnIsWanted, WantedIsProxy
<1>2. PICK v : v = [NoBrowser EXCEPT !.kind = kind, !.asked = p, !.proxy = p]
  OBVIOUS
<1>3. /\ v \in KeptBrowsers /\ v.marks = {} /\ v.wrote = 0 /\ ~v.ours /\ ~v.wrapped
      /\ v.asked = p /\ v.proxy = p
  BY <1>1, <1>2 DEF NoBrowser, KeptBrowsers
<1>4. PICK x : x = ContextOf(b, p, p, FALSE)
  OBVIOUS
<1>5. x \in KeptContexts /\ x.of = b /\ x.asked = p /\ x.proxy = p /\ ~x.ours
  BY <1>1, <1>4 DEF ContextOf, KeptContexts
<1>6. PICK more : more = IF kind = "normal" THEN <<>> ELSE <<x>>
  OBVIOUS
<1>7. more \in {<<>>} \cup {<<y>> : y \in KeptContexts} /\ (more # <<>> => more[1] = x)
  BY <1>5, <1>6
<1>8. contexts' = contexts \o more
  <2>1. contexts \in Seq(KeptContexts) /\ contexts' = (IF kind = "normal" THEN contexts ELSE Append(contexts, x))
    BY <1>4 DEF LaunchesOwn, LaunchesInv, LaunchTypes
  <2> QED  BY ONLY <1>5, <1>6, <2>1
<1>9. ProxyKept(v, rerouted, warned) /\ ProxyKept(x, rerouted, warned) /\ OnceCounted(v)
  BY <1>3, <1>5 DEF ProxyKept, OnceCounted, MarksTell
<1>10. told.runs /\ launched' = [launched EXCEPT ![b] = v] /\ UNCHANGED <<start, env, told, notes, rerouted, warned>>
  BY <1>2 DEF LaunchesOwn
<1> QED
  BY ONLY LaunchesInv, <1>3, <1>5, <1>7, <1>8, <1>9, <1>10, b \in BrowserIds, QuietBrowser

\* What the helper instruments or records it counts, and leaves as it is.
LEMMA ShownCounts ==
  ASSUME LaunchesInv, NEW b \in BrowserIds, NEW v,
         \/ v = launched[b]
         \/ v = Instrumented(launched[b])
         \/ v = Recorded(launched[b], "context")
         \/ v = Recorded(launched[b], "browser") /\ launched[b].kind # "bare"
  PROVE  /\ v \in KeptBrowsers /\ OnceCounted(v) /\ ProxyKept(v, rerouted, warned)
         /\ v.kind = launched[b].kind /\ v.asked = launched[b].asked /\ v.proxy = launched[b].proxy
         /\ v.ours = launched[b].ours /\ v.wrapped = launched[b].wrapped
         /\ told.events /\ (v # launched[b] \/ (v.wrapped /\ Of(b) # {})) => v.wrote = 1
<1>1. PICK w : w = launched[b]
  OBVIOUS
<1>2. /\ w \in KeptBrowsers /\ OnceCounted(w) /\ MarksTell(w) /\ ProxyKept(w, rerouted, warned)
      /\ told.events /\ w.wrapped /\ Of(b) # {} => w.wrote = 1
  BY <1>1 DEF LaunchesInv, LaunchTypes, SeenIsCounted, OnceCounted, ProxiesKept
<1>3. CASE v = w
  BY <1>1, <1>2, <1>3
<1>4. ASSUME NEW obj \in {"browser", "context"}, v = Recorded(w, obj), w.kind = "bare" => obj = "context"
      PROVE  /\ v \in KeptBrowsers /\ OnceCounted(v) /\ (told.events => v.wrote = 1)
             /\ v.kind = w.kind /\ v.asked = w.asked /\ v.proxy = w.proxy /\ v.ours = w.ours /\ v.wrapped = w.wrapped
  BY ONLY <1>2, <1>4, RecordedCounts
<1>5. v = w \/ v = Recorded(w, "context") \/ (v = Recorded(w, "browser") /\ w.kind # "bare")
  BY <1>1 DEF Instrumented
<1>6. CASE v # w
  <2>1. /\ v \in KeptBrowsers /\ OnceCounted(v) /\ (told.events => v.wrote = 1)
        /\ v.kind = w.kind /\ v.asked = w.asked /\ v.proxy = w.proxy /\ v.ours = w.ours /\ v.wrapped = w.wrapped
    BY <1>4, <1>5, <1>6
  <2>2. ProxyKept(v, rerouted, warned)
    BY <1>2, <2>1 DEF ProxyKept
  <2> QED  BY <1>1, <2>1, <2>2
<1> QED  BY <1>3, <1>6

\* A context is instrumented, or a launch recorded.
LEMMA ShownKeeps ==
  ASSUME LaunchesInv, NEW b \in BrowserIds,
         InstrumentsContext(b) \/ RecordsLaunch(b, "browser") \/ RecordsLaunch(b, "context")
  PROVE  LaunchesInv'
<1>1. PICK v : /\ \/ v = Instrumented(launched[b])
                  \/ v = Recorded(launched[b], "context")
                  \/ v = Recorded(launched[b], "browser") /\ launched[b].kind # "bare"
               /\ launched' = [launched EXCEPT ![b] = v]
  BY DEF InstrumentsContext, RecordsLaunch
<1>2. told.runs /\ UNCHANGED <<start, env, told, notes, contexts, rerouted, warned>>
  BY DEF InstrumentsContext, RecordsLaunch, Running
<1>3. /\ v \in KeptBrowsers /\ OnceCounted(v) /\ ProxyKept(v, rerouted, warned)
      /\ told.events /\ v.wrapped /\ Of(b) # {} => v.wrote = 1
  BY ONLY LaunchesInv, <1>1, b \in BrowserIds, ShownCounts
<1>4. contexts' = contexts \o <<>>
  BY <1>2 DEF LaunchesInv, LaunchTypes
<1> QED
  BY ONLY LaunchesInv, <1>1, <1>2, <1>3, <1>4, b \in BrowserIds, QuietBrowser

\* wrap_new_context.
LEMMA WrapsKeeps ==
  ASSUME LaunchesInv, NEW b \in BrowserIds, Wraps(b)
  PROVE  LaunchesInv'
<1>1. PICK w : w = IF Of(b) = {} THEN launched[b] ELSE Instrumented(launched[b])
  OBVIOUS
<1>2. PICK v : v = [w EXCEPT !.wrapped = TRUE]
  OBVIOUS
<1>3. /\ told.runs /\ launched[b].kind = "normal" /\ launched' = [launched EXCEPT ![b] = v]
      /\ UNCHANGED <<start, env, told, notes, contexts, rerouted, warned>>
  BY <1>1, <1>2 DEF Wraps, Running
<1>4. /\ w \in KeptBrowsers /\ OnceCounted(w) /\ ProxyKept(w, rerouted, warned)
      /\ told.events /\ w # launched[b] => w.wrote = 1
  <2>1. w = launched[b] \/ w = Instrumented(launched[b])
    BY <1>1
  <2> QED  BY ONLY LaunchesInv, <2>1, b \in BrowserIds, ShownCounts
<1>5. told.events /\ Of(b) # {} => w.wrote = 1
  <2>1. SUFFICES ASSUME told.events, Of(b) # {} PROVE w.wrote = 1
    OBVIOUS
  <2>2. w = Recorded(launched[b], "browser")
    BY <1>1, <1>3, <2>1 DEF Instrumented
  <2>3. launched[b] \in KeptBrowsers /\ MarksTell(launched[b])
    BY DEF LaunchesInv, LaunchTypes, SeenIsCounted, OnceCounted
  <2>4. launched[b].kind # "bare"
    BY <1>3
  <2> QED  BY ONLY <2>1, <2>2, <2>3, <2>4, RecordedCounts
<1>6. /\ v \in KeptBrowsers /\ v.marks = w.marks /\ v.wrote = w.wrote /\ v.kind = w.kind /\ v.asked = w.asked
      /\ v.proxy = w.proxy /\ v.ours = w.ours
  BY <1>2, <1>4 DEF KeptBrowsers
<1>7. OnceCounted(v) /\ ProxyKept(v, rerouted, warned) /\ (told.events /\ Of(b) # {} => v.wrote = 1)
  BY <1>4, <1>5, <1>6 DEF OnceCounted, MarksTell, ProxyKept
<1>8. contexts' = contexts \o <<>>
  BY <1>3 DEF LaunchesInv, LaunchTypes
<1> QED
  BY ONLY LaunchesInv, <1>3, <1>6, <1>7, <1>8, b \in BrowserIds, QuietBrowser

\* new_context, or new_page.
LEMMA OpensContextKeeps ==
  ASSUME LaunchesInv, NEW b \in BrowserIds, NEW p \in start.proxies, OpensContext(b, p)
  PROVE  LaunchesInv'
<1>1. PICK w : w = launched[b]
  OBVIOUS
<1>2. PICK v : v = IF w.wrapped THEN Instrumented(w) ELSE w
  OBVIOUS
<1>3. PICK q : q = IF p = NoProxy THEN w.proxy ELSE IF w.wrapped THEN Rewritten(p) ELSE p
  OBVIOUS
<1>4. PICK x : x = ContextOf(b, IF p = NoProxy THEN w.asked ELSE p, q, w.wrapped /\ (w.ours \/ p # NoProxy))
  OBVIOUS
<1>5. /\ told.runs /\ w.kind = "normal" /\ contexts' = Append(contexts, x)
      /\ launched' = (IF w.wrapped THEN [launched EXCEPT ![b] = Instrumented(w)] ELSE launched)
      /\ IF p # NoProxy /\ w.wrapped THEN Remembers(p) ELSE Forgets
      /\ UNCHANGED <<start, env, told, notes>>
  BY <1>1, <1>3, <1>4 DEF OpensContext, Running
<1>6. launched' = [launched EXCEPT ![b] = v]
  BY <1>1, <1>2, <1>5 DEF LaunchesInv, LaunchTypes
<1>7. w \in KeptBrowsers /\ ProxyKept(w, rerouted, warned) /\ MarksTell(w) /\ w.wrapped \in BOOLEAN /\ w.ours \in BOOLEAN
      /\ w.proxy \in Proxies /\ w.asked \in Wanted
  BY <1>1 DEF LaunchesInv, LaunchTypes, SeenIsCounted, OnceCounted, ProxiesKept, KeptBrowsers
<1>8. p \in Wanted /\ p \in Proxies
  BY OwnIsWanted, WantedIsProxy
<1>9. /\ v \in KeptBrowsers /\ OnceCounted(v) /\ ProxyKept(v, rerouted, warned)
      /\ v.wrapped = w.wrapped
  <2>1. v = launched[b] \/ v = Instrumented(launched[b])
    BY <1>1, <1>2
  <2> QED  BY ONLY LaunchesInv, <1>1, <2>1, b \in BrowserIds, ShownCounts
<1>10. told.events /\ v.wrapped => v.wrote = 1
  <2>1. SUFFICES ASSUME told.events, v.wrapped PROVE v.wrote = 1
    OBVIOUS
  <2>2. v = Recorded(w, "browser")
    BY <1>2, <1>5, <1>9, <2>1 DEF Instrumented
  <2>3. w.kind # "bare"
    BY <1>5
  <2> QED  BY ONLY <1>7, <2>1, <2>2, <2>3, RecordedCounts
<1>11. /\ rerouted \subseteq rerouted' /\ warned \subseteq warned' /\ IsFiniteSet(rerouted') /\ SecondIsTold'
       /\ q.user = (IF p = NoProxy THEN w.asked.user ELSE p.user) /\ q \in Proxies
       /\ p # NoProxy /\ w.wrapped => Leads(p, q, rerouted', warned')
  <2>1. CASE p # NoProxy /\ w.wrapped
    <3>1. q = Rewritten(p) /\ Remembers(p)
      BY <1>3, <1>5, <2>1
    <3>2. /\ Leads(p, q, rerouted', warned') /\ q.user = p.user /\ q \in Proxies
          /\ rerouted \subseteq rerouted' /\ warned \subseteq warned' /\ IsFiniteSet(rerouted')
          /\ told.id = <<>> /\ Cardinality(rerouted') > 1 => "several" \in warned'
      BY ONLY <1>5, <1>8, <3>1, LaunchesInv, RewrittenLeads
    <3> QED  BY <1>5, <2>1, <3>2 DEF SecondIsTold
  <2>2. CASE ~(p # NoProxy /\ w.wrapped)
    <3>1. rerouted' = rerouted /\ warned' = warned /\ IsFiniteSet(rerouted)
      BY <1>5, <2>2 DEF Forgets, LaunchesInv, LaunchTypes
    <3>2. SecondIsTold'
      BY <1>5, <3>1 DEF LaunchesInv, SecondIsTold
    <3>3. q.user = (IF p = NoProxy THEN w.asked.user ELSE p.user) /\ q \in Proxies
      BY <1>3, <1>7, <1>8, <2>2 DEF ProxyKept
    <3> QED  BY <2>2, <3>1, <3>2, <3>3
  <2> QED  BY <2>1, <2>2
<1>12. Forgets \/ p # NoProxy
  BY <1>5
<1>13. ASSUME NEW y, ProxyKept(y, rerouted, warned)
       PROVE  ProxyKept(y, rerouted', warned')
  BY <1>11, <1>13 DEF ProxyKept, Leads
<1>14. ProxyKept(v, rerouted', warned')
  BY <1>9, <1>13
<1>15. /\ x.of = b /\ x.proxy = q /\ x.asked = (IF p = NoProxy THEN w.asked ELSE p)
       /\ x.ours = (w.wrapped /\ (w.ours \/ p # NoProxy))
  BY <1>4 DEF ContextOf
<1>16. x \in KeptContexts
  BY <1>4, <1>7, <1>8, <1>11 DEF ContextOf, KeptContexts
<1>17. ProxyKept(x, rerouted', warned')
  <2>1. CASE p = NoProxy
    <3>1. ProxyKept(w, rerouted', warned') /\ q = w.proxy
      BY <1>3, <1>7, <1>13, <2>1
    <3> QED  BY <1>15, <2>1, <3>1 DEF ProxyKept
  <2>2. CASE p # NoProxy
    BY <1>11, <1>15, <2>2 DEF ProxyKept
  <2> QED  BY <2>1, <2>2
<1>18. /\ <<x>> \in {<<>>} \cup {<<y>> : y \in KeptContexts} /\ <<x>> # <<>> /\ <<x>>[1] = x
       /\ contexts' = contexts \o <<x>>
  <2>1. contexts \in Seq(KeptContexts)
    BY DEF LaunchesInv, LaunchTypes
  <2> QED  BY <1>5, <1>16, <2>1
<1>19. PICK more : more = <<x>>
  OBVIOUS
<1>20. more \in {<<>>} \cup {<<y>> : y \in KeptContexts} /\ more[1] = x /\ contexts' = contexts \o more
  BY <1>18, <1>19
<1> QED
  BY ONLY LaunchesInv, <1>5, <1>6, <1>9, <1>10, <1>11, <1>14, <1>15, <1>17, <1>20, b \in BrowserIds, OneBrowser

\* A step.
LEMMA LaunchesStep == LaunchesInv /\ [NextLaunches]_launchVars => LaunchesInv'
<1> SUFFICES ASSUME LaunchesInv, [NextLaunches]_launchVars PROVE LaunchesInv'
  OBVIOUS
<1>1. CASE UNCHANGED launchVars
  BY <1>1 DEF launchVars, LaunchesInv, LaunchTypes, ToldOnce, EnvironmentIsMetered, ProxiesKept, ProxyKept, Leads, Endpoints,
              SecondIsTold, SeenIsCounted, OnceCounted, MarksTell, Of, Upstream, SameUpstream, Identity
<1>2. CASE Prepares
  BY <1>2, PreparesKeeps
<1>3. ASSUME NEW b \in BrowserIds, NEW p \in start.proxies, Launches(b, p) PROVE LaunchesInv'
  BY <1>3, LaunchesKeeps
<1>4. ASSUME NEW b \in BrowserIds, NEW p \in start.proxies, OpensContext(b, p) PROVE LaunchesInv'
  BY <1>4, OpensContextKeeps
<1>5. ASSUME NEW b \in BrowserIds, NEW p \in start.proxies, NEW kind \in {"normal", "persistent", "bare"},
             LaunchesOwn(b, p, kind)
      PROVE  LaunchesInv'
  BY <1>5, LaunchesOwnKeeps
<1>6. ASSUME NEW b \in BrowserIds, Wraps(b) PROVE LaunchesInv'
  BY <1>6, WrapsKeeps
<1>7. ASSUME NEW b \in BrowserIds,
             InstrumentsContext(b) \/ RecordsLaunch(b, "browser") \/ RecordsLaunch(b, "context")
      PROVE  LaunchesInv'
  BY <1>7, ShownKeeps
<1> QED  BY <1>1, <1>2, <1>3, <1>4, <1>5, <1>6, <1>7 DEF NextLaunches

-----------------------------------------------------------------------------
\* What was given for one server goes to no other provider.
LEMMA GivenStays ==
  ASSUME LaunchesInv,
         NEW given, given = {Endpoint(contexts[i].asked.server) :
                               i \in {j \in DOMAIN contexts : contexts[j].ours /\ contexts[j].proxy.server \in MeterUrls}}
                            \ (Endpoints \cup {<<>>})
  PROVE  /\ start.mode = "run" => given \subseteq {told.id}
         /\ Cardinality(given) > 1 => "several" \in warned
<1> USE DEF LaunchesInv
<1>1. ASSUME NEW e \in given
      PROVE  \E i \in DOMAIN contexts :
               /\ contexts[i].ours /\ contexts[i].proxy.server \in MeterUrls /\ e = Endpoint(contexts[i].asked.server)
               /\ e \notin Endpoints \cup {<<>>}
               /\ Leads(contexts[i].asked, contexts[i].proxy, rerouted, warned)
  BY DEF ProxiesKept, ProxyKept
<1>2. CASE ~told.runs
  <2>0. contexts = <<>>
    BY <1>2 DEF ToldOnce
  <2>1. given = {}
    <3>1. DOMAIN contexts = {}
      BY <2>0
    <3>2. SUFFICES ASSUME NEW e, e \in given PROVE FALSE
      OBVIOUS
    <3>3. PICK i \in DOMAIN contexts : contexts[i].ours
      BY <1>1, <3>2
    <3> QED  BY <3>1, <3>3
  <2>2. Cardinality(given) = 0
    BY <2>1, FS_EmptySet
  <2> QED  BY ONLY <2>1, <2>2
<1>3. ASSUME told.runs, told.meter, NEW e \in given
      PROVE  e \in IF told.id = <<>> THEN rerouted ELSE {told.id}
  BY <1>1, <1>3 DEF Leads
<1>4. CASE told.runs /\ told.meter /\ told.id = <<>>
  <2>1. start.mode # "run"
    <3>1. SUFFICES ASSUME start.mode = "run" PROVE FALSE
      OBVIOUS
    <3>2. Upstream.host # "none"
      BY <3>1 DEF LaunchTypes, IsStart, Upstream
    <3> QED  BY <1>4, <3>1, <3>2 DEF ToldOnce, Endpoint
  <2>2. given \subseteq rerouted
    BY <1>3, <1>4
  <2>3. Cardinality(given) <= Cardinality(rerouted) /\ Cardinality(given) \in Nat /\ Cardinality(rerouted) \in Nat
    BY <2>2, FS_Subset, FS_CardinalityType DEF LaunchTypes
  <2> QED  BY <1>4, <2>1, <2>3 DEF SecondIsTold
<1>5. ASSUME NEW one, given \subseteq {one} PROVE ~(Cardinality(given) > 1)
  <2>1. IsFiniteSet({one}) /\ Cardinality({one}) = 1
    BY FS_Singleton
  <2>2. Cardinality(given) <= 1 /\ Cardinality(given) \in Nat
    BY <1>5, <2>1, FS_Subset, FS_CardinalityType
  <2> QED  BY <2>2
<1>6. CASE told.runs /\ told.meter /\ told.id # <<>>
  <2>1. given \subseteq {told.id}
    BY <1>3, <1>6
  <2> QED  BY <1>5, <2>1
<1>7. CASE told.runs /\ ~told.meter
  <2>1. start.mode # "run" /\ ~told.auth
    <3>1. told = [runs |-> TRUE, meter |-> start.mode # "alone", auth |-> start.auth /\ start.mode # "alone",
                  events |-> start.events, id |-> IF start.mode = "run" THEN Endpoint(Upstream) ELSE <<>>]
      BY <1>7 DEF ToldOnce
    <3>2. told.meter = (start.mode # "alone") /\ told.auth = (start.auth /\ start.mode # "alone")
      BY ONLY <3>1
    <3>3. start.mode = "alone"
      BY <1>7, <3>2
    <3> QED  BY <3>2, <3>3
  <2>2. given \subseteq {Endpoint(AuthUrl)}
    <3>1. ASSUME NEW e \in given PROVE e = Endpoint(AuthUrl)
      <4>1. PICK i \in DOMAIN contexts :
               /\ contexts[i].proxy.server \in MeterUrls /\ e = Endpoint(contexts[i].asked.server)
               /\ e \notin Endpoints /\ contexts[i].proxy = contexts[i].asked
        BY <1>1, <1>7 DEF Leads
      <4>2. Endpoint(MeterUrl) \in Endpoints
        BY DEF Endpoints, MeterUrls
      <4> QED  BY <4>1, <4>2 DEF MeterUrls
    <3> QED  BY <3>1
  <2> QED  BY <1>5, <2>1, <2>2
<1> QED  BY <1>2, <1>4, <1>6, <1>7

\* The invariant is enough.
LEMMA LaunchesInvEnough == LaunchesInv => JobIsMetered
<1> SUFFICES ASSUME LaunchesInv PROVE JobIsMetered
  OBVIOUS
<1>1. ASSUME NEW i \in DOMAIN contexts, contexts[i].ours, told.meter
      PROVE  \/ contexts[i].proxy.server \in MeterUrls
             \/ Endpoint(contexts[i].asked.server) # told.id /\ told.id # <<>> /\ "foreign" \in warned
  BY <1>1 DEF LaunchesInv, ProxiesKept, ProxyKept, Leads
<1>2. \A i \in DOMAIN contexts : contexts[i].proxy.user = contexts[i].asked.user
  BY DEF LaunchesInv, ProxiesKept, ProxyKept
<1>3. PICK given : given = {Endpoint(contexts[i].asked.server) :
                              i \in {j \in DOMAIN contexts : contexts[j].ours /\ contexts[j].proxy.server \in MeterUrls}}
                           \ (Endpoints \cup {<<>>})
  OBVIOUS
<1>4. /\ start.mode = "run" => given \subseteq {told.id}
      /\ Cardinality(given) > 1 => "several" \in warned
  BY ONLY LaunchesInv, <1>3, GivenStays
<1>5. BrowsersAreMetered
  BY <1>1, <1>2, <1>3, <1>4 DEF BrowsersAreMetered
<1>6. LaunchesAreCounted
  BY DEF LaunchesInv, SeenIsCounted, OnceCounted, MarksTell, LaunchesAreCounted
<1> QED  BY <1>5, <1>6 DEF LaunchesInv, JobIsMetered

\* However the job is started and whatever its script launches, in whatever order: what the
\* job's report rests on is there to be counted.
THEOREM JobIsMeteredAlways == LaunchesSpec => []JobIsMetered
<1>1. start \in Starts /\ InitLaunches => LaunchesInv
  BY LaunchesStart
<1>2. LaunchesInv /\ [NextLaunches]_launchVars => LaunchesInv'
  BY LaunchesStep
<1>3. LaunchesInv => JobIsMetered
  BY LaunchesInvEnough
<1> QED  BY <1>1, <1>2, <1>3, PTL DEF LaunchesSpec

-----------------------------------------------------------------------------
(* Recorder.                                                                *)

\* What an event says of the bytes, and the types.
Sayings == {"sized", "unknown", "cache", "zero"}
JobPcs  == {"none", "sizes", "headers", "sw", "non_cdp", "cdp", "end"}
JobsOf  == [pc : JobPcs, failed : BOOLEAN, status : BOOLEAN, sizes : BOOLEAN,
            raw : BOOLEAN, candidate : BOOLEAN, lost : BOOLEAN]
States  == [inflight : SUBSET Requests, held : Seq(Requests), saw : BOOLEAN, closed : BOOLEAN,
            flushed : SUBSET Requests, sockets : SUBSET Sockets]
PageTypes   == [Requests -> [at : {"new", "sent", "done"}, answered : BOOLEAN, masked : BOOLEAN, late : BOOLEAN]]
RoutesTypes == [on : BOOLEAN, switched : Nat]

\* The browser's side, with what routes have to do with a request.
RequestTypes ==
  /\ context \in Contexts
  /\ page \in PageTypes
  /\ routes \in RoutesTypes
  /\ job \in [Requests -> JobsOf]
  /\ over \in BOOLEAN
Routed(r) ==
  /\ page[r].answered => Req(r).via \notin {"aborted", "blocked"}
  /\ page[r].masked /\ ~routes.on => routes.switched > 0
  /\ page[r].at # "new" /\ Hit(r) /\ routes.on => routes.switched > 0
  /\ page[r].at # "new" /\ Req(r).via \in {"fulfilled", "aborted"} => page[r].masked

\* A job is a candidate of the disk cache: it may be one, or was fulfilled or masked
\* while routes were on.
CandidateIs(r, j) ==
  /\ j.sizes /\ Cacheable(r, j) /\ ~FromWorker(r, j) /\ j.raw
  /\ NoNetwork(r, j) = "none" /\ context.browser \notin {"firefox", "webkit"}
  /\ Req(r).via # "memory"
  /\ Req(r).via = "disk" \/ (page[r].masked /\ routes.switched > 0)

\* What is decided of a job that waits for its address.
Collected(r, j) ==
  /\ j.pc # "none" => page[r].at = "done"
  /\ j.status => page[r].answered
  /\ j.sizes => j.status
  /\ j.pc \in {"sw", "non_cdp", "cdp"} => NoNetwork(r, j) = "none" /\ j.status
  /\ j.pc = "sw" => FromWorker(r, j) /\ ~j.failed /\ ~(j.raw /\ ShowsWire(r)) /\ ~j.candidate
  /\ j.pc = "non_cdp" =>
       ~FromWorker(r, j) /\ Cacheable(r, j) /\ ~j.candidate /\ context.browser \in {"firefox", "webkit"}
  /\ j.pc = "cdp" => ~FromWorker(r, j) /\ ~j.failed /\ context.browser \notin {"firefox", "webkit"}
  /\ j.pc = "cdp" /\ j.candidate => CandidateIs(r, j)
  /\ j.pc = "cdp" /\ ~j.candidate => ~context.tagged /\ (Hit(r) => routes.switched > 0)

\* What EventsAreTrue asks of one event.
IsTrue(r, j, closed, what) ==
  /\ what = "cache" => Hit(r) \/ (page[r].masked /\ routes.switched > 0)
  /\ what = "zero" =>
       \/ Req(r).via \notin {"network", "fallback", "disk"}
       \/ Req(r).via = "fallback" /\ (j.failed \/ ~j.raw \/ page[r].masked)
       \/ Req(r).via = "disk" /\ ~context.tagged /\ routes.switched > 0 /\ context.browser \in {"firefox", "webkit"}
  /\ what = "sized" =>
       \/ Req(r).via = "network"
       \/ Req(r).via = "disk" /\ (Req(r).hop \/ Req(r).script)
       \/ Req(r).via = "disk" /\ (~j.raw \/ j.lost \/ routes.switched > 0)
       \/ Req(r).via = "disk" /\ context.browser = "other" /\ closed
       \/ Req(r).via = "fulfilled" /\ ~context.tagged

\* Where a request is between its start and its one event.
Where(r, s, w) ==
  /\ page[r].at = "new" => job[r].pc = "none" /\ r \notin s.inflight /\ r \notin s.flushed
  /\ page[r].at = "sent" =>
       /\ job[r].pc = "none"
       /\ IF page[r].late THEN s.closed /\ r \notin s.inflight /\ r \notin s.flushed
          ELSE IF s.closed THEN r \in s.flushed ELSE r \in s.inflight
  /\ page[r].at = "done" => r \notin s.inflight /\ (job[r].pc = "none" /\ Req(r).net => r \in s.flushed)
  /\ r \in s.flushed =>
       s.closed /\ job[r].pc = "none" /\ r \notin s.inflight /\ w[r] = IF Req(r).net THEN <<"unknown">> ELSE <<>>
  /\ job[r].pc = "none" /\ r \notin s.flushed => w[r] = <<>>
  /\ job[r].pc \notin {"none", "end"} => w[r] = <<>>
  /\ job[r].pc = "end" =>
       IF r \in HeldRequests(s) THEN w[r] = <<>> ELSE \E what \in Sayings : w[r] = <<what>> /\ IsTrue(r, job[r], s.closed, what)
  /\ r \in HeldRequests(s) => job[r].pc = "end" /\ CandidateIs(r, job[r])

\* The state and what is written, as the two fit the jobs.
Fits(s, w) ==
  /\ s \in States /\ w \in [Requests -> Seq(Sayings)]
  /\ \A i, k \in DOMAIN s.held : s.held[i] = s.held[k] => i = k
  /\ s.held # <<>> => ~s.saw /\ ~s.closed
  /\ \A r \in Requests : Where(r, s, w)

Closing ==
  /\ closer \in {"open", "draining", "closing", "closed"}
  /\ closer = "closed" => state.closed
  /\ closer = "draining" => context.async
  /\ closer # "open" => \A r \in Requests : Task(r) \in mine => job[r].pc # "none"
  /\ closer = "closing" => \A r \in Requests : Task(r) \in mine => job[r].pc = "end"
  /\ closer = "closed" => \A r \in Requests : Task(r) \in mine => written[r] # <<>>

SocketsTell ==
  /\ tally \in [Sockets -> [at : {"new", "open", "closed"}, frames : Nat, done : BOOLEAN]]
  /\ spoke \in [Sockets -> Seq(Nat)]
  /\ \A w \in Sockets :
       /\ w \in state.sockets => tally[w].at = "open" /\ ~tally[w].done
       /\ IF tally[w].done THEN Len(spoke[w]) = 1 ELSE spoke[w] = <<>>
       /\ tally[w].at = "closed" => tally[w].done
       /\ tally[w].done /\ ~state.closed => tally[w].at = "closed" /\ spoke[w] = <<tally[w].frames>>

RecorderInv ==
  /\ RequestTypes
  /\ \A r \in Requests : Routed(r) /\ Collected(r, job[r])
  /\ Fits(state, written)
  /\ Closing
  /\ SocketsTell

-----------------------------------------------------------------------------
(* What stays as it is.                                                     *)

\* The step leaves the request and its job alone.
Same(r) ==
  /\ context' = context /\ page'[r] = page[r] /\ job'[r] = job[r]
  /\ routes.switched > 0 => routes'.switched > 0

LEMMA CandidateStays ==
  ASSUME NEW r, NEW j, Same(r), CandidateIs(r, j)
  PROVE  CandidateIs(r, j)'
  BY DEF Same, CandidateIs, Cacheable, FromWorker, NoNetwork, RouteTag, Req

LEMMA TruthStays ==
  ASSUME NEW r, NEW j, NEW c, NEW what, Same(r), IsTrue(r, j, c, what)
  PROVE  IsTrue(r, j, c, what)'
  BY DEF Same, IsTrue, Hit, Req

LEMMA CollectedStays ==
  ASSUME NEW r, NEW j, Same(r), Collected(r, j)
  PROVE  Collected(r, j)'
<1>1. CandidateIs(r, j) => CandidateIs(r, j)'
  BY CandidateStays
<1>2. /\ FromWorker(r, j)' <=> FromWorker(r, j)
      /\ Cacheable(r, j)' <=> Cacheable(r, j)
      /\ NoNetwork(r, j)' = NoNetwork(r, j)
      /\ ShowsWire(r)' <=> ShowsWire(r)
      /\ Hit(r)' <=> Hit(r)
  BY DEF Same, FromWorker, Cacheable, NoNetwork, RouteTag, ShowsWire, Hit, Req
<1> QED  BY <1>1, <1>2 DEF Same, Collected

LEMMA OthersStay ==
  ASSUME NEW r, \A q \in Requests \ {r} : Same(q) /\ Collected(q, job[q])
  PROVE  \A q \in Requests \ {r} : Collected(q, job[q])'
<1> TAKE q \in Requests \ {r}
<1> PICK j : j = job[q]
  OBVIOUS
<1>1. Same(q) /\ Collected(q, j) /\ job'[q] = j
  BY DEF Same
<1>2. Collected(q, j)'
  BY <1>1, CollectedStays
<1> QED  BY <1>1, <1>2 DEF Collected

LEMMA WhereStays ==
  ASSUME NEW r, NEW s, NEW w, Where(r, s, w), Same(r), NEW t, NEW v,
         t.held = s.held, t.closed = s.closed, t.flushed = s.flushed,
         r \in t.inflight <=> r \in s.inflight, v[r] = w[r]
  PROVE  Where(r, t, v)'
<1>1. CandidateIs(r, job[r]) => CandidateIs(r, job[r])'
  BY CandidateStays DEF Same
<1>2. \A what : IsTrue(r, job[r], s.closed, what) => IsTrue(r, job[r], t.closed, what)'
  BY TruthStays DEF Same
<1>3. HeldRequests(t) = HeldRequests(s)
  BY DEF HeldRequests
<1> QED  BY <1>1, <1>2, <1>3 DEF Where, Same, Req, HeldRequests

\* Every request keeps its place when neither it nor what it depends on changes.
LEMMA FitsStays ==
  ASSUME NEW s, NEW w, Fits(s, w), NEW t, NEW v, t \in States, v \in [Requests -> Seq(Sayings)],
         t.held = s.held, t.closed = s.closed, t.flushed = s.flushed, t.saw = s.saw,
         \A r \in Requests : Same(r) /\ (r \in t.inflight <=> r \in s.inflight) /\ v[r] = w[r]
  PROVE  Fits(t, v)'
  BY WhereStays DEF Fits

-----------------------------------------------------------------------------
(* Held candidates.                                                         *)

LEMMA ReleasedIs ==
  ASSUME NEW s, NEW w, Fits(s, w), NEW asCache \in BOOLEAN
  PROVE  /\ Released(w, s, asCache) \in [Requests -> Seq(Sayings)]
         /\ \A r \in Requests : Released(w, s, asCache)[r] =
              IF r \in HeldRequests(s) THEN <<IF asCache THEN "cache" ELSE "sized">> ELSE w[r]
<1> DEFINE what == IF asCache THEN "cache" ELSE "sized"
<1> DEFINE Places(r) == {k \in DOMAIN s.held : s.held[k] = r}
<1>1. ASSUME NEW r \in Requests, r \in HeldRequests(s)
      PROVE  Released(w, s, asCache)[r] = <<what>>
  <2>1. PICK k \in DOMAIN s.held : s.held[k] = r
    BY <1>1 DEF HeldRequests
  <2>2. Places(r) = {k}
    BY <2>1 DEF Fits
  <2>3. Cardinality(Places(r)) = 1
    BY <2>2, FS_Singleton
  <2>4. w[r] = <<>>
    BY <1>1 DEF Fits, Where
  <2>5. Released(w, s, asCache)[r] = w[r] \o [i \in 1 .. Cardinality(Places(r)) |-> what]
    BY DEF Released
  <2> HIDE DEF what, Places
  <2>6. [i \in 1 .. 1 |-> what] = <<what>>
    OBVIOUS
  <2>7. <<>> \o <<what>> = <<what>>
    OBVIOUS
  <2> QED  BY <2>3, <2>4, <2>5, <2>6, <2>7
<1>2. ASSUME NEW r \in Requests, r \notin HeldRequests(s)
      PROVE  Released(w, s, asCache)[r] = w[r]
  <2>1. Places(r) = {}
    BY <1>2 DEF HeldRequests
  <2>2. Cardinality(Places(r)) = 0
    BY <2>1, FS_EmptySet
  <2>3. Released(w, s, asCache)[r] = w[r] \o [i \in 1 .. Cardinality(Places(r)) |-> what]
    BY DEF Released
  <2>4. w[r] \in Seq(Sayings)
    BY DEF Fits
  <2> HIDE DEF what, Places
  <2>5. [i \in 1 .. 0 |-> what] = <<>>
    OBVIOUS
  <2>6. w[r] \o <<>> = w[r]
    BY <2>4
  <2> QED  BY <2>2, <2>3, <2>5, <2>6
<1>3. Released(w, s, asCache) = [r \in Requests |-> Released(w, s, asCache)[r]]
  BY DEF Released
<1>4. \A r \in Requests : Released(w, s, asCache)[r] \in Seq(Sayings)
  <2>1. what \in Sayings
    BY DEF Sayings
  <2>2. <<what>> \in Seq(Sayings)
    BY <2>1
  <2>3. \A r \in Requests : w[r] \in Seq(Sayings)
    BY DEF Fits
  <2> QED  BY <1>1, <1>2, <2>2, <2>3
<1> QED  BY <1>1, <1>2, <1>3, <1>4

\* A header as it was sent shows that those in hand came from the cache.
LEMMA SawWireFits ==
  ASSUME NEW s, NEW w, Fits(s, w)
  PROVE  /\ Fits(SawWire(s), WrittenBySawWire(w, s))
         /\ SawWire(s).saw
         /\ SawWire(s).closed = s.closed /\ SawWire(s).inflight = s.inflight
         /\ SawWire(s).flushed = s.flushed /\ SawWire(s).sockets = s.sockets
<1>1. CASE s.saw
  BY <1>1 DEF SawWire, WrittenBySawWire
<1>2. CASE ~s.saw
  <2>1. s \in States
    BY DEF Fits
  <2>2. PICK t : t = SawWire(s)
    OBVIOUS
  <2>3. /\ t \in States /\ t.saw /\ t.held = <<>> /\ t.closed = s.closed /\ t.inflight = s.inflight
        /\ t.flushed = s.flushed /\ t.sockets = s.sockets
    <3>1. t = [s EXCEPT !.saw = TRUE, !.held = <<>>] /\ <<>> \in Seq(Requests)
      BY <1>2, <2>2 DEF SawWire
    <3> QED  BY ONLY <2>1, <3>1 DEF States
  <2>4. PICK v : v = WrittenBySawWire(w, s)
    OBVIOUS
  <2>5. /\ v \in [Requests -> Seq(Sayings)]
        /\ \A r \in Requests : v[r] = IF r \in HeldRequests(s) THEN <<"cache">> ELSE w[r]
    <3>1. PICK yes \in BOOLEAN : yes = TRUE
      OBVIOUS
    <3>2. v = Released(w, s, yes)
      BY <1>2, <2>4, <3>1 DEF WrittenBySawWire
    <3>3. /\ Released(w, s, yes) \in [Requests -> Seq(Sayings)]
          /\ \A r \in Requests : Released(w, s, yes)[r] =
               IF r \in HeldRequests(s) THEN <<IF yes THEN "cache" ELSE "sized">> ELSE w[r]
      BY ReleasedIs
    <3> QED  BY <3>1, <3>2, <3>3
  <2>6. HeldRequests(t) = {}
    BY <2>3 DEF HeldRequests
  <2>7. ASSUME NEW r \in Requests, r \in HeldRequests(s)
        PROVE  IsTrue(r, job[r], s.closed, "cache")
    BY <2>7 DEF Fits, Where, CandidateIs, IsTrue, Hit
  <2>8. ASSUME NEW r \in Requests
        PROVE  Where(r, t, v)
    <3>1. Where(r, s, w)
      BY DEF Fits
    <3>2. CASE r \in HeldRequests(s)
      <4>1. /\ job[r].pc = "end" /\ v[r] = <<"cache">> /\ r \notin HeldRequests(t)
            /\ IsTrue(r, job[r], t.closed, "cache")
        BY <2>3, <2>5, <2>6, <2>7, <3>1, <3>2 DEF Where
      <4> QED  BY <2>3, <3>1, <4>1 DEF Where, Sayings
    <3>3. CASE r \notin HeldRequests(s)
      BY <2>3, <2>5, <2>6, <3>1, <3>3 DEF Where
    <3> QED  BY <3>2, <3>3
  <2>9. Fits(t, v)
    BY <2>3, <2>5, <2>8 DEF Fits
  <2> QED  BY <2>2, <2>3, <2>4, <2>9
<1> QED  BY <1>1, <1>2

LEMMA SawWireKeeps ==
  ASSUME NEW s, NEW w, Fits(s, w), NEW q \in Requests, w[q] # <<>>
  PROVE  WrittenBySawWire(w, s)[q] # <<>>
<1>1. PICK yes \in BOOLEAN : yes = TRUE
  OBVIOUS
<1>2. WrittenBySawWire(w, s) = IF s.saw THEN w ELSE Released(w, s, yes)
  BY <1>1 DEF WrittenBySawWire
<1>3. Released(w, s, yes)[q] = IF q \in HeldRequests(s) THEN <<IF yes THEN "cache" ELSE "sized">> ELSE w[q]
  BY ReleasedIs
<1>4. \A x : <<x>> # <<>>
  OBVIOUS
<1> QED  BY <1>2, <1>3, <1>4

-----------------------------------------------------------------------------
(* Decisions.                                                               *)

\* _record holds an event, or writes one that says this.
Late(s, d)  == d.candidate /\ ~s.saw /\ ~d.elsewhere
Holds(s, d) == d.unsent = "none" /\ ~d.hit /\ Late(s, d) /\ ~s.closed
EventOf(s, r, j, d) ==
  Says(r, j, d, IF d.hit THEN TRUE ELSE d.candidate /\ (Late(s, d) => context.browser = "chromium"))

LEMMA RecordIs ==
  ASSUME NEW s, NEW w, NEW r, NEW j, NEW d, Record(s, w, r, j, d)
  PROVE  IF Holds(s, d) THEN state' = [s EXCEPT !.held = Append(s.held, r)] /\ written' = w
         ELSE state' = s /\ written' = Writes(w, r, EventOf(s, r, j, d))
  BY DEF Record, Holds, Late, EventOf

\* A job whose headers were asked for.
Asked(r, j) == j \in JobsOf /\ (j.status => page[r].answered) /\ (j.sizes => j.status)

LEMMA ContextIs ==
  ASSUME RequestTypes
  PROVE  /\ context.browser \in Browsers /\ context.async \in BOOLEAN /\ context.tagged \in BOOLEAN
         /\ \A r \in Requests : /\ Req(r).via \in Vias /\ Req(r).hop \in BOOLEAN /\ Req(r).net \in BOOLEAN
                                /\ Req(r).addr \in {"meter", "elsewhere"}
                                /\ Req(r).script \in BOOLEAN
                                /\ Req(r).script => Req(r).via \notin {"worker", "fallback"}
                                /\ context.browser \in {"firefox", "webkit"} => Req(r).via # "memory"
<1>1. IsContext(context)
  BY RecorderAssumption DEF RequestTypes
<1> QED  BY <1>1 DEF IsContext, Req

LEMMA CandidateHolds ==
  ASSUME RequestTypes, NEW r \in Requests, Routed(r), page[r].at # "new", NEW j, Asked(r, j), Candidate(r, j),
         NoNetwork(r, j) = "none", context.browser \notin {"firefox", "webkit"}
  PROVE  CandidateIs(r, j)
<1>1. /\ j.status /\ j.sizes /\ j.raw /\ ~j.failed /\ Cacheable(r, j) /\ ~FromWorker(r, j)
      /\ Req(r).via # "memory" /\ ~ShowsWire(r) /\ ~Req(r).script /\ ~routes.on
      /\ page[r].answered
  BY DEF Candidate, Cacheable, Asked, Intercepting
<1>2. Req(r).via \notin {"worker", "fallback", "aborted", "blocked", "memory"}
  BY <1>1 DEF FromWorker, Routed
<1>3. Req(r).via \in {"network", "disk", "fulfilled"}
  BY <1>2, ContextIs DEF Vias
<1>4. Req(r).via = "disk" \/ page[r].masked
  BY <1>1, <1>3 DEF ShowsWire, Routed
<1>5. page[r].masked => routes.switched > 0
  BY <1>1 DEF Routed
<1> QED  BY <1>1, <1>4, <1>5 DEF CandidateIs

\* What _decide decides is true, or what the address still has to tell.
LEMMA DecidesTruly ==
  ASSUME RequestTypes, NEW r \in Requests, Routed(r), page[r].at = "done", NEW j, Asked(r, j), NEW s, s \in States,
         NEW d, d = Decide(s, r, j)
  PROVE  /\ d.need = "none" => /\ ~Holds(s, d)
                               /\ EventOf(s, r, j, d) \in Sayings /\ IsTrue(r, j, s.closed, EventOf(s, r, j, d))
         /\ d.need # "none" => /\ d.need \in {"sw", "non_cdp", "cdp"} /\ d.candidate \in BOOLEAN
                               /\ NoNetwork(r, j) = "none" /\ j.status
                               /\ d.need = "sw" => FromWorker(r, j) /\ ~j.failed /\ ~(j.raw /\ ShowsWire(r)) /\ ~d.candidate
                               /\ d.need = "non_cdp" => /\ ~FromWorker(r, j) /\ Cacheable(r, j) /\ ~d.candidate
                                                        /\ context.browser \in {"firefox", "webkit"}
                               /\ d.need = "cdp" => /\ ~FromWorker(r, j) /\ ~j.failed
                                                    /\ context.browser \notin {"firefox", "webkit"}
                               /\ d.need = "cdp" /\ d.candidate => CandidateIs(r, j)
                               /\ d.need = "cdp" /\ ~d.candidate => ~context.tagged /\ (Hit(r) => routes.switched > 0)
<1> DEFINE none == [Undecided EXCEPT !.unsent = NoNetwork(r, j)]
<1>0. /\ none.unsent = NoNetwork(r, j) /\ none.need = "none" /\ none.candidate = FALSE /\ none.elsewhere = FALSE
      /\ none.hit = FALSE /\ none.swnet = FALSE
  BY DEF Undecided
<1>1. CASE NoNetwork(r, j) # "none"
  <2>1. d = none
    BY <1>0, <1>1 DEF Decide
  <2>2. EventOf(s, r, j, d) = "zero" /\ ~Holds(s, d)
    BY <1>0, <1>1, <2>1 DEF EventOf, Holds, Says
  <2>3. Req(r).via \in {"fulfilled", "aborted", "blocked"}
    BY <1>1 DEF NoNetwork, RouteTag
  <2> QED  BY <1>0, <2>1, <2>2, <2>3 DEF IsTrue, Sayings
<1>2. CASE NoNetwork(r, j) = "none" /\ ~j.status
  <2>1. d = none
    BY <1>0, <1>2 DEF Decide
  <2>2. EventOf(s, r, j, d) = "unknown" /\ ~Holds(s, d)
    BY <1>0, <1>2, <2>1 DEF EventOf, Holds, Says, Late, Asked, FromWorker
  <2> QED  BY <1>0, <2>1, <2>2 DEF IsTrue, Sayings
<1>3. CASE NoNetwork(r, j) = "none" /\ j.status /\ FromWorker(r, j)
  <2>1. d = [none EXCEPT !.swnet = ~j.failed /\ j.raw /\ ShowsWire(r),
                         !.need = IF ~j.failed /\ ~(j.raw /\ ShowsWire(r)) /\ Intercepting THEN "sw" ELSE "none"]
    BY <1>0, <1>3 DEF Decide
  <2>2. /\ d.unsent = "none" /\ d.swnet = (~j.failed /\ j.raw /\ ShowsWire(r)) /\ d.candidate = FALSE /\ d.hit = FALSE
        /\ d.need = IF ~j.failed /\ ~(j.raw /\ ShowsWire(r)) /\ Intercepting THEN "sw" ELSE "none"
    BY <1>3, <2>1 DEF Undecided
  <2>3. ~Holds(s, d)
    BY <2>2 DEF Holds, Late
  <2>4. d.swnet => EventOf(s, r, j, d) = "unknown"
    BY <2>2 DEF EventOf, Says, Cacheable
  <2>5. ~d.swnet => EventOf(s, r, j, d) = "zero"
    BY <1>3, <2>2 DEF EventOf, Says
  <2>6. ~d.swnet => IsTrue(r, j, s.closed, "zero")
    BY <1>3, <2>2, ContextIs DEF IsTrue, FromWorker, ShowsWire
  <2>7. IsTrue(r, j, s.closed, "unknown")
    BY DEF IsTrue
  <2>8. d.need = "none" => EventOf(s, r, j, d) \in Sayings /\ IsTrue(r, j, s.closed, EventOf(s, r, j, d))
    BY <2>4, <2>5, <2>6, <2>7 DEF Sayings
  <2>9. d.need # "none" => d.need = "sw" /\ ~j.failed /\ ~(j.raw /\ ShowsWire(r))
    BY <2>2
  <2> QED  BY <1>3, <2>2, <2>3, <2>8, <2>9
<1>4. CASE NoNetwork(r, j) = "none" /\ j.status /\ ~FromWorker(r, j)
  <2>0. page[r].answered /\ Req(r).via \in {"network", "disk", "memory", "fulfilled"}
    BY <1>4, ContextIs DEF Vias, FromWorker, Asked, Routed
  <2>1. CASE context.browser \in {"firefox", "webkit"}
    <3>1. d = [none EXCEPT !.need = IF Cacheable(r, j) THEN "non_cdp" ELSE "none"]
      BY <1>0, <1>4, <2>1 DEF Decide
    <3>2. /\ d.unsent = "none" /\ d.candidate = FALSE /\ d.hit = FALSE /\ d.swnet = FALSE
          /\ d.need = IF Cacheable(r, j) THEN "non_cdp" ELSE "none"
      BY <1>4, <3>1 DEF Undecided
    <3>3. ~Holds(s, d)
      BY <3>2 DEF Holds, Late
    <3>4. ASSUME d.need = "none"
          PROVE  EventOf(s, r, j, d) \in Sayings /\ IsTrue(r, j, s.closed, EventOf(s, r, j, d))
      <4>1. ~Cacheable(r, j)
        BY <3>2, <3>4
      <4>2. EventOf(s, r, j, d) = IF ~j.sizes \/ j.failed \/ Req(r).via = "memory" THEN "unknown" ELSE "sized"
        BY <1>4, <3>2, <4>1 DEF EventOf, Says
      <4>3. ~j.failed => Req(r).hop
        BY <1>4, <4>1 DEF Cacheable
      <4>4. Req(r).via = "fulfilled" /\ ~j.failed => ~context.tagged
        BY <1>4 DEF NoNetwork, RouteTag
      <4> QED  BY <2>0, <4>2, <4>3, <4>4 DEF IsTrue, Sayings, Hit
    <3> QED  BY <1>4, <2>1, <3>2, <3>3, <3>4
  <2>2. CASE context.browser \notin {"firefox", "webkit"}
    <3>1. d = [none EXCEPT !.candidate = Candidate(r, j), !.need = IF NeedsServerAddr(s, r, j) THEN "cdp" ELSE "none"]
      BY <1>0, <1>4, <2>2 DEF Decide
    <3>2. /\ d.unsent = "none" /\ d.candidate = Candidate(r, j) /\ d.hit = FALSE /\ d.swnet = FALSE /\ d.elsewhere = FALSE
          /\ d.need = IF NeedsServerAddr(s, r, j) THEN "cdp" ELSE "none"
      BY <1>4, <3>1 DEF Undecided
    <3>3. CASE Candidate(r, j)
      <4>1. CandidateIs(r, j)
        BY <1>4, <2>2, <3>3, CandidateHolds
      <4>2. d.candidate /\ d.need = IF ~s.saw THEN "cdp" ELSE "none"
        BY <3>2, <3>3 DEF NeedsServerAddr
      <4>3. ASSUME s.saw
            PROVE  ~Holds(s, d) /\ EventOf(s, r, j, d) = "cache" /\ IsTrue(r, j, s.closed, "cache")
        <5>1. ~Late(s, d) /\ ~Holds(s, d)
          BY <4>3 DEF Late, Holds
        <5>2. EventOf(s, r, j, d) = "cache"
          BY <1>4, <3>2, <4>1, <4>2, <5>1 DEF EventOf, Says, CandidateIs
        <5> QED  BY <4>1, <5>1, <5>2 DEF IsTrue, CandidateIs, Hit
      <4>4. d.candidate \in BOOLEAN
        BY <3>2 DEF Candidate
      <4> QED  BY <1>4, <2>2, <4>1, <4>2, <4>3, <4>4 DEF CandidateIs, Cacheable, Sayings
    <3>4. CASE ~Candidate(r, j)
      <4>1. ~d.candidate /\ ~Holds(s, d) /\ ~Late(s, d)
        BY <3>2, <3>4 DEF Holds, Late
      <4>2. d.need = "cdp" => ~context.tagged /\ ~j.failed /\ routes.on
        BY <3>2, <3>4 DEF NeedsServerAddr, Intercepting
      <4>3. d.need = "cdp" => (Hit(r) => routes.switched > 0)
        BY <4>2 DEF Routed
      <4>4. ASSUME d.need = "none"
            PROVE  EventOf(s, r, j, d) \in Sayings /\ IsTrue(r, j, s.closed, EventOf(s, r, j, d))
        <5>1. EventOf(s, r, j, d) = IF ~j.sizes THEN "unknown"
                                  ELSE IF Cacheable(r, j) /\ Req(r).via = "memory" THEN "cache"
                                  ELSE IF j.failed \/ Req(r).via = "memory" THEN "unknown" ELSE "sized"
          BY <1>4, <3>2, <4>1 DEF EventOf, Says
        <5>2. Req(r).via = "fulfilled" /\ ~j.failed => ~context.tagged
          BY <1>4 DEF NoNetwork, RouteTag
        <5>3. Req(r).via = "disk" /\ j.sizes /\ ~j.failed =>
                Req(r).hop \/ Req(r).script \/ ~j.raw \/ routes.switched > 0
          BY <1>4, <3>4 DEF Candidate, Cacheable, ShowsWire, Intercepting, Routed, Hit
        <5> QED  BY <2>0, <5>1, <5>2, <5>3 DEF IsTrue, Sayings, Hit
      <4>5. d.candidate \in BOOLEAN /\ (d.need # "none" => d.need = "cdp")
        BY <3>2 DEF Candidate
      <4> QED  BY <1>4, <2>2, <4>1, <4>2, <4>3, <4>4, <4>5
    <3> QED  BY <3>3, <3>4
  <2> QED  BY <2>1, <2>2
<1> QED  BY <1>1, <1>2, <1>3, <1>4

\* So is what is recorded when the address is there, or is not.
LEMMA AddrTruly ==
  ASSUME RequestTypes, NEW r \in Requests, Routed(r), Collected(r, job[r]), job[r].pc \in {"sw", "non_cdp", "cdp"},
         NEW ok \in BOOLEAN, NEW s, s \in States,
         NEW d, d = ApplyAddr([Undecided EXCEPT !.need = job[r].pc, !.candidate = job[r].candidate],
                              IF ok THEN Address(r) ELSE "missing"),
         NEW k, k = [job[r] EXCEPT !.pc = "end", !.lost = ~ok]
  PROVE  /\ Holds(s, d) => CandidateIs(r, k)
         /\ ~Holds(s, d) => EventOf(s, r, job[r], d) \in Sayings /\ IsTrue(r, k, s.closed, EventOf(s, r, job[r], d))
<1> PICK j : j = job[r]
  OBVIOUS
<1> PICK a : a = IF ok THEN Address(r) ELSE "missing"
  OBVIOUS
<1> PICK e : e = [Undecided EXCEPT !.need = j.pc, !.candidate = j.candidate]
  OBVIOUS
<1>0. /\ e.unsent = "none" /\ e.need = j.pc /\ e.candidate = j.candidate /\ e.elsewhere = FALSE
      /\ e.hit = FALSE /\ e.swnet = FALSE
      /\ e \in [unsent : {"none"}, need : JobPcs, candidate : BOOLEAN, elsewhere : {FALSE}, hit : {FALSE}, swnet : {FALSE}]
  <2>1. j.pc \in JobPcs /\ j.candidate \in BOOLEAN
    BY DEF RequestTypes, JobsOf
  <2> QED  BY <2>1 DEF Undecided
<1>1. d = ApplyAddr(e, a) /\ NoNetwork(r, j) = "none" /\ j.status /\ Collected(r, j) /\ j \in JobsOf
  BY DEF Collected, RequestTypes
<1>2. /\ k.lost = ~ok /\ k.failed = j.failed /\ k.raw = j.raw 
      /\ k.sizes = j.sizes /\ k.status = j.status
  BY DEF RequestTypes, JobsOf
<1>3. page[r].answered /\ Req(r).via \in {"network", "fallback", "disk", "memory", "fulfilled", "worker"}
  BY <1>1, ContextIs DEF Collected, Routed, Vias
<1>4. Req(r).via = "fulfilled" /\ ~j.failed => ~context.tagged
  BY <1>1 DEF NoNetwork, RouteTag
<1>5. CASE j.pc = "sw"
  <2>1. d = [e EXCEPT !.swnet = a \notin {"none", "missing"}]
    BY <1>0, <1>1, <1>5 DEF ApplyAddr
  <2>2. /\ d.unsent = "none" /\ d.hit = FALSE /\ ~d.candidate /\ d.swnet = (a \notin {"none", "missing"})
    BY <1>0, <1>1, <1>5, <2>1 DEF Collected
  <2>3. ~Holds(s, d)
    BY <2>2 DEF Holds, Late
  <2>4. FromWorker(r, j) /\ ~j.failed /\ ~(j.raw /\ ShowsWire(r))
    BY <1>1, <1>5 DEF Collected
  <2>5. EventOf(s, r, j, d) = IF d.swnet THEN "unknown" ELSE "zero"
    BY <2>2, <2>4 DEF EventOf, Says
  <2>6. IsTrue(r, k, s.closed, "zero")
    BY <1>2, <2>4, ContextIs DEF IsTrue, FromWorker, ShowsWire
  <2>7. IsTrue(r, k, s.closed, "unknown")
    BY DEF IsTrue
  <2> QED  BY <2>3, <2>5, <2>6, <2>7 DEF Sayings
<1>6. CASE j.pc = "non_cdp"
  <2>1. ~FromWorker(r, j) /\ Cacheable(r, j) /\ ~j.candidate /\ context.browser \in {"firefox", "webkit"}
    BY <1>1, <1>6 DEF Collected
  <2>2. Req(r).via \in {"network", "disk", "fulfilled"} /\ ~j.failed
    BY <1>1, <1>3, <2>1, ContextIs DEF FromWorker, Cacheable
  <2>3. Req(r).via = "fulfilled" => page[r].masked
    BY <1>3, <1>1, <1>6 DEF Routed, Collected
  <2>4. Hit(r) /\ routes.on => routes.switched > 0
    BY <1>1, <1>6 DEF Routed, Collected
  <2>5. CASE a = "none"
    <3>1. Req(r).via \in {"disk", "fulfilled"}
      BY <2>2, <2>5 DEF Address
    <3>2. CASE ~context.tagged /\ Intercepting
      <4>1. d = [e EXCEPT !.unsent = "fulfilled"]
        BY <1>0, <1>1, <1>6, <2>5, <3>2 DEF ApplyAddr
      <4>2. EventOf(s, r, j, d) = "zero" /\ ~Holds(s, d)
        BY <1>0, <4>1 DEF EventOf, Says, Holds
      <4>3. IsTrue(r, k, s.closed, "zero")
        BY <2>1, <2>4, <3>1, <3>2 DEF IsTrue, Hit, Intercepting
      <4> QED  BY <4>2, <4>3 DEF Sayings
    <3>3. CASE ~(~context.tagged /\ Intercepting)
      <4>1. d = [e EXCEPT !.hit = TRUE]
        BY <1>0, <1>1, <1>6, <2>5, <3>3 DEF ApplyAddr
      <4>2. d.hit /\ d.unsent = "none" /\ ~Holds(s, d)
        BY <1>0, <4>1 DEF Holds
      <4>3. EventOf(s, r, j, d) = IF j.sizes THEN "cache" ELSE "unknown"
        BY <2>1, <4>2 DEF EventOf, Says
      <4>4. IsTrue(r, k, s.closed, "cache")
        BY <1>4, <2>2, <2>3, <3>1, <3>3 DEF IsTrue, Hit, Intercepting, Routed
      <4> QED  BY <4>2, <4>3, <4>4 DEF Sayings, IsTrue
    <3> QED  BY <3>2, <3>3
  <2>6. CASE a # "none"
    <3>1. d = e
      BY <1>0, <1>1, <1>6, <2>6 DEF ApplyAddr
    <3>2. ~Holds(s, d)
      BY <1>0, <2>1, <3>1 DEF Holds, Late
    <3>3. EventOf(s, r, j, d) = IF j.sizes THEN "sized" ELSE "unknown"
      BY <1>0, <2>1, <2>2, <3>1 DEF EventOf, Says
    <3>4. Req(r).via = "disk" => ~ok
      BY <2>1, <2>6 DEF Address
    <3>5. IsTrue(r, k, s.closed, "sized")
      BY <1>2, <1>4, <2>2, <3>4 DEF IsTrue, Hit
    <3> QED  BY <3>2, <3>3, <3>5 DEF Sayings, IsTrue
  <2> QED  BY <2>5, <2>6
<1>7. CASE j.pc = "cdp"
  <2>1. ~FromWorker(r, j) /\ ~j.failed /\ context.browser \in {"chromium", "other"}
    BY <1>1, <1>7, ContextIs DEF Collected, Browsers
  <2>2. d = [e EXCEPT !.unsent = IF a = "none" /\ ~e.candidate THEN "fulfilled" ELSE "none",
                      !.elsewhere = e.candidate /\ a = "elsewhere"]
    BY <1>0, <1>1, <1>7 DEF ApplyAddr
  <2>3. /\ d.candidate = j.candidate /\ d.hit = FALSE /\ d.swnet = FALSE
        /\ d.unsent = IF a = "none" /\ ~j.candidate THEN "fulfilled" ELSE "none"
    BY <1>0, <2>2
  <2>4. CASE j.candidate
    <3>1. CandidateIs(r, j) /\ d.unsent = "none"
      BY <1>1, <1>7, <2>3, <2>4 DEF Collected
    <3>2. CandidateIs(r, k)
      BY <1>2, <3>1 DEF CandidateIs, Cacheable, FromWorker, NoNetwork
    <3>3. ASSUME ~Holds(s, d)
          PROVE  IF Late(s, d) => context.browser = "chromium" THEN EventOf(s, r, j, d) = "cache"
                 ELSE EventOf(s, r, j, d) = "sized" /\ s.closed /\ context.browser = "other"
      BY <2>1, <2>3, <2>4, <3>1, <3>3 DEF EventOf, Says, Holds, CandidateIs
    <3>4. IsTrue(r, k, s.closed, "cache")
      BY <3>1 DEF IsTrue, CandidateIs, Hit
    <3>5. s.closed /\ context.browser = "other" => IsTrue(r, k, s.closed, "sized")
      <4>1. Req(r).via \in {"network", "disk", "fulfilled"}
        BY <1>1, <1>3, <2>1, <3>1 DEF CandidateIs, FromWorker
      <4>2. Req(r).via = "fulfilled" => ~context.tagged
        BY <1>4, <2>1
      <4> QED  BY <4>1, <4>2 DEF IsTrue, Hit
    <3> QED  BY <3>2, <3>3, <3>4, <3>5 DEF Sayings
  <2>5. CASE ~j.candidate
    <3>1. ~Holds(s, d) /\ ~context.tagged /\ (Hit(r) => routes.switched > 0)
      BY <1>1, <1>7, <2>3, <2>5 DEF Collected, Holds, Late
    <3>2. Req(r).via \in {"network", "disk", "memory", "fulfilled"}
      BY <1>1, <1>3, <2>1 DEF FromWorker
    <3>3. CASE a = "none"
      <4>1. EventOf(s, r, j, d) = "zero"
        BY <2>3, <2>5, <3>3 DEF EventOf, Says
      <4>2. Req(r).via \notin {"network", "disk"}
        BY <2>1, <3>3, ContextIs DEF Address
      <4> QED  BY <3>1, <3>2, <4>1, <4>2 DEF IsTrue, Sayings
    <3>4. CASE a # "none"
      <4>1. EventOf(s, r, j, d) = IF ~j.sizes THEN "unknown"
                                ELSE IF Req(r).via # "memory" THEN "sized"
                                ELSE IF Cacheable(r, j) THEN "cache" ELSE "unknown"
        BY <2>1, <2>3, <2>5, <3>4 DEF EventOf, Says
      <4>2. Req(r).via # "memory" => IsTrue(r, k, s.closed, "sized")
        BY <3>1, <3>2 DEF IsTrue, Hit
      <4>5. IsTrue(r, k, s.closed, "unknown")
        BY DEF IsTrue
      <4>3. Req(r).via = "memory" => IsTrue(r, k, s.closed, "cache")
        BY DEF IsTrue, Hit
      <4> QED  BY <3>1, <4>1, <4>2, <4>3, <4>5 DEF Sayings
    <3> QED  BY <3>3, <3>4
  <2> QED  BY <2>4, <2>5
<1> QED  BY <1>5, <1>6, <1>7

\* A job that ends leaves its request held, or written.
LEMMA HeldFits ==
  ASSUME RequestTypes, context' = context, page' = page, routes' = routes, NEW s, NEW w, Fits(s, w),
         NEW r \in Requests, job[r].pc \notin {"none", "end"}, NEW k, k \in JobsOf, k.pc = "end",
         job' = [job EXCEPT ![r] = k], CandidateIs(r, k), ~s.saw, ~s.closed,
         state' = [s EXCEPT !.held = Append(s.held, r)], written' = w
  PROVE  /\ Fits(state, written)'
         /\ state'.closed = s.closed /\ state'.sockets = s.sockets /\ \A q \in Requests \ {r} : written'[q] = w[q]
<1>1. /\ job'[r] = k /\ \A q \in Requests \ {r} : job'[q] = job[q]
      /\ \A q \in Requests \ {r} : Same(q)
      /\ context' = context /\ page' = page /\ routes' = routes
  BY DEF RequestTypes, Same
<1>2. Where(r, s, w) /\ s \in States /\ w \in [Requests -> Seq(Sayings)]
  BY DEF Fits
<1>3. r \notin HeldRequests(s) /\ w[r] = <<>> /\ page[r].at = "done" /\ r \notin s.flushed /\ r \notin s.inflight
  BY <1>2 DEF Where, RequestTypes, PageTypes
<1>4. /\ CandidateIs(r, k) => CandidateIs(r, k)'
      /\ \A what : IsTrue(r, k, s.closed, what) => IsTrue(r, k, s.closed, what)'
  BY <1>1 DEF CandidateIs, IsTrue, Cacheable, FromWorker, NoNetwork, RouteTag, Req, Hit
<1>5. state' = [s EXCEPT !.held = Append(@, r)] /\ written' = w
  OBVIOUS
<1>6. /\ state' \in States /\ state'.held = Append(s.held, r) /\ state'.closed = s.closed
      /\ state'.inflight = s.inflight /\ state'.flushed = s.flushed /\ state'.sockets = s.sockets
      /\ state'.saw = s.saw
  <2>1. s.held \in Seq(Requests) /\ Append(s.held, r) \in Seq(Requests) /\ s \in States
    BY <1>2 DEF States
  <2>2. state' = [s EXCEPT !.held = Append(s.held, r)]
    BY <1>5
  <2> QED  BY ONLY <2>1, <2>2 DEF States
<1>7. s.held \in Seq(Requests)
  BY <1>2 DEF States
<1>8. HeldRequests(state') = HeldRequests(s) \cup {r}
  BY <1>6, <1>7 DEF HeldRequests
<1>9. \A i, n \in DOMAIN state'.held : state'.held[i] = state'.held[n] => i = n
  <2> PICK h : h = s.held
    OBVIOUS
  <2>1. h \in Seq(Requests) /\ \A i \in DOMAIN h : h[i] # r
    BY <1>3, <1>7 DEF HeldRequests
  <2>2. \A i, n \in DOMAIN h : h[i] = h[n] => i = n
    BY DEF Fits
  <2>3. state'.held = Append(h, r)
    BY <1>6
  <2>4. \A i \in DOMAIN Append(h, r) : (i \in DOMAIN h /\ Append(h, r)[i] = h[i]) \/ (i = Len(h) + 1 /\ Append(h, r)[i] = r)
    BY <2>1
  <2> QED  BY ONLY <2>1, <2>2, <2>3, <2>4
<1>10. ~state'.saw /\ ~state'.closed
  BY <1>6
<1>11. Where(r, state, written)'
  <2>1. k.pc = "end" /\ job'[r] = k /\ CandidateIs(r, job[r])' /\ page'[r].at = "done"
    BY <1>1, <1>3, <1>4
  <2>2. r \in HeldRequests(state)' /\ written'[r] = <<>> /\ r \notin state'.inflight /\ r \notin state'.flushed
    BY <1>3, <1>5, <1>6, <1>8 DEF HeldRequests
  <2> QED  BY <2>1, <2>2 DEF Where
<1>12. ASSUME NEW q \in Requests \ {r}
      PROVE  Where(q, state, written)'
  <2>1. Where(q, s, w) /\ Same(q)
    BY <1>1 DEF Fits
  <2>2. q \in HeldRequests(state)' <=> q \in HeldRequests(s)
    BY <1>8 DEF HeldRequests
  <2>3. CandidateIs(q, job[q]) => CandidateIs(q, job[q])'
    BY <2>1, CandidateStays DEF Same
  <2>4. \A what : IsTrue(q, job[q], s.closed, what) => IsTrue(q, job[q], state.closed, what)'
    BY <1>6, <2>1, TruthStays DEF Same
  <2>5. written'[q] = w[q]
    BY <1>5
  <2> QED  BY <1>6, <2>1, <2>2, <2>3, <2>4, <2>5 DEF Where, Same, Req
<1>13. Fits(state, written)'
  BY <1>2, <1>5, <1>6, <1>9, <1>10, <1>11, <1>12 DEF Fits, States
<1> QED  BY <1>5, <1>6, <1>13

LEMMA WrittenFits ==
  ASSUME RequestTypes, context' = context, page' = page, routes' = routes, NEW s, NEW w, Fits(s, w),
         NEW r \in Requests, job[r].pc \notin {"none", "end"}, NEW k, k \in JobsOf, k.pc = "end",
         job' = [job EXCEPT ![r] = k], NEW what, what \in Sayings, IsTrue(r, k, s.closed, what),
         state' = s, written' = Writes(w, r, what)
  PROVE  /\ Fits(state, written)'
         /\ state'.closed = s.closed /\ state'.sockets = s.sockets /\ \A q \in Requests \ {r} : written'[q] = w[q]
<1>1. /\ job'[r] = k /\ \A q \in Requests \ {r} : job'[q] = job[q]
      /\ \A q \in Requests \ {r} : Same(q)
      /\ context' = context /\ page' = page /\ routes' = routes
  BY DEF RequestTypes, Same
<1>2. Where(r, s, w) /\ s \in States /\ w \in [Requests -> Seq(Sayings)]
  BY DEF Fits
<1>3. r \notin HeldRequests(s) /\ w[r] = <<>> /\ page[r].at = "done" /\ r \notin s.flushed /\ r \notin s.inflight
  BY <1>2 DEF Where, RequestTypes, PageTypes
<1>4. /\ CandidateIs(r, k) => CandidateIs(r, k)'
      /\ \A x : IsTrue(r, k, s.closed, x) => IsTrue(r, k, s.closed, x)'
  BY <1>1 DEF CandidateIs, IsTrue, Cacheable, FromWorker, NoNetwork, RouteTag, Req, Hit
<1>5. state' = s /\ written' = Writes(w, r, what)
  OBVIOUS
<1>6. Append(<<>>, what) = <<what>> /\ <<what>> \in Seq(Sayings)
  OBVIOUS
<1>7. /\ written' \in [Requests -> Seq(Sayings)] /\ written'[r] = <<what>>
      /\ \A q \in Requests \ {r} : written'[q] = w[q]
  BY <1>2, <1>3, <1>5, <1>6 DEF Writes
<1>8. Where(r, state, written)'
  <2>1. k.pc = "end" /\ job'[r] = k /\ IsTrue(r, job[r], state.closed, what)' /\ page'[r].at = "done" /\ what \in Sayings
    BY <1>1, <1>3, <1>4, <1>5
  <2>2. r \notin HeldRequests(state)' /\ written'[r] = <<what>> /\ r \notin state'.inflight /\ r \notin state'.flushed
    BY <1>3, <1>5, <1>7 DEF HeldRequests
  <2> QED  BY <2>1, <2>2 DEF Where
<1>9. ASSUME NEW q \in Requests \ {r}
      PROVE  Where(q, state, written)'
  BY <1>1, <1>5, <1>7, WhereStays DEF Fits
<1>10. Fits(state, written)'
  BY <1>2, <1>5, <1>7, <1>8, <1>9 DEF Fits, States
<1> QED  BY <1>5, <1>7, <1>10

-----------------------------------------------------------------------------
(* The browser's events and the collecting of a request.                    *)

\* What a step that starts or ends nothing of a socket or the close leaves.
LEMMA ClosingStays ==
  ASSUME Closing, context' = context, closer' = closer, mine' = mine, state.closed => state'.closed,
         \A r \in Requests : /\ job[r].pc # "none" => job'[r].pc # "none"
                             /\ job[r].pc = "end" => job'[r].pc = "end"
                             /\ written[r] # <<>> => written'[r] # <<>>
  PROVE  Closing'
  BY DEF Closing, Task

LEMMA SocketsStay ==
  ASSUME SocketsTell, tally' = tally, spoke' = spoke, state'.sockets = state.sockets, state'.closed = state.closed
  PROVE  SocketsTell'
  BY DEF SocketsTell

LEMMA OnRequestKeeps ==
  ASSUME RecorderInv, NEW r \in Requests, OnRequest(r)
  PROVE  RecorderInv'
<1> /\ context' = context /\ routes' = routes /\ job' = job /\ written' = written /\ closer' = closer /\ mine' = mine
    /\ tally' = tally /\ spoke' = spoke /\ RequestTypes /\ Fits(state, written) /\ over' = over
  BY DEF OnRequest, RecorderInv
<1>1. /\ page[r].at = "new" /\ page' \in PageTypes /\ page'[r].at = "sent" /\ page'[r].masked = routes.on
      /\ page'[r].late = state.closed /\ page'[r].answered = page[r].answered
      /\ \A q \in Requests \ {r} : page'[q] = page[q]
  <2>1. state.closed \in BOOLEAN /\ routes.on \in BOOLEAN
    BY DEF Fits, States, RequestTypes, RoutesTypes
  <2> QED  BY <2>1 DEF OnRequest, RequestTypes, PageTypes
<1>2. \A q \in Requests \ {r} : Same(q)
  BY <1>1 DEF Same
<1>3. /\ state' \in States /\ state'.held = state.held /\ state'.closed = state.closed /\ state'.saw = state.saw
      /\ state'.flushed = state.flushed /\ state'.sockets = state.sockets
      /\ state'.inflight = IF state.closed THEN state.inflight ELSE state.inflight \cup {r}
  <2>1. state \in States
    BY DEF Fits
  <2>2. state' = [state EXCEPT !.inflight = IF state.closed THEN state.inflight ELSE state.inflight \cup {r}]
    BY DEF OnRequest
  <2> QED  BY <2>1, <2>2 DEF States
<1>4. job[r].pc = "none" /\ written[r] = <<>> /\ r \notin HeldRequests(state)
  BY <1>1 DEF Fits, Where
<1>5. Where(r, state, written)'
  <2>1. r \notin state.flushed /\ r \notin state.inflight
    BY <1>1 DEF Fits, Where
  <2>2. r \notin HeldRequests(state)'
    BY <1>3, <1>4 DEF HeldRequests
  <2> QED  BY <1>1, <1>3, <1>4, <2>1, <2>2 DEF Where
<1>6. \A q \in Requests \ {r} : Where(q, state, written)'
  <2>1. \A q \in Requests \ {r} : Where(q, state, written)
    BY DEF Fits
  <2> QED  BY <1>2, <1>3, <2>1, WhereStays
<1>7. Fits(state, written)'
  BY <1>3, <1>5, <1>6 DEF Fits, States
<1>8. RequestTypes'
  BY <1>1 DEF RequestTypes
<1>9. \A q \in Requests : Routed(q)'
  BY <1>1 DEF RecorderInv, Routed, OnRequest, Hit, Req
<1>10. \A q \in Requests : Collected(q, job[q])'
  <2>1. \A q \in Requests \ {r} : Collected(q, job[q])'
    BY <1>2, OthersStay DEF RecorderInv
  <2>2. Collected(r, job[r])'
    BY <1>1, <1>4 DEF RecorderInv, Collected
  <2> QED  BY <2>1, <2>2
<1>11. Closing' /\ SocketsTell'
  BY <1>3, ClosingStays, SocketsStay DEF RecorderInv
<1> QED  BY <1>7, <1>8, <1>9, <1>10, <1>11 DEF RecorderInv

LEMMA OnResponseKeeps ==
  ASSUME RecorderInv, NEW r \in Requests, OnResponse(r)
  PROVE  RecorderInv'
<1> /\ context' = context /\ routes' = routes /\ job' = job /\ written' = written /\ closer' = closer /\ mine' = mine
    /\ tally' = tally /\ spoke' = spoke /\ RequestTypes /\ Fits(state, written) /\ state' = state /\ over' = over
  BY DEF OnResponse, RecorderInv
<1>1. /\ page[r].at = "sent" /\ page' \in PageTypes /\ page'[r].at = "sent" /\ page'[r].masked = page[r].masked
      /\ page'[r].late = page[r].late /\ page'[r].answered
      /\ \A q \in Requests \ {r} : page'[q] = page[q]
  BY DEF OnResponse, RequestTypes, PageTypes
<1>2. \A q \in Requests \ {r} : Same(q)
  BY <1>1 DEF Same
<1>3. job[r].pc = "none" /\ r \notin HeldRequests(state)
  BY <1>1 DEF Fits, Where
<1>4. Where(r, state, written)'
  <2>1. r \notin HeldRequests(state)'
    BY <1>3 DEF HeldRequests
  <2>2. Where(r, state, written)
    BY DEF Fits
  <2> QED  BY <1>1, <1>3, <2>1, <2>2 DEF Where, Req
<1>5. \A q \in Requests \ {r} : Where(q, state, written)'
  <2>1. \A q \in Requests \ {r} : Where(q, state, written)
    BY DEF Fits
  <2> QED  BY <1>2, <2>1, WhereStays
<1>6. Fits(state, written)'
  BY <1>4, <1>5 DEF Fits, States
<1>7. RequestTypes'
  BY <1>1 DEF RequestTypes
<1>8. \A q \in Requests : Routed(q)'
  BY <1>1 DEF RecorderInv, Routed, OnResponse, Hit, Req
<1>9. \A q \in Requests : Collected(q, job[q])'
  <2>1. \A q \in Requests \ {r} : Collected(q, job[q])'
    BY <1>2, OthersStay DEF RecorderInv
  <2>2. Collected(r, job[r])'
    BY <1>1, <1>3 DEF RecorderInv, Collected
  <2> QED  BY <2>1, <2>2
<1>10. Closing' /\ SocketsTell'
  BY ClosingStays, SocketsStay DEF RecorderInv
<1> QED  BY <1>6, <1>7, <1>8, <1>9, <1>10 DEF RecorderInv

LEMMA OnDoneKeeps ==
  ASSUME RecorderInv, NEW r \in Requests, NEW failed \in BOOLEAN, OnDone(r, failed)
  PROVE  RecorderInv'
<1> /\ context' = context /\ routes' = routes /\ written' = written /\ closer' = closer /\ mine' = mine
    /\ tally' = tally /\ spoke' = spoke /\ RequestTypes /\ Fits(state, written) /\ over' = over
  BY DEF OnDone, RecorderInv
<1>1. /\ page[r].at = "sent" /\ page' \in PageTypes /\ page'[r].at = "done" /\ page'[r].masked = page[r].masked
      /\ page'[r].answered = page[r].answered
      /\ \A q \in Requests \ {r} : page'[q] = page[q]
  BY DEF OnDone, RequestTypes, PageTypes
<1>2. /\ state' \in States /\ state'.held = state.held /\ state'.closed = state.closed /\ state'.saw = state.saw
      /\ state'.flushed = state.flushed /\ state'.sockets = state.sockets
      /\ state'.inflight = state.inflight \ {r}
  <2>1. state \in States
    BY DEF Fits
  <2>2. state' = [state EXCEPT !.inflight = state.inflight \ {r}]
    BY DEF OnDone, Done
  <2> QED  BY <2>1, <2>2 DEF States
<1>3. job[r].pc = "none" /\ r \notin HeldRequests(state) /\ Where(r, state, written)
  BY <1>1 DEF Fits, Where
<1>4. \/ /\ job' = job /\ (r \in state.flushed \/ ~Req(r).net)
      \/ /\ r \notin state.flushed /\ job'[r].pc = "sizes" /\ job'[r].sizes = FALSE
         /\ job'[r].status = page[r].answered
         /\ job' \in [Requests -> JobsOf]
         /\ \A q \in Requests \ {r} : job'[q] = job[q]
  <2>1. [NoJob EXCEPT !.pc = "sizes", !.failed = failed, !.status = page[r].answered] \in JobsOf
    BY DEF NoJob, JobsOf, JobPcs, RequestTypes, PageTypes
  <2>2. [NoJob EXCEPT !.pc = "sizes", !.failed = failed, !.status = page[r].answered].pc = "sizes"
    BY DEF NoJob
  <2>3. [NoJob EXCEPT !.pc = "sizes", !.failed = failed, !.status = page[r].answered].status = page[r].answered
    BY DEF NoJob
  <2>4. [NoJob EXCEPT !.pc = "sizes", !.failed = failed, !.status = page[r].answered].sizes = FALSE
    BY DEF NoJob
  <2>5. CASE r \in state.flushed \/ ~Req(r).net
    BY <2>5 DEF OnDone, Done
  <2>6. CASE ~(r \in state.flushed \/ ~Req(r).net)
    <3> PICK k : k = [NoJob EXCEPT !.pc = "sizes", !.failed = failed, !.status = page[r].answered]
      OBVIOUS
    <3>1. job' = [job EXCEPT ![r] = k]
      BY <2>6 DEF OnDone, Done, StartsCollecting
    <3>2. job \in [Requests -> JobsOf]
      BY DEF RequestTypes
    <3>3. job'[r] = k /\ job' \in [Requests -> JobsOf] /\ \A q \in Requests \ {r} : job'[q] = job[q]
      BY ONLY <2>1, <3>1, <3>2, r \in Requests, k = [NoJob EXCEPT !.pc = "sizes", !.failed = failed, !.status = page[r].answered]
    <3> QED  BY <2>2, <2>3, <2>4, <2>6, <3>3
  <2> QED  BY <2>5, <2>6
<1>5. \A q \in Requests \ {r} : Same(q)
  BY <1>1, <1>4 DEF Same
<1>6. Where(r, state, written)'
  <2>1. r \notin HeldRequests(state)'
    BY <1>2, <1>3 DEF HeldRequests
  <2>2. /\ Req(r)' = Req(r) /\ (r \in state'.flushed <=> r \in state.flushed) /\ r \notin state'.inflight
        /\ state'.closed = state.closed
    BY <1>2 DEF Req
  <2>3. CASE job' = job /\ (r \in state.flushed \/ ~Req(r).net)
    BY <1>1, <1>3, <2>1, <2>2, <2>3 DEF Where
  <2>4. CASE r \notin state.flushed /\ job'[r].pc = "sizes"
    <3>1. written[r] = <<>>
      BY <1>3, <2>4 DEF Where
    <3> QED  BY <1>1, <2>1, <2>2, <2>4, <3>1 DEF Where
  <2> QED  BY <1>4, <2>3, <2>4
<1>7. \A q \in Requests \ {r} : Where(q, state, written)'
  <2>1. \A q \in Requests \ {r} : Where(q, state, written)
    BY DEF Fits
  <2> QED  BY <1>2, <1>5, <2>1, WhereStays
<1>8. Fits(state, written)'
  BY <1>2, <1>6, <1>7 DEF Fits, States
<1>9. RequestTypes'
  BY <1>1, <1>4 DEF RequestTypes
<1>10. \A q \in Requests : Routed(q)'
  BY <1>1 DEF RecorderInv, Routed, Hit, Req
<1>11. \A q \in Requests : Collected(q, job[q])'
  <2>1. \A q \in Requests \ {r} : Collected(q, job[q])'
    BY <1>5, OthersStay DEF RecorderInv
  <2>2. Collected(r, job[r])'
    BY <1>1, <1>3, <1>4 DEF RecorderInv, Collected
  <2> QED  BY <2>1, <2>2
<1>12. Closing' /\ SocketsTell'
  BY <1>2, <1>3, <1>4, ClosingStays, SocketsStay DEF RecorderInv
<1> QED  BY <1>8, <1>9, <1>10, <1>11, <1>12 DEF RecorderInv

LEMMA ProbedKeeps ==
  ASSUME RecorderInv, NEW r \in Requests, NEW ok \in BOOLEAN, Probed(r, ok)
  PROVE  RecorderInv'
<1> /\ context' = context /\ routes' = routes /\ job' = job /\ page' = page /\ closer' = closer /\ mine' = mine
    /\ tally' = tally /\ spoke' = spoke /\ RequestTypes /\ Fits(state, written) /\ over' = over
  BY DEF Probed, RecorderInv
<1>1. \A q \in Requests : Same(q)
  BY DEF Same
<1>2. \/ state' = state /\ written' = written
      \/ state' = SawWire(state) /\ written' = WrittenBySawWire(written, state)
  BY DEF Probed
<1>3. PICK s : s = state'
  OBVIOUS
<1>4. PICK w : w = written'
  OBVIOUS
<1>5. /\ Fits(s, w) /\ s.closed = state.closed /\ s.sockets = state.sockets
  BY <1>2, <1>3, <1>4, SawWireFits
<1>6. \A q \in Requests : Where(q, s, w)'
  BY <1>1, <1>5, WhereStays DEF Fits
<1>7. Fits(state, written)'
  BY <1>3, <1>4, <1>5, <1>6 DEF Fits, States
<1>8. RequestTypes' /\ \A q \in Requests : Routed(q)' /\ Collected(q, job[q])'
  BY <1>1, CollectedStays DEF RecorderInv, RequestTypes, Routed, Hit, Req
<1>9. ASSUME NEW q \in Requests, written[q] # <<>>
      PROVE  written'[q] # <<>>
  BY <1>2, <1>9, SawWireKeeps
<1>10. Closing' /\ SocketsTell'
  BY <1>3, <1>5, <1>9, ClosingStays, SocketsStay DEF RecorderInv
<1> QED  BY <1>7, <1>8, <1>10 DEF RecorderInv

LEMMA GotSizesKeeps ==
  ASSUME RecorderInv, NEW r \in Requests, NEW ok \in BOOLEAN, GotSizes(r, ok)
  PROVE  RecorderInv'
<1> /\ context' = context /\ routes' = routes /\ page' = page /\ closer' = closer /\ mine' = mine /\ state' = state
    /\ written' = written /\ tally' = tally /\ spoke' = spoke /\ RequestTypes /\ Fits(state, written) /\ over' = over
  BY DEF GotSizes, RecorderInv
<1>1. /\ job[r].pc = "sizes" /\ (ok => job[r].status)
      /\ job' \in [Requests -> JobsOf] /\ job'[r] = [job[r] EXCEPT !.pc = "headers", !.sizes = ok]
      /\ \A q \in Requests \ {r} : job'[q] = job[q]
  <2>1. job \in [Requests -> JobsOf] /\ job[r] \in JobsOf
    BY DEF RequestTypes
  <2>2. [job[r] EXCEPT !.pc = "headers", !.sizes = ok] \in JobsOf
    BY <2>1 DEF JobsOf, JobPcs
  <2>3. job' = [job EXCEPT ![r] = [job[r] EXCEPT !.pc = "headers", !.sizes = ok]]
    BY DEF GotSizes
  <2>4. job[r].pc = "sizes" /\ (ok => job[r].status)
    BY DEF GotSizes
  <2> QED  BY <2>1, <2>2, <2>3, <2>4
<1>2. job'[r].pc = "headers" /\ job'[r].sizes = ok /\ job'[r].status = job[r].status
  BY <1>1 DEF RequestTypes, JobsOf
<1>3. \A q \in Requests \ {r} : Same(q)
  BY <1>1 DEF Same
<1>4. Where(r, state, written)'
  <2>1. Where(r, state, written)
    BY DEF Fits
  <2> QED  BY <1>1, <1>2, <2>1 DEF Where, HeldRequests, Req
<1>5. \A q \in Requests \ {r} : Where(q, state, written)'
  <2>1. \A q \in Requests \ {r} : Where(q, state, written)
    BY DEF Fits
  <2> QED  BY <1>3, <2>1, WhereStays
<1>6. Fits(state, written)'
  BY <1>4, <1>5 DEF Fits, States
<1>7. RequestTypes' /\ \A q \in Requests : Routed(q)'
  BY <1>1 DEF RecorderInv, RequestTypes, Routed, Hit, Req
<1>8. \A q \in Requests : Collected(q, job[q])'
  <2>1. \A q \in Requests \ {r} : Collected(q, job[q])'
    BY <1>3, OthersStay DEF RecorderInv
  <2>2. Collected(r, job[r])'
    BY <1>1, <1>2 DEF RecorderInv, Collected
  <2> QED  BY <2>1, <2>2
<1>9. Closing' /\ SocketsTell'
  BY <1>1, <1>2, ClosingStays, SocketsStay DEF RecorderInv
<1> QED  BY <1>6, <1>7, <1>8, <1>9 DEF RecorderInv

\* What the two halves of a collecting's end leave, once its event fits.
LEMMA RecordKeeps ==
  ASSUME RecorderInv, UNCHANGED <<context, page, routes, tally, closer, mine, over, spoke>>,
         NEW r \in Requests, job[r].pc \notin {"none", "end"}, NEW k, k \in JobsOf, k.pc = "end", k.status = job[r].status,
         k.sizes = job[r].sizes, job' = [job EXCEPT ![r] = k], Fits(state, written)',
         state'.closed = state.closed, state'.sockets = state.sockets,
         \A q \in Requests \ {r} : written[q] # <<>> => written'[q] # <<>>
  PROVE  RecorderInv'
<1>1. /\ job \in [Requests -> JobsOf] /\ job' \in [Requests -> JobsOf] /\ job'[r] = k
      /\ \A q \in Requests \ {r} : job'[q] = job[q]
  BY DEF RecorderInv, RequestTypes
<1>2. \A q \in Requests \ {r} : Same(q)
  BY <1>1 DEF Same
<1>3. RequestTypes' /\ \A q \in Requests : Routed(q)'
  BY <1>1 DEF RecorderInv, RequestTypes, Routed, Hit, Req
<1>4. \A q \in Requests : Collected(q, job[q])'
  <2>1. \A q \in Requests \ {r} : Collected(q, job[q])'
    BY <1>2, OthersStay DEF RecorderInv
  <2>2. Collected(r, job[r])'
    BY <1>1 DEF RecorderInv, Collected
  <2> QED  BY <2>1, <2>2
<1>5. written[r] = <<>>
  BY DEF RecorderInv, Fits, Where
<1>6. Closing' /\ SocketsTell'
  BY <1>1, <1>5, ClosingStays, SocketsStay DEF RecorderInv
<1> QED  BY <1>3, <1>4, <1>6 DEF RecorderInv

LEMMA GotAddrKeeps ==
  ASSUME RecorderInv, NEW r \in Requests, NEW ok \in BOOLEAN, GotAddr(r, ok)
  PROVE  RecorderInv'
<1> PICK k : k = [job[r] EXCEPT !.pc = "end", !.lost = ~ok]
  OBVIOUS
<1> PICK d : d = ApplyAddr([Undecided EXCEPT !.need = job[r].pc, !.candidate = job[r].candidate],
                           IF ok THEN Address(r) ELSE "missing")
  OBVIOUS
<1>1. /\ job[r].pc \in {"sw", "non_cdp", "cdp"} /\ job' = [job EXCEPT ![r] = k] /\ Record(state, written, r, job[r], d)
      /\ UNCHANGED <<context, page, routes, probe, tally, closer, mine, over, spoke>>
  BY DEF GotAddr
<1>2. k \in JobsOf /\ k.pc = "end" /\ k.status = job[r].status /\ k.sizes = job[r].sizes
  <2>1. job[r] \in JobsOf
    BY DEF RecorderInv, RequestTypes
  <2> QED  BY <2>1 DEF JobsOf, JobPcs
<1>3. /\ Holds(state, d) => CandidateIs(r, k)
      /\ ~Holds(state, d) => EventOf(state, r, job[r], d) \in Sayings /\ IsTrue(r, k, state.closed, EventOf(state, r, job[r], d))
  <2>1. RequestTypes /\ Routed(r) /\ Collected(r, job[r]) /\ state \in States
    BY DEF RecorderInv, Fits
  <2> QED  BY <1>1, <2>1, AddrTruly
<1>4. /\ Fits(state, written)'
      /\ state'.closed = state.closed /\ state'.sockets = state.sockets /\ \A q \in Requests \ {r} : written'[q] = written[q]
  <2>1. RequestTypes /\ Fits(state, written)
    BY DEF RecorderInv
  <2>2. job[r].pc \notin {"none", "end"}
    BY <1>1
  <2>3. context' = context /\ page' = page /\ routes' = routes
    BY <1>1
  <2> PICK j : j = job[r]
    OBVIOUS
  <2> PICK s, w : s = state /\ w = written
    OBVIOUS
  <2> PICK what : what = EventOf(s, r, j, d)
    OBVIOUS
  <2>4. /\ IF Holds(s, d) THEN state' = [s EXCEPT !.held = Append(s.held, r)] /\ written' = w
           ELSE state' = s /\ written' = Writes(w, r, what)
        /\ Holds(s, d) => CandidateIs(r, k)
        /\ ~Holds(s, d) => what \in Sayings /\ IsTrue(r, k, s.closed, what)
    BY <1>1, <1>3, RecordIs
  <2>5. /\ Fits(state, written)' /\ state'.closed = s.closed /\ state'.sockets = s.sockets
        /\ \A q \in Requests \ {r} : written'[q] = w[q]
    <3>1. job' = [job EXCEPT ![r] = k] /\ k \in JobsOf /\ k.pc = "end" /\ r \in Requests /\ Fits(s, w)
      BY <1>1, <1>2, <2>1
    <3>2. CASE Holds(s, d)
      <4>1. ~s.saw /\ ~s.closed
        BY <3>2 DEF Holds, Late
      <4> QED  BY ONLY <2>1, <2>2, <2>3, <2>4, <3>1, <3>2, <4>1, HeldFits
    <3>3. CASE ~Holds(s, d)
      <4>1. state' = s /\ written' = Writes(w, r, what) /\ what \in Sayings /\ IsTrue(r, k, s.closed, what)
        BY <2>4, <3>3
      <4> QED  BY ONLY <2>1, <2>2, <2>3, <3>1, <4>1, WrittenFits, ZenonT(40)
    <3> QED  BY <3>2, <3>3
  <2> QED  BY <2>5
<1>5. job[r].pc \notin {"none", "end"}
  BY <1>1
<1> QED  BY <1>1, <1>2, <1>4, <1>5, RecordKeeps

LEMMA GotHeadersKeeps ==
  ASSUME RecorderInv, NEW r \in Requests, NEW ok \in BOOLEAN, GotHeaders(r, ok)
  PROVE  RecorderInv'
<1> PICK j : j = [job[r] EXCEPT !.raw = ok]
  OBVIOUS
<1> PICK s : s = IF ok /\ ShowsWire(r) THEN SawWire(state) ELSE state
  OBVIOUS
<1> PICK w : w = IF ok /\ ShowsWire(r) THEN WrittenBySawWire(written, state) ELSE written
  OBVIOUS
<1> PICK d : d = Decide(s, r, j)
  OBVIOUS
<1>1. /\ job[r].pc = "headers"
      /\ UNCHANGED <<context, page, routes, probe, tally, closer, mine, over, spoke>>
  BY DEF GotHeaders
<1>2. IF d.need = "none"
      THEN job' = [job EXCEPT ![r] = [j EXCEPT !.pc = "end"]] /\ Record(s, w, r, j, d)
      ELSE /\ job' = [job EXCEPT ![r] = [j EXCEPT !.pc = d.need, !.candidate = d.candidate]]
           /\ state' = s /\ written' = w
  BY DEF GotHeaders
<1>3. /\ Fits(s, w) /\ s.closed = state.closed /\ s.sockets = state.sockets
      /\ \A q \in Requests : written[q] # <<>> => w[q] # <<>>
  BY SawWireFits, SawWireKeeps DEF RecorderInv
<1>4. /\ job[r] \in JobsOf /\ RequestTypes /\ Routed(r) /\ Collected(r, job[r]) /\ s \in States
  BY <1>3 DEF RecorderInv, RequestTypes, Fits
<1>5. /\ j \in JobsOf /\ j.pc = "headers" /\ j.raw = ok /\ j.status = job[r].status /\ j.sizes = job[r].sizes
      /\ j.failed = job[r].failed /\ j.candidate = job[r].candidate /\ j.lost = job[r].lost
  BY <1>1, <1>4 DEF JobsOf
<1>6. page[r].at = "done" /\ Asked(r, j)
  BY <1>1, <1>4, <1>5 DEF Collected, Asked
<1>7. CASE d.need = "none"
  <2> PICK k : k = [j EXCEPT !.pc = "end"]
    OBVIOUS
  <2> PICK what : what = EventOf(s, r, j, d)
    OBVIOUS
  <2>1. job' = [job EXCEPT ![r] = k] /\ Record(s, w, r, j, d)
    BY <1>2, <1>7
  <2>2. /\ k \in JobsOf /\ k.pc = "end" /\ k.status = j.status /\ k.sizes = j.sizes /\ k.raw = j.raw
        /\ k.failed = j.failed /\ k.lost = j.lost
    BY <1>5 DEF JobsOf, JobPcs
  <2>3. ~Holds(s, d) /\ EventOf(s, r, j, d) \in Sayings /\ IsTrue(r, j, s.closed, EventOf(s, r, j, d))
    BY <1>4, <1>6, <1>7, DecidesTruly
  <2>4. IsTrue(r, k, s.closed, what) /\ what \in Sayings /\ state' = s /\ written' = Writes(w, r, what)
    BY <2>1, <2>2, <2>3, RecordIs DEF IsTrue
  <2>5. /\ Fits(state, written)' /\ state'.closed = s.closed /\ state'.sockets = s.sockets
        /\ \A q \in Requests \ {r} : written'[q] = w[q]
    <3>1. context' = context /\ page' = page /\ routes' = routes /\ job[r].pc \notin {"none", "end"}
      BY <1>1
    <3>2. Fits(s, w) /\ RequestTypes /\ k \in JobsOf /\ k.pc = "end" /\ r \in Requests
      BY <1>3, <1>4, <2>2
    <3> QED  BY ONLY <2>1, <2>4, <3>1, <3>2, WrittenFits, ZenonT(40)
  <2>6. job[r].pc \notin {"none", "end"} /\ k.status = job[r].status /\ k.sizes = job[r].sizes
    BY <1>1, <1>5, <2>2
  <2>7. /\ state'.closed = state.closed /\ state'.sockets = state.sockets
        /\ \A q \in Requests \ {r} : written[q] # <<>> => written'[q] # <<>>
    BY <1>3, <2>5
  <2>8. RecorderInv /\ r \in Requests /\ k \in JobsOf /\ k.pc = "end" /\ job' = [job EXCEPT ![r] = k]
    BY <2>1, <2>2
  <2> QED  BY ONLY <1>1, <2>5, <2>6, <2>7, <2>8, RecordKeeps
<1>8. CASE d.need # "none"
  <2> PICK k : k = [j EXCEPT !.pc = d.need, !.candidate = d.candidate]
    OBVIOUS
  <2>1. job' = [job EXCEPT ![r] = k] /\ state' = s /\ written' = w
    BY <1>2, <1>8
  <2>2. /\ d.need \in {"sw", "non_cdp", "cdp"} /\ d.candidate \in BOOLEAN
        /\ NoNetwork(r, j) = "none" /\ j.status
        /\ d.need = "sw" => FromWorker(r, j) /\ ~j.failed /\ ~(j.raw /\ ShowsWire(r)) /\ ~d.candidate
        /\ d.need = "non_cdp" => /\ ~FromWorker(r, j) /\ Cacheable(r, j) /\ ~d.candidate
                                 /\ context.browser \in {"firefox", "webkit"}
        /\ d.need = "cdp" => /\ ~FromWorker(r, j) /\ ~j.failed
                             /\ context.browser \notin {"firefox", "webkit"}
        /\ d.need = "cdp" /\ d.candidate => CandidateIs(r, j)
        /\ d.need = "cdp" /\ ~d.candidate => ~context.tagged /\ (Hit(r) => routes.switched > 0)
    BY <1>4, <1>6, <1>8, DecidesTruly
  <2>3. /\ k \in JobsOf /\ k.pc = d.need /\ k.candidate = d.candidate /\ k.status = j.status /\ k.sizes = j.sizes
        /\ k.raw = j.raw /\ k.failed = j.failed /\ k.lost = j.lost
    <3>1. d.need \in JobPcs /\ d.candidate \in BOOLEAN
      BY <2>2 DEF JobPcs
    <3> QED  BY ONLY <1>5, <3>1, k = [j EXCEPT !.pc = d.need, !.candidate = d.candidate] DEF JobsOf
  <2>4. Collected(r, k)
    <3>1. /\ NoNetwork(r, k) = NoNetwork(r, j) /\ (FromWorker(r, k) <=> FromWorker(r, j))
          /\ (Cacheable(r, k) <=> Cacheable(r, j)) /\ (CandidateIs(r, j) => CandidateIs(r, k))
      BY <2>3 DEF NoNetwork, FromWorker, Cacheable, CandidateIs
    <3> QED  BY <1>6, <2>2, <2>3, <3>1 DEF Collected, Asked
  <2>5. /\ job' \in [Requests -> JobsOf] /\ job'[r] = k /\ \A q \in Requests \ {r} : job'[q] = job[q]
    BY <2>1, <2>3 DEF RecorderInv, RequestTypes
  <2>6. \A q \in Requests \ {r} : Same(q)
    BY <1>1, <2>5 DEF Same
  <2>7. RequestTypes' /\ \A q \in Requests : Routed(q)'
    BY <1>1, <2>5 DEF RecorderInv, RequestTypes, Routed, Hit, Req
  <2>8. \A q \in Requests : Collected(q, job[q])'
    <3>1. \A q \in Requests \ {r} : Collected(q, job[q])'
      BY <2>6, OthersStay DEF RecorderInv
    <3>2. Collected(r, k)'
      BY <1>1, <2>4 DEF Collected, NoNetwork, RouteTag, FromWorker, Cacheable, CandidateIs, ShowsWire, Hit, Req
    <3>3. Collected(r, job[r])'
      BY <2>5, <3>2 DEF Collected
    <3> QED  BY <3>1, <3>3
  <2>9. Fits(state, written)'
    <3>1. Where(r, s, w) /\ \A q \in Requests \ {r} : Where(q, s, w)
      BY <1>3 DEF Fits
    <3>2. Where(r, state, written)'
      BY <1>1, <2>1, <2>2, <2>3, <2>5, <3>1 DEF Where, HeldRequests, Req
    <3>3. \A q \in Requests \ {r} : Where(q, s, w)'
      BY <2>6, <3>1, WhereStays
    <3> QED  BY <1>3, <2>1, <3>2, <3>3 DEF Fits, States
  <2>10. Closing' /\ SocketsTell'
    <3>1. job[r].pc \notin {"none", "end"} /\ k.pc # "none"
      BY <1>1, <2>2, <2>3
    <3> QED  BY <1>1, <1>3, <2>1, <2>5, <3>1, ClosingStays, SocketsStay DEF RecorderInv
  <2> QED  BY <2>7, <2>8, <2>9, <2>10 DEF RecorderInv
<1> QED  BY <1>7, <1>8

\* A step that no request notices.
LEMMA QuietKeeps ==
  ASSUME RecorderInv, context' = context, page' = page, job' = job, written' = written, routes' = routes,
         over' \in BOOLEAN, state' \in States, state'.held = state.held, state'.closed = state.closed,
         state'.flushed = state.flushed, state'.saw = state.saw, state'.inflight = state.inflight,
         Closing', SocketsTell'
  PROVE  RecorderInv'
<1>1. \A q \in Requests : Same(q)
  BY DEF Same
<1>2. Fits(state, written)'
  <2>1. \A q \in Requests : Where(q, state, written)
    BY DEF RecorderInv, Fits
  <2>2. \A q \in Requests : Where(q, state, written)'
    BY <1>1, <2>1, WhereStays
  <2> QED  BY <2>2 DEF RecorderInv, Fits, States
<1>3. RequestTypes' /\ \A q \in Requests : Routed(q)' /\ Collected(q, job[q])'
  BY <1>1, CollectedStays DEF RecorderInv, RequestTypes, Routed, Hit, Req
<1> QED  BY <1>2, <1>3 DEF RecorderInv

LEMMA RerouteKeeps ==
  ASSUME RecorderInv, Reroute
  PROVE  RecorderInv'
<1>1. UNCHANGED <<context, page, job, probe, state, tally, closer, mine, over, written, spoke>>
  BY DEF Reroute
<1>2. routes' \in RoutesTypes /\ routes'.switched > 0
  BY DEF Reroute, RecorderInv, RequestTypes, RoutesTypes
<1>3. \A q \in Requests : Same(q)
  BY <1>1, <1>2 DEF Same
<1>4. Fits(state, written)'
  <2>1. \A q \in Requests : Where(q, state, written)
    BY DEF RecorderInv, Fits
  <2>2. \A q \in Requests : Where(q, state, written)'
    BY <1>1, <1>3, <2>1, WhereStays
  <2> QED  BY <1>1, <2>2 DEF RecorderInv, Fits, States
<1>5. RequestTypes' /\ \A q \in Requests : Routed(q)'
  BY <1>1, <1>2 DEF RecorderInv, RequestTypes, Routed, Hit, Req
<1>6. \A q \in Requests : Collected(q, job[q])'
  BY <1>1, <1>3, CollectedStays DEF RecorderInv
<1>7. Closing' /\ SocketsTell'
  BY <1>1, ClosingStays, SocketsStay DEF RecorderInv
<1> QED  BY <1>4, <1>5, <1>6, <1>7 DEF RecorderInv

\* The sockets' steps: a tally is opened, counts, and is finished once.
LEMMA SocketKeeps ==
  ASSUME RecorderInv, NEW w \in Sockets, OpenSocket(w) \/ Frame(w) \/ CloseSocket(w)
  PROVE  RecorderInv'
<1>1. UNCHANGED <<context, page, routes, job, probe, closer, mine, over, written>>
  BY DEF OpenSocket, Frame, CloseSocket
<1>2. SocketsTell /\ Closing /\ state \in States /\ over \in BOOLEAN
  BY DEF RecorderInv, Fits, RequestTypes
<1>3. /\ state' \in States /\ state'.held = state.held /\ state'.closed = state.closed /\ state'.flushed = state.flushed
      /\ state'.saw = state.saw /\ state'.inflight = state.inflight
  BY <1>2 DEF OpenSocket, Frame, CloseSocket, States
<1>4. Closing'
  BY <1>1, <1>2, <1>3, ClosingStays
<1>5. SocketsTell'
  <2> DEFINE Tallies == [at : {"new", "open", "closed"}, frames : Nat, done : BOOLEAN]
  <2>0. tally \in [Sockets -> Tallies] /\ spoke \in [Sockets -> Seq(Nat)] /\ tally[w] \in Tallies
    BY <1>2 DEF SocketsTell
  <2>1. CASE OpenSocket(w)
    <3>1. /\ tally' \in [Sockets -> Tallies] /\ tally'[w].at = "open" /\ tally[w].at = "new" /\ tally'[w].done = tally[w].done
          /\ spoke' = spoke /\ \A v \in Sockets \ {w} : tally'[v] = tally[v]
      BY <2>0, <2>1 DEF OpenSocket
    <3>2. state'.sockets = IF state.closed THEN state.sockets ELSE state.sockets \cup {w}
      BY <1>2, <2>1 DEF OpenSocket, States
    <3>3. ~state.closed => ~tally[w].done
      BY <1>2, <3>1 DEF SocketsTell
    <3> QED  BY <1>2, <1>3, <3>1, <3>2, <3>3 DEF SocketsTell
  <2>2. CASE Frame(w)
    <3>1. /\ tally' \in [Sockets -> Tallies] /\ tally'[w].at = "open" /\ tally[w].at = "open" /\ tally'[w].done = tally[w].done
          /\ spoke' = spoke /\ state' = state /\ \A v \in Sockets \ {w} : tally'[v] = tally[v]
      <4> PICK x : x = tally[w]
        OBVIOUS
      <4> PICK y : y = [x EXCEPT !.frames = x.frames + 1]
        OBVIOUS
      <4>0. x \in Tallies /\ x.frames + 1 \in Nat
        BY <2>0
      <4>1. y \in Tallies /\ y.at = x.at /\ y.done = x.done
        BY ONLY <4>0, y = [x EXCEPT !.frames = x.frames + 1]
      <4>2. tally' = [tally EXCEPT ![w] = y]
        BY <2>2 DEF Frame
      <4>3. tally[w].at = "open" /\ spoke' = spoke /\ state' = state
        BY <2>2 DEF Frame
      <4> HIDE DEF Tallies
      <4> QED  BY <2>0, <4>1, <4>2, <4>3
    <3> QED  BY <1>2, <3>1 DEF SocketsTell
  <2>3. CASE CloseSocket(w)
    <3>1. PICK t : t = [tally EXCEPT ![w].at = "closed"]
      OBVIOUS
    <3>2. /\ t \in [Sockets -> Tallies] /\ t[w].at = "closed" /\ t[w].frames = tally[w].frames
          /\ \A v \in Sockets \ {w} : t[v] = tally[v]
      BY <2>0, <3>1
    <3>3. tally' = Finished(t, {w}) /\ spoke' = Spoken(tally, {w}) /\ tally[w].at = "open"
      BY <2>3, <3>1 DEF CloseSocket
    <3>4. /\ tally' \in [Sockets -> Tallies] /\ tally'[w].at = "closed" /\ tally'[w].frames = tally[w].frames /\ tally'[w].done
          /\ \A v \in Sockets \ {w} : tally'[v] = tally[v]
      <4>1. [t[w] EXCEPT !.done = TRUE] \in Tallies /\ [t[w] EXCEPT !.done = TRUE].at = "closed"
            /\ [t[w] EXCEPT !.done = TRUE].frames = tally[w].frames /\ [t[w] EXCEPT !.done = TRUE].done
        BY <3>2
      <4>2. tally'[w] = [t[w] EXCEPT !.done = TRUE] /\ \A v \in Sockets \ {w} : tally'[v] = t[v]
        BY <3>3 DEF Finished
      <4>3. tally' = [v \in Sockets |-> tally'[v]]
        BY <3>3 DEF Finished
      <4> HIDE DEF Tallies
      <4> QED  BY <2>0, <3>2, <4>1, <4>2, <4>3
    <3>5. /\ spoke' \in [Sockets -> Seq(Nat)] /\ \A v \in Sockets \ {w} : spoke'[v] = spoke[v]
          /\ spoke'[w] = IF ~tally[w].done THEN Append(spoke[w], tally[w].frames) ELSE spoke[w]
      BY <2>0, <3>3 DEF Spoken
    <3>6. ~tally[w].done => spoke'[w] = <<tally[w].frames>>
      <4>1. ~tally[w].done => spoke[w] = <<>>
        BY <1>2 DEF SocketsTell
      <4>2. \A x : Append(<<>>, x) = <<x>>
        OBVIOUS
      <4> QED  BY <3>5, <4>1, <4>2
    <3>7. state'.sockets = state.sockets \ {w}
      BY <1>2, <2>3 DEF CloseSocket, States
    <3>8. Len(spoke'[w]) = 1 /\ (~state.closed => spoke'[w] = <<tally[w].frames>>)
      <4>1. tally[w].done => Len(spoke[w]) = 1 /\ state.closed
        BY <1>2, <3>3 DEF SocketsTell
      <4>2. Len(<<tally[w].frames>>) = 1
        OBVIOUS
      <4> QED  BY <3>5, <3>6, <4>1, <4>2
    <3>9. \A v \in Sockets \ {w} :
            /\ v \in state.sockets => tally[v].at = "open" /\ ~tally[v].done
            /\ IF tally[v].done THEN Len(spoke[v]) = 1 ELSE spoke[v] = <<>>
            /\ tally[v].at = "closed" => tally[v].done
            /\ tally[v].done /\ ~state.closed => tally[v].at = "closed" /\ spoke[v] = <<tally[v].frames>>
      BY <1>2 DEF SocketsTell
    <3>10. state'.closed = state.closed
      BY <1>3
    <3>11. \A v \in Sockets :
             /\ v \in state'.sockets => tally'[v].at = "open" /\ ~tally'[v].done
             /\ IF tally'[v].done THEN Len(spoke'[v]) = 1 ELSE spoke'[v] = <<>>
             /\ tally'[v].at = "closed" => tally'[v].done
             /\ tally'[v].done /\ ~state'.closed => tally'[v].at = "closed" /\ spoke'[v] = <<tally'[v].frames>>
      <4> TAKE v \in Sockets
      <4>1. CASE v = w
        BY <3>4, <3>7, <3>8, <3>10, <4>1
      <4>2. CASE v # w
        BY <3>4, <3>5, <3>7, <3>9, <3>10, <4>2
      <4> QED  BY <4>1, <4>2
    <3> QED  BY <3>4, <3>5, <3>11 DEF SocketsTell
  <2> QED  BY <2>1, <2>2, <2>3
<1> QED  BY <1>1, <1>2, <1>3, <1>4, <1>5, QuietKeeps

-----------------------------------------------------------------------------
(* The close and the end.                                                   *)

LEMMA CloseContextKeeps ==
  ASSUME RecorderInv, CloseContext \/ Drained
  PROVE  RecorderInv'
<1>1. UNCHANGED <<context, page, routes, job, probe, state, tally, over, written, spoke>>
  BY DEF CloseContext, Drained
<1>2. Closing /\ SocketsTell /\ state \in States /\ over \in BOOLEAN
  BY DEF RecorderInv, Fits, RequestTypes
<1>3. \A r \in Requests : Task(r) \in Pending => job[r].pc \notin {"none", "end"}
  BY DEF Pending, Task, Prober
<1>4. context.async => \A r \in Requests : job[r].pc \notin {"none", "end"} => Task(r) \in Pending
  BY DEF Pending
<1>5. Pending # {} => context.async
  BY DEF Pending
<1>6. ASSUME CloseContext
      PROVE  Closing'
  <2>1. closer' = (IF Pending = {} THEN "closing" ELSE "draining") /\ mine' = Pending
    BY <1>6 DEF CloseContext
  <2>2. \A r : Task(r)' = Task(r)
    BY DEF Task
  <2> QED  BY <1>1, <1>2, <1>3, <1>5, <2>1, <2>2 DEF Closing
<1>7. ASSUME Drained
      PROVE  Closing'
  <2>1. closer = "draining" /\ closer' = "closing" /\ context.async
    BY <1>2, <1>7 DEF Drained, Closing
  <2>2. ASSUME NEW r \in Requests, Task(r) \in mine'
        PROVE  job[r].pc = "end"
    <3>1. Task(r) \in mine /\ mine \cap Pending = {}
      BY <1>7, <2>2 DEF Drained
    <3> QED  BY <1>2, <1>4, <2>1, <3>1 DEF Closing
  <2>3. \A r : Task(r)' = Task(r)
    BY DEF Task
  <2> QED  BY <1>1, <2>1, <2>2, <2>3 DEF Closing
<1>8. Closing'
  BY <1>6, <1>7
<1>9. SocketsTell'
  BY <1>1, <1>2, SocketsStay
<1> QED  BY <1>1, <1>2, <1>8, <1>9, QuietKeeps

\* What the flush writes of a held candidate is true.
LEMMA FlushedTruly ==
  ASSUME RecorderInv, NEW r \in Requests, r \in HeldRequests(state), NEW asCache, asCache <=> context.browser = "chromium"
  PROVE  IsTrue(r, job[r], TRUE, IF asCache THEN "cache" ELSE "sized")
<1>1. CandidateIs(r, job[r]) /\ Routed(r) /\ Collected(r, job[r]) /\ RequestTypes
  BY DEF RecorderInv, Fits, Where
<1>2. IsTrue(r, job[r], TRUE, "cache")
  BY <1>1 DEF IsTrue, CandidateIs, Hit
<1>3. Req(r).via \in {"network", "disk", "fulfilled"}
  BY <1>1, ContextIs DEF CandidateIs, FromWorker, Cacheable, Collected, Routed, Vias
<1>4. Req(r).via = "fulfilled" => ~context.tagged
  BY <1>1 DEF CandidateIs, NoNetwork, RouteTag, Cacheable
<1>5. ~asCache => context.browser = "other"
  BY <1>1, ContextIs DEF CandidateIs, Browsers
<1>6. ~asCache => IsTrue(r, job[r], TRUE, "sized")
  BY <1>3, <1>4, <1>5 DEF IsTrue, Hit
<1> QED  BY <1>2, <1>6

\* The flush leaves nothing without its event.
LEMMA FlushKeeps ==
  ASSUME RecorderInv, ~state.closed, Flush, context' = context, page' = page, routes' = routes, job' = job
  PROVE  Fits(state, written)' /\ SocketsTell' /\ state'.closed /\ \A r \in Requests : job[r].pc = "end" => written'[r] # <<>>
<1> PICK asCache \in BOOLEAN : asCache <=> context.browser = "chromium"
  OBVIOUS
<1> PICK left : left = {r \in state.inflight : Req(r).net}
  OBVIOUS
<1>1. Fits(state, written) /\ RequestTypes /\ SocketsTell /\ state \in States /\ written \in [Requests -> Seq(Sayings)]
  BY DEF RecorderInv, Fits
<1> PICK held : held = Released(written, state, asCache)
  OBVIOUS
<1>2. /\ held \in [Requests -> Seq(Sayings)]
      /\ \A r \in Requests : held[r] =
           IF r \in HeldRequests(state) THEN <<IF asCache THEN "cache" ELSE "sized">> ELSE written[r]
  BY <1>1, ReleasedIs
<1>3. written' = [r \in Requests |-> IF r \in left THEN Append(held[r], "unknown") ELSE held[r]]
  <2>1. held = Released(written, state, context.browser = "chromium")
    BY DEF Released
  <2> QED  BY <2>1 DEF Flush
<1>4. /\ state' \in States /\ state'.closed /\ state'.held = <<>> /\ state'.inflight = {} /\ state'.sockets = {}
      /\ state'.flushed = state.flushed \cup state.inflight
  <2>1. state' = [state EXCEPT !.closed = TRUE, !.held = <<>>, !.inflight = {},
                               !.flushed = state.flushed \cup state.inflight, !.sockets = {}]
    BY DEF Flush
  <2>2. <<>> \in Seq(Requests)
    OBVIOUS
  <2> QED  BY ONLY <1>1, <2>1, <2>2 DEF States
<1>5. HeldRequests(state)' = {}
  BY <1>4 DEF HeldRequests
<1>6. ASSUME NEW r \in Requests
      PROVE  written'[r] \in Seq(Sayings) /\ Where(r, state, written)' /\ (job[r].pc = "end" => written'[r] # <<>>)
  <2>1. Where(r, state, written) /\ Same(r) /\ Req(r)' = Req(r) /\ page[r].at \in {"new", "sent", "done"}
    BY <1>1 DEF Fits, Same, Req, RequestTypes, PageTypes
  <2>2. r \notin state.flushed
    BY <2>1 DEF Where
  <2>3. /\ held[r] \in Seq(Sayings) /\ written'[r] = IF r \in left THEN Append(held[r], "unknown") ELSE held[r]
        /\ held[r] = IF r \in HeldRequests(state) THEN <<IF asCache THEN "cache" ELSE "sized">> ELSE written[r]
        /\ r \notin HeldRequests(state)' /\ state'.closed /\ r \notin state'.inflight
    BY <1>2, <1>3, <1>4, <1>5
  <2>4. CASE r \in state.inflight
    <3>1. page[r].at = "sent" /\ job[r].pc = "none" /\ ~page[r].late /\ held[r] = <<>>
      BY <2>1, <2>2, <2>3, <2>4 DEF Where
    <3>2. r \in state'.flushed /\ written'[r] = IF Req(r).net THEN <<"unknown">> ELSE <<>>
      <4>1. Append(<<>>, "unknown") = <<"unknown">>
        OBVIOUS
      <4> QED  BY <1>4, <2>3, <2>4, <3>1, <4>1
    <3>3. written'[r] \in Seq(Sayings)
      <4>1. "unknown" \in Sayings
        BY DEF Sayings
      <4>2. <<"unknown">> \in Seq(Sayings) /\ <<>> \in Seq(Sayings)
        BY <4>1
      <4> QED  BY <3>2, <4>2
    <3>4. Where(r, state, written)'
      BY <2>1, <2>3, <3>1, <3>2 DEF Where
    <3> QED  BY <3>1, <3>3, <3>4
  <2>5. CASE r \notin state.inflight
    <3>1. r \notin state'.flushed /\ written'[r] = held[r] /\ page[r].at # "sent"
      BY <1>4, <2>1, <2>2, <2>3, <2>5 DEF Where
    <3>2. CASE job[r].pc = "end"
      <4>1. \E what \in Sayings : written'[r] = <<what>> /\ IsTrue(r, job[r], TRUE, what)
        <5>1. CASE r \in HeldRequests(state)
          <6>1. IsTrue(r, job[r], TRUE, IF asCache THEN "cache" ELSE "sized")
            BY <5>1, FlushedTruly
          <6> QED  BY <2>3, <3>1, <5>1, <6>1 DEF Sayings
        <5>2. CASE r \notin HeldRequests(state)
          <6>1. PICK what \in Sayings : written[r] = <<what>> /\ IsTrue(r, job[r], state.closed, what)
            BY <2>1, <3>2, <5>2 DEF Where
          <6>2. IsTrue(r, job[r], TRUE, what)
            BY <6>1 DEF IsTrue
          <6> QED  BY <2>3, <3>1, <5>2, <6>1, <6>2
        <5> QED  BY <5>1, <5>2
      <4>2. PICK what \in Sayings : written'[r] = <<what>> /\ IsTrue(r, job[r], TRUE, what)
        BY <4>1
      <4>3. IsTrue(r, job[r], state.closed, what)'
        <5> PICK j : j = job[r]
          OBVIOUS
        <5>1. IsTrue(r, j, TRUE, what)
          BY <4>2
        <5>2. IsTrue(r, j, TRUE, what)'
          BY <2>1, <5>1, TruthStays
        <5> QED  BY <2>1, <2>3, <5>2 DEF IsTrue, Same
      <4>4. Where(r, state, written)'
        BY <2>1, <2>3, <3>1, <3>2, <4>2, <4>3 DEF Where
      <4>5. <<what>> # <<>>
        OBVIOUS
      <4>6. written'[r] # <<>> /\ written'[r] \in Seq(Sayings)
        BY <2>3, <3>1, <4>2, <4>5
      <4> QED  BY <4>4, <4>6
    <3>3. CASE job[r].pc # "end"
      <4>1. r \notin HeldRequests(state) /\ written'[r] = written[r]
        BY <2>1, <2>3, <3>1, <3>3 DEF Where
      <4>2. Where(r, state, written)'
        BY <2>1, <2>2, <2>3, <3>1, <3>3, <4>1 DEF Where
      <4> QED  BY <2>3, <3>1, <3>3, <4>2
    <3> QED  BY <3>2, <3>3
  <2> QED  BY <2>4, <2>5
<1>7. Fits(state, written)'
  <2>1. written' \in [Requests -> Seq(Sayings)]
    BY <1>3, <1>6
  <2> QED  BY <1>4, <1>6, <2>1 DEF Fits, States
<1>8. SocketsTell'
  <2> DEFINE Tallies == [at : {"new", "open", "closed"}, frames : Nat, done : BOOLEAN]
  <2>1. /\ tally \in [Sockets -> Tallies] /\ spoke \in [Sockets -> Seq(Nat)]
        /\ tally' = Finished(tally, state.sockets) /\ spoke' = Spoken(tally, state.sockets)
    BY <1>1 DEF SocketsTell, Flush
  <2>2. ASSUME NEW w \in Sockets
        PROVE  /\ tally'[w] \in Tallies /\ spoke'[w] \in Seq(Nat)
               /\ IF tally'[w].done THEN Len(spoke'[w]) = 1 ELSE spoke'[w] = <<>>
               /\ tally'[w].at = "closed" => tally'[w].done
    <3>1. /\ w \in state.sockets => tally[w].at = "open" /\ ~tally[w].done
          /\ IF tally[w].done THEN Len(spoke[w]) = 1 ELSE spoke[w] = <<>>
          /\ tally[w].at = "closed" => tally[w].done
      BY <1>1 DEF SocketsTell
    <3>2. CASE w \notin state.sockets
      <4>1. tally'[w] = tally[w] /\ spoke'[w] = spoke[w]
        BY <2>1, <3>2 DEF Finished, Spoken
      <4> QED  BY <2>1, <3>1, <4>1
    <3>3. CASE w \in state.sockets
      <4>1. tally'[w] = [tally[w] EXCEPT !.done = TRUE] /\ spoke'[w] = Append(<<>>, tally[w].frames)
        BY <2>1, <3>1, <3>3 DEF Finished, Spoken
      <4>2. tally[w] \in Tallies /\ tally[w].frames \in Nat
        BY <2>1
      <4>3. [tally[w] EXCEPT !.done = TRUE] \in Tallies /\ [tally[w] EXCEPT !.done = TRUE].done
        BY <4>2
      <4>4. Append(<<>>, tally[w].frames) \in Seq(Nat) /\ Len(Append(<<>>, tally[w].frames)) = 1
        BY <4>2
      <4> HIDE DEF Tallies
      <4> QED  BY <4>1, <4>3, <4>4
    <3> QED  BY <3>2, <3>3
  <2>3. tally' \in [Sockets -> Tallies] /\ spoke' \in [Sockets -> Seq(Nat)]
    <3>1. tally' = [w \in Sockets |-> tally'[w]] /\ spoke' = [w \in Sockets |-> spoke'[w]]
      BY <2>1 DEF Finished, Spoken
    <3> HIDE DEF Tallies
    <3> QED  BY <2>2, <3>1
  <2> QED  BY <1>4, <2>2, <2>3 DEF SocketsTell
<1> QED  BY <1>4, <1>6, <1>7, <1>8

LEMMA EndKeeps ==
  ASSUME RecorderInv, OnClose \/ Exit
  PROVE  RecorderInv'
<1>1. UNCHANGED <<context, page, routes, job, probe>> /\ over' \in BOOLEAN
  BY DEF OnClose, Exit, RecorderInv, RequestTypes
<1>2. \A q \in Requests : Same(q)
  BY <1>1 DEF Same
<1>3. RequestTypes' /\ \A q \in Requests : Routed(q)' /\ Collected(q, job[q])'
  BY <1>1, <1>2, CollectedStays DEF RecorderInv, RequestTypes, Routed, Hit, Req
<1>4. \A r : Task(r)' = Task(r)
  BY DEF Task
<1>5. ASSUME OnClose
      PROVE  Fits(state, written)' /\ SocketsTell' /\ Closing'
  <2>1. Fits(state, written)' /\ SocketsTell' /\ state'.closed /\ \A r \in Requests : job[r].pc = "end" => written'[r] # <<>>
    BY <1>1, <1>5, FlushKeeps DEF OnClose
  <2>2. closer' = "closed" /\ mine' = IF closer = "closing" THEN mine ELSE {}
    BY <1>5 DEF OnClose
  <2>3. \A r \in Requests : Task(r) \in mine' => job[r].pc = "end"
    BY <2>2 DEF RecorderInv, Closing
  <2>4. Closing'
    BY <1>1, <1>4, <2>1, <2>2, <2>3 DEF Closing
  <2> QED  BY <2>1, <2>4
<1>6. ASSUME Exit, state.closed
      PROVE  Fits(state, written)' /\ SocketsTell' /\ Closing'
  <2>1. UNCHANGED <<state, tally, written, spoke, closer, mine>>
    BY <1>6 DEF Exit
  <2>2. \A q \in Requests : Where(q, state, written)'
    <3>1. \A q \in Requests : Where(q, state, written)
      BY DEF RecorderInv, Fits
    <3> QED  BY <1>2, <2>1, <3>1, WhereStays
  <2>3. Closing' /\ SocketsTell'
    BY <1>1, <2>1, ClosingStays, SocketsStay DEF RecorderInv
  <2> QED  BY <2>1, <2>2, <2>3 DEF RecorderInv, Fits, States
<1>7. ASSUME Exit, ~state.closed
      PROVE  Fits(state, written)' /\ SocketsTell' /\ Closing'
  <2>1. Fits(state, written)' /\ SocketsTell' /\ state'.closed
    BY <1>1, <1>7, FlushKeeps DEF Exit
  <2>2. closer' = closer /\ mine' = mine /\ closer # "closed"
    BY <1>7 DEF Exit, RecorderInv, Closing
  <2>3. Closing'
    BY <1>1, <1>4, <2>1, <2>2 DEF RecorderInv, Closing
  <2> QED  BY <2>1, <2>3
<1> QED  BY <1>3, <1>5, <1>6, <1>7 DEF RecorderInv

-----------------------------------------------------------------------------
(* The invariant, and what follows.                                         *)

LEMMA RecorderStarts == InitRecorder => RecorderInv
<1> SUFFICES ASSUME InitRecorder
             PROVE  RecorderInv
  OBVIOUS
<1>1. /\ context \in Contexts /\ routes = [on |-> context.routed, switched |-> 0] /\ state = NoState
      /\ \A r \in Requests : page[r] = [at |-> "new", answered |-> FALSE, masked |-> FALSE, late |-> FALSE]
      /\ \A r \in Requests : job[r] = NoJob /\ written[r] = <<>>
      /\ \A w \in Sockets : tally[w] = [at |-> "new", frames |-> 0, done |-> FALSE] /\ spoke[w] = <<>>
      /\ closer = "open" /\ mine = {} /\ over = FALSE
  BY DEF InitRecorder
<1>2. RequestTypes
  <2>1. context.routed \in BOOLEAN
    <3>1. IsContext(context)
      BY <1>1, RecorderAssumption
    <3> QED  BY <3>1 DEF IsContext
  <2>2. NoJob \in JobsOf
    BY DEF NoJob, JobsOf, JobPcs
  <2>3. page \in PageTypes
    BY DEF InitRecorder, PageTypes
  <2>4. job \in [Requests -> JobsOf]
    BY <2>2 DEF InitRecorder
  <2>5. routes \in RoutesTypes
    BY <1>1, <2>1 DEF RoutesTypes
  <2> QED  BY <1>1, <2>3, <2>4, <2>5 DEF RequestTypes
<1>3. \A r \in Requests : Routed(r)
  BY <1>1 DEF Routed
<1>4. \A r \in Requests : Collected(r, job[r])
  BY <1>1 DEF Collected, NoJob
<1>5. /\ state \in States /\ state.held = <<>> /\ state.inflight = {} /\ state.flushed = {} /\ state.sockets = {}
      /\ ~state.closed
  <2>1. <<>> \in Seq(Requests)
    OBVIOUS
  <2> QED  BY <1>1, <2>1 DEF NoState, States
<1>6. Fits(state, written)
  <2>1. HeldRequests(state) = {}
    BY <1>5 DEF HeldRequests
  <2>2. ASSUME NEW r \in Requests
        PROVE  Where(r, state, written)
    <3>1. job[r].pc = "none" /\ page[r].at = "new" /\ written[r] = <<>>
      BY <1>1 DEF NoJob
    <3> QED  BY <1>5, <2>1, <3>1 DEF Where
  <2>3. written \in [Requests -> Seq(Sayings)]
    <3>1. <<>> \in Seq(Sayings)
      OBVIOUS
    <3> QED  BY <3>1 DEF InitRecorder
  <2> QED  BY <1>5, <2>2, <2>3 DEF Fits
<1>7. Closing
  BY <1>1 DEF Closing
<1>8. SocketsTell
  <2>1. tally \in [Sockets -> [at : {"new", "open", "closed"}, frames : Nat, done : BOOLEAN]]
    BY DEF InitRecorder
  <2>2. spoke \in [Sockets -> Seq(Nat)]
    <3>1. <<>> \in Seq(Nat)
      OBVIOUS
    <3> QED  BY <3>1 DEF InitRecorder
  <2> QED  BY <1>1, <1>5, <2>1, <2>2 DEF SocketsTell
<1> QED  BY <1>2, <1>3, <1>4, <1>6, <1>7, <1>8 DEF RecorderInv

LEMMA RecorderSteps == RecorderInv /\ [NextRecorder]_recorderVars => RecorderInv'
<1> SUFFICES ASSUME RecorderInv, [NextRecorder]_recorderVars
             PROVE  RecorderInv'
  OBVIOUS
<1>1. ASSUME NEW r \in Requests, OnRequest(r) \/ OnResponse(r)
      PROVE  RecorderInv'
  BY <1>1, OnRequestKeeps, OnResponseKeeps
<1>2. ASSUME NEW r \in Requests, NEW ok \in BOOLEAN,
             OnDone(r, ok) \/ Probed(r, ok) \/ GotSizes(r, ok) \/ GotHeaders(r, ok) \/ GotAddr(r, ok)
      PROVE  RecorderInv'
  BY <1>2, OnDoneKeeps, ProbedKeeps, GotSizesKeeps, GotHeadersKeeps, GotAddrKeeps
<1>3. CASE Reroute \/ CloseContext \/ Drained \/ OnClose \/ Exit
  BY <1>3, RerouteKeeps, CloseContextKeeps, EndKeeps
<1>4. CASE UNCHANGED recorderVars
  <2>1. UNCHANGED <<context, page, routes, job, state, tally, closer, mine, over, written, spoke>>
    BY <1>4 DEF recorderVars
  <2>2. over \in BOOLEAN /\ state \in States
    BY DEF RecorderInv, RequestTypes, Fits
  <2>3. Closing' /\ SocketsTell'
    BY <2>1, ClosingStays, SocketsStay DEF RecorderInv
  <2> QED  BY <2>1, <2>2, <2>3, QuietKeeps
<1> QED  BY <1>1, <1>2, <1>3, <1>4, SocketKeeps DEF NextRecorder

\* One event of each request and socket, in any state the invariant allows.
LEMMA RecordedOnce ==
  ASSUME RecorderInv
  PROVE  OneEventEach
<1>0. \A x : Len(<<x>>) = 1 /\ <<x>> # <<>>
  OBVIOUS
<1>1. ASSUME NEW r \in Requests
      PROVE  /\ Len(written[r]) <= 1
             /\ state.closed /\ page[r].at # "new" /\ ~page[r].late /\ Req(r).net /\ ~Collecting(r) => written[r] # <<>>
  <2>1. Where(r, state, written) /\ page[r].at \in {"new", "sent", "done"} /\ (state.closed => HeldRequests(state) = {})
    BY DEF RecorderInv, Fits, RequestTypes, PageTypes, HeldRequests
  <2>2. written[r] = <<>> \/ \E what \in Sayings : written[r] = <<what>>
    BY <2>1 DEF Where, Sayings
  <2>3. Len(written[r]) <= 1
    <3>1. Len(<<>>) <= 1 /\ \A x : Len(<<x>>) <= 1
      OBVIOUS
    <3> QED  BY ONLY <2>2, <3>1
  <2>4. ASSUME state.closed, page[r].at # "new", ~page[r].late, Req(r).net, ~Collecting(r)
        PROVE  written[r] # <<>>
    <3>1. CASE r \in state.flushed
      BY <1>0, <2>1, <2>4, <3>1 DEF Where
    <3>2. CASE r \notin state.flushed
      <4>1. job[r].pc = "end"
        BY <2>1, <2>4, <3>2 DEF Where, Collecting
      <4> QED  BY <1>0, <2>1, <2>4, <4>1 DEF Where
    <3> QED  BY <3>1, <3>2
  <2> QED  BY <2>3, <2>4
<1>2. closer = "closed" => \A r \in Requests : Task(r) \in mine => written[r] # <<>>
  BY DEF RecorderInv, Closing
<1>3. ASSUME NEW w \in Sockets
      PROVE  /\ Len(spoke[w]) <= 1
             /\ tally[w].at = "closed" => Len(spoke[w]) = 1
             /\ spoke[w] # <<>> /\ w \notin state.sockets /\ ~state.closed => spoke[w] = <<tally[w].frames>>
  <2>1. /\ IF tally[w].done THEN Len(spoke[w]) = 1 ELSE spoke[w] = <<>>
        /\ tally[w].at = "closed" => tally[w].done
        /\ tally[w].done /\ ~state.closed => tally[w].at = "closed" /\ spoke[w] = <<tally[w].frames>>
    BY DEF RecorderInv, SocketsTell
  <2>2. CASE tally[w].done
    <3>1. Len(spoke[w]) = 1 /\ (~state.closed => spoke[w] = <<tally[w].frames>>)
      BY <2>1, <2>2
    <3>2. Len(spoke[w]) <= 1
      BY ONLY <3>1
    <3> QED  BY <3>1, <3>2
  <2>3. CASE ~tally[w].done
    <3>1. spoke[w] = <<>> /\ tally[w].at # "closed"
      BY <2>1, <2>3
    <3>2. Len(<<>>) <= 1
      OBVIOUS
    <3> QED  BY <3>1, <3>2
  <2> QED  BY <2>2, <2>3
<1> QED  BY <1>1, <1>2, <1>3 DEF OneEventEach

\* And what it says.
LEMMA RecordedTruly ==
  ASSUME RecorderInv
  PROVE  EventsAreTrue
<1> SUFFICES ASSUME NEW r \in Requests, NEW i \in DOMAIN written[r]
             PROVE  /\ written[r][i] = "cache" => Hit(r) \/ (page[r].masked /\ routes.switched > 0)
                    /\ written[r][i] = "zero"  =>
                         \/ Req(r).via \notin {"network", "fallback", "disk"}
                         \/ Req(r).via = "fallback" /\ (job[r].failed \/ ~job[r].raw \/ page[r].masked)
                         \/ /\ Req(r).via = "disk" /\ ~context.tagged /\ routes.switched > 0
                            /\ context.browser \in {"firefox", "webkit"}
                    /\ written[r][i] = "sized" =>
                         \/ Req(r).via = "network"
                         \/ Req(r).via = "disk" /\ (Req(r).hop \/ Req(r).script)
                         \/ Req(r).via = "disk" /\ (~job[r].raw \/ job[r].lost \/ routes.switched > 0)
                         \/ Req(r).via = "disk" /\ context.browser = "other" /\ state.closed
                         \/ Req(r).via = "fulfilled" /\ ~context.tagged
  BY DEF EventsAreTrue
<1>1. Where(r, state, written)
  BY DEF RecorderInv, Fits
<1>2. written[r] = <<"unknown">> \/ \E what \in Sayings : written[r] = <<what>> /\ IsTrue(r, job[r], state.closed, what)
  <2>1. written[r] # <<>>
    OBVIOUS
  <2>2. r \in state.flushed => written[r] = <<"unknown">>
    BY <1>1, <2>1 DEF Where
  <2>3. r \notin state.flushed => job[r].pc = "end"
    BY <1>1, <2>1 DEF Where
  <2> QED  BY <1>1, <2>1, <2>2, <2>3 DEF Where
<1>3. PICK what : written[r] = <<what>> /\ (what = "unknown" \/ IsTrue(r, job[r], state.closed, what))
  BY <1>2
<1>4. written[r][i] = what
  <2>1. DOMAIN <<what>> = {1} /\ <<what>>[1] = what
    OBVIOUS
  <2> QED  BY <1>3, <2>1
<1>5. CASE what = "unknown"
  BY <1>4, <1>5
<1>6. CASE IsTrue(r, job[r], state.closed, what)
  BY <1>4, <1>6 DEF IsTrue
<1> QED  BY <1>3, <1>5, <1>6

\* What is recorded of a browser context (helpers/playwright.py): each request
\* and each WebSocket has one event, written when it ends, when it is no
\* longer held, or when the context closes; and what the event says of the
\* bytes is true, of any number of requests, in any order of the driver's answers.
THEOREM RequestsAreTold == RecorderSpec => []RequestsAreRecorded
<1>1. RecorderInv => RequestsAreRecorded
  BY RecordedOnce, RecordedTruly DEF RequestsAreRecorded
<1> QED  BY <1>1, RecorderStarts, RecorderSteps, PTL DEF RecorderSpec

-----------------------------------------------------------------------------
(* PageLoad.                                                                  *)

Stages   == {"none", "waits", "heads", "body", "search", "end"}
Outcomes == {"failed", "other", "meter", "skipped", "searched"}
Statuses == StatusCodes \cup {"upstream-reset"}
LoadPcs  == {"goto", "judging", "loading", "dropping", "draining", "cutting", "end"}

Collectors == [stopped : BOOLEAN, pending : SUBSET Sent, took : SUBSET Sent,
               other : Nat, failed : Nat, websocket : Nat]
Loadings   == [pc : LoadPcs, attempt : {1, 2}, main : SUBSET Sent, blind : BOOLEAN,
               waits : SUBSET Sent, result : {"none", "error", "retry", "blocked", "searched"}]

LoadTypes ==
  /\ asks \in Pages
  /\ net \in [Sent -> {"new", "sent", "answered", "over", "lost"}]
  /\ records \in [counted : SUBSET Codes, ended : SUBSET (Nat \X Statuses)]
  /\ collector \in Collectors
  /\ reader \in [Sent -> [pc : Stages, cut : BOOLEAN, bare : BOOLEAN]]
  /\ responses \in [Sent -> Seq(Outcomes)]
  /\ load \in Loadings

\* Where load_page is, and what it has by then.
Gone    == load.pc = "dropping" \/ (load.pc = "end" /\ load.result # "searched")
DrainEnded == load.pc = "end" /\ load.result = "searched"
Stations ==
  /\ load.pc \in {"goto", "judging", "loading", "draining", "cutting"} <=> load.result = "none"
  /\ load.pc = "dropping" => load.result # "searched"
  /\ load.pc \notin {"goto", "judging", "loading"} => collector.stopped
  /\ load.pc \in {"draining", "cutting"} => Reading \subseteq load.waits
  /\ load.pc = "end" => Reading = {}
  /\ DrainEnded => collector.pending = {}

Placed(r) ==
  /\ r \in collector.pending =>
       r \in collector.took /\ reader[r].pc = "none" /\ responses[r] = <<>> /\ net[r] # "new"
  /\ reader[r].pc # "none" => r \in collector.took /\ net[r] = "over"
  /\ reader[r].pc \in {"waits", "heads", "body", "search"} => responses[r] = <<>>
  /\ responses[r] # <<>> => Len(responses[r]) = 1 /\ r \in collector.took
  /\ net[r] = "new" => r \notin collector.took

Heard == {r \in Sent : responses[r] # <<>>}
Whole ==
  /\ IsFiniteSet(collector.took)
  /\ ~Gone => Cardinality(collector.took) =
       Cardinality(collector.pending) + Cardinality(Reading) + Cardinality(Heard)
         + collector.other + collector.failed

\* A reply of the meter's own is in its records by the time it is there.
OnRecord(r) ==
  asks[r].by = "meter" =>
    IF asks[r].record = "count" THEN asks[r].code \in records.counted
    ELSE <<asks[r].host, asks[r].record>> \in records.ended
Aside(r) == asks[r].by = "meter" /\ ~IsReset(r)
Known(r) ==
  /\ net[r] \in {"answered", "over"} => OnRecord(r)
  /\ reader[r].pc \in {"body", "search"} => ~Aside(r) \/ reader[r].bare
  /\ \A i \in DOMAIN responses[r] :
       /\ responses[r][i] = "searched" => ~Aside(r) \/ reader[r].bare
       /\ responses[r][i] = "meter" =>
            asks[r].scheme = "http" /\ (asks[r].by = "meter" \/ records.counted # {} \/ records.ended # {})

Main ==
  /\ \A r, q \in load.main : r = q
  /\ load.pc = "judging" => load.main # {} /\ \A r \in load.main : OnRecord(r)
  /\ load.pc \in {"loading", "draining", "cutting"} \/ load.result = "searched" =>
       load.main # {} /\ (load.blind \/ \A r \in load.main : ~Aside(r))

LoadInvariant ==
  /\ LoadTypes /\ Stations /\ Whole /\ Main
  /\ \A r \in Sent : Placed(r) /\ Known(r)

-----------------------------------------------------------------------------
(* What a step of one request changes.                                      *)

LEMMA ReaderMoves ==
  ASSUME LoadTypes, asks' = asks, NEW r \in Sent, NEW pc \in Stages, At(r, pc)
  PROVE  /\ reader' \in [Sent -> [pc : Stages, cut : BOOLEAN, bare : BOOLEAN]]
         /\ reader'[r].pc = pc /\ reader'[r].bare = reader[r].bare
         /\ \A q \in Sent \ {r} : reader'[q] = reader[q]
<1>1. reader' = [reader EXCEPT ![r] = [reader[r] EXCEPT !.pc = pc]]
  BY DEF At
<1>2. reader[r] \in [pc : Stages, cut : BOOLEAN, bare : BOOLEAN]
  BY DEF LoadTypes, Collectors, Loadings
<1>3. /\ [reader[r] EXCEPT !.pc = pc] \in [pc : Stages, cut : BOOLEAN, bare : BOOLEAN]
      /\ [reader[r] EXCEPT !.pc = pc].pc = pc /\ [reader[r] EXCEPT !.pc = pc].bare = reader[r].bare
  BY <1>2
<1> QED  BY <1>1, <1>3 DEF LoadTypes, Collectors, Loadings

LEMMA HeadsAreMissed ==
  ASSUME LoadTypes, asks' = asks, NEW r \in Sent, HeadsFail(r)
  PROVE  /\ reader' \in [Sent -> [pc : Stages, cut : BOOLEAN, bare : BOOLEAN]]
         /\ reader'[r].pc = "body" /\ reader'[r].bare
         /\ \A q \in Sent \ {r} : reader'[q] = reader[q]
<1>1. reader' = [reader EXCEPT ![r] = [reader[r] EXCEPT !.pc = "body", !.bare = TRUE]]
  BY DEF HeadsFail
<1>2. reader[r] \in [pc : Stages, cut : BOOLEAN, bare : BOOLEAN]
  BY DEF LoadTypes
<1>3. /\ [reader[r] EXCEPT !.pc = "body", !.bare = TRUE] \in [pc : Stages, cut : BOOLEAN, bare : BOOLEAN]
      /\ [reader[r] EXCEPT !.pc = "body", !.bare = TRUE].pc = "body"
      /\ [reader[r] EXCEPT !.pc = "body", !.bare = TRUE].bare
  BY <1>2 DEF Stages
<1> QED  BY <1>1, <1>3 DEF LoadTypes

LEMMA ResponseIsAdded ==
  ASSUME LoadTypes, asks' = asks, NEW r \in Sent, NEW what \in Outcomes, Adds(r, what), responses[r] = <<>>
  PROVE  /\ responses' \in [Sent -> Seq(Outcomes)]
         /\ responses'[r] = <<what>>
         /\ \A q \in Sent \ {r} : responses'[q] = responses[q]
<1>1. responses'[r] = Append(<<>>, what) /\ Append(<<>>, what) = <<what>> /\ <<what>> \in Seq(Outcomes)
  BY DEF LoadTypes, Collectors, Loadings, Adds
<1> QED  BY <1>1 DEF LoadTypes, Collectors, Loadings, Adds

\* The sets that Whole counts are finite.
LEMMA Finite ==
  ASSUME Whole, \A r \in Sent : Placed(r), LoadTypes
  PROVE  /\ IsFiniteSet(collector.took) /\ Cardinality(collector.took) \in Nat
         /\ IsFiniteSet(collector.pending) /\ Cardinality(collector.pending) \in Nat
         /\ IsFiniteSet(Reading) /\ Cardinality(Reading) \in Nat
         /\ IsFiniteSet(Heard) /\ Cardinality(Heard) \in Nat
<1>1. IsFiniteSet(collector.took)
  BY DEF Whole
<1>2. collector.pending \in SUBSET collector.took
  BY DEF LoadTypes, Collectors, Loadings, Placed
<1>3. Reading \in SUBSET collector.took
  BY DEF Reading, Placed
<1>4. Heard \in SUBSET collector.took
  BY DEF Heard, Placed
<1>5. IsFiniteSet(collector.pending) /\ IsFiniteSet(Reading) /\ IsFiniteSet(Heard)
  BY <1>1, <1>2, <1>3, <1>4, FS_Subset
<1> QED  BY <1>1, <1>5, FS_CardinalityType

\* One request more, or one less, in those sets.
LEMMA OneAside ==
  ASSUME Whole, \A q \in Sent : Placed(q), LoadTypes, NEW r \in Sent
  PROVE  /\ r \in collector.pending => Cardinality(collector.pending \ {r}) = Cardinality(collector.pending) - 1
         /\ r \in Reading => Cardinality(Reading \ {r}) = Cardinality(Reading) - 1
         /\ r \notin Reading => Cardinality(Reading \cup {r}) = Cardinality(Reading) + 1
         /\ r \notin Heard => Cardinality(Heard \cup {r}) = Cardinality(Heard) + 1
<1>1. IsFiniteSet(collector.pending) /\ IsFiniteSet(Reading) /\ IsFiniteSet(Heard)
  BY Finite
<1> QED  BY ONLY <1>1, FS_AddElement, FS_RemoveElement

-----------------------------------------------------------------------------
(* The browser, the meter and the callbacks.                                *)

LEMMA RequestKeeps ==
  ASSUME LoadInvariant, NEW r \in Sent, Request(r)
  PROVE  LoadInvariant'
<1> asks' = asks /\ Sent' = Sent /\ reader' = reader /\ responses' = responses /\ records' = records
  BY DEF Request, Sent
<1> Reading' = Reading /\ Heard' = Heard
  BY DEF Reading, Heard
<1>1. /\ net'[r] = "sent" /\ net[r] = "new" /\ \A q \in Sent \ {r} : net'[q] = net[q]
      /\ net' \in [Sent -> {"new", "sent", "answered", "over", "lost"}]
  BY DEF Request, LoadInvariant, LoadTypes, Collectors, Loadings
<1>2. /\ load'.pc = load.pc /\ load'.result = load.result /\ load'.waits = load.waits /\ load'.blind = load.blind
      /\ load'.main = load.main \/ (load.main = {} /\ load'.main = {r})
  BY DEF Request, LoadInvariant, LoadTypes, Collectors, Loadings
<1>3. \/ collector' = collector
      \/ /\ ~collector.stopped
         /\ collector'.pending = collector.pending \cup {r} /\ collector'.took = collector.took \cup {r}
         /\ collector'.other = collector.other /\ collector'.failed = collector.failed
         /\ collector'.stopped = collector.stopped
  BY DEF Request, LoadInvariant, LoadTypes, Collectors, Loadings
<1>4. r \notin collector.took /\ r \notin collector.pending /\ reader[r].pc = "none" /\ responses[r] = <<>>
  BY <1>1 DEF LoadInvariant, Placed
<1>5. LoadTypes'
  <2>1. load' \in Loadings
    BY DEF Request, LoadInvariant, LoadTypes, Collectors, Loadings
  <2>2. collector' \in Collectors
    BY DEF Request, LoadInvariant, LoadTypes, Collectors, Loadings
  <2> QED  BY <1>1, <2>1, <2>2 DEF LoadInvariant, LoadTypes, Collectors, Loadings
<1>6. Stations'
  BY <1>2, <1>3 DEF LoadInvariant, Stations, DrainEnded, Request
<1>7. Whole'
  <2>1. CASE collector' = collector
    BY <1>2, <2>1 DEF LoadInvariant, Whole, Gone
  <2>2. CASE collector' # collector
    <3>1. LoadTypes /\ Whole /\ \A q \in Sent : Placed(q)
      BY DEF LoadInvariant
    <3>2. IsFiniteSet(collector.took) /\ IsFiniteSet(collector.pending)
      BY <3>1, Finite
    <3>4. /\ IsFiniteSet(collector.took \cup {r})
          /\ Cardinality(collector.took \cup {r}) = Cardinality(collector.took) + 1
          /\ Cardinality(collector.pending \cup {r}) = Cardinality(collector.pending) + 1
      BY ONLY <1>4, <3>2, FS_AddElement
    <3>3. collector.other \in Nat /\ collector.failed \in Nat
      BY <3>1 DEF LoadTypes, Collectors, Loadings
    <3>5. /\ Cardinality(collector.took) \in Nat /\ Cardinality(collector.pending) \in Nat
          /\ Cardinality(Reading) \in Nat /\ Cardinality(Heard) \in Nat
      BY <3>1, Finite
    <3>6. Gone' = Gone
      BY <1>2 DEF Gone
    <3>7. /\ collector'.pending = collector.pending \cup {r} /\ collector'.took = collector.took \cup {r}
          /\ collector'.other = collector.other /\ collector'.failed = collector.failed
      BY <1>3, <2>2
    <3>8. ~Gone => Cardinality(collector.took) = Cardinality(collector.pending) + Cardinality(Reading)
                     + Cardinality(Heard) + collector.other + collector.failed
      BY <3>1 DEF Whole
    <3>9. ~Gone => Cardinality(collector'.took) = Cardinality(collector'.pending) + Cardinality(Reading)
                     + Cardinality(Heard) + collector'.other + collector'.failed
      BY <3>3, <3>4, <3>5, <3>7, <3>8
    <3> QED  BY <3>4, <3>6, <3>7, <3>9 DEF Whole
  <2> QED  BY <2>1, <2>2
<1>8. Main'
  BY <1>1, <1>2 DEF LoadInvariant, Main, Stations, Aside, IsReset, OnRecord, Request
<1>9. \A q \in Sent : Placed(q)'
  BY <1>1, <1>3, <1>4 DEF LoadInvariant, Placed
<1>10. \A q \in Sent : Known(q)'
  BY <1>1 DEF LoadInvariant, Known, OnRecord, Aside, IsReset
<1> QED  BY <1>5, <1>6, <1>7, <1>8, <1>9, <1>10 DEF LoadInvariant


LEMMA RespondKeeps ==
  ASSUME LoadInvariant, NEW r \in Sent, Respond(r)
  PROVE  LoadInvariant'
<1> /\ asks' = asks /\ Sent' = Sent /\ reader' = reader /\ responses' = responses
    /\ collector' = collector /\ load' = load
  BY DEF Respond, Sent
<1> Reading' = Reading /\ Heard' = Heard
  BY DEF Reading, Heard
<1>1. /\ net'[r] = "answered" /\ net[r] = "sent" /\ \A q \in Sent \ {r} : net'[q] = net[q]
      /\ net' \in [Sent -> {"new", "sent", "answered", "over", "lost"}]
  BY DEF Respond, LoadInvariant, LoadTypes, Collectors, Loadings
<1>2. IsFetch(asks[r])
  BY PageLoadAssumption DEF LoadInvariant, LoadTypes, Collectors, Loadings, IsPage, Sent
<1>3. records' \in [counted : SUBSET Codes, ended : SUBSET (Nat \X Statuses)]
  <2>1. CASE asks[r].by # "meter"
    BY <2>1 DEF Respond, LoadInvariant, LoadTypes, Collectors, Loadings
  <2>2. CASE asks[r].by = "meter" /\ asks[r].record = "count"
    <3>1. asks[r].code \in Codes
      BY <1>2, <2>2 DEF IsFetch, Codes
    <3> QED  BY <2>2, <3>1 DEF Respond, LoadInvariant, LoadTypes, Collectors, Loadings
  <2>3. CASE asks[r].by = "meter" /\ asks[r].record # "count"
    <3>1. <<asks[r].host, asks[r].record>> \in Nat \X Statuses
      BY <1>2, <2>3 DEF IsFetch, Statuses
    <3> QED  BY <2>3, <3>1 DEF Respond, LoadInvariant, LoadTypes, Collectors, Loadings
  <2> QED  BY <2>1, <2>2, <2>3
<1>4. records.counted \subseteq records'.counted /\ records.ended \subseteq records'.ended
  BY DEF Respond, LoadInvariant, LoadTypes, Collectors, Loadings
<1>5. OnRecord(r)'
  BY DEF Respond, LoadInvariant, LoadTypes, Collectors, Loadings, OnRecord
<1>6. \A q \in Sent : OnRecord(q) => OnRecord(q)'
  BY <1>4 DEF OnRecord
<1>7. LoadTypes' /\ Stations' /\ Whole'
  BY <1>1, <1>3 DEF LoadInvariant, LoadTypes, Collectors, Loadings, Stations, DrainEnded, Whole, Gone
<1>8. Main'
  BY <1>6 DEF LoadInvariant, LoadTypes, Collectors, Loadings, Main, Aside, IsReset
<1>9. \A q \in Sent : Placed(q)'
  BY <1>1 DEF LoadInvariant, Placed
<1>10. \A q \in Sent : Known(q)'
  BY <1>1, <1>4, <1>5, <1>6 DEF LoadInvariant, Known, Aside, IsReset
<1> QED  BY <1>7, <1>8, <1>9, <1>10 DEF LoadInvariant

\* What goes from the pending requests to a reader, to the responses, or to a number.
LEMMA OnFinishedKeeps ==
  ASSUME LoadInvariant, NEW r \in Sent, OnFinished(r)
  PROVE  LoadInvariant'
<1> asks' = asks /\ Sent' = Sent /\ records' = records /\ responses' = responses /\ load' = load
  BY DEF OnFinished, Sent
<1> Heard' = Heard /\ Gone' = Gone /\ LoadTypes /\ Whole /\ \A q \in Sent : Placed(q)
  BY DEF Heard, Gone, LoadInvariant
<1>1. /\ net'[r] = "over" /\ net[r] = "answered" /\ \A q \in Sent \ {r} : net'[q] = net[q]
      /\ net' \in [Sent -> {"new", "sent", "answered", "over", "lost"}]
  BY DEF OnFinished, LoadTypes, Collectors, Loadings
<1>2. reader[r].pc = "none" /\ r \notin Reading
  BY <1>1 DEF Placed, Reading
<1>3. /\ collector.other \in Nat /\ collector.failed \in Nat
      /\ Cardinality(collector.took) \in Nat /\ Cardinality(collector.pending) \in Nat
      /\ Cardinality(Reading) \in Nat /\ Cardinality(Heard) \in Nat
  BY Finite DEF LoadTypes, Collectors, Loadings
<1>4. CASE ~Takes(r)
  <2> collector' = collector /\ reader' = reader
    BY <1>4 DEF OnFinished
  <2> Reading' = Reading
    BY DEF Reading
  <2>1. LoadTypes' /\ Stations' /\ Whole' /\ Main'
    BY <1>1 DEF LoadInvariant, LoadTypes, Collectors, Loadings, Stations, DrainEnded, Whole, Main, Aside, IsReset, OnRecord
  <2>2. \A q \in Sent : Placed(q)'
    BY <1>1 DEF Placed
  <2>3. \A q \in Sent : Known(q)'
    BY <1>1 DEF LoadInvariant, Known, Aside, IsReset, OnRecord
  <2> QED  BY <2>1, <2>2, <2>3 DEF LoadInvariant
<1>5. CASE Takes(r)
  <2>1. /\ collector' \in Collectors
        /\ ~collector.stopped /\ ~collector'.stopped /\ collector'.took = collector.took
        /\ r \in collector.pending /\ collector'.pending = collector.pending \ {r}
        /\ collector'.failed = collector.failed
    <3>1. \/ collector' = [collector EXCEPT !.pending = collector.pending \ {r}]
          \/ collector' = [collector EXCEPT !.pending = collector.pending \ {r}, !.other = collector.other + 1]
      BY <1>5 DEF OnFinished
    <3>2. r \in collector.pending /\ ~collector.stopped
      BY <1>5 DEF Takes
    <3>3. collector \in Collectors
      BY DEF LoadTypes, Collectors, Loadings
    <3>4. collector.other + 1 \in Nat /\ collector.failed + 1 \in Nat /\ collector.pending \ {r} \in SUBSET Sent
      BY <3>3 DEF Collectors
    <3> QED  BY ONLY <3>1, <3>2, <3>3, <3>4 DEF Collectors
  <2>2. Cardinality(collector'.pending) = Cardinality(collector.pending) - 1
    BY <2>1, OneAside
  <2>3. CASE asks[r].scheme = "odd"
    <3> reader' = reader /\ collector'.other = collector.other + 1
      BY <1>5, <2>3 DEF OnFinished, LoadTypes, Collectors, Loadings
    <3> Reading' = Reading
      BY DEF Reading
    <3>1. Whole'
      BY <1>3, <2>1, <2>2 DEF Whole
    <3>2. LoadTypes' /\ Stations' /\ Main'
      BY <1>1, <2>1 DEF LoadInvariant, LoadTypes, Collectors, Loadings, Stations, DrainEnded, Main, Aside, IsReset, OnRecord
    <3>3. \A q \in Sent : Placed(q)' /\ Known(q)'
      BY <1>1, <2>1 DEF LoadInvariant, Placed, Known, Aside, IsReset, OnRecord
    <3> QED  BY <3>1, <3>2, <3>3 DEF LoadInvariant
  <2>4. CASE asks[r].scheme # "odd"
    <3>1. At(r, "waits") /\ collector'.other = collector.other
      BY <1>5, <2>4 DEF OnFinished, LoadTypes, Collectors, Loadings
    <3>2. /\ reader' \in [Sent -> [pc : Stages, cut : BOOLEAN, bare : BOOLEAN]]
          /\ reader'[r].pc = "waits"
          /\ \A q \in Sent \ {r} : reader'[q] = reader[q]
      BY <3>1, ReaderMoves DEF Stages
    <3>3. Reading' = Reading \cup {r}
      BY <3>2 DEF Reading
    <3>4. Cardinality(Reading') = Cardinality(Reading) + 1
      BY <1>2, <3>3, OneAside
    <3>5. Whole'
      BY <1>3, <2>1, <2>2, <3>1, <3>4 DEF Whole
    <3>6. LoadTypes' /\ Main'
      BY <1>1, <2>1, <3>2 DEF LoadInvariant, LoadTypes, Collectors, Loadings, Main, Aside, IsReset, OnRecord
    <3>7. Stations'
      BY <2>1, <3>3 DEF LoadInvariant, Stations, DrainEnded, OnFinished
    <3>8. \A q \in Sent : Placed(q)' /\ Known(q)'
      BY <1>1, <2>1, <3>2 DEF LoadInvariant, Placed, Known, Aside, IsReset, OnRecord
    <3> QED  BY <3>5, <3>6, <3>7, <3>8 DEF LoadInvariant
  <2> QED  BY <2>3, <2>4
<1> QED  BY <1>4, <1>5

LEMMA OnFailedKeeps ==
  ASSUME LoadInvariant, NEW r \in Sent, OnFailed(r)
  PROVE  LoadInvariant'
<1> asks' = asks /\ Sent' = Sent /\ records' = records /\ reader' = reader /\ load' = load
  BY DEF OnFailed, Sent
<1> Reading' = Reading /\ Gone' = Gone /\ LoadTypes /\ Whole /\ \A q \in Sent : Placed(q)
  BY DEF Reading, Gone, LoadInvariant
<1>1. /\ net'[r] = "lost" /\ net[r] \in {"sent", "answered"} /\ \A q \in Sent \ {r} : net'[q] = net[q]
      /\ net' \in [Sent -> {"new", "sent", "answered", "over", "lost"}]
  BY DEF OnFailed, LoadTypes, Collectors, Loadings
<1>2. reader[r].pc = "none"
  BY <1>1 DEF Placed
<1>3. /\ collector.other \in Nat /\ collector.failed \in Nat
      /\ Cardinality(collector.took) \in Nat /\ Cardinality(collector.pending) \in Nat
      /\ Cardinality(Reading) \in Nat /\ Cardinality(Heard) \in Nat
  BY Finite DEF LoadTypes, Collectors, Loadings
<1>4. CASE ~Takes(r)
  <2> collector' = collector /\ responses' = responses
    BY <1>4 DEF OnFailed
  <2> Heard' = Heard
    BY DEF Heard
  <2>1. LoadTypes' /\ Stations' /\ Whole' /\ Main'
    <3>1. LoadTypes'
      BY <1>1 DEF LoadInvariant, LoadTypes, Collectors, Loadings
    <3>2. Stations'
      BY <1>1 DEF LoadInvariant, Stations, DrainEnded
    <3>3. Whole'
      BY <1>1 DEF LoadInvariant, Whole
    <3>4. Main'
      BY <1>1 DEF LoadInvariant, Main, Aside, IsReset, OnRecord
    <3> QED  BY <3>1, <3>2, <3>3, <3>4
  <2>2. \A q \in Sent : Placed(q)'
    BY <1>1, <1>2 DEF Placed
  <2>3. \A q \in Sent : Known(q)'
    BY <1>1 DEF LoadInvariant, Known, Aside, IsReset, OnRecord
  <2> QED  BY <2>1, <2>2, <2>3 DEF LoadInvariant
<1>5. CASE Takes(r)
  <2>1. /\ collector' \in Collectors
        /\ ~collector.stopped /\ ~collector'.stopped /\ collector'.took = collector.took
        /\ r \in collector.pending /\ collector'.pending = collector.pending \ {r}
        /\ collector'.other = collector.other
    <3>1. \/ collector' = [collector EXCEPT !.pending = collector.pending \ {r}]
          \/ collector' = [collector EXCEPT !.pending = collector.pending \ {r}, !.failed = collector.failed + 1]
      BY <1>5 DEF OnFailed
    <3>2. r \in collector.pending /\ ~collector.stopped
      BY <1>5 DEF Takes
    <3>3. collector \in Collectors
      BY DEF LoadTypes, Collectors, Loadings
    <3>4. collector.other + 1 \in Nat /\ collector.failed + 1 \in Nat /\ collector.pending \ {r} \in SUBSET Sent
      BY <3>3 DEF Collectors
    <3> QED  BY ONLY <3>1, <3>2, <3>3, <3>4 DEF Collectors
  <2>2. Cardinality(collector'.pending) = Cardinality(collector.pending) - 1
    BY <2>1, OneAside
  <2>3. responses[r] = <<>> /\ r \notin Heard /\ r \in collector.took
    BY <2>1 DEF Placed, Heard
  <2>4. CASE asks[r].scheme = "odd"
    <3> responses' = responses /\ collector'.failed = collector.failed + 1
      BY <1>5, <2>4 DEF OnFailed, LoadTypes, Collectors, Loadings
    <3> Heard' = Heard
      BY DEF Heard
    <3>1. Whole'
      BY <1>3, <2>1, <2>2 DEF Whole
    <3>2. LoadTypes' /\ Stations' /\ Main'
      BY <1>1, <2>1 DEF LoadInvariant, LoadTypes, Collectors, Loadings, Stations, DrainEnded, Main, Aside, IsReset, OnRecord
    <3>3. \A q \in Sent : Placed(q)' /\ Known(q)'
      BY <1>1, <1>2, <2>1 DEF LoadInvariant, Placed, Known, Aside, IsReset, OnRecord
    <3> QED  BY <3>1, <3>2, <3>3 DEF LoadInvariant
  <2>5. CASE asks[r].scheme # "odd"
    <3>1. Adds(r, "failed") /\ collector'.failed = collector.failed
      BY <1>5, <2>5 DEF OnFailed, LoadTypes, Collectors, Loadings
    <3>2. /\ responses' \in [Sent -> Seq(Outcomes)]
          /\ responses'[r] = <<"failed">>
          /\ \A q \in Sent \ {r} : responses'[q] = responses[q]
      BY <2>3, <3>1, ResponseIsAdded DEF Outcomes
    <3>3. Len(responses'[r]) = 1 /\ responses'[r] # <<>> /\ \A i \in DOMAIN responses'[r] : responses'[r][i] = "failed"
      BY <3>2
    <3>4. Heard' = Heard \cup {r}
      BY <3>2, <3>3 DEF Heard
    <3>5. Cardinality(Heard') = Cardinality(Heard) + 1
      BY <2>3, <3>4, OneAside
    <3>6. Whole'
      BY <1>3, <2>1, <2>2, <3>1, <3>5 DEF Whole
    <3>7. LoadTypes' /\ Stations' /\ Main'
      BY <1>1, <2>1, <3>2 DEF LoadInvariant, LoadTypes, Collectors, Loadings, Stations, DrainEnded, Main, Aside, IsReset, OnRecord
    <3>8. \A q \in Sent : Placed(q)'
      BY <1>1, <1>2, <2>1, <2>3, <3>2, <3>3 DEF LoadInvariant, Placed
    <3>9. \A q \in Sent : Known(q)'
      <4>1. \A q \in Sent \ {r} : Known(q)'
        <5> TAKE q \in Sent \ {r}
        <5>1. Known(q) /\ net'[q] = net[q] /\ responses'[q] = responses[q]
          BY <1>1, <3>2 DEF LoadInvariant
        <5> QED  BY <5>1 DEF Known, Aside, IsReset, OnRecord
      <4>2. net'[r] = "lost" /\ reader'[r].pc = "none"
        BY <1>1, <1>2
      <4>3. \A i \in DOMAIN responses'[r] : responses'[r][i] # "searched" /\ responses'[r][i] # "meter"
        BY <3>3
      <4>4. Known(r)'
        BY <4>2, <4>3 DEF Known
      <4> QED  BY <4>1, <4>4
    <3> QED  BY <3>6, <3>7, <3>8, <3>9 DEF LoadInvariant
  <2> QED  BY <2>4, <2>5
<1> QED  BY <1>4, <1>5

LEMMA OpensWireKeeps ==
  ASSUME LoadInvariant, OpensWire
  PROVE  LoadInvariant'
<1> /\ asks' = asks /\ Sent' = Sent /\ records' = records /\ reader' = reader /\ load' = load
    /\ responses' = responses /\ net' = net
  BY DEF OpensWire, Sent
<1> Reading' = Reading /\ Gone' = Gone /\ Heard' = Heard
  BY DEF Reading, Gone, Heard
<1>1. /\ collector' \in Collectors
      /\ collector'.stopped = collector.stopped /\ collector'.took = collector.took
      /\ collector'.pending = collector.pending
      /\ collector'.other = collector.other /\ collector'.failed = collector.failed
  <2>1. collector' = [collector EXCEPT !.websocket = @ + 1]
    BY DEF OpensWire
  <2>2. collector \in Collectors
    BY DEF LoadInvariant, LoadTypes, Collectors, Loadings
  <2> QED  BY ONLY <2>1, <2>2 DEF Collectors
<1>2. LoadTypes' /\ Stations' /\ Whole' /\ Main'
  BY <1>1 DEF LoadInvariant, LoadTypes, Collectors, Loadings, Stations, DrainEnded, Whole, Main, Aside, IsReset, OnRecord
<1>3. \A q \in Sent : Placed(q)' /\ Known(q)'
  BY <1>1 DEF LoadInvariant, Placed, Known, Aside, IsReset, OnRecord
<1> QED  BY <1>2, <1>3 DEF LoadInvariant


-----------------------------------------------------------------------------
(* The readers.                                                             *)

\* What a step of the reader of r is: it goes on, with or without the headers, ends with
\* what came out, or is lost.
GoesOn(r) == \E pc \in {"heads", "body", "search"} :
  At(r, pc) /\ responses' = responses /\ (pc \in {"body", "search"} => ~Aside(r) \/ reader[r].bare)
GoesOnBare(r) == HeadsFail(r) /\ responses' = responses
EndsWith(r) == \E what \in Outcomes :
  Ends(r, what) /\ (what = "searched" => ~Aside(r) \/ reader[r].bare) /\ (what = "meter" => OwnReply(r))
IsLost(r) == load.pc = "dropping" /\ At(r, "end") /\ responses' = responses

\* A reply of the meter's own that has its record is known by it.
LEMMA RecordShows ==
  ASSUME LoadInvariant, NEW r \in Sent, OnRecord(r), Aside(r)
  PROVE  OwnReply(r)
<1>1. IsFetch(asks[r])
  BY PageLoadAssumption DEF LoadInvariant, LoadTypes, Collectors, Loadings, IsPage, Sent
<1>2. asks[r].scheme = "http" /\ asks[r].code \in Codes
  BY <1>1 DEF IsFetch, Aside
<1>3. asks[r].code # "none"
  BY <1>2 DEF Codes, CountedCodes, StatusCodes
<1>4. CASE asks[r].record = "count" /\ asks[r].code \in CountedCodes
  BY <1>2, <1>3, <1>4 DEF OwnReply, Shown, OnRecord, Aside
<1>5. CASE asks[r].record = asks[r].code /\ asks[r].code \in StatusCodes
  <2>1. asks[r].record # "count"
    BY <1>5 DEF StatusCodes
  <2>2. <<asks[r].host, asks[r].code>> \in records.ended /\ <<asks[r].host, asks[r].code>>[1] = asks[r].host
    BY <1>5, <2>1 DEF OnRecord, Aside
  <2> QED  BY <1>2, <1>3, <1>5, <2>2 DEF OwnReply, Shown
<1> QED  BY <1>1, <1>4, <1>5 DEF IsFetch, Aside, IsReset

LEMMA ReaderStepIs ==
  ASSUME LoadInvariant, ReaderStep
  PROVE  \E r \in Reading : GoesOn(r) \/ GoesOnBare(r) \/ EndsWith(r) \/ IsLost(r)
<1> PICK r \in Sent : Enters(r) \/ Heads(r) \/ Body(r) \/ Searched(r) \/ CutOff(r)
  BY DEF ReaderStep
<1> r \in Reading
  BY DEF Enters, Heads, Body, Searched, CutOff, Reading
<1> Known(r) /\ Placed(r)
  BY DEF LoadInvariant
<1>1. CASE Enters(r)
  BY <1>1 DEF Enters, GoesOn
<1>2. CASE Heads(r)
  <2>1. OnRecord(r)
    BY <1>2 DEF Heads, Known, Placed
  <2>2. OwnReply(r) \/ ~Aside(r)
    BY <2>1, RecordShows
  <2> QED  BY <1>2, <2>2 DEF Heads, GoesOn, GoesOnBare, EndsWith, Outcomes
<1>3. CASE Body(r)
  BY <1>3 DEF Body, GoesOn, EndsWith, Outcomes, Known
<1>4. CASE Searched(r)
  BY <1>4 DEF Searched, EndsWith, Outcomes, Known
<1>5. CASE CutOff(r)
  BY <1>5 DEF CutOff, EndsWith, IsLost, Outcomes
<1> QED  BY <1>1, <1>2, <1>3, <1>4, <1>5

LEMMA ReaderStepKeeps ==
  ASSUME LoadInvariant, ReaderStep
  PROVE  LoadInvariant'
<1> /\ asks' = asks /\ Sent' = Sent /\ records' = records /\ net' = net /\ load' = load
    /\ collector' = collector
  BY DEF ReaderStep, Sent
<1> Gone' = Gone /\ LoadTypes /\ Whole /\ \A q \in Sent : Placed(q)
  BY DEF Gone, LoadInvariant
<1> PICK r \in Reading : GoesOn(r) \/ GoesOnBare(r) \/ EndsWith(r) \/ IsLost(r)
  BY ReaderStepIs
<1>1. /\ r \in Sent /\ r \in collector.took /\ r \notin collector.pending
      /\ responses[r] = <<>> /\ r \notin Heard /\ net[r] = "over"
  BY DEF Reading, Placed, Heard, LoadTypes, Collectors, Loadings, Stages
<1>2. load.pc # "end"
  BY DEF LoadInvariant, Stations
<1>3. /\ collector.other \in Nat /\ collector.failed \in Nat
      /\ Cardinality(collector.took) \in Nat /\ Cardinality(collector.pending) \in Nat
      /\ Cardinality(Reading) \in Nat /\ Cardinality(Heard) \in Nat
  BY Finite DEF LoadTypes, Collectors, Loadings
<1>4. Main'
  BY DEF LoadInvariant, Main, Aside, IsReset, OnRecord
<1>5. CASE GoesOn(r)
  <2> PICK pc \in {"heads", "body", "search"} :
        At(r, pc) /\ responses' = responses /\ (pc \in {"body", "search"} => ~Aside(r) \/ reader[r].bare)
    BY <1>5 DEF GoesOn
  <2>1. /\ reader' \in [Sent -> [pc : Stages, cut : BOOLEAN, bare : BOOLEAN]]
        /\ reader'[r].pc = pc /\ reader'[r].bare = reader[r].bare
        /\ \A q \in Sent \ {r} : reader'[q] = reader[q]
    BY <1>1, ReaderMoves DEF Stages
  <2>2. Reading' = Reading /\ Heard' = Heard
    BY <1>1, <2>1 DEF Reading, Heard
  <2>3. LoadTypes' /\ Stations' /\ Whole'
    BY <2>1, <2>2 DEF LoadInvariant, LoadTypes, Collectors, Loadings, Stations, DrainEnded, Whole
  <2>4. \A q \in Sent : Placed(q)' /\ Known(q)'
    BY <1>1, <2>1 DEF LoadInvariant, Placed, Known, Aside, IsReset, OnRecord
  <2> QED  BY <1>4, <2>3, <2>4 DEF LoadInvariant
<1>6. CASE EndsWith(r)
  <2> PICK what \in Outcomes :
        /\ Ends(r, what) /\ (what = "searched" => ~Aside(r) \/ reader[r].bare)
        /\ (what = "meter" => OwnReply(r))
    BY <1>6 DEF EndsWith
  <2>1. /\ reader' \in [Sent -> [pc : Stages, cut : BOOLEAN, bare : BOOLEAN]]
        /\ reader'[r].pc = "end" /\ reader'[r].bare = reader[r].bare
        /\ \A q \in Sent \ {r} : reader'[q] = reader[q]
    BY <1>1, ReaderMoves DEF Stages, Ends
  <2>2. /\ responses' \in [Sent -> Seq(Outcomes)] /\ responses'[r] = <<what>>
        /\ \A q \in Sent \ {r} : responses'[q] = responses[q]
    BY <1>1, ResponseIsAdded DEF Ends
  <2>3. Len(responses'[r]) = 1 /\ responses'[r] # <<>> /\ \A i \in DOMAIN responses'[r] : responses'[r][i] = what
    BY <2>2
  <2>4. Reading' = Reading \ {r}
    BY <2>1 DEF Reading
  <2>5. Heard' = Heard \cup {r}
    BY <1>1, <2>2, <2>3 DEF Heard
  <2>6. Cardinality(Reading') = Cardinality(Reading) - 1 /\ Cardinality(Heard') = Cardinality(Heard) + 1
    BY <1>1, <2>4, <2>5, OneAside
  <2>7. Whole'
    BY <1>3, <2>6 DEF Whole
  <2>8. LoadTypes' /\ Stations'
    BY <1>2, <2>1, <2>2, <2>4 DEF LoadInvariant, LoadTypes, Collectors, Loadings, Stations, DrainEnded
  <2>9. \A q \in Sent : Placed(q)'
    BY <1>1, <2>1, <2>2, <2>3 DEF Placed
  <2>10. \A q \in Sent \ {r} : Known(q)'
    <3> TAKE q \in Sent \ {r}
    <3>1. Known(q) /\ reader'[q] = reader[q] /\ responses'[q] = responses[q]
      BY <2>1, <2>2 DEF LoadInvariant
    <3> QED  BY <3>1 DEF Known, Aside, IsReset, OnRecord
  <2>11. what = "meter" =>
           asks[r].scheme = "http" /\ (asks[r].by = "meter" \/ records.counted # {} \/ records.ended # {})
    BY DEF OwnReply, Shown
  <2>12. Known(r)'
    BY <1>1, <2>1, <2>3, <2>11 DEF LoadInvariant, Known, Aside, IsReset, OnRecord
  <2> QED  BY <1>4, <2>7, <2>8, <2>9, <2>10, <2>12 DEF LoadInvariant
<1>7. CASE IsLost(r)
  <2>1. /\ reader' \in [Sent -> [pc : Stages, cut : BOOLEAN, bare : BOOLEAN]] /\ reader'[r].pc = "end"
        /\ \A q \in Sent \ {r} : reader'[q] = reader[q]
    BY <1>1, <1>7, ReaderMoves DEF Stages, IsLost
  <2>2. Reading' \subseteq Reading /\ responses' = responses /\ Gone'
    BY <1>7, <2>1 DEF Reading, IsLost, Gone
  <2>3. LoadTypes' /\ Stations' /\ Whole'
    BY <1>2, <2>1, <2>2 DEF LoadInvariant, LoadTypes, Collectors, Loadings, Stations, DrainEnded, Whole
  <2>4. \A q \in Sent : Placed(q)' /\ Known(q)'
    BY <1>1, <2>1, <2>2 DEF LoadInvariant, Placed, Known, Aside, IsReset, OnRecord
  <2> QED  BY <1>4, <2>3, <2>4 DEF LoadInvariant
<1>8. CASE GoesOnBare(r)
  <2> responses' = responses
    BY <1>8 DEF GoesOnBare
  <2>1. /\ reader' \in [Sent -> [pc : Stages, cut : BOOLEAN, bare : BOOLEAN]]
        /\ reader'[r].pc = "body" /\ reader'[r].bare
        /\ \A q \in Sent \ {r} : reader'[q] = reader[q]
    BY <1>1, <1>8, HeadsAreMissed DEF GoesOnBare
  <2>2. Reading' = Reading /\ Heard' = Heard
    BY <1>1, <2>1 DEF Reading, Heard
  <2>3. LoadTypes' /\ Stations' /\ Whole'
    BY <2>1, <2>2 DEF LoadInvariant, LoadTypes, Collectors, Loadings, Stations, DrainEnded, Whole
  <2>4. \A q \in Sent : Placed(q)' /\ Known(q)'
    BY <1>1, <2>1 DEF LoadInvariant, Placed, Known, Aside, IsReset, OnRecord
  <2> QED  BY <1>4, <2>3, <2>4 DEF LoadInvariant
<1> QED  BY <1>5, <1>6, <1>7, <1>8

-----------------------------------------------------------------------------
(* load_page.                                                               *)

LEMMA CancelsOnly ==
  ASSUME LoadTypes, asks' = asks, NEW rs, Cancels(rs)
  PROVE  /\ reader' \in [Sent -> [pc : Stages, cut : BOOLEAN, bare : BOOLEAN]]
         /\ \A q \in Sent : reader'[q].pc = reader[q].pc /\ reader'[q].bare = reader[q].bare
         /\ Reading' = Reading
<1>1. \A q \in Sent : reader[q] \in [pc : Stages, cut : BOOLEAN, bare : BOOLEAN]
  BY DEF LoadTypes
<1>2. \A q \in Sent : reader'[q] = [reader[q] EXCEPT !.cut = @ \/ q \in rs \cap Reading]
  BY DEF Cancels
<1>3. \A q \in Sent : /\ reader'[q] \in [pc : Stages, cut : BOOLEAN, bare : BOOLEAN]
                       /\ reader'[q].pc = reader[q].pc /\ reader'[q].bare = reader[q].bare
  BY <1>1, <1>2
<1>4. reader' \in [Sent -> [pc : Stages, cut : BOOLEAN, bare : BOOLEAN]]
  BY <1>3 DEF Cancels
<1> QED  BY <1>3, <1>4 DEF Reading, Sent

\* The load is given up: an attempt that may be made again, or one with a result.
LEMMA DropsKeeps ==
  ASSUME LoadInvariant, NEW result \in {"error", "retry", "blocked"}, Drops(result),
         UNCHANGED <<asks, net, records, responses>>
  PROVE  LoadInvariant'
<1> asks' = asks /\ Sent' = Sent /\ net' = net /\ records' = records /\ responses' = responses /\ LoadTypes
  BY DEF Sent, LoadInvariant
<1>1. /\ reader' \in [Sent -> [pc : Stages, cut : BOOLEAN, bare : BOOLEAN]] /\ Reading' = Reading
      /\ \A q \in Sent : reader'[q].pc = reader[q].pc /\ reader'[q].bare = reader[q].bare
  BY CancelsOnly DEF Drops
<1>2. /\ collector' \in Collectors /\ collector'.stopped /\ collector'.pending = collector.pending
      /\ collector'.took = collector.took
  <2>1. collector' = [collector EXCEPT !.stopped = TRUE]
    BY DEF Drops
  <2> QED  BY <2>1 DEF LoadTypes, Collectors
<1>3. load' \in Loadings /\ load'.pc = "dropping" /\ load'.result = result /\ load'.main = load.main
  <2>1. load' = [load EXCEPT !.pc = "dropping", !.result = result]
    BY DEF Drops
  <2> QED  BY <2>1 DEF LoadTypes, Loadings, LoadPcs
<1>4. LoadTypes'
  BY <1>1, <1>2, <1>3 DEF LoadTypes, Collectors, Loadings
<1>6. Stations' /\ Whole' /\ Main'
  BY <1>2, <1>3 DEF LoadInvariant, Stations, DrainEnded, Whole, Gone, Main
<1>5. \A q \in Sent : Placed(q)' /\ Known(q)'
  BY <1>1, <1>2 DEF LoadInvariant, Placed, Known, Aside, IsReset, OnRecord
<1> QED  BY <1>4, <1>5, <1>6 DEF LoadInvariant

\* load_page goes on to another place, its result and the rest as before; the judge has
\* its own say of "blind".
GoesTo(pc) ==
  /\ load'.pc = pc /\ load'.result = load.result /\ load'.main = load.main /\ load' \in Loadings
  /\ pc # "loading" => load'.blind = load.blind

LEMMA CommitsKeeps ==
  ASSUME LoadInvariant, Commits
  PROVE  LoadInvariant'
<1> /\ asks' = asks /\ Sent' = Sent /\ net' = net /\ records' = records /\ responses' = responses
    /\ collector' = collector /\ reader' = reader
  BY DEF Commits, Sent
<1> Reading' = Reading /\ Heard' = Heard
  BY DEF Reading, Heard
<1>1. GoesTo("judging") /\ load.pc = "goto"
  BY DEF Commits, GoesTo, LoadInvariant, LoadTypes, Loadings, LoadPcs
<1>2. load.main # {} /\ \A r \in load.main : OnRecord(r)
  BY DEF Commits, LoadInvariant, Main, Known, LoadTypes, Loadings
<1>3. LoadTypes' /\ Stations' /\ Whole'
  BY <1>1 DEF GoesTo, LoadInvariant, LoadTypes, Collectors, Loadings, Stations, DrainEnded, Whole, Gone
<1>4. Main'
  BY <1>1, <1>2 DEF GoesTo, LoadInvariant, Stations, Main, OnRecord, Aside, IsReset
<1>5. \A q \in Sent : Placed(q)' /\ Known(q)'
  BY DEF LoadInvariant, Placed, Known, Aside, IsReset, OnRecord
<1> QED  BY <1>3, <1>4, <1>5 DEF LoadInvariant

LEMMA JudgesKeeps ==
  ASSUME LoadInvariant, Judges
  PROVE  LoadInvariant'
<1>1. CASE \E result \in {"error", "blocked"} : Drops(result)
  BY <1>1, DropsKeeps DEF Judges
<1>2. CASE ~\E result \in {"error", "blocked"} : Drops(result)
  <2>1. PICK blind \in BOOLEAN :
          /\ ~blind => \A r \in load.main : ~OwnReply(r)
          /\ load' = [load EXCEPT !.pc = "loading", !.blind = blind] /\ UNCHANGED <<collector, reader>>
    BY <1>2 DEF Judges
  <2> /\ asks' = asks /\ Sent' = Sent /\ net' = net /\ records' = records /\ responses' = responses
      /\ collector' = collector /\ reader' = reader
    BY <2>1 DEF Judges, Sent
  <2> Reading' = Reading /\ Heard' = Heard
    BY DEF Reading, Heard
  <2>2. GoesTo("loading") /\ load.pc = "judging" /\ load'.blind = blind
    BY <2>1 DEF Judges, GoesTo, LoadInvariant, LoadTypes, Loadings, LoadPcs
  <2>3. LoadTypes' /\ Stations' /\ Whole'
    BY <2>2 DEF GoesTo, LoadInvariant, LoadTypes, Collectors, Loadings, Stations, DrainEnded, Whole, Gone
  <2>4. \A r \in load.main : r \in Sent /\ OnRecord(r)
    BY <2>2 DEF LoadInvariant, LoadTypes, Loadings, Main
  <2>5. blind \/ \A r \in load.main : ~Aside(r)
    BY <2>1, <2>4, RecordShows
  <2>6. Main'
    BY <2>2, <2>5 DEF GoesTo, LoadInvariant, Main, Aside, IsReset
  <2>7. \A q \in Sent : Placed(q)' /\ Known(q)'
    BY DEF LoadInvariant, Placed, Known, Aside, IsReset, OnRecord
  <2> QED  BY <2>3, <2>6, <2>7 DEF LoadInvariant
<1> QED  BY <1>1, <1>2


LEMMA SettlesKeeps ==
  ASSUME LoadInvariant, Settles
  PROVE  LoadInvariant'
<1> /\ asks' = asks /\ Sent' = Sent /\ net' = net /\ records' = records /\ responses' = responses
    /\ reader' = reader
  BY DEF Settles, Sent
<1> Reading' = Reading /\ Heard' = Heard
  BY DEF Reading, Heard
<1>1. GoesTo("draining") /\ load.pc = "loading" /\ load'.waits = Reading
  BY DEF Settles, GoesTo, LoadInvariant, LoadTypes, Loadings, LoadPcs, Reading
<1>2. /\ collector' \in Collectors /\ collector'.stopped /\ collector'.pending = collector.pending
      /\ collector'.took = collector.took /\ collector'.other = collector.other
      /\ collector'.failed = collector.failed
  <2>1. collector' = [collector EXCEPT !.stopped = TRUE]
    BY DEF Settles
  <2> QED  BY <2>1 DEF LoadInvariant, LoadTypes, Collectors
<1>3. LoadTypes'
  BY <1>1, <1>2 DEF GoesTo, LoadInvariant, LoadTypes, Collectors, Loadings
<1>4. Stations' /\ Whole' /\ Main'
  BY <1>1, <1>2 DEF GoesTo, LoadInvariant, Stations, DrainEnded, Whole, Gone, Main, Aside, IsReset
<1>5. \A q \in Sent : Placed(q)' /\ Known(q)'
  BY <1>2 DEF LoadInvariant, Placed, Known, Aside, IsReset, OnRecord
<1> QED  BY <1>3, <1>4, <1>5 DEF LoadInvariant

LEMMA OverrunsKeeps ==
  ASSUME LoadInvariant, Overruns
  PROVE  LoadInvariant'
<1> /\ asks' = asks /\ Sent' = Sent /\ net' = net /\ records' = records /\ responses' = responses
    /\ collector' = collector
  BY DEF Overruns, Sent
<1> Heard' = Heard
  BY DEF Heard
<1>1. /\ reader' \in [Sent -> [pc : Stages, cut : BOOLEAN, bare : BOOLEAN]] /\ Reading' = Reading
      /\ \A q \in Sent : reader'[q].pc = reader[q].pc /\ reader'[q].bare = reader[q].bare
  BY CancelsOnly DEF Overruns, LoadInvariant
<1>2. GoesTo("cutting") /\ load.pc = "draining" /\ load'.waits = load.waits
  BY DEF Overruns, GoesTo, LoadInvariant, LoadTypes, Loadings, LoadPcs
<1>3. LoadTypes'
  BY <1>1, <1>2 DEF GoesTo, LoadInvariant, LoadTypes, Collectors, Loadings
<1>4. Stations' /\ Whole' /\ Main'
  BY <1>1, <1>2 DEF GoesTo, LoadInvariant, Stations, DrainEnded, Whole, Gone, Main, Aside, IsReset
<1>5. \A q \in Sent : Placed(q)' /\ Known(q)'
  BY <1>1 DEF LoadInvariant, Placed, Known, Aside, IsReset, OnRecord
<1> QED  BY <1>3, <1>4, <1>5 DEF LoadInvariant

LEMMA DrainEndsKeeps ==
  ASSUME LoadInvariant, DrainEnds
  PROVE  LoadInvariant'
<1> /\ asks' = asks /\ Sent' = Sent /\ net' = net /\ records' = records /\ responses' = responses
    /\ reader' = reader /\ LoadTypes /\ Whole /\ \A q \in Sent : Placed(q)
  BY DEF DrainEnds, Sent, LoadInvariant
<1> Reading' = Reading /\ Heard' = Heard
  BY DEF Reading, Heard
<1>1. /\ load' = [load EXCEPT !.pc = "end", !.result = "searched"]
      /\ load.pc \in {"draining", "cutting"} /\ load.waits \cap Reading = {}
      /\ collector' = [collector EXCEPT !.other = @ + Cardinality(collector.pending), !.pending = {}]
  BY DEF DrainEnds
<1>2. /\ load' \in Loadings /\ load'.pc = "end" /\ load'.result = "searched" /\ load'.main = load.main
      /\ load'.blind = load.blind
  BY <1>1 DEF LoadTypes, Loadings, LoadPcs
<1>3. /\ collector.other \in Nat /\ collector.failed \in Nat
      /\ Cardinality(collector.took) \in Nat /\ Cardinality(collector.pending) \in Nat
      /\ Cardinality(Reading) \in Nat /\ Cardinality(Heard) \in Nat
  BY Finite DEF LoadTypes, Collectors
<1>4. /\ collector' \in Collectors /\ collector'.stopped = collector.stopped /\ collector'.pending = {}
      /\ collector'.took = collector.took /\ collector'.failed = collector.failed
      /\ collector'.other = collector.other + Cardinality(collector.pending)
  <2>1. collector.other + Cardinality(collector.pending) \in Nat
    BY <1>3
  <2>2. collector \in Collectors
    BY DEF LoadTypes
  <2>3. collector' = [collector EXCEPT !.other = collector.other + Cardinality(collector.pending), !.pending = {}]
    BY <1>1
  <2> QED  BY ONLY <2>1, <2>2, <2>3 DEF Collectors
<1>5. Reading = {} /\ ~Gone /\ collector.stopped
  BY <1>1 DEF LoadInvariant, Stations, Gone
<1>6. LoadTypes'
  BY <1>2, <1>4 DEF LoadTypes, Collectors, Loadings
<1>7. Stations'
  BY <1>2, <1>4, <1>5 DEF Stations, DrainEnded
<1>8. Whole'
  <2>1. Cardinality(collector'.pending) = 0 /\ Cardinality(Reading) = 0
    BY <1>4, <1>5, FS_EmptySet
  <2>2. Cardinality(collector.took) = Cardinality(collector.pending) + Cardinality(Reading) + Cardinality(Heard)
          + collector.other + collector.failed
    BY <1>5 DEF Whole
  <2>3. Cardinality(collector'.took) = Cardinality(collector'.pending) + Cardinality(Reading) + Cardinality(Heard)
          + collector'.other + collector'.failed
    BY <1>3, <1>4, <2>1, <2>2
  <2> QED  BY <1>4, <2>3 DEF Whole
<1>9. Main'
  BY <1>1, <1>2 DEF LoadInvariant, Main, Aside, IsReset
<1>10. \A q \in Sent : Placed(q)' /\ Known(q)'
  BY <1>4 DEF LoadInvariant, Placed, Known, Aside, IsReset, OnRecord
<1> QED  BY <1>6, <1>7, <1>8, <1>9, <1>10 DEF LoadInvariant

LEMMA DroppedKeeps ==
  ASSUME LoadInvariant, Dropped
  PROVE  LoadInvariant'
<1> asks' = asks /\ Sent' = Sent /\ records' = records /\ LoadTypes
  BY DEF Dropped, Sent, LoadInvariant
<1>1. CASE load.result = "retry"
  <2>1. /\ load' = [pc |-> "goto", attempt |-> 2, main |-> {}, blind |-> FALSE, waits |-> {}, result |-> "none"]
        /\ net' = [q \in Sent |-> IF net[q] = "new" THEN "new" ELSE "lost"]
        /\ collector' = NewCollector
        /\ reader' = [q \in Sent |-> NoReader]
        /\ responses' = [q \in Sent |-> <<>>]
    BY <1>1 DEF Dropped, Nothing, NewLoad
  <2>2. Reading' = {} /\ Heard' = {}
    BY <2>1 DEF Reading, Heard, NoReader
  <2>3. LoadTypes'
    BY <2>1 DEF LoadTypes, Collectors, Loadings, LoadPcs, NewCollector, NoReader, Stages
  <2>4. Stations' /\ Main'
    BY <2>1, <2>2 DEF Stations, DrainEnded, Main, NewCollector
  <2>5. Whole'
    BY <2>1, <2>2, FS_EmptySet DEF Whole, NewCollector
  <2>6. \A q \in Sent : Placed(q)' /\ Known(q)'
    BY <2>1 DEF Placed, Known, NewCollector, NoReader
  <2> QED  BY <2>3, <2>4, <2>5, <2>6 DEF LoadInvariant
<1>2. CASE load.result # "retry"
  <2> net' = net /\ collector' = collector /\ reader' = reader /\ responses' = responses
    BY <1>2 DEF Dropped
  <2> Reading' = Reading /\ Heard' = Heard
    BY DEF Reading, Heard
  <2>1. GoesTo("end") /\ load.pc = "dropping" /\ Reading = {}
    BY <1>2 DEF Dropped, GoesTo, LoadTypes, Loadings, LoadPcs
  <2>2. load.result # "searched"
    BY <2>1 DEF LoadInvariant, Stations
  <2>3. LoadTypes' /\ Stations' /\ Whole'
    BY <2>1, <2>2 DEF GoesTo, LoadInvariant, LoadTypes, Collectors, Loadings, Stations, DrainEnded, Whole, Gone
  <2>4. Main'
    BY <2>1, <2>2 DEF GoesTo, LoadInvariant, Main
  <2>5. \A q \in Sent : Placed(q)' /\ Known(q)'
    BY DEF LoadInvariant, Placed, Known, Aside, IsReset, OnRecord
  <2> QED  BY <2>3, <2>4, <2>5 DEF LoadInvariant
<1> QED  BY <1>1, <1>2

-----------------------------------------------------------------------------
(* The page load.                                                           *)

LEMMA LoadInit == InitLoad => LoadInvariant
<1> SUFFICES ASSUME InitLoad PROVE LoadInvariant
  OBVIOUS
<1>1. Reading = {} /\ Heard = {}
  BY DEF InitLoad, NewLoad, Reading, Heard, NoReader, Nothing
<1>2. LoadTypes
  BY DEF InitLoad, NewLoad, LoadTypes, Collectors, Loadings, LoadPcs, NewCollector, NoReader, Nothing, Stages
<1>3. Stations /\ Main
  BY <1>1 DEF InitLoad, NewLoad, Stations, DrainEnded, Main, NewCollector
<1>4. Whole
  BY <1>1, FS_EmptySet DEF InitLoad, NewLoad, Whole, NewCollector
<1>5. \A q \in Sent : Placed(q) /\ Known(q)
  BY DEF InitLoad, Placed, Known, NewCollector, NoReader, Nothing
<1> QED  BY <1>2, <1>3, <1>4, <1>5 DEF LoadInvariant

LEMMA LoadStep == LoadInvariant /\ [NextLoad]_loadVars => LoadInvariant'
<1> SUFFICES ASSUME LoadInvariant, [NextLoad]_loadVars PROVE LoadInvariant'
  OBVIOUS
<1>1. CASE \E r \in Sent : Request(r) \/ Respond(r) \/ OnFinished(r) \/ OnFailed(r)
  BY <1>1, RequestKeeps, RespondKeeps, OnFinishedKeeps, OnFailedKeeps
<1>2. CASE OpensWire \/ ReaderStep
  BY <1>2, OpensWireKeeps, ReaderStepKeeps
<1>3. CASE GotoFails
  BY <1>3, DropsKeeps DEF GotoFails
<1>4. CASE Commits \/ Judges \/ Settles \/ Overruns \/ DrainEnds \/ Dropped
  BY <1>4, CommitsKeeps, JudgesKeeps, SettlesKeeps, OverrunsKeeps, DrainEndsKeeps, DroppedKeeps
<1>5. CASE UNCHANGED loadVars
  <2> /\ asks' = asks /\ Sent' = Sent /\ net' = net /\ records' = records /\ collector' = collector
      /\ reader' = reader /\ responses' = responses /\ load' = load
    BY <1>5 DEF loadVars, Sent
  <2> Reading' = Reading /\ Heard' = Heard
    BY DEF Reading, Heard
  <2>1. LoadTypes' /\ Stations' /\ Whole' /\ Main'
    BY DEF LoadInvariant, LoadTypes, Collectors, Loadings, Stations, DrainEnded, Whole, Gone, Main, Aside, IsReset, OnRecord
  <2>2. \A q \in Sent : Placed(q)' /\ Known(q)'
    BY DEF LoadInvariant, Placed, Known, Aside, IsReset, OnRecord
  <2> QED  BY <2>1, <2>2 DEF LoadInvariant
<1> QED  BY <1>1, <1>2, <1>3, <1>4, <1>5 DEF NextLoad

\* What holds of a page load at every moment, with what carries it.
THEOREM LoadIsWhole == LoadSpec => []LoadInvariant
<1> QED  BY LoadInit, LoadStep, PTL DEF LoadSpec

LEMMA WholeIsCountedOnce == LoadInvariant => CountedOnce
<1> SUFFICES ASSUME LoadInvariant, load.pc = "end", load.result = "searched"
             PROVE  /\ \A r \in Heard : Len(responses[r]) = 1 /\ r \in collector.took
                    /\ Cardinality(Heard) + collector.other + collector.failed = Cardinality(collector.took)
  BY DEF CountedOnce, Heard
<1>1. LoadTypes /\ Whole /\ \A q \in Sent : Placed(q)
  BY DEF LoadInvariant
<1>2. \A r \in Heard : Len(responses[r]) = 1 /\ r \in collector.took
  BY <1>1 DEF Placed, Heard
<1>3. collector.pending = {} /\ Reading = {} /\ ~Gone
  BY DEF LoadInvariant, Stations, DrainEnded, Gone
<1>4. /\ collector.other \in Nat /\ collector.failed \in Nat
      /\ Cardinality(collector.took) \in Nat /\ Cardinality(Heard) \in Nat
  BY <1>1, Finite DEF LoadTypes, Collectors
<1>5. Cardinality(Heard) + collector.other + collector.failed = Cardinality(collector.took)
  BY <1>1, <1>3, <1>4, FS_EmptySet DEF Whole
<1> QED  BY <1>2, <1>5

\* A search says of its page what is so: every request that the last attempt took is
\* counted once, and no reply of the meter's own whose headers were read is searched as the site's,
\* nor a page that one is the main document of unless its headers or body could not be read:
\* for any page of any number of requests, whatever ends, fails, is retried or cut off, and
\* when (_Collector, load_page, meter_reply_check_from_snapshot).
THEOREM SearchIsTrue == LoadSpec => []SearchIsOfThePage
<1>1. LoadInvariant => OwnRepliesAside
  BY DEF LoadInvariant, Main, Known, Aside, OwnRepliesAside, Searches
<1>2. LoadInvariant => SearchIsOfThePage
  BY <1>1, WholeIsCountedOnce DEF SearchIsOfThePage
<1> QED  BY <1>2, LoadIsWhole, PTL

-----------------------------------------------------------------------------
(* Verdict: the order of the matches.                                       *)

\* Six numbers are compared from the first on, and the last one decides.
Lex(x, y) == \E n \in 1 .. 6 : x[n] < y[n] /\ \A m \in 1 .. n - 1 : x[m] = y[m]

LEMMA LexIsOrder ==
  ASSUME NEW x \in [1 .. 6 -> Int], NEW y \in [1 .. 6 -> Int], NEW z \in [1 .. 6 -> Int]
  PROVE  /\ ~Lex(x, x)
         /\ Lex(x, y) /\ Lex(y, z) => Lex(x, z)
         /\ x[6] # y[6] => Lex(x, y) \/ Lex(y, x)
<1>1. ~Lex(x, x)
  BY DEF Lex
<1>2. ASSUME Lex(x, y), Lex(y, z) PROVE Lex(x, z)
  <2>1. PICK n \in 1 .. 6 : x[n] < y[n] /\ \A m \in 1 .. n - 1 : x[m] = y[m]
    BY <1>2 DEF Lex
  <2>2. PICK k \in 1 .. 6 : y[k] < z[k] /\ \A m \in 1 .. k - 1 : y[m] = z[m]
    BY <1>2 DEF Lex
  <2>3. CASE n <= k
    <3>1. x[n] < z[n]
      BY <2>1, <2>2, <2>3
    <3>2. \A m \in 1 .. n - 1 : x[m] = z[m]
      BY <2>1, <2>2, <2>3
    <3> QED  BY <3>1, <3>2 DEF Lex
  <2>4. CASE k < n
    <3>1. x[k] < z[k]
      BY <2>1, <2>2, <2>4
    <3>2. \A m \in 1 .. k - 1 : x[m] = z[m]
      BY <2>1, <2>2, <2>4
    <3> QED  BY <3>1, <3>2 DEF Lex
  <2> QED  BY <2>3, <2>4
<1>3. ASSUME x[6] # y[6] PROVE Lex(x, y) \/ Lex(y, x)
  <2> DEFINE B == {n \in 1 .. 6 : x[n] # y[n]}
  <2>1. PICK n \in B : \A m \in B : n <= m
    <3>1. 6 \in B
      BY <1>3
    <3>2. CASE 1 \in B  BY <3>2
    <3>3. CASE 1 \notin B /\ 2 \in B  BY <3>3
    <3>4. CASE 1 \notin B /\ 2 \notin B /\ 3 \in B  BY <3>4
    <3>5. CASE 1 \notin B /\ 2 \notin B /\ 3 \notin B /\ 4 \in B  BY <3>5
    <3>6. CASE 1 \notin B /\ 2 \notin B /\ 3 \notin B /\ 4 \notin B /\ 5 \in B  BY <3>6
    <3>7. CASE 1 \notin B /\ 2 \notin B /\ 3 \notin B /\ 4 \notin B /\ 5 \notin B  BY <3>1, <3>7
    <3> QED  BY <3>2, <3>3, <3>4, <3>5, <3>6, <3>7
  <2>2. n \in 1 .. 6 /\ x[n] # y[n] /\ \A m \in 1 .. n - 1 : x[m] = y[m]
    BY <2>1
  <2>3. x[n] < y[n] \/ y[n] < x[n]
    BY <2>2
  <2> QED  BY <2>2, <2>3 DEF Lex
<1> QED  BY <1>1, <1>2, <1>3

\* What is known of a page load.
LEMMA LoadIs ==
  ASSUME NEW s \in Loads
  PROVE  /\ s \in Seq(Observations)
         /\ Len(s) \in Nat /\ DOMAIN s = 1 .. Len(s)
         /\ \A i \in DOMAIN s : s[i] \in Observations
  BY VerdictAssumption

\* The kinds of one value's matches are finitely many.
LEMMA FoundIs ==
  ASSUME NEW o \in Observations
  PROVE  /\ IsFiniteSet(Found(o)) /\ Cardinality(Found(o)) \in Nat
         /\ IsFiniteSet(Weak(o)) /\ Cardinality(Weak(o)) \in Nat
         /\ HasAll(o) => Found(o) # {}
<1>1. Len(o.kinds) \in Nat /\ DOMAIN o.kinds = 1 .. Len(o.kinds)
  BY DEF Observations
<1>2. IsFiniteSet(DOMAIN o.kinds)
  <2>1. IsFiniteSet(1 .. Len(o.kinds))
    BY <1>1, FS_Interval
  <2> QED  BY <1>1, <2>1
<1>3. Found(o) \subseteq DOMAIN o.kinds /\ Weak(o) \subseteq DOMAIN o.kinds
  BY DEF Found, Weak, As
<1>4. IsFiniteSet(Found(o)) /\ IsFiniteSet(Weak(o))
  BY <1>2, <1>3, FS_Subset
<1>5. HasAll(o) => Found(o) # {}
  <2>1. ASSUME o.kinds # <<>> PROVE 1 \in DOMAIN o.kinds
    BY <1>1, <2>1 DEF Observations
  <2> QED  BY <2>1 DEF HasAll
<1> QED  BY <1>4, <1>5, FS_CardinalityType

\* A match is ranked by six numbers, the first of which says whether it holds every value.
LEMMA KeyIs ==
  ASSUME NEW s \in Loads, seen = s, NEW i \in DOMAIN seen
  PROVE  /\ RankKey(i) \in [1 .. 6 -> Int]
         /\ RankKey(i)[1] = Bit(~HasAll(seen[i])) /\ RankKey(i)[6] = i
<1>1. seen[i] \in Observations /\ i \in Nat
  BY LoadIs
<1>2. Cardinality(Found(seen[i])) \in Nat /\ Cardinality(Weak(seen[i])) \in Nat
  BY <1>1, FoundIs
<1>3. Billed(seen[i]) \in Nat
  BY <1>1, VerdictAssumption DEF Billed, Observations
<1>4. \A b \in BOOLEAN : Bit(b) \in Int
  BY DEF Bit
<1>5. PICK x1 \in Int, x2 \in Int, x3 \in Int, x4 \in Int, x5 \in Int :
        /\ x1 = Bit(~HasAll(seen[i])) /\ x2 = -Cardinality(Found(seen[i])) /\ x3 = Cardinality(Weak(seen[i]))
        /\ x4 = Bit(~OfNetwork(seen[i])) /\ x5 = Billed(seen[i])
  BY <1>2, <1>3 DEF Bit
<1>6. RankKey(i) = <<x1, x2, x3, x4, x5, i>>
  BY <1>5 DEF RankKey
<1> QED  BY <1>1, <1>5, <1>6

\* Ranking compares these numbers in order.
LEMMA OutranksIs ==
  ASSUME NEW s \in Loads, seen = s, NEW i \in DOMAIN seen, NEW j \in DOMAIN seen
  PROVE  Outranks(i, j) <=> Lex(RankKey(i), RankKey(j))
<1>1. RankKey(i) \in [1 .. 6 -> Int]
  BY KeyIs
<1>2. DOMAIN RankKey(i) = 1 .. 6
  BY <1>1
<1> QED  BY <1>2 DEF Outranks, Lex

\* The observations of a page load are finitely many, and so are those that are kept.
LEMMA SeenIs ==
  ASSUME seen \in Loads
  PROVE  /\ Len(seen) \in Nat /\ DOMAIN seen = 1 .. Len(seen) /\ IsFiniteSet(DOMAIN seen)
         /\ \A i \in DOMAIN seen : seen[i] \in Observations
         /\ IsFiniteSet(Kept) /\ Kept \subseteq Matched /\ Matched \subseteq DOMAIN seen
<1>1. Len(seen) \in Nat /\ DOMAIN seen = 1 .. Len(seen) /\ \A i \in DOMAIN seen : seen[i] \in Observations
  BY LoadIs
<1>2. IsFiniteSet(1 .. Len(seen))
  BY <1>1, FS_Interval
<1>3. IsFiniteSet(DOMAIN seen)
  BY <1>1, <1>2
<1>4. Kept \subseteq Matched /\ Matched \subseteq DOMAIN seen
  BY DEF Kept, Matched
<1>5. Kept \subseteq DOMAIN seen
  BY <1>4
<1>6. IsFiniteSet(Kept)
  BY <1>3, <1>5, FS_Subset
<1> QED  BY <1>1, <1>3, <1>4, <1>6

\* The ranked matches are those that were kept, each before those it outranks.
LEMMA RankedIs ==
  ASSUME seen \in Loads
  PROVE  /\ Cardinality(Kept) \in Nat /\ DOMAIN RankedMatches = 1 .. Cardinality(Kept)
         /\ \A k \in 1 .. Cardinality(Kept) : RankedMatches[k] \in Kept
         /\ Listed(RankedMatches) = Kept
         /\ \A a, b \in 1 .. Cardinality(Kept) : a < b => Outranks(RankedMatches[a], RankedMatches[b])
<1> DEFINE n == Cardinality(Kept)
           ahead == [i \in Kept |-> {j \in Kept : Outranks(j, i)}]
           line == RankedMatches
<1>1. IsFiniteSet(Kept) /\ Kept \subseteq DOMAIN seen
  BY SeenIs
<1>2. n \in Nat
  BY <1>1, FS_CardinalityType
<1>3. PICK s \in Loads : seen = s
  OBVIOUS
<1>4. ASSUME NEW i \in Kept PROVE RankKey(i) \in [1 .. 6 -> Int] /\ RankKey(i)[6] = i
  BY <1>1, <1>3, KeyIs
<1>5. ASSUME NEW i \in Kept, NEW j \in Kept PROVE Outranks(i, j) <=> Lex(RankKey(i), RankKey(j))
  BY <1>1, <1>3, OutranksIs
<1>6. IsLine(ahead, Kept)
  <2>1. ASSUME NEW i \in Kept PROVE ~Outranks(i, i)
    BY <1>4, <1>5, LexIsOrder
  <2>2. ASSUME NEW i \in Kept, NEW j \in Kept, i # j PROVE Outranks(i, j) \/ Outranks(j, i)
    BY <1>4, <1>5, <2>2, LexIsOrder
  <2>3. ASSUME NEW i \in Kept, NEW j \in Kept, NEW k \in Kept, Outranks(i, j), Outranks(j, k) PROVE Outranks(i, k)
    <3>1. Lex(RankKey(i), RankKey(j)) /\ Lex(RankKey(j), RankKey(k))
      BY <1>5, <2>3
    <3>2. Lex(RankKey(i), RankKey(k))
      BY <1>4, <3>1, LexIsOrder
    <3> QED  BY <1>5, <3>2
  <2>4. \A i \in Kept : ahead[i] \in SUBSET (Kept \ {i})
    BY <2>1
  <2>5. \A i, j \in Kept : i # j => i \in ahead[j] \/ j \in ahead[i]
    BY <2>2
  <2>6. ASSUME NEW i \in Kept, NEW j \in ahead[i], NEW k \in ahead[j] PROVE k \in ahead[i]
    BY <2>3
  <2> HIDE DEF ahead
  <2> QED  BY <2>4, <2>5, <2>6 DEF IsLine
<1>7. DOMAIN line = 1 .. n
  BY DEF RankedMatches, InLine
<1>8. ASSUME NEW k \in 1 .. n PROVE line[k] \in Kept /\ Cardinality(ahead[line[k]]) = k - 1
  <2>1. k - 1 \in 0 .. n - 1
    BY <1>2
  <2>2. \E i \in Kept : Cardinality(ahead[i]) = k - 1
    <3> HIDE DEF ahead
    <3> QED  BY <1>1, <1>6, <2>1, EachPlaceIsTaken
  <2>3. \E i \in Kept : Cardinality({j \in Kept : Outranks(j, i)}) = k - 1
    BY <2>2
  <2>4. line[k] = CHOOSE i \in Kept : Cardinality({j \in Kept : Outranks(j, i)}) = k - 1
    BY DEF RankedMatches, InLine
  <2>5. line[k] \in Kept /\ Cardinality({j \in Kept : Outranks(j, line[k])}) = k - 1
    <3> HIDE DEF line, ahead, n
    <3> QED  BY <2>3, <2>4
  <2> HIDE DEF line
  <2> QED  BY <2>5
<1>9. /\ {line[k] : k \in DOMAIN line} = Kept
      /\ \A a, b \in 1 .. n : a < b => line[a] \in ahead[line[b]]
  <2> HIDE DEF line, ahead
  <2>1. IsPlaced(line, ahead, Kept)
    BY <1>7, <1>8 DEF IsPlaced
  <2>2. \A i \in Kept : \E k \in DOMAIN line : line[k] = i
    BY <1>1, <1>6, <2>1, LineUp
  <2>3. \A a, b \in DOMAIN line : a < b => line[a] \in ahead[line[b]]
    BY <1>1, <1>6, <2>1, LineUp
  <2> HIDE DEF n
  <2> QED  BY <1>7, <1>8, <2>2, <2>3
<1>10. \A a, b \in 1 .. n : a < b => Outranks(line[a], line[b])
  <2> HIDE DEF line
  <2> QED  BY <1>8, <1>9
<1> QED  BY <1>2, <1>7, <1>8, <1>9, <1>10 DEF Listed

\* A set of numbers as a sequence.
Rising(line, S) ==
  /\ Listed(line) = S
  /\ DOMAIN line = 1 .. Cardinality(S) /\ Cardinality(S) \in Nat
  /\ \A a, b \in DOMAIN line : a < b => line[a] < line[b]

\* InLine with < is the set's members from the least on.
LEMMA InLineRises ==
  ASSUME NEW S, \A i \in S : i \in Nat, IsFiniteSet(S)
  PROVE  Rising(InLine(S, <), S)
<1> DEFINE n == Cardinality(S)
           ahead == [i \in S |-> {j \in S : j < i}]
           line == InLine(S, <)
<1>1. IsFiniteSet(S)
  OBVIOUS
<1>2. n \in Nat
  BY FS_CardinalityType
<1>6. IsLine(ahead, S)
  <2>4. \A i \in S : ahead[i] \in SUBSET (S \ {i})
    OBVIOUS
  <2>5. \A i, j \in S : i # j => i \in ahead[j] \/ j \in ahead[i]
    OBVIOUS
  <2>6. ASSUME NEW i \in S, NEW j \in ahead[i], NEW k \in ahead[j] PROVE k \in ahead[i]
    OBVIOUS
  <2> HIDE DEF ahead
  <2> QED  BY <2>4, <2>5, <2>6 DEF IsLine
<1>7. DOMAIN line = 1 .. n
  BY DEF InLine
<1>8. ASSUME NEW k \in 1 .. n PROVE line[k] \in S /\ Cardinality(ahead[line[k]]) = k - 1
  <2>1. k - 1 \in 0 .. n - 1
    BY <1>2
  <2>2. \E i \in S : Cardinality(ahead[i]) = k - 1
    <3> HIDE DEF ahead, line
    <3> QED  BY <1>1, <1>6, <2>1, EachPlaceIsTaken
  <2>3. \E i \in S : Cardinality({j \in S : j < i}) = k - 1
    BY <2>2
  <2>4. line[k] = CHOOSE i \in S : Cardinality({j \in S : j < i}) = k - 1
    BY DEF InLine
  <2>5. line[k] \in S /\ Cardinality({j \in S : j < line[k]}) = k - 1
    <3> HIDE DEF line, ahead, n
    <3> QED  BY <2>3, <2>4
  <2> HIDE DEF line
  <2> QED  BY <2>5
<1>9. /\ {line[k] : k \in DOMAIN line} = S
      /\ \A a, b \in 1 .. n : a < b => line[a] \in ahead[line[b]]
  <2> HIDE DEF line, ahead
  <2>1. IsPlaced(line, ahead, S)
    BY <1>7, <1>8 DEF IsPlaced
  <2>2. \A i \in S : \E k \in DOMAIN line : line[k] = i
    BY <1>6, <2>1, LineUp
  <2>3. \A a, b \in DOMAIN line : a < b => line[a] \in ahead[line[b]]
    BY <1>6, <2>1, LineUp
  <2> HIDE DEF n
  <2> QED  BY <1>7, <1>8, <2>2, <2>3
<1>10. \A a, b \in 1 .. n : a < b => line[a] < line[b]
  <2> HIDE DEF line
  <2> QED  BY <1>8, <1>9
<1> QED  BY <1>2, <1>7, <1>8, <1>9, <1>10 DEF Listed, Rising

\* It is a sequence, which tlapm needs to hear where one is extended or compared.
LEMMA InLineIsSeq ==
  ASSUME NEW S \in SUBSET Nat, IsFiniteSet(S)
  PROVE  InLine(S, <) \in Seq(Nat)
<1> DEFINE e(k) == CHOOSE i \in S : Cardinality({j \in S : j < i}) = k - 1
           line == InLine(S, <)
<1>1. Rising(line, S)
  BY InLineRises
<1>2. line = [k \in 1 .. Cardinality(S) |-> e(k)]
  BY DEF InLine
<1> HIDE DEF e, line
<1>3. PICK n \in Nat : n = Cardinality(S)
  BY <1>1 DEF Rising
<1>4. \A k \in 1 .. n : line[k] \in Nat
  BY <1>1, <1>3 DEF Rising, Listed
<1>5. line \in [1 .. n -> Nat]
  BY <1>2, <1>3, <1>4
<1>6. line \in Seq(Nat)
  BY <1>5
<1> QED  BY <1>6 DEF line

-----------------------------------------------------------------------------
(* What is listed, and for what there is code.                              *)

Most == IF Len(RankedMatches) > MaxMatches THEN MaxMatches ELSE Len(RankedMatches)
TopMatches == [k \in 1 .. Most |-> MatchOf(RankedMatches[k])]
Earns(k) == Eligible(TopMatches[k]) /\ GetsCode(TopMatches, TopMatches[k])
FirstCode == InLine({k \in DOMAIN TopMatches : Earns(k)}, <)
Reasons == {"cookies", "authorization", "token header", "token in URL", "not a GET", "status", "worker", "none"}

\* There are as many ranked matches as were kept.
LEMMA RankedLength ==
  ASSUME seen \in Loads
  PROVE  RankedMatches \in Seq(Kept) /\ Len(RankedMatches) = Cardinality(Kept)
<1> DEFINE line == RankedMatches
           n == Cardinality(Kept)
<1>1. n \in Nat /\ DOMAIN line = 1 .. n /\ \A k \in 1 .. n : line[k] \in Kept
  BY RankedIs
<1>3. line \in [1 .. n -> Kept]
  <2> DEFINE e(k) == CHOOSE i \in Kept : Cardinality({j \in Kept : Outranks(j, i)}) = k - 1
  <2>1. line = [k \in 1 .. n |-> e(k)]
    BY DEF RankedMatches, InLine
  <2> HIDE DEF e, line, n
  <2>2. \A k \in 1 .. n : e(k) \in Kept
    BY <1>1, <2>1
  <2> QED  BY <2>1, <2>2
<1> HIDE DEF line, n
<1>4. line \in Seq(Kept)
  BY <1>1, <1>3
<1>5. Len(line) = n
  BY <1>1, <1>4
<1> QED  BY <1>4, <1>5 DEF line, n

\* What is listed: the first MaxMatches of the ranking, each with its reason.
LEMMA TopMatchesAre ==
  ASSUME seen \in Loads
  PROVE  /\ Most \in Nat /\ Most <= Cardinality(Kept) /\ DOMAIN TopMatches = 1 .. Most /\ IsFiniteSet(DOMAIN TopMatches)
         /\ \A k \in DOMAIN TopMatches : /\ TopMatches[k].obs = RankedMatches[k]
                                    /\ TopMatches[k].obs \in Kept
                                    /\ TopMatches[k].reason = Ineligible(seen[TopMatches[k].obs])
                                    /\ TopMatches[k] \in [obs : Nat, reason : Reasons]
         /\ TopMatches \in Seq([obs : Nat, reason : Reasons])
         /\ TopMatches = <<>> <=> Kept = {}
         /\ Kept # {} => 1 \in DOMAIN TopMatches
<1>1. PICK n \in Nat : n = Cardinality(Kept) /\ Len(RankedMatches) = n /\ \A k \in 1 .. n : RankedMatches[k] \in Kept
  BY RankedIs, RankedLength
<1>2. Most \in Nat /\ Most <= n /\ (n > 0 => Most > 0)
  BY <1>1, VerdictAssumption DEF Most
<1>3. IsFiniteSet(1 .. Most)
  BY <1>2, FS_Interval
<1>4. DOMAIN TopMatches = 1 .. Most
  BY DEF TopMatches
<1>5. \A o : Ineligible(o) \in Reasons
  BY DEF Ineligible, Reasons
<1>6. ASSUME NEW k \in 1 .. Most
      PROVE  /\ TopMatches[k].obs = RankedMatches[k]
             /\ TopMatches[k].obs \in Kept
             /\ TopMatches[k].reason = Ineligible(seen[TopMatches[k].obs])
             /\ TopMatches[k] \in [obs : Nat, reason : Reasons]
  <2>1. RankedMatches[k] \in Kept
    BY <1>1, <1>2
  <2>2. RankedMatches[k] \in Nat
    BY <2>1, SeenIs
  <2>3. TopMatches[k] = [obs |-> RankedMatches[k], reason |-> Ineligible(seen[RankedMatches[k]])]
    BY DEF TopMatches, MatchOf
  <2> QED  BY <1>5, <2>1, <2>2, <2>3
<1>7. TopMatches \in Seq([obs : Nat, reason : Reasons])
  <2> DEFINE e(k) == MatchOf(RankedMatches[k])
             T == [obs : Nat, reason : Reasons]
  <2>1. TopMatches = [k \in 1 .. Most |-> e(k)]
    BY DEF TopMatches
  <2>2. \A k \in 1 .. Most : TopMatches[k] \in T
    BY <1>6
  <2> HIDE DEF e, T
  <2>3. TopMatches \in [1 .. Most -> T]
    BY <2>1, <2>2
  <2>4. TopMatches \in Seq(T)
    BY <1>2, <2>3
  <2> QED  BY <2>4 DEF T
<1>8. TopMatches = <<>> <=> Kept = {}
  <2>1. n = 0 <=> Kept = {}
    BY <1>1, SeenIs, FS_EmptySet
  <2>2. TopMatches = <<>> <=> Most = 0
    <3>1. Len(TopMatches) = Most
      BY <1>2, <1>4, <1>7
    <3> QED  BY <1>7, <3>1
  <2> QED  BY <1>1, <1>2, <2>1, <2>2
<1>9. Kept # {} => 1 \in DOMAIN TopMatches
  <2>1. n = 0 <=> Kept = {}
    BY <1>1, SeenIs, FS_EmptySet
  <2> QED  BY <1>1, <1>2, <1>4, <2>1
<1> QED  BY <1>1, <1>2, <1>3, <1>4, <1>6, <1>7, <1>8, <1>9

\* The numbers of the listed matches that have code at first, in order.
LEMMA CodeIs ==
  ASSUME seen \in Loads
  PROVE  Rising(FirstCode, {k \in DOMAIN TopMatches : Earns(k)})
<1> DEFINE S == {k \in DOMAIN TopMatches : Earns(k)}
<1>1. S \subseteq DOMAIN TopMatches /\ DOMAIN TopMatches \subseteq Nat /\ IsFiniteSet(DOMAIN TopMatches)
  BY TopMatchesAre
<1> HIDE DEF S
<1>2. S \in SUBSET Nat /\ IsFiniteSet(S)
  BY <1>1, FS_Subset
<1>3. Rising(InLine(S, <), S)
  BY <1>2, InLineRises
<1> QED  BY <1>3 DEF FirstCode, S

\* What gets code holds every value, if anything does that was ranked.
LEMMA CodeIsForAll ==
  ASSUME seen \in Loads, NEW k \in DOMAIN TopMatches, GetsCode(TopMatches, TopMatches[k])
  PROVE  HasAll(seen[TopMatches[k].obs]) \/ \A i \in Kept : ~HasAll(seen[i])
<1>1. SUFFICES ASSUME NEW i \in Kept, HasAll(seen[i]) PROVE HasAll(seen[TopMatches[k].obs])
  OBVIOUS
<1>2. PICK s \in Loads : s = seen
  OBVIOUS
<1>3. PICK n \in Nat : n = Cardinality(Kept) /\ DOMAIN RankedMatches = 1 .. n
  BY RankedIs
<1>4. PICK b \in 1 .. n : RankedMatches[b] = i
  BY <1>3, RankedIs DEF Listed
<1>5. 1 \in DOMAIN TopMatches /\ TopMatches[1].obs = RankedMatches[1]
  BY TopMatchesAre
<1>6. HasAll(seen[RankedMatches[1]])
  <2>1. CASE b = 1 BY <1>1, <1>4, <2>1
  <2>2. CASE b # 1
    <3>1. 1 \in 1 .. n /\ 1 < b
      BY <2>2
    <3>2. Outranks(RankedMatches[1], RankedMatches[b])
      BY <1>3, <3>1, RankedIs
    <3>3. RankedMatches[1] \in DOMAIN seen /\ RankedMatches[b] \in DOMAIN seen
      BY <1>3, <3>1, RankedIs, SeenIs
    <3>4. PICK x \in [1 .. 6 -> Int] : x = RankKey(RankedMatches[1]) /\ x[1] = Bit(~HasAll(seen[RankedMatches[1]]))
      BY <1>2, <3>3, KeyIs
    <3>5. PICK y \in [1 .. 6 -> Int] : y = RankKey(RankedMatches[b]) /\ y[1] = Bit(~HasAll(seen[RankedMatches[b]]))
      BY <1>2, <3>3, KeyIs
    <3>6. Lex(x, y)
      BY <1>2, <3>2, <3>3, <3>4, <3>5, OutranksIs
    <3>7. x[1] <= y[1]
      BY <3>6 DEF Lex
    <3>8. y[1] = 0
      BY <1>1, <1>4, <3>5 DEF Bit
    <3>9. x[1] # 1
      BY <3>7, <3>8
    <3> QED  BY <3>4, <3>9 DEF Bit
  <2> QED  BY <2>1, <2>2
<1> QED  BY <1>5, <1>6 DEF GetsCode

\* A match without a reason against it needs nothing that only the browser has.
LEMMA EligibleIsStateless ==
  ASSUME seen \in Loads, NEW k \in DOMAIN TopMatches, Eligible(TopMatches[k])
  PROVE  Stateless(seen[TopMatches[k].obs])
<1> DEFINE o == seen[TopMatches[k].obs]
<1>1. o \in Observations
  BY TopMatchesAre, SeenIs
<1>2. Ineligible(o) = "none"
  BY TopMatchesAre DEF Eligible
<1> HIDE DEF o
<1>3. o.carried \subseteq State
  BY <1>1 DEF Observations
<1>4. /\ "cookies" \notin o.carried /\ "authorization" \notin o.carried /\ "token header" \notin o.carried
      /\ "token in URL" \notin o.carried /\ o.method = "GET" /\ Succeeded(o.status) /\ "worker" \notin o.from
  BY <1>2 DEF Ineligible
<1>5. o.carried = {}
  BY <1>3, <1>4 DEF State
<1>6. Stateless(o)
  BY <1>4, <1>5 DEF Stateless
<1> QED  BY <1>6 DEF o

-----------------------------------------------------------------------------
(* The invariant.                                                           *)

Outcome == {"none", "not_tested", "yes", "no"}
Finds ==
  [pc : {"load", "listed", "replaying", "end"}, status : {"none", "error", "blocked", "found", "not_found"},
   ranked : Seq(Nat), matches : Seq([obs : Nat, reason : Reasons]), code : Seq(Nat), target : Nat, verify : Outcome]
Replays ==
  [pc : {"idle", "sent", "reading", "read", "end"}, reply : Replies \cup {NoReply}, read : Nat, received : Nat,
   decoded : Nat, flaw : {"none", "coding", "over cap"}]

\* Nothing was searched.
NotListed ==
  /\ find.ranked = <<>> /\ find.matches = <<>> /\ find.code = <<>> /\ find.target = 0
  /\ find.status \notin {"found", "not_found"} /\ find.verify \notin {"yes", "no"}

\* The matches are as listed, and a replay has shown no more than was known.
AsListed ==
  /\ find.ranked = RankedMatches
  /\ find.status = (IF TopMatches = <<>> THEN "not_found" ELSE "found")
  /\ find.matches = TopMatches /\ find.code = FirstCode
  /\ find.verify = "yes" => find.target # 0 /\ Eligible(TopMatches[find.target])

\* The replay has shown that the match needs nothing of the browser after all.
OneProven ==
  /\ find.ranked = RankedMatches
  /\ find.status = (IF TopMatches = <<>> THEN "not_found" ELSE "found")
  /\ find.verify = "yes" /\ find.target # 0
  /\ find.matches = [TopMatches EXCEPT ![find.target].reason = "none"]
  /\ find.code = IF GetsCode(TopMatches, TopMatches[find.target]) THEN InLine(Listed(FirstCode) \cup {find.target}, <)
                 ELSE FirstCode

\* What was sent is for the chosen match, and only the site answers for an https one.
Exchange ==
  /\ replay.pc = "idle" <=> find.target = 0
  /\ replay.pc \in {"sent", "reading", "read"} <=> find.pc = "replaying"
  /\ find.target # 0 => find.target = Target(TopMatches)
  /\ replay.pc \in {"reading", "read"} => /\ replay.reply \in Replies
                                          /\ replay.reply.by # "site" => ~seen[TopMatches[find.target].obs].https

\* A body without a flaw is within the cap.
Within ==
  /\ replay.decoded <= BodyCap + 1
  /\ replay.flaw = "none" => replay.received <= BodyCap /\ replay.decoded <= BodyCap
  /\ replay.pc \in {"idle", "sent"} => replay.received = 0 /\ replay.decoded = 0

\* What a verdict says.
VerdictSays ==
  /\ find.verify \in {"yes", "no"} => replay.reply.by = "site"
  /\ find.verify = "yes" => replay.flaw = "none" /\ Found(seen[TopMatches[find.target].obs]) \subseteq As(replay.reply.kinds, CountsAsMatch)

VerdictInv ==
  /\ seen \in Loads /\ find \in Finds /\ replay \in Replays
  /\ NotListed \/ AsListed \/ OneProven
  /\ find.pc = "load" => NotListed
  /\ find.pc \in {"listed", "replaying"} => AsListed
  /\ find.pc # "end" => find.verify = "none"
  /\ find.pc = "listed" => find.target = 0
  /\ Exchange /\ Within /\ VerdictSays

-----------------------------------------------------------------------------
(* The target of the replay.                                                *)


IsWanted(m) == Eligible(m) \/ ReplayCandidate(m)

\* The target is listed, and what is not eligible is only chosen as the first that is wanted.
LEMMA TargetIs ==
  ASSUME NEW matches, DOMAIN matches \subseteq Nat \ {0}
  PROVE  /\ Target(matches) # 0 =>
              /\ Target(matches) \in DOMAIN matches
              /\ IsWanted(matches[Target(matches)])
              /\ ~Eligible(matches[Target(matches)]) =>
                   IsLeast(Target(matches), {k \in DOMAIN matches : IsWanted(matches[k])})
         /\ \A t : IsLeast(t, {k \in DOMAIN matches : IsWanted(matches[k])}) /\ Eligible(matches[t]) => Target(matches) = t
<1> DEFINE R == {k \in DOMAIN matches : IsWanted(matches[k])}
           first == IF R = {} THEN 0 ELSE CHOOSE k \in R : \A l \in R : k <= l
           o == seen[matches[first].obs]
           A == {k \in DOMAIN matches : /\ Eligible(matches[k]) /\ HasAll(seen[matches[k].obs]) = HasAll(o)
                                        /\ Cardinality(Found(seen[matches[k].obs])) = Cardinality(Found(o))}
           other == IF A = {} THEN 0 ELSE CHOOSE k \in A : \A l \in A : k <= l
<1>1. Target(matches) = IF first = 0 THEN 0
                        ELSE IF ~Eligible(matches[first]) /\ other # 0 /\ seen[matches[other].obs].size <= Advantage * o.size
                        THEN other ELSE first
  BY DEF Target, FirstOf, IsWanted
<1>2. R \in SUBSET Nat /\ R \subseteq DOMAIN matches /\ A \in SUBSET Nat /\ A \subseteq DOMAIN matches
  OBVIOUS
<1>3. R # {} => IsLeast(first, R) /\ first # 0
  <2>1. ASSUME R # {} PROVE IsLeast(CHOOSE k \in R : \A l \in R : k <= l, R)
    <3> HIDE DEF R
    <3> QED  BY <1>2, <2>1, LeastIs
  <2> HIDE DEF R
  <2> QED  BY <1>2, <2>1 DEF IsLeast
<1>4. A # {} => other \in A
  <2>1. ASSUME A # {} PROVE IsLeast(CHOOSE k \in A : \A l \in A : k <= l, A)
    <3> HIDE DEF A
    <3> QED  BY <1>2, <2>1, LeastIs
  <2> HIDE DEF A
  <2> QED  BY <1>2, <2>1 DEF IsLeast
<1>5. \A k \in A : k \in DOMAIN matches /\ Eligible(matches[k])
  OBVIOUS
<1>6. \A k \in R : k \in DOMAIN matches /\ IsWanted(matches[k])
  OBVIOUS
<1>7. \A x : IsLeast(x, R) => x \in R /\ x \in Nat /\ \A l \in R : x <= l
  BY <1>2 DEF IsLeast
<1>8. R = {} => first = 0
  OBVIOUS
<1>9. A = {} => other = 0
  OBVIOUS
<1> HIDE DEF A, other, o, first
<1>10. ASSUME Target(matches) # 0
       PROVE  /\ Target(matches) \in DOMAIN matches
              /\ IsWanted(matches[Target(matches)])
              /\ ~Eligible(matches[Target(matches)]) => IsLeast(Target(matches), R)
  <2> HIDE DEF R
  <2>1. first # 0 /\ IsLeast(first, R) /\ first \in R
    BY <1>1, <1>3, <1>7, <1>8, <1>10
  <2>2. CASE Target(matches) = first
    BY <1>6, <2>1, <2>2
  <2>3. CASE Target(matches) # first
    <3>1. Target(matches) = other /\ other # 0
      BY <1>1, <2>1, <2>3
    <3>2. other \in A
      BY <1>4, <1>9, <3>1
    <3> QED  BY <1>5, <3>1, <3>2 DEF IsWanted
  <2> QED  BY <2>2, <2>3
<1>11. ASSUME NEW t, IsLeast(t, R), Eligible(matches[t]) PROVE Target(matches) = t
  <2> HIDE DEF R
  <2>1. t \in R /\ first \in R /\ first # 0 /\ IsLeast(first, R)
    BY <1>3, <1>7, <1>11
  <2>2. t = first
    <3>1. t \in Nat /\ first \in Nat /\ t <= first /\ first <= t
      BY <1>7, <1>11, <2>1
    <3> QED  BY <3>1
  <2> QED  BY <1>1, <1>11, <2>1, <2>2
<1> QED  BY <1>10, <1>11

-----------------------------------------------------------------------------
(* The steps.                                                               *)

LEMMA VerdictStarts == InitVerdict => VerdictInv
<1>1. SUFFICES ASSUME InitVerdict PROVE VerdictInv
  OBVIOUS
<1>2. /\ seen \in Loads
      /\ find = [pc |-> "load", status |-> "none", ranked |-> <<>>, matches |-> <<>>,
                 code |-> <<>>, target |-> 0, verify |-> "none"]
      /\ replay = [pc |-> "idle", reply |-> NoReply, read |-> 0, received |-> 0, decoded |-> 0, flaw |-> "none"]
  BY <1>1 DEF InitVerdict
<1>3. find \in Finds
  BY <1>2 DEF Finds, Outcome
<1>4. replay \in Replays
  BY <1>2 DEF Replays
<1>5. NotListed
  BY <1>2 DEF NotListed
<1>6. Exchange
  BY <1>2 DEF Exchange
<1>7. Within
  BY <1>2, VerdictAssumption DEF Within
<1>8. VerdictSays
  BY <1>2 DEF VerdictSays
<1> QED  BY <1>2, <1>3, <1>4, <1>5, <1>6, <1>7, <1>8 DEF VerdictInv

\* What depends only on what was seen.
LEMMA SeenStays ==
  ASSUME UNCHANGED seen
  PROVE  /\ RankedMatches' = RankedMatches /\ TopMatches' = TopMatches /\ FirstCode' = FirstCode
         /\ (\A m : Target(m)' = Target(m))
         /\ (\A a, b : GetsCode(a, b)' = GetsCode(a, b))
         /\ (\A i : Found(seen[i])' = Found(seen[i]))
<1>1. RankedMatches' = RankedMatches
  BY DEF RankedMatches, InLine, Outranks, RankKey, HasAll, Weak, Billed, Bit, Kept, Matched, OfNetwork, SameResource,
         Found, As, CountsAsMatch
<1>2. TopMatches' = TopMatches
  BY <1>1 DEF TopMatches, Most, MatchOf, Ineligible, Succeeded
<1>3. ASSUME NEW a, NEW b PROVE GetsCode(a, b)' = GetsCode(a, b)
  BY DEF GetsCode, HasAll, Found, As, CountsAsMatch
<1>4. FirstCode' = FirstCode
  BY <1>2 DEF FirstCode, Earns, GetsCode, HasAll, Found, As, CountsAsMatch, InLine, Eligible
<1>5. ASSUME NEW m PROVE Target(m)' = Target(m)
  BY DEF Target, FirstOf, Eligible, ReplayCandidate, HasAll, Found, As, CountsAsMatch, Succeeded
<1>6. ASSUME NEW i PROVE Found(seen[i])' = Found(seen[i])
  BY DEF Found, As, CountsAsMatch
<1> QED  BY <1>1, <1>2, <1>3, <1>4, <1>5, <1>6

LEMMA NothingToSearchKeeps == VerdictInv /\ NothingToSearch => VerdictInv'
<1>1. SUFFICES ASSUME VerdictInv, NothingToSearch PROVE VerdictInv'
  OBVIOUS
<1>2. PICK status \in {"error", "blocked"} :
        find' = [find EXCEPT !.pc = "end", !.status = status, !.verify = "not_tested"]
  BY <1>1 DEF NothingToSearch
<1>3. /\ UNCHANGED <<seen, replay>> /\ find.pc = "load" /\ find \in Finds /\ NotListed /\ Exchange /\ Within
      /\ seen \in Loads /\ replay \in Replays
  BY <1>1 DEF NothingToSearch, VerdictInv
<1>4. /\ find'.pc = "end" /\ find'.status = status /\ find'.verify = "not_tested" /\ find'.ranked = find.ranked
      /\ find'.matches = find.matches /\ find'.code = find.code /\ find'.target = find.target /\ find' \in Finds
  BY <1>2, <1>3 DEF Finds, Outcome
<1>5. NotListed'
  BY <1>2, <1>3, <1>4 DEF NotListed
<1>6. Exchange'
  <2>1. find.target = 0 /\ replay.pc = "idle"
    BY <1>3 DEF NotListed, Exchange
  <2> QED  BY <1>3, <1>4, <2>1 DEF Exchange
<1>7. Within'
  BY <1>3 DEF Within
<1>8. VerdictSays'
  BY <1>4 DEF VerdictSays
<1> QED  BY <1>3, <1>4, <1>5, <1>6, <1>7, <1>8 DEF VerdictInv

LEMMA ListsKeeps == VerdictInv /\ Lists => VerdictInv'
<1>1. SUFFICES ASSUME VerdictInv, Lists PROVE VerdictInv'
  OBVIOUS
<1>2. /\ UNCHANGED <<seen, replay>> /\ find.pc = "load" /\ find \in Finds /\ NotListed /\ Exchange /\ Within
      /\ seen \in Loads /\ replay \in Replays /\ VerdictSays
  BY <1>1 DEF Lists, VerdictInv
<1>3. find' = [find EXCEPT !.pc = "listed", !.ranked = RankedMatches, !.matches = TopMatches,
                           !.status = IF TopMatches = <<>> THEN "not_found" ELSE "found", !.code = FirstCode]
  BY <1>1 DEF Lists, TopMatches, Most, FirstCode, Earns
<1>4. PICK ranked \in Seq(Nat) : ranked = RankedMatches
  <2>1. \A i \in Kept : i \in Nat
    BY <1>2, SeenIs
  <2>2. RankedMatches \in Seq(Kept)
    BY <1>2, RankedLength
  <2> QED  BY <2>1, <2>2
<1>5. PICK matches \in Seq([obs : Nat, reason : Reasons]) : matches = TopMatches
  BY <1>2, TopMatchesAre
<1>6. PICK code \in Seq(Nat) : code = FirstCode
  <2> DEFINE S == {k \in DOMAIN TopMatches : Earns(k)}
  <2>1. S \subseteq DOMAIN TopMatches /\ DOMAIN TopMatches \subseteq Nat /\ IsFiniteSet(DOMAIN TopMatches)
    BY <1>2, TopMatchesAre
  <2> HIDE DEF S
  <2>2. S \in SUBSET Nat /\ IsFiniteSet(S)
    BY <2>1, FS_Subset
  <2>3. InLine(S, <) \in Seq(Nat)
    BY <2>2, InLineIsSeq
  <2> QED  BY <2>3 DEF S, FirstCode
<1>7. /\ find'.pc = "listed" /\ find'.ranked = ranked /\ find'.matches = matches /\ find'.code = code
      /\ find'.status = (IF TopMatches = <<>> THEN "not_found" ELSE "found")
      /\ find'.target = find.target /\ find'.verify = find.verify /\ find' \in Finds
  BY <1>2, <1>3, <1>4, <1>5, <1>6 DEF Finds
<1>8. find.verify = "none" /\ find.target = 0 /\ replay.pc = "idle"
  BY <1>1, <1>2 DEF VerdictInv, NotListed, Exchange
<1>9. AsListed'
  <2>1. RankedMatches' = RankedMatches /\ TopMatches' = TopMatches /\ FirstCode' = FirstCode
    BY <1>2, SeenStays
  <2> QED  BY <1>4, <1>5, <1>6, <1>7, <1>8, <2>1 DEF AsListed
<1>10. Exchange'
  BY <1>2, <1>7, <1>8 DEF Exchange
<1>11. Within'
  BY <1>2 DEF Within
<1>12. VerdictSays'
  BY <1>7, <1>8 DEF VerdictSays
<1> QED  BY <1>2, <1>7, <1>8, <1>9, <1>10, <1>11, <1>12 DEF VerdictInv

LEMMA NotSentKeeps == VerdictInv /\ NotSent => VerdictInv'
<1>1. SUFFICES ASSUME VerdictInv, NotSent PROVE VerdictInv'
  OBVIOUS
<1>2. /\ UNCHANGED <<seen, replay>> /\ find.pc = "listed" /\ find \in Finds /\ AsListed /\ Exchange /\ Within
      /\ seen \in Loads /\ replay \in Replays /\ find.target = 0
      /\ find' = [find EXCEPT !.pc = "end", !.verify = "not_tested"]
  BY <1>1 DEF NotSent, VerdictInv
<1>3. /\ find'.pc = "end" /\ find'.status = find.status /\ find'.verify = "not_tested" /\ find'.ranked = find.ranked
      /\ find'.matches = find.matches /\ find'.code = find.code /\ find'.target = find.target /\ find' \in Finds
  BY <1>2 DEF Finds, Outcome
<1>4. AsListed'
  <2>1. RankedMatches' = RankedMatches /\ TopMatches' = TopMatches /\ FirstCode' = FirstCode
    BY <1>2, SeenStays
  <2> QED  BY <1>2, <1>3, <2>1 DEF AsListed
<1>5. Exchange'
  BY <1>2, <1>3 DEF Exchange
<1>6. Within'
  BY <1>2 DEF Within
<1>7. VerdictSays'
  BY <1>3 DEF VerdictSays
<1> QED  BY <1>2, <1>3, <1>4, <1>5, <1>6, <1>7 DEF VerdictInv

LEMMA SendsKeeps == VerdictInv /\ Sends => VerdictInv'
<1>1. SUFFICES ASSUME VerdictInv, Sends PROVE VerdictInv'
  OBVIOUS
<1>2. /\ UNCHANGED seen /\ find.pc = "listed" /\ find \in Finds /\ AsListed /\ Exchange /\ Within
      /\ seen \in Loads /\ replay \in Replays /\ find.target = 0 /\ find.verify = "none"
      /\ Target(find.matches) # 0
      /\ find' = [find EXCEPT !.pc = "replaying", !.target = Target(find.matches)]
      /\ replay' = [replay EXCEPT !.pc = "sent"]
  BY <1>1 DEF Sends, VerdictInv
<1>3. PICK t \in Nat \ {0} : t = Target(TopMatches)
  <2>1. find.matches = TopMatches
    BY <1>2 DEF AsListed
  <2>2. DOMAIN TopMatches \subseteq Nat \ {0}
    BY <1>2, TopMatchesAre
  <2> QED  BY <1>2, <2>1, <2>2, TargetIs
<1>4. /\ find'.pc = "replaying" /\ find'.status = find.status /\ find'.verify = "none" /\ find'.ranked = find.ranked
      /\ find'.matches = find.matches /\ find'.code = find.code /\ find'.target = t /\ find' \in Finds
  BY <1>2, <1>3 DEF Finds, AsListed
<1>5. /\ replay'.pc = "sent" /\ replay' \in Replays /\ replay'.decoded = replay.decoded /\ replay'.received = replay.received
      /\ replay'.flaw = replay.flaw
  BY <1>2 DEF Replays
<1>6. RankedMatches' = RankedMatches /\ TopMatches' = TopMatches /\ FirstCode' = FirstCode /\ Target(TopMatches)' = Target(TopMatches)
  <2>1. RankedMatches' = RankedMatches /\ TopMatches' = TopMatches /\ FirstCode' = FirstCode
    BY <1>2, SeenStays
  <2>2. PICK s : s = TopMatches
    OBVIOUS
  <2>3. Target(s)' = Target(s)
    BY <1>2, SeenStays
  <2> QED  BY <2>1, <2>2, <2>3
<1>7. AsListed'
  BY <1>2, <1>4, <1>6 DEF AsListed
<1>8. Exchange'
  BY <1>2, <1>3, <1>4, <1>5, <1>6 DEF Exchange
<1>9. Within'
  BY <1>2, <1>5 DEF Within, Exchange
<1>10. VerdictSays'
  BY <1>4 DEF VerdictSays
<1> QED  BY <1>2, <1>4, <1>5, <1>7, <1>8, <1>9, <1>10 DEF VerdictInv

\* The replay goes on.
LEMMA ReplayGoesOn ==
  ASSUME VerdictInv, UNCHANGED <<seen, find>>, find.pc = "replaying", replay' \in Replays,
         replay'.pc \in {"sent", "reading", "read"}, replay'.reply \in Replies,
         replay'.reply.by # "site" => ~seen[TopMatches[find.target].obs].https, Within'
  PROVE  VerdictInv'
<1>1. /\ find \in Finds /\ AsListed /\ Exchange /\ seen \in Loads /\ find.verify = "none"
  BY DEF VerdictInv
<1>2. RankedMatches' = RankedMatches /\ TopMatches' = TopMatches /\ FirstCode' = FirstCode /\ Target(TopMatches)' = Target(TopMatches)
  <2>1. RankedMatches' = RankedMatches /\ TopMatches' = TopMatches /\ FirstCode' = FirstCode
    BY SeenStays
  <2>2. PICK s : s = TopMatches
    OBVIOUS
  <2>3. Target(s)' = Target(s)
    BY SeenStays
  <2> QED  BY <2>1, <2>2, <2>3
<1>3. AsListed'
  BY <1>1, <1>2 DEF AsListed
<1>4. Exchange'
  BY <1>1, <1>2 DEF Exchange
<1>5. VerdictSays'
  BY <1>1 DEF VerdictSays
<1> QED  BY <1>1, <1>3, <1>4, <1>5 DEF VerdictInv

LEMMA HeadArrivesKeeps == VerdictInv /\ HeadArrives => VerdictInv'
<1>1. SUFFICES ASSUME VerdictInv, HeadArrives PROVE VerdictInv'
  OBVIOUS
<1>2. /\ UNCHANGED <<seen, find>> /\ replay.pc = "sent" /\ replay \in Replays /\ AsListed /\ Exchange /\ Within
  BY <1>1 DEF HeadArrives, VerdictInv, Exchange
<1>3. find.pc = "replaying"
  BY <1>2 DEF Exchange
<1>4. PICK r \in Replies :
        /\ r.by # "site" => ~Replayed.https
        /\ replay' = [replay EXCEPT !.pc = "reading", !.reply = r,
                                    !.flaw = IF Succeeded(r.status) /\ r.coding = "other" THEN "coding" ELSE "none"]
  BY <1>1 DEF HeadArrives
<1>5. Replayed = seen[TopMatches[find.target].obs]
  BY <1>2 DEF Replayed, TargetOf, AsListed
<1>6. /\ replay'.pc = "reading" /\ replay'.reply = r /\ replay' \in Replays
      /\ replay'.decoded = replay.decoded /\ replay'.received = replay.received
  BY <1>2, <1>4 DEF Replays
<1>7. Within'
  BY <1>2, <1>6, VerdictAssumption DEF Within
<1> QED  BY <1>1, <1>2, <1>3, <1>4, <1>5, <1>6, <1>7, ReplayGoesOn

LEMMA ChunkKeeps == VerdictInv /\ Chunk => VerdictInv'
<1>1. SUFFICES ASSUME VerdictInv, Chunk PROVE VerdictInv'
  OBVIOUS
<1>2. /\ UNCHANGED <<seen, find>> /\ replay.pc = "reading" /\ replay \in Replays /\ Exchange /\ Within
      /\ replay.read < Len(replay.reply.chunks)
  <2>1. UNCHANGED <<seen, find>> /\ replay.pc = "reading" /\ replay.read < Len(replay.reply.chunks)
    BY <1>1 DEF Chunk
  <2> QED  BY <1>1, <2>1 DEF VerdictInv
<1>3. /\ find.pc = "replaying" /\ replay.reply \in Replies
      /\ replay.reply.by # "site" => ~seen[TopMatches[find.target].obs].https
  BY <1>2 DEF Exchange
<1>4. PICK c \in [raw : Nat, out : Nat, bad : BOOLEAN] : c = replay.reply.chunks[replay.read + 1]
  <2>1. replay.reply \in Answers
    BY <1>3, VerdictAssumption
  <2>2. replay.reply.chunks \in Seq([raw : Nat, out : Nat, bad : BOOLEAN])
    BY <2>1 DEF Answers
  <2>3. replay.read \in Nat
    BY <1>2 DEF Replays
  <2>4. replay.read + 1 \in 1 .. Len(replay.reply.chunks)
    BY <1>2, <2>2, <2>3
  <2>5. PICK n \in 1 .. Len(replay.reply.chunks) : n = replay.read + 1
    BY <2>4
  <2>6. replay.reply.chunks[n] \in [raw : Nat, out : Nat, bad : BOOLEAN]
    <3> DEFINE T == [raw : Nat, out : Nat, bad : BOOLEAN]
    <3>1. PICK chunks \in Seq(T) : chunks = replay.reply.chunks
      BY <2>2
    <3> HIDE DEF T
    <3>2. chunks[n] \in T
      BY <2>5, <3>1
    <3> QED  BY <3>1, <3>2 DEF T
  <2> QED  BY <2>5, <2>6
<1>5. PICK received \in Nat : received = replay.received + c.raw
  <2>1. replay.received \in Nat /\ c.raw \in Nat
    BY <1>2 DEF Replays
  <2> QED  BY <2>1
<1>6. PICK decoded \in Nat : /\ decoded = replay.decoded + (IF c.out > BodyCap - replay.decoded + 1 THEN BodyCap - replay.decoded + 1 ELSE c.out)
                             /\ decoded <= BodyCap + 1
  <2>1. replay.decoded \in Nat /\ replay.decoded <= BodyCap + 1 /\ BodyCap \in Nat /\ c.out \in Nat
    BY <1>2, VerdictAssumption DEF Replays, Within
  <2> QED  BY <2>1
<1>7. PICK decodes \in BOOLEAN : decodes = (Succeeded(replay.reply.status) /\ replay.flaw = "none")
  OBVIOUS
<1>8. PICK read : read = [replay EXCEPT !.read = @ + 1, !.received = received]
  OBVIOUS
<1>9. replay' = IF received > BodyCap     THEN [read EXCEPT !.pc = "read", !.flaw = IF @ = "none" THEN "over cap" ELSE @]
                ELSE IF ~decodes          THEN read
                ELSE IF c.bad             THEN [read EXCEPT !.pc = "read", !.flaw = "coding"]
                ELSE IF decoded > BodyCap THEN [read EXCEPT !.pc = "read", !.flaw = "over cap", !.decoded = decoded]
                ELSE [read EXCEPT !.decoded = decoded]
  BY <1>1, <1>4, <1>5, <1>6, <1>7, <1>8 DEF Chunk
<1>10. /\ read \in Replays /\ read.pc = "reading" /\ read.reply = replay.reply /\ read.received = received
       /\ read.decoded = replay.decoded /\ read.flaw = replay.flaw
  <2>1. PICK n \in Nat : n = replay.read + 1
    <3>1. replay.read \in Nat
      BY <1>2 DEF Replays
    <3> QED  BY <3>1
  <2>2. read = [replay EXCEPT !.read = n, !.received = received]
    BY <1>8, <2>1
  <2> QED  BY <1>2, <2>2 DEF Replays
<1>11. /\ replay' \in Replays /\ replay'.pc \in {"reading", "read"} /\ replay'.reply = replay.reply
  BY <1>9, <1>10 DEF Replays
<1>12. Within'
  <2>1. /\ replay.decoded \in Nat /\ replay.decoded <= BodyCap + 1 /\ BodyCap \in Nat
        /\ replay.flaw = "none" => replay.decoded <= BodyCap
    BY <1>2, VerdictAssumption DEF Replays, Within
  <2>2. CASE received > BodyCap
    <3>1. replay' = [read EXCEPT !.pc = "read", !.flaw = IF @ = "none" THEN "over cap" ELSE @]
      BY <1>9, <2>2
    <3>2. replay'.decoded = replay.decoded /\ replay'.flaw # "none"
      BY <1>10, <3>1 DEF Replays
    <3> QED  BY <1>11, <2>1, <3>2 DEF Within
  <2>3. CASE ~(received > BodyCap) /\ ~decodes
    <3>1. replay' = read
      BY <1>9, <2>3
    <3> QED  BY <1>10, <2>1, <2>3, <3>1 DEF Within
  <2>4. CASE ~(received > BodyCap) /\ decodes /\ c.bad
    <3>1. replay' = [read EXCEPT !.pc = "read", !.flaw = "coding"]
      BY <1>9, <2>4
    <3>2. replay'.decoded = replay.decoded /\ replay'.flaw # "none"
      BY <1>10, <3>1 DEF Replays
    <3> QED  BY <1>11, <2>1, <3>2 DEF Within
  <2>5. CASE ~(received > BodyCap) /\ decodes /\ ~c.bad /\ decoded > BodyCap
    <3>1. replay' = [read EXCEPT !.pc = "read", !.flaw = "over cap", !.decoded = decoded]
      BY <1>9, <2>5
    <3>2. replay'.decoded = decoded /\ replay'.flaw # "none"
      BY <1>10, <3>1 DEF Replays
    <3> QED  BY <1>6, <1>11, <3>2 DEF Within
  <2>6. CASE ~(received > BodyCap) /\ decodes /\ ~c.bad /\ ~(decoded > BodyCap)
    <3>1. replay' = [read EXCEPT !.decoded = decoded]
      BY <1>9, <2>6
    <3>2. replay'.decoded = decoded /\ replay'.received = received
      BY <1>10, <3>1 DEF Replays
    <3> QED  BY <1>6, <1>11, <2>1, <2>6, <3>2 DEF Within
  <2> QED  BY <2>2, <2>3, <2>4, <2>5, <2>6
<1> QED  BY <1>1, <1>2, <1>3, <1>11, <1>12, ReplayGoesOn

LEMMA WholeBodyKeeps == VerdictInv /\ WholeBody => VerdictInv'
<1>1. SUFFICES ASSUME VerdictInv, WholeBody PROVE VerdictInv'
  OBVIOUS
<1>2. /\ UNCHANGED <<seen, find>> /\ replay.pc = "reading" /\ replay \in Replays /\ Exchange /\ Within
      /\ replay' = [replay EXCEPT !.pc = "read"]
  BY <1>1 DEF WholeBody, VerdictInv
<1>3. /\ find.pc = "replaying" /\ replay.reply \in Replies
      /\ replay.reply.by # "site" => ~seen[TopMatches[find.target].obs].https
  BY <1>2 DEF Exchange
<1>4. /\ replay' \in Replays /\ replay'.pc = "read" /\ replay'.reply = replay.reply /\ replay'.flaw = replay.flaw
      /\ replay'.received = replay.received /\ replay'.decoded = replay.decoded
  BY <1>2 DEF Replays
<1>5. Within'
  BY <1>2, <1>4 DEF Within
<1> QED  BY <1>1, <1>2, <1>3, <1>4, <1>5, ReplayGoesOn

\* What is judged is what the site said.
LEMMA JudgedIsOfTheSite ==
  ASSUME VerdictInv, replay.pc = "read"
  PROVE  /\ Judged \in Outcome
         /\ Judged \in {"yes", "no"} => replay.reply.by = "site"
         /\ Judged = "yes" =>
              /\ replay.flaw = "none"
              /\ Found(seen[TopMatches[find.target].obs]) \subseteq As(replay.reply.kinds, CountsAsMatch)
<1>1. /\ replay.reply \in Replies /\ find.pc = "replaying"
      /\ replay.reply.by # "site" => ~seen[TopMatches[find.target].obs].https
  BY DEF VerdictInv, Exchange
<1>2. Replayed = seen[TopMatches[find.target].obs]
  BY <1>1 DEF VerdictInv, AsListed, Replayed, TargetOf
<1>3. replay.reply \in Answers /\ IsReply(replay.reply)
  BY <1>1, VerdictAssumption
<1>4. Judged \in Outcome
  BY DEF Judged, Outcome
<1>5. ASSUME replay.reply.by # "site" PROVE Judged = "not_tested"
  <2>1. replay.reply.by \in {"meter", "proxy"} /\ ~Replayed.https
    BY <1>1, <1>2, <1>3, <1>5 DEF Answers
  <2> QED  BY <1>3, <2>1 DEF Judged, IsReply
<1>6. ASSUME Judged = "yes"
      PROVE  replay.flaw = "none" /\ Found(seen[TopMatches[find.target].obs]) \subseteq As(replay.reply.kinds, CountsAsMatch)
  <2>1. replay.flaw = "none" /\ Returns
    BY <1>6 DEF Judged
  <2> QED  BY <1>2, <2>1 DEF Returns
<1> QED  BY <1>4, <1>5, <1>6

\* The end of the replay, whatever it says.
LEMMA ConcludesKeeps ==
  ASSUME VerdictInv, NEW verdict \in Outcome, verdict # "none", find.pc = "replaying", Concludes(verdict),
         verdict \in {"yes", "no"} => replay.reply.by = "site",
         verdict = "yes" => /\ replay.flaw = "none"
                            /\ Found(seen[TopMatches[find.target].obs]) \subseteq As(replay.reply.kinds, CountsAsMatch)
  PROVE  VerdictInv'
<1>1. /\ UNCHANGED seen /\ seen \in Loads /\ find \in Finds /\ replay \in Replays /\ AsListed /\ Exchange /\ Within
      /\ find.target # 0 /\ find.target = Target(TopMatches) /\ replay' = [replay EXCEPT !.pc = "end"]
  <2>1. UNCHANGED seen /\ replay' = [replay EXCEPT !.pc = "end"]
    BY DEF Concludes
  <2>2. /\ seen \in Loads /\ find \in Finds /\ replay \in Replays /\ AsListed /\ Exchange /\ Within
    BY DEF VerdictInv
  <2>3. find.target # 0 /\ find.target = Target(TopMatches)
    BY <2>2 DEF Exchange
  <2> QED  BY <2>1, <2>2, <2>3
<1>2. PICK t \in DOMAIN TopMatches : t = find.target
  <2>1. DOMAIN TopMatches \subseteq Nat \ {0}
    BY <1>1, TopMatchesAre
  <2> QED  BY <1>1, <2>1, TargetIs
<1>3. /\ find.matches = TopMatches /\ find.code = FirstCode /\ TargetOf = TopMatches[t]
  BY <1>1, <1>2 DEF AsListed, TargetOf
<1>4. RankedMatches' = RankedMatches /\ TopMatches' = TopMatches /\ FirstCode' = FirstCode /\ Target(TopMatches)' = Target(TopMatches)
  <2>1. RankedMatches' = RankedMatches /\ TopMatches' = TopMatches /\ FirstCode' = FirstCode
    BY <1>1, SeenStays
  <2>2. PICK s : s = TopMatches
    OBVIOUS
  <2>3. Target(s)' = Target(s)
    BY <1>1, SeenStays
  <2> QED  BY <2>1, <2>2, <2>3
<1>5. GetsCode(TopMatches, TopMatches[t])' = GetsCode(TopMatches, TopMatches[t])
  <2>1. PICK s, m : s = TopMatches /\ m = TopMatches[t]
    OBVIOUS
  <2>2. GetsCode(s, m)' = GetsCode(s, m)
    BY <1>1, SeenStays
  <2> QED  BY <1>4, <2>1, <2>2
<1>6. /\ replay' \in Replays /\ replay'.pc = "end" /\ replay'.reply = replay.reply /\ replay'.flaw = replay.flaw
      /\ replay'.received = replay.received /\ replay'.decoded = replay.decoded
  BY <1>1 DEF Replays
<1>7. PICK done \in Finds : done = [find EXCEPT !.pc = "end", !.verify = verdict]
  BY <1>1 DEF Finds
<1>8. /\ done.pc = "end" /\ done.verify = verdict /\ done.ranked = find.ranked /\ done.matches = find.matches
      /\ done.code = find.code /\ done.target = t /\ done.status = find.status
  BY <1>1, <1>2, <1>7 DEF Finds
<1>9. find' = IF verdict # "yes" \/ Eligible(TargetOf) THEN done
              ELSE [done EXCEPT
                      !.matches[find.target].reason = "none",
                      !.code = IF GetsCode(find.matches, TargetOf) THEN InLine(Listed(@) \cup {find.target}, <) ELSE @]
  BY <1>7 DEF Concludes
<1>10. Within'
  BY <1>1, <1>6 DEF Within
<1>11. ASSUME find'.pc = "end", find'.verify = verdict, find'.target = t PROVE Exchange' /\ VerdictSays'
  <2>1. Exchange'
    BY <1>1, <1>2, <1>4, <1>6, <1>11 DEF Exchange
  <2>2. \A i : Found(seen[i])' = Found(seen[i])
    BY <1>1, SeenStays
  <2>3. As(replay.reply.kinds, CountsAsMatch)' = As(replay.reply.kinds, CountsAsMatch)
    BY <1>6 DEF As, CountsAsMatch
  <2>4. PICK i : i = TopMatches[t].obs
    OBVIOUS
  <2>5. VerdictSays'
    BY <1>2, <1>4, <1>6, <1>11, <2>2, <2>3, <2>4 DEF VerdictSays
  <2> QED  BY <2>1, <2>5
<1>12. CASE verdict # "yes" \/ Eligible(TargetOf)
  <2>1. find' = done
    BY <1>9, <1>12
  <2>2. AsListed'
    BY <1>1, <1>2, <1>3, <1>4, <1>8, <1>12, <2>1 DEF AsListed, Eligible
  <2>3. Exchange' /\ VerdictSays'
    BY <1>8, <1>11, <2>1
  <2> QED  BY <1>1, <1>6, <1>7, <1>8, <1>10, <2>1, <2>2, <2>3 DEF VerdictInv
<1>13. CASE verdict = "yes" /\ ~Eligible(TargetOf)
  <2>1. PICK code : code = IF GetsCode(TopMatches, TopMatches[t]) THEN InLine(Listed(FirstCode) \cup {t}, <) ELSE FirstCode
    OBVIOUS
  <2>2. PICK matches : matches = [TopMatches EXCEPT ![t].reason = "none"]
    OBVIOUS
  <2>3. find' = [done EXCEPT !.matches = matches, !.code = code]
    <3>1. find' = [done EXCEPT !.matches[t].reason = "none",
                               !.code = IF GetsCode(TopMatches, TopMatches[t]) THEN InLine(Listed(@) \cup {t}, <) ELSE @]
      BY <1>2, <1>3, <1>9, <1>13
    <3>2. done.matches = TopMatches /\ done.code = FirstCode
      BY <1>3, <1>8
    <3> QED  BY <1>7, <2>1, <2>2, <3>1, <3>2 DEF Finds
  <2>4. code \in Seq(Nat)
    <3> DEFINE S == Listed(FirstCode) \cup {t}
    <3>1. Listed(FirstCode) \subseteq DOMAIN TopMatches /\ DOMAIN TopMatches \subseteq Nat /\ IsFiniteSet(DOMAIN TopMatches)
      BY <1>1, CodeIs, TopMatchesAre DEF Rising
    <3>2. S \subseteq DOMAIN TopMatches
      BY <3>1
    <3> HIDE DEF S
    <3>3. S \in SUBSET Nat /\ IsFiniteSet(S)
      BY <3>1, <3>2, FS_Subset
    <3>4. InLine(S, <) \in Seq(Nat)
      BY <3>3, InLineIsSeq
    <3>5. FirstCode \in Seq(Nat)
      BY <1>1, <1>3 DEF Finds
    <3> QED  BY <2>1, <3>4, <3>5 DEF S
  <2>5. matches \in Seq([obs : Nat, reason : Reasons])
    <3> DEFINE T == [obs : Nat, reason : Reasons]
               x == [TopMatches[t] EXCEPT !.reason = "none"]
    <3>1. matches = [TopMatches EXCEPT ![t] = x]
      BY <2>2
    <3>2. x \in T
      BY <1>1, <1>2, TopMatchesAre DEF Reasons
    <3>3. PICK s \in Seq(T) : s = TopMatches
      BY <1>1, TopMatchesAre
    <3> HIDE DEF T, x
    <3>4. [s EXCEPT ![t] = x] \in Seq(T)
      BY <1>2, <3>2, <3>3
    <3> QED  BY <3>1, <3>3, <3>4 DEF T
  <2>6. /\ find' \in Finds /\ find'.pc = "end" /\ find'.verify = "yes" /\ find'.target = t /\ find'.ranked = find.ranked
        /\ find'.status = find.status /\ find'.matches = matches /\ find'.code = code
    BY <1>7, <1>8, <1>13, <2>3, <2>4, <2>5 DEF Finds
  <2>7. OneProven'
    BY <1>1, <1>2, <1>4, <1>5, <2>1, <2>2, <2>6 DEF AsListed, OneProven, InLine, Listed
  <2>8. Exchange' /\ VerdictSays'
    BY <1>11, <1>13, <2>6
  <2> QED  BY <1>1, <1>6, <1>10, <2>6, <2>7, <2>8 DEF VerdictInv
<1> QED  BY <1>12, <1>13

LEMMA VerdictStep == VerdictInv /\ [NextVerdict]_verdictVars => VerdictInv'
<1>1. SUFFICES ASSUME VerdictInv, [NextVerdict]_verdictVars PROVE VerdictInv'
  OBVIOUS
<1>2. CASE NothingToSearch BY <1>1, <1>2, NothingToSearchKeeps
<1>3. CASE Lists BY <1>1, <1>3, ListsKeeps
<1>4. CASE NotSent BY <1>1, <1>4, NotSentKeeps
<1>5. CASE Sends BY <1>1, <1>5, SendsKeeps
<1>6. CASE HeadArrives BY <1>1, <1>6, HeadArrivesKeeps
<1>7. CASE Chunk BY <1>1, <1>7, ChunkKeeps
<1>8. CASE WholeBody BY <1>1, <1>8, WholeBodyKeeps
<1>9. CASE Verifies
  <2>1. replay.pc = "read" /\ Concludes(Judged)
    BY <1>9 DEF Verifies
  <2>2. find.pc = "replaying"
    BY <1>1, <2>1 DEF VerdictInv, Exchange
  <2>3. PICK verdict \in Outcome : verdict = Judged
    BY <1>1, <2>1, JudgedIsOfTheSite
  <2>4. verdict # "none"
    BY <2>3 DEF Judged
  <2> QED  BY <1>1, <2>1, <2>2, <2>3, <2>4, JudgedIsOfTheSite, ConcludesKeeps
<1>10. CASE GivenUp
  <2>1. find.pc = "replaying" /\ Concludes("not_tested")
    BY <1>1, <1>10 DEF GivenUp, VerdictInv, Exchange
  <2>2. "not_tested" \in Outcome
    BY DEF Outcome
  <2> QED  BY <1>1, <2>1, <2>2, ConcludesKeeps
<1>11. CASE UNCHANGED verdictVars
  <2>1. UNCHANGED <<seen, find, replay>>
    BY <1>11 DEF verdictVars
  <2>2. /\ RankedMatches' = RankedMatches /\ TopMatches' = TopMatches /\ FirstCode' = FirstCode
        /\ (\A m : Target(m)' = Target(m)) /\ (\A a, b : GetsCode(a, b)' = GetsCode(a, b))
        /\ (\A i : Found(seen[i])' = Found(seen[i]))
    BY <2>1, SeenStays
  <2>3. PICK s, m : s = TopMatches /\ m = TopMatches[find.target]
    OBVIOUS
  <2>4. Target(TopMatches)' = Target(TopMatches) /\ GetsCode(TopMatches, TopMatches[find.target])' = GetsCode(TopMatches, TopMatches[find.target])
    BY <2>1, <2>2, <2>3
  <2>5. NotListed' = NotListed
    BY <2>1 DEF NotListed
  <2>6. AsListed => AsListed'
    BY <2>1, <2>2 DEF AsListed, Eligible
  <2>7. OneProven => OneProven'
    BY <2>1, <2>2, <2>4 DEF OneProven, InLine, Listed
  <2>8. Exchange'
    BY <1>1, <2>1, <2>2, <2>4 DEF Exchange, VerdictInv
  <2>9. Within'
    BY <1>1, <2>1 DEF Within, VerdictInv
  <2>10. VerdictSays'
    <3>1. As(replay.reply.kinds, CountsAsMatch)' = As(replay.reply.kinds, CountsAsMatch)
      BY <2>1 DEF As, CountsAsMatch
    <3>2. PICK i : i = TopMatches[find.target].obs
      OBVIOUS
    <3> QED  BY <1>1, <2>1, <2>2, <3>1, <3>2 DEF VerdictSays, VerdictInv
  <2> QED  BY <1>1, <2>1, <2>5, <2>6, <2>7, <2>8, <2>9, <2>10 DEF VerdictInv
<1> QED  BY <1>1, <1>2, <1>3, <1>4, <1>5, <1>6, <1>7, <1>8, <1>9, <1>10, <1>11 DEF NextVerdict

-----------------------------------------------------------------------------
(* What it is for.                                                          *)

\* What one listed match needs to have its starter code.
CodeIsRight ==
  /\ \A n \in DOMAIN find.code :
       /\ find.code[n] \in DOMAIN TopMatches
       /\ Stateless(seen[TopMatches[find.code[n]].obs]) \/ Proved(find.code[n])
       /\ GetsCode(TopMatches, TopMatches[find.code[n]])
  /\ \A a, b \in DOMAIN find.code : a < b => find.code[a] < find.code[b]
  /\ \E m \in Nat : DOMAIN find.code = 1 .. m
  /\ \A k \in DOMAIN TopMatches : find.matches[k].obs = TopMatches[k].obs
  /\ DOMAIN find.matches = DOMAIN TopMatches
  /\ \A k \in DOMAIN TopMatches : Eligible(find.matches[k]) => Stateless(seen[TopMatches[k].obs]) \/ Proved(k)
  /\ find.ranked = RankedMatches

LEMMA CodeIsRightThen ==
  ASSUME VerdictInv, AsListed \/ OneProven
  PROVE  CodeIsRight
<1>1. seen \in Loads
  BY DEF VerdictInv
<1>2. /\ Rising(FirstCode, {k \in DOMAIN TopMatches : Earns(k)}) /\ DOMAIN TopMatches \subseteq Nat \ {0}
      /\ IsFiniteSet(DOMAIN TopMatches)
  BY <1>1, CodeIs, TopMatchesAre
<1>3. ASSUME NEW n \in DOMAIN FirstCode
      PROVE  /\ FirstCode[n] \in DOMAIN TopMatches /\ Eligible(TopMatches[FirstCode[n]])
             /\ GetsCode(TopMatches, TopMatches[FirstCode[n]])
             /\ Stateless(seen[TopMatches[FirstCode[n]].obs])
  <2>1. FirstCode[n] \in {k \in DOMAIN TopMatches : Earns(k)}
    BY <1>2 DEF Rising, Listed
  <2>2. PICK k \in DOMAIN TopMatches : k = FirstCode[n] /\ Earns(k)
    BY <2>1
  <2>3. Stateless(seen[TopMatches[k].obs])
    BY <1>1, <2>2, EligibleIsStateless DEF Earns
  <2> QED  BY <2>2, <2>3 DEF Earns
<1>4. ASSUME NEW k \in DOMAIN TopMatches, Eligible(TopMatches[k]) PROVE Stateless(seen[TopMatches[k].obs])
  BY <1>1, <1>4, EligibleIsStateless
<1>5. CASE AsListed
  <2>1. find.code = FirstCode /\ find.matches = TopMatches /\ find.ranked = RankedMatches
    BY <1>5 DEF AsListed
  <2>2. (\A a, b \in DOMAIN FirstCode : a < b => FirstCode[a] < FirstCode[b]) /\ \E m \in Nat : DOMAIN FirstCode = 1 .. m
    BY <1>2 DEF Rising
  <2> QED  BY <1>3, <1>4, <2>1, <2>2 DEF CodeIsRight
<1>6. CASE OneProven
  <2>1. PICK t \in DOMAIN TopMatches : t = find.target
    <3>1. find.target # 0 /\ find.target = Target(TopMatches)
      BY <1>6 DEF OneProven, VerdictInv, Exchange
    <3> QED  BY <1>2, <3>1, TargetIs
  <2>2. /\ find.verify = "yes" /\ find.matches = [TopMatches EXCEPT ![t].reason = "none"] /\ find.ranked = RankedMatches
        /\ find.code = IF GetsCode(TopMatches, TopMatches[t]) THEN InLine(Listed(FirstCode) \cup {t}, <) ELSE FirstCode
    BY <1>6, <2>1 DEF OneProven
  <2>3. DOMAIN find.matches = DOMAIN TopMatches /\ \A k \in DOMAIN TopMatches : find.matches[k].obs = TopMatches[k].obs
    <3>1. PICK s \in Seq([obs : Nat, reason : Reasons]) : s = TopMatches
      BY <1>1, TopMatchesAre
    <3>2. DOMAIN find.matches = DOMAIN s
      BY <2>2, <3>1
    <3>3. ASSUME NEW k \in DOMAIN s PROVE find.matches[k].obs = s[k].obs
      <4>1. s[k] \in [obs : Nat, reason : Reasons]
        <5>1. \A i \in DOMAIN TopMatches : TopMatches[i] \in [obs : Nat, reason : Reasons]
          BY <1>1, TopMatchesAre
        <5> QED  BY <3>1, <5>1
      <4>2. CASE k = t BY <2>2, <3>1, <4>1, <4>2
      <4>3. CASE k # t BY <2>2, <3>1, <4>3
      <4> QED  BY <4>2, <4>3
    <3> QED  BY <3>1, <3>2, <3>3
  <2>4. Proved(t)
    <3>1. Replayed = seen[TopMatches[t].obs]
      BY <2>1, <2>3 DEF Replayed, TargetOf
    <3>2. Found(seen[TopMatches[t].obs]) \subseteq As(replay.reply.kinds, CountsAsMatch)
      BY <2>1, <2>2 DEF VerdictInv, VerdictSays
    <3> QED  BY <2>1, <2>2, <3>1, <3>2 DEF Proved
  <2>5. ASSUME NEW k \in DOMAIN TopMatches, Eligible(find.matches[k]) PROVE Stateless(seen[TopMatches[k].obs]) \/ Proved(k)
    <3>1. CASE k = t BY <2>4, <3>1
    <3>2. CASE k # t
      <4>1. find.matches[k] = TopMatches[k]
        BY <2>2, <3>2
      <4> QED  BY <1>4, <2>5, <4>1
    <3> QED  BY <3>1, <3>2
  <2>6. CASE GetsCode(TopMatches, TopMatches[t])
    <3> DEFINE S == Listed(FirstCode) \cup {t}
               line == InLine(S, <)
    <3>1. Listed(FirstCode) \subseteq DOMAIN TopMatches
      BY <1>2 DEF Rising
    <3>2. S \subseteq DOMAIN TopMatches
      BY <3>1
    <3>3. \A k \in S : k \in DOMAIN TopMatches /\ GetsCode(TopMatches, TopMatches[k]) /\ (Stateless(seen[TopMatches[k].obs]) \/ Proved(k))
      <4>1. ASSUME NEW k \in Listed(FirstCode) PROVE k \in DOMAIN TopMatches /\ GetsCode(TopMatches, TopMatches[k]) /\ Stateless(seen[TopMatches[k].obs])
        BY <1>3 DEF Listed
      <4> QED  BY <2>1, <2>4, <2>6, <4>1
    <3> HIDE DEF S
    <3>4. S \in SUBSET Nat /\ IsFiniteSet(S)
      BY <1>2, <3>2, FS_Subset
    <3>5. Rising(line, S)
      BY <3>4, InLineRises
    <3>6. find.code = line
      BY <2>2, <2>6 DEF S
    <3> HIDE DEF line
    <3>7. (\A a, b \in DOMAIN line : a < b => line[a] < line[b]) /\ (\E m \in Nat : DOMAIN line = 1 .. m) /\ \A n \in DOMAIN line : line[n] \in S
      BY <3>5 DEF Rising, Listed
    <3> QED  BY <2>2, <2>3, <2>5, <3>3, <3>6, <3>7 DEF CodeIsRight
  <2>7. CASE ~GetsCode(TopMatches, TopMatches[t])
    <3>1. find.code = FirstCode
      BY <2>2, <2>7
    <3>2. (\A a, b \in DOMAIN FirstCode : a < b => FirstCode[a] < FirstCode[b]) /\ \E m \in Nat : DOMAIN FirstCode = 1 .. m
      BY <1>2 DEF Rising
    <3> QED  BY <1>3, <2>2, <2>3, <2>5, <3>1, <3>2 DEF CodeIsRight
  <2> QED  BY <2>6, <2>7
<1> QED  BY <1>5, <1>6

LEMMA CodeIsEarnedThen == VerdictInv => CodeIsEarned
<1>1. SUFFICES ASSUME VerdictInv PROVE CodeIsEarned
  OBVIOUS
<1>2. seen \in Loads
  BY <1>1 DEF VerdictInv
<1>3. CASE NotListed
  BY <1>3 DEF NotListed, CodeIsEarned
<1>4. CASE AsListed \/ OneProven
  <2>1. CodeIsRight
    BY <1>1, <1>4, CodeIsRightThen
  <2>2. ASSUME NEW n \in DOMAIN find.code
        PROVE  LET k == find.code[n] o == seen[find.matches[k].obs] IN
               /\ Stateless(o) \/ Proved(k)
               /\ HasAll(o) \/ \A i \in Listed(find.ranked) : ~HasAll(seen[i])
               /\ n > 1 => find.code[n - 1] < k
    <3>1. PICK k \in DOMAIN TopMatches : k = find.code[n]
      BY <2>1 DEF CodeIsRight
    <3>2. PICK o : o = seen[TopMatches[k].obs] /\ seen[find.matches[k].obs] = o
      BY <2>1 DEF CodeIsRight
    <3>3. Stateless(o) \/ Proved(k)
      BY <2>1, <3>1, <3>2 DEF CodeIsRight
    <3>4. GetsCode(TopMatches, TopMatches[k])
      BY <2>1, <3>1 DEF CodeIsRight
    <3>5. HasAll(o) \/ \A i \in Kept : ~HasAll(seen[i])
      BY <1>2, <3>2, <3>4, CodeIsForAll
    <3>6. Listed(find.ranked) = Kept
      BY <1>2, <2>1, RankedIs DEF CodeIsRight
    <3>7. n > 1 => find.code[n - 1] < k
      <4>1. PICK m \in Nat : DOMAIN find.code = 1 .. m
        BY <2>1 DEF CodeIsRight
      <4>2. n > 1 => n - 1 \in DOMAIN find.code /\ n - 1 < n
        BY <4>1
      <4> QED  BY <2>1, <3>1, <4>2 DEF CodeIsRight
    <3> QED  BY <3>1, <3>2, <3>3, <3>5, <3>6, <3>7
  <2>3. ASSUME NEW k \in DOMAIN find.matches, Eligible(find.matches[k])
        PROVE  Stateless(seen[find.matches[k].obs]) \/ Proved(k)
    BY <2>1, <2>3 DEF CodeIsRight
  <2> QED  BY <2>2, <2>3 DEF CodeIsEarned
<1> QED  BY <1>1, <1>3, <1>4 DEF VerdictInv

LEMMA VerdictIsOfTheSiteThen == VerdictInv => VerdictIsOfTheSite
<1>1. SUFFICES ASSUME VerdictInv PROVE VerdictIsOfTheSite
  OBVIOUS
<1>2. seen \in Loads /\ Within /\ VerdictSays /\ Exchange
  BY <1>1 DEF VerdictInv
<1>3. find.verify \in {"yes", "no"} => replay.reply.by = "site"
  BY <1>2 DEF VerdictSays
<1>4. find.verify = "yes" => replay.received <= BodyCap /\ replay.decoded <= BodyCap
  BY <1>2 DEF VerdictSays, Within
<1>5. replay.decoded <= BodyCap + 1
  BY <1>2 DEF Within
<1>6. ASSUME find.target # 0 PROVE Target(find.matches) = find.target
  <2>1. find.target = Target(TopMatches)
    BY <1>2, <1>6 DEF Exchange
  <2>2. CASE AsListed
    BY <2>1, <2>2 DEF AsListed
  <2>3. CASE OneProven
    <3>1. DOMAIN TopMatches \subseteq Nat \ {0}
      BY <1>2, TopMatchesAre
    <3>2. /\ find.target \in DOMAIN TopMatches /\ IsWanted(TopMatches[find.target])
          /\ ~Eligible(TopMatches[find.target]) =>
               IsLeast(find.target, {k \in DOMAIN TopMatches : IsWanted(TopMatches[k])})
      BY <1>6, <2>1, <3>1, TargetIs
    <3>3. PICK t \in DOMAIN TopMatches : t = find.target
      BY <3>2
    <3>4. find.matches = [TopMatches EXCEPT ![find.target].reason = "none"]
      BY <2>3 DEF OneProven
    <3>5. PICK matches : matches = [TopMatches EXCEPT ![t].reason = "none"]
      OBVIOUS
    <3>6. matches = find.matches
      BY <3>3, <3>5, <3>4
    <3>7. \A k \in DOMAIN TopMatches : TopMatches[k] \in [obs : Nat, reason : Reasons]
      BY <1>2, TopMatchesAre
    <3>8. Eligible(matches[t]) /\ DOMAIN matches = DOMAIN TopMatches
      BY <3>5, <3>7 DEF Eligible
    <3>9. CASE Eligible(TopMatches[t])
      <4>1. matches = TopMatches
        <5>1. TopMatches[t] = [TopMatches[t] EXCEPT !.reason = "none"]
          BY <3>7, <3>9 DEF Eligible
        <5>2. PICK x : x = TopMatches[t]
          OBVIOUS
        <5>3. matches = [TopMatches EXCEPT ![t] = x]
          BY <3>5, <5>1, <5>2
        <5>4. PICK S : TopMatches \in Seq(S)
          BY <1>2, TopMatchesAre
        <5> QED  BY <5>2, <5>3, <5>4
      <4>2. find.matches = TopMatches
        BY <3>6, <4>1
      <4> QED  BY <2>1, <4>2
    <3>10. CASE ~Eligible(TopMatches[t])
      <4>1. {k \in DOMAIN matches : IsWanted(matches[k])} = {k \in DOMAIN TopMatches : IsWanted(TopMatches[k])}
        <5>1. \A k \in DOMAIN TopMatches : k # t => matches[k] = TopMatches[k]
          BY <3>5
        <5>2. IsWanted(matches[t])
          BY <3>8 DEF IsWanted
        <5>3. IsWanted(TopMatches[t])
          BY <3>3, <3>2
        <5>4. ASSUME NEW k \in DOMAIN TopMatches PROVE IsWanted(matches[k]) <=> IsWanted(TopMatches[k])
          BY <5>1, <5>2, <5>3
        <5> QED  BY <3>8, <5>4
      <4>2. IsLeast(t, {k \in DOMAIN matches : IsWanted(matches[k])})
        BY <3>3, <3>10, <3>2, <4>1
      <4>3. Target(matches) = t
        BY <3>1, <3>8, <4>2, TargetIs
      <4> QED  BY <3>3, <3>6, <4>3
    <3> QED  BY <3>9, <3>10
  <2> QED  BY <1>1, <1>6, <2>2, <2>3 DEF VerdictInv, NotListed
<1> QED  BY <1>3, <1>4, <1>5, <1>6 DEF VerdictIsOfTheSite

LEMMA NothingFoundIsLostThen == VerdictInv => NothingFoundIsLost
<1>1. SUFFICES ASSUME VerdictInv, find.status \in {"found", "not_found"} PROVE
        /\ (find.status = "found") <=> (\E i \in DOMAIN seen : Found(seen[i]) # {})
        /\ \A i \in Matched \ Listed(find.ranked) :
             \E j \in Listed(find.ranked) : OfNetwork(seen[j]) /\ SameResource(i, j)
  BY DEF NothingFoundIsLost
<1>2. /\ seen \in Loads /\ find.ranked = RankedMatches
      /\ find.status = (IF TopMatches = <<>> THEN "not_found" ELSE "found")
  BY <1>1 DEF VerdictInv, NotListed, AsListed, OneProven
<1>3. Listed(find.ranked) = Kept
  BY <1>2, RankedIs
<1>4. ASSUME NEW i \in Matched \ Kept PROVE \E j \in Kept : OfNetwork(seen[j]) /\ SameResource(i, j)
  <2>1. PICK j \in Matched : OfNetwork(seen[j]) /\ SameResource(i, j)
    BY <1>4 DEF Kept
  <2>2. j \in Kept
    BY <2>1 DEF Kept, OfNetwork
  <2> QED  BY <2>1, <2>2
<1>5. Kept = {} <=> Matched = {}
  BY <1>4, <1>2, SeenIs
<1>6. Matched = {} <=> ~\E i \in DOMAIN seen : Found(seen[i]) # {}
  BY DEF Matched
<1>7. TopMatches = <<>> <=> Kept = {}
  BY <1>2, TopMatchesAre
<1> QED  BY <1>2, <1>3, <1>4, <1>5, <1>6, <1>7

\* Starter code is earned, the verdict is the site's and stays with the match that was chosen,
\* and nothing found is lost, whatever a page load left behind and whoever answered the replay.
THEOREM FindTellsTrue == VerdictSpec => []FindIsReliable
<1>1. VerdictInv => FindIsReliable
  BY CodeIsEarnedThen, VerdictIsOfTheSiteThen, NothingFoundIsLostThen DEF FindIsReliable
<1>2. InitVerdict => VerdictInv
  BY VerdictStarts
<1>3. VerdictInv /\ [NextVerdict]_verdictVars => VerdictInv'
  BY VerdictStep
<1> QED  BY <1>1, <1>2, <1>3, PTL DEF VerdictSpec
=============================================================================
