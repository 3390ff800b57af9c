-------------------------------- MODULE Hooks -------------------------------
(***************************************************************************)
(* helpers/hooks.py: what is recorded of an HTTP client's exchanges.       *)
(*                                                                         *)
(* A job calls send with a request object, maybe again with the same one;  *)
(* a send follows redirects, one exchange for each hop.  The client        *)
(* (external) runs the hooks, reads the body in chunks and closes it; the  *)
(* job's threads may close a response while another reads it, and a        *)
(* response nobody holds is collected.  Whoever finishes a record first    *)
(* writes its event: the test of the flag is under the record's lock, the  *)
(* count of the bytes and the writing after it.                            *)
(*                                                                         *)
(* Sizes of heads and the names of headers are left out.                   *)
(***************************************************************************)
EXTENDS Naturals, Sequences

CONSTANTS
  Exchanges,  \* the exchanges of a job
  Jobs,       \* what the job does: see IsJob
  MaxChunks   \* bound: chunks of a body

\* client is "requests" or "httpx"; send[x] is the send call that x is a hop of,
\* hops of one call in the order of their numbers; object[x] is its request object;
\* body[x] the chunks of its body, none of a bodiless one (HEAD, 204, 304); early[x]
\* says that another hook of the job has read the body first, chunked[x] that the
\* transfer is chunked, which urllib3 reads without counting.
IsJob(j) ==
  /\ j.client \in {"requests", "httpx"}
  /\ j.send \in [Exchanges -> Nat] /\ j.object \in [Exchanges -> Nat]
  /\ j.body \in [Exchanges -> 0..MaxChunks]
  /\ j.early \in [Exchanges -> BOOLEAN] /\ j.chunked \in [Exchanges -> BOOLEAN]
  /\ j.bodiless \in [Exchanges -> BOOLEAN] /\ \A x \in Exchanges : j.bodiless[x] => j.body[x] = 0

ASSUME HooksAssumption == Exchanges \subseteq Nat /\ \A j \in Jobs : IsJob(j)

\* Who may finish a record: the read that ends the body, two closing threads, the
\* finaliser.
Finishers == {"read", "close", "close too", "collect"}

VARIABLES
  doing,     \* the job, one of Jobs
  exch,      \* exch[x]: where the exchange is, and what was done with its body
  responded, \* the request objects marked _RESPONDED
  calls,     \* calls[x]: the finishers called that have not taken the lock yet
  record,    \* record[x]: "none", "waits", "taken" (its flag is set), "written"
  noted      \* noted[x]: the events written of x: what of the body, and whether failed

hooksVars == <<doing, exch, responded, calls, record, noted>>

InitHooks ==
  /\ doing \in Jobs
  /\ exch = [x \in Exchanges |->
       [at |-> "new", chunks |-> 0, ended |-> FALSE, broken |-> FALSE, closes |-> 0, cut |-> FALSE]]
  /\ responded = {}
  /\ calls = [x \in Exchanges |-> {}]
  /\ record = [x \in Exchanges |-> "none"]
  /\ noted = [x \in Exchanges |-> <<>>]

Object(x) == doing.object[x]
Before(x) == {y \in Exchanges : doing.send[y] = doing.send[x] /\ y < x}
Over(x)   == exch[x].at \in {"answered", "collected", "raised"}
Answered(x) == exch[x].at \in {"answered", "collected"}

\* What of a body is in its event, with n chunks read (_raw_bytes_read, body_bytes); that
\* there is none is known of a chunked transfer too.
Counted(x, n) ==
  IF doing.client = "requests" /\ doing.chunked[x] /\ ~doing.bodiless[x] THEN "unknown" ELSE n
Event(body, failed) == [body |-> body, failed |-> failed]

-----------------------------------------------------------------------------
(* The client sends, is answered, or fails.                                 *)

\* A hop follows only when the client is done with the redirect before it; a
\* request object is in one exchange at a time.
Send(x) ==
  /\ exch[x].at = "new"
  /\ \A y \in Before(x) : Answered(y) /\ (exch[y].ended \/ exch[y].closes > 0)
  /\ \A y \in Exchanges : Object(y) = Object(x) => (y < x => Over(y)) /\ exch[y].at # "out"
  /\ exch' = [exch EXCEPT ![x].at = "out"]
  /\ UNCHANGED <<doing, responded, calls, record, noted>>

\* _requests_response_hook; _observe.  The event is written at once when there is
\* no body or an earlier hook has read it, else its record waits.
Answer(x) ==
  LET whole == doing.early[x] \/ (doing.client = "requests" /\ doing.bodiless[x])
  IN  /\ exch[x].at = "out"
      /\ exch' = [exch EXCEPT ![x].at = "answered", ![x].ended = whole,
                              ![x].chunks = IF whole THEN doing.body[x] ELSE 0]
      /\ responded' = responded \cup {Object(x)}
      /\ record' = [record EXCEPT ![x] = IF whole THEN "written" ELSE "waits"]
      /\ noted' = IF whole
                  THEN [noted EXCEPT ![x] = Append(@, Event(Counted(x, doing.body[x]), FALSE))]
                  ELSE noted
      /\ UNCHANGED <<doing, calls>>

\* The wrappers that an exception of exchange x passes: of Requests one for the hop
\* and one for the call, each with its own request; of HTTPX one, with the hop's.
Wrappers(x) ==
  IF doing.client = "requests" THEN {x} \cup {y \in Before(x) : Before(y) = {}} ELSE {x}

\* send raises before a response: _requests_failure, _httpx_failure.
Failures(x) == {y \in Wrappers(x) : Object(y) \notin responded}
Raise(x) ==
  /\ exch[x].at = "out"
  /\ exch' = [exch EXCEPT ![x].at = "raised"]
  /\ responded' = responded \cup {Object(y) : y \in Failures(x)}
  /\ noted' = [y \in Exchanges |->
       IF y \in Failures(x) THEN Append(noted[y], Event("unknown", TRUE)) ELSE noted[y]]
  /\ UNCHANGED <<doing, calls, record>>

-----------------------------------------------------------------------------
(* The body is read, closed, or forgotten.                                  *)

Readable(x) == exch[x].at = "answered" /\ ~exch[x].ended /\ ~exch[x].broken

\* One read of the body (read_wrapper, ObservedSyncStream.__iter__).
Read(x) ==
  /\ Readable(x) /\ exch[x].chunks < doing.body[x]
  /\ exch' = [exch EXCEPT ![x].chunks = @ + 1]
  /\ UNCHANGED <<doing, responded, calls, record, noted>>

\* The body is at its end: Requests' last read has exhausted it, which it does not
\* see of a chunked one; HTTPX closes the response.
EndRead(x) ==
  /\ Readable(x) /\ exch[x].chunks = doing.body[x]
  /\ exch' = [exch EXCEPT ![x].ended = TRUE]
  /\ calls' = [calls EXCEPT ![x] =
       IF doing.client = "requests" /\ doing.chunked[x] THEN @ ELSE @ \cup {"read"}]
  /\ UNCHANGED <<doing, responded, record, noted>>

\* A read fails; Requests' may leave the body exhausted.
BreakRead(x) ==
  /\ Readable(x)
  /\ exch' = [exch EXCEPT ![x].broken = TRUE]
  /\ \/ UNCHANGED calls
     \/ doing.client = "requests" /\ calls' = [calls EXCEPT ![x] = @ \cup {"read"}]
  /\ UNCHANGED <<doing, responded, record, noted>>

\* A thread closes the response, whatever the others do; a second may at the same
\* time.  Neither client closes the stream of a body that was read to the end.
Close(x) ==
  /\ exch[x].at = "answered" /\ exch[x].closes < 2
  /\ exch' = [exch EXCEPT ![x].closes = @ + 1, ![x].cut = @ \/ ~exch[x].ended]
  /\ calls' = [calls EXCEPT ![x] =
       IF exch[x].ended THEN @
       ELSE @ \cup {IF exch[x].closes = 0 THEN "close" ELSE "close too"}]
  /\ UNCHANGED <<doing, responded, record, noted>>

\* Nobody holds the response any more, or the interpreter exits: weakref.finalize.
Collect(x) ==
  /\ exch[x].at = "answered" /\ calls[x] = {}
  /\ exch' = [exch EXCEPT ![x].at = "collected"]
  /\ calls' = [calls EXCEPT ![x] = @ \cup {"collect"}]
  /\ UNCHANGED <<doing, responded, record, noted>>

\* finish, under the record's lock: the first one goes on.
TakeTwice(x, f) ==
  /\ f \in calls[x]
  /\ calls' = [calls EXCEPT ![x] = @ \ {f}]
  /\ record' = [record EXCEPT ![x] = "taken"]
  /\ UNCHANGED <<doing, exch, responded, noted>>
Take(x, f) ==
  /\ f \in calls[x]
  /\ calls' = [calls EXCEPT ![x] = @ \ {f}]
  /\ record' = [record EXCEPT ![x] = IF @ = "waits" THEN "taken" ELSE @]
  /\ UNCHANGED <<doing, exch, responded, noted>>

\* finish, after it: the bytes read so far.
WriteEvent(x) ==
  /\ record[x] = "taken"
  /\ record' = [record EXCEPT ![x] = "written"]
  /\ noted' = [noted EXCEPT ![x] =
       Append(@, Event(Counted(x, exch[x].chunks), doing.client = "httpx" /\ exch[x].broken))]
  /\ UNCHANGED <<doing, exch, responded, calls>>

NextHooks ==
  \E x \in Exchanges :
    \/ Send(x) \/ Answer(x) \/ Raise(x) \/ Read(x) \/ EndRead(x) \/ BreakRead(x)
    \/ Close(x) \/ Collect(x) \/ WriteEvent(x)
    \/ \E f \in Finishers : Take(x, f)

HooksSpec == InitHooks /\ [][NextHooks]_hooksVars

-----------------------------------------------------------------------------
(* Properties.                                                              *)

\* An exchange that was answered has one event once its response is gone, whoever
\* finished its record, and never two.  One that raised has one, marked failed,
\* unless an exchange before it used the same request object: its mark is still
\* on it.  A body that was read to the end with nobody closing it before has all
\* its chunks in the event, and a failed read of HTTPX shows.
EventPerExchange ==
  \A x \in Exchanges :
    LET n == noted[x] IN
    /\ Len(n) <= 1
    /\ exch[x].at = "collected" /\ calls[x] = {} /\ record[x] # "taken" => Len(n) = 1
    /\ exch[x].at = "raised" =>
         \/ Len(n) = 1 /\ n[1].failed
         \/ \E y \in Exchanges \ {x} : Object(y) = Object(x) /\ Over(y)
    /\ n # <<>> /\ exch[x].ended /\ ~exch[x].cut => n[1].body = Counted(x, doing.body[x])
    /\ n # <<>> /\ exch[x].broken /\ ~exch[x].cut /\ doing.client = "httpx" => n[1].failed

\* The module's words: send is wrapped to record requests that raised before any
\* response.  A request object that is sent again after an answer or a failure
\* still has the mark of the first, and its failure is not recorded.
EveryFailureIsRecorded ==
  \A x \in Exchanges : exch[x].at = "raised" => noted[x] # <<>>
=============================================================================
