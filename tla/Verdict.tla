------------------------------ MODULE Verdict -------------------------------
(***************************************************************************)
(* find/core.py after the page load: which responses hold the values, in   *)
(* which order they are listed, for which ones starter code is given, and  *)
(* the one request that --verify replays without the browser               *)
(* (find/heuristics.py, find/verify.py).                                   *)
(*                                                                         *)
(* A body is what was found in it: per value "none", "match" (as itself)   *)
(* or "weak" (only inside a longer number).  Locations, warnings' wording  *)
(* and the estimates of header sizes are left out.                         *)
(***************************************************************************)
EXTENDS FiniteSets, Integers, Sequences

CONSTANTS
  Loads,   \* what page loads may leave behind: see Observations
  Replies,    \* how the replay may be answered: see IsReply
  MaxMatches, \* MAX_MATCHES
  BodyCap,    \* body_cap_bytes
  TlsEstimate \* TLS_HANDSHAKE_ESTIMATE_BYTES

Kinds == {"none", "weak", "match"}
State == {"cookies", "authorization", "token header", "token in URL"}

\* A response: where it came from (neither: the network), what the request carried,
\* its size (body and headers), and what each value was found as, <<>> if not searched.
Observations ==
  [url : Nat, method : {"GET", "POST"}, https : BOOLEAN, status : {0} \cup (100 .. 599),   \* 0: unknown
   from : SUBSET {"worker", "cache"}, carried : SUBSET State, size : Nat, kinds : Seq(Kinds)]

\* A reply: who sent it, with which status, whether it has the meter's header and the
\* meter's records hold such a reply, its coding, its chunks (bytes received, bytes
\* decoded, or refused by zlib), and what each value is found as in its body.
Answers ==
  [by : {"site", "meter", "proxy"}, status : 100 .. 599, marked : BOOLEAN, shown : BOOLEAN,
   coding : {"known", "other"}, kinds : Seq(Kinds), chunks : Seq([raw : Nat, out : Nat, bad : BOOLEAN])]
Gateway == {502, 504}
\* What the meter answers itself has its header, and its records show it but for gateway
\* errors.  A provider's own answers are a 407 or gateway errors: any other is taken for the
\* site's, as nothing tells them apart.
IsReply(r) ==
  /\ r.by = "meter" => r.marked /\ (r.shown \/ r.status \in Gateway)
  /\ r.by = "proxy" => r.status \in {407} \cup Gateway

ASSUME VerdictAssumption ==
  /\ Loads \subseteq Seq(Observations)
  /\ Replies \subseteq Answers /\ \A r \in Replies : IsReply(r)
  /\ MaxMatches \in Nat \ {0} /\ BodyCap \in Nat \ {0} /\ TlsEstimate \in Nat

VARIABLES
  seen,    \* the responses of the page load, in the order they were seen
  find,    \* run_find: where it is, the status, the ranked responses, the matches, the ranks
           \* that have starter code, the replayed rank, and whether "the values replay"
  replay   \* the exchange of verify_replay_detail: where it is, the reply, the chunks that
           \* were read, the bytes received and decoded, and what stopped the decoding

verdictVars == <<seen, find, replay>>

NoReply == [by |-> "nobody"]
InitVerdict ==
  /\ seen \in Loads
  /\ find = [pc |-> "load", status |-> "none", ranked |-> <<>>, matches |-> <<>>,
             code |-> <<>>, target |-> 0, verify |-> "none"]
  /\ replay = [pc |-> "idle", reply |-> NoReply, read |-> 0, received |-> 0, decoded |-> 0, flaw |-> "none"]

-----------------------------------------------------------------------------
(* Matches and their order.                                                 *)

CountsAsMatch(kind) == kind = "match"
As(kinds, P(_))     == {v \in DOMAIN kinds : P(kinds[v])}
Found(o)  == As(o.kinds, CountsAsMatch)
Weak(o)   == As(o.kinds, LAMBDA k : k = "weak")
HasAll(o) == o.kinds # <<>> /\ Found(o) = DOMAIN o.kinds
OfNetwork(o) == o.from = {}

Billed(o) == o.size + (IF o.https THEN TlsEstimate ELSE 0)
Bit(b)    == IF b THEN 1 ELSE 0
RankKey(i) ==
  LET o == seen[i]
  IN  <<Bit(~HasAll(o)), -Cardinality(Found(o)), Cardinality(Weak(o)), Bit(~OfNetwork(o)), Billed(o), i>>
Outranks(i, j) ==
  LET x == RankKey(i) y == RankKey(j)
  IN  \E n \in DOMAIN x : x[n] < y[n] /\ \A m \in 1 .. n - 1 : x[m] = y[m]

Matched == {i \in DOMAIN seen : Found(seen[i]) # {}}
SameResource(i, j) == seen[i].method = seen[j].method /\ seen[i].url = seen[j].url
\* A copy of the HTTP cache goes if the network copy of it matched too.
Kept == {i \in Matched : ~("cache" \in seen[i].from /\ \E j \in Matched : OfNetwork(seen[j]) /\ SameResource(i, j))}

\* S as a sequence: each has the place that those before it leave.
InLine(S, Before(_, _)) ==
  [k \in 1 .. Cardinality(S) |-> CHOOSE i \in S : Cardinality({j \in S : Before(j, i)}) = k - 1]
Listed(line) == {line[k] : k \in DOMAIN line}
RankedMatches == InLine(Kept, Outranks)

Succeeded(status) == status \in 200 .. 299

\* code_eligibility: the first rule that fails, or "none".
Ineligible(o) ==
  IF "cookies" \in o.carried            THEN "cookies"
  ELSE IF "authorization" \in o.carried THEN "authorization"
  ELSE IF "token header" \in o.carried  THEN "token header"
  ELSE IF "token in URL" \in o.carried  THEN "token in URL"
  ELSE IF o.method # "GET"              THEN "not a GET"
  ELSE IF ~Succeeded(o.status)          THEN "status"
  ELSE IF "worker" \in o.from           THEN "worker"
  ELSE "none"
Eligible(m) == m.reason = "none"

MatchOf(i) == [obs |-> i, reason |-> Ineligible(seen[i])]

\* Code only for what holds every value, while anything listed does.
GetsCode(matches, m) ==
  HasAll(seen[m.obs]) \/ ~\E k \in DOMAIN matches : HasAll(seen[matches[k].obs])

\* replay_candidate: only the cookies or a token header stand in the way.
ReplayCandidate(m) ==
  LET o == seen[m.obs]
  IN  /\ m.reason \in {"cookies", "token header"}
      /\ o.carried \cap {"authorization", "token in URL"} = {}
      /\ o.method = "GET" /\ Succeeded(o.status) /\ "worker" \notin o.from

\* select_verify_target: the rank to replay, 0 for none.
Advantage == 2
FirstOf(matches, P(_)) ==
  LET ranks == {k \in DOMAIN matches : P(matches[k])}
  IN  IF ranks = {} THEN 0 ELSE CHOOSE k \in ranks : \A l \in ranks : k <= l
Target(matches) ==
  LET first == FirstOf(matches, LAMBDA m : Eligible(m) \/ ReplayCandidate(m))
      o     == seen[matches[first].obs]
      alternative ==
        FirstOf(matches, LAMBDA m : /\ Eligible(m) /\ HasAll(seen[m.obs]) = HasAll(o)
                                    /\ Cardinality(Found(seen[m.obs])) = Cardinality(Found(o)))
  IN  IF first = 0 THEN 0
      ELSE IF ~Eligible(matches[first]) /\ alternative # 0 /\ seen[matches[alternative].obs].size <= Advantage * o.size
      THEN alternative
      ELSE first

-----------------------------------------------------------------------------
(* _run_find.                                                               *)

\* The load failed, its main document was the meter's own reply or a challenge page.
NothingToSearch ==
  /\ find.pc = "load"
  /\ \E status \in {"error", "blocked"} :
       find' = [find EXCEPT !.pc = "end", !.status = status, !.verify = "not_tested"]
  /\ UNCHANGED <<seen, replay>>

Lists ==
  /\ find.pc = "load"
  /\ LET ranked  == RankedMatches
         matches == [k \in 1 .. (IF Len(ranked) > MaxMatches THEN MaxMatches ELSE Len(ranked)) |-> MatchOf(ranked[k])]
         Coded(k) == Eligible(matches[k]) /\ GetsCode(matches, matches[k])
     IN  find' = [find EXCEPT !.pc = "listed", !.ranked = ranked, !.matches = matches,
                              !.status = IF matches = <<>> THEN "not_found" ELSE "found",
                              !.code = InLine({k \in DOMAIN matches : Coded(k)}, <)]
  /\ UNCHANGED <<seen, replay>>

\* Without --verify, without a target, or with a reason to abort, nothing is sent.
NotSent ==
  /\ find.pc = "listed"
  /\ find' = [find EXCEPT !.pc = "end", !.verify = "not_tested"]
  /\ UNCHANGED <<seen, replay>>
Sends ==
  /\ find.pc = "listed" /\ Target(find.matches) # 0
  /\ find' = [find EXCEPT !.pc = "replaying", !.target = Target(find.matches)]
  /\ replay' = [replay EXCEPT !.pc = "sent"]
  /\ UNCHANGED seen

TargetOf  == find.matches[find.target]
Replayed  == seen[TargetOf.obs]

-----------------------------------------------------------------------------
(* verify_replay_detail.                                                    *)

\* The head of the reply.  Of an https site only the site can be the author.
HeadArrives ==
  /\ replay.pc = "sent"
  /\ \E r \in Replies :
       /\ r.by # "site" => ~Replayed.https
       /\ replay' = [replay EXCEPT !.pc = "reading", !.reply = r,
                                   !.flaw = IF Succeeded(r.status) /\ r.coding = "other" THEN "coding" ELSE "none"]
  /\ UNCHANGED <<seen, find>>

\* One raw chunk.  The decoder of a 2xx reply is asked for at most what the cap still
\* allows and one byte more.
Chunk ==
  LET c == replay.reply.chunks[replay.read + 1]
      received == replay.received + c.raw
      room     == BodyCap - replay.decoded + 1
      decoded  == replay.decoded + (IF c.out > room THEN room ELSE c.out)
      decodes  == Succeeded(replay.reply.status) /\ replay.flaw = "none"
  IN
  /\ replay.pc = "reading" /\ replay.read < Len(replay.reply.chunks)
  /\ replay' =
       LET read == [replay EXCEPT !.read = @ + 1, !.received = received] IN
       IF received > BodyCap     THEN [read EXCEPT !.pc = "read", !.flaw = IF @ = "none" THEN "over cap" ELSE @]
       ELSE IF ~decodes          THEN read
       ELSE IF c.bad             THEN [read EXCEPT !.pc = "read", !.flaw = "coding"]
       ELSE IF decoded > BodyCap THEN [read EXCEPT !.pc = "read", !.flaw = "over cap", !.decoded = decoded]
       ELSE [read EXCEPT !.decoded = decoded]
  /\ UNCHANGED <<seen, find>>
WholeBody ==
  /\ replay.pc = "reading" /\ replay.read = Len(replay.reply.chunks)
  /\ replay' = [replay EXCEPT !.pc = "read"]
  /\ UNCHANGED <<seen, find>>

\* The values that the browser's copy holds as themselves must all be there so.
ReturnsAnyKind == Found(Replayed) \subseteq As(replay.reply.kinds, LAMBDA k : k # "none")
Returns == Found(Replayed) \subseteq As(replay.reply.kinds, CountsAsMatch)

Judged ==
  LET r == replay.reply
      ofTheWay == ~Replayed.https /\ (r.status = 407 \/ (r.marked /\ r.shown))
  IN  IF ofTheWay \/ r.status \in Gateway THEN "not_tested"
      ELSE IF ~Succeeded(r.status)        THEN "no"
      ELSE IF replay.flaw # "none"        THEN "not_tested"
      ELSE IF Returns THEN "yes" ELSE "no"

\* A match that replays gets its code, in its place.
Concludes(verdict) ==
  /\ replay' = [replay EXCEPT !.pc = "end"]
  /\ find' =
       LET done == [find EXCEPT !.pc = "end", !.verify = verdict] IN
       IF verdict # "yes" \/ Eligible(TargetOf) THEN done
       ELSE [done EXCEPT
               !.matches[find.target].reason = "none",
               !.code = IF GetsCode(find.matches, TargetOf) THEN InLine(Listed(@) \cup {find.target}, <) ELSE @]
  /\ UNCHANGED seen
Verifies == replay.pc = "read" /\ Concludes(Judged)
\* The request fails, its deadline passes before the body is whole, or its search fails.
GivenUp == replay.pc \in {"sent", "reading", "read"} /\ Concludes("not_tested")

NextVerdict ==
  \/ NothingToSearch \/ Lists \/ NotSent \/ Sends
  \/ HeadArrives \/ Chunk \/ WholeBody \/ Verifies \/ GivenUp

VerdictSpec == InitVerdict /\ [][NextVerdict]_verdictVars

-----------------------------------------------------------------------------
(* Properties.                                                              *)

Stateless(o) == o.method = "GET" /\ Succeeded(o.status) /\ o.carried = {} /\ "worker" \notin o.from
Proved(k) == find.verify = "yes" /\ k = find.target /\ Found(Replayed) \subseteq As(replay.reply.kinds, CountsAsMatch)

\* Starter code is given only for a request that needs nothing of the browser: one
\* that carried no state, or the one that was replayed without it and returned every
\* value.  It is in rank order, and while any match holds all values, listed or not,
\* it is for such a match only.
CodeIsEarned ==
  /\ \A n \in DOMAIN find.code :
       LET k == find.code[n] o == seen[find.matches[k].obs] IN
       /\ Stateless(o) \/ Proved(k)
       /\ HasAll(o) \/ \A i \in Listed(find.ranked) : ~HasAll(seen[i])
       /\ n > 1 => find.code[n - 1] < k
  /\ \A k \in DOMAIN find.matches :
       Eligible(find.matches[k]) => Stateless(seen[find.matches[k].obs]) \/ Proved(k)

\* "no" and "yes" are said of what the site itself answered, and "yes" of a body within
\* the cap; the match that was replayed is still the one that would be chosen now, so
\* that a report's reader computes the same one.
VerdictIsOfTheSite ==
  /\ find.verify \in {"yes", "no"} => replay.reply.by = "site"
  /\ find.verify = "yes" => replay.received <= BodyCap /\ replay.decoded <= BodyCap
  /\ replay.decoded <= BodyCap + 1
  /\ find.target # 0 => Target(find.matches) = find.target

\* The search is "found" exactly if some response holds some value as itself; the
\* cached copy of a match is left out only for a match of the network.
NothingFoundIsLost ==
  find.status \in {"found", "not_found"} =>
    /\ (find.status = "found") <=> (\E i \in DOMAIN seen : Found(seen[i]) # {})
    /\ \A i \in Matched \ Listed(find.ranked) :
         \E j \in Listed(find.ranked) : OfNetwork(seen[j]) /\ SameResource(i, j)

\* What find reports of its search can be relied on: the three together.
FindIsReliable == CodeIsEarned /\ VerdictIsOfTheSite /\ NothingFoundIsLost
=============================================================================
