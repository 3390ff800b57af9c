------------------------------ MODULE Timeline ------------------------------
(***************************************************************************)
(* The meter's timeline (forwarder/meter.py): counted bytes by the time at *)
(* which they were counted, in slots that are merged in pairs when there   *)
(* are too many.  Everything here runs under the meter's lock.             *)
(*                                                                         *)
(* Time is in units of the first resolution.  The clock is the wall clock, *)
(* which may be set back.  The bytes that a discard takes back were counted*)
(* as sent and are still in the timeline, if anywhere.                     *)
(***************************************************************************)
EXTENDS FiniteSets, FiniteSetsExt, Functions, Integers

CONSTANTS
  MaxSlots,  \* MAX_TIMELINE_SLOTS
  Lookback,  \* _DISCARD_LOOKBACK_SLOTS
  Times,     \* the times at which bytes are counted
  MaxBytes,  \* bound: bytes counted in all
  MaxBack    \* bound: how often the clock is set back

ASSUME TimelineAssumption ==
  /\ MaxSlots \in Nat \ {0} /\ Lookback \in Nat \ {0}
  /\ Times \subseteq Nat /\ IsFiniteSet(Times) /\ Times # {}
  /\ MaxBytes \in Nat /\ MaxBack \in Nat

VARIABLES
  timeline,    \* the slots there are: index to [sent, received]
  resolution,  \* how many units of time a slot covers
  last,        \* _timeline_last: the highest index so far, or -1
  clock,       \* now, and how often it was set back
  tally        \* what was counted at each time, what was discarded, what of
               \* that was not found, and whether there was any to miss

timelineVars == <<timeline, resolution, last, clock, tally>>

Slot == [sent : Nat, received : Nat]
Held(slot) == slot.sent + slot.received
NoSlot == [sent |-> 0, received |-> 0]
At(line, i) == IF i \in DOMAIN line THEN line[i] ELSE NoSlot
Sum(line) == SumFunctionOnSet([i \in DOMAIN line |-> Held(line[i])], DOMAIN line)

InitTimeline ==
  /\ timeline = [i \in {} |-> NoSlot]
  /\ resolution = 1
  /\ last = -1
  /\ clock = [now |-> Min(Times), back |-> 0]
  /\ tally = [sent |-> [t \in Times |-> 0], received |-> [t \in Times |-> 0], gone |-> 0,
               missed |-> 0, far |-> FALSE]

Counted(t) == tally.sent[t] + tally.received[t]
AllSent == SumFunctionOnSet(tally.sent, Times)
All == AllSent + SumFunctionOnSet(tally.received, Times)

\* What was counted at the times of one slot.
CountedIn(i, res, count) == SumFunctionOnSet(count, {t \in Times : t \div res = i})

\* Something sent lies further back, from the newest byte, than the lookback.
Far ==
  LET newest == Max({0} \cup {t \div resolution : t \in {u \in Times : Counted(u) > 0}})
  IN  \E t \in Times : tally.sent[t] > 0 /\ t \div resolution <= newest - Lookback

Tick ==
  /\ \E t \in Times :
       /\ t # clock.now /\ (t < clock.now => clock.back < MaxBack)
       /\ clock' = [now |-> t, back |-> clock.back + IF t < clock.now THEN 1 ELSE 0]
  /\ UNCHANGED <<timeline, resolution, last, tally>>

-----------------------------------------------------------------------------

\* Mutant: of two slots that become one, the second replaces the first.
MergedOver(line) == [j \in {i \div 2 : i \in DOMAIN line} |-> line[Max({i \in DOMAIN line : i \div 2 = j})]]

\* _coarsen_timeline_locked, one round of it: two slots become one.
Merged(line) ==
  [j \in {i \div 2 : i \in DOMAIN line} |->
     [sent     |-> At(line, 2 * j).sent + At(line, 2 * j + 1).sent,
      received |-> At(line, 2 * j).received + At(line, 2 * j + 1).received]]

Round(c) ==
  IF Cardinality(DOMAIN c.line) <= MaxSlots THEN c
  ELSE [line |-> Merged(c.line), res |-> 2 * c.res, end |-> c.end \div 2]

\* All rounds: until there are few enough, which takes at most one for each index.
Coarsened(line, res, end) ==
  LET after[k \in 0 .. end + 1] ==
        IF k = 0 THEN [line |-> line, res |-> res, end |-> end] ELSE Round(after[k - 1])
  IN  after[end + 1]

\* _timeline_add_locked.
TimelineAdd(n, received) ==
  LET i == clock.now \div resolution
      slot == At(timeline, i)
      line == [j \in DOMAIN timeline \cup {i} |->
                 IF j # i THEN timeline[j]
                 ELSE IF received THEN [slot EXCEPT !.received = @ + n] ELSE [slot EXCEPT !.sent = @ + n]]
      new  == Coarsened(line, resolution, IF i \notin DOMAIN timeline /\ i > last THEN i ELSE last)
  IN  /\ All + n <= MaxBytes
      /\ timeline' = new.line /\ resolution' = new.res /\ last' = new.end
      /\ tally' = IF received THEN [tally EXCEPT !.received[clock.now] = @ + n]
                              ELSE [tally EXCEPT !.sent[clock.now] = @ + n]
      /\ UNCHANGED clock

\* _untimeline_sent_locked: from the last slot back, at most Lookback of them.
Discard(n) ==
  LET left[k \in 0 .. Lookback] ==   \* what is still to be found after k slots
        IF k = 0 THEN n ELSE left[k - 1] - Min({left[k - 1], At(timeline, last - k + 1).sent})
      Taken(i) == IF i \in last - Lookback + 1 .. last THEN left[last - i] - left[last - i + 1] ELSE 0
      less == [i \in DOMAIN timeline |-> [timeline[i] EXCEPT !.sent = @ - Taken(i)]]
  IN  /\ tally.gone + n <= AllSent
      /\ timeline' = [i \in {j \in DOMAIN less : less[j] # NoSlot} |-> less[i]]
      /\ tally' = [tally EXCEPT !.gone = @ + n, !.missed = @ + left[Lookback],
                              !.far = @ \/ Far]
      /\ UNCHANGED <<resolution, last, clock>>

NextTimeline ==
  \/ Tick
  \/ \E n \in 1 .. 2, received \in BOOLEAN : TimelineAdd(n, received)
  \/ \E n \in 1 .. 2 : Discard(n)

TimelineSpec == InitTimeline /\ [][NextTimeline]_timelineVars

-----------------------------------------------------------------------------

\* The timeline is of what was counted, however often it was made coarser.  Its sum
\* is what was counted less what was taken back; a byte that is taken back is missed
\* only if it lies further back than the lookback.  As long as nothing is
\* taken back every slot holds the bytes of its own time, and the bounds hold.
TimelineIsTrue ==
  /\ Sum(timeline) = All - tally.gone + tally.missed
  /\ tally.missed > 0 => tally.far
  /\ tally.gone = 0 => \A i \in 0 .. Max(Times) :
       /\ At(timeline, i).sent = CountedIn(i, resolution, tally.sent)
       /\ At(timeline, i).received = CountedIn(i, resolution, tally.received)
  /\ Cardinality(DOMAIN timeline) <= MaxSlots
  /\ \A i \in DOMAIN timeline : timeline[i] \in Slot /\ timeline[i] # NoSlot /\ i <= last
=============================================================================
