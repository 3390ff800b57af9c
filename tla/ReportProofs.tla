---------------------------- MODULE ReportProofs ----------------------------
(***************************************************************************)
(* Theorems about what a report is made of and what a command does with    *)
(* it.  Allocate: the largest-remainder split, for any number of positions *)
(* and any weights.  Attribution: for any job, any file of events and any  *)
(* sizes, what was read, that all bytes are shared out, that an alarm is   *)
(* true, that the allowances are enough and that pages are timed rightly.  *)
(* Command: the commands around a meter, for any options, counts and       *)
(* signals.                                                                *)
(*                                                                         *)
(* The figures of Attribution are operators of what the job left, and the  *)
(* last state alone does not tell whether they are right.  AttributionInv  *)
(* is what the job did: which record a request went over (RequestsEnd),    *)
(* whose lines there are (LinesAreTrue), what the records carried          *)
(* (BytesAreCarried), and what was read so far (ReadingIsTold).  The       *)
(* figures are sums over sets of any size, see SumLemmas.  For the pages   *)
(* PagesInv is added: a context's navigations start, and are read, one     *)
(* behind the other (InTurn, FileInTurn, LogInTurn), and each page was     *)
(* led to by redirects from the first hop on (HopsLead).                   *)
(*                                                                         *)
(* What carries Command: that a token file which was there stays           *)
(* (FilesAreOurs), what each point of a command has decided so far         *)
(* (Undecided), that nothing is counted behind the snapshot, which the     *)
(* reports are of (ShotIsLast), and that a tunnel which was established    *)
(* has not failed before that (WasReached).                                *)
(***************************************************************************)
EXTENDS Attribution, Command, SumLemmas, SequenceTheorems

-----------------------------------------------------------------------------
(* Allocate.                                                                *)

\* A larger product has a larger quotient, or the same and a larger remainder.
LEMMA DivOrder ==
  ASSUME NEW x \in Nat, NEW y \in Nat, NEW b \in Nat \ {0}, x > y
  PROVE  x \div b > y \div b \/ (x \div b = y \div b /\ (x % b) > (y % b))
<1> DEFINE p == x \div b
           q == y \div b
           r == x % b
           s == y % b
<1>1. p \in Nat /\ r \in 0 .. b - 1 /\ x = b * p + r
  BY DivMod
<1>2. q \in Nat /\ s \in 0 .. b - 1 /\ y = b * q + s
  BY DivMod
<1> HIDE DEF p, q, r, s
<1>3. CASE p < q
  <2>1. q >= p + 1
    BY <1>1, <1>2, <1>3
  <2>2. b * q >= b * (p + 1)
    BY <2>1, <1>1, <1>2, Z3
  <2>3. b * (p + 1) = b * p + b
    BY <1>1, Z3
  <2>4. b * q \in Nat /\ b * p \in Nat
    BY <1>1, <1>2, Z3
  <2> QED  BY <2>2, <2>3, <2>4, <1>1, <1>2
<1>4. CASE p = q
  <2>1. b * p \in Nat
    BY <1>1, Z3
  <2> QED  BY <2>1, <1>1, <1>2, <1>4 DEF p, q, r, s
<1>5. CASE p > q
  BY <1>5 DEF p, q
<1> QED  BY <1>1, <1>2, <1>3, <1>4, <1>5

-----------------------------------------------------------------------------
\* The line in which the left-over units are handed out, and the remainders that make it.
Queue(total, w, W) == [i \in DOMAIN w |-> Ahead(total, w, W, i)]

LEMMA QueueIsLine ==
  ASSUME NEW total \in Nat, NEW D \in SUBSET Nat,
         NEW w \in [D -> Nat], NEW W \in Nat \ {0}
  PROVE  IsLine(Queue(total, w, W), D)
<1> DEFINE rest == [k \in D |-> (total * w[k]) % W]
           q == Queue(total, w, W)
<1>1. \A k \in D : rest[k] \in Nat
  <2> TAKE k \in D
  <2>1. total * w[k] \in Nat
    BY SMT
  <2> QED  BY <2>1, DivMod
<1>2. \A i \in D : q[i] = {k \in D : rest[k] > rest[i] \/ (rest[k] = rest[i] /\ k < i)}
  BY DEF Queue, Ahead
<1>3. \A i \in D : i \in Nat
  OBVIOUS
<1> HIDE DEF q, rest
<1>4. \A i \in D : q[i] \in SUBSET (D \ {i})
  BY <1>1, <1>2, <1>3
<1>5. ASSUME NEW i \in D, NEW j \in D, i # j PROVE i \in q[j] \/ j \in q[i]
  <2>1. rest[i] \in Nat /\ rest[j] \in Nat /\ i \in Nat /\ j \in Nat
    BY <1>1, <1>3
  <2>2. \/ rest[i] > rest[j] \/ (rest[i] = rest[j] /\ i < j)
        \/ rest[j] > rest[i] \/ (rest[j] = rest[i] /\ j < i)
    BY <1>5, <2>1
  <2> QED  BY <1>2, <2>2
<1>6. ASSUME NEW i \in D, NEW j \in q[i], NEW k \in q[j] PROVE k \in q[i]
  <2>1. j \in D /\ (rest[j] > rest[i] \/ (rest[j] = rest[i] /\ j < i))
    BY <1>2
  <2>2. k \in D /\ (rest[k] > rest[j] \/ (rest[k] = rest[j] /\ k < j))
    BY <1>2, <2>1
  <2>3. /\ rest[i] \in Nat /\ rest[j] \in Nat /\ rest[k] \in Nat
        /\ i \in Nat /\ j \in Nat /\ k \in Nat
    BY <1>1, <1>3, <2>1, <2>2
  <2>4. rest[k] > rest[i] \/ (rest[k] = rest[i] /\ k < i)
    BY <2>1, <2>2, <2>3
  <2> QED  BY <1>2, <2>2, <2>4
<1> QED  BY <1>4, <1>5, <1>6 DEF IsLine, q

\* Of two requests the one that reported more never gets fewer bytes, wherever they are
\* in the file.  The rounding in largest_remainder's sort and slice must not turn the
\* order round: the whole parts alone keep it, and the extra unit must not undo that.
THEOREM LargerWeightLargerShare ==
  ASSUME NEW total \in Nat \ {0}, NEW D \in SUBSET Nat, IsFiniteSet(D),
         NEW w \in [D -> Nat], NEW W \in Nat \ {0}, NEW extra \in Nat,
         NEW i \in D, NEW j \in D, w[i] > w[j]
  PROVE  Split(total, w, W, extra)[i] >= Split(total, w, W, extra)[j]
<1> DEFINE x == total * w[i]
           y == total * w[j]
           A(k) == Cardinality(Ahead(total, w, W, k))
           unit(k) == IF A(k) < extra THEN 1 ELSE 0
<1>1. x \in Nat /\ y \in Nat /\ x > y
  <2>1. x \in Nat /\ y \in Nat
    BY SMT
  <2>2. total * w[i] >= total * (w[j] + 1)
    BY Z3
  <2>3. total * (w[j] + 1) = total * w[j] + total
    BY Z3
  <2> QED  BY <2>1, <2>2, <2>3
<1>2. /\ Split(total, w, W, extra)[i] = Whole(total, w, W, i) + unit(i)
      /\ Split(total, w, W, extra)[j] = Whole(total, w, W, j) + unit(j)
  BY DEF Split
<1>3. Whole(total, w, W, i) = x \div W /\ Whole(total, w, W, j) = y \div W
  BY DEF Whole
<1> HIDE DEF x, y
<1>4. x \div W \in Nat /\ y \div W \in Nat
  BY <1>1, DivMod
<1>5. x \div W > y \div W \/ (x \div W = y \div W /\ (x % W) > (y % W))
  BY <1>1, DivOrder
<1>6. unit(i) \in {0, 1} /\ unit(j) \in {0, 1}
  OBVIOUS
<1>7. CASE x \div W > y \div W
  <2> HIDE DEF unit
  <2> QED  BY <1>2, <1>3, <1>4, <1>6, <1>7
<1>8. CASE x \div W = y \div W /\ (x % W) > (y % W)
  <2>1. i \in Ahead(total, w, W, j)
    BY <1>8 DEF Ahead, x, y
  <2> DEFINE q == Queue(total, w, W)
  <2>0. q[i] = Ahead(total, w, W, i) /\ q[j] = Ahead(total, w, W, j)
    BY DEF Queue
  <2>a. IsLine(q, D)
    BY QueueIsLine
  <2>b. i \in q[j]
    BY <2>0, <2>1
  <2>c. Cardinality(D) \in Nat
    BY FS_CardinalityType
  <2> HIDE DEF q
  <2>2. A(i) < A(j)
    BY <2>0, <2>a, <2>b, PlacesInLine
  <2>d. A(i) \in 0 .. Cardinality(D) - 1 /\ A(j) \in 0 .. Cardinality(D) - 1
    BY <2>0, <2>a, PlacesInLine
  <2>3. A(i) \in Nat /\ A(j) \in Nat
    BY <2>c, <2>d
  <2> HIDE DEF A
  <2>4. unit(i) >= unit(j)
    BY <2>2, <2>3
  <2> HIDE DEF unit
  <2> QED  BY <2>4, <1>2, <1>3, <1>4, <1>6, <1>8
<1> QED  BY <1>5, <1>7, <1>8

\* Exactly as many positions get a unit as units are left over, so nothing is lost or
\* handed out twice, also when remainders are equal: places in line are all different.
\* It is the first half of what allocate.py promises for the sum.
FirstPositions(total, w, W, extra) == {i \in DOMAIN w : Cardinality(Ahead(total, w, W, i)) < extra}

THEOREM LeftoverIsHandedOut ==
  ASSUME NEW total \in Nat, NEW D \in SUBSET Nat, IsFiniteSet(D),
         NEW w \in [D -> Nat], NEW W \in Nat \ {0},
         NEW extra \in 0 .. Cardinality(D)
  PROVE  Cardinality(FirstPositions(total, w, W, extra)) = extra
<1> DEFINE q == Queue(total, w, W)
<1>1. IsLine(q, D)
  BY QueueIsLine
<1>2. \A i \in D : q[i] = Ahead(total, w, W, i)
  BY DEF Queue
<1> HIDE DEF q
<1>3. Cardinality({i \in D : Cardinality(q[i]) < extra}) = extra
  BY <1>1, FirstInLine
<1>4. FirstPositions(total, w, W, extra) = {i \in D : Cardinality(q[i]) < extra}
  BY <1>2 DEF FirstPositions
<1> QED  BY <1>3, <1>4

\* What is left over is at most one unit for each remainder that is not zero.
LEMMA ProductBetween ==
  ASSUME NEW t \in Nat, NEW Q \in Nat, NEW R \in Nat, NEW p \in Nat, NEW W \in Nat \ {0},
         t * W = W * Q + R, R <= (W - 1) * p
  PROVE  t - Q \in 0 .. p
<1>1. W * Q \in Nat /\ t * W \in Nat /\ W * p \in Nat /\ (W - 1) * p = W * p - p
  BY Z3
<1>2. ASSUME t < Q PROVE FALSE
  <2>1. W * (t + 1) <= W * Q
    BY <1>2, Z3
  <2>2. W * (t + 1) = t * W + W
    BY Z3
  <2> QED  BY <1>1, <2>1, <2>2
<1>3. ASSUME t - Q > p PROVE FALSE
  <2>1. W * (Q + p + 1) <= W * t
    <3>1. Q + p + 1 <= t
      BY <1>3
    <3> QED  BY <3>1, Z3
  <2>2. W * (Q + p + 1) = W * Q + W * p + W /\ W * t = t * W
    BY Z3
  <2> QED  BY <1>1, <2>1, <2>2
<1> QED  BY <1>2, <1>3

LEMMA LeftoverBounds ==
  ASSUME NEW total \in Nat, NEW D \in SUBSET Nat, IsFiniteSet(D),
         NEW w \in [D -> Nat], NEW W \in Nat \ {0}, W = SumFunctionOnSet(w, D),
         NEW whole, \A i \in D : whole[i] = Whole(total, w, W, i)
  PROVE  /\ \A i \in D : whole[i] \in Nat
         /\ total - SumFunctionOnSet(whole, D) \in 0 .. Cardinality({i \in D : (total * w[i]) % W > 0})
<1> DEFINE v == [i \in D |-> total * w[i]]
           r == [i \in D |-> (total * w[i]) % W]
           m == [i \in D |-> W * whole[i]]
           P == {i \in D : (total * w[i]) % W > 0}
           u == [i \in D |-> IF i \in P THEN W - 1 ELSE 0]
<1>1. ASSUME NEW i \in D
      PROVE  /\ v[i] \in Nat /\ v[i] = total * w[i] /\ whole[i] \in Nat /\ r[i] \in 0 .. W - 1
             /\ m[i] \in Nat /\ m[i] = W * whole[i] /\ v[i] = m[i] + r[i] /\ w[i] \in Nat
             /\ r[i] <= u[i] /\ u[i] \in Nat
  <2>1. w[i] \in Nat /\ total * w[i] \in Nat
    BY SMT
  <2>2. whole[i] = (total * w[i]) \div W
    BY DEF Whole
  <2>3. PICK x \in Nat : x = total * w[i]
    BY <2>1
  <2>4. x \div W \in Nat /\ x % W \in 0 .. W - 1 /\ x = W * (x \div W) + (x % W)
    BY DivMod
  <2>5. W * whole[i] \in Nat
    <3>1. PICK q \in Nat : q = x \div W
      BY <2>4
    <3>2. W * q \in Nat
      BY Z3
    <3>3. whole[i] = q
      BY <2>2, <2>3, <3>1
    <3> QED  BY <3>2, <3>3
  <2>6. r[i] = x % W /\ m[i] = W * whole[i] /\ v[i] = x /\ whole[i] = x \div W
    BY <2>2, <2>3
  <2>7. r[i] <= u[i] /\ u[i] \in Nat
    <3>1. i \in P <=> r[i] > 0
      BY <2>3, <2>6
    <3>2. u[i] = IF i \in P THEN W - 1 ELSE 0
      OBVIOUS
    <3>3. r[i] \in 0 .. W - 1
      BY <2>4, <2>6
    <3> HIDE DEF P, u, r
    <3> QED  BY <3>1, <3>2, <3>3
  <2>8. v[i] = m[i] + r[i]
    BY <2>4, <2>6
  <2> HIDE DEF v, r, m, u, P
  <2>9. whole[i] \in Nat /\ r[i] \in 0 .. W - 1 /\ m[i] \in Nat
    BY <2>4, <2>5, <2>6
  <2>10. v[i] \in Nat /\ v[i] = total * w[i]
    BY <2>3, <2>6
  <2> QED  BY <2>1, <2>6, <2>7, <2>8, <2>9, <2>10
<1>2. P \in SUBSET D /\ IsFiniteSet(P)
  BY FS_Subset
<1>3. (\A i \in P : u[i] = W - 1) /\ \A i \in D \ P : u[i] = 0
  OBVIOUS
<1> HIDE DEF v, r, m, u, P
<1>4. SumFunctionOnSet(v, D) = total * SumFunctionOnSet(w, D)
  <2>1. IsMultiple(v, total, w, D)
    BY <1>1 DEF IsMultiple
  <2> QED  BY <2>1, SumTimes
<1>5. SumFunctionOnSet(m, D) = W * SumFunctionOnSet(whole, D)
  <2>1. IsMultiple(m, W, whole, D)
    BY <1>1 DEF IsMultiple
  <2>2. W \in Nat
    OBVIOUS
  <2> QED  BY <2>1, <2>2, SumTimes
<1>6. \A i \in D : m[i] \in Nat /\ r[i] \in Nat /\ v[i] = m[i] + r[i]
  BY <1>1
<1>7. SumFunctionOnSet(v, D) = SumFunctionOnSet(m, D) + SumFunctionOnSet(r, D)
  BY <1>6, SumPlus
<1>8. SumFunctionOnSet(r, D) <= SumFunctionOnSet(u, D)
  BY <1>1, <1>6, SumAtMost
<1>9. SumFunctionOnSet(u, D) = (W - 1) * Cardinality(P)
  <2>1. W - 1 \in Nat
    OBVIOUS
  <2>2. PICK n \in Nat : n = W - 1
    BY <2>1
  <2>3. \A i \in P : u[i] = n
    BY <1>3, <2>2
  <2>4. \A i \in D \ P : u[i] = 0
    BY <1>3
  <2>5. SumFunctionOnSet(u, D) = n * Cardinality(P)
    <3>1. P \subseteq D
      BY <1>2
    <3>2. IsChosen(u, D, P, n)
      BY <2>3, <2>4 DEF IsChosen
    <3> QED  BY <3>1, <3>2, SumOfChosen
  <2> QED  BY <2>2, <2>5
<1>10. SumFunctionOnSet(r, D) \in Nat /\ SumFunctionOnSet(whole, D) \in Nat /\ Cardinality(P) \in Nat
  BY <1>1, <1>2, <1>6, SumFacts, FS_CardinalityType
<1>11. total * W = W * SumFunctionOnSet(whole, D) + SumFunctionOnSet(r, D)
  BY <1>4, <1>5, <1>7
<1>12. SumFunctionOnSet(r, D) <= (W - 1) * Cardinality(P)
  BY <1>8, <1>9
<1>13. total - SumFunctionOnSet(whole, D) \in 0 .. Cardinality(P)
  BY <1>10, <1>11, <1>12, ProductBetween
<1> QED  BY <1>1, <1>13 DEF P

\* What largest_remainder promises, and what a report lives from: the shares add up to
\* the total, the larger weight has no smaller share, and a weight of zero has nothing
\* beside one that is not zero.
ShareFairly(s, total, w) ==
  /\ s \in [DOMAIN w -> Nat]
  /\ SumFunctionOnSet(s, DOMAIN w) = total
  /\ \A i, j \in DOMAIN w : w[i] > w[j] => s[i] >= s[j] /\ (w[j] = 0 => s[j] = 0)

LEMMA CleanWeightsAre ==
  ASSUME NEW D \in SUBSET Nat, IsFiniteSet(D), D # {}, NEW w \in [D -> Nat]
  PROVE  /\ CleanWeights(w) \in [D -> Nat] /\ SumFunction(CleanWeights(w)) \in Nat \ {0}
         /\ \A i, j \in D : w[i] > w[j] =>
              CleanWeights(w)[i] > CleanWeights(w)[j] /\ CleanWeights(w)[j] = w[j]
<1> DEFINE clean == [i \in DOMAIN w |-> IF w[i] > 0 THEN w[i] ELSE 0]
           ones == [i \in DOMAIN w |-> 1]
<1>1. clean = w
  BY SMT
<1>2. SumFunction(w) = SumFunctionOnSet(w, D) /\ SumFunction(ones) = SumFunctionOnSet(ones, D)
  BY DEF SumFunction
<1>3. SumFunctionOnSet(w, D) \in Nat /\ \A i \in D : SumFunctionOnSet(w, D) >= w[i]
  <2>1. \A i \in D : w[i] \in Nat
    OBVIOUS
  <2>2. SumFunctionOnSet(w, D) \in Nat
    BY <2>1, SumFacts
  <2>3. ASSUME NEW i \in D PROVE SumFunctionOnSet(w, D) >= w[i]
    <3>1. SumFunctionOnSet(w, D) = w[i] + SumFunctionOnSet(w, D \ {i})
      BY <2>1, SumFacts
    <3>2. SumFunctionOnSet(w, D \ {i}) \in Nat
      <4>1. IsFiniteSet(D \ {i})
        BY FS_Subset
      <4> QED  BY <2>1, <4>1, SumFacts
    <3> QED  BY <2>1, <3>1, <3>2
  <2> QED  BY <2>2, <2>3
<1>4. CleanWeights(w) = IF SumFunction(w) = 0 THEN ones ELSE w
  BY <1>1 DEF CleanWeights
<1>5. CASE SumFunction(w) = 0
  <2>1. CleanWeights(w) = ones
    BY <1>4, <1>5
  <2>2. \A i \in D : w[i] = 0
    BY <1>2, <1>3, <1>5
  <2>3. SumFunctionOnSet(ones, D) = 1 * Cardinality(D)
    <3>1. \A i \in D : ones[i] = 1
      OBVIOUS
    <3> HIDE DEF ones
    <3> QED  BY <3>1, SumOfConstant
  <2>4. Cardinality(D) \in Nat \ {0}
    BY FS_CardinalityType, FS_EmptySet
  <2>5. ones \in [D -> Nat]
    OBVIOUS
  <2>6. SumFunction(ones) \in Nat \ {0}
    <3>1. PICK n \in Nat \ {0} : n = Cardinality(D)
      BY <2>4
    <3>2. 1 * n = n
      OBVIOUS
    <3> QED  BY <1>2, <2>3, <3>1, <3>2
  <2> HIDE DEF ones
  <2> QED  BY <2>1, <2>2, <2>5, <2>6
<1>6. CASE SumFunction(w) # 0
  BY <1>2, <1>3, <1>4, <1>6
<1> QED  BY <1>5, <1>6

\* The split of allocate.py: the shares are whole and add up to the total, a larger weight
\* never gets less, and a weight of zero gets nothing beside one that is not.
THEOREM SharesAreFair ==
  ASSUME NEW total \in Nat, NEW D \in SUBSET Nat, IsFiniteSet(D), D # {}, NEW w \in [D -> Nat]
  PROVE  ShareFairly(largest_remainder(total, w), total, w)
<1> DEFINE c == CleanWeights(w)
           W == SumFunction(c)
           whole == [i \in DOMAIN c |-> Whole(total, c, W, i)]
           extra == total - SumFunction(whole)
           s == Split(total, c, W, extra)
           first == FirstPositions(total, c, W, extra)
           unit == [i \in D |-> IF i \in first THEN 1 ELSE 0]
           P == {i \in D : (total * c[i]) % W > 0}
<1>1. c \in [D -> Nat] /\ W \in Nat \ {0}
  BY CleanWeightsAre
<1>2. \A i, j \in D : w[i] > w[j] => c[i] > c[j] /\ c[j] = w[j]
  BY CleanWeightsAre
<1>3. largest_remainder(total, w) = s
  <2>1. (IF total > 0 THEN total ELSE 0) = total
    OBVIOUS
  <2> QED  BY <2>1 DEF largest_remainder
<1>4. W = SumFunctionOnSet(c, D)
  BY <1>1 DEF SumFunction
<1>5. SumFunction(whole) = SumFunctionOnSet(whole, D) /\ \A i \in D : whole[i] = Whole(total, c, W, i)
  BY <1>1 DEF SumFunction
<1>6. DOMAIN s = D /\ \A i \in D : s[i] = whole[i] + unit[i]
  BY <1>1, <1>5 DEF Split, FirstPositions
<1>7. first \subseteq D /\ (\A i \in first : unit[i] = 1) /\ \A i \in D \ first : unit[i] = 0
  BY <1>1 DEF FirstPositions
<1> HIDE DEF c, W, whole
<1>8. (\A i \in D : whole[i] \in Nat) /\ extra \in 0 .. Cardinality(P)
  <2>1. total - SumFunctionOnSet(whole, D) \in 0 .. Cardinality(P)
    BY <1>1, <1>4, <1>5, LeftoverBounds, ZenonT(40)
  <2>2. \A i \in D : whole[i] \in Nat
    <3>1. ASSUME NEW i \in D PROVE whole[i] \in Nat
      <4>1. PICK x \in Nat : x = total * c[i]
        <5>1. c[i] \in Nat
          BY <1>1
        <5> QED  BY <5>1, SMT
      <4>2. x \div W \in Nat
        BY <1>1, <4>1, DivMod
      <4> QED  BY <1>5, <4>1, <4>2 DEF Whole
    <3> QED  BY <3>1
  <2> QED  BY <1>5, <2>1, <2>2
<1>9. P \in SUBSET D /\ IsFiniteSet(P) /\ Cardinality(P) \in Nat /\ Cardinality(D) \in Nat
      /\ Cardinality(P) <= Cardinality(D)
  <2>1. P \in SUBSET D
    OBVIOUS
  <2> HIDE DEF P
  <2> QED  BY <2>1, FS_Subset, FS_CardinalityType
<1> HIDE DEF P, extra, first
<1>10. extra \in 0 .. Cardinality(D) /\ extra \in Nat
  BY <1>8, <1>9
<1>11. Cardinality(first) = extra
  <2>1. c \in [D -> Nat] /\ W \in Nat \ {0} /\ extra \in 0 .. Cardinality(D)
    BY <1>1, <1>10
  <2> QED  BY <2>1, LeftoverIsHandedOut DEF first
<1> HIDE DEF first, unit, s
<1>12. \A i \in D : s[i] \in Nat /\ unit[i] \in Nat
  BY <1>6, <1>7, <1>8
<1>13. SumFunctionOnSet(s, D) = total
  <2>1. SumFunctionOnSet(unit, D) = 1 * Cardinality(first)
    <3>1. PICK n \in Nat : n = 1
      OBVIOUS
    <3>2. IsChosen(unit, D, first, n)
      BY <1>7, <3>1 DEF IsChosen
    <3>3. SumFunctionOnSet(unit, D) = n * Cardinality(first)
      BY <1>7, <3>2, SumOfChosen
    <3> QED  BY <3>1, <3>3
  <2>2. \A i \in D : whole[i] \in Nat /\ unit[i] \in Nat /\ s[i] = whole[i] + unit[i]
    BY <1>6, <1>8, <1>12
  <2>3. SumFunctionOnSet(s, D) = SumFunctionOnSet(whole, D) + SumFunctionOnSet(unit, D)
    BY <2>2, SumPlus
  <2>4. SumFunctionOnSet(whole, D) \in Nat
    BY <1>8, SumFacts
  <2>5. extra = total - SumFunctionOnSet(whole, D)
    BY <1>5 DEF extra
  <2>6. SumFunctionOnSet(unit, D) = extra
    BY <1>10, <1>11, <2>1
  <2> QED  BY <1>10, <2>3, <2>4, <2>5, <2>6
<1>14. ASSUME NEW i \in D, NEW j \in D, w[i] > w[j] PROVE s[i] >= s[j]
  <2>1. CASE total = 0
    <3>1. SumFunctionOnSet(s, D) = s[j] + SumFunctionOnSet(s, D \ {j})
      BY <1>12, SumFacts
    <3>2. SumFunctionOnSet(s, D \ {j}) \in Nat
      <4>1. IsFiniteSet(D \ {j})
        BY FS_Subset
      <4> QED  BY <1>12, <4>1, SumFacts
    <3> QED  BY <1>12, <1>13, <2>1, <3>1, <3>2
  <2>2. CASE total # 0
    <3>1. c[i] > c[j] /\ total \in Nat \ {0}
      BY <1>2, <1>14, <2>2
    <3> QED  BY <1>1, <1>10, <3>1, LargerWeightLargerShare DEF s
  <2> QED  BY <2>1, <2>2
<1>15. ASSUME NEW i \in D, NEW j \in D, w[i] > w[j], w[j] = 0 PROVE s[j] = 0
  <2>1. c[j] = 0 /\ total * 0 = 0
    BY <1>2, <1>15
  <2>2. 0 \div W = 0 /\ 0 % W = 0
    BY <1>1, SMT
  <2>3. whole[j] = 0
    BY <1>5, <2>1, <2>2 DEF Whole
  <2>4. P \in SUBSET Ahead(total, c, W, j)
    <3>1. DOMAIN c = D /\ (total * c[j]) % W = 0
      BY <1>1, <2>1, <2>2
    <3> QED  BY <3>1 DEF P, Ahead
  <2>5. IsFiniteSet(Ahead(total, c, W, j))
    <3>1. Ahead(total, c, W, j) \in SUBSET D
      BY <1>1 DEF Ahead
    <3> QED  BY <3>1, FS_Subset
  <2>6. Cardinality(P) <= Cardinality(Ahead(total, c, W, j)) /\ Cardinality(Ahead(total, c, W, j)) \in Nat
    BY <2>4, <2>5, FS_Subset, FS_CardinalityType
  <2>7. j \notin first
    <3>1. ~(Cardinality(Ahead(total, c, W, j)) < extra)
      BY <1>8, <1>9, <2>6
    <3> QED  BY <3>1 DEF first, FirstPositions
  <2> QED  BY <1>6, <1>7, <2>3, <2>7
<1>16. s \in [D -> Nat]
  BY <1>6, <1>12 DEF s, Split
<1>17. DOMAIN w = D
  OBVIOUS
<1> QED  BY <1>3, <1>13, <1>14, <1>15, <1>16, <1>17 DEF ShareFairly

-----------------------------------------------------------------------------
(* Attribution: the invariant.                                              *)

TunnelRows ==
  [host : Hosts, route : {"target", "refused"}, opened : Nat, closed : Nat \cup {Never},
   own : BOOLEAN, failed : BOOLEAN, negotiation : Nat, payload : Nat]
Asked == {plan.requests[n] : n \in DOMAIN plan.requests}
Hows  == {"flight", "metered", "lost", "around", "cache", "refused", "challenged", "denied"}
Statuses == {0, 200, 302, 403, 407}
RequestRows == [kind : Asked, ts : Nat, how : Hows, status : Statuses, start : Nat]
LineRows == [kind : {"attach", "launch", "request", "blank", "bad"}, ts : Nat, req : Nat]

AttributionTypes ==
  /\ plan \in Plans /\ phase \in {"running", "reading", "done"} /\ clock \in Times
  /\ tunnels \in Seq(TunnelRows) /\ wire \in [Times -> Nat] /\ tripAt \in Times \cup {Never}
  /\ req \in Seq(RequestRows) /\ file \in Seq(LineRows)
  /\ pos \in 0 .. Len(file) /\ log \in Seq(LineRows) /\ dropped \in Nat /\ capped \in Nat

\* A record that a deny rule left has no bytes and was never open; the others are of
\* hosts that may be reached, and none stays open when the job is over.
TunnelsAreTold ==
  \A t \in DOMAIN tunnels :
    /\ tunnels[t].closed = Never => phase = "running"
    /\ tunnels[t].route = "target" => tunnels[t].host \notin Denied \cup Loopback
    /\ tunnels[t].route = "refused" =>
         /\ tunnels[t].closed # Never /\ tunnels[t].host \in Denied
         /\ tunnels[t].negotiation = 0 /\ tunnels[t].payload = 0

\* A record of the host that was not closed when the request started.
Covers(t, i) ==
  tunnels[t].host = HostOf(i) /\ (tunnels[t].closed = Never \/ tunnels[t].closed >= req[i].ts)

\* What is known of a request by how it ended.
Ended(i) ==
  /\ req[i].ts <= clock
  /\ req[i].how = "flight" => req[i].status = 0
  /\ req[i].how = "metered" =>
       /\ req[i].status \in {200, 302}
       /\ \E t \in DOMAIN tunnels : tunnels[t].route = "target" /\ Covers(t, i)
  /\ req[i].how = "denied" =>
       /\ req[i].status \in {0, 403}
       /\ \E t \in DOMAIN tunnels : tunnels[t].route = "refused" /\ Covers(t, i)
  /\ req[i].how = "refused" =>
       req[i].status \in {0, 403} /\ tripAt # Never /\ req[i].ts >= tripAt - TimeSlack
RequestsEnd == \A i \in DOMAIN req : Ended(i)

\* The request that a line is about was seen, and a browser that is Firefox was reported
\* before it; no request has two lines.
IsTrue(n) ==
  /\ file[n].req \in DOMAIN req
  /\ file[n].ts = req[file[n].req].ts
  /\ req[file[n].req].how \notin {"flight", "lost"}
  /\ req[file[n].req].kind.firefox => \E m \in DOMAIN file : m < n /\ file[m].kind = "launch"
RequestLines == {n \in DOMAIN file : file[n].kind = "request"}
LaunchIsFirst ==
  \A i \in DOMAIN req : req[i].kind.firefox => \E n \in DOMAIN file : file[n].kind = "launch"
LinesAreTrue ==
  /\ \A n \in RequestLines : IsTrue(n)
  /\ \A m, n \in RequestLines : file[m].req = file[n].req => m = n

\* What was read: events are lines that are valid, each one once; while there is room, all.
LogIsOfTheFile ==
  /\ \A k \in DOMAIN log : Valid(log[k]) /\ \E n \in 1 .. pos : log[k] = file[n]
  /\ \A k, l \in Requests : log[k].req = log[l].req => k = l
  /\ ~Full => \A n \in 1 .. pos : Valid(file[n]) => \E k \in DOMAIN log : log[k] = file[n]
  /\ \A k \in Requests : Event(k).firefox => Events("launch") # {}

\* What a connection costs before its first request.
SetupOf ==
  [t \in DOMAIN tunnels |->
     tunnels[t].negotiation + IF tunnels[t].own /\ ~tunnels[t].failed THEN Handshake ELSE 0]
WireOf == [i \in DOMAIN req |-> req[i].kind.wire]
Over(h) == {i \in DOMAIN req : HostOf(i) = h /\ req[i].how \in {"metered", "lost"}}

\* A host's records hold its connections and the requests over them, and no more.
BytesAreCarried ==
  \A h \in Hosts :
    Carried(h) = SumFunctionOnSet(SetupOf, TargetTunnels(h)) + SumFunctionOnSet(WireOf, Over(h))

\* The timeline has all bytes of the records.
TimelineIsWhole == SumFunctionOnSet(wire, Times) = SumFunctionOnSet(WithConnect, Target)

\* The valid lines among the first ones, and those of them that fit in the log.
ValidUpTo(p) == {n \in 1 .. p : Valid(file[n])}
FitsIn(p) == {n \in ValidUpTo(p) : Cardinality(ValidUpTo(n)) <= MaxEvents}
Beyond(p) == {n \in 1 .. p : Cardinality(ValidUpTo(n - 1)) >= MaxEvents /\ file[n].kind # "blank"}
Within(p) == {n \in 1 .. p : Cardinality(ValidUpTo(n - 1)) < MaxEvents /\ file[n].kind = "bad"}
ReadingIsTold ==
  /\ log = Picked(file, FitsIn(pos))
  /\ capped = Cardinality(Beyond(pos))
  /\ dropped = capped + Cardinality(Within(pos))
  /\ phase = "running" => pos = 0
  /\ phase = "done" => pos = Len(file)

AttributionInv ==
  /\ AttributionTypes /\ TunnelsAreTold /\ RequestsEnd /\ LaunchIsFirst /\ LinesAreTrue
  /\ LogIsOfTheFile /\ BytesAreCarried /\ TimelineIsWhole /\ ReadingIsTold

-----------------------------------------------------------------------------
(* Attribution: what the steps have in common.                              *)

LEMMA SizesAreNat ==
  /\ MaxTypes \in Nat /\ MaxTypes >= 2 /\ Overhead \in Nat /\ UnknownHeaders \in Nat
  /\ VolumeSlack \in Nat /\ TimeSlack \in Nat /\ MaxGap \in Nat /\ Negotiation \in Nat
  /\ Handshake \in Nat /\ Handshake <= Overhead /\ MaxTime \in Nat
  /\ MaxEvents \in Nat \ {0} /\ Resolution \in Nat \ {0}
  BY SizeAssumption

\* What a request of the job is.
LEMMA KindsAsked ==
  ASSUME AttributionTypes, NEW k \in Asked
  PROVE  IsKind(k) /\ Canon[k.name] \in Hosts
  BY PlanAssumption, SMTT(30) DEF AttributionTypes, Asked, IsKind, Hosts

LEMMA RequestFields ==
  ASSUME AttributionTypes, NEW i \in DOMAIN req
  PROVE  /\ req[i] \in RequestRows /\ req[i].kind \in Asked /\ req[i].ts \in Nat /\ req[i].how \in Hows
         /\ req[i].status \in Statuses /\ IsKind(req[i].kind)
         /\ req[i].kind.wire \in Nat /\ req[i].kind.reported \in Nat /\ HostOf(i) \in Hosts
<1>1. req[i] \in RequestRows
  BY DEF AttributionTypes
<1>2. req[i].kind \in Asked
  BY <1>1 DEF RequestRows
<1>3. IsKind(req[i].kind) /\ Canon[req[i].kind.name] \in Hosts
  BY <1>2, KindsAsked
<1>4. req[i].kind.wire \in Nat /\ req[i].kind.reported \in Nat
  BY <1>3 DEF IsKind
<1> QED  BY <1>1, <1>2, <1>3, <1>4 DEF RequestRows, HostOf

LEMMA TunnelFields ==
  ASSUME AttributionTypes, NEW t \in DOMAIN tunnels
  PROVE  /\ tunnels[t] \in TunnelRows
         /\ tunnels[t].negotiation \in Nat /\ tunnels[t].payload \in Nat
         /\ tunnels[t].host \in Hosts /\ tunnels[t].route \in {"target", "refused"}
         /\ tunnels[t].closed \in Nat \cup {Never}
<1>1. tunnels[t] \in TunnelRows
  BY DEF AttributionTypes
<1> QED  BY <1>1 DEF TunnelRows

LEMMA LineFields ==
  ASSUME AttributionTypes
  PROVE  /\ \A n \in DOMAIN file : file[n] \in LineRows
         /\ \A n \in DOMAIN file : file[n].kind \in {"attach", "launch", "request", "blank", "bad"}
         /\ DOMAIN file = 1 .. Len(file) /\ Len(file) \in Nat
         /\ DOMAIN log = 1 .. Len(log) /\ Len(log) \in Nat
         /\ pos \in Nat /\ pos <= Len(file)
<1>1. DOMAIN file = 1 .. Len(file) /\ Len(file) \in Nat /\ DOMAIN log = 1 .. Len(log) /\ Len(log) \in Nat
  BY DEF AttributionTypes
<1>2. \A n \in DOMAIN file : file[n] \in LineRows
  BY DEF AttributionTypes
<1>3. \A n \in DOMAIN file : file[n].kind \in {"attach", "launch", "request", "blank", "bad"}
  BY <1>2 DEF LineRows
<1>4. pos \in 0 .. Len(file)
  BY DEF AttributionTypes
<1> QED  BY <1>1, <1>2, <1>3, <1>4

\* The sets that sums are over, and their terms.
LEMMA TermsAreNat ==
  ASSUME AttributionTypes
  PROVE  /\ IsFiniteSet(DOMAIN tunnels) /\ IsFiniteSet(Target) /\ IsFiniteSet(Times)
         /\ \A h \in Hosts : IsFiniteSet(TargetTunnels(h)) /\ IsFiniteSet(Over(h))
         /\ \A t \in DOMAIN tunnels : WithConnect[t] \in Nat /\ SetupOf[t] \in Nat
         /\ \A i \in DOMAIN req : WireOf[i] \in Nat
<1>1. IsFiniteSet(1 .. Len(tunnels)) /\ IsFiniteSet(1 .. Len(req)) /\ IsFiniteSet(0 .. MaxTime)
  BY SizesAreNat, FS_Interval DEF AttributionTypes
<1>2. DOMAIN tunnels = 1 .. Len(tunnels) /\ DOMAIN req = 1 .. Len(req)
  BY DEF AttributionTypes
<1>3. IsFiniteSet(Target) /\ IsFiniteSet(Times)
  BY <1>1, <1>2, FS_Subset DEF Target, Times
<1>4. ASSUME NEW h \in Hosts PROVE IsFiniteSet(TargetTunnels(h)) /\ IsFiniteSet(Over(h))
  BY <1>1, <1>2, FS_Subset DEF TargetTunnels, Over
<1>5. ASSUME NEW t \in DOMAIN tunnels PROVE WithConnect[t] \in Nat /\ SetupOf[t] \in Nat
  BY TunnelFields, SizesAreNat DEF WithConnect, SetupOf
<1>6. \A i \in DOMAIN req : WireOf[i] \in Nat
  BY RequestFields DEF WireOf
<1> QED  BY <1>1, <1>2, <1>3, <1>4, <1>5, <1>6

\* What is picked depends on what is at the positions only.
LEMMA PickedFrom ==
  ASSUME NEW S \in SUBSET Nat, IsFiniteSet(S), NEW s, NEW r, \A n \in S : r[n] = s[n]
  PROVE  Picked(r, S) = Picked(s, S)
<1>1. \A k \in 1 .. Cardinality(S) : \E i \in S : Place(S, i) = k
  BY PlacesInOrder
<1>2. \A k \in 1 .. Cardinality(S) : (CHOOSE i \in S : Cardinality({j \in S : j <= i}) = k) \in S
  BY <1>1 DEF Place
<1>3. \A k \in 1 .. Cardinality(S) :
        r[CHOOSE i \in S : Cardinality({j \in S : j <= i}) = k]
          = s[CHOOSE i \in S : Cardinality({j \in S : j <= i}) = k]
  BY <1>2
<1> QED  BY <1>3, SMTT(30) DEF Picked

\* The file only grows, and neither what was read nor the reading changes.
FileGrows ==
  /\ file' \in Seq(LineRows) /\ Len(file) <= Len(file')
  /\ \A n \in DOMAIN file : file'[n] = file[n]
  /\ UNCHANGED intake

LEMMA ReadingStays ==
  ASSUME AttributionTypes, ReadingIsTold, FileGrows,
         phase' = "running" => phase = "running", phase' = "done" => pos = Len(file')
  PROVE  ReadingIsTold'
<1>1. pos' = pos /\ log' = log /\ dropped' = dropped /\ capped' = capped
  BY DEF FileGrows, intake
<1>2. \A n \in 1 .. pos : n \in DOMAIN file /\ file'[n] = file[n]
  BY LineFields DEF FileGrows
<1>3. pos \in Nat
  BY LineFields
<1>4. ASSUME NEW p \in 0 .. pos PROVE ValidUpTo(p)' = ValidUpTo(p)
  BY <1>2, <1>3 DEF ValidUpTo, Valid
<1>5. FitsIn(pos)' = FitsIn(pos)
  <2>1. \A n \in ValidUpTo(pos) : n \in 0 .. pos
    BY <1>3 DEF ValidUpTo
  <2>2. ValidUpTo(pos)' = ValidUpTo(pos)
    <3>1. pos \in 0 .. pos
      BY <1>3
    <3> QED  BY <1>1, <1>4, <3>1
  <2>3. \A n \in ValidUpTo(pos) : ValidUpTo(n)' = ValidUpTo(n)
    BY <1>4, <2>1
  <2> QED  BY <2>2, <2>3, <1>1 DEF FitsIn
<1>6. \A n \in 1 .. pos : n - 1 \in 0 .. pos
  BY <1>3
<1>7. \A n \in 1 .. pos : ValidUpTo(n - 1)' = ValidUpTo(n - 1)
  BY <1>4, <1>6
<1>8. Beyond(pos)' = Beyond(pos) /\ Within(pos)' = Within(pos)
  BY <1>1, <1>2, <1>7 DEF Beyond, Within
<1>9. Picked(file', FitsIn(pos)) = Picked(file, FitsIn(pos))
  <2>1. FitsIn(pos) \in SUBSET (1 .. pos)
    BY DEF FitsIn, ValidUpTo
  <2>2. IsFiniteSet(FitsIn(pos))
    BY <1>3, <2>1, FS_Interval, FS_Subset
  <2> DEFINE S == FitsIn(pos)
  <2> HIDE DEF S
  <2> SUFFICES Picked(file', S) = Picked(file, S)
    BY DEF S
  <2>3. \A n \in S : file'[n] = file[n]
    BY <1>2, <2>1 DEF S
  <2>4. S \in SUBSET Nat /\ IsFiniteSet(S)
    BY <2>1, <2>2 DEF S
  <2> QED  BY <2>3, <2>4, PickedFrom
<1>10. log = Picked(file, FitsIn(pos)) /\ capped = Cardinality(Beyond(pos))
       /\ dropped = capped + Cardinality(Within(pos))
  BY DEF ReadingIsTold
<1>11. log' = Picked(file', FitsIn(pos)') /\ capped' = Cardinality(Beyond(pos)')
       /\ dropped' = capped' + Cardinality(Within(pos)')
  BY <1>1, <1>5, <1>8, <1>9, <1>10
<1>12. /\ phase' = "running" => pos' = 0
       /\ phase' = "done" => pos' = Len(file')
  BY <1>1 DEF ReadingIsTold
<1> QED  BY <1>1, <1>11, <1>12 DEF ReadingIsTold

\* Requests keep what they are while others start and end.
RequestsKept ==
  \A i \in DOMAIN req : i \in DOMAIN req' /\ req'[i].kind = req[i].kind /\ req'[i].ts = req[i].ts

LEMMA LogStays ==
  ASSUME AttributionTypes, LinesAreTrue, LogIsOfTheFile, FileGrows, RequestsKept
  PROVE  LogIsOfTheFile'
<1>1. pos' = pos /\ log' = log
  BY DEF FileGrows, intake
<1>2. \A n \in 1 .. pos : n \in DOMAIN file /\ file'[n] = file[n]
  BY LineFields DEF FileGrows
<1>3. Requests' = Requests /\ Events("launch")' = Events("launch") /\ Full' = Full
  BY <1>1 DEF Requests, Events, Full
<1>4. ASSUME NEW k \in Requests PROVE Event(k)' = Event(k)
  <2>1. k \in DOMAIN log /\ log[k].kind = "request"
    BY DEF Requests, Events
  <2>2. PICK n \in 1 .. pos : log[k] = file[n]
    BY <2>1 DEF LogIsOfTheFile
  <2>3. n \in RequestLines
    BY <1>2, <2>1, <2>2 DEF RequestLines
  <2>4. log[k].req \in DOMAIN req
    BY <2>2, <2>3 DEF LinesAreTrue, IsTrue
  <2> QED  BY <1>1, <2>4 DEF Event, Made, RequestsKept
<1>5. (\A k \in DOMAIN log : Valid(log[k]) /\ \E n \in 1 .. pos : log[k] = file[n])'
  <2>1. \A k \in DOMAIN log : Valid(log[k]) /\ \E n \in 1 .. pos : log[k] = file[n]
    BY DEF LogIsOfTheFile
  <2>2. \A k \in DOMAIN log : Valid(log[k]) /\ \E n \in 1 .. pos : log[k] = file'[n]
    BY <1>2, <2>1
  <2> QED  BY <1>1, <2>2 DEF Valid
<1>6. (\A k, l \in Requests : log[k].req = log[l].req => k = l)'
  BY <1>1, <1>3 DEF LogIsOfTheFile
<1>7. (~Full => \A n \in 1 .. pos : Valid(file[n]) => \E k \in DOMAIN log : log[k] = file[n])'
  BY <1>1, <1>2, <1>3 DEF LogIsOfTheFile, Valid
<1>8. (\A k \in Requests : Event(k).firefox => Events("launch") # {})'
  BY <1>3, <1>4 DEF LogIsOfTheFile
<1> QED  BY <1>5, <1>6, <1>7, <1>8 DEF LogIsOfTheFile

\* Lines stay true when requests keep what they are and none that was seen is unseen.
LEMMA LinesStay ==
  ASSUME AttributionTypes, LinesAreTrue, RequestsKept, file' = file,
         \A i \in DOMAIN req : req[i].how \notin {"flight", "lost"} => req'[i].how \notin {"flight", "lost"}
  PROVE  LinesAreTrue'
<1>1. RequestLines' = RequestLines
  BY DEF RequestLines
<1>2. ASSUME NEW n \in RequestLines PROVE IsTrue(n)'
  <2>1. IsTrue(n)
    BY DEF LinesAreTrue
  <2> QED  BY <2>1 DEF IsTrue, RequestsKept
<1> QED  BY <1>1, <1>2 DEF LinesAreTrue

\* Records keep their hosts and routes, and one that was open may close now.
TunnelsKept ==
  \A t \in DOMAIN tunnels :
    /\ t \in DOMAIN tunnels'
    /\ tunnels'[t].host = tunnels[t].host /\ tunnels'[t].route = tunnels[t].route
    /\ tunnels'[t].closed = tunnels[t].closed \/ (tunnels[t].closed = Never /\ tunnels'[t].closed = clock)

LEMMA CoverStays ==
  ASSUME AttributionTypes, TunnelsKept, NEW i \in DOMAIN req, i \in DOMAIN req', req[i].ts <= clock,
         req'[i].kind = req[i].kind, req'[i].ts = req[i].ts, NEW t \in DOMAIN tunnels, Covers(t, i)
  PROVE  t \in DOMAIN tunnels' /\ Covers(t, i)' /\ tunnels'[t].route = tunnels[t].route
<1>1. HostOf(i)' = HostOf(i)
  BY DEF HostOf
<1>2. clock \in Nat /\ req[i].ts \in Nat
  BY RequestFields, SizesAreNat DEF AttributionTypes, Times
<1> QED  BY <1>1, <1>2 DEF Covers, TunnelsKept

LEMMA EndedStays ==
  ASSUME AttributionTypes, TunnelsKept, NEW i \in DOMAIN req, i \in DOMAIN req', req'[i] = req[i],
         Ended(i), clock' \in Nat, clock <= clock', tripAt # Never => tripAt' = tripAt
  PROVE  Ended(i)'
<1>0. clock \in Nat /\ req[i].ts \in Nat /\ req[i].ts <= clock
  BY RequestFields, SizesAreNat DEF AttributionTypes, Times, Ended
<1>1. (req[i].ts <= clock)'
  BY <1>0
<1>2. (req[i].how = "flight" => req[i].status = 0)'
  BY DEF Ended
<1>3. ASSUME req'[i].how = "metered"
      PROVE  /\ req'[i].status \in {200, 302}
             /\ \E t \in DOMAIN tunnels' : tunnels'[t].route = "target" /\ Covers(t, i)'
  <2>1. req[i].status \in {200, 302}
    BY <1>3 DEF Ended
  <2>2. PICK t \in DOMAIN tunnels : tunnels[t].route = "target" /\ Covers(t, i)
    BY <1>3 DEF Ended
  <2> QED  BY <1>0, <2>1, <2>2, CoverStays
<1>4. ASSUME req'[i].how = "denied"
      PROVE  /\ req'[i].status \in {0, 403}
             /\ \E t \in DOMAIN tunnels' : tunnels'[t].route = "refused" /\ Covers(t, i)'
  <2>1. req[i].status \in {0, 403}
    BY <1>4 DEF Ended
  <2>2. PICK t \in DOMAIN tunnels : tunnels[t].route = "refused" /\ Covers(t, i)
    BY <1>4 DEF Ended
  <2> QED  BY <1>0, <2>1, <2>2, CoverStays
<1>5. (req[i].how = "refused" =>
         req[i].status \in {0, 403} /\ tripAt # Never /\ req[i].ts >= tripAt - TimeSlack)'
  BY DEF Ended
<1> QED  BY <1>1, <1>2, <1>3, <1>4, <1>5 DEF Ended

\* The records of a host and the requests over them keep what they cost.
LEMMA BytesStay ==
  ASSUME AttributionTypes, BytesAreCarried, NEW h \in Hosts, TargetTunnels(h)' = TargetTunnels(h),
         \A t \in TargetTunnels(h) : WithConnect'[t] = WithConnect[t] /\ SetupOf'[t] = SetupOf[t],
         Over(h)' = Over(h), \A i \in Over(h) : WireOf'[i] = WireOf[i]
  PROVE  Carried(h)' = SumFunctionOnSet(SetupOf, TargetTunnels(h))' + SumFunctionOnSet(WireOf, Over(h))'
<1>1. IsFiniteSet(TargetTunnels(h)) /\ IsFiniteSet(Over(h))
  BY TermsAreNat
<1>2. /\ \A t \in TargetTunnels(h) : WithConnect[t] \in Nat /\ SetupOf[t] \in Nat
      /\ \A i \in Over(h) : WireOf[i] \in Nat
  BY TermsAreNat DEF TargetTunnels, Over
<1> DEFINE T == TargetTunnels(h)
           O == Over(h)
<1> HIDE DEF T, O
<1>3. SumFunctionOnSet(WithConnect', T) = SumFunctionOnSet(WithConnect, T)
  BY <1>1, <1>2, SumSame DEF T
<1>4. SumFunctionOnSet(SetupOf', T) = SumFunctionOnSet(SetupOf, T)
  BY <1>1, <1>2, SumSame DEF T
<1>5. SumFunctionOnSet(WireOf', O) = SumFunctionOnSet(WireOf, O)
  BY <1>1, <1>2, SumSame DEF O
<1>6. Carried(h) = SumFunctionOnSet(SetupOf, T) + SumFunctionOnSet(WireOf, O)
  BY DEF BytesAreCarried, T, O
<1>7. SumFunctionOnSet(WithConnect, T) = Carried(h)
  BY DEF Carried, T
<1> QED  BY <1>3, <1>4, <1>5, <1>6, <1>7 DEF Carried, T, O

\* No record changes but for its close, and none is added.
CostsKept ==
  /\ DOMAIN tunnels' = DOMAIN tunnels
  /\ \A t \in DOMAIN tunnels :
       /\ tunnels'[t].host = tunnels[t].host /\ tunnels'[t].route = tunnels[t].route
       /\ tunnels'[t].own = tunnels[t].own /\ tunnels'[t].failed = tunnels[t].failed
       /\ tunnels'[t].negotiation = tunnels[t].negotiation /\ tunnels'[t].payload = tunnels[t].payload

LEMMA CarriedStays ==
  ASSUME AttributionTypes, BytesAreCarried, TimelineIsWhole, CostsKept, RequestsKept, wire' = wire,
         \A h \in Hosts : Over(h)' = Over(h)
  PROVE  BytesAreCarried' /\ TimelineIsWhole'
<1>1. \A t \in DOMAIN tunnels : WithConnect'[t] = WithConnect[t] /\ SetupOf'[t] = SetupOf[t]
  BY DEF CostsKept, WithConnect, SetupOf
<1>2. Target' = Target
  BY DEF CostsKept, Target
<1>3. ASSUME NEW h \in Hosts
      PROVE  Carried(h)' = SumFunctionOnSet(SetupOf, TargetTunnels(h))' + SumFunctionOnSet(WireOf, Over(h))'
  <2>1. TargetTunnels(h)' = TargetTunnels(h) /\ \A t \in TargetTunnels(h) : t \in DOMAIN tunnels
    BY DEF CostsKept, TargetTunnels
  <2>2. \A i \in Over(h) : WireOf'[i] = WireOf[i]
    BY DEF RequestsKept, WireOf, Over
  <2> QED  BY <1>1, <2>1, <2>2, BytesStay
<1>4. TimelineIsWhole'
  <2>1. IsFiniteSet(Target) /\ \A t \in Target : WithConnect[t] \in Nat /\ WithConnect'[t] = WithConnect[t]
    BY <1>1, TermsAreNat DEF Target
  <2> DEFINE T == Target
             v == WithConnect
             w == WithConnect'
  <2>2. SumFunctionOnSet(w, T) = SumFunctionOnSet(v, T)
    <3> HIDE DEF T, v, w
    <3>1. IsFiniteSet(T) /\ \A t \in T : v[t] \in Nat /\ w[t] = v[t]
      BY <2>1 DEF T, v, w
    <3> QED  BY <3>1, SumSame
  <2> QED  BY <1>2, <2>2 DEF TimelineIsWhole
<1> QED  BY <1>3, <1>4 DEF BytesAreCarried

\* Records close, now, and nothing else happens to them.
RecordsClose ==
  /\ DOMAIN tunnels' = DOMAIN tunnels
  /\ \A t \in DOMAIN tunnels :
       \/ tunnels'[t] = tunnels[t]
       \/ IsOpen(t) /\ tunnels'[t] = [tunnels[t] EXCEPT !.closed = clock]

LEMMA RecordsCloseKeeps ==
  ASSUME AttributionTypes, TunnelsAreTold, RecordsClose, tunnels' \in Seq(TunnelRows)
  PROVE  /\ CostsKept /\ TunnelsKept
         /\ \A t \in DOMAIN tunnels : tunnels'[t].closed = Never => tunnels[t].closed = Never
         /\ (phase' = phase \/ \A t \in DOMAIN tunnels : tunnels'[t].closed # Never) => TunnelsAreTold'
<1>1. \A t \in DOMAIN tunnels : tunnels[t] \in TunnelRows
  BY TunnelFields
<1>2. clock \in Nat /\ clock # Never
  BY SizesAreNat DEF AttributionTypes, Times, Never
<1>3. ASSUME NEW t \in DOMAIN tunnels
      PROVE  /\ tunnels'[t].host = tunnels[t].host /\ tunnels'[t].route = tunnels[t].route
             /\ tunnels'[t].own = tunnels[t].own /\ tunnels'[t].failed = tunnels[t].failed
             /\ tunnels'[t].negotiation = tunnels[t].negotiation /\ tunnels'[t].payload = tunnels[t].payload
             /\ tunnels'[t].closed = tunnels[t].closed \/ (tunnels[t].closed = Never /\ tunnels'[t].closed = clock)
  BY <1>1 DEF RecordsClose, IsOpen, TunnelRows
<1>4. CostsKept /\ TunnelsKept
  BY <1>3 DEF CostsKept, TunnelsKept, RecordsClose
<1>5. \A t \in DOMAIN tunnels : tunnels'[t].closed = Never => tunnels[t].closed = Never
  BY <1>2, <1>3
<1>6. ASSUME phase' = phase \/ \A t \in DOMAIN tunnels : tunnels'[t].closed # Never
      PROVE  TunnelsAreTold'
  <2>1. DOMAIN tunnels' = DOMAIN tunnels
    BY DEF RecordsClose
  <2>2. ASSUME NEW t \in DOMAIN tunnels
        PROVE  /\ tunnels'[t].closed = Never => phase' = "running"
               /\ tunnels'[t].route = "target" => tunnels'[t].host \notin Denied \cup Loopback
               /\ tunnels'[t].route = "refused" =>
                    /\ tunnels'[t].closed # Never /\ tunnels'[t].host \in Denied
                    /\ tunnels'[t].negotiation = 0 /\ tunnels'[t].payload = 0
    BY <1>2, <1>3, <1>5, <1>6 DEF TunnelsAreTold
  <2> QED  BY <2>1, <2>2 DEF TunnelsAreTold
<1> QED  BY <1>4, <1>5, <1>6

LEMMA RequestsStay ==
  ASSUME AttributionTypes, RequestsEnd, TunnelsKept, UNCHANGED req,
         clock' \in Nat, clock <= clock', tripAt # Never => tripAt' = tripAt
  PROVE  RequestsEnd' /\ RequestsKept /\ \A h \in Hosts : Over(h)' = Over(h)
<1>1. \A i \in DOMAIN req : Ended(i)'
  BY EndedStays DEF RequestsEnd
<1> QED  BY <1>1 DEF RequestsEnd, RequestsKept, Over, HostOf

LEMMA TunnelsUnchanged ==
  ASSUME UNCHANGED tunnels
  PROVE  TunnelsKept /\ CostsKept
  BY DEF TunnelsKept, CostsKept

LEMMA FileUnchanged ==
  ASSUME AttributionTypes, UNCHANGED <<file, pos, log, dropped, capped>>
  PROVE  FileGrows
  BY LineFields DEF FileGrows, intake, AttributionTypes

LEMMA FileAppended ==
  ASSUME AttributionTypes, NEW l \in LineRows, file' = Append(file, l),
         UNCHANGED <<pos, log, dropped, capped>>
  PROVE  /\ FileGrows /\ DOMAIN file' = DOMAIN file \cup {Len(file) + 1}
         /\ Len(file') = Len(file) + 1 /\ file'[Len(file) + 1] = l /\ Len(file) + 1 \notin DOMAIN file
<1>1. file \in Seq(LineRows)
  BY DEF AttributionTypes
<1>2. file' \in Seq(LineRows) /\ Len(file') = Len(file) + 1 /\ file'[Len(file) + 1] = l
      /\ \A n \in 1 .. Len(file) : file'[n] = file[n]
  BY <1>1, AppendProperties
<1>3. DOMAIN file = 1 .. Len(file) /\ DOMAIN file' = 1 .. Len(file) + 1 /\ Len(file) \in Nat
  BY <1>1, <1>2
<1>4. Len(file) <= Len(file')
  BY <1>2, <1>3
<1> QED  BY <1>2, <1>3, <1>4 DEF FileGrows, intake

\* A line that is about no request.
LEMMA OtherLine ==
  ASSUME AttributionTypes, LinesAreTrue, LaunchIsFirst, NEW l \in LineRows, l.kind # "request",
         file' = Append(file, l), UNCHANGED <<req, pos, log, dropped, capped>>
  PROVE  LinesAreTrue' /\ LaunchIsFirst'
<1>1. FileGrows /\ DOMAIN file' = DOMAIN file \cup {Len(file) + 1} /\ file'[Len(file) + 1] = l
  BY FileAppended
<1>2. \A n \in DOMAIN file : file'[n] = file[n] /\ n \in DOMAIN file'
  BY <1>1 DEF FileGrows
<1>3. RequestLines' = RequestLines
  BY <1>1, <1>2 DEF RequestLines
<1>4. \A n \in RequestLines : n \in DOMAIN file
  BY DEF RequestLines
<1>5. ASSUME NEW n \in RequestLines PROVE IsTrue(n)'
  BY <1>2, <1>4 DEF LinesAreTrue, IsTrue
<1>6. LinesAreTrue'
  BY <1>2, <1>3, <1>4, <1>5 DEF LinesAreTrue
<1>7. LaunchIsFirst'
  BY <1>2 DEF LaunchIsFirst
<1> QED  BY <1>6, <1>7

-----------------------------------------------------------------------------
(* Attribution: the steps of the job.                                       *)

LEMMA AttributionStarts == Init => AttributionInv
<1> SUFFICES ASSUME Init PROVE AttributionInv
  OBVIOUS
<1>0. 0 \in Times /\ 0 \in Nat
  BY SizesAreNat DEF Times
<1>1. AttributionTypes
  <2>1. <<>> \in Seq(TunnelRows) /\ <<>> \in Seq(RequestRows) /\ <<>> \in Seq(LineRows) /\ Len(<<>>) = 0
    OBVIOUS
  <2>2. [t \in Times |-> 0] \in [Times -> Nat]
    BY <1>0
  <2> QED  BY <1>0, <2>1, <2>2 DEF Init, AttributionTypes
<1>2. TunnelsAreTold /\ RequestsEnd /\ LaunchIsFirst
  BY DEF Init, TunnelsAreTold, RequestsEnd, LaunchIsFirst
<1>3. LinesAreTrue /\ LogIsOfTheFile
  BY DEF Init, LinesAreTrue, RequestLines, LogIsOfTheFile, Requests, Events
<1>4. BytesAreCarried /\ TimelineIsWhole
  <2>1. \A h \in Hosts : TargetTunnels(h) = {} /\ Over(h) = {}
    BY DEF Init, TargetTunnels, Over
  <2>2. Target = {}
    BY DEF Init, Target
  <2>3. \A v : SumFunctionOnSet(v, {}) = 0
    BY FS_EmptySet, SumFacts
  <2>4. SumFunctionOnSet(wire, Times) = 0
    BY TermsAreNat, <1>1, SumOfZeros DEF Init
  <2> QED  BY <2>1, <2>2, <2>3, <2>4 DEF BytesAreCarried, TimelineIsWhole, Carried
<1>5. ReadingIsTold
  <2>1. pos = 0 /\ log = <<>> /\ dropped = 0 /\ capped = 0 /\ phase = "running"
    BY DEF Init
  <2>2. FitsIn(0) = {} /\ Beyond(0) = {} /\ Within(0) = {}
    BY DEF FitsIn, ValidUpTo, Beyond, Within
  <2>3. Cardinality({}) = 0
    BY FS_EmptySet
  <2>4. Picked(file, {}) = <<>>
    <3>1. 1 .. 0 = {}
      OBVIOUS
    <3>2. Picked(file, {}) = [k \in {} |-> file[CHOOSE i \in {} : Cardinality({j \in {} : j <= i}) = k]]
      BY <2>3, <3>1 DEF Picked
    <3> QED  BY <3>2
  <2>5. log = Picked(file, FitsIn(pos)) /\ capped = Cardinality(Beyond(pos))
    BY <2>1, <2>2, <2>3, <2>4
  <2>6. dropped = capped + Cardinality(Within(pos))
    <3>1. Cardinality(Within(pos)) = 0
      BY <2>1, <2>2, <2>3
    <3> QED  BY <2>1, <3>1
  <2> QED  BY <2>1, <2>5, <2>6 DEF ReadingIsTold
<1> QED  BY <1>1, <1>2, <1>3, <1>4, <1>5 DEF AttributionInv

\* Time passes.
LEMMA TickKeeps ==
  ASSUME AttributionInv, Tick
  PROVE  AttributionInv'
<1> USE DEF AttributionInv
<1>1. AttributionTypes'
  <2>1. plan \in Plans /\ clock \in Times /\ clock < plan.time
    BY DEF AttributionTypes, Tick
  <2>2. plan.time \in Times
    BY <2>1, PlanAssumption
  <2>3. clock + 1 \in Times
    BY <2>1, <2>2, SizesAreNat DEF Times
  <2> QED  BY <2>3 DEF AttributionTypes, Tick, job, intake, RequestRows, Asked
<1>2. clock \in Nat /\ clock' \in Nat /\ clock <= clock'
  BY SizesAreNat DEF AttributionTypes, Times, Tick
<1>3. /\ UNCHANGED <<tunnels, wire, tripAt, req, file, pos, log, dropped, capped, phase>>
      /\ phase = "running"
  BY DEF Tick, job, intake
<1>4. TunnelsKept /\ CostsKept /\ FileGrows
  BY <1>3, TunnelsUnchanged, FileUnchanged
<1>5. RequestsEnd' /\ RequestsKept /\ \A h \in Hosts : Over(h)' = Over(h)
  BY <1>2, <1>3, <1>4, RequestsStay
<1>6. TunnelsAreTold'
  BY <1>3 DEF TunnelsAreTold
<1>7. LaunchIsFirst'
  BY <1>3 DEF LaunchIsFirst
<1>8. LinesAreTrue'
  BY <1>3, <1>5, LinesStay
<1>9. LogIsOfTheFile'
  BY <1>4, <1>5, LogStays
<1>10. BytesAreCarried' /\ TimelineIsWhole'
  BY <1>3, <1>4, <1>5, CarriedStays
<1>11. ReadingIsTold'
  BY <1>3, <1>4, ReadingStays
<1> QED  BY <1>1, <1>5, <1>6, <1>7, <1>8, <1>9, <1>10, <1>11

\* A line about no request is appended.
LEMMA AppendsKeep ==
  ASSUME AttributionInv, NEW l \in LineRows, l.kind # "request", file' = Append(file, l),
         phase # "done", UNCHANGED <<phase, clock, job, intake>>
  PROVE  AttributionInv'
<1> USE DEF AttributionInv
<1>1. UNCHANGED <<plan, tunnels, wire, tripAt, req, pos, log, dropped, capped, phase, clock>>
  BY DEF job, intake
<1>2. FileGrows /\ Len(file') = Len(file) + 1
  BY <1>1, FileAppended
<1>3. AttributionTypes'
  <2>1. pos' \in 0 .. Len(file')
    BY <1>1, <1>2, LineFields
  <2> QED  BY <1>1, <1>2, <2>1 DEF AttributionTypes, FileGrows, RequestRows, Asked
<1>4. TunnelsKept /\ CostsKept
  BY <1>1, TunnelsUnchanged
<1>5. clock \in Nat
  BY SizesAreNat DEF AttributionTypes, Times
<1>6. RequestsEnd' /\ RequestsKept /\ \A h \in Hosts : Over(h)' = Over(h)
  BY <1>1, <1>4, <1>5, RequestsStay
<1>7. TunnelsAreTold'
  BY <1>1 DEF TunnelsAreTold
<1>8. LinesAreTrue' /\ LaunchIsFirst'
  BY <1>1, OtherLine
<1>9. LogIsOfTheFile'
  BY <1>2, <1>6, LogStays
<1>10. BytesAreCarried' /\ TimelineIsWhole'
  BY <1>1, <1>4, <1>6, CarriedStays
<1>11. ReadingIsTold'
  <2>1. phase' # "done"
    BY <1>1
  <2> QED  BY <1>1, <1>2, <2>1, ReadingStays
<1> QED  BY <1>3, <1>6, <1>7, <1>8, <1>9, <1>10, <1>11

LEMMA ObserveKeeps ==
  ASSUME AttributionInv, NEW kind \in {"attach", "launch"}, Observe(kind)
  PROVE  AttributionInv'
<1>1. Line(kind, clock, 0) \in LineRows
  BY SizesAreNat DEF Line, LineRows, AttributionInv, AttributionTypes, Times
<1>2. Line(kind, clock, 0).kind # "request"
  BY DEF Line
<1> QED  BY <1>1, <1>2, AppendsKeep DEF Observe

LEMMA ScribbleKeeps ==
  ASSUME AttributionInv, NEW kind \in {"blank", "bad"}, Scribble(kind)
  PROVE  AttributionInv'
<1>1. Line(kind, clock, 0) \in LineRows
  BY SizesAreNat DEF Line, LineRows, AttributionInv, AttributionTypes, Times
<1>2. Line(kind, clock, 0).kind # "request"
  BY DEF Line
<1> QED  BY <1>1, <1>2, AppendsKeep DEF Scribble

\* Tunnels close: one, or all when the budget trips and when the job is over.
LEMMA ClosesKeep ==
  ASSUME AttributionInv, RecordsClose, tunnels' \in Seq(TunnelRows),
         UNCHANGED <<plan, clock, wire, req, file, pos, log, dropped, capped>>,
         phase' \in {"running", "reading"}, phase = "running",
         phase' = "running" \/ \A t \in DOMAIN tunnels : tunnels'[t].closed # Never,
         tripAt' \in Times \cup {Never}, tripAt # Never => tripAt' = tripAt
  PROVE  AttributionInv'
<1> USE DEF AttributionInv
<1>1. AttributionTypes'
  BY DEF AttributionTypes, RequestRows, Asked
<1>2. /\ CostsKept /\ TunnelsKept
      /\ (phase' = phase \/ \A t \in DOMAIN tunnels : tunnels'[t].closed # Never) => TunnelsAreTold'
  BY RecordsCloseKeeps
<1>3. clock \in Nat
  BY SizesAreNat DEF AttributionTypes, Times
<1>4. FileGrows
  BY FileUnchanged
<1>5. RequestsEnd' /\ RequestsKept /\ \A h \in Hosts : Over(h)' = Over(h)
  BY <1>2, <1>3, RequestsStay
<1>6. TunnelsAreTold'
  BY <1>2
<1>7. LaunchIsFirst'
  BY DEF LaunchIsFirst
<1>8. LinesAreTrue'
  BY <1>5, LinesStay
<1>9. LogIsOfTheFile'
  BY <1>4, <1>5, LogStays
<1>10. BytesAreCarried' /\ TimelineIsWhole'
  BY <1>2, <1>5, CarriedStays
<1>11. ReadingIsTold'
  BY <1>4, ReadingStays
<1> QED  BY <1>1, <1>5, <1>6, <1>7, <1>8, <1>9, <1>10, <1>11

LEMMA CloseAllCloses ==
  ASSUME AttributionTypes, tunnels' = CloseAll
  PROVE  /\ RecordsClose /\ tunnels' \in Seq(TunnelRows)
         /\ \A t \in DOMAIN tunnels : tunnels'[t].closed # Never
<1>1. clock \in Nat /\ clock # Never
  BY SizesAreNat DEF AttributionTypes, Times, Never
<1>2. \A t \in DOMAIN tunnels : tunnels[t] \in TunnelRows
  BY TunnelFields
<1>3. DOMAIN tunnels' = DOMAIN tunnels
  BY DEF CloseAll
<1>4. ASSUME NEW t \in DOMAIN tunnels
      PROVE  /\ tunnels'[t] = IF IsOpen(t) THEN [tunnels[t] EXCEPT !.closed = clock] ELSE tunnels[t]
             /\ tunnels'[t] \in TunnelRows /\ tunnels'[t].closed # Never
  <2>1. tunnels'[t] = IF IsOpen(t) THEN [tunnels[t] EXCEPT !.closed = clock] ELSE tunnels[t]
    BY DEF CloseAll
  <2>2. [tunnels[t] EXCEPT !.closed = clock] \in TunnelRows /\ [tunnels[t] EXCEPT !.closed = clock].closed = clock
    BY <1>1, <1>2 DEF TunnelRows
  <2> QED  BY <1>1, <1>2, <2>1, <2>2 DEF IsOpen
<1>5. RecordsClose
  BY <1>3, <1>4 DEF RecordsClose
<1>6. tunnels' \in Seq(TunnelRows)
  <2>1. DOMAIN tunnels = 1 .. Len(tunnels) /\ Len(tunnels) \in Nat
    BY DEF AttributionTypes
  <2>2. tunnels' = [t \in 1 .. Len(tunnels) |-> tunnels'[t]]
    BY <2>1 DEF CloseAll
  <2> QED  BY <1>4, <2>1, <2>2
<1> QED  BY <1>4, <1>5, <1>6

LEMMA CloseTunnelKeeps ==
  ASSUME AttributionInv, NEW t \in DOMAIN tunnels, CloseTunnel(t)
  PROVE  AttributionInv'
<1> USE DEF AttributionInv
<1>1. clock \in Nat
  BY SizesAreNat DEF AttributionTypes, Times
<1>2. tunnels[t] \in TunnelRows
  BY TunnelFields
<1>3. [tunnels[t] EXCEPT !.closed = clock] \in TunnelRows
  BY <1>1, <1>2 DEF TunnelRows
<1>4. tunnels' = [tunnels EXCEPT ![t] = [tunnels[t] EXCEPT !.closed = clock]]
  BY DEF CloseTunnel
<1>5. tunnels' \in Seq(TunnelRows)
  BY <1>3, <1>4 DEF AttributionTypes
<1>6. RecordsClose
  BY <1>4 DEF RecordsClose, CloseTunnel
<1> QED  BY <1>5, <1>6, ClosesKeep DEF CloseTunnel, AttributionTypes, intake

LEMMA TripKeeps ==
  ASSUME AttributionInv, Trip
  PROVE  AttributionInv'
<1> USE DEF AttributionInv
<1>1. RecordsClose /\ tunnels' \in Seq(TunnelRows)
  BY CloseAllCloses DEF Trip
<1> QED  BY <1>1, ClosesKeep DEF Trip, AttributionTypes, intake

LEMMA EndJobKeeps ==
  ASSUME AttributionInv, EndJob
  PROVE  AttributionInv'
<1> USE DEF AttributionInv
<1>1. RecordsClose /\ tunnels' \in Seq(TunnelRows) /\ \A t \in DOMAIN tunnels : tunnels'[t].closed # Never
  BY CloseAllCloses DEF EndJob
<1> QED  BY <1>1, ClosesKeep DEF EndJob, AttributionTypes, intake

\* A record is appended.
LEMMA RecordAppended ==
  ASSUME AttributionTypes, NEW r \in TunnelRows, tunnels' = Append(tunnels, r)
  PROVE  /\ tunnels' \in Seq(TunnelRows) /\ TunnelsKept
         /\ DOMAIN tunnels' = DOMAIN tunnels \cup {Len(tunnels) + 1}
         /\ Len(tunnels) + 1 \notin DOMAIN tunnels /\ tunnels'[Len(tunnels) + 1] = r
         /\ \A t \in DOMAIN tunnels : tunnels'[t] = tunnels[t]
<1>1. tunnels \in Seq(TunnelRows)
  BY DEF AttributionTypes
<1>2. /\ tunnels' \in Seq(TunnelRows) /\ Len(tunnels') = Len(tunnels) + 1
      /\ tunnels'[Len(tunnels) + 1] = r /\ \A t \in 1 .. Len(tunnels) : tunnels'[t] = tunnels[t]
  BY <1>1, AppendProperties
<1>3. DOMAIN tunnels = 1 .. Len(tunnels) /\ DOMAIN tunnels' = 1 .. Len(tunnels) + 1 /\ Len(tunnels) \in Nat
  BY <1>1, <1>2
<1> QED  BY <1>2, <1>3 DEF TunnelsKept

\* What the appended record adds to the sums over the records.
LEMMA RecordCosts ==
  ASSUME AttributionTypes, NEW r \in TunnelRows, tunnels' = Append(tunnels, r)
  PROVE  /\ \A t \in DOMAIN tunnels : WithConnect'[t] = WithConnect[t] /\ SetupOf'[t] = SetupOf[t]
         /\ WithConnect'[Len(tunnels) + 1] = r.negotiation + r.payload
         /\ SetupOf'[Len(tunnels) + 1] = r.negotiation + IF r.own /\ ~r.failed THEN Handshake ELSE 0
         /\ \A h \in Hosts :
              TargetTunnels(h)' = TargetTunnels(h)
                \cup IF r.host = h /\ r.route = "target" THEN {Len(tunnels) + 1} ELSE {}
         /\ Target' = Target \cup IF r.route = "target" THEN {Len(tunnels) + 1} ELSE {}
<1>1. /\ DOMAIN tunnels' = DOMAIN tunnels \cup {Len(tunnels) + 1}
      /\ tunnels'[Len(tunnels) + 1] = r /\ \A t \in DOMAIN tunnels : tunnels'[t] = tunnels[t]
  BY RecordAppended
<1>2. \A t \in DOMAIN tunnels : WithConnect'[t] = WithConnect[t] /\ SetupOf'[t] = SetupOf[t]
  BY <1>1 DEF WithConnect, SetupOf
<1>3. /\ WithConnect'[Len(tunnels) + 1] = r.negotiation + r.payload
      /\ SetupOf'[Len(tunnels) + 1] = r.negotiation + IF r.own /\ ~r.failed THEN Handshake ELSE 0
  BY <1>1 DEF WithConnect, SetupOf
<1>4. ASSUME NEW h \in Hosts
      PROVE  TargetTunnels(h)' = TargetTunnels(h)
               \cup IF r.host = h /\ r.route = "target" THEN {Len(tunnels) + 1} ELSE {}
  <2>1. TargetTunnels(h)' = {t \in DOMAIN tunnels' : tunnels'[t].host = h /\ tunnels'[t].route = "target"}
    BY DEF TargetTunnels
  <2> QED  BY <1>1, <2>1 DEF TargetTunnels
<1>5. Target' = Target \cup IF r.route = "target" THEN {Len(tunnels) + 1} ELSE {}
  <2>1. Target' = {t \in DOMAIN tunnels' : tunnels'[t].route = "target"}
    BY DEF Target
  <2> QED  BY <1>1, <2>1 DEF Target
<1> QED  BY <1>2, <1>3, <1>4, <1>5

LEMMA RecordCarried ==
  ASSUME AttributionTypes, BytesAreCarried, NEW r \in TunnelRows, tunnels' = Append(tunnels, r),
         r.route = "target",
         r.payload = IF r.own /\ ~r.failed THEN Handshake ELSE 0, UNCHANGED req
  PROVE  BytesAreCarried'
<1> DEFINE L == Len(tunnels) + 1
<1>1. /\ \A t \in DOMAIN tunnels : WithConnect'[t] = WithConnect[t] /\ SetupOf'[t] = SetupOf[t]
      /\ WithConnect'[L] = r.negotiation + r.payload
      /\ SetupOf'[L] = r.negotiation + r.payload
      /\ \A h \in Hosts : TargetTunnels(h)' = TargetTunnels(h) \cup IF r.host = h THEN {L} ELSE {}
  BY RecordCosts
<1>2. L \notin DOMAIN tunnels
  BY RecordAppended
<1>3. \A h \in Hosts : Over(h)' = Over(h)
  BY DEF Over, HostOf
<1>4. WireOf' = WireOf
  BY DEF WireOf
<1>5. r.negotiation \in Nat /\ r.payload \in Nat
  BY DEF TunnelRows
<1> HIDE DEF L
<1>6. ASSUME NEW h \in Hosts
      PROVE  Carried(h)' = SumFunctionOnSet(SetupOf, TargetTunnels(h))' + SumFunctionOnSet(WireOf, Over(h))'
  <2>1. \A t \in TargetTunnels(h) : t \in DOMAIN tunnels
    BY DEF TargetTunnels
  <2>2. CASE r.host # h
    <3>1. TargetTunnels(h)' = TargetTunnels(h)
      BY <1>1, <2>2
    <3> QED  BY <1>1, <1>3, <1>4, <2>1, <3>1, BytesStay
  <2>3. CASE r.host = h
    <3> DEFINE T == TargetTunnels(h)
               v == WithConnect'
               s == SetupOf'
    <3>1. TargetTunnels(h)' = T \cup {L}
      BY <1>1, <2>3
    <3>2. L \notin T /\ IsFiniteSet(T)
      BY <1>2, <2>1, TermsAreNat
    <3>3. /\ \A t \in T : v[t] \in Nat /\ v[t] = WithConnect[t] /\ WithConnect[t] \in Nat
          /\ \A t \in T : s[t] \in Nat /\ s[t] = SetupOf[t] /\ SetupOf[t] \in Nat
      BY <1>1, <2>1, TermsAreNat
    <3>4. v[L] = r.negotiation + r.payload /\ s[L] = r.negotiation + r.payload /\ v[L] \in Nat
      BY <1>1, <1>5
    <3>5. SumFunctionOnSet(WithConnect, T) = SumFunctionOnSet(SetupOf, T) + SumFunctionOnSet(WireOf, Over(h))
      BY DEF BytesAreCarried, Carried
    <3>6. SumFunctionOnSet(WireOf, Over(h)) \in Nat
      BY TermsAreNat, SumFacts DEF Over
    <3>7. Carried(h)' = SumFunctionOnSet(v, T \cup {L})
      BY <3>1 DEF Carried
    <3>8. SumFunctionOnSet(SetupOf, TargetTunnels(h))' = SumFunctionOnSet(s, T \cup {L})
      BY <3>1
    <3>9. SumFunctionOnSet(WireOf, Over(h))' = SumFunctionOnSet(WireOf, Over(h))
      BY <1>3, <1>4
    <3> HIDE DEF T, v, s
    <3>10. \A t \in T \cup {L} : v[t] \in Nat /\ s[t] \in Nat
      BY <3>3, <3>4
    <3>11. SumFunctionOnSet(v, T \cup {L}) = v[L] + SumFunctionOnSet(v, T)
      BY <3>2, <3>10, SumNew
    <3>12. SumFunctionOnSet(s, T \cup {L}) = s[L] + SumFunctionOnSet(s, T)
      BY <3>2, <3>10, SumNew
    <3>13. SumFunctionOnSet(v, T) = SumFunctionOnSet(WithConnect, T)
      BY <3>2, <3>3, SumSame
    <3>14. SumFunctionOnSet(s, T) = SumFunctionOnSet(SetupOf, T)
      BY <3>2, <3>3, SumSame
    <3>15. SumFunctionOnSet(SetupOf, T) \in Nat
      BY <3>2, <3>3, SumFacts
    <3>16. SumFunctionOnSet(v, T \cup {L}) = SumFunctionOnSet(s, T \cup {L}) + SumFunctionOnSet(WireOf, Over(h))
      BY <3>4, <3>5, <3>6, <3>11, <3>12, <3>13, <3>14, <3>15
    <3> QED  BY <3>7, <3>8, <3>9, <3>16
  <2> QED  BY <2>2, <2>3
<1> QED  BY <1>6 DEF BytesAreCarried

\* Bytes are put into the timeline at the present time.
LEMMA WirePlus ==
  ASSUME AttributionTypes, NEW d \in Nat, wire' = [wire EXCEPT ![clock] = @ + d]
  PROVE  wire' \in [Times -> Nat] /\ SumFunctionOnSet(wire, Times)' = SumFunctionOnSet(wire, Times) + d
<1>1. clock \in Times /\ wire \in [Times -> Nat]
  BY DEF AttributionTypes
<1>2. \A t \in Times : wire'[t] = IF t = clock THEN wire[t] + d ELSE wire[t]
  BY <1>1
<1>3. wire' \in [Times -> Nat]
  <2>1. wire[clock] + d \in Nat
    BY <1>1
  <2> QED  BY <1>1, <2>1
<1>4. IsFiniteSet(Times) /\ \A t \in Times : wire[t] \in Nat
  BY <1>1, TermsAreNat
<1> DEFINE v == wire
           w == wire'
           S == Times
<1>5. SumFunctionOnSet(w, S) = SumFunctionOnSet(v, S) + d
  <2>1. /\ IsFiniteSet(S) /\ \A t \in S : v[t] \in Nat
        /\ clock \in S /\ \A t \in S : w[t] = IF t = clock THEN v[t] + d ELSE v[t]
    BY <1>1, <1>2, <1>4
  <2> HIDE DEF v, w, S
  <2> QED  BY <2>1, SumChanged
<1>6. SumFunctionOnSet(wire, Times)' = SumFunctionOnSet(w, S)
  BY DEF Times
<1> QED  BY <1>3, <1>5, <1>6

LEMMA OpenTunnelKeeps ==
  ASSUME AttributionInv, NEW h \in Hosts, NEW own \in BOOLEAN, NEW failed \in BOOLEAN,
         OpenTunnel(h, own, failed)
  PROVE  AttributionInv'
<1> USE DEF AttributionInv
<1> DEFINE setup   == IF own THEN Negotiation ELSE 0
           payload == IF own /\ ~failed THEN Handshake ELSE 0
           r == [host |-> h, route |-> "target", opened |-> clock,
                 closed |-> IF failed THEN clock ELSE Never, own |-> own, failed |-> failed,
                 negotiation |-> setup, payload |-> payload]
           L == Len(tunnels) + 1
<1>1. clock \in Nat /\ clock # Never /\ setup \in Nat /\ payload \in Nat
  BY SizesAreNat DEF AttributionTypes, Times, Never
<1>2. r \in TunnelRows
  BY <1>1 DEF TunnelRows
<1>3. /\ tunnels' = Append(tunnels, r) /\ wire' = [wire EXCEPT ![clock] = @ + setup + payload]
      /\ phase = "running" /\ phase' = phase /\ h \notin Denied \cup Loopback
      /\ UNCHANGED <<plan, clock, tripAt, req, file, pos, log, dropped, capped>>
  BY DEF OpenTunnel, intake
<1>4. /\ r.route = "target" /\ r.host = h /\ r.own = own /\ r.failed = failed
      /\ r.negotiation = setup /\ r.payload = payload /\ (r.closed = Never => phase = "running")
  BY <1>3
<1> HIDE DEF setup, payload, r
<1>5. /\ tunnels' \in Seq(TunnelRows) /\ TunnelsKept
      /\ DOMAIN tunnels' = DOMAIN tunnels \cup {L}
      /\ L \notin DOMAIN tunnels /\ tunnels'[L] = r
      /\ \A t \in DOMAIN tunnels : tunnels'[t] = tunnels[t]
  BY <1>2, <1>3, RecordAppended
<1>6. wire' = [wire EXCEPT ![clock] = @ + (setup + payload)] /\ setup + payload \in Nat
  <2>1. clock \in Times /\ wire \in [Times -> Nat]
    BY DEF AttributionTypes
  <2>2. wire[clock] + setup + payload = wire[clock] + (setup + payload)
    BY <1>1, <2>1
  <2>3. wire' = [wire EXCEPT ![clock] = wire[clock] + setup + payload]
    BY <1>3
  <2>4. wire' = [wire EXCEPT ![clock] = wire[clock] + (setup + payload)]
    BY ONLY <2>2, <2>3, Zenon
  <2> QED  BY <1>1, <2>4
<1>7. wire' \in [Times -> Nat] /\ SumFunctionOnSet(wire, Times)' = SumFunctionOnSet(wire, Times) + (setup + payload)
  BY <1>6, WirePlus
<1>8. AttributionTypes'
  BY <1>3, <1>5, <1>7 DEF AttributionTypes, RequestRows, Asked
<1>9. TunnelsAreTold'
  BY <1>3, <1>4, <1>5 DEF TunnelsAreTold
<1>10. FileGrows
  BY <1>3, FileUnchanged
<1>11. RequestsEnd' /\ RequestsKept
  BY <1>1, <1>3, <1>5, RequestsStay
<1>12. LaunchIsFirst'
  BY <1>3 DEF LaunchIsFirst
<1>13. LinesAreTrue'
  BY <1>3, <1>11, LinesStay
<1>14. LogIsOfTheFile'
  BY <1>10, <1>11, LogStays
<1>15. BytesAreCarried'
  BY <1>2, <1>3, <1>4, RecordCarried DEF payload
<1>16. TimelineIsWhole'
  <2> DEFINE T == Target
             v == WithConnect
             w == WithConnect'
  <2>1. Target' = T \cup {L} /\ w[L] = setup + payload /\ \A t \in T : w[t] = v[t]
    <3>1. \A t \in Target : t \in DOMAIN tunnels
      BY DEF Target
    <3> QED  BY <1>2, <1>3, <1>4, <3>1, RecordCosts
  <2>2. IsFiniteSet(T) /\ L \notin T /\ \A t \in T : v[t] \in Nat
    BY <1>5, TermsAreNat DEF Target
  <2>3. SumFunctionOnSet(wire, Times) = SumFunctionOnSet(v, T)
    BY DEF TimelineIsWhole
  <2>4. SumFunctionOnSet(WithConnect, Target)' = SumFunctionOnSet(w, T \cup {L})
    BY <2>1
  <2> HIDE DEF T, v, w, L
  <2>5. \A t \in T \cup {L} : w[t] \in Nat
    BY <1>1, <2>1, <2>2
  <2>6. SumFunctionOnSet(w, T \cup {L}) = w[L] + SumFunctionOnSet(w, T)
    BY <2>2, <2>5, SumNew
  <2>7. SumFunctionOnSet(w, T) = SumFunctionOnSet(v, T)
    BY <2>1, <2>2, SumSame
  <2>8. SumFunctionOnSet(v, T) \in Nat
    BY <2>2, SumFacts
  <2>9. SumFunctionOnSet(wire, Times)' = SumFunctionOnSet(WithConnect, Target)'
    BY <1>1, <1>7, <2>1, <2>3, <2>4, <2>6, <2>7, <2>8
  <2> QED  BY <2>9 DEF TimelineIsWhole
<1>17. ReadingIsTold'
  BY <1>3, <1>10, ReadingStays
<1> QED  BY <1>8, <1>9, <1>11, <1>12, <1>13, <1>14, <1>15, <1>16, <1>17

-----------------------------------------------------------------------------
(* Attribution: requests start and end.                                     *)

\* The largest of a set of numbers.
LEMMA LargestOf ==
  ASSUME NEW S, S # {}, IsFiniteSet(S), \A i \in S : i \in Nat
  PROVE  Max(S) \in S /\ \A i \in S : i <= Max(S)
<1>1. Cardinality(S) \in Nat /\ Cardinality(S) # 0
  BY FS_CardinalityType, FS_EmptySet
<1>2. Cardinality(S) \in 1 .. Cardinality(S)
  BY <1>1
<1>3. PICK x \in S : Place(S, x) = Cardinality(S)
  BY <1>2, PlacesInOrder
<1>4. ASSUME NEW y \in S PROVE x >= y
  <2>1. x \in Nat /\ y \in Nat /\ Place(S, y) \in 1 .. Cardinality(S)
    BY PlacesInOrder
  <2>2. x < y => Place(S, x) < Place(S, y)
    BY PlacesInOrder
  <2> QED  BY <1>1, <1>3, <2>1, <2>2
<1>5. Max(S) \in S /\ \A y \in S : Max(S) >= y
  BY <1>4 DEF Max
<1> QED  BY <1>5

LEMMA RequestAppended ==
  ASSUME AttributionTypes, NEW r \in RequestRows, req' = Append(req, r)
  PROVE  /\ req' \in Seq(RequestRows) /\ DOMAIN req' = DOMAIN req \cup {Len(req) + 1}
         /\ Len(req) + 1 \notin DOMAIN req /\ req'[Len(req) + 1] = r
         /\ \A i \in DOMAIN req : req'[i] = req[i]
<1>1. req \in Seq(RequestRows)
  BY DEF AttributionTypes
<1>2. /\ req' \in Seq(RequestRows) /\ Len(req') = Len(req) + 1
      /\ req'[Len(req) + 1] = r /\ \A i \in 1 .. Len(req) : req'[i] = req[i]
  BY <1>1, AppendProperties
<1>3. DOMAIN req = 1 .. Len(req) /\ DOMAIN req' = 1 .. Len(req) + 1 /\ Len(req) \in Nat
  BY <1>1, <1>2
<1> QED  BY <1>2, <1>3

LEMMA StartKeeps ==
  ASSUME AttributionInv, Start
  PROVE  AttributionInv'
<1> USE DEF AttributionInv
<1>0. PICK L : L = Len(req) + 1
  OBVIOUS
<1> DEFINE k == plan.requests[L]
           navs == {i \in DOMAIN req : req[i].kind.main /\ req[i].kind.context = k.context}
           last == Max(navs)
           hop  == k.main /\ navs # {} /\ IsRedirect(req[last].status)
           r == [kind |-> k, ts |-> clock, how |-> "flight", status |-> 0,
                 start |-> IF hop THEN req[last].start ELSE clock]
<1>1. /\ req' = Append(req, r)
      /\ k.firefox => \E n \in DOMAIN file : file[n].kind = "launch"
      /\ L \in DOMAIN plan.requests
  BY <1>0 DEF Start
<1>2. UNCHANGED <<plan, phase, clock, tunnels, wire, tripAt, file, pos, log, dropped, capped>> /\ phase = "running"
  BY DEF Start, intake
<1>3. clock \in Nat
  BY SizesAreNat DEF AttributionTypes, Times
<1>4. r \in RequestRows
  <2>1. k \in Asked
    BY <1>1 DEF Asked
  <2>2. (IF hop THEN req[last].start ELSE clock) \in Nat
    <3>1. CASE hop
      <4>1. IsFiniteSet(navs) /\ \A i \in navs : i \in Nat
        <5>1. DOMAIN req = 1 .. Len(req) /\ IsFiniteSet(1 .. Len(req))
          BY FS_Interval DEF AttributionTypes
        <5> QED  BY <5>1, FS_Subset
      <4>2. navs # {}
        BY <3>1
      <4>3. last \in navs
        <5> HIDE DEF navs
        <5> QED  BY <4>1, <4>2, LargestOf
      <4>4. req[last] \in RequestRows
        BY <4>3, RequestFields
      <4> QED  BY <3>1, <4>4 DEF RequestRows
    <3>2. CASE ~hop
      BY <1>3, <3>2
    <3> QED  BY <3>1, <3>2
  <2>3. "flight" \in Hows /\ 0 \in Statuses
    BY DEF Hows, Statuses
  <2> HIDE DEF k, hop
  <2> QED  BY <1>3, <2>1, <2>2, <2>3 DEF RequestRows
<1>5. r.kind = k /\ r.ts = clock /\ r.how = "flight" /\ r.status = 0
  OBVIOUS
<1> HIDE DEF r, k
<1>6. /\ req' \in Seq(RequestRows) /\ DOMAIN req' = DOMAIN req \cup {L} /\ L \notin DOMAIN req
      /\ req'[L] = r /\ \A i \in DOMAIN req : req'[i] = req[i]
  BY <1>0, <1>1, <1>4, RequestAppended
<1>7. AttributionTypes'
  <2>1. req' \in Seq(RequestRows)'
    BY <1>2, <1>6 DEF RequestRows, Asked
  <2> QED  BY <1>2, <2>1 DEF AttributionTypes
<1>8. TunnelsKept /\ CostsKept /\ FileGrows /\ RequestsKept
  BY <1>2, <1>6, TunnelsUnchanged, FileUnchanged DEF RequestsKept
<1>9. RequestsEnd'
  <2>1. \A i \in DOMAIN req : Ended(i)'
    BY <1>2, <1>3, <1>6, <1>8, EndedStays DEF RequestsEnd
  <2>2. Ended(L)'
    <3>1. req'[L].ts = clock /\ req'[L].how = "flight" /\ req'[L].status = 0 /\ clock' = clock
      BY <1>2, <1>5, <1>6
    <3> QED  BY <1>3, <3>1 DEF Ended
  <2>3. \A i \in DOMAIN req' : i = L \/ i \in DOMAIN req
    BY <1>6
  <2> QED  BY <2>1, <2>2, <2>3 DEF RequestsEnd
<1>10. TunnelsAreTold'
  BY <1>2 DEF TunnelsAreTold
<1>11. LaunchIsFirst'
  <2>1. \A i \in DOMAIN req' : req'[i].kind.firefox => \E n \in DOMAIN file : file[n].kind = "launch"
    <3>1. req'[L].kind.firefox => \E n \in DOMAIN file : file[n].kind = "launch"
      BY <1>1, <1>5, <1>6
    <3>2. \A i \in DOMAIN req : req'[i].kind.firefox => \E n \in DOMAIN file : file[n].kind = "launch"
      BY <1>6 DEF LaunchIsFirst
    <3>3. \A i \in DOMAIN req' : i = L \/ i \in DOMAIN req
      BY <1>6
    <3> QED  BY <3>1, <3>2, <3>3
  <2> QED  BY <1>2, <2>1 DEF LaunchIsFirst
<1>12. LinesAreTrue'
  BY <1>2, <1>6, <1>8, LinesStay
<1>13. LogIsOfTheFile'
  BY <1>8, LogStays
<1>14. \A h \in Hosts : Over(h)' = Over(h)
  <2> TAKE h \in Hosts
  <2>1. Over(h)' = {i \in DOMAIN req' : Canon[req'[i].kind.name] = h /\ req'[i].how \in {"metered", "lost"}}
    BY DEF Over, HostOf
  <2>2. Over(h) = {i \in DOMAIN req : Canon[req[i].kind.name] = h /\ req[i].how \in {"metered", "lost"}}
    BY DEF Over, HostOf
  <2> QED  BY <1>5, <1>6, <2>1, <2>2
<1>15. BytesAreCarried' /\ TimelineIsWhole'
  BY <1>2, <1>8, <1>14, CarriedStays
<1>16. ReadingIsTold'
  BY <1>2, <1>8, ReadingStays
<1> QED  BY <1>7, <1>9, <1>10, <1>11, <1>12, <1>13, <1>15, <1>16

\* What the end of a request changes in the list of requests.
EndsAs(i, how, status) ==
  req[i].how = "flight" /\ req' = [req EXCEPT ![i].how = how, ![i].status = status]

LEMMA RequestEnds ==
  ASSUME AttributionTypes, NEW i \in DOMAIN req, NEW how \in Hows, NEW status \in Statuses,
         EndsAs(i, how, status)
  PROVE  /\ req' \in Seq(RequestRows) /\ DOMAIN req' = DOMAIN req
         /\ req'[i].kind = req[i].kind /\ req'[i].ts = req[i].ts
         /\ req'[i].how = how /\ req'[i].status = status
         /\ \A j \in DOMAIN req : j # i => req'[j] = req[j]
         /\ RequestsKept /\ WireOf' = WireOf
         /\ \A j \in DOMAIN req : HostOf(j)' = HostOf(j)
<1>1. req[i] \in RequestRows /\ req \in Seq(RequestRows)
  BY RequestFields DEF AttributionTypes
<1> DEFINE r == [req[i] EXCEPT !.how = how, !.status = status]
<1>2. r \in RequestRows
  BY <1>1 DEF RequestRows
<1>3. r.kind = req[i].kind /\ r.ts = req[i].ts /\ r.how = how /\ r.status = status
  BY <1>1 DEF RequestRows
<1>4. req' = [req EXCEPT ![i] = r]
  BY <1>1 DEF EndsAs
<1> HIDE DEF r
<1>5. req' \in Seq(RequestRows) /\ DOMAIN req' = DOMAIN req
  BY ONLY <1>1, <1>2, <1>4, i \in DOMAIN req
<1>6. req'[i] = r /\ \A j \in DOMAIN req : j # i => req'[j] = req[j]
  BY <1>1, <1>4
<1>7. \A j \in DOMAIN req : req'[j].kind = req[j].kind /\ req'[j].ts = req[j].ts
  BY <1>3, <1>6
<1> QED  BY <1>3, <1>5, <1>6, <1>7 DEF RequestsKept, WireOf, HostOf

\* A request ends, and if it was seen there is a line of it.
LEMMA EndKeeps ==
  ASSUME AttributionInv, NEW i \in DOMAIN req, NEW how \in Hows, NEW status \in Statuses,
         NEW seen \in BOOLEAN, Ends(i, how, status, seen), how # "flight",
         seen => how # "lost", TunnelsKept, Ended(i)'
  PROVE  /\ RequestsEnd' /\ LaunchIsFirst' /\ LinesAreTrue' /\ LogIsOfTheFile' /\ ReadingIsTold'
         /\ file' \in Seq(LineRows) /\ pos' \in 0 .. Len(file')
         /\ UNCHANGED <<plan, phase, clock, tripAt, pos, log, dropped, capped>> /\ phase = "running"
<1> USE DEF AttributionInv
<1>1. UNCHANGED <<plan, phase, clock, tripAt, pos, log, dropped, capped>> /\ phase = "running"
  BY DEF Ends, intake
<1>2. EndsAs(i, how, status) /\ req[i].how = "flight"
  BY DEF Ends, EndsAs
<1>3. /\ DOMAIN req' = DOMAIN req /\ req'[i].kind = req[i].kind /\ req'[i].ts = req[i].ts
      /\ req'[i].how = how /\ RequestsKept
      /\ \A j \in DOMAIN req : j # i => req'[j] = req[j]
  BY <1>2, RequestEnds
<1>4. clock \in Nat
  BY SizesAreNat DEF AttributionTypes, Times
<1>5. RequestsEnd'
  <2>1. \A j \in DOMAIN req : j # i => Ended(j)'
    BY <1>1, <1>3, <1>4, EndedStays DEF RequestsEnd
  <2> QED  BY <1>3, <2>1 DEF RequestsEnd
<1>0. PICK L : L = Len(file) + 1
  OBVIOUS
<1> DEFINE l == Line("request", req[i].ts, i)
<1>6. l \in LineRows /\ l.kind = "request" /\ l.req = i /\ l.ts = req[i].ts
  <2>1. req[i].ts \in Nat /\ i \in Nat
    BY RequestFields DEF AttributionTypes
  <2> QED  BY <2>1 DEF Line, LineRows
<1>7. CASE seen
  <2>1. file' = Append(file, l)
    BY <1>7 DEF Ends
  <2> HIDE DEF l
  <2>2. /\ FileGrows /\ DOMAIN file' = DOMAIN file \cup {L} /\ Len(file') = L
        /\ file'[L] = l /\ L \notin DOMAIN file
    BY <1>0, <1>1, <1>6, <2>1, FileAppended
  <2>3. Len(file) \in Nat /\ DOMAIN file = 1 .. Len(file) /\ pos \in 0 .. Len(file)
    BY LineFields DEF AttributionTypes
  <2>4. \A n \in DOMAIN file : file'[n] = file[n] /\ n \in DOMAIN file' /\ n < L
    BY <1>0, <2>2, <2>3 DEF FileGrows
  <2>5. pos' \in 0 .. Len(file')
    BY <1>0, <1>1, <2>2, <2>3
  <2>6. RequestLines' = RequestLines \cup {L}
    <3>1. RequestLines' = {n \in DOMAIN file' : file'[n].kind = "request"}
      BY DEF RequestLines
    <3> QED  BY <1>6, <2>2, <2>4, <3>1 DEF RequestLines
  <2>7. \A n \in RequestLines : n \in DOMAIN file /\ IsTrue(n)
    BY DEF RequestLines, LinesAreTrue
  <2>8. \A n \in RequestLines : file[n].req # i
    BY <1>2, <2>7 DEF IsTrue
  <2>9. ASSUME NEW n \in RequestLines PROVE IsTrue(n)'
    <3>1. /\ file[n].req \in DOMAIN req /\ file[n].ts = req[file[n].req].ts
          /\ req[file[n].req].how \notin {"flight", "lost"}
          /\ req[file[n].req].kind.firefox => \E m \in DOMAIN file : m < n /\ file[m].kind = "launch"
      BY <2>7 DEF IsTrue
    <3>2. file'[n] = file[n] /\ req'[file[n].req] = req[file[n].req]
      BY <1>3, <2>4, <2>7, <2>8, <3>1
    <3> QED  BY <1>3, <2>4, <3>1, <3>2 DEF IsTrue
  <2>10. IsTrue(L)'
    <3>1. req[i].kind.firefox => \E m \in DOMAIN file : file[m].kind = "launch"
      BY DEF LaunchIsFirst
    <3>2. /\ file'[L].req \in DOMAIN req' /\ file'[L].ts = req'[file'[L].req].ts
          /\ req'[file'[L].req].how \notin {"flight", "lost"}
      BY <1>3, <1>6, <1>7, <2>2
    <3>3. req'[file'[L].req].kind.firefox => \E m \in DOMAIN file' : m < L /\ file'[m].kind = "launch"
      BY <1>3, <1>6, <2>2, <2>4, <3>1
    <3> QED  BY <3>2, <3>3 DEF IsTrue
  <2>11. \A m, n \in RequestLines' : file'[m].req = file'[n].req => m = n
    <3>1. \A m, n \in RequestLines : file[m].req = file[n].req => m = n
      BY DEF LinesAreTrue
    <3>2. \A n \in RequestLines : file'[n].req = file[n].req
      BY <2>4, <2>7
    <3>3. file'[L].req = i
      BY <1>6, <2>2
    <3> QED  BY <2>6, <2>8, <3>1, <3>2, <3>3
  <2>12. LinesAreTrue'
    <3>1. \A n \in RequestLines' : IsTrue(n)'
      BY <2>6, <2>9, <2>10
    <3> QED  BY <2>11, <3>1 DEF LinesAreTrue
  <2>13. LaunchIsFirst'
    <3>1. \A j \in DOMAIN req' : req'[j].kind = req[j].kind
      BY <1>3
    <3> QED  BY <1>3, <2>4, <3>1 DEF LaunchIsFirst
  <2>14. LogIsOfTheFile'
    BY <1>3, <2>2, LogStays
  <2>15. ReadingIsTold'
    BY <1>1, <2>2, ReadingStays
  <2> QED  BY <1>1, <1>5, <2>2, <2>5, <2>12, <2>13, <2>14, <2>15 DEF FileGrows
<1>8. CASE ~seen
  <2>1. file' = file
    BY <1>8 DEF Ends
  <2>2. FileGrows
    BY <1>1, <2>1, FileUnchanged
  <2>3. LinesAreTrue'
    <3>1. \A j \in DOMAIN req : req[j].how \notin {"flight", "lost"} => req'[j].how \notin {"flight", "lost"}
      BY <1>2, <1>3
    <3> QED  BY <1>3, <2>1, <3>1, LinesStay
  <2>4. LaunchIsFirst'
    <3>1. \A j \in DOMAIN req' : req'[j].kind = req[j].kind
      BY <1>3
    <3> QED  BY <1>3, <2>1, <3>1 DEF LaunchIsFirst
  <2>5. LogIsOfTheFile'
    BY <1>3, <2>2, LogStays
  <2>6. ReadingIsTold'
    BY <1>1, <2>2, ReadingStays
  <2> QED  BY <1>1, <1>5, <2>1, <2>3, <2>4, <2>5, <2>6 DEF AttributionTypes
<1> QED  BY <1>7, <1>8

\* A request that goes over no tunnel.
LEMMA OverStays ==
  ASSUME AttributionTypes, NEW i \in DOMAIN req, NEW how \in Hows \ {"metered", "lost"},
         NEW status \in Statuses, EndsAs(i, how, status)
  PROVE  RequestsKept /\ \A h \in Hosts : Over(h)' = Over(h)
<1>1. /\ DOMAIN req' = DOMAIN req /\ req'[i].how = how /\ RequestsKept
      /\ \A j \in DOMAIN req : j # i => req'[j] = req[j]
      /\ \A j \in DOMAIN req : HostOf(j)' = HostOf(j)
  BY RequestEnds
<1>2. \A j \in DOMAIN req : req'[j].how \in {"metered", "lost"} <=> req[j].how \in {"metered", "lost"}
  BY <1>1 DEF EndsAs
<1>3. ASSUME NEW h \in Hosts PROVE Over(h)' = Over(h)
  <2>1. Over(h)' = {j \in DOMAIN req' : HostOf(j)' = h /\ req'[j].how \in {"metered", "lost"}}
    BY DEF Over
  <2> QED  BY <1>1, <1>2, <2>1 DEF Over
<1> QED  BY <1>1, <1>3

\* How a request ends that nothing carries, and with what status.
Uncarried == {"around", "cache", "refused", "challenged"} \X Statuses

LEMMA StaysOffTunnelsKeeps ==
  ASSUME AttributionInv, NEW i \in DOMAIN req, NEW how, NEW status, <<how, status>> \in Uncarried,
         Ends(i, how, status, TRUE), UNCHANGED <<tunnels, wire>>,
         how = "refused" => status \in {0, 403} /\ tripAt # Never /\ req[i].ts >= tripAt - TimeSlack
  PROVE  AttributionInv'
<1> USE DEF AttributionInv
<1>0. how \in {"around", "cache", "refused", "challenged"} /\ status \in Statuses
  BY DEF Uncarried
<1>1. EndsAs(i, how, status) /\ how \in Hows
  BY <1>0 DEF Ends, EndsAs, Hows
<1>2. /\ req' \in Seq(RequestRows) /\ req'[i].ts = req[i].ts /\ req'[i].how = how /\ req'[i].status = status
  BY <1>0, <1>1, RequestEnds
<1>3. RequestsKept /\ \A h \in Hosts : Over(h)' = Over(h)
  BY <1>0, <1>1, OverStays
<1>4. TunnelsKept /\ CostsKept
  BY TunnelsUnchanged
<1>5. Ended(i)'
  <2>1. req[i].ts <= clock /\ clock' = clock /\ tripAt' = tripAt
    BY DEF RequestsEnd, Ended, Ends
  <2> QED  BY <1>0, <1>2, <2>1 DEF Ended
<1>a. how # "flight" /\ how # "lost" /\ TRUE \in BOOLEAN
  BY <1>0
<1>6. /\ RequestsEnd' /\ LaunchIsFirst' /\ LinesAreTrue' /\ LogIsOfTheFile' /\ ReadingIsTold'
      /\ file' \in Seq(LineRows) /\ pos' \in 0 .. Len(file')
      /\ UNCHANGED <<plan, phase, clock, tripAt, pos, log, dropped, capped>> /\ phase = "running"
  BY <1>0, <1>1, <1>4, <1>5, <1>a, EndKeeps
<1>7. AttributionTypes'
  <2>1. req' \in Seq(RequestRows)'
    BY <1>2, <1>6 DEF RequestRows, Asked
  <2> QED  BY <1>6, <2>1 DEF AttributionTypes
<1>8. TunnelsAreTold'
  BY <1>6 DEF TunnelsAreTold
<1>9. BytesAreCarried' /\ TimelineIsWhole'
  BY <1>3, <1>4, CarriedStays
<1> QED  BY <1>6, <1>7, <1>8, <1>9

LEMMA UnmeteredKeeps ==
  ASSUME AttributionInv, NEW i \in DOMAIN req, NEW how \in {"around", "cache"}, Unmetered(i, how)
  PROVE  AttributionInv'
<1>1. <<how, 200>> \in Uncarried /\ how # "refused"
  BY DEF Uncarried, Statuses
<1>2. Ends(i, how, 200, TRUE) /\ UNCHANGED <<tunnels, wire>>
  BY DEF Unmetered
<1> QED  BY <1>1, <1>2, StaysOffTunnelsKeeps

LEMMA RefusedKeeps ==
  ASSUME AttributionInv, NEW i \in DOMAIN req, NEW status \in {0, 403}, Refused(i, status)
  PROVE  AttributionInv'
<1>1. <<"refused", status>> \in Uncarried
  BY DEF Uncarried, Statuses
<1>2. /\ Ends(i, "refused", status, TRUE) /\ UNCHANGED <<tunnels, wire>>
      /\ tripAt # Never /\ req[i].ts >= tripAt - TimeSlack
  BY DEF Refused
<1> QED  BY <1>1, <1>2, StaysOffTunnelsKeeps

LEMMA ChallengedKeeps == ASSUME AttributionInv, NEW i \in DOMAIN req, Challenged(i) PROVE AttributionInv'
<1>1. <<"challenged", 407>> \in Uncarried
  BY DEF Uncarried, Statuses
<1>2. Ends(i, "challenged", 407, TRUE) /\ UNCHANGED <<tunnels, wire>>
  BY DEF Challenged
<1> QED  BY <1>1, <1>2, StaysOffTunnelsKeeps

LEMMA RefusedByRuleKeeps ==
  ASSUME AttributionInv, NEW i \in DOMAIN req, NEW status \in {0, 403}, RefusedByRule(i, status)
  PROVE  AttributionInv'
<1> USE DEF AttributionInv
<1> DEFINE r == [host |-> HostOf(i), route |-> "refused", opened |-> clock, closed |-> clock,
                 own |-> FALSE, failed |-> FALSE, negotiation |-> 0, payload |-> 0]
<1>0. PICK L : L = Len(tunnels) + 1
  OBVIOUS
<1>1. clock \in Nat /\ clock # Never /\ HostOf(i) \in Hosts
  BY SizesAreNat, RequestFields DEF AttributionTypes, Times, Never
<1>2. r \in TunnelRows
  BY <1>1 DEF TunnelRows
<1>3. /\ tunnels' = Append(tunnels, r) /\ wire' = wire /\ HostOf(i) \in Denied
      /\ Ends(i, "denied", status, TRUE)
  BY DEF RefusedByRule
<1>4. r.route = "refused" /\ r.host = HostOf(i) /\ r.closed = clock /\ r.negotiation = 0 /\ r.payload = 0
  OBVIOUS
<1> HIDE DEF r
<1>5. /\ tunnels' \in Seq(TunnelRows) /\ TunnelsKept
      /\ DOMAIN tunnels' = DOMAIN tunnels \cup {L}
      /\ L \notin DOMAIN tunnels /\ tunnels'[L] = r
      /\ \A t \in DOMAIN tunnels : tunnels'[t] = tunnels[t]
  BY <1>0, <1>2, <1>3, RecordAppended
<1>6. EndsAs(i, "denied", status) /\ "denied" \in Hows /\ status \in Statuses /\ TRUE \in BOOLEAN
  BY <1>3 DEF Ends, EndsAs, Hows, Statuses
<1>7. /\ req' \in Seq(RequestRows) /\ req'[i].ts = req[i].ts /\ req'[i].how = "denied" /\ req'[i].status = status
      /\ HostOf(i)' = HostOf(i)
  BY <1>6, RequestEnds
<1>8. req[i].ts <= clock /\ clock' = clock /\ req[i].ts \in Nat
  BY <1>3, RequestFields DEF RequestsEnd, Ended, Ends
<1>9. Ended(i)'
  <2>1. L \in DOMAIN tunnels' /\ tunnels'[L].route = "refused" /\ Covers(L, i)'
    BY <1>1, <1>4, <1>5, <1>7, <1>8 DEF Covers
  <2> QED  BY <1>7, <1>8, <2>1 DEF Ended
<1>10. /\ RequestsEnd' /\ LaunchIsFirst' /\ LinesAreTrue' /\ LogIsOfTheFile' /\ ReadingIsTold'
       /\ file' \in Seq(LineRows) /\ pos' \in 0 .. Len(file')
       /\ UNCHANGED <<plan, phase, clock, tripAt, pos, log, dropped, capped>> /\ phase = "running"
  <2>1. "denied" # "flight" /\ "denied" # "lost"
    OBVIOUS
  <2> QED  BY <1>3, <1>5, <1>6, <1>9, <2>1, EndKeeps
<1>11. AttributionTypes'
  <2>1. req' \in Seq(RequestRows)'
    BY <1>7, <1>10 DEF RequestRows, Asked
  <2> QED  BY <1>3, <1>5, <1>10, <2>1 DEF AttributionTypes
<1>12. TunnelsAreTold'
  <2>1. \A t \in DOMAIN tunnels' : t = L \/ t \in DOMAIN tunnels
    BY <1>5
  <2>2. \A t \in DOMAIN tunnels :
          /\ tunnels'[t].closed = Never => phase' = "running"
          /\ tunnels'[t].route = "target" => tunnels'[t].host \notin Denied \cup Loopback
          /\ tunnels'[t].route = "refused" =>
               /\ tunnels'[t].closed # Never /\ tunnels'[t].host \in Denied
               /\ tunnels'[t].negotiation = 0 /\ tunnels'[t].payload = 0
    BY <1>5, <1>10 DEF TunnelsAreTold
  <2>3. /\ tunnels'[L].closed # Never /\ tunnels'[L].route = "refused" /\ tunnels'[L].host \in Denied
        /\ tunnels'[L].negotiation = 0 /\ tunnels'[L].payload = 0
    BY <1>1, <1>3, <1>4, <1>5
  <2> QED  BY <2>1, <2>2, <2>3 DEF TunnelsAreTold
<1>13. RequestsKept /\ \A h \in Hosts : Over(h)' = Over(h)
  <2>1. "denied" \in Hows \ {"metered", "lost"}
    BY <1>6
  <2> QED  BY <1>6, <2>1, OverStays
<1>14. /\ \A t \in DOMAIN tunnels : WithConnect'[t] = WithConnect[t] /\ SetupOf'[t] = SetupOf[t]
       /\ Target' = Target /\ \A h \in Hosts : TargetTunnels(h)' = TargetTunnels(h)
  <2>1. r.route # "target"
    BY <1>4
  <2>2. /\ \A t \in DOMAIN tunnels : WithConnect'[t] = WithConnect[t] /\ SetupOf'[t] = SetupOf[t]
        /\ \A h \in Hosts :
             TargetTunnels(h)' = TargetTunnels(h)
               \cup IF r.host = h /\ r.route = "target" THEN {Len(tunnels) + 1} ELSE {}
        /\ Target' = Target \cup IF r.route = "target" THEN {Len(tunnels) + 1} ELSE {}
    BY <1>2, <1>3, RecordCosts
  <2> QED  BY <2>1, <2>2
<1>15. BytesAreCarried'
  <2>1. ASSUME NEW h \in Hosts
        PROVE  Carried(h)' = SumFunctionOnSet(SetupOf, TargetTunnels(h))' + SumFunctionOnSet(WireOf, Over(h))'
    <3>1. \A t \in TargetTunnels(h) : t \in DOMAIN tunnels
      BY DEF TargetTunnels
    <3>2. \A j \in Over(h) : WireOf'[j] = WireOf[j]
      BY <1>6, RequestEnds
    <3> QED  BY <1>13, <1>14, <3>1, <3>2, BytesStay
  <2> QED  BY <2>1 DEF BytesAreCarried
<1>16. TimelineIsWhole'
  <2> DEFINE T == Target
             v == WithConnect
             w == WithConnect'
  <2>1. IsFiniteSet(T) /\ \A t \in T : v[t] \in Nat /\ w[t] = v[t]
    BY <1>14, TermsAreNat DEF Target
  <2>2. SumFunctionOnSet(w, T) = SumFunctionOnSet(v, T)
    <3> HIDE DEF T, v, w
    <3> QED  BY <2>1, SumSame
  <2> QED  BY <1>3, <1>14, <2>2 DEF TimelineIsWhole, Times
<1> QED  BY <1>10, <1>11, <1>12, <1>15, <1>16

\* What a request over a tunnel adds to the sums over the records.
PaysInto(t, d) == tunnels' = [tunnels EXCEPT ![t].payload = @ + d]

LEMMA PayloadPlus ==
  ASSUME AttributionTypes, NEW t \in DOMAIN tunnels, NEW d \in Nat, PaysInto(t, d)
  PROVE  /\ tunnels' \in Seq(TunnelRows) /\ DOMAIN tunnels' = DOMAIN tunnels
         /\ \A u \in DOMAIN tunnels :
              /\ tunnels'[u].host = tunnels[u].host /\ tunnels'[u].route = tunnels[u].route
              /\ tunnels'[u].closed = tunnels[u].closed
         /\ \A u \in DOMAIN tunnels :
              /\ WithConnect'[u] = IF u = t THEN WithConnect[u] + d ELSE WithConnect[u]
              /\ SetupOf'[u] = SetupOf[u]
         /\ \A u \in DOMAIN tunnels :
              u # t => tunnels'[u].negotiation = tunnels[u].negotiation /\ tunnels'[u].payload = tunnels[u].payload
<1>1. tunnels[t] \in TunnelRows /\ tunnels[t].payload \in Nat /\ tunnels[t].negotiation \in Nat
  BY TunnelFields
<1>2. PICK n \in Nat : n = tunnels[t].payload + d
  BY <1>1
<1> DEFINE r == [tunnels[t] EXCEPT !.payload = n]
<1>3. tunnels' = [tunnels EXCEPT ![t] = r]
  BY <1>2 DEF PaysInto
<1>4. r \in TunnelRows
  BY <1>1 DEF TunnelRows
<1>5. /\ r.host = tunnels[t].host /\ r.route = tunnels[t].route /\ r.closed = tunnels[t].closed
      /\ r.own = tunnels[t].own /\ r.failed = tunnels[t].failed
      /\ r.negotiation = tunnels[t].negotiation /\ r.payload = n
  BY <1>1 DEF TunnelRows
<1> HIDE DEF r
<1>6. tunnels' \in Seq(TunnelRows) /\ DOMAIN tunnels' = DOMAIN tunnels
  <2>1. tunnels \in Seq(TunnelRows)
    BY DEF AttributionTypes
  <2> QED  BY ONLY <1>3, <1>4, <2>1, t \in DOMAIN tunnels
<1>7. tunnels'[t] = r /\ \A u \in DOMAIN tunnels : u # t => tunnels'[u] = tunnels[u]
  BY <1>3
<1>8. \A u \in DOMAIN tunnels :
        /\ tunnels'[u].host = tunnels[u].host /\ tunnels'[u].route = tunnels[u].route
        /\ tunnels'[u].closed = tunnels[u].closed
        /\ tunnels'[u].own = tunnels[u].own /\ tunnels'[u].failed = tunnels[u].failed
        /\ tunnels'[u].negotiation = tunnels[u].negotiation
  BY <1>5, <1>7
<1>9. \A u \in DOMAIN tunnels : SetupOf'[u] = SetupOf[u]
  BY <1>6, <1>8 DEF SetupOf
<1>10. \A u \in DOMAIN tunnels : u # t => WithConnect'[u] = WithConnect[u]
  BY <1>6, <1>7 DEF WithConnect
<1>11. WithConnect'[t] = WithConnect[t] + d
  <2>1. WithConnect'[t] = tunnels[t].negotiation + n
    BY <1>5, <1>6, <1>7 DEF WithConnect
  <2>2. WithConnect[t] = tunnels[t].negotiation + tunnels[t].payload
    BY DEF WithConnect
  <2> QED  BY <1>1, <1>2, <2>1, <2>2
<1> QED  BY <1>6, <1>7, <1>8, <1>9, <1>10, <1>11

LEMMA MeteredKeeps ==
  ASSUME AttributionInv, NEW i \in DOMAIN req, NEW t \in DOMAIN tunnels, NEW status \in {200, 302},
         NEW seen \in BOOLEAN, Metered(i, t, status, seen)
  PROVE  AttributionInv'
<1> USE DEF AttributionInv
<1>0. PICK how : how = IF seen THEN "metered" ELSE "lost"
  OBVIOUS
<1>1. PICK d : d = req[i].kind.wire
  OBVIOUS
<1>2. clock \in Nat /\ clock # Never /\ d \in Nat /\ d = WireOf[i] /\ HostOf(i) \in Hosts
  BY <1>1, SizesAreNat, RequestFields DEF AttributionTypes, Times, Never, WireOf
<1>d. d \in Nat
  BY <1>2
<1>3. /\ tunnels[t].closed = Never /\ tunnels[t].host = HostOf(i) /\ Ends(i, how, status, seen)
      /\ PaysInto(t, d) /\ wire' = [wire EXCEPT ![clock] = @ + d]
  BY <1>0, <1>1 DEF Metered, IsOpen, PaysInto
<1>4. tunnels[t].route = "target"
  BY <1>3, TunnelFields DEF TunnelsAreTold
<1>5. /\ tunnels' \in Seq(TunnelRows) /\ DOMAIN tunnels' = DOMAIN tunnels
      /\ \A u \in DOMAIN tunnels :
           /\ tunnels'[u].host = tunnels[u].host /\ tunnels'[u].route = tunnels[u].route
           /\ tunnels'[u].closed = tunnels[u].closed
      /\ \A u \in DOMAIN tunnels :
           /\ WithConnect'[u] = IF u = t THEN WithConnect[u] + d ELSE WithConnect[u]
           /\ SetupOf'[u] = SetupOf[u]
      /\ \A u \in DOMAIN tunnels :
           u # t => tunnels'[u].negotiation = tunnels[u].negotiation /\ tunnels'[u].payload = tunnels[u].payload
  BY <1>2, <1>3, PayloadPlus
<1>6. TunnelsKept
  BY <1>5 DEF TunnelsKept
<1>7. EndsAs(i, how, status) /\ how \in Hows /\ status \in Statuses /\ how # "flight"
      /\ (seen => how # "lost") /\ how \in {"metered", "lost"} /\ how # "denied" /\ how # "refused"
  BY <1>0, <1>3 DEF Ends, EndsAs, Hows, Statuses
<1>8. /\ req' \in Seq(RequestRows) /\ req'[i].ts = req[i].ts /\ req'[i].how = how /\ req'[i].status = status
      /\ DOMAIN req' = DOMAIN req /\ WireOf' = WireOf /\ RequestsKept
      /\ \A j \in DOMAIN req : j # i => req'[j] = req[j]
      /\ \A j \in DOMAIN req : HostOf(j)' = HostOf(j)
  BY <1>7, RequestEnds
<1>9. req[i].ts <= clock /\ clock' = clock /\ req[i].ts \in Nat
  BY <1>3, RequestFields DEF RequestsEnd, Ended, Ends
<1>10. Ended(i)'
  <2>1. t \in DOMAIN tunnels' /\ tunnels'[t].route = "target" /\ Covers(t, i)'
    BY <1>3, <1>4, <1>5, <1>8 DEF Covers
  <2> QED  BY <1>7, <1>8, <1>9, <2>1 DEF Ended
<1>11. /\ RequestsEnd' /\ LaunchIsFirst' /\ LinesAreTrue' /\ LogIsOfTheFile' /\ ReadingIsTold'
       /\ file' \in Seq(LineRows) /\ pos' \in 0 .. Len(file')
       /\ UNCHANGED <<plan, phase, clock, tripAt, pos, log, dropped, capped>> /\ phase = "running"
  BY <1>3, <1>6, <1>7, <1>10, EndKeeps
<1>12. wire' \in [Times -> Nat] /\ SumFunctionOnSet(wire, Times)' = SumFunctionOnSet(wire, Times) + d
  <2>1. wire' = [wire EXCEPT ![clock] = @ + d]
    BY <1>3
  <2> QED  BY <1>d, <2>1, WirePlus
<1>13. AttributionTypes'
  <2>1. req' \in Seq(RequestRows)'
    BY <1>8, <1>11 DEF RequestRows, Asked
  <2> QED  BY <1>5, <1>11, <1>12, <2>1 DEF AttributionTypes
<1>14. TunnelsAreTold'
  <2>1. \A u \in DOMAIN tunnels :
          /\ tunnels'[u].closed = Never => phase' = "running"
          /\ tunnels'[u].route = "target" => tunnels'[u].host \notin Denied \cup Loopback
    BY <1>5, <1>11 DEF TunnelsAreTold
  <2>2. \A u \in DOMAIN tunnels : tunnels'[u].route = "refused" =>
          /\ tunnels'[u].closed # Never /\ tunnels'[u].host \in Denied
          /\ tunnels'[u].negotiation = 0 /\ tunnels'[u].payload = 0
    <3> TAKE u \in DOMAIN tunnels
    <3>1. u = t => tunnels'[u].route # "refused"
      BY <1>4, <1>5
    <3> QED  BY <1>5, <3>1 DEF TunnelsAreTold
  <2> QED  BY <1>5, <2>1, <2>2 DEF TunnelsAreTold
<1>15. /\ Target' = Target /\ t \in Target
       /\ \A h \in Hosts : TargetTunnels(h)' = TargetTunnels(h)
  BY <1>4, <1>5 DEF Target, TargetTunnels
<1>16. ASSUME NEW h \in Hosts
       PROVE  Carried(h)' = SumFunctionOnSet(SetupOf, TargetTunnels(h))' + SumFunctionOnSet(WireOf, Over(h))'
  <2>1. \A u \in TargetTunnels(h) : u \in DOMAIN tunnels
    BY DEF TargetTunnels
  <2>2. Over(h)' = {j \in DOMAIN req : HostOf(j) = h /\ req'[j].how \in {"metered", "lost"}}
    BY <1>8 DEF Over
  <2>3. CASE HostOf(i) # h
    <3>1. Over(h)' = Over(h)
      BY <1>8, <2>2, <2>3 DEF Over
    <3>2. t \notin TargetTunnels(h)
      BY <1>3, <2>3 DEF TargetTunnels
    <3> QED  BY <1>5, <1>8, <1>15, <2>1, <3>1, <3>2, BytesStay
  <2>4. CASE HostOf(i) = h
    <3> DEFINE T == TargetTunnels(h)
               O == Over(h)
               v == WithConnect
               w == WithConnect'
               s == SetupOf'
    <3>1. Over(h)' = O \cup {i} /\ i \notin O
      <4>1. req[i].how = "flight"
        BY <1>7 DEF EndsAs
      <4> QED  BY <1>7, <1>8, <2>2, <2>4, <4>1 DEF Over
    <3>2. t \in T
      BY <1>3, <1>4, <2>4 DEF TargetTunnels
    <3>3. IsFiniteSet(T) /\ IsFiniteSet(O)
      BY TermsAreNat
    <3>a. \A u \in T : v[u] \in Nat
      BY <2>1, TermsAreNat
    <3>b. \A u \in T : w[u] = IF u = t THEN v[u] + d ELSE v[u]
      BY <1>5, <2>1
    <3>4. \A u \in T : s[u] = SetupOf[u] /\ SetupOf[u] \in Nat
      BY <1>5, <2>1, TermsAreNat
    <3>5. \A j \in O \cup {i} : WireOf[j] \in Nat
      BY TermsAreNat DEF Over
    <3>6. SumFunctionOnSet(v, T) = SumFunctionOnSet(SetupOf, T) + SumFunctionOnSet(WireOf, O)
      BY DEF BytesAreCarried, Carried
    <3>7. Carried(h)' = SumFunctionOnSet(w, T)
      BY <1>15 DEF Carried
    <3>8. SumFunctionOnSet(SetupOf, TargetTunnels(h))' = SumFunctionOnSet(s, T)
      BY <1>15
    <3>9. SumFunctionOnSet(WireOf, Over(h))' = SumFunctionOnSet(WireOf, O \cup {i})
      BY <1>8, <3>1
    <3> HIDE DEF T, O, v, w, s
    <3>10. SumFunctionOnSet(w, T) = SumFunctionOnSet(v, T) + d
      BY <1>d, <3>2, <3>3, <3>a, <3>b, SumChanged
    <3>11. SumFunctionOnSet(s, T) = SumFunctionOnSet(SetupOf, T)
      BY <3>3, <3>4, SumSame
    <3>12. SumFunctionOnSet(WireOf, O \cup {i}) = WireOf[i] + SumFunctionOnSet(WireOf, O)
      BY <3>1, <3>3, <3>5, SumNew
    <3>13. SumFunctionOnSet(SetupOf, T) \in Nat /\ SumFunctionOnSet(WireOf, O) \in Nat
      BY <3>3, <3>4, <3>5, SumFacts
    <3>14. SumFunctionOnSet(w, T) = SumFunctionOnSet(s, T) + SumFunctionOnSet(WireOf, O \cup {i})
      BY <1>2, <3>6, <3>10, <3>11, <3>12, <3>13
    <3> QED  BY <3>7, <3>8, <3>9, <3>14
  <2> QED  BY <2>3, <2>4
<1>17. TimelineIsWhole'
  <2> DEFINE T == Target
             v == WithConnect
             w == WithConnect'
  <2>1. /\ IsFiniteSet(T) /\ t \in T
        /\ \A u \in T : v[u] \in Nat
        /\ \A u \in T : w[u] = IF u = t THEN v[u] + d ELSE v[u]
    BY <1>5, <1>15, TermsAreNat DEF Target
  <2>2. SumFunctionOnSet(WithConnect, Target)' = SumFunctionOnSet(w, T)
    BY <1>15
  <2>3. SumFunctionOnSet(wire, Times) = SumFunctionOnSet(v, T)
    BY DEF TimelineIsWhole
  <2> HIDE DEF T, v, w
  <2>4. SumFunctionOnSet(w, T) = SumFunctionOnSet(v, T) + d
    BY <1>d, <2>1, SumChanged
  <2>5. SumFunctionOnSet(wire, Times)' = SumFunctionOnSet(WithConnect, Target)'
    BY <1>12, <2>2, <2>3, <2>4
  <2> QED  BY <2>5 DEF TimelineIsWhole
<1> QED  BY <1>11, <1>13, <1>14, <1>16, <1>17 DEF BytesAreCarried

-----------------------------------------------------------------------------
(* Attribution: the file is read.                                           *)

\* To pick one position more, behind all others, is to append what is there.
PicksNext(s, S, n) == Picked(s, S \cup {n}) = Append(Picked(s, S), s[n])

LEMMA PickedNext ==
  ASSUME NEW A, NEW S, \A i \in S : i \in Nat, IsFiniteSet(S),
         NEW n \in Nat, \A i \in S : i < n, NEW s, \A i \in S \cup {n} : s[i] \in A
  PROVE  PicksNext(s, S, n)
<1> DEFINE T == S \cup {n}
           m == Cardinality(S)
           spot(R, k) == CHOOSE i \in R : Place(R, i) = k
<1>1. /\ m \in Nat /\ Cardinality(T) = m + 1 /\ Place(T, n) = m + 1
      /\ \A i \in S : Place(T, i) = Place(S, i) /\ Place(S, i) \in 1 .. m
  <2>1. m \in Nat /\ \A i \in S : Place(S, i) \in 1 .. m
    BY PlacesInOrder
  <2>2. Cardinality(T) = m + 1 /\ Place(T, n) = m + 1 /\ \A i \in S : Place(T, i) = Place(S, i)
    BY PlaceBehind
  <2> QED  BY <2>1, <2>2
<1>2. \A i, j \in T : Place(T, i) = Place(T, j) => i = j
  <2>1. IsFiniteSet(T) /\ \A i \in T : i \in Nat
    BY FS_AddElement
  <2> HIDE DEF T
  <2> QED  BY <2>1, PlacesInOrder
<1>3. \A k \in 1 .. m : \E i \in S : Place(S, i) = k
  BY PlacesInOrder
<1>4. Picked(s, S) = [k \in 1 .. m |-> s[spot(S, k)]] /\ Picked(s, T) = [k \in 1 .. m + 1 |-> s[spot(T, k)]]
  BY <1>1 DEF Picked, Place
<1> HIDE DEF m
<1>5. ASSUME NEW k \in 1 .. m PROVE spot(T, k) = spot(S, k) /\ spot(S, k) \in S
  <2>1. PICK i \in S : Place(S, i) = k
    BY <1>3
  <2>2. i \in T /\ Place(T, i) = k
    BY <1>1, <2>1
  <2>3. spot(T, k) = i
    <3>1. \A j \in T : Place(T, j) = k => j = i
      BY <1>2, <2>2
    <3> QED  BY <2>2, <3>1
  <2>4. spot(S, k) = i
    <3>1. \A j \in S : Place(S, j) = k => j = i
      BY <1>1, <1>2, <2>2
    <3> QED  BY <2>1, <3>1
  <2> QED  BY <2>3, <2>4
<1>6. spot(T, m + 1) = n
  <2>1. \A j \in T : Place(T, j) = m + 1 => j = n
    BY <1>1, <1>2
  <2> QED  BY <1>1, <2>1
<1> HIDE DEF spot
<1>7. Picked(s, S) \in Seq(A) /\ Len(Picked(s, S)) = m
  <2>1. \A k \in 1 .. m : s[spot(S, k)] \in A
    BY <1>5
  <2> QED  BY <1>1, <1>4, <2>1
<1>8. s[n] \in A
  OBVIOUS
<1> DEFINE p == Picked(s, S)
           q == Append(p, s[n])
<1>9. q \in Seq(A) /\ Len(q) = m + 1 /\ q[m + 1] = s[n] /\ \A k \in 1 .. m : q[k] = p[k]
  <2> HIDE DEF p
  <2>1. p \in Seq(A) /\ Len(p) = m
    BY <1>7 DEF p
  <2> QED  BY <1>8, <2>1, AppendProperties
<1>10. \A k \in 1 .. m : p[k] = s[spot(T, k)]
  BY <1>4, <1>5
<1> HIDE DEF p, q
<1>11. q = [k \in 1 .. m + 1 |-> s[spot(T, k)]]
  <2>1. DOMAIN q = 1 .. m + 1
    BY <1>9
  <2>2. \A k \in 1 .. m + 1 : q[k] = s[spot(T, k)]
    <3> TAKE k \in 1 .. m + 1
    <3>1. k = m + 1 \/ k \in 1 .. m
      BY <1>1
    <3> QED  BY <1>6, <1>9, <1>10, <3>1
  <2>3. q = [k \in DOMAIN q |-> q[k]]
    BY <1>9
  <2> QED  BY <2>1, <2>2, <2>3
<1>12. Picked(s, T) = q
  BY <1>4, <1>11
<1> QED  BY <1>12 DEF q, p, T, PicksNext

\* What the next line adds to the valid lines, and to those that fit.
LEMMA NextCounts ==
  ASSUME AttributionTypes, pos < Len(file)
  PROVE  /\ ValidUpTo(pos + 1) = ValidUpTo(pos) \cup IF Valid(NextLine) THEN {pos + 1} ELSE {}
         /\ IsFiniteSet(ValidUpTo(pos)) /\ \A n \in ValidUpTo(pos) : n \in Nat /\ n < pos + 1
         /\ FitsIn(pos + 1) = FitsIn(pos)
              \cup IF Valid(NextLine) /\ Cardinality(ValidUpTo(pos)) < MaxEvents THEN {pos + 1} ELSE {}
         /\ Beyond(pos + 1) = Beyond(pos)
              \cup IF Cardinality(ValidUpTo(pos)) >= MaxEvents /\ NextLine.kind # "blank"
                   THEN {pos + 1} ELSE {}
         /\ Within(pos + 1) = Within(pos)
              \cup IF Cardinality(ValidUpTo(pos)) < MaxEvents /\ NextLine.kind = "bad"
                   THEN {pos + 1} ELSE {}
         /\ Cardinality(ValidUpTo(pos)) \in Nat
<1>1. pos \in Nat /\ MaxEvents \in Nat
  BY LineFields, SizesAreNat
<1>2. 1 .. pos + 1 = (1 .. pos) \cup {pos + 1} /\ \A n \in 1 .. pos : n \in Nat /\ n < pos + 1
  BY <1>1
<1>3. ValidUpTo(pos + 1) = ValidUpTo(pos) \cup IF Valid(NextLine) THEN {pos + 1} ELSE {}
  BY <1>2 DEF ValidUpTo, NextLine
<1>4. IsFiniteSet(ValidUpTo(pos)) /\ \A n \in ValidUpTo(pos) : n \in Nat /\ n < pos + 1
  <2>1. IsFiniteSet(1 .. pos)
    BY <1>1, FS_Interval
  <2> QED  BY <1>2, <2>1, FS_Subset DEF ValidUpTo
<1>5. Cardinality(ValidUpTo(pos)) \in Nat
  BY <1>4, FS_CardinalityType
<1>6. ASSUME Valid(NextLine)
      PROVE  Cardinality(ValidUpTo(pos + 1)) <= MaxEvents <=> Cardinality(ValidUpTo(pos)) < MaxEvents
  <2>1. Cardinality(ValidUpTo(pos + 1)) = Cardinality(ValidUpTo(pos)) + 1
    <3>1. pos + 1 \notin ValidUpTo(pos)
      BY <1>1, <1>4
    <3> QED  BY <1>3, <1>4, <1>6, <3>1, FS_AddElement
  <2> QED  BY <1>1, <1>5, <2>1
<1>7. FitsIn(pos + 1) = FitsIn(pos)
        \cup IF Valid(NextLine) /\ Cardinality(ValidUpTo(pos)) < MaxEvents THEN {pos + 1} ELSE {}
  <2> DEFINE fits(n) == Cardinality(ValidUpTo(n)) <= MaxEvents
  <2>1. FitsIn(pos + 1) = {n \in ValidUpTo(pos + 1) : fits(n)} /\ FitsIn(pos) = {n \in ValidUpTo(pos) : fits(n)}
    BY DEF FitsIn
  <2>2. Valid(NextLine) => (fits(pos + 1) <=> Cardinality(ValidUpTo(pos)) < MaxEvents)
    BY <1>6
  <2> HIDE DEF fits
  <2>3. CASE Valid(NextLine)
    BY <1>3, <2>1, <2>2, <2>3
  <2>4. CASE ~Valid(NextLine)
    BY <1>3, <2>1, <2>4
  <2> QED  BY <2>3, <2>4
<1>8. ValidUpTo((pos + 1) - 1) = ValidUpTo(pos)
  <2>1. (pos + 1) - 1 = pos
    BY <1>1
  <2> QED  BY <2>1
<1>9. Beyond(pos + 1) = Beyond(pos)
        \cup IF Cardinality(ValidUpTo(pos)) >= MaxEvents /\ NextLine.kind # "blank" THEN {pos + 1} ELSE {}
  <2> DEFINE after(n) == Cardinality(ValidUpTo(n - 1)) >= MaxEvents /\ file[n].kind # "blank"
  <2>1. Beyond(pos + 1) = {n \in 1 .. pos + 1 : after(n)} /\ Beyond(pos) = {n \in 1 .. pos : after(n)}
    BY DEF Beyond
  <2>2. after(pos + 1) <=> Cardinality(ValidUpTo(pos)) >= MaxEvents /\ NextLine.kind # "blank"
    BY <1>8 DEF NextLine
  <2> HIDE DEF after
  <2> QED  BY <1>2, <2>1, <2>2
<1>10. Within(pos + 1) = Within(pos)
        \cup IF Cardinality(ValidUpTo(pos)) < MaxEvents /\ NextLine.kind = "bad" THEN {pos + 1} ELSE {}
  <2> DEFINE before(n) == Cardinality(ValidUpTo(n - 1)) < MaxEvents /\ file[n].kind = "bad"
  <2>1. Within(pos + 1) = {n \in 1 .. pos + 1 : before(n)} /\ Within(pos) = {n \in 1 .. pos : before(n)}
    BY DEF Within
  <2>2. before(pos + 1) <=> Cardinality(ValidUpTo(pos)) < MaxEvents /\ NextLine.kind = "bad"
    BY <1>8 DEF NextLine
  <2> HIDE DEF before
  <2> QED  BY <1>2, <2>1, <2>2
<1> QED  BY <1>3, <1>4, <1>5, <1>7, <1>9, <1>10

\* The log is full when as many valid lines were read as fit.
LEMMA FullTells ==
  ASSUME AttributionTypes, ReadingIsTold
  PROVE  /\ Full <=> Cardinality(ValidUpTo(pos)) >= MaxEvents
         /\ ~Full <=> Cardinality(ValidUpTo(pos)) < MaxEvents
         /\ IsFiniteSet(FitsIn(pos)) /\ Len(log) = Cardinality(FitsIn(pos))
         /\ \A n \in FitsIn(pos) : n \in Nat /\ n < pos + 1 /\ n \in DOMAIN file
<1> DEFINE S == ValidUpTo(pos)
           F == FitsIn(pos)
<1>1. pos \in Nat /\ MaxEvents \in Nat /\ pos <= Len(file) /\ DOMAIN file = 1 .. Len(file)
  BY LineFields, SizesAreNat
<1>2. IsFiniteSet(S) /\ \A n \in S : n \in 1 .. pos
  <2>1. IsFiniteSet(1 .. pos)
    BY <1>1, FS_Interval
  <2> QED  BY <2>1, FS_Subset DEF ValidUpTo
<1>3. \A n \in S : ValidUpTo(n) = {j \in S : j <= n}
  <2> TAKE n \in S
  <2>1. n \in 1 .. pos
    BY <1>2
  <2>2. \A j : j \in 1 .. n <=> j \in 1 .. pos /\ j <= n
    BY <1>1, <2>1
  <2> QED  BY <2>2 DEF ValidUpTo
<1>4. F = {n \in S : Place(S, n) <= MaxEvents}
  BY <1>3 DEF FitsIn, Place
<1>5. IsFiniteSet(F) /\ Cardinality(F) <= Cardinality(S) /\ Cardinality(S) \in Nat /\ Cardinality(F) \in Nat
  BY <1>2, FS_Subset, FS_CardinalityType DEF FitsIn
<1>6. Len(log) = Cardinality(F)
  <2>1. log = [k \in 1 .. Cardinality(F) |-> file[CHOOSE i \in F : Cardinality({j \in F : j <= i}) = k]]
    BY DEF ReadingIsTold, Picked
  <2>2. DOMAIN log = 1 .. Cardinality(F) /\ DOMAIN log = 1 .. Len(log) /\ Len(log) \in Nat
    BY <2>1, LineFields
  <2> QED  BY <1>5, <2>2
<1> HIDE DEF S, F
<1>7. Cardinality(S) >= MaxEvents => Cardinality(F) = MaxEvents
  <2> HAVE Cardinality(S) >= MaxEvents
  <2>1. MaxEvents \in 0 .. Cardinality(S) /\ \A n \in S : n \in Nat
    BY <1>1, <1>2, <1>5
  <2> QED  BY <1>2, <1>4, <2>1, FirstPlaces
<1>8. Full <=> Cardinality(S) >= MaxEvents
  BY <1>1, <1>5, <1>6, <1>7 DEF Full
<1>9. \A n \in F : n \in Nat /\ n < pos + 1 /\ n \in DOMAIN file
  <2>1. \A n \in F : n \in 1 .. pos
    BY <1>2, <1>4
  <2> QED  BY <1>1, <2>1
<1> QED  BY <1>1, <1>5, <1>6, <1>8, <1>9 DEF S, F

\* What the step does not touch stays.
LEMMA ReadsKeeps ==
  ASSUME AttributionInv, Reads, log' \in Seq(LineRows), dropped' \in Nat, capped' \in Nat
  PROVE  /\ AttributionTypes' /\ TunnelsAreTold' /\ RequestsEnd' /\ LaunchIsFirst' /\ LinesAreTrue'
         /\ BytesAreCarried' /\ TimelineIsWhole' /\ pos' = pos + 1 /\ phase' = "reading" /\ phase = "reading"
         /\ UNCHANGED <<req, file>> /\ pos + 1 \in DOMAIN file /\ NextLine \in LineRows
<1> USE DEF AttributionInv
<1>1. /\ pos' = pos + 1 /\ phase' = "reading" /\ phase = "reading" /\ pos < Len(file)
      /\ UNCHANGED <<plan, clock, tunnels, wire, tripAt, req, file>>
  BY DEF Reads, job
<1>2. pos + 1 \in DOMAIN file /\ pos + 1 \in 0 .. Len(file) /\ NextLine \in LineRows
  <2>1. pos + 1 \in DOMAIN file /\ pos + 1 \in 0 .. Len(file)
    BY <1>1, LineFields
  <2> QED  BY <2>1, LineFields DEF NextLine
<1>3. AttributionTypes'
  <2>1. pos' \in 0 .. Len(file')
    BY <1>1, <1>2
  <2> QED  BY <1>1, <2>1 DEF AttributionTypes, RequestRows, Asked
<1>4. TunnelsKept /\ CostsKept
  BY <1>1, TunnelsUnchanged
<1>5. clock \in Nat
  BY SizesAreNat DEF AttributionTypes, Times
<1>6. RequestsEnd' /\ RequestsKept /\ \A h \in Hosts : Over(h)' = Over(h)
  BY <1>1, <1>4, <1>5, RequestsStay
<1>7. TunnelsAreTold'
  BY <1>1 DEF TunnelsAreTold
<1>8. LaunchIsFirst'
  BY <1>1 DEF LaunchIsFirst
<1>9. LinesAreTrue'
  BY <1>1, <1>6, LinesStay
<1>10. BytesAreCarried' /\ TimelineIsWhole'
  BY <1>1, <1>4, <1>6, CarriedStays
<1> QED  BY <1>1, <1>2, <1>3, <1>6, <1>7, <1>8, <1>9, <1>10

LEMMA ReadingMoves ==
  ASSUME UNCHANGED file, pos' = pos + 1
  PROVE  FitsIn(pos)' = FitsIn(pos + 1) /\ Beyond(pos)' = Beyond(pos + 1) /\ Within(pos)' = Within(pos + 1)
<1>1. ASSUME NEW p PROVE ValidUpTo(p)' = ValidUpTo(p)
  BY DEF ValidUpTo, Valid
<1> QED  BY <1>1 DEF FitsIn, Beyond, Within

\* Lines that are not kept leave the events as they are.
LEMMA PassesLineKeeps ==
  ASSUME AttributionInv, Reads, log' = log, ~Full => ~Valid(NextLine),
         dropped' \in Nat, capped' \in Nat,
         dropped' - capped' = dropped - capped + (IF ~Full /\ NextLine.kind = "bad" THEN 1 ELSE 0),
         capped' = capped + (IF Full /\ NextLine.kind # "blank" THEN 1 ELSE 0)
  PROVE  AttributionInv'
<1> USE DEF AttributionInv
<1>1. /\ AttributionTypes' /\ TunnelsAreTold' /\ RequestsEnd' /\ LaunchIsFirst' /\ LinesAreTrue'
      /\ BytesAreCarried' /\ TimelineIsWhole' /\ pos' = pos + 1 /\ phase' = "reading"
      /\ UNCHANGED <<req, file>> /\ pos + 1 \in DOMAIN file
  <2>1. log' \in Seq(LineRows)
    BY DEF AttributionTypes
  <2> QED  BY <2>1, ReadsKeeps
<1>2. pos \in Nat /\ 1 .. pos + 1 = (1 .. pos) \cup {pos + 1} /\ dropped \in Nat /\ capped \in Nat
      /\ pos < Len(file)
  <2>1. pos \in Nat
    BY LineFields
  <2> QED  BY <2>1 DEF AttributionTypes, Reads
<1>3. LogIsOfTheFile'
  <2>1. Requests' = Requests /\ Events("launch")' = Events("launch") /\ Full' = Full
    BY DEF Requests, Events, Full
  <2>2. \A k \in Requests : Event(k)' = Event(k)
    BY <1>1 DEF Event, Made
  <2>3. (\A k \in DOMAIN log : Valid(log[k]) /\ \E n \in 1 .. pos : log[k] = file[n])'
    <3>1. \A k \in DOMAIN log : Valid(log[k]) /\ \E n \in 1 .. pos : log[k] = file[n]
      BY DEF LogIsOfTheFile
    <3> QED  BY <1>1, <1>2, <3>1 DEF Valid
  <2>4. (\A k, l \in Requests : log[k].req = log[l].req => k = l)'
    BY <2>1 DEF LogIsOfTheFile
  <2>5. (~Full => \A n \in 1 .. pos : Valid(file[n]) => \E k \in DOMAIN log : log[k] = file[n])'
    <3>1. ~Full => \A n \in 1 .. pos : Valid(file[n]) => \E k \in DOMAIN log : log[k] = file[n]
      BY DEF LogIsOfTheFile
    <3>2. ~Full => \A n \in 1 .. pos + 1 : Valid(file[n]) => \E k \in DOMAIN log : log[k] = file[n]
      BY <1>2, <3>1 DEF NextLine
    <3> QED  BY <1>1, <2>1, <3>2 DEF Valid
  <2>6. (\A k \in Requests : Event(k).firefox => Events("launch") # {})'
    BY <2>1, <2>2 DEF LogIsOfTheFile
  <2> QED  BY <2>3, <2>4, <2>5, <2>6 DEF LogIsOfTheFile
<1>4. ReadingIsTold'
  <2> DEFINE full == Cardinality(ValidUpTo(pos)) >= MaxEvents
             k == NextLine.kind
  <2>1. /\ FitsIn(pos + 1) = FitsIn(pos)
             \cup IF Valid(NextLine) /\ Cardinality(ValidUpTo(pos)) < MaxEvents THEN {pos + 1} ELSE {}
        /\ Beyond(pos + 1) = Beyond(pos)
             \cup IF Cardinality(ValidUpTo(pos)) >= MaxEvents /\ NextLine.kind # "blank"
                  THEN {pos + 1} ELSE {}
        /\ Within(pos + 1) = Within(pos)
             \cup IF Cardinality(ValidUpTo(pos)) < MaxEvents /\ NextLine.kind = "bad"
                  THEN {pos + 1} ELSE {}
    BY <1>2, NextCounts
  <2>2. /\ Full <=> Cardinality(ValidUpTo(pos)) >= MaxEvents
        /\ ~Full <=> Cardinality(ValidUpTo(pos)) < MaxEvents
    BY FullTells
  <2>3. FitsIn(pos + 1) = FitsIn(pos)
    BY <2>1, <2>2
  <2>4. /\ IsFiniteSet(Beyond(pos)) /\ IsFiniteSet(Within(pos))
        /\ pos + 1 \notin Beyond(pos) /\ pos + 1 \notin Within(pos)
    <3>1. IsFiniteSet(1 .. pos) /\ pos + 1 \notin 1 .. pos
      BY <1>2, FS_Interval
    <3> QED  BY <3>1, FS_Subset DEF Beyond, Within
  <2>5. Cardinality(Beyond(pos) \cup {pos + 1}) = Cardinality(Beyond(pos)) + 1
    BY <2>4, FS_AddElement
  <2>6. Cardinality(Within(pos) \cup {pos + 1}) = Cardinality(Within(pos)) + 1
    BY <2>4, FS_AddElement
  <2>7. capped = Cardinality(Beyond(pos)) /\ dropped = capped + Cardinality(Within(pos))
        /\ log = Picked(file, FitsIn(pos))
    BY DEF ReadingIsTold
  <2>8. Cardinality(Beyond(pos)) \in Nat /\ Cardinality(Within(pos)) \in Nat
    BY <2>4, FS_CardinalityType
  <2>a. dropped' \in Nat /\ capped' \in Nat
    OBVIOUS
  <2>b. dropped = capped + Cardinality(Within(pos))
    BY <2>7
  <2>9. capped' = Cardinality(Beyond(pos + 1))
    <3>1. CASE Full /\ NextLine.kind # "blank"
      <4>1. Beyond(pos + 1) = Beyond(pos) \cup {pos + 1}
        BY <2>1, <2>2, <3>1
      <4> QED  BY <2>5, <2>7, <3>1, <4>1
    <3>2. CASE ~(Full /\ NextLine.kind # "blank")
      <4>1. Beyond(pos + 1) = Beyond(pos)
        BY <2>1, <2>2, <3>2
      <4>2. capped' = capped
        BY <1>2, <3>2
      <4> QED  BY <2>7, <4>1, <4>2
    <3> QED  BY <3>1, <3>2
  <2>10. dropped' = capped' + Cardinality(Within(pos + 1))
    <3>1. CASE ~Full /\ NextLine.kind = "bad"
      <4>1. Within(pos + 1) = Within(pos) \cup {pos + 1}
        BY <2>1, <2>2, <3>1
      <4>2. Cardinality(Within(pos + 1)) = Cardinality(Within(pos)) + 1
        BY <2>6, <4>1
      <4>3. dropped' - capped' = dropped - capped + 1
        BY <3>1
      <4> QED  BY ONLY <1>2, <2>a, <2>b, <2>8, <4>2, <4>3
    <3>2. CASE ~(~Full /\ NextLine.kind = "bad")
      <4>1. Within(pos + 1) = Within(pos)
        BY <2>1, <2>2, <3>2
      <4>2. dropped' - capped' = dropped - capped + 0
        BY <3>2
      <4>3. Cardinality(Within(pos + 1)) = Cardinality(Within(pos))
        BY <4>1
      <4> QED  BY ONLY <1>2, <2>a, <2>b, <2>8, <4>2, <4>3
    <3> QED  BY <3>1, <3>2
  <2>11. FitsIn(pos)' = FitsIn(pos + 1) /\ Beyond(pos)' = Beyond(pos + 1) /\ Within(pos)' = Within(pos + 1)
    BY <1>1, ReadingMoves
  <2>12. log' = Picked(file', FitsIn(pos)')
    BY <1>1, <2>3, <2>7, <2>11
  <2>13. capped' = Cardinality(Beyond(pos)') /\ dropped' = capped' + Cardinality(Within(pos)')
    BY <2>9, <2>10, <2>11
  <2> QED  BY <1>1, <2>12, <2>13 DEF ReadingIsTold
<1> QED  BY <1>1, <1>3, <1>4

LEMMA SkipLineKeeps ==
  ASSUME AttributionInv, SkipLine
  PROVE  AttributionInv'
<1>1. Reads /\ log' = log /\ dropped' = dropped /\ capped' = capped /\ NextLine.kind = "blank"
  BY DEF SkipLine
<1>2. ~Valid(NextLine) /\ NextLine.kind # "bad"
  BY <1>1 DEF Valid
<1>3. dropped \in Nat /\ capped \in Nat
  BY DEF AttributionInv, AttributionTypes
<1>4. dropped' - capped' = dropped - capped + (IF ~Full /\ NextLine.kind = "bad" THEN 1 ELSE 0)
  BY <1>1, <1>2, <1>3
<1>5. capped' = capped + (IF Full /\ NextLine.kind # "blank" THEN 1 ELSE 0)
  BY <1>1, <1>3
<1> QED  BY <1>1, <1>2, <1>3, <1>4, <1>5, PassesLineKeeps

LEMMA DropLineKeeps ==
  ASSUME AttributionInv, DropLine
  PROVE  AttributionInv'
<1>1. /\ Reads /\ log' = log /\ dropped' = dropped + 1
      /\ capped' = (IF Full THEN capped + 1 ELSE capped)
      /\ NextLine.kind # "blank" /\ (Full \/ ~Valid(NextLine))
  BY DEF DropLine
<1>2. dropped \in Nat /\ capped \in Nat /\ pos < Len(file)
  BY <1>1 DEF AttributionInv, AttributionTypes, Reads
<1>3. ~Full => NextLine.kind = "bad"
  <2>1. pos + 1 \in DOMAIN file
    BY <1>2, LineFields DEF AttributionInv
  <2>2. NextLine.kind \in {"attach", "launch", "request", "blank", "bad"}
    BY <2>1, LineFields DEF AttributionInv, NextLine
  <2> QED  BY <1>1, <2>2 DEF Valid
<1>4. dropped' - capped' = dropped - capped + (IF ~Full /\ NextLine.kind = "bad" THEN 1 ELSE 0)
  BY <1>1, <1>2, <1>3
<1>5. capped' = capped + (IF Full /\ NextLine.kind # "blank" THEN 1 ELSE 0)
  BY <1>1, <1>2
<1>6. dropped' \in Nat /\ capped' \in Nat
  BY <1>1, <1>2
<1> QED  BY <1>1, <1>4, <1>5, <1>6, PassesLineKeeps

LEMMA KeepLineKeeps ==
  ASSUME AttributionInv, KeepLine
  PROVE  AttributionInv'
<1> USE DEF AttributionInv
<1>0. Reads /\ Valid(NextLine) /\ ~Full /\ log' = Append(log, NextLine) /\ dropped' = dropped /\ capped' = capped
  BY DEF KeepLine
<1>p. PICK p : p = pos + 1
  OBVIOUS
<1>k. PICK L : L = Len(log) + 1
  OBVIOUS
<1>n. PICK next : next = NextLine
  OBVIOUS
<1>1. /\ pos \in Nat /\ 1 .. p = (1 .. pos) \cup {p} /\ dropped \in Nat /\ capped \in Nat
      /\ pos < Len(file) /\ p \in DOMAIN file /\ next = file[p] /\ next \in LineRows
      /\ \A n \in 1 .. pos : n \in DOMAIN file /\ n # p
  <2>1. pos \in Nat /\ pos < Len(file) /\ DOMAIN file = 1 .. Len(file) /\ Len(file) \in Nat
    BY <1>0, LineFields DEF Reads
  <2>2. p \in DOMAIN file
    BY <1>p, <2>1
  <2>3. next = file[p] /\ next \in LineRows
    BY <1>n, <1>p, <2>2, LineFields DEF NextLine
  <2> QED  BY <1>p, <2>1, <2>2, <2>3 DEF AttributionTypes
<1>2. /\ log' \in Seq(LineRows) /\ DOMAIN log' = DOMAIN log \cup {L} /\ L \notin DOMAIN log
      /\ log'[L] = next /\ \A k \in DOMAIN log : log'[k] = log[k]
  <2>1. log \in Seq(LineRows)
    BY DEF AttributionTypes
  <2>2. /\ log' \in Seq(LineRows) /\ Len(log') = Len(log) + 1
        /\ log'[Len(log) + 1] = next /\ \A i \in 1 .. Len(log) : log'[i] = log[i]
    BY <1>0, <1>1, <1>n, <2>1, AppendProperties
  <2>3. DOMAIN log = 1 .. Len(log) /\ DOMAIN log' = 1 .. Len(log) + 1 /\ Len(log) \in Nat
    BY <2>1, <2>2
  <2> QED  BY <1>k, <2>2, <2>3
<1>3. /\ AttributionTypes' /\ TunnelsAreTold' /\ RequestsEnd' /\ LaunchIsFirst' /\ LinesAreTrue'
      /\ BytesAreCarried' /\ TimelineIsWhole' /\ pos' = p /\ phase' = "reading"
      /\ UNCHANGED <<req, file>>
  <2>1. dropped' \in Nat /\ capped' \in Nat
    BY <1>0, <1>1
  <2> QED  BY <1>0, <1>2, <1>p, <2>1, ReadsKeeps
<1>4. LogIsOfTheFile'
  <2>1. /\ \A k \in DOMAIN log : Valid(log[k]) /\ \E n \in 1 .. pos : log[k] = file[n]
        /\ \A k, l \in Requests : log[k].req = log[l].req => k = l
        /\ \A n \in 1 .. pos : Valid(file[n]) => \E k \in DOMAIN log : log[k] = file[n]
        /\ \A k \in Requests : Event(k).firefox => Events("launch") # {}
    BY <1>0 DEF LogIsOfTheFile
  <2>2. Requests' = Requests \cup IF next.kind = "request" THEN {L} ELSE {}
    <3>1. Requests' = {k \in DOMAIN log' : log'[k].kind = "request"}
      BY DEF Requests, Events
    <3>2. Requests = {k \in DOMAIN log : log[k].kind = "request"}
      BY DEF Requests, Events
    <3> QED  BY <1>2, <3>1, <3>2
  <2>3. \A k \in Requests : k \in DOMAIN log /\ log[k].kind = "request"
    BY DEF Requests, Events
  <2>4. Events("launch") # {} => Events("launch")' # {}
    BY <1>2 DEF Events
  <2>5. (\A k \in DOMAIN log : Valid(log[k]) /\ \E n \in 1 .. pos : log[k] = file[n])'
    <3>1. \A k \in DOMAIN log' : k = L \/ k \in DOMAIN log
      BY <1>2
    <3>2. Valid(next) /\ \E n \in 1 .. p : next = file[n]
      BY <1>0, <1>1, <1>n
    <3>3. \A k \in DOMAIN log : Valid(log[k]) /\ \E n \in 1 .. p : log[k] = file[n]
      BY <1>1, <2>1
    <3>4. \A k \in DOMAIN log' : Valid(log'[k]) /\ \E n \in 1 .. p : log'[k] = file[n]
      BY <1>2, <3>1, <3>2, <3>3
    <3> QED  BY <1>3, <3>4 DEF Valid
  <2>6. (\A k, l \in Requests : log[k].req = log[l].req => k = l)'
    <3>1. ASSUME NEW k \in Requests, next.kind = "request" PROVE log[k].req # next.req
      <4>1. PICK n \in 1 .. pos : log[k] = file[n]
        BY <2>1, <2>3
      <4>2. n \in RequestLines /\ p \in RequestLines /\ n # p
        BY <1>1, <2>3, <3>1, <4>1 DEF RequestLines
      <4> QED  BY <1>1, <4>1, <4>2 DEF LinesAreTrue
    <3>2. \A k \in Requests : log'[k] = log[k]
      BY <1>2, <2>3
    <3> QED  BY <1>2, <2>1, <2>2, <3>1, <3>2
  <2>7. (~Full => \A n \in 1 .. pos : Valid(file[n]) => \E k \in DOMAIN log : log[k] = file[n])'
    <3>1. \A n \in 1 .. pos : Valid(file[n]) => \E k \in DOMAIN log' : log'[k] = file[n]
      BY <1>2, <2>1
    <3>2. \E k \in DOMAIN log' : log'[k] = file[p]
      BY <1>1, <1>2
    <3>3. \A n \in 1 .. p : Valid(file[n]) => \E k \in DOMAIN log' : log'[k] = file[n]
      BY <1>1, <3>1, <3>2
    <3> QED  BY <1>3, <3>3 DEF Valid
  <2>8. (\A k \in Requests : Event(k).firefox => Events("launch") # {})'
    <3>1. ASSUME NEW k \in Requests, Event(k)'.firefox PROVE Events("launch")' # {}
      <4>1. Event(k)' = Event(k)
        BY <1>2, <1>3, <2>3 DEF Event, Made
      <4> QED  BY <2>1, <2>4, <3>1, <4>1
    <3>2. ASSUME next.kind = "request", Event(L)'.firefox PROVE Events("launch")' # {}
      <4>1. p \in RequestLines
        BY <1>1, <3>2 DEF RequestLines
      <4>2. IsTrue(p)
        BY <4>1 DEF LinesAreTrue
      <4>3. req[file[p].req].kind.firefox
        <5>1. Event(L)' = req'[log'[L].req].kind
          BY <1>k DEF Event, Made
        <5> QED  BY <1>1, <1>2, <1>3, <3>2, <5>1
      <4>4. PICK m \in DOMAIN file : m < p /\ file[m].kind = "launch"
        BY <4>2, <4>3 DEF IsTrue
      <4>5. m \in 1 .. pos
        <5>1. DOMAIN file = 1 .. Len(file) /\ Len(file) \in Nat
          BY LineFields
        <5> QED  BY <1>1, <1>p, <4>4, <5>1
      <4>6. Valid(file[m])
        BY <4>4 DEF Valid
      <4>7. PICK k \in DOMAIN log : log[k] = file[m]
        BY <2>1, <4>5, <4>6
      <4>8. k \in Events("launch")
        BY <4>4, <4>7 DEF Events
      <4> QED  BY <2>4, <4>8
    <3> QED  BY <2>2, <3>1, <3>2
  <2> QED  BY <2>5, <2>6, <2>7, <2>8 DEF LogIsOfTheFile
<1>5. ReadingIsTold'
  <2>1. /\ FitsIn(pos + 1) = FitsIn(pos)
             \cup IF Valid(NextLine) /\ Cardinality(ValidUpTo(pos)) < MaxEvents THEN {pos + 1} ELSE {}
        /\ Beyond(pos + 1) = Beyond(pos)
             \cup IF Cardinality(ValidUpTo(pos)) >= MaxEvents /\ NextLine.kind # "blank"
                  THEN {pos + 1} ELSE {}
        /\ Within(pos + 1) = Within(pos)
             \cup IF Cardinality(ValidUpTo(pos)) < MaxEvents /\ NextLine.kind = "bad"
                  THEN {pos + 1} ELSE {}
    BY <1>1, NextCounts
  <2>2. /\ Full <=> Cardinality(ValidUpTo(pos)) >= MaxEvents
        /\ ~Full <=> Cardinality(ValidUpTo(pos)) < MaxEvents
    BY FullTells
  <2>a. IsFiniteSet(FitsIn(pos)) /\ \A n \in FitsIn(pos) : n \in Nat /\ n < p /\ n \in DOMAIN file
    BY <1>p, FullTells
  <2>3. NextLine.kind # "bad" /\ ~(Cardinality(ValidUpTo(pos)) >= MaxEvents)
    BY <1>0, <2>2 DEF Valid
  <2>4. FitsIn(p) = FitsIn(pos) \cup {p}
    BY <1>0, <1>p, <2>1, <2>2
  <2>5. Beyond(p) = Beyond(pos) /\ Within(p) = Within(pos)
    BY <1>p, <2>1, <2>3
  <2>6. FitsIn(pos)' = FitsIn(p) /\ Beyond(pos)' = Beyond(p) /\ Within(pos)' = Within(p)
    BY <1>3, <1>p, ReadingMoves
  <2>7. capped = Cardinality(Beyond(pos)) /\ dropped = capped + Cardinality(Within(pos))
        /\ log = Picked(file, FitsIn(pos))
    BY DEF ReadingIsTold
  <2>8. Picked(file, FitsIn(pos) \cup {p}) = Append(Picked(file, FitsIn(pos)), file[p])
    <3> DEFINE S == FitsIn(pos)
    <3>1. IsFiniteSet(S) /\ (\A n \in S : n \in Nat) /\ (\A n \in S : n < p) /\ p \in Nat
      BY <1>1, <1>p, <2>a
    <3>2. \A n \in S \cup {p} : file[n] \in LineRows
      BY <1>1, <2>a, LineFields
    <3> HIDE DEF S
    <3> DEFINE A == LineRows
    <3>a. \A n \in S \cup {p} : file[n] \in A
      BY <3>2
    <3> HIDE DEF A
    <3>3. PicksNext(file, S, p)
      BY ONLY <3>1, <3>a, PickedNext
    <3> QED  BY <3>3 DEF S, PicksNext
  <2>9. log' = Picked(file', FitsIn(pos)')
    BY <1>0, <1>1, <1>3, <1>n, <2>4, <2>6, <2>7, <2>8
  <2>10. capped' = Cardinality(Beyond(pos)') /\ dropped' = capped' + Cardinality(Within(pos)')
    BY <1>0, <2>5, <2>6, <2>7
  <2> QED  BY <1>3, <2>9, <2>10 DEF ReadingIsTold
<1> QED  BY <1>3, <1>4, <1>5

LEMMA EndOfFileKeeps ==
  ASSUME AttributionInv, EndOfFile
  PROVE  AttributionInv'
<1> USE DEF AttributionInv
<1>1. /\ UNCHANGED <<plan, clock, tunnels, wire, tripAt, req, file, pos, log, dropped, capped>>
      /\ phase = "reading" /\ phase' = "done" /\ pos = Len(file)
  BY DEF EndOfFile, job, intake
<1>2. AttributionTypes'
  BY <1>1 DEF AttributionTypes, RequestRows, Asked
<1>3. TunnelsKept /\ CostsKept /\ FileGrows
  BY <1>1, TunnelsUnchanged, FileUnchanged
<1>4. clock \in Nat
  BY SizesAreNat DEF AttributionTypes, Times
<1>5. RequestsEnd' /\ RequestsKept /\ \A h \in Hosts : Over(h)' = Over(h)
  BY <1>1, <1>3, <1>4, RequestsStay
<1>6. TunnelsAreTold'
  BY <1>1 DEF TunnelsAreTold
<1>7. LaunchIsFirst'
  BY <1>1 DEF LaunchIsFirst
<1>8. LinesAreTrue'
  BY <1>1, <1>5, LinesStay
<1>9. LogIsOfTheFile'
  BY <1>3, <1>5, LogStays
<1>10. BytesAreCarried' /\ TimelineIsWhole'
  BY <1>1, <1>3, <1>5, CarriedStays
<1>11. ReadingIsTold'
  BY <1>1, <1>3, ReadingStays
<1> QED  BY <1>2, <1>5, <1>6, <1>7, <1>8, <1>9, <1>10, <1>11

LEMMA AttributionUnchanged ==
  ASSUME AttributionInv, UNCHANGED vars
  PROVE  AttributionInv'
<1> USE DEF AttributionInv
<1>1. UNCHANGED <<plan, phase, clock, tunnels, wire, tripAt, req, file, pos, log, dropped, capped>>
  BY DEF vars
<1>2. AttributionTypes'
  BY <1>1 DEF AttributionTypes, RequestRows, Asked
<1>3. TunnelsKept /\ CostsKept /\ FileGrows
  BY <1>1, TunnelsUnchanged, FileUnchanged
<1>4. clock \in Nat
  BY SizesAreNat DEF AttributionTypes, Times
<1>5. RequestsEnd' /\ RequestsKept /\ \A h \in Hosts : Over(h)' = Over(h)
  BY <1>1, <1>3, <1>4, RequestsStay
<1>6. TunnelsAreTold'
  BY <1>1 DEF TunnelsAreTold
<1>7. LaunchIsFirst'
  BY <1>1 DEF LaunchIsFirst
<1>8. LinesAreTrue'
  BY <1>1, <1>5, LinesStay
<1>9. LogIsOfTheFile'
  BY <1>3, <1>5, LogStays
<1>10. BytesAreCarried' /\ TimelineIsWhole'
  BY <1>1, <1>3, <1>5, CarriedStays
<1>11. ReadingIsTold'
  <2>1. phase' = "done" => pos = Len(file')
    BY <1>1 DEF ReadingIsTold
  <2> QED  BY <1>1, <1>3, <2>1, ReadingStays
<1> QED  BY <1>2, <1>5, <1>6, <1>7, <1>8, <1>9, <1>10, <1>11

LEMMA AttributionStep == AttributionInv /\ [Next]_vars => AttributionInv'
<1> SUFFICES ASSUME AttributionInv, [Next]_vars PROVE AttributionInv'
  OBVIOUS
<1>1. CASE Tick \/ Trip \/ Start \/ EndJob
  BY <1>1, TickKeeps, TripKeeps, StartKeeps, EndJobKeeps
<1>2. CASE \E kind \in {"attach", "launch"} : Observe(kind)
  BY <1>2, ObserveKeeps
<1>3. CASE \E kind \in {"blank", "bad"} : Scribble(kind)
  BY <1>3, ScribbleKeeps
<1>4. CASE \E h \in Hosts, own, failed \in BOOLEAN : OpenTunnel(h, own, failed)
  BY <1>4, OpenTunnelKeeps
<1>5. CASE \E t \in DOMAIN tunnels : CloseTunnel(t)
  BY <1>5, CloseTunnelKeeps
<1>6. ASSUME NEW i \in DOMAIN req, NEW t \in DOMAIN tunnels, NEW status \in {200, 302}, NEW seen \in BOOLEAN,
             Metered(i, t, status, seen)
      PROVE  AttributionInv'
  BY <1>6, MeteredKeeps
<1>7. ASSUME NEW i \in DOMAIN req, NEW how \in {"around", "cache"}, Unmetered(i, how)
      PROVE  AttributionInv'
  BY <1>7, UnmeteredKeeps
<1>8. ASSUME NEW i \in DOMAIN req, NEW status \in {0, 403}, Refused(i, status) \/ RefusedByRule(i, status)
      PROVE  AttributionInv'
  BY <1>8, RefusedKeeps, RefusedByRuleKeeps
<1>11. ASSUME NEW i \in DOMAIN req, Challenged(i) PROVE AttributionInv'
  BY <1>11, ChallengedKeeps
<1>9. CASE SkipLine \/ KeepLine \/ DropLine \/ EndOfFile
  BY <1>9, SkipLineKeeps, KeepLineKeeps, DropLineKeeps, EndOfFileKeeps
<1>10. CASE UNCHANGED vars
  BY <1>10, AttributionUnchanged
<1> QED  BY <1>1, <1>2, <1>3, <1>4, <1>5, <1>6, <1>7, <1>8, <1>9, <1>10, <1>11 DEF Next

\* The facts above hold in every state.
LEMMA AttributionHolds == Spec => []AttributionInv
  BY AttributionStarts, AttributionStep, PTL DEF Spec

-----------------------------------------------------------------------------
(* Attribution: the events that were read.                                  *)

LEMMA ReadingExplains ==
  ASSUME AttributionInv
  PROVE  EventsAreThePrefix
<1> USE DEF AttributionInv
<1> DEFINE valid == {n \in DOMAIN file : Valid(file[n])}
           upto(n) == Cardinality({m \in valid : m <= n})
           kept  == {n \in valid : upto(n) <= MaxEvents}
           last  == IF Cardinality(valid) < MaxEvents THEN Len(file)
                    ELSE CHOOSE n \in valid : upto(n) = MaxEvents
           len == Len(file)
<1> SUFFICES ASSUME Done
             PROVE  /\ log = Picked(file, kept)
                    /\ capped = Cardinality({n \in DOMAIN file : n > last /\ file[n].kind # "blank"})
                    /\ dropped - capped = Cardinality({n \in DOMAIN file : n <= last /\ file[n].kind = "bad"})
  BY DEF EventsAreThePrefix
<1>1. /\ pos = len /\ log = Picked(file, FitsIn(len)) /\ capped = Cardinality(Beyond(len))
      /\ dropped = capped + Cardinality(Within(len))
  BY DEF ReadingIsTold, Done
<1>2. DOMAIN file = 1 .. len /\ len \in Nat /\ MaxEvents \in Nat \ {0}
  BY LineFields, SizesAreNat
<1> HIDE DEF len
<1>3. valid = ValidUpTo(len)
  BY <1>2 DEF ValidUpTo
<1>4. IsFiniteSet(valid) /\ (\A n \in valid : n \in 1 .. len /\ n \in Nat) /\ Cardinality(valid) \in Nat
  <2>1. IsFiniteSet(1 .. len)
    BY <1>2, FS_Interval
  <2>2. valid \in SUBSET (1 .. len)
    BY <1>2
  <2> QED  BY <1>2, <2>1, <2>2, FS_Subset, FS_CardinalityType
<1>5. \A p \in 0 .. len : ValidUpTo(p) = {m \in valid : m <= p}
  <2> TAKE p \in 0 .. len
  <2>1. \A n : n \in 1 .. p <=> n \in 1 .. len /\ n <= p
    BY <1>2
  <2> QED  BY <1>2, <2>1 DEF ValidUpTo
<1>6. \A p \in 0 .. len : upto(p) = Cardinality(ValidUpTo(p))
  BY <1>5
<1>7. kept = FitsIn(len)
  <2>1. \A n \in valid : n \in 0 .. len
    BY <1>2, <1>4
  <2> HIDE DEF valid, upto
  <2> QED  BY <1>3, <1>6, <2>1 DEF FitsIn
<1>8. \A n \in 1 .. len : n > last <=> Cardinality(ValidUpTo(n - 1)) >= MaxEvents
  <2> TAKE n \in 1 .. len
  <2>0. n - 1 \in 0 .. len /\ n \in Nat
    BY <1>2
  <2>1. ValidUpTo(n - 1) = {m \in valid : m <= n - 1}
    BY <1>5, <2>0
  <2>2. IsFiniteSet(ValidUpTo(n - 1)) /\ Cardinality(ValidUpTo(n - 1)) \in Nat
        /\ Cardinality(ValidUpTo(n - 1)) <= Cardinality(valid)
    <3>1. ValidUpTo(n - 1) \in SUBSET valid
      BY <2>1
    <3> QED  BY <1>4, <3>1, FS_Subset, FS_CardinalityType
  <2>3. CASE Cardinality(valid) < MaxEvents
    <3>1. last = len
      BY <2>3 DEF len
    <3> HIDE DEF last
    <3> QED  BY <1>2, <1>4, <2>2, <2>3, <3>1
  <2>4. CASE ~(Cardinality(valid) < MaxEvents)
    <3>1. MaxEvents \in 1 .. Cardinality(valid)
      BY <1>2, <1>4, <2>4
    <3>2. \E l \in valid : upto(l) = MaxEvents
      <4> HIDE DEF valid
      <4>1. \E l \in valid : Place(valid, l) = MaxEvents
        BY <1>4, <3>1, PlacesInOrder
      <4> QED  BY <4>1 DEF Place
    <3>3. last \in valid /\ upto(last) = MaxEvents
      BY <2>4, <3>2
    <3> HIDE DEF last
    <3>4. last \in 0 .. len /\ last \in Nat
      BY <1>2, <1>4, <3>3
    <3> DEFINE U == {m \in valid : m <= last}
    <3>5. Cardinality(U) = MaxEvents
      BY <3>3
    <3>6. IsFiniteSet(U) /\ last \in U
      BY <1>4, <3>3, <3>4, FS_Subset
    <3>7. ASSUME n > last PROVE Cardinality(ValidUpTo(n - 1)) >= MaxEvents
      <4>1. U \in SUBSET ValidUpTo(n - 1)
        BY <1>4, <2>0, <2>1, <3>4, <3>7
      <4> HIDE DEF U
      <4>2. Cardinality(U) <= Cardinality(ValidUpTo(n - 1))
        BY <2>2, <4>1, FS_Subset
      <4> QED  BY <1>2, <2>2, <3>5, <4>2
    <3>8. ASSUME ~(n > last) PROVE ~(Cardinality(ValidUpTo(n - 1)) >= MaxEvents)
      <4>1. ValidUpTo(n - 1) \in SUBSET (U \ {last})
        BY <1>4, <2>0, <2>1, <3>4, <3>8
      <4> HIDE DEF U
      <4>2. IsFiniteSet(U \ {last}) /\ Cardinality(U \ {last}) = Cardinality(U) - 1
        BY <3>6, FS_RemoveElement
      <4>3. Cardinality(ValidUpTo(n - 1)) <= Cardinality(U \ {last})
        BY <4>1, <4>2, FS_Subset
      <4> QED  BY <1>2, <2>2, <3>5, <4>2, <4>3
    <3> QED  BY <3>7, <3>8
  <2> QED  BY <2>3, <2>4
<1>9. \A n \in 1 .. len : n <= last <=> Cardinality(ValidUpTo(n - 1)) < MaxEvents
  <2> TAKE n \in 1 .. len
  <2>1. last \in Nat
    <3>1. CASE Cardinality(valid) < MaxEvents
      BY <1>2, <3>1 DEF len
    <3>2. CASE ~(Cardinality(valid) < MaxEvents)
      <4>1. MaxEvents \in 1 .. Cardinality(valid)
        BY <1>2, <1>4, <3>2
      <4>2. \E l \in valid : upto(l) = MaxEvents
        <5> HIDE DEF valid
        <5>1. \E l \in valid : Place(valid, l) = MaxEvents
          BY <1>4, <4>1, PlacesInOrder
        <5> QED  BY <5>1 DEF Place
      <4> QED  BY <1>4, <3>2, <4>2
    <3> QED  BY <3>1, <3>2
  <2>2. Cardinality(ValidUpTo(n - 1)) \in Nat
    <3>1. n - 1 \in 0 .. len
      BY <1>2
    <3>2. ValidUpTo(n - 1) \in SUBSET valid
      BY <1>5, <3>1
    <3> QED  BY <1>4, <3>2, FS_Subset, FS_CardinalityType
  <2> HIDE DEF last
  <2> QED  BY <1>2, <1>8, <2>1, <2>2
<1> HIDE DEF last, kept
<1>10. {n \in DOMAIN file : n > last /\ file[n].kind # "blank"} = Beyond(len)
  BY <1>2, <1>8 DEF Beyond
<1>11. {n \in DOMAIN file : n <= last /\ file[n].kind = "bad"} = Within(len)
  BY <1>2, <1>9 DEF Within
<1>12. dropped - capped = Cardinality(Within(len))
  <2>1. Within(len) \in SUBSET (1 .. len)
    BY DEF Within
  <2>a. IsFiniteSet(1 .. len)
    BY <1>2, FS_Interval
  <2>2. Cardinality(Within(len)) \in Nat
    BY <2>1, <2>a, FS_Subset, FS_CardinalityType
  <2>3. dropped \in Nat /\ capped \in Nat
    BY DEF AttributionTypes
  <2> QED  BY <1>1, <2>2, <2>3
<1> QED  BY <1>1, <1>7, <1>10, <1>11, <1>12

\* Whatever is in the file and whenever it was written, the events are the first valid
\* lines, and the warning about the cap names exactly the lines behind them.
THEOREM EventsAreRead == Spec => []EventsAreThePrefix
  BY AttributionHolds, ReadingExplains, PTL

-----------------------------------------------------------------------------
(* Attribution: shares, buckets and types.                                  *)

\* The request that an event is about.
LEMMA EventFacts ==
  ASSUME AttributionInv, NEW n \in Requests
  PROVE  /\ log[n].req \in DOMAIN req /\ Made(n) = req[log[n].req] /\ Ts(n) = Made(n).ts
         /\ Made(n).how \notin {"flight", "lost"} /\ Made(n).how \in Hows
         /\ Status(n) \in Statuses /\ IsKind(Event(n))
         /\ Event(n).wire \in Nat /\ Event(n).reported \in Nat
         /\ Canon[Event(n).name] = HostOf(log[n].req) /\ HostOf(log[n].req) \in Hosts
         /\ Size[n] \in Nat
<1>1. n \in DOMAIN log /\ log[n].kind = "request"
  BY DEF Requests, Events
<1>2. PICK m \in 1 .. pos : log[n] = file[m]
  BY <1>1 DEF AttributionInv, LogIsOfTheFile
<1>3. m \in RequestLines
  BY <1>1, <1>2, LineFields DEF RequestLines, AttributionInv
<1>4. IsTrue(m)
  BY <1>3 DEF AttributionInv, LinesAreTrue
<1>5. log[n].req \in DOMAIN req /\ Made(n) = req[log[n].req] /\ Ts(n) = Made(n).ts
      /\ Made(n).how \notin {"flight", "lost"}
  BY <1>2, <1>4 DEF IsTrue, Made, Ts
<1>6. PICK i \in DOMAIN req : i = log[n].req
  BY <1>5
<1>7. /\ req[i].how \in Hows /\ req[i].status \in Statuses /\ IsKind(req[i].kind)
      /\ req[i].kind.wire \in Nat /\ req[i].kind.reported \in Nat /\ HostOf(i) \in Hosts
  BY RequestFields DEF AttributionInv
<1>8. Made(n) = req[i] /\ Event(n) = req[i].kind /\ Status(n) = req[i].status
  BY <1>6 DEF Made, Event, Status
<1>9. Canon[Event(n).name] = HostOf(i)
  BY <1>8 DEF HostOf
<1>10. Size[n] \in Nat
  BY <1>7, <1>8 DEF Size
<1> QED  BY <1>5, <1>6, <1>7, <1>8, <1>9, <1>10

LEMMA EventSets ==
  ASSUME AttributionInv
  PROVE  /\ IsFiniteSet(Requests) /\ \A n \in Requests : n \in Nat
         /\ \A h : Network(h) \in SUBSET Requests /\ IsFiniteSet(Network(h))
         /\ \A h : Network(h) \in SUBSET Nat
<1>1. DOMAIN log = 1 .. Len(log) /\ Len(log) \in Nat
  BY LineFields DEF AttributionInv
<1>2. Requests \in SUBSET (1 .. Len(log))
  BY <1>1 DEF Requests, Events
<1>3. IsFiniteSet(Requests)
  <2>1. IsFiniteSet(1 .. Len(log))
    BY <1>1, FS_Interval
  <2> QED  BY <1>2, <2>1, FS_Subset
<1>4. \A n \in Requests : n \in Nat
  BY <1>1, <1>2
<1>5. ASSUME NEW h PROVE Network(h) \in SUBSET Requests
  BY DEF Network
<1> QED  BY <1>3, <1>4, <1>5, FS_Subset

\* The smaller of two numbers.
LEMMA MinOfTwo ==
  ASSUME NEW a \in Nat, NEW b \in Nat
  PROVE  /\ Min({a, b}) \in Nat /\ Min({a, b}) <= a /\ Min({a, b}) <= b
         /\ Min({a, b}) = a \/ Min({a, b}) = b
<1>1. \E x \in {a, b} : \A y \in {a, b} : x <= y
  <2>1. CASE a <= b
    BY <2>1
  <2>2. CASE b <= a
    BY <2>2
  <2> QED  BY <2>1, <2>2
<1>2. Min({a, b}) \in {a, b} /\ \A y \in {a, b} : Min({a, b}) <= y
  BY <1>1 DEF Min
<1> QED  BY <1>2

\* What is attributable to a host is part of what its records carried.
LEMMA AttributableFacts ==
  ASSUME AttributionInv, NEW h \in Hosts
  PROVE  /\ Carried(h) \in Nat /\ Attributable(h) \in Nat /\ Attributable(h) <= Carried(h)
         /\ Reported(Network(h)) \in Nat /\ OverheadAllowance(TargetTunnels(h), Network(h)) \in Nat
         /\ \/ Attributable(h) = Carried(h)
            \/ /\ ~Unbounded(Network(h))
               /\ Attributable(h) = Reported(Network(h)) + OverheadAllowance(TargetTunnels(h), Network(h))
<1> DEFINE N == Network(h)
           T == TargetTunnels(h)
           own == [t \in T |-> tunnels[t].negotiation + IF tunnels[t].own THEN Overhead ELSE 0]
           unknown == {n \in N : ~Event(n).headers}
<1>1. IsFiniteSet(N) /\ N \in SUBSET Requests /\ IsFiniteSet(T)
  BY EventSets, TermsAreNat DEF AttributionInv
<1>2. Carried(h) \in Nat
  <2>1. \A t \in T : WithConnect[t] \in Nat
    BY TermsAreNat DEF AttributionInv, TargetTunnels
  <2> HIDE DEF T
  <2>2. SumFunctionOnSet(WithConnect, T) \in Nat
    BY <1>1, <2>1, SumFacts
  <2> QED  BY <2>2 DEF Carried, T
<1>3. Reported(N) \in Nat
  <2>1. \A n \in N : Size[n] \in Nat
    BY <1>1, EventFacts
  <2> HIDE DEF N
  <2> QED  BY <1>1, <2>1, SumFacts DEF Reported
<1>4. SumFunctionOnSet(own, T) \in Nat
  <2>1. ASSUME NEW t \in T PROVE own[t] \in Nat
    <3>1. tunnels[t].negotiation \in Nat
      BY TunnelFields DEF AttributionInv, TargetTunnels
    <3> QED  BY <3>1, SizesAreNat
  <2> HIDE DEF own, T
  <2> QED  BY <1>1, <2>1, SumFacts
<1>5. UnknownHeaders * Cardinality(unknown) \in Nat
  <2>1. unknown \in SUBSET N
    OBVIOUS
  <2> HIDE DEF unknown, N
  <2>2. Cardinality(unknown) \in Nat
    BY <1>1, <2>1, FS_Subset, FS_CardinalityType
  <2>3. PICK u \in Nat : u = Cardinality(unknown)
    BY <2>2
  <2>4. PICK q \in Nat : q = UnknownHeaders
    BY SizesAreNat
  <2>5. q * u \in Nat
    BY Z3
  <2> QED  BY <2>3, <2>4, <2>5
<1>6. OverheadAllowance(T, N) = SumFunctionOnSet(own, T) + UnknownHeaders * Cardinality(unknown) + Reported(N) \div 4
  BY DEF OverheadAllowance
<1>7. Reported(N) \div 4 \in Nat
  BY <1>3, SMT
<1> HIDE DEF N, T, own, unknown
<1>8. OverheadAllowance(T, N) \in Nat
  BY <1>4, <1>5, <1>6, <1>7
<1>9. Attributable(h) = IF Unbounded(N) THEN Carried(h)
                        ELSE Min({Carried(h), Reported(N) + OverheadAllowance(T, N)})
  BY DEF Attributable, N, T
<1>10. PICK a \in Nat : a = Reported(N) + OverheadAllowance(T, N)
  BY <1>3, <1>8
<1>11. PICK c \in Nat : c = Carried(h)
  BY <1>2
<1>12. Min({c, a}) \in Nat /\ Min({c, a}) <= c /\ (Min({c, a}) = c \/ Min({c, a}) = a)
  BY MinOfTwo
<1> QED  BY <1>2, <1>3, <1>8, <1>9, <1>10, <1>11, <1>12 DEF N, T

LEMMA SharesFollow == AttributionInv => SharesFollowSizes
<1> SUFFICES ASSUME AttributionInv, NEW h \in Hosts, IsAttributed(h)
             PROVE  /\ SumFunction(Shares(h)) = Attributable(h)
                    /\ \A m, n \in Network(h) : Size[m] > Size[n] =>
                         Shares(h)[m] >= Shares(h)[n] /\ (Size[n] = 0 => Shares(h)[n] = 0)
  BY DEF SharesFollowSizes
<1> DEFINE N == Network(h)
           w == [n \in N |-> Size[n]]
           s == Shares(h)
<1>1. N \in SUBSET Nat /\ IsFiniteSet(N) /\ N # {}
  BY EventSets DEF IsAttributed
<1>2. w \in [N -> Nat]
  BY EventSets, EventFacts
<1>3. s = largest_remainder(Attributable(h), w) /\ DOMAIN w = N /\ \A n \in N : w[n] = Size[n]
  BY DEF Shares
<1>4. Attributable(h) \in Nat
  BY AttributableFacts
<1> HIDE DEF N, w, s
<1>5. ShareFairly(s, Attributable(h), w)
  BY <1>1, <1>2, <1>3, <1>4, SharesAreFair
<1>6. SumFunction(s) = Attributable(h)
  BY <1>3, <1>5 DEF ShareFairly, SumFunction
<1>7. ASSUME NEW m \in N, NEW n \in N, Size[m] > Size[n]
      PROVE  s[m] >= s[n] /\ (Size[n] = 0 => s[n] = 0)
  BY <1>3, <1>5, <1>7 DEF ShareFairly
<1> QED  BY <1>6, <1>7 DEF N, s

LEMMA SharesAreNat ==
  ASSUME AttributionInv, NEW h \in Hosts, IsAttributed(h)
  PROVE  /\ DOMAIN Shares(h) = Network(h) /\ \A n \in Network(h) : Shares(h)[n] \in Nat
         /\ SumFunctionOnSet(Shares(h), Network(h)) = Attributable(h)
<1> DEFINE N == Network(h)
           w == [n \in N |-> Size[n]]
           s == Shares(h)
<1>1. N \in SUBSET Nat /\ IsFiniteSet(N) /\ N # {}
  BY EventSets DEF IsAttributed
<1>2. w \in [N -> Nat]
  BY EventSets, EventFacts
<1>3. s = largest_remainder(Attributable(h), w) /\ DOMAIN w = N
  BY DEF Shares
<1>4. Attributable(h) \in Nat
  BY AttributableFacts
<1> HIDE DEF N, w, s
<1>5. ShareFairly(s, Attributable(h), w)
  BY <1>1, <1>2, <1>3, <1>4, SharesAreFair
<1> QED  BY <1>3, <1>5 DEF ShareFairly, N, s

\* The buckets are a partition of the records.
LEMMA BucketsAddUp ==
  ASSUME AttributionInv
  PROVE  SumFunction(Buckets) = SumFunctionOnSet(WithConnect, Target)
<1> DEFINE key == [t \in Target |-> BucketOf(t)]
           T == Target
<1>1. IsFiniteSet(BucketNames)
  <2>1. IsFiniteSet({"attributed", "background"})
    <3>1. IsFiniteSet({"attributed"} \cup {"background"})
      BY FS_Singleton, FS_AddElement
    <3>2. {"attributed"} \cup {"background"} = {"attributed", "background"}
      OBVIOUS
    <3> QED  BY <3>1, <3>2
  <2>2. IsFiniteSet({"attributed", "background"} \cup {"before_attach"})
    BY <2>1, FS_AddElement
  <2>3. IsFiniteSet(({"attributed", "background"} \cup {"before_attach"}) \cup {"preconnect_idle"})
    BY <2>2, FS_AddElement
  <2>4. IsFiniteSet((({"attributed", "background"} \cup {"before_attach"}) \cup {"preconnect_idle"}) \cup {"unattributed"})
    BY <2>3, FS_AddElement
  <2>5. BucketNames = (({"attributed", "background"} \cup {"before_attach"}) \cup {"preconnect_idle"}) \cup {"unattributed"}
    BY DEF BucketNames
  <2> QED  BY <2>4, <2>5
<1>2. IsFiniteSet(T) /\ \A t \in T : WithConnect[t] \in Nat
  BY TermsAreNat DEF AttributionInv, Target
<1>3. \A t \in T : key[t] \in BucketNames
  BY DEF BucketOf, Classify, BucketNames
<1>4. \A b \in BucketNames : Buckets[b] = SumFunctionOnSet(WithConnect, {t \in T : key[t] = b})
  <2>1. ASSUME NEW b \in BucketNames PROVE {t \in T : key[t] = b} = {t \in Target : BucketOf(t) = b}
    OBVIOUS
  <2> QED  BY <2>1 DEF Buckets
<1>p. ArePartsOf(Buckets, WithConnect, key, T, BucketNames)
  BY <1>4 DEF ArePartsOf
<1> HIDE DEF T, key
<1>5. SumFunctionOnSet(Buckets, BucketNames) = SumFunctionOnSet(WithConnect, T)
  BY <1>1, <1>2, <1>3, <1>p, SumOfParts
<1>6. DOMAIN Buckets = BucketNames
  BY DEF Buckets
<1> QED  BY <1>5, <1>6 DEF SumFunction, T

LEMMA AttributedSets ==
  ASSUME AttributionInv
  PROVE  /\ Attributed \in SUBSET Hosts /\ IsFiniteSet(Attributed)
         /\ \A h \in Attributed : IsAttributed(h)
         /\ \A t \in Target : IsAttributed(tunnels[t].host) <=> tunnels[t].host \in Attributed
<1>1. \A t \in Target : t \in DOMAIN tunnels /\ tunnels[t].host \in Hosts
  BY TunnelFields DEF Target, AttributionInv
<1>2. Attributed \in SUBSET Hosts
  BY <1>1 DEF Attributed
<1>3. IsFiniteSet(Attributed)
  <2> DEFINE f == [t \in Target |-> tunnels[t].host]
  <2>1. \A h \in Attributed : \E t \in Target : f[t] = h
    BY DEF Attributed
  <2>2. IsFiniteSet(Target)
    BY TermsAreNat DEF AttributionInv
  <2> HIDE DEF f
  <2> QED  BY <2>1, <2>2, ImageIsFinite
<1> QED  BY <1>2, <1>3 DEF Attributed

\* The attributed bucket is what the attributed hosts' records carried.
LEMMA BucketOfHosts ==
  ASSUME AttributionInv
  PROVE  /\ Buckets["attributed"] = SumFunctionOnSet([h \in Attributed |-> Carried(h)], Attributed)
         /\ \A h \in Attributed : Carried(h) \in Nat
<1> DEFINE S == {t \in Target : BucketOf(t) = "attributed"}
           key == [t \in S |-> tunnels[t].host]
           p == [h \in Attributed |-> Carried(h)]
<1>1. ASSUME NEW t \in Target PROVE BucketOf(t) = "attributed" <=> IsAttributed(tunnels[t].host)
  BY DEF BucketOf, Classify
<1>2. S \in SUBSET Target /\ IsFiniteSet(Target) /\ \A t \in Target : WithConnect[t] \in Nat
  BY TermsAreNat DEF AttributionInv, Target
<1>3. \A t \in S : key[t] \in Attributed
  BY <1>1, AttributedSets
<1>4. ASSUME NEW h \in Attributed PROVE p[h] = SumFunctionOnSet(WithConnect, {t \in S : key[t] = h})
  <2>1. {t \in S : key[t] = h} = TargetTunnels(h)
    BY <1>1, AttributedSets DEF Target, TargetTunnels
  <2> QED  BY <2>1 DEF Carried
<1>p. ArePartsOf(p, WithConnect, key, S, Attributed)
  BY <1>4 DEF ArePartsOf
<1>5. Buckets["attributed"] = SumFunctionOnSet(WithConnect, S)
  BY DEF Buckets, BucketNames
<1>6. \A h \in Attributed : Carried(h) \in Nat
  BY AttributableFacts, AttributedSets
<1> HIDE DEF S, key, p
<1>7. IsFiniteSet(S) /\ \A t \in S : WithConnect[t] \in Nat
  BY <1>2, FS_Subset
<1>8. SumFunctionOnSet(p, Attributed) = SumFunctionOnSet(WithConnect, S)
  BY <1>3, <1>7, <1>p, AttributedSets, SumOfParts
<1> QED  BY <1>5, <1>6, <1>8 DEF p

\* Types that events have, as they are filed.
LEMMA SeenTypes ==
  ASSUME AttributionInv
  PROVE  /\ TypesSeen \in SUBSET (Types \cup {"other"}) /\ IsFiniteSet(TypesSeen)
         /\ "unreported" \notin TypesSeen
         /\ \A h \in Attributed : \A n \in Network(h) : TypeOf(n) \in TypesSeen
<1>1. ASSUME NEW h \in Attributed, NEW n \in Network(h)
      PROVE  TypeOf(n) \in Types \cup {"other"} /\ TypeOf(n) # "unreported"
  <2>1. Event(n).type \in Types
    BY EventSets, EventFacts DEF IsKind
  <2> QED  BY <2>1 DEF TypeOf
<1>2. TypesSeen \in SUBSET (Types \cup {"other"}) /\ "unreported" \notin TypesSeen
  BY <1>1 DEF TypesSeen
<1>3. IsFiniteSet(Types \cup {"other"})
  <2>1. \A y \in Types : \E x \in DOMAIN TypeOrder : TypeOrder[x] = y
    BY DEF Types
  <2>2. IsFiniteSet(DOMAIN TypeOrder)
    BY TypeAssumption, FS_Interval
  <2>3. IsFiniteSet(Types)
    BY <2>1, <2>2, ImageIsFinite
  <2> QED  BY <2>3, FS_AddElement
<1>4. \A h \in Attributed : \A n \in Network(h) : TypeOf(n) \in TypesSeen
  BY DEF TypesSeen
<1> QED  BY <1>2, <1>3, <1>4, FS_Subset

LEMMA UnreportedFacts ==
  ASSUME AttributionInv
  PROVE  /\ \A h \in Attributed : Unreported(h) \in Nat /\ Carried(h) = Attributable(h) + Unreported(h)
         /\ AllUnreported \in Nat
<1>1. \A h \in Attributed : Unreported(h) \in Nat /\ Carried(h) = Attributable(h) + Unreported(h)
  BY AttributedSets, AttributableFacts DEF Unreported
<1> DEFINE u == [h \in Attributed |-> Unreported(h)]
<1>2. \A h \in Attributed : u[h] \in Nat
  BY <1>1
<1>3. AllUnreported = SumFunctionOnSet(u, Attributed)
  BY DEF AllUnreported
<1> HIDE DEF u
<1> QED  BY <1>1, <1>2, <1>3, AttributedSets, SumFacts

\* A host's shares by type add up to what is attributable to it.
LEMMA HostByType ==
  ASSUME AttributionInv, NEW h \in Attributed
  PROVE  /\ \A type : BytesOf(h, type) \in Nat
         /\ SumFunctionOnSet([type \in TypesSeen |-> BytesOf(h, type)], TypesSeen) = Attributable(h)
<1> DEFINE N == Network(h)
           v == Shares(h)
           key == [n \in N |-> TypeOf(n)]
           p == [type \in TypesSeen |-> BytesOf(h, type)]
<1>1. IsFiniteSet(N) /\ (\A n \in N : v[n] \in Nat) /\ SumFunctionOnSet(v, N) = Attributable(h)
  BY AttributedSets, EventSets, SharesAreNat
<1>2. \A n \in N : key[n] \in TypesSeen
  BY SeenTypes
<1>3. ASSUME NEW type PROVE BytesOf(h, type) = SumFunctionOnSet(v, {n \in N : key[n] = type})
  <2>1. {n \in N : key[n] = type} = {n \in Network(h) : TypeOf(n) = type}
    OBVIOUS
  <2> QED  BY <2>1 DEF BytesOf
<1>4. \A type \in TypesSeen : p[type] = SumFunctionOnSet(v, {n \in N : key[n] = type})
  BY <1>3
<1>p. ArePartsOf(p, v, key, N, TypesSeen)
  BY <1>4 DEF ArePartsOf
<1> HIDE DEF N, v, key, p
<1>5. SumFunctionOnSet(p, TypesSeen) = SumFunctionOnSet(v, N)
  BY <1>1, <1>2, <1>p, SeenTypes, SumOfParts
<1>6. ASSUME NEW type PROVE BytesOf(h, type) \in Nat
  <2> DEFINE M == {n \in N : key[n] = type}
  <2>1. M \in SUBSET N
    OBVIOUS
  <2>2. BytesOf(h, type) = SumFunctionOnSet(v, M)
    BY <1>3
  <2> HIDE DEF M
  <2>3. IsFiniteSet(M) /\ \A n \in M : v[n] \in Nat
    BY <1>1, <2>1, FS_Subset
  <2> QED  BY <2>2, <2>3, SumFacts
<1> QED  BY <1>1, <1>5, <1>6 DEF p

\* The rows before they are folded: what their bytes are, and that they add up.
LEMMA RowsAddUp ==
  ASSUME AttributionInv
  PROVE  /\ IsFiniteSet(DOMAIN TypeRows) /\ DOMAIN TypeRows \in SUBSET (Types \cup {"other", "unreported"})
         /\ \A type \in DOMAIN TypeRows : TypeRows[type] \in Nat
         /\ SumFunctionOnSet(TypeRows, DOMAIN TypeRows) = Buckets["attributed"]
         /\ AllUnreported = IF "unreported" \in DOMAIN TypeRows THEN TypeRows["unreported"] ELSE 0
<1> DEFINE A == Attributed
           B == TypesSeen
           rows == TypeRows
           row == [h \in A |-> [type \in B |-> BytesOf(h, type)]]
           col == [type \in B |-> [h \in A |-> BytesOf(h, type)]]
           r == [h \in A |-> Attributable(h)]
           u == [h \in A |-> Unreported(h)]
           k == [h \in A |-> Carried(h)]
<1>1. IsFiniteSet(A) /\ IsFiniteSet(B) /\ B \in SUBSET (Types \cup {"other"}) /\ "unreported" \notin B
  BY AttributedSets, SeenTypes
<1>2. \A h \in A : \A type : BytesOf(h, type) \in Nat
  BY HostByType
<1>3. \A h \in A, type \in B : row[h][type] \in Nat /\ col[type][h] = row[h][type]
  BY <1>2
<1>4. \A h \in A : r[h] = SumFunctionOnSet(row[h], B)
  BY HostByType
<1>5. DOMAIN rows = B \cup IF AllUnreported > 0 THEN {"unreported"} ELSE {}
  BY DEF TypeRows
<1>6. \A type \in B : rows[type] = SumFunctionOnSet(col[type], A)
  BY <1>1, <1>5 DEF TypeRows
<1>7. AllUnreported > 0 => rows["unreported"] = AllUnreported
  BY <1>5 DEF TypeRows
<1>8. \A h \in A : r[h] \in Nat /\ u[h] \in Nat /\ k[h] = r[h] + u[h]
  BY AttributedSets, AttributableFacts, UnreportedFacts
<1>9. AllUnreported = SumFunctionOnSet(u, A) /\ AllUnreported \in Nat
  BY UnreportedFacts DEF AllUnreported
<1>10. Buckets["attributed"] = SumFunctionOnSet(k, A)
  BY BucketOfHosts
<1>t. IsTable(row, col, r, rows, A, B)
  BY <1>3, <1>4, <1>6 DEF IsTable
<1> HIDE DEF A, B, rows, row, col, r, u, k
<1>11. SumFunctionOnSet(r, A) = SumFunctionOnSet(rows, B)
  BY <1>1, <1>t, SumOfTable
<1>12. SumFunctionOnSet(k, A) = SumFunctionOnSet(r, A) + SumFunctionOnSet(u, A)
  BY <1>1, <1>8, SumPlus
<1>13. \A type \in B : rows[type] \in Nat
  <2>1. ASSUME NEW type \in B PROVE rows[type] \in Nat
    <3> DEFINE c == col[type]
    <3>1. \A h \in A : c[h] \in Nat
      BY <1>3
    <3>2. rows[type] = SumFunctionOnSet(c, A)
      BY <1>6
    <3> HIDE DEF c
    <3> QED  BY <1>1, <3>1, <3>2, SumFacts
  <2> QED  BY <2>1
<1>14. CASE AllUnreported = 0
  <2>1. DOMAIN rows = B
    BY <1>5, <1>14
  <2>2. SumFunctionOnSet(rows, B) \in Nat
    BY <1>1, <1>13, SumFacts
  <2>3. SumFunctionOnSet(rows, B) = Buckets["attributed"]
    BY <1>9, <1>10, <1>11, <1>12, <1>14, <2>2
  <2> QED  BY <1>1, <1>13, <1>14, <2>1, <2>3 DEF rows
<1>15. CASE AllUnreported > 0
  <2>1. DOMAIN rows = B \cup {"unreported"} /\ rows["unreported"] = AllUnreported
    BY <1>5, <1>7, <1>15
  <2>2. \A type \in B \cup {"unreported"} : rows[type] \in Nat
    BY <1>9, <1>13, <2>1
  <2>3. SumFunctionOnSet(rows, B \cup {"unreported"}) = rows["unreported"] + SumFunctionOnSet(rows, B)
    BY <1>1, <2>2, SumNew
  <2>4. SumFunctionOnSet(rows, B) \in Nat
    BY <1>1, <1>13, SumFacts
  <2>5. SumFunctionOnSet(rows, DOMAIN rows) = Buckets["attributed"]
    BY <1>9, <1>10, <1>11, <1>12, <2>1, <2>3, <2>4
  <2>6. IsFiniteSet(DOMAIN rows)
    BY <1>1, <2>1, FS_AddElement
  <2> QED  BY <1>1, <2>1, <2>2, <2>5, <2>6 DEF rows
<1> QED  BY <1>9, <1>14, <1>15

\* Types that are not the same are not at the same place of the alphabet.
LEMMA AlphabetIsOrder ==
  /\ \A a \in Types : Alphabetical(a) \in Nat /\ TypeOrder[Alphabetical(a)] = a
  /\ \A a, b \in Types : Alphabetical(a) = Alphabetical(b) => a = b
<1>1. ASSUME NEW a \in Types PROVE Alphabetical(a) \in DOMAIN TypeOrder /\ TypeOrder[Alphabetical(a)] = a
  <2>1. \E n \in DOMAIN TypeOrder : TypeOrder[n] = a
    BY DEF Types
  <2> QED  BY <2>1 DEF Alphabetical
<1>2. \A n \in DOMAIN TypeOrder : n \in Nat
  BY TypeAssumption
<1> QED  BY <1>1, <1>2

\* Whether b is before a when the largest are kept first: an order, and a total one.
RowBefore(rows, b, a) == rows[b] > rows[a] \/ (rows[b] = rows[a] /\ Alphabetical(b) < Alphabetical(a))

LEMMA RowsInOrder ==
  ASSUME NEW S, S \in SUBSET Types, NEW rows, \A a \in S : rows[a] \in Nat
  PROVE  /\ \A a \in S : ~RowBefore(rows, a, a)
         /\ \A a, b \in S : a # b => RowBefore(rows, a, b) \/ RowBefore(rows, b, a)
         /\ \A a, b, c \in S : RowBefore(rows, c, b) /\ RowBefore(rows, b, a) => RowBefore(rows, c, a)
<1>1. \A a \in S : Alphabetical(a) \in Nat /\ rows[a] \in Nat
  BY AlphabetIsOrder
<1>2. \A a, b \in S : Alphabetical(a) = Alphabetical(b) => a = b
  BY AlphabetIsOrder
<1>3. ASSUME NEW a \in S PROVE ~RowBefore(rows, a, a)
  <2>1. PICK ra \in Nat, na \in Nat : ra = rows[a] /\ na = Alphabetical(a)
    BY <1>1
  <2> QED  BY <2>1 DEF RowBefore
<1>4. ASSUME NEW a \in S, NEW b \in S, a # b PROVE RowBefore(rows, a, b) \/ RowBefore(rows, b, a)
  <2>1. PICK ra \in Nat, rb \in Nat, na \in Nat, nb \in Nat :
          ra = rows[a] /\ rb = rows[b] /\ na = Alphabetical(a) /\ nb = Alphabetical(b)
    BY <1>1
  <2>2. na # nb
    BY <1>2, <1>4, <2>1
  <2> QED  BY <2>1, <2>2 DEF RowBefore
<1>5. ASSUME NEW a \in S, NEW b \in S, NEW c \in S, RowBefore(rows, c, b), RowBefore(rows, b, a)
      PROVE  RowBefore(rows, c, a)
  <2>1. PICK ra \in Nat, rb \in Nat, rc \in Nat, na \in Nat, nb \in Nat, nc \in Nat :
          /\ ra = rows[a] /\ rb = rows[b] /\ rc = rows[c]
          /\ na = Alphabetical(a) /\ nb = Alphabetical(b) /\ nc = Alphabetical(c)
    BY <1>1
  <2> QED  BY <1>5, <2>1 DEF RowBefore
<1> QED  BY <1>3, <1>4, <1>5

\* Largest keeps no more than it has places for.
LEMMA LargestFits ==
  ASSUME NEW S, S \in SUBSET Types, IsFiniteSet(S), NEW rows, \A a \in S : rows[a] \in Nat,
         NEW places, places \in Nat
  PROVE  /\ Largest(rows, S, places) \in SUBSET S /\ IsFiniteSet(Largest(rows, S, places))
         /\ Cardinality(Largest(rows, S, places)) \in Nat
         /\ Cardinality(Largest(rows, S, places)) <= places
<1> DEFINE ahead == Larger(rows, S)
           L == Largest(rows, S, places)
<1>1. L \in SUBSET S /\ L = {a \in S : Cardinality(ahead[a]) < places}
  BY DEF Largest
<1>2. /\ \A a \in S : ~RowBefore(rows, a, a)
      /\ \A a, b \in S : a # b => RowBefore(rows, a, b) \/ RowBefore(rows, b, a)
      /\ \A a, b, c \in S : RowBefore(rows, c, b) /\ RowBefore(rows, b, a) => RowBefore(rows, c, a)
  BY RowsInOrder
<1>3. \A a \in S : ahead[a] = {b \in S : RowBefore(rows, b, a)}
  BY DEF Larger, RowBefore
<1> HIDE DEF ahead, L
<1>4. \A a, b \in S : b \in ahead[a] <=> RowBefore(rows, b, a)
  BY <1>3
<1>5. IsLine(ahead, S)
  <2>1. \A a \in S : ahead[a] \in SUBSET (S \ {a})
    BY <1>2, <1>3
  <2>2. \A a, b \in S : a # b => a \in ahead[b] \/ b \in ahead[a]
    BY <1>2, <1>4
  <2>3. \A a \in S : \A b \in ahead[a] : ahead[b] \subseteq ahead[a]
    BY <1>2, <1>3
  <2> QED  BY <2>1, <2>2, <2>3 DEF IsLine
<1>6. IsFiniteSet(L) /\ Cardinality(L) \in Nat /\ Cardinality(S) \in Nat /\ Cardinality(L) <= Cardinality(S)
  BY <1>1, FS_Subset, FS_CardinalityType
<1>7. CASE places <= Cardinality(S)
  <2>1. places \in 0 .. Cardinality(S)
    BY <1>6, <1>7
  <2>2. Cardinality({a \in S : Cardinality(ahead[a]) < places}) = places
    BY <1>5, <2>1, FirstInLine
  <2> QED  BY <1>1, <1>6, <2>2 DEF L
<1>8. CASE Cardinality(S) < places
  BY <1>1, <1>6, <1>8 DEF L
<1> QED  BY <1>6, <1>7, <1>8

\* Folding keeps the sum, is short enough, and leaves the unreported bytes alone.
LEMMA FoldAddsUp ==
  ASSUME NEW rows, IsFiniteSet(DOMAIN rows), \A type \in DOMAIN rows : rows[type] \in Nat,
         DOMAIN rows \in SUBSET (Types \cup {"other", "unreported"})
  PROVE  /\ SumFunctionOnSet(FoldTypes(rows), DOMAIN FoldTypes(rows)) = SumFunctionOnSet(rows, DOMAIN rows)
         /\ Cardinality(DOMAIN FoldTypes(rows)) <= MaxTypes
         /\ "unreported" \in DOMAIN FoldTypes(rows) <=> "unreported" \in DOMAIN rows
         /\ "unreported" \in DOMAIN rows => FoldTypes(rows)["unreported"] = rows["unreported"]
<1> DEFINE D == DOMAIN rows
           S == D \ {"other", "unreported"}
           pinned == D \cap {"unreported"}
           places == (MaxTypes - 1) - Cardinality(pinned)
           K == Kept(rows)
           f == FoldTypes(rows)
<1>1. CASE Cardinality(D) <= MaxTypes
  BY <1>1 DEF FoldTypes
<1>2. CASE ~(Cardinality(D) <= MaxTypes)
  <2>1. f = [type \in K \cup {"other"} |->
               IF type \in K THEN rows[type] ELSE SumFunctionOnSet(rows, D \ K)]
    BY <1>2 DEF FoldTypes
  <2>2. IsFiniteSet(pinned) /\ Cardinality(pinned) \in {0, 1} /\ ("unreported" \in pinned <=> "unreported" \in D)
    <3>1. pinned = {} \/ pinned = {"unreported"}
      OBVIOUS
    <3> HIDE DEF pinned
    <3>2. IsFiniteSet({}) /\ Cardinality({}) = 0 /\ IsFiniteSet({"unreported"}) /\ Cardinality({"unreported"}) = 1
      BY FS_EmptySet, FS_Singleton
    <3>3. IsFiniteSet(pinned) /\ Cardinality(pinned) \in {0, 1}
      BY <3>1, <3>2
    <3> QED  BY <3>3 DEF pinned
  <2>3. S \in SUBSET Types /\ IsFiniteSet(S) /\ \A a \in S : rows[a] \in Nat
    <3>1. S \in SUBSET D /\ S \in SUBSET Types
      OBVIOUS
    <3> HIDE DEF S
    <3> QED  BY <3>1, FS_Subset
  <2>4. places \in Nat
    BY <2>2, SizesAreNat
  <2> DEFINE L == Largest(rows, S, places)
  <2>5. K = pinned \cup L
    BY DEF Kept
  <2>6. "other" \notin pinned /\ pinned \in SUBSET D /\ S \in SUBSET D
        /\ "other" \notin S /\ "unreported" \notin S
    OBVIOUS
  <2> HIDE DEF S, pinned, K, f, L
  <2>7. L \in SUBSET S /\ IsFiniteSet(L) /\ Cardinality(L) \in Nat /\ Cardinality(L) <= places
    <3> HIDE DEF places
    <3> QED  BY <2>3, <2>4, LargestFits DEF L
  <2>8. K \in SUBSET D /\ "other" \notin K /\ ("unreported" \in K <=> "unreported" \in D)
    BY <2>2, <2>5, <2>6, <2>7
  <2>9. IsFiniteSet(K) /\ Cardinality(K) \in Nat /\ Cardinality(K) <= MaxTypes - 1
    <3>1. IsFiniteSet(K)
      BY <2>8, FS_Subset
    <3>2. Cardinality(K) \in Nat /\ Cardinality(pinned \cap L) \in Nat
      <4>1. IsFiniteSet(pinned \cap L)
        BY <2>2, FS_Subset
      <4> QED  BY <3>1, <4>1, FS_CardinalityType
    <3>3. Cardinality(K) = Cardinality(pinned) + Cardinality(L) - Cardinality(pinned \cap L)
      BY <2>2, <2>5, <2>7, FS_Union
    <3>4. MaxTypes \in Nat
      BY SizesAreNat
    <3> QED  BY <2>2, <2>7, <3>1, <3>2, <3>3, <3>4
  <2>10. DOMAIN f = K \cup {"other"} /\ (\A a \in K : f[a] = rows[a])
         /\ f["other"] = SumFunctionOnSet(rows, D \ K)
    BY <2>1, <2>8
  <2> HIDE DEF D, places
  <2>11. IsFiniteSet(D) /\ \A a \in D : rows[a] \in Nat
    BY DEF D
  <2>12. SumFunctionOnSet(rows, D) = SumFunctionOnSet(rows, K) + SumFunctionOnSet(rows, D \ K)
    BY <2>8, <2>11, SumSplit
  <2>13. SumFunctionOnSet(f, K) = SumFunctionOnSet(rows, K)
    BY <2>8, <2>9, <2>10, <2>11, SumSame
  <2>14. SumFunctionOnSet(rows, K) \in Nat
    BY <2>8, <2>9, <2>11, SumFacts
  <2>15. SumFunctionOnSet(rows, D \ K) \in Nat
    <3>1. IsFiniteSet(D \ K)
      BY <2>11, FS_Subset
    <3> QED  BY <2>11, <3>1, SumFacts
  <2>16. SumFunctionOnSet(f, K \cup {"other"}) = f["other"] + SumFunctionOnSet(f, K)
    <3>1. \A a \in K \cup {"other"} : f[a] \in Nat
      BY <2>8, <2>10, <2>11, <2>15
    <3> QED  BY <2>8, <2>9, <3>1, SumNew
  <2>17. Cardinality(DOMAIN f) <= MaxTypes
    <3>1. Cardinality(K \cup {"other"}) = Cardinality(K) + 1
      BY <2>8, <2>9, FS_AddElement
    <3> QED  BY <2>9, <2>10, <3>1, SizesAreNat
  <2>18. SumFunctionOnSet(f, DOMAIN f) = SumFunctionOnSet(rows, D)
    BY <2>10, <2>12, <2>13, <2>14, <2>15, <2>16
  <2>19. ("unreported" \in DOMAIN f <=> "unreported" \in D) /\ ("unreported" \in D => f["unreported"] = rows["unreported"])
    BY <2>8, <2>10
  <2> QED  BY <2>17, <2>18, <2>19 DEF D, f
<1> QED  BY <1>1, <1>2

LEMMA TypesAddUp == AttributionInv => BytesAddUp
<1> SUFFICES ASSUME AttributionInv
             PROVE  /\ SumFunction(Buckets) = SumFunctionOnSet(WithConnect, Target)
                    /\ SumFunction(FoldTypes(TypeRows)) = Buckets["attributed"]
                    /\ Cardinality(DOMAIN FoldTypes(TypeRows)) <= MaxTypes
                    /\ AllUnreported = IF "unreported" \in DOMAIN FoldTypes(TypeRows)
                                       THEN FoldTypes(TypeRows)["unreported"] ELSE 0
  BY DEF BytesAddUp
<1> DEFINE rows == TypeRows
           f == FoldTypes(rows)
<1>1. /\ IsFiniteSet(DOMAIN rows) /\ DOMAIN rows \in SUBSET (Types \cup {"other", "unreported"})
      /\ \A type \in DOMAIN rows : rows[type] \in Nat
      /\ SumFunctionOnSet(rows, DOMAIN rows) = Buckets["attributed"]
      /\ AllUnreported = IF "unreported" \in DOMAIN rows THEN rows["unreported"] ELSE 0
  BY RowsAddUp
<1> HIDE DEF rows
<1>2. /\ SumFunctionOnSet(f, DOMAIN f) = SumFunctionOnSet(rows, DOMAIN rows)
      /\ Cardinality(DOMAIN f) <= MaxTypes
      /\ "unreported" \in DOMAIN f <=> "unreported" \in DOMAIN rows
      /\ "unreported" \in DOMAIN rows => f["unreported"] = rows["unreported"]
  BY <1>1, FoldAddsUp
<1> HIDE DEF f
<1>3. SumFunction(f) = Buckets["attributed"]
  BY <1>1, <1>2 DEF SumFunction
<1>4. AllUnreported = IF "unreported" \in DOMAIN f THEN f["unreported"] ELSE 0
  BY <1>1, <1>2
<1> QED  BY <1>2, <1>3, <1>4, BucketsAddUp DEF f, rows

\* No byte is lost or counted twice between the meter and the tables of the report,
\* whatever the requests, records and sizes are: a split over hosts, requests and types
\* in turn, of which each keeps the sum.
THEOREM BytesAreKept == Spec => []BytesAreShared
<1>1. AttributionInv => BytesAreShared
  BY SharesFollow, TypesAddUp DEF BytesAreShared
<1> QED  BY <1>1, AttributionHolds, PTL

-----------------------------------------------------------------------------
(* Attribution: false alarms.                                               *)

\* How an event that the bypass check looks at ended: over a record of its host that was
\* open when it started, if not around the meter.
LEMMA SuspectsAre ==
  ASSUME AttributionInv, Done, NEW h \in Hosts, NEW n \in Suspects(h), Made(n).how \notin {"around", "challenged"}
  PROVE  /\ n \in Network(h) /\ n \in Requests /\ HostOf(log[n].req) = h /\ Made(n).how \in {"metered", "denied"}
         /\ ~OutsideTunnels(h, n)
<1> DEFINE i == log[n].req
<1>1. /\ n \in Network(h) /\ h \notin Loopback /\ Status(n) # 0 /\ ~RefusedAfterTrip(n)
  BY DEF Suspects
<1>2. n \in Requests /\ Made(n).how # "cache" /\ Canon[Event(n).name] = h
  BY <1>1 DEF Network
<1>3. /\ i \in DOMAIN req /\ Made(n) = req[i] /\ Ts(n) = req[i].ts /\ Made(n).how \notin {"flight", "lost"}
      /\ Made(n).how \in Hows /\ Status(n) \in Statuses /\ HostOf(i) = h
  BY <1>2, EventFacts
<1> HIDE DEF i
<1>4. req[i].ts \in Nat /\ Status(n) = req[i].status
  BY <1>3, RequestFields DEF AttributionInv, Status
<1>5. Ended(i)
  BY <1>3 DEF AttributionInv, RequestsEnd
<1>6. Made(n).how # "refused"
  <2>1. ASSUME Made(n).how = "refused" PROVE FALSE
    <3>1. req[i].status \in {0, 403} /\ tripAt # Never /\ req[i].ts >= tripAt - TimeSlack
      BY <1>3, <1>5, <2>1 DEF Ended
    <3> QED  BY <1>1, <1>3, <1>4, <3>1 DEF RefusedAfterTrip
  <2> QED  BY <2>1
<1>7. Made(n).how \in {"metered", "denied"}
  BY <1>2, <1>3, <1>6 DEF Hows
<1>8. PICK t \in DOMAIN tunnels : Covers(t, i)
  BY <1>3, <1>5, <1>7 DEF Ended
<1>9. tunnels[t].closed # Never /\ tunnels[t].closed \in Nat /\ tunnels[t].closed >= req[i].ts /\ tunnels[t].host = h
  <2>1. tunnels[t].closed # Never
    BY DEF AttributionInv, TunnelsAreTold, Done
  <2> QED  BY <1>3, <1>8, <2>1, TunnelFields DEF Covers, AttributionInv
<1>10. t \in TunnelsTo(h)
  BY <1>9 DEF TunnelsTo
<1>11. LastClose(h) >= tunnels[t].closed /\ LastClose(h) \in Int
  <2> DEFINE C == {tunnels[u].closed : u \in TunnelsTo(h)}
             f == [u \in TunnelsTo(h) |-> tunnels[u].closed]
  <2>0. \A u \in TunnelsTo(h) : tunnels[u].closed \in Nat
    <3>1. \A u \in TunnelsTo(h) : u \in DOMAIN tunnels /\ tunnels[u].closed # Never
      BY DEF AttributionInv, TunnelsAreTold, Done, TunnelsTo
    <3> QED  BY <3>1, TunnelFields DEF AttributionInv
  <2>1. tunnels[t].closed \in C /\ \A y \in C : y \in Nat
    BY <1>10, <2>0
  <2>2. IsFiniteSet(TunnelsTo(h))
    BY TermsAreNat, FS_Subset DEF TunnelsTo, AttributionInv
  <2>3. \A y \in C : \E u \in TunnelsTo(h) : f[u] = y
    OBVIOUS
  <2>4. LastClose(h) = Max(C)
    BY DEF LastClose
  <2> HIDE DEF C, f
  <2>5. IsFiniteSet(C)
    BY <2>2, <2>3, ImageIsFinite
  <2>6. Max(C) \in C /\ \A y \in C : y <= Max(C)
    <3>1. C # {}
      BY <2>1
    <3> QED  BY <2>1, <2>5, <3>1, LargestOf
  <2> QED  BY <2>1, <2>4, <2>6
<1>12. ~OutsideTunnels(h, n)
  <2>1. TimeSlack \in Nat
    BY SizesAreNat
  <2> QED  BY <1>3, <1>4, <1>9, <1>10, <1>11, <2>1 DEF OutsideTunnels
<1> QED  BY <1>1, <1>2, <1>3, <1>7, <1>12 DEF i

\* What is weighed and went over a host's records is no more than these carried.
LEMMA WeighedIsCarried ==
  ASSUME AttributionInv, NEW h \in Hosts,
         NEW M, M \in SUBSET Weighed(h), \A n \in M : Made(n).how = "metered"
  PROVE  Reported(M) \in Nat /\ Reported(M) <= Carried(h)
<1> DEFINE O == Over(h)
           f == [n \in M |-> log[n].req]
<1>1. ASSUME NEW n \in M
      PROVE  n \in Requests /\ n \in Network(h) /\ Event(n).type # "websocket"
             /\ (Events("launch") # {} => Event(n).source # "playwright")
  BY DEF Weighed, Suspects, Network
<1>2. ASSUME NEW n \in M PROVE f[n] \in O /\ Size[n] \in Nat /\ Size[n] <= WireOf[f[n]]
  <2>1. /\ f[n] \in DOMAIN req /\ Made(n) = req[f[n]] /\ Made(n).how = "metered" /\ IsKind(Event(n))
        /\ Canon[Event(n).name] = HostOf(f[n]) /\ Event(n).wire \in Nat /\ Event(n).reported \in Nat
    BY <1>1, EventFacts
  <2>2. f[n] \in O
    BY <1>1, <2>1 DEF Over, Network
  <2>3. Size[n] = Event(n).reported /\ WireOf[f[n]] = Event(n).wire
    BY <1>1, <2>1 DEF Size, WireOf, Event
  <2>4. ~(Event(n).reported > Event(n).wire)
    <3>1. Event(n).firefox => Event(n).source # "playwright"
      BY <1>1 DEF AttributionInv, LogIsOfTheFile
    <3> QED  BY <1>1, <2>1, <3>1 DEF IsKind
  <2> QED  BY <2>1, <2>2, <2>3, <2>4
<1>3. IsFiniteSet(M) /\ IsFiniteSet(O) /\ \A i \in O : WireOf[i] \in Nat
  <2>1. M \in SUBSET Network(h)
    BY <1>1
  <2> QED  BY <2>1, EventSets, TermsAreNat, FS_Subset DEF AttributionInv, Over
<1>4. \A m, n \in M : f[m] = f[n] => m = n
  BY <1>1 DEF AttributionInv, LogIsOfTheFile
<1>5. Carried(h) = SumFunctionOnSet(SetupOf, TargetTunnels(h)) + SumFunctionOnSet(WireOf, O)
  BY DEF AttributionInv, BytesAreCarried
<1>6. SumFunctionOnSet(SetupOf, TargetTunnels(h)) \in Nat
  <2>1. IsFiniteSet(TargetTunnels(h)) /\ \A t \in TargetTunnels(h) : SetupOf[t] \in Nat
    BY TermsAreNat DEF AttributionInv, TargetTunnels
  <2> QED  BY <2>1, SumFacts
<1> HIDE DEF O, f
<1>7. SumFunctionOnSet(Size, M) <= SumFunctionOnSet(WireOf, O)
  BY <1>2, <1>3, <1>4, SumOfImage
<1>8. SumFunctionOnSet(Size, M) \in Nat /\ SumFunctionOnSet(WireOf, O) \in Nat
  BY <1>2, <1>3, SumFacts
<1> QED  BY <1>5, <1>6, <1>7, <1>8 DEF Reported

LEMMA AlarmsAreTrue == AttributionInv => OnlyBypassIsReported
<1> SUFFICES ASSUME AttributionInv, Done, NEW h \in Hosts, h \in BypassHosts,
                    \A i \in DOMAIN req : HostOf(i) = h => req[i].how \notin {"around", "challenged"}
             PROVE  Reported({n \in Network(h) : Made(n).how = "denied"}) > VolumeSlack
  BY DEF OnlyBypassIsReported, BypassHosts
<1> DEFINE W == Weighed(h)
           M == {n \in W : Made(n).how = "metered"}
           R == W \ M
           N == {n \in Network(h) : Made(n).how = "denied"}
           T == TunnelsTo(h)
<1>1. ASSUME NEW n \in Suspects(h)
      PROVE  n \in Network(h) /\ n \in Requests /\ Made(n).how \in {"metered", "denied"} /\ ~OutsideTunnels(h, n)
  <2>1. n \in Requests /\ n \in Network(h) /\ Canon[Event(n).name] = h
    BY DEF Suspects, Network
  <2>2. Made(n).how \notin {"around", "challenged"}
    BY <2>1, EventFacts
  <2> QED  BY <2>2, SuspectsAre
<1>2. 2 * Reported(W) > 3 * SumFunctionOnSet(WithConnect, T) + 2 * VolumeSlack
  BY <1>1 DEF BypassHosts
<1>3. W \in SUBSET Network(h) /\ W \in SUBSET Requests /\ W \in SUBSET Suspects(h)
  BY <1>1 DEF Weighed
<1>4. M \in SUBSET W /\ R \in SUBSET N /\ N \in SUBSET Network(h) /\ (\A n \in M : Made(n).how = "metered")
  BY <1>1, <1>3
<1>5. IsFiniteSet(W) /\ IsFiniteSet(N) /\ IsFiniteSet(R)
  BY <1>3, <1>4, EventSets, FS_Subset
<1>6. (\A n \in W : Size[n] \in Nat) /\ \A n \in N : Size[n] \in Nat
  BY <1>3, <1>4, EventSets, EventFacts
<1>7. IsFiniteSet(T) /\ (\A t \in T : WithConnect[t] \in Nat) /\ TargetTunnels(h) \in SUBSET T
  <2>1. T \in SUBSET DOMAIN tunnels /\ TargetTunnels(h) \in SUBSET T
    BY DEF TunnelsTo, TargetTunnels
  <2> HIDE DEF T
  <2> QED  BY <2>1, TermsAreNat, FS_Subset DEF AttributionInv
<1> HIDE DEF W, M, R, N, T
<1>8. SumFunctionOnSet(Size, W) = SumFunctionOnSet(Size, M) + SumFunctionOnSet(Size, R)
  BY <1>4, <1>5, <1>6, SumSplit DEF R
<1>9. Reported(M) \in Nat /\ Reported(M) <= Carried(h)
  BY <1>4, WeighedIsCarried DEF W
<1>10. SumFunctionOnSet(Size, R) <= SumFunctionOnSet(Size, N)
  BY <1>4, <1>5, <1>6, SumOfPart
<1>11. SumFunctionOnSet(Size, R) \in Nat /\ SumFunctionOnSet(Size, N) \in Nat
  BY <1>4, <1>5, <1>6, SumFacts
<1>12. Carried(h) <= SumFunctionOnSet(WithConnect, T) /\ SumFunctionOnSet(WithConnect, T) \in Nat
  BY <1>7, SumOfPart, SumFacts DEF Carried
<1>13. PICK w \in Nat, m \in Nat, r \in Nat, d \in Nat, c \in Nat, k \in Nat, v \in Nat :
         /\ w = Reported(W) /\ m = Reported(M) /\ r = SumFunctionOnSet(Size, R) /\ d = Reported(N)
         /\ c = Carried(h) /\ k = SumFunctionOnSet(WithConnect, T) /\ v = VolumeSlack
  <2>1. Carried(h) \in Nat /\ VolumeSlack \in Nat
    BY AttributableFacts, SizesAreNat
  <2>2. SumFunctionOnSet(Size, M) \in Nat
    BY <1>9 DEF Reported
  <2>3. SumFunctionOnSet(Size, W) \in Nat
    BY <1>8, <1>11, <2>2
  <2> QED  BY <1>11, <1>12, <2>1, <2>2, <2>3 DEF Reported
<1>14. w = m + r /\ m <= c /\ r <= d /\ c <= k /\ 2 * w > 3 * k + 2 * v
  BY <1>2, <1>8, <1>9, <1>10, <1>12, <1>13 DEF Reported
<1>15. d > v
  BY <1>14
<1> QED  BY <1>13, <1>15 DEF N

\* No false alarm, whatever was refused, cached, lost, read past the cap or resized: an
\* event that is looked at went over a record of its host that was open when it started,
\* and those that are weighed have no more bytes than the records carried.
THEOREM AlarmsAreBypass == Spec => []OnlyBypassIsReported
  BY AttributionHolds, AlarmsAreTrue, PTL

-----------------------------------------------------------------------------
(* Attribution: the allowances.                                             *)

\* What an event may stand for on the wire: its size, a quarter for framing, and the
\* allowance for headers that nobody counted.
Allowed ==
  [n \in Requests |-> Size[n] + Size[n] \div 4 + IF Event(n).headers THEN 0 ELSE UnknownHeaders]

LEMMA AllowedAddsUp ==
  ASSUME AttributionInv, NEW N, N \in SUBSET Requests
  PROVE  /\ \A n \in N : Allowed[n] \in Nat
         /\ SumFunctionOnSet(Allowed, N) \in Nat
         /\ SumFunctionOnSet(Allowed, N) <=
              Reported(N) + UnknownHeaders * Cardinality({n \in N : ~Event(n).headers}) + Reported(N) \div 4
<1> DEFINE q == [n \in N |-> Size[n] \div 4]
           p == [n \in N |-> 4 * q[n]]
           s == [n \in N |-> Size[n] + q[n]]
           unknown == {n \in N : ~Event(n).headers}
           u == [n \in N |-> IF n \in unknown THEN UnknownHeaders ELSE 0]
<1>1. ASSUME NEW n \in N
      PROVE  /\ Size[n] \in Nat /\ q[n] \in Nat /\ p[n] \in Nat /\ p[n] <= Size[n] /\ p[n] = 4 * q[n]
             /\ s[n] \in Nat /\ s[n] = Size[n] + q[n] /\ u[n] \in Nat
             /\ Allowed[n] = s[n] + u[n]
  <2>1. PICK x \in Nat : x = Size[n]
    BY EventFacts
  <2>2. x \div 4 \in Nat /\ 4 * (x \div 4) <= x
    BY SMT
  <2>3. q[n] = x \div 4 /\ p[n] = 4 * q[n] /\ s[n] = x + q[n] /\ u[n] \in Nat
    BY <2>1, SizesAreNat
  <2>4. Allowed[n] = s[n] + u[n]
    <3>1. n \in Requests /\ IsKind(Event(n))
      BY EventFacts
    <3>2. Event(n).headers \in BOOLEAN
      BY <3>1 DEF IsKind
    <3>3. u[n] = IF Event(n).headers THEN 0 ELSE UnknownHeaders
      BY <3>2
    <3> HIDE DEF u
    <3>4. Allowed[n] = Size[n] + Size[n] \div 4 + u[n]
      BY <3>1, <3>3 DEF Allowed
    <3> QED  BY <3>4
  <2> HIDE DEF q, p, s, u
  <2> QED  BY <2>1, <2>2, <2>3, <2>4
<1>2. IsFiniteSet(N)
  BY EventSets, FS_Subset
<1>3. unknown \in SUBSET N /\ unknown \subseteq N /\ IsChosen(u, N, unknown, UnknownHeaders) /\ UnknownHeaders \in Nat
  BY SizesAreNat DEF IsChosen
<1> HIDE DEF q, p, s, unknown, u
<1>4. SumFunctionOnSet(Allowed, N) = SumFunctionOnSet(s, N) + SumFunctionOnSet(u, N)
  BY <1>1, <1>2, SumPlus
<1>5. SumFunctionOnSet(s, N) = SumFunctionOnSet(Size, N) + SumFunctionOnSet(q, N)
  BY <1>1, <1>2, SumPlus
<1>6. SumFunctionOnSet(p, N) = 4 * SumFunctionOnSet(q, N)
  <2>1. PICK c \in Nat : c = 4
    OBVIOUS
  <2>2. IsMultiple(p, c, q, N)
    BY <1>1, <2>1 DEF IsMultiple
  <2>3. SumFunctionOnSet(p, N) = c * SumFunctionOnSet(q, N)
    BY <1>2, <2>2, SumTimes
  <2> QED  BY <2>1, <2>3
<1>7. SumFunctionOnSet(p, N) <= SumFunctionOnSet(Size, N)
  BY <1>1, <1>2, SumAtMost
<1>8. SumFunctionOnSet(u, N) = UnknownHeaders * Cardinality(unknown)
  BY <1>2, <1>3, SumOfChosen
<1>9. /\ SumFunctionOnSet(Size, N) \in Nat /\ SumFunctionOnSet(q, N) \in Nat
      /\ SumFunctionOnSet(s, N) \in Nat /\ SumFunctionOnSet(u, N) \in Nat
  BY <1>1, <1>2, SumFacts
<1>10. PICK z \in Nat, y \in Nat, x \in Nat, a \in Nat :
         /\ z = SumFunctionOnSet(Size, N) /\ y = SumFunctionOnSet(q, N)
         /\ x = SumFunctionOnSet(u, N) /\ a = SumFunctionOnSet(s, N)
  BY <1>9
<1>11. a = z + y /\ 4 * y <= z /\ SumFunctionOnSet(Allowed, N) = a + x
  BY <1>4, <1>5, <1>6, <1>7, <1>10
<1>12. y <= z \div 4 /\ z \div 4 \in Nat
  BY <1>11, SMT
<1>13. a + x <= z + x + z \div 4 /\ a + x \in Nat
  BY <1>11, <1>12
<1>14. Reported(N) = z /\ UnknownHeaders * Cardinality({n \in N : ~Event(n).headers}) = x
  BY <1>8, <1>10 DEF Reported, unknown
<1> QED  BY <1>1, <1>11, <1>13, <1>14

\* Where all requests over a host's records are reported, the events allow for them.
LEMMA WireIsAllowed ==
  ASSUME AttributionInv, NEW h \in Hosts, ~Unbounded(Network(h)),
         \A i \in Over(h) : \E n \in Requests : log[n].req = i
  PROVE  SumFunctionOnSet(WireOf, Over(h)) \in Nat
         /\ SumFunctionOnSet(WireOf, Over(h)) <= SumFunctionOnSet(Allowed, Network(h))
<1> DEFINE O == Over(h)
           N == Network(h)
           g == [i \in O |-> CHOOSE n \in Requests : log[n].req = i]
<1>1. ASSUME NEW i \in O
      PROVE  g[i] \in N /\ log[g[i]].req = i /\ WireOf[i] \in Nat /\ WireOf[i] <= Allowed[g[i]]
  <2>1. g[i] \in Requests /\ log[g[i]].req = i
    OBVIOUS
  <2>2. PICK n \in Requests : n = g[i] /\ log[n].req = i
    BY <2>1
  <2> HIDE DEF g
  <2>3. i \in DOMAIN req /\ HostOf(i) = h /\ req[i].how \in {"metered", "lost"}
    BY DEF Over
  <2>4. /\ Made(n) = req[i] /\ Made(n).how \notin {"flight", "lost"} /\ IsKind(Event(n))
        /\ Event(n).wire \in Nat /\ Event(n).reported \in Nat /\ Canon[Event(n).name] = h
    BY <2>2, <2>3, EventFacts
  <2>5. Made(n).how = "metered" /\ n \in N
    BY <2>3, <2>4 DEF Network
  <2>6. Status(n) # 0
    <3>1. Ended(i)
      BY <2>3 DEF AttributionInv, RequestsEnd
    <3> QED  BY <2>4, <2>5, <3>1 DEF Ended, Status
  <2>7. Event(n).body
    BY <2>5, <2>6 DEF Unbounded
  <2>8. Size[n] = Event(n).reported /\ WireOf[i] = Event(n).wire
    BY <2>3, <2>4, <2>5 DEF Size, WireOf, Event
  <2>9. Event(n).wire <= Event(n).reported + Event(n).reported \div 4 + IF Event(n).headers THEN 0 ELSE UnknownHeaders
    BY <2>4, <2>7 DEF IsKind
  <2>10. Allowed[n] = Event(n).reported + Event(n).reported \div 4 + IF Event(n).headers THEN 0 ELSE UnknownHeaders
    BY <2>8 DEF Allowed
  <2>11. WireOf[i] <= Allowed[n]
    BY <2>8, <2>9, <2>10
  <2> QED  BY <2>2, <2>4, <2>5, <2>8, <2>11
<1>2. N \in SUBSET Requests /\ IsFiniteSet(N) /\ IsFiniteSet(O)
  BY EventSets, TermsAreNat DEF AttributionInv
<1>3. \A n \in N : Allowed[n] \in Nat
  BY <1>2, AllowedAddsUp
<1>4. \A i, j \in O : g[i] = g[j] => i = j
  <2> HIDE DEF g
  <2> QED  BY <1>1
<1> HIDE DEF O, N, g
<1>5. SumFunctionOnSet(WireOf, O) <= SumFunctionOnSet(Allowed, N)
  BY <1>1, <1>2, <1>3, <1>4, SumOfImage
<1>6. SumFunctionOnSet(WireOf, O) \in Nat
  BY <1>1, <1>2, SumFacts
<1> QED  BY <1>5, <1>6 DEF O, N

LEMMA HostsExplained == AttributionInv => ReportedHostsAreExplained
<1> SUFFICES ASSUME AttributionInv, Done, NEW h \in Hosts,
                    \A i \in DOMAIN req : HostOf(i) = h /\ req[i].how \in {"metered", "lost"} =>
                      \E n \in Requests : log[n].req = i
             PROVE  Unreported(h) = 0
  BY DEF ReportedHostsAreExplained
<1> DEFINE N == Network(h)
           T == TargetTunnels(h)
           own == [t \in T |-> tunnels[t].negotiation + IF tunnels[t].own THEN Overhead ELSE 0]
           c == Carried(h)
           a == Attributable(h)
<1>1. c \in Nat /\ a \in Nat /\ a <= c /\ Reported(N) \in Nat /\ OverheadAllowance(T, N) \in Nat
      /\ (a = c \/ (~Unbounded(N) /\ a = Reported(N) + OverheadAllowance(T, N)))
  BY AttributableFacts
<1>2. Unreported(h) = IF IsAttributed(h) THEN c - a ELSE 0
  BY DEF Unreported
<1>3. SumFunctionOnSet(SetupOf, T) \in Nat /\ SumFunctionOnSet(own, T) \in Nat
      /\ SumFunctionOnSet(SetupOf, T) <= SumFunctionOnSet(own, T)
  <2>1. ASSUME NEW t \in T PROVE SetupOf[t] \in Nat /\ own[t] \in Nat /\ SetupOf[t] <= own[t]
    <3>1. t \in DOMAIN tunnels
      BY DEF TargetTunnels
    <3>2. PICK x \in Nat : x = tunnels[t].negotiation
      BY <3>1, TunnelFields DEF AttributionInv
    <3>3. SetupOf[t] = x + (IF tunnels[t].own /\ ~tunnels[t].failed THEN Handshake ELSE 0)
      BY <3>1, <3>2 DEF SetupOf
    <3>4. own[t] = x + (IF tunnels[t].own THEN Overhead ELSE 0)
      BY <3>2
    <3>5. Handshake \in Nat /\ Overhead \in Nat /\ Handshake <= Overhead
      BY SizesAreNat
    <3> HIDE DEF own
    <3> QED  BY <3>3, <3>4, <3>5
  <2>2. IsFiniteSet(T)
    BY TermsAreNat DEF AttributionInv
  <2> HIDE DEF T, own
  <2> QED  BY <2>1, <2>2, SumAtMost, SumFacts
<1>4. c = SumFunctionOnSet(SetupOf, T) + SumFunctionOnSet(WireOf, Over(h))
  BY DEF AttributionInv, BytesAreCarried
<1>5. ASSUME ~Unbounded(N) PROVE c <= Reported(N) + OverheadAllowance(T, N)
  <2> DEFINE k == Cardinality({n \in N : ~Event(n).headers})
  <2>1. OverheadAllowance(T, N) = SumFunctionOnSet(own, T) + UnknownHeaders * k + Reported(N) \div 4
    BY DEF OverheadAllowance
  <2>2. SumFunctionOnSet(WireOf, Over(h)) \in Nat
        /\ SumFunctionOnSet(WireOf, Over(h)) <= SumFunctionOnSet(Allowed, N)
    <3>1. \A i \in Over(h) : \E n \in Requests : log[n].req = i
      BY DEF Over
    <3> QED  BY <1>5, <3>1, WireIsAllowed
  <2>3. SumFunctionOnSet(Allowed, N) \in Nat
        /\ SumFunctionOnSet(Allowed, N) <= Reported(N) + UnknownHeaders * k + Reported(N) \div 4
    <3>1. N \in SUBSET Requests
      BY EventSets
    <3> HIDE DEF N
    <3> QED  BY <3>1, AllowedAddsUp DEF k
  <2>4. UnknownHeaders * k \in Nat
    <3>1. k \in Nat
      <4> DEFINE K == {n \in N : ~Event(n).headers}
      <4>1. K \in SUBSET N
        OBVIOUS
      <4>2. IsFiniteSet(N)
        BY EventSets
      <4> HIDE DEF K, N
      <4>3. Cardinality(K) \in Nat
        BY <4>1, <4>2, FS_Subset, FS_CardinalityType
      <4> QED  BY <4>3 DEF K
    <3>2. PICK x \in Nat, y \in Nat : x = k /\ y = UnknownHeaders
      BY <3>1, SizesAreNat
    <3>3. y * x \in Nat
      BY Z3
    <3> QED  BY <3>2, <3>3
  <2>5. PICK u \in Nat : u = UnknownHeaders * k
    BY <2>4
  <2> HIDE DEF N, T, own, c, k
  <2>6. PICK r \in Nat, o \in Nat, s \in Nat, w \in Nat, l \in Nat :
          /\ r = Reported(N) /\ o = SumFunctionOnSet(own, T) /\ s = SumFunctionOnSet(SetupOf, T)
          /\ w = SumFunctionOnSet(WireOf, Over(h)) /\ l = SumFunctionOnSet(Allowed, N)
    BY <1>1, <1>3, <2>2, <2>3
  <2>7. s <= o /\ w <= l /\ l <= r + u + r \div 4 /\ c = s + w /\ OverheadAllowance(T, N) = o + u + r \div 4
    BY <1>3, <1>4, <2>1, <2>2, <2>3, <2>5, <2>6
  <2>8. r \div 4 \in Nat
    BY SMT
  <2> QED  BY <2>6, <2>7, <2>8
<1> HIDE DEF N, T, c, a
<1>6. c = a
  BY <1>1, <1>5
<1> QED  BY <1>1, <1>2, <1>6

\* The allowances for connections, headers and framing are large enough for what they
\* stand for, whatever the records and sizes are.
THEOREM AllowancesSuffice == Spec => []ReportedHostsAreExplained
  BY AttributionHolds, HostsExplained, PTL

-----------------------------------------------------------------------------
(* Picking: what is put in line.                                            *)

\* line has the members of D, each behind those that are ahead of it.
IsSortedBy(line, ahead, D) ==
  /\ line \in Seq(D) /\ Len(line) = Cardinality(D) /\ DOMAIN line = 1 .. Cardinality(D)
  /\ \A i \in D : \E k \in DOMAIN line : line[k] = i
  /\ \A a, b \in DOMAIN line : a < b => line[a] \in ahead[line[b]]

\* What InLine makes of members that stand in a line.
LEMMA InLineIs ==
  ASSUME NEW D, IsFiniteSet(D), NEW ahead, DOMAIN ahead = D, IsLine(ahead, D)
  PROVE  IsSortedBy(InLine(ahead), ahead, D)
<1> DEFINE n == Cardinality(D)
           line == InLine(ahead)
<1>1. n \in Nat
  BY FS_CardinalityType
<1>2. DOMAIN line = 1 .. n
  BY DEF InLine
<1>3. ASSUME NEW k \in 1 .. n PROVE line[k] \in D /\ Cardinality(ahead[line[k]]) = k - 1
  <2>1. line[k] = CHOOSE i \in D : Cardinality(ahead[i]) = k - 1
    BY DEF InLine
  <2>2. \E i \in D : Cardinality(ahead[i]) = k - 1
    <3>1. k - 1 \in 0 .. n - 1
      BY <1>1
    <3> HIDE DEF line
    <3> QED  BY <3>1, EachPlaceIsTaken
  <2> HIDE DEF line, n
  <2> QED  BY <2>1, <2>2
<1>4. IsPlaced(line, ahead, D)
  <2> HIDE DEF line
  <2> QED  BY <1>2, <1>3 DEF IsPlaced
<1>5. line \in Seq(D) /\ Len(line) = n
  <2>1. line \in [1 .. n -> D]
    <3>1. line = [k \in 1 .. n |-> line[k]]
      BY DEF InLine
    <3> HIDE DEF line, n
    <3> QED  BY <1>3, <3>1
  <2> HIDE DEF line, n
  <2> QED  BY <1>1, <2>1
<1> HIDE DEF line
<1>6. /\ \A i \in D : \E k \in DOMAIN line : line[k] = i
      /\ \A a, b \in DOMAIN line : a < b => line[a] \in ahead[line[b]]
  BY <1>4, LineUp
<1> QED  BY <1>2, <1>5, <1>6 DEF IsSortedBy, line

\* Sorted by a stamp, and by a number of its own where the stamps are equal.
AheadBy(v, w, D) == [a \in D |-> {b \in D : v[b] < v[a] \/ (v[b] = v[a] /\ w[b] < w[a])}]

\* Stamps and numbers of their own put members in a line.
LEMMA StampsAreLine ==
  ASSUME NEW D, NEW v, NEW w, \A a \in D : v[a] \in Int /\ w[a] \in Int,
         \A a, b \in D : w[a] = w[b] => a = b
  PROVE  IsLine(AheadBy(v, w, D), D)
<1>1. \A a, b \in D : b \in AheadBy(v, w, D)[a] <=> v[b] < v[a] \/ (v[b] = v[a] /\ w[b] < w[a])
  BY DEF AheadBy
<1>2. \A a \in D : AheadBy(v, w, D)[a] \subseteq D
  BY DEF AheadBy
<1> DEFINE ahead == AheadBy(v, w, D)
<1> HIDE DEF ahead
<1>3. \A a \in D : ahead[a] \in SUBSET (D \ {a})
  <2>1. \A a \in D : a \notin ahead[a]
    BY <1>1 DEF ahead
  <2> QED  BY <1>2, <2>1 DEF ahead
<1>4. \A a, b \in D : a # b => a \in ahead[b] \/ b \in ahead[a]
  BY <1>1 DEF ahead
<1>5. ASSUME NEW a \in D, NEW b \in ahead[a] PROVE ahead[b] \subseteq ahead[a]
  <2>1. b \in D
    BY <1>2 DEF ahead
  <2>2. SUFFICES ASSUME NEW c \in ahead[b] PROVE c \in ahead[a]
    OBVIOUS
  <2>3. c \in D
    BY <1>2, <2>1 DEF ahead
  <2>4. v[b] < v[a] \/ (v[b] = v[a] /\ w[b] < w[a])
    BY <1>1, <1>5, <2>1 DEF ahead
  <2>5. v[c] < v[b] \/ (v[c] = v[b] /\ w[c] < w[b])
    BY <1>1, <2>1, <2>2, <2>3 DEF ahead
  <2>6. v[c] < v[a] \/ (v[c] = v[a] /\ w[c] < w[a])
    BY <2>1, <2>3, <2>4, <2>5
  <2> QED  BY <1>1, <2>3, <2>6 DEF ahead
<1>6. IsLine(ahead, D)
  BY <1>3, <1>4, <1>5 DEF IsLine
<1> QED  BY <1>6 DEF ahead

-----------------------------------------------------------------------------
(* Attribution: the order of a context's navigations.                       *)

OfOneContext(i, j) == req[i].kind.main /\ req[j].kind.main /\ req[i].kind.context = req[j].kind.context

\* Requests start in their order, and a context's next navigation when the last has ended.
InTurn ==
  /\ \A i, j \in DOMAIN req : i < j => req[i].ts <= req[j].ts
  /\ \A i, j \in DOMAIN req : i < j /\ OfOneContext(i, j) => req[i].how # "flight"

\* So their lines are in that order, in the file and in the log.
FileInTurn ==
  \A m, n \in RequestLines : m < n /\ OfOneContext(file[m].req, file[n].req) => file[m].req < file[n].req
LogInTurn ==
  \A k, l \in Requests : k < l /\ OfOneContext(log[k].req, log[l].req) => log[k].req < log[l].req

\* Navigation r is where the redirects that led to i began: there was no redirect before it.
Led(r, i) ==
  /\ r \in DOMAIN req /\ r <= i /\ OfOneContext(r, i)
  /\ req[r].start = req[r].ts /\ req[i].start = req[r].ts
  /\ \A j \in r .. i - 1 : OfOneContext(j, i) => IsRedirect(req[j].status) /\ req[j].start = req[r].ts
  /\ \A j \in 1 .. r - 1 :
       OfOneContext(j, i) /\ IsRedirect(req[j].status) => \E k \in j + 1 .. r - 1 : OfOneContext(k, i)
HopsLead == \A i \in DOMAIN req : req[i].kind.main => \E r \in DOMAIN req : Led(r, i)

PagesInv == InTurn /\ FileInTurn /\ LogInTurn /\ HopsLead

\* Where no request starts or ends, and no event is read.
LEMMA PagesStay ==
  ASSUME PagesInv, req' = req, log' = log, RequestLines' = RequestLines,
         \A n \in RequestLines : file'[n] = file[n]
  PROVE  PagesInv'
<1>1. InTurn' /\ HopsLead'
  BY DEF PagesInv, InTurn, HopsLead, Led, OfOneContext
<1>2. FileInTurn'
  BY DEF PagesInv, FileInTurn, OfOneContext
<1>3. Requests' = Requests
  BY DEF Requests, Events
<1>4. LogInTurn'
  BY <1>3 DEF PagesInv, LogInTurn, OfOneContext
<1> QED  BY <1>1, <1>2, <1>4 DEF PagesInv

LEMMA PagesStart == Init => PagesInv
<1>1. SUFFICES ASSUME Init PROVE PagesInv
  OBVIOUS
<1>2. DOMAIN req = {} /\ RequestLines = {} /\ Requests = {}
  BY <1>1 DEF Init, RequestLines, Requests, Events
<1> QED  BY <1>2 DEF PagesInv, InTurn, FileInTurn, LogInTurn, HopsLead

\* A line that is about no request.
LEMMA OtherLineStays ==
  ASSUME AttributionTypes, PagesInv, NEW kind \in {"attach", "launch", "blank", "bad"},
         file' = Append(file, Line(kind, clock, 0)), req' = req, log' = log
  PROVE  PagesInv'
<1> DEFINE l == Line(kind, clock, 0)
<1>1. file \in Seq(LineRows) /\ l \in LineRows /\ l.kind = kind
  BY SizesAreNat DEF AttributionTypes, Times, Line, LineRows
<1> HIDE DEF l
<1>2. /\ Len(file') = Len(file) + 1 /\ file' \in Seq(LineRows) /\ file'[Len(file) + 1] = l
      /\ \A n \in 1 .. Len(file) : file'[n] = file[n]
  BY <1>1, AppendProperties DEF l
<1>3. DOMAIN file = 1 .. Len(file) /\ DOMAIN file' = 1 .. Len(file) + 1 /\ Len(file) \in Nat
  BY <1>1, <1>2
<1>4. RequestLines' = {n \in DOMAIN file' : file'[n].kind = "request"}
  BY DEF RequestLines
<1>5. RequestLines' = RequestLines
  BY <1>1, <1>2, <1>3, <1>4 DEF RequestLines
<1>6. \A n \in RequestLines : file'[n] = file[n]
  BY <1>2, <1>3 DEF RequestLines
<1> QED  BY <1>5, <1>6, PagesStay

\* What is read next comes behind what was read of the context.
LEMMA KeepLineInTurn ==
  ASSUME AttributionInv, PagesInv, KeepLine
  PROVE  PagesInv'
<1> USE DEF AttributionInv
<1>0. PICK L : L = Len(log) + 1
  OBVIOUS
<1>1. UNCHANGED <<req, file>> /\ log' = Append(log, NextLine) /\ pos < Len(file) /\ Valid(NextLine)
  BY DEF KeepLine, Reads, job
<1>2. log \in Seq(LineRows) /\ pos + 1 \in DOMAIN file /\ NextLine \in LineRows /\ pos \in Nat
  BY <1>1, LineFields DEF NextLine, AttributionTypes
<1>3. /\ Len(log') = Len(log) + 1 /\ log' \in Seq(LineRows) /\ log'[Len(log) + 1] = NextLine
      /\ \A k \in 1 .. Len(log) : log'[k] = log[k]
  BY <1>1, <1>2, AppendProperties
<1>4. DOMAIN log = 1 .. Len(log) /\ DOMAIN log' = 1 .. Len(log) + 1 /\ Len(log) \in Nat
  BY <1>2, <1>3
<1>5. InTurn' /\ HopsLead' /\ FileInTurn'
  BY <1>1 DEF PagesInv, InTurn, HopsLead, Led, FileInTurn, OfOneContext, RequestLines
<1>6. LogInTurn'
  <2>1. SUFFICES ASSUME NEW k \in Requests', NEW l \in Requests', k < l,
                        OfOneContext(log[k].req, log[l].req)'
                 PROVE  log'[k].req < log'[l].req
    BY DEF LogInTurn
  <2>2. k \in DOMAIN log' /\ l \in DOMAIN log' /\ log'[k].kind = "request" /\ log'[l].kind = "request"
    BY DEF Requests, Events
  <2>3. k \in 1 .. Len(log) /\ log'[k] = log[k] /\ k \in Requests
    BY <2>1, <2>2, <1>3, <1>4 DEF Requests, Events
  <2>4. OfOneContext(log'[k].req, log'[l].req)
    BY <2>1, <1>1 DEF OfOneContext
  <2>5. CASE l \in 1 .. Len(log)
    <3>1. log'[l] = log[l] /\ l \in Requests
      BY <2>2, <2>5, <1>3, <1>4 DEF Requests, Events
    <3> QED  BY <2>1, <2>3, <2>4, <3>1 DEF PagesInv, LogInTurn
  <2>6. CASE l \notin 1 .. Len(log)
    <3>1. log'[l] = file[pos + 1]
      BY <2>2, <2>6, <1>3, <1>4 DEF NextLine
    <3>2. PICK n \in 1 .. pos : log[k] = file[n]
      BY <2>3, <1>4 DEF LogIsOfTheFile
    <3>3. n \in DOMAIN file /\ n < pos + 1
      BY <1>2, <3>2, LineFields
    <3>4. n \in RequestLines /\ pos + 1 \in RequestLines
      BY <1>2, <2>2, <2>3, <3>1, <3>2, <3>3 DEF RequestLines
    <3> QED  BY <2>3, <2>4, <3>1, <3>2, <3>3, <3>4 DEF PagesInv, FileInTurn
  <2> QED  BY <2>5, <2>6
<1> QED  BY <1>5, <1>6 DEF PagesInv

\* A request is in one context with those of its own list.
LEMMA ContextStays ==
  ASSUME NEW i \in DOMAIN req, NEW j \in DOMAIN req, RequestsKept
  PROVE  OfOneContext(i, j)' <=> OfOneContext(i, j)
  BY DEF RequestsKept, OfOneContext

\* Lines and events are about requests that there are.
LEMMA LinesHaveRequests ==
  ASSUME AttributionInv
  PROVE  /\ \A n \in RequestLines : file[n].req \in DOMAIN req
         /\ \A k \in Requests : log[k].req \in DOMAIN req
<1> USE DEF AttributionInv
<1>1. \A n \in RequestLines : file[n].req \in DOMAIN req
  BY DEF LinesAreTrue, IsTrue
<1>2. ASSUME NEW k \in Requests PROVE log[k].req \in DOMAIN req
  <2>1. k \in DOMAIN log /\ log[k].kind = "request"
    BY DEF Requests, Events
  <2>2. PICK n \in 1 .. pos : log[k] = file[n]
    BY <2>1 DEF LogIsOfTheFile
  <2>3. n \in DOMAIN file
    BY <2>2, LineFields
  <2>4. n \in RequestLines
    BY <2>1, <2>2, <2>3 DEF RequestLines
  <2> QED  BY <1>1, <2>2, <2>4
<1> QED  BY <1>1, <1>2

\* Where no event is read, and no line written.
LEMMA LogInTurnStays ==
  ASSUME AttributionInv, PagesInv, RequestsKept, log' = log
  PROVE  LogInTurn'
<1>1. Requests' = Requests
  BY DEF Requests, Events
<1>2. ASSUME NEW k \in Requests, NEW l \in Requests PROVE OfOneContext(log[k].req, log[l].req)' <=> OfOneContext(log[k].req, log[l].req)
  <2>1. log[k].req \in DOMAIN req /\ log[l].req \in DOMAIN req
    BY LinesHaveRequests
  <2> QED  BY <2>1 DEF RequestsKept, OfOneContext
<1> QED  BY <1>1, <1>2 DEF PagesInv, LogInTurn

LEMMA FileInTurnStays ==
  ASSUME AttributionInv, PagesInv, RequestsKept, file' = file
  PROVE  FileInTurn'
<1>1. RequestLines' = RequestLines
  BY DEF RequestLines
<1>2. ASSUME NEW m \in RequestLines, NEW n \in RequestLines PROVE OfOneContext(file[m].req, file[n].req)' <=> OfOneContext(file[m].req, file[n].req)
  <2>1. file[m].req \in DOMAIN req /\ file[n].req \in DOMAIN req
    BY LinesHaveRequests
  <2> QED  BY <2>1 DEF RequestsKept, OfOneContext
<1> QED  BY <1>1, <1>2 DEF PagesInv, FileInTurn

\* A request starts, behind all others; a navigation when its context's last one has ended.
LEMMA StartInTurn ==
  ASSUME AttributionInv, PagesInv, Start
  PROVE  PagesInv'
<1> USE DEF AttributionInv
<1>0. PICK L : L = Len(req) + 1
  OBVIOUS
<1> DEFINE k == plan.requests[L]
           navs == {i \in DOMAIN req : req[i].kind.main /\ req[i].kind.context = k.context}
           last == Max(navs)
           hop  == k.main /\ navs # {} /\ IsRedirect(req[last].status)
           r == [kind |-> k, ts |-> clock, how |-> "flight", status |-> 0,
                 start |-> IF hop THEN req[last].start ELSE clock]
<1>1. req' = Append(req, r) /\ UNCHANGED <<file, log>>
  BY <1>0 DEF Start, intake
<1>2. k.main => \A i \in navs : req[i].how # "flight"
  BY <1>0 DEF Start
<1>3. /\ r.kind = k /\ r.ts = clock /\ r.how = "flight" /\ r.status = 0
      /\ hop => r.start = req[last].start
      /\ ~hop => r.start = clock
  OBVIOUS
<1>4. DOMAIN req = 1 .. Len(req) /\ Len(req) \in Nat /\ IsFiniteSet(DOMAIN req) /\ clock \in Nat
  BY FS_Interval, SizesAreNat DEF AttributionTypes, Times
<1>5. navs # {} => last \in navs /\ \A i \in navs : i <= last
  <2>1. IsFiniteSet(navs) /\ \A i \in navs : i \in Nat
    BY <1>4, FS_Subset
  <2> HIDE DEF navs
  <2> QED  BY <2>1, LargestOf
<1> HIDE DEF r
<1>6. DOMAIN req' = 1 .. L /\ L \notin DOMAIN req /\ req'[L] = r /\ \A i \in DOMAIN req : req'[i] = req[i]
  <2>1. req \in Seq(RequestRows)
    BY DEF AttributionTypes
  <2>2. PICK S : S = RequestRows \cup {r}
    OBVIOUS
  <2>3. req \in Seq(S) /\ r \in S
    <3>1. \A i \in 1 .. Len(req) : req[i] \in RequestRows
      BY <2>1
    <3> QED  BY <2>1, <2>2, <3>1
  <2>4. Len(req') = Len(req) + 1 /\ req' \in Seq(S) /\ req'[Len(req) + 1] = r /\ \A i \in 1 .. Len(req) : req'[i] = req[i]
    BY <1>1, <2>3, AppendProperties
  <2> QED  BY <1>0, <1>4, <2>4
<1>7. RequestsKept
  BY <1>0, <1>4, <1>6 DEF RequestsKept
<1>8. FileInTurn' /\ LogInTurn'
  BY <1>1, <1>7, FileInTurnStays, LogInTurnStays
<1>9. L \in Nat /\ \A i \in DOMAIN req' : i = L \/ (i \in DOMAIN req /\ i < L)
  BY <1>0, <1>4, <1>6
<1>10. ASSUME NEW i \in DOMAIN req PROVE OfOneContext(i, L)' <=> i \in navs /\ k.main
  <2>1. req'[i].kind = req[i].kind /\ req'[L].kind = k
    BY <1>3, <1>6
  <2> QED  BY <2>1 DEF OfOneContext
<1>11. \A i, j \in DOMAIN req : OfOneContext(i, j)' <=> OfOneContext(i, j)
  BY <1>7, ContextStays
<1>12. InTurn'
  <2>1. \A i, j \in DOMAIN req : i < j => req'[i].ts <= req'[j].ts
    BY <1>6 DEF PagesInv, InTurn
  <2>2. \A i \in DOMAIN req : req'[i].ts <= req'[L].ts
    BY <1>3, <1>6 DEF RequestsEnd, Ended
  <2>3. \A i, j \in DOMAIN req : i < j /\ OfOneContext(i, j)' => req'[i].how # "flight"
    BY <1>6, <1>11 DEF PagesInv, InTurn
  <2>4. \A i \in DOMAIN req : OfOneContext(i, L)' => req'[i].how # "flight"
    BY <1>2, <1>6, <1>10
  <2>5. \A i, j \in DOMAIN req' : i < j => i \in DOMAIN req
    <3>1. \A j \in DOMAIN req' : j <= L /\ j \in Nat
      BY <1>6, <1>9
    <3>2. \A i, j \in DOMAIN req' : i < j => i # L
      BY <1>9, <3>1
    <3> QED  BY <1>9, <3>2
  <2>6. \A i, j \in DOMAIN req' : i < j => req'[i].ts <= req'[j].ts
    BY <1>9, <2>1, <2>2, <2>5
  <2>7. \A i, j \in DOMAIN req' : i < j /\ OfOneContext(i, j)' => req'[i].how # "flight"
    BY <1>9, <2>3, <2>4, <2>5
  <2> QED  BY <2>6, <2>7 DEF InTurn
<1> HIDE DEF k, navs, last, hop
<1>13. ASSUME NEW i \in DOMAIN req, req'[i].kind.main PROVE \E x \in DOMAIN req' : Led(x, i)'
  <2>1. req[i].kind.main
    BY <1>6, <1>13
  <2>2. PICK x \in DOMAIN req : Led(x, i)
    BY <2>1 DEF PagesInv, HopsLead
  <2>3. Led(x, i)'
    <3>a. \A j \in 1 .. i : j \in DOMAIN req
      BY <1>4
    <3>1. \A j \in 1 .. i : j \in DOMAIN req /\ req'[j] = req[j] /\ (OfOneContext(j, i)' <=> OfOneContext(j, i))
      BY <1>6, <1>11, <3>a
    <3>2. x \in 1 .. i /\ x \in Nat /\ i \in Nat /\ i \in 1 .. i
      BY <1>4, <2>2 DEF Led
    <3>3. \A j \in x .. i - 1 : j \in 1 .. i
      BY <3>2
    <3>4. \A j \in 1 .. x - 1 : j \in 1 .. i
      BY <3>2
    <3>5. \A j \in 1 .. x - 1 : \A q \in j + 1 .. x - 1 : q \in 1 .. i
      BY <3>2
    <3>6. x \in DOMAIN req' /\ x <= i /\ OfOneContext(x, i)' /\ req'[x].start = req'[x].ts /\ req'[i].start = req'[x].ts
      <4>1. req'[x] = req[x] /\ req'[i] = req[i] /\ (OfOneContext(x, i)' <=> OfOneContext(x, i))
        BY <3>1, <3>2
      <4>2. x <= i /\ OfOneContext(x, i) /\ req[x].start = req[x].ts /\ req[i].start = req[x].ts
        BY <2>2 DEF Led
      <4>3. x \in DOMAIN req'
        BY <2>2, <1>7 DEF RequestsKept
      <4> QED  BY <4>1, <4>2, <4>3
    <3>7. \A j \in x .. i - 1 : OfOneContext(j, i)' => IsRedirect(req'[j].status) /\ req'[j].start = req'[x].ts
      BY <2>2, <3>1, <3>2, <3>3 DEF Led
    <3>8. \A j \in 1 .. x - 1 : OfOneContext(j, i)' /\ IsRedirect(req'[j].status) => \E q \in j + 1 .. x - 1 : OfOneContext(q, i)'
      BY <2>2, <3>1, <3>4, <3>5 DEF Led
    <3> QED  BY <3>6, <3>7, <3>8 DEF Led
  <2>4. x \in DOMAIN req'
    BY <1>7, <2>2 DEF RequestsKept
  <2> QED  BY <2>3, <2>4
<1>14. ASSUME req'[L].kind.main PROVE \E x \in DOMAIN req' : Led(x, L)'
  <2>1. k.main
    BY <1>3, <1>6, <1>14
  <2>2. \A i \in DOMAIN req : OfOneContext(i, L)' <=> i \in navs
    BY <1>10, <2>1
  <2>3. \A i \in DOMAIN req : req'[i] = req[i]
    BY <1>6
  <2>4. navs \subseteq DOMAIN req /\ OfOneContext(L, L)'
    BY <1>14 DEF navs, OfOneContext
  <2>5. CASE hop
    <3>1. navs # {} /\ IsRedirect(req[last].status) /\ last \in navs /\ \A i \in navs : i <= last
      BY <1>5, <2>5 DEF hop
    <3>2. last \in DOMAIN req /\ req[last].kind.main /\ last \in Nat /\ last < L
      <4>1. last \in DOMAIN req /\ req[last].kind.main
        BY <3>1, <2>4 DEF navs
      <4> QED  BY <1>0, <1>4, <4>1
    <3>3. PICK x \in DOMAIN req : Led(x, last)
      BY <3>2 DEF PagesInv, HopsLead
    <3>4. req'[L].start = req[last].start
      BY <1>3, <1>6, <2>5
    <3>5. x \in Nat /\ x <= last /\ x < L /\ x \in DOMAIN req'
      BY <1>4, <1>6, <1>9, <3>2, <3>3 DEF Led
    <3>6. OfOneContext(x, L)'
      <4>1. OfOneContext(x, last)
        BY <3>3 DEF Led
      <4>2. x \in navs
        BY <3>1, <4>1 DEF navs, OfOneContext
      <4> QED  BY <1>10, <2>1, <4>2
    <3>7. \A j \in DOMAIN req : j \in navs <=> OfOneContext(j, last)
      BY <3>1, <3>2 DEF navs, OfOneContext
    <3>8. req'[x].start = req'[x].ts /\ req'[L].start = req'[x].ts /\ req[last].start = req'[x].ts
      BY <2>3, <3>3, <3>4 DEF Led
    <3>9. ASSUME NEW j \in x .. L - 1, OfOneContext(j, L)' PROVE IsRedirect(req'[j].status) /\ req'[j].start = req'[x].ts
      <4>1. j \in DOMAIN req /\ j \in navs /\ j <= last
        BY <1>0, <1>4, <1>9, <2>2, <3>1, <3>5, <3>9
      <4>2. CASE j = last
        BY <2>3, <3>1, <3>2, <3>8, <4>2
      <4>3. CASE j # last
        <5>1. j \in x .. last - 1
          BY <3>2, <3>5, <4>1, <4>3
        <5> QED  BY <2>3, <3>3, <3>7, <4>1, <5>1 DEF Led
      <4> QED  BY <4>2, <4>3
    <3>10. ASSUME NEW j \in 1 .. x - 1, OfOneContext(j, L)', IsRedirect(req'[j].status)
           PROVE  \E q \in j + 1 .. x - 1 : OfOneContext(q, L)'
      <4>1. j \in DOMAIN req /\ j \in navs
        BY <1>0, <1>4, <2>2, <3>5, <3>10
      <4>2. PICK q \in j + 1 .. x - 1 : OfOneContext(q, last)
        BY <2>3, <3>3, <3>7, <3>10, <4>1 DEF Led
      <4>3. q \in DOMAIN req
        BY <1>0, <1>4, <3>5, <4>1, <4>2
      <4> QED  BY <2>2, <3>7, <4>2, <4>3
    <3>11. Led(x, L)'
      <4>1. x <= L /\ x \in DOMAIN req'
        BY <1>9, <3>5
      <4> QED  BY <3>6, <3>8, <3>9, <3>10, <4>1 DEF Led
    <3> QED  BY <3>5, <3>11
  <2>6. CASE ~hop
    <3>1. req'[L].start = req'[L].ts
      BY <1>3, <1>6, <2>6
    <3>2. L \in DOMAIN req' /\ \A j \in 1 .. L - 1 : j \in DOMAIN req /\ j \in Nat
      BY <1>0, <1>4, <1>6
    <3>3. ASSUME NEW j \in 1 .. L - 1, OfOneContext(j, L)', IsRedirect(req'[j].status)
          PROVE  \E q \in j + 1 .. L - 1 : OfOneContext(q, L)'
      <4>1. j \in navs /\ IsRedirect(req[j].status)
        BY <2>2, <2>3, <3>2, <3>3
      <4>2. last \in navs /\ j <= last /\ ~IsRedirect(req[last].status)
        BY <1>5, <2>1, <2>6, <4>1 DEF hop
      <4>3. last # j /\ last \in DOMAIN req /\ last \in j + 1 .. L - 1
        BY <1>0, <1>4, <2>4, <3>2, <4>1, <4>2
      <4> QED  BY <2>2, <4>2, <4>3
    <3>4. \A j \in L .. L - 1 : FALSE
      BY <1>9
    <3>5. Led(L, L)'
      BY <1>9, <2>4, <3>1, <3>2, <3>3, <3>4 DEF Led
    <3> QED  BY <3>2, <3>5
  <2> QED  BY <2>5, <2>6
<1>15. HopsLead'
  BY <1>9, <1>13, <1>14 DEF HopsLead
<1> QED  BY <1>8, <1>12, <1>15 DEF PagesInv

\* A request ends, the last of its context.
LEMMA EndsInTurn ==
  ASSUME AttributionInv, PagesInv, NEW e \in DOMAIN req, NEW how \in Hows, NEW status \in Statuses,
         NEW seen \in BOOLEAN, Ends(e, how, status, seen), how # "flight"
  PROVE  PagesInv'
<1> USE DEF AttributionInv
<1>1. EndsAs(e, how, status) /\ req[e].how = "flight" /\ UNCHANGED log
  BY DEF Ends, EndsAs, intake
<1>2. /\ DOMAIN req' = DOMAIN req /\ req'[e].ts = req[e].ts /\ req'[e].kind = req[e].kind /\ req'[e].how = how
      /\ \A j \in DOMAIN req : j # e => req'[j] = req[j]
      /\ RequestsKept
  BY <1>1, RequestEnds
<1>3. DOMAIN req = 1 .. Len(req) /\ Len(req) \in Nat
  BY DEF AttributionTypes
<1>4. \A j \in DOMAIN req : req'[j].start = req[j].start /\ req'[j].ts = req[j].ts /\ req'[j].kind = req[j].kind
  <2>1. req[e] \in RequestRows
    BY RequestFields
  <2>2. req'[e].start = req[e].start
    BY <1>1, <2>1 DEF RequestRows, EndsAs
  <2> QED  BY <1>2, <2>2
<1>5. \A i, j \in DOMAIN req : OfOneContext(i, j)' <=> OfOneContext(i, j)
  BY <1>4 DEF OfOneContext
<1>6. \A j \in DOMAIN req : e < j => ~OfOneContext(e, j)
  BY <1>1 DEF PagesInv, InTurn
<1>7. InTurn'
  <2>1. \A i, j \in DOMAIN req : i < j => req'[i].ts <= req'[j].ts
    BY <1>4 DEF PagesInv, InTurn
  <2>2. \A i, j \in DOMAIN req : i < j /\ OfOneContext(i, j) => req'[i].how # "flight"
    <3> TAKE i, j \in DOMAIN req
    <3>1. CASE i = e
      BY <1>2, <3>1
    <3>2. CASE i # e
      BY <1>2, <3>2 DEF PagesInv, InTurn
    <3> QED  BY <3>1, <3>2
  <2>3. \A i, j \in DOMAIN req : i < j /\ OfOneContext(i, j)' => req'[i].how # "flight"
    BY <1>5, <2>2
  <2> QED  BY <1>2, <2>1, <2>3 DEF InTurn
<1>8. LogInTurn'
  BY <1>1, <1>2, LogInTurnStays
<1>9. ASSUME NEW i \in DOMAIN req, req'[i].kind.main PROVE \E x \in DOMAIN req' : Led(x, i)'
  <2>1. PICK x \in DOMAIN req : Led(x, i)
    BY <1>4, <1>9 DEF PagesInv, HopsLead
  <2>2. x <= i /\ OfOneContext(x, i) /\ req[x].start = req[x].ts /\ req[i].start = req[x].ts
    BY <2>1 DEF Led
  <2>3. i \in Nat /\ x \in Nat /\ x \in DOMAIN req' /\ OfOneContext(x, i)'
    BY <1>2, <1>3, <1>5, <2>2
  <2>4. \A j \in 1 .. i - 1 : j \in DOMAIN req
    BY <1>3, <2>3
  <2>5. \A j \in 1 .. i - 1 : OfOneContext(j, i) => req'[j] = req[j]
    <3> SUFFICES ASSUME NEW j \in 1 .. i - 1, OfOneContext(j, i) PROVE req'[j] = req[j]
      OBVIOUS
    <3>1. j \in DOMAIN req /\ j < i
      BY <2>3, <2>4
    <3>2. j # e
      BY <1>6, <3>1
    <3> QED  BY <1>2, <3>1, <3>2
  <2>6. ASSUME NEW j \in x .. i - 1, OfOneContext(j, i)' PROVE IsRedirect(req'[j].status) /\ req'[j].start = req'[x].ts
    <3>1. j \in 1 .. i - 1
      BY <1>3, <2>3
    <3>2. OfOneContext(j, i) /\ req'[j] = req[j] /\ req'[x].ts = req[x].ts
      BY <1>4, <1>5, <2>4, <2>5, <2>6, <3>1
    <3> QED  BY <2>1, <3>2 DEF Led
  <2>7. ASSUME NEW j \in 1 .. x - 1, OfOneContext(j, i)', IsRedirect(req'[j].status)
        PROVE  \E q \in j + 1 .. x - 1 : OfOneContext(q, i)'
    <3>1. j \in 1 .. i - 1 /\ j \in Nat
      BY <2>2, <2>3
    <3>2. OfOneContext(j, i) /\ req'[j] = req[j]
      BY <1>5, <2>4, <2>5, <2>7, <3>1
    <3>3. PICK q \in j + 1 .. x - 1 : OfOneContext(q, i)
      BY <2>1, <2>7, <3>2 DEF Led
    <3>4. q \in 1 .. i - 1
      BY <2>2, <2>3, <3>1
    <3> QED  BY <1>5, <2>4, <3>3, <3>4
  <2>8. req'[x].start = req'[x].ts /\ req'[i].start = req'[x].ts
    BY <1>4, <2>2
  <2>9. Led(x, i)'
    BY <2>2, <2>3, <2>6, <2>7, <2>8 DEF Led
  <2> QED  BY <2>3, <2>9
<1>10. HopsLead'
  BY <1>2, <1>9 DEF HopsLead
<1>11. FileInTurn'
  <2>1. CASE ~seen
    <3>1. file' = file
      BY <2>1 DEF Ends
    <3> QED  BY <1>2, <3>1, FileInTurnStays
  <2>2. CASE seen
    <3> DEFINE l == Line("request", req[e].ts, e)
    <3>1. file' = Append(file, l)
      BY <2>2 DEF Ends
    <3>2. l \in LineRows /\ l.req = e
      <4>1. req[e].ts \in Nat /\ e \in Nat
        BY RequestFields DEF AttributionTypes
      <4> QED  BY <4>1 DEF Line, LineRows
    <3>0. PICK L : L = Len(file) + 1
      OBVIOUS
    <3> HIDE DEF l
    <3>3. FileGrows /\ DOMAIN file' = DOMAIN file \cup {L} /\ file'[L] = l
      <4>1. UNCHANGED <<pos, log, dropped, capped>>
        BY DEF Ends, intake
      <4> QED  BY <3>0, <3>1, <3>2, <4>1, FileAppended
    <3>4. \A n \in DOMAIN file : file'[n] = file[n] /\ n < L /\ n \in Nat
      <4>1. DOMAIN file = 1 .. Len(file) /\ Len(file) \in Nat
        BY LineFields
      <4> QED  BY <3>0, <3>3, <4>1 DEF FileGrows
    <3>5. L \in Nat
      BY <3>0, LineFields
    <3>6. SUFFICES ASSUME NEW m \in RequestLines', NEW n \in RequestLines', m < n,
                          OfOneContext(file[m].req, file[n].req)'
                   PROVE  file'[m].req < file'[n].req
      BY DEF FileInTurn
    <3>7. m \in DOMAIN file' /\ n \in DOMAIN file' /\ file'[m].kind = "request" /\ file'[n].kind = "request"
      BY DEF RequestLines
    <3>8. m \in RequestLines /\ file'[m] = file[m]
      BY <3>3, <3>4, <3>5, <3>6, <3>7 DEF RequestLines
    <3>9. file[m].req \in DOMAIN req
      BY <3>8, LinesHaveRequests
    <3>10. CASE n \in DOMAIN file
      <4>1. n \in RequestLines /\ file'[n] = file[n]
        BY <3>4, <3>7, <3>10 DEF RequestLines
      <4>2. file[n].req \in DOMAIN req
        BY <4>1, LinesHaveRequests
      <4>3. OfOneContext(file[m].req, file[n].req)
        BY <1>4, <3>6, <3>8, <3>9, <4>1, <4>2 DEF OfOneContext
      <4> QED  BY <3>6, <3>8, <4>1, <4>3 DEF PagesInv, FileInTurn
    <3>11. CASE n = L
      <4>1. file'[n].req = e
        BY <3>2, <3>3, <3>11
      <4>2. OfOneContext(file[m].req, e)
        BY <1>4, <3>6, <3>8, <3>9, <4>1 DEF OfOneContext
      <4>3. file[m].req # e
        BY <1>1, <3>8 DEF LinesAreTrue, IsTrue
      <4>4. ~(e < file[m].req)
        BY <1>6, <3>9, <4>2 DEF OfOneContext
      <4> QED  BY <1>3, <3>8, <3>9, <4>1, <4>3, <4>4
    <3> QED  BY <3>3, <3>7, <3>10, <3>11
  <2> QED  BY <2>1, <2>2
<1> QED  BY <1>7, <1>8, <1>10, <1>11 DEF PagesInv

\* Whatever request ends, and however it does.
EndsSomehow ==
  \E e \in DOMAIN req, how \in Hows \ {"flight"}, status \in Statuses, seen \in BOOLEAN :
    Ends(e, how, status, seen)
LEMMA SomeEnds ==
  ASSUME AttributionInv, PagesInv, EndsSomehow
  PROVE  PagesInv'
<1>1. PICK e \in DOMAIN req, how \in Hows \ {"flight"}, status \in Statuses, seen \in BOOLEAN :
         Ends(e, how, status, seen)
  BY DEF EndsSomehow
<1>2. how \in Hows /\ how # "flight"
  OBVIOUS
<1> QED  BY <1>1, <1>2, EndsInTurn

\* Every step keeps what is known of pages.
LEMMA PagesStep == AttributionInv /\ PagesInv /\ [Next]_vars => PagesInv'
<1> SUFFICES ASSUME AttributionInv, PagesInv, [Next]_vars PROVE PagesInv'
  OBVIOUS
<1>0. AttributionTypes
  BY DEF AttributionInv
<1>1. ASSUME UNCHANGED <<req, log, file>> PROVE PagesInv'
  BY <1>1, PagesStay DEF RequestLines
<1>2. CASE Tick \/ Trip \/ EndJob
  BY <1>1, <1>2 DEF Tick, Trip, EndJob, job, intake
<1>3. CASE Start
  BY <1>3, StartInTurn
<1>4. CASE \E kind \in {"attach", "launch"} : Observe(kind)
  <2>1. PICK kind \in {"attach", "launch"} : Observe(kind)
    BY <1>4
  <2>2. file' = Append(file, Line(kind, clock, 0)) /\ req' = req /\ log' = log
    BY <2>1 DEF Observe, job, intake
  <2> QED  BY <1>0, <2>2, OtherLineStays
<1>5. CASE \E kind \in {"blank", "bad"} : Scribble(kind)
  <2>1. PICK kind \in {"blank", "bad"} : Scribble(kind)
    BY <1>5
  <2>2. file' = Append(file, Line(kind, clock, 0)) /\ req' = req /\ log' = log
    BY <2>1 DEF Scribble, job, intake
  <2> QED  BY <1>0, <2>2, OtherLineStays
<1>6. CASE \E h \in Hosts, own, failed \in BOOLEAN : OpenTunnel(h, own, failed)
  BY <1>1, <1>6 DEF OpenTunnel, intake
<1>7. CASE \E t \in DOMAIN tunnels : CloseTunnel(t)
  BY <1>1, <1>7 DEF CloseTunnel, intake
<1>8. ASSUME NEW i \in DOMAIN req, NEW t \in DOMAIN tunnels, NEW status \in {200, 302}, NEW seen \in BOOLEAN,
             Metered(i, t, status, seen)
      PROVE  PagesInv'
  <2>1. Ends(i, IF seen THEN "metered" ELSE "lost", status, seen)
    BY <1>8 DEF Metered
  <2>2. PICK how \in Hows \ {"flight"} : how = IF seen THEN "metered" ELSE "lost"
    BY DEF Hows
  <2>3. EndsSomehow
    BY <2>1, <2>2 DEF EndsSomehow, Statuses
  <2> QED  BY <2>3, SomeEnds
<1>9. ASSUME NEW i \in DOMAIN req, NEW how \in {"around", "cache"}, Unmetered(i, how)
      PROVE  PagesInv'
  <2>1. PICK seen \in BOOLEAN : seen = TRUE
    OBVIOUS
  <2>2. Ends(i, how, 200, seen)
    BY <1>9, <2>1, Zenon DEF Unmetered
  <2>3. how \in Hows \ {"flight"}
    BY DEF Hows
  <2>4. EndsSomehow
    BY <2>2, <2>3 DEF EndsSomehow, Statuses
  <2> QED  BY <2>4, SomeEnds
<1>10. ASSUME NEW i \in DOMAIN req, NEW status \in {0, 403}, Refused(i, status) \/ RefusedByRule(i, status)
      PROVE  PagesInv'
  <2>1. PICK seen \in BOOLEAN : seen = TRUE
    OBVIOUS
  <2>2. Ends(i, "refused", status, seen) \/ Ends(i, "denied", status, seen)
    BY <1>10, <2>1, Zenon DEF Refused, RefusedByRule
  <2>3. PICK how \in {"refused", "denied"} : Ends(i, how, status, seen)
    BY <2>2, Zenon
  <2>4. how \in Hows \ {"flight"} /\ status \in Statuses
    BY DEF Hows, Statuses
  <2>5. EndsSomehow
    BY <2>3, <2>4 DEF EndsSomehow
  <2> QED  BY <2>5, SomeEnds
<1>14. ASSUME NEW i \in DOMAIN req, Challenged(i) PROVE PagesInv'
  <2>1. PICK seen \in BOOLEAN : seen = TRUE
    OBVIOUS
  <2>2. Ends(i, "challenged", 407, seen)
    BY <1>14, <2>1, Zenon DEF Challenged
  <2>3. "challenged" \in Hows \ {"flight"} /\ 407 \in Statuses
    BY DEF Hows, Statuses
  <2>4. EndsSomehow
    BY <2>2, <2>3 DEF EndsSomehow
  <2> QED  BY <2>4, SomeEnds
<1>11. CASE SkipLine \/ DropLine \/ EndOfFile
  BY <1>1, <1>11 DEF SkipLine, DropLine, EndOfFile, Reads, job, intake
<1>12. CASE KeepLine
  BY <1>12, KeepLineInTurn
<1>13. CASE UNCHANGED vars
  BY <1>1, <1>13 DEF vars
<1> QED  BY <1>2, <1>3, <1>4, <1>5, <1>6, <1>7, <1>8, <1>9, <1>10, <1>11, <1>12, <1>13, <1>14 DEF Next

\* What is known of pages holds in every state.
LEMMA PagesHold == Spec => [](AttributionInv /\ PagesInv)
<1>1. Init => AttributionInv /\ PagesInv
  BY AttributionStarts, PagesStart
<1>2. AttributionInv /\ PagesInv /\ [Next]_vars => (AttributionInv /\ PagesInv)'
  BY AttributionStep, PagesStep
<1> QED  BY <1>1, <1>2, PTL DEF Spec

-----------------------------------------------------------------------------
(* Attribution: the walk along a context's navigations.                     *)

\* What the walk carries from one navigation to the next.
Chains == [first : Nat \cup {Never}, previous : Nat \cup {Never}, starts : [Navigations -> Nat]]
Late(chain, n) == chain.previous # Never /\ Ts(n) - chain.previous > MaxGap
FirstHop(chain, n) == IF Late(chain, n) THEN Never ELSE chain.first

\* Navigations are requests of the job's.
LEMMA NavigationFacts ==
  ASSUME AttributionInv
  PROVE  /\ IsFiniteSet(Navigations) /\ Navigations \subseteq Requests
         /\ \A n \in Navigations : n \in Nat /\ Ts(n) \in Nat /\ log[n].req \in DOMAIN req
                                   /\ Ts(n) = req[log[n].req].ts /\ Made(n) = req[log[n].req]
                                   /\ req[log[n].req].kind.main
         /\ NoChain \in Chains
<1>1. IsFiniteSet(Navigations) /\ Navigations \subseteq Requests
  BY EventSets, FS_Subset DEF Navigations
<1>2. ASSUME NEW n \in Navigations
      PROVE  /\ n \in Nat /\ Ts(n) \in Nat /\ log[n].req \in DOMAIN req
             /\ Ts(n) = req[log[n].req].ts /\ Made(n) = req[log[n].req]
             /\ req[log[n].req].kind.main
  <2>1. n \in Requests /\ n \in Nat
    BY <1>1, EventSets
  <2>2. log[n].req \in DOMAIN req /\ Made(n) = req[log[n].req] /\ Ts(n) = Made(n).ts
    BY <2>1, EventFacts
  <2>3. req[log[n].req].ts \in Nat
    BY <2>2, RequestFields DEF AttributionInv
  <2>4. Event(n).main
    BY DEF Navigations
  <2> QED  BY <2>1, <2>2, <2>3, <2>4 DEF Event
<1>3. NoChain \in Chains
  BY <1>2 DEF NoChain, Chains
<1> QED  BY <1>1, <1>2, <1>3

\* One step of the walk.
LEMMA NextHopIs ==
  ASSUME AttributionInv, NEW n \in Navigations, NEW chain \in Chains
  PROVE  /\ NextHop(chain, n) \in Chains /\ NextHop(chain, n).previous = Ts(n)
         /\ IsRedirect(Status(n)) =>
              /\ NextHop(chain, n).first = IF FirstHop(chain, n) = Never THEN Ts(n) ELSE FirstHop(chain, n)
              /\ NextHop(chain, n).starts = chain.starts
         /\ ~IsRedirect(Status(n)) =>
              /\ NextHop(chain, n).first = Never
              /\ NextHop(chain, n).starts[n] =
                   IF FirstHop(chain, n) = Never THEN chain.starts[n] ELSE FirstHop(chain, n)
         /\ \A m \in Navigations : m # n => NextHop(chain, n).starts[m] = chain.starts[m]
<1>1. Ts(n) \in Nat
  BY NavigationFacts
<1>2. PICK first : first = FirstHop(chain, n)
  OBVIOUS
<1>3. first \in Nat \cup {Never}
  BY <1>2 DEF FirstHop, Chains
<1>4. NextHop(chain, n) =
        IF IsRedirect(Status(n))
        THEN [chain EXCEPT !.first = IF first = Never THEN Ts(n) ELSE first, !.previous = Ts(n)]
        ELSE [first |-> Never, previous |-> Ts(n),
              starts |-> [chain.starts EXCEPT ![n] = IF first = Never THEN @ ELSE first]]
  BY <1>2 DEF NextHop, FirstHop, Late
<1>5. chain.starts \in [Navigations -> Nat]
  BY DEF Chains
<1>6. CASE IsRedirect(Status(n))
  <2>1. PICK x \in Nat : x = IF first = Never THEN Ts(n) ELSE first
    BY <1>1, <1>3
  <2>2. NextHop(chain, n) = [chain EXCEPT !.first = x, !.previous = Ts(n)]
    BY <1>4, <1>6, <2>1
  <2>3. NextHop(chain, n) \in Chains /\ NextHop(chain, n).first = x /\ NextHop(chain, n).previous = Ts(n)
        /\ NextHop(chain, n).starts = chain.starts
    BY <1>1, <2>2 DEF Chains
  <2> QED  BY <1>2, <1>6, <2>1, <2>3
<1>7. CASE ~IsRedirect(Status(n))
  <2>1. PICK x \in Nat : x = IF first = Never THEN chain.starts[n] ELSE first
    BY <1>3, <1>5
  <2>2. NextHop(chain, n) = [first |-> Never, previous |-> Ts(n), starts |-> [chain.starts EXCEPT ![n] = x]]
    BY <1>4, <1>7, <2>1
  <2>3. [chain.starts EXCEPT ![n] = x] \in [Navigations -> Nat]
    BY <1>5
  <2>4. NextHop(chain, n) \in Chains /\ NextHop(chain, n).first = Never /\ NextHop(chain, n).previous = Ts(n)
        /\ NextHop(chain, n).starts = [chain.starts EXCEPT ![n] = x]
    BY <1>1, <2>2, <2>3 DEF Chains
  <2> QED  BY <1>2, <1>5, <1>7, <2>1, <2>4
<1> QED  BY <1>6, <1>7

\* The walk along an order, step by step.
IsWalk(f, order) ==
  /\ f \in [0 .. Len(order) -> Chains] /\ f[0] = NoChain
  /\ \A k \in 1 .. Len(order) : f[k] = NextHop(f[k - 1], order[k])

\* There is one walk, and Chained is its end.
LEMMA ChainedIs ==
  ASSUME AttributionInv, NEW order \in Seq(Navigations)
  PROVE  \E f : IsWalk(f, order) /\ Chained(order) = f[Len(order)]
<1>1. PICK n : n = Len(order)
  OBVIOUS
<1> DEFINE Is(g) == g = [k \in 0 .. n |-> IF k = 0 THEN NoChain ELSE NextHop(g[k - 1], order[k])]
           step == [k \in 1 .. n |-> [x \in Chains |-> NextHop(x, order[k])]]
           after == CHOOSE g : Is(g)
<1>2. n \in Nat /\ \A k \in 1 .. n : order[k] \in Navigations
  BY <1>1
<1>3. step \in [1 .. n -> [Chains -> Chains]]
  <2>1. ASSUME NEW k \in 1 .. n, NEW x \in Chains PROVE NextHop(x, order[k]) \in Chains
    BY <1>2, NextHopIs
  <2> QED  BY <2>1
<1>4. NoChain \in Chains
  BY NavigationFacts
<1>5. \A k \in 1 .. n : \A x \in Chains : step[k][x] = NextHop(x, order[k])
  OBVIOUS
<1> HIDE DEF step
<1>6. PICK h \in [0 .. n -> Chains] : AreRounds(h, n, NoChain, step)
  BY <1>2, <1>3, <1>4, RoundsExist
<1>7. ASSUME NEW k \in 0 .. n PROVE h[k] = IF k = 0 THEN NoChain ELSE NextHop(h[k - 1], order[k])
  <2>1. h[k] = IF k = 0 THEN NoChain ELSE step[k][h[k - 1]]
    BY <1>6 DEF AreRounds
  <2>2. CASE k = 0
    BY <2>1, <2>2
  <2>3. CASE k # 0
    <3>1. k \in 1 .. n /\ k - 1 \in 0 .. n
      BY <1>2, <2>3
    <3>2. h[k - 1] \in Chains
      BY <1>6, <3>1
    <3> QED  BY <1>5, <2>1, <2>3, <3>1, <3>2
  <2> QED  BY <2>2, <2>3
<1>8. h = [k \in 0 .. n |-> h[k]]
  BY <1>6
<1>9. h = [k \in 0 .. n |-> IF k = 0 THEN NoChain ELSE NextHop(h[k - 1], order[k])]
  BY <1>7, <1>8
<1>10. Is(after)
  <2>1. Is(h)
    BY <1>9
  <2> HIDE DEF Is
  <2> QED  BY <2>1
<1>11. Chained(order) = after[n]
  BY <1>1 DEF Chained
<1> HIDE DEF after
<1>12. ASSUME NEW k \in 0 .. n PROVE after[k] = IF k = 0 THEN NoChain ELSE NextHop(after[k - 1], order[k])
  BY <1>10
<1>13. \A k \in 0 .. n : after[k] \in Chains
  <2> DEFINE G == {k \in 0 .. n : after[k] \in Chains}
  <2>1. 0 \in G
    BY <1>2, <1>4, <1>12
  <2>2. ASSUME NEW k \in 0 .. n - 1, k \in G PROVE k + 1 \in G
    <3>1. k + 1 \in 0 .. n /\ k + 1 \in 1 .. n /\ k + 1 # 0 /\ (k + 1) - 1 = k
      BY <1>2
    <3>2. after[k + 1] = NextHop(after[k], order[k + 1])
      BY <1>12, <3>1
    <3>3. after[k] \in Chains
      BY <2>2
    <3> QED  BY <1>2, <3>1, <3>2, <3>3, NextHopIs
  <2>3. G \in SUBSET (0 .. n)
    OBVIOUS
  <2> HIDE DEF G
  <2>4. \A k \in 0 .. n : k \in G
    BY <1>2, <2>1, <2>2, <2>3, UpTo
  <2> QED  BY <2>4 DEF G
<1>14. after \in [0 .. n -> Chains]
  <2>1. DOMAIN after = 0 .. n /\ after = [k \in 0 .. n |-> after[k]]
    BY <1>10
  <2> QED  BY <1>13, <2>1
<1>15. after[0] = NoChain /\ \A k \in 1 .. n : after[k] = NextHop(after[k - 1], order[k])
  <2>1. 0 \in 0 .. n /\ \A k \in 1 .. n : k \in 0 .. n /\ k # 0
    BY <1>2
  <2> QED  BY <1>12, <2>1
<1>16. IsWalk(after, order)
  BY <1>1, <1>14, <1>15 DEF IsWalk
<1> QED  BY <1>1, <1>11, <1>16

\* What the walk leaves alone: a navigation it has not come to, and one it has passed.
LEMMA WalkLeaves ==
  ASSUME AttributionInv, NEW order \in Seq(Navigations), NEW f, IsWalk(f, order), NEW p \in 1 .. Len(order),
         \A k \in 1 .. Len(order) : order[k] = order[p] => k = p
  PROVE  /\ \A k \in 0 .. p - 1 : f[k].starts[order[p]] = Ts(order[p])
         /\ \A k \in p .. Len(order) : f[k].starts[order[p]] = f[p].starts[order[p]]
<1>1. PICK n : n = Len(order)
  OBVIOUS
<1>2. PICK u : u = order[p]
  OBVIOUS
<1>3. n \in Nat /\ p \in 1 .. n /\ u \in Navigations /\ \A k \in 1 .. n : order[k] \in Navigations
  BY <1>1, <1>2
<1>4. /\ \A k \in 0 .. n : f[k] \in Chains
      /\ f[0] = NoChain /\ \A k \in 1 .. n : f[k] = NextHop(f[k - 1], order[k])
  BY <1>1 DEF IsWalk
<1>5. \A k \in 1 .. n : k # p => f[k].starts[u] = f[k - 1].starts[u]
  <2> SUFFICES ASSUME NEW k \in 1 .. n, k # p PROVE f[k].starts[u] = f[k - 1].starts[u]
    OBVIOUS
  <2>1. u # order[k] /\ order[k] \in Navigations
    BY <1>1, <1>2, <1>3
  <2>2. k - 1 \in 0 .. n
    BY <1>3
  <2>3. f[k - 1] \in Chains /\ f[k] = NextHop(f[k - 1], order[k])
    BY <1>4, <2>2
  <2> QED  BY <1>3, <2>1, <2>3, NextHopIs
<1>6. \A k \in 0 .. p - 1 : f[k].starts[u] = Ts(u)
  <2> DEFINE G == {k \in 0 .. p - 1 : f[k].starts[u] = Ts(u)}
  <2>0. p - 1 \in Nat
    BY <1>3
  <2>1. 0 \in G
    BY <1>3, <1>4, <2>0 DEF NoChain
  <2>2. ASSUME NEW k \in 0 .. (p - 1) - 1, k \in G PROVE k + 1 \in G
    <3>1. k + 1 \in 1 .. n /\ k + 1 # p /\ (k + 1) - 1 = k /\ k + 1 \in 0 .. p - 1
      BY <1>3
    <3>2. f[k].starts[u] = Ts(u)
      BY <2>2
    <3> QED  BY <1>5, <3>1, <3>2
  <2>3. G \in SUBSET (0 .. p - 1)
    OBVIOUS
  <2> HIDE DEF G
  <2>4. \A k \in 0 .. p - 1 : k \in G
    BY <2>0, <2>1, <2>2, <2>3, UpTo
  <2> QED  BY <2>4 DEF G
<1>7. \A k \in p .. n : f[k].starts[u] = f[p].starts[u]
  <2> DEFINE G == {k \in 0 .. n - p : f[p + k].starts[u] = f[p].starts[u]}
  <2>0. n - p \in Nat
    BY <1>3
  <2>1. 0 \in G
    BY <1>3, <2>0
  <2>2. ASSUME NEW k \in 0 .. (n - p) - 1, k \in G PROVE k + 1 \in G
    <3>1. p + (k + 1) \in 1 .. n /\ p + (k + 1) # p /\ (p + (k + 1)) - 1 = p + k /\ k + 1 \in 0 .. n - p
      BY <1>3
    <3>2. f[p + k].starts[u] = f[p].starts[u]
      BY <2>2
    <3>3. f[p + (k + 1)].starts[u] = f[p + k].starts[u]
      BY <1>5, <3>1
    <3> QED  BY <3>1, <3>2, <3>3
  <2>3. G \in SUBSET (0 .. n - p)
    OBVIOUS
  <2> HIDE DEF G
  <2>4. \A k \in 0 .. n - p : k \in G
    BY <2>0, <2>1, <2>2, <2>3, UpTo
  <2>5. \A k \in p .. n : k - p \in 0 .. n - p /\ p + (k - p) = k
    BY <1>3
  <2> QED  BY <2>4, <2>5 DEF G
<1> QED  BY <1>1, <1>2, <1>6, <1>7

\* Navigations q to p, of which the last is the page and the others led to it, each
\* without delay; and what is before q does not lead to them.
IsChain(order, q, p) ==
  /\ q \in 1 .. p /\ ~IsRedirect(Status(order[p]))
  /\ \A k \in q .. p - 1 : IsRedirect(Status(order[k])) /\ Ts(order[k + 1]) - Ts(order[k]) <= MaxGap
  /\ q > 1 => ~IsRedirect(Status(order[q - 1])) \/ Ts(order[q]) - Ts(order[q - 1]) > MaxGap

\* At its end the walk has the page start where the chain does.
LEMMA WalkFindsFirst ==
  ASSUME AttributionInv, NEW order \in Seq(Navigations), NEW f, IsWalk(f, order), NEW p \in 1 .. Len(order),
         \A k \in 1 .. Len(order) : order[k] = order[p] => k = p,
         NEW q, IsChain(order, q, p)
  PROVE  f[Len(order)].starts[order[p]] = Ts(order[q])
<1>1. PICK n : n = Len(order)
  OBVIOUS
<1>2. n \in Nat /\ p \in 1 .. n /\ q \in 1 .. n /\ q \in 1 .. p
  BY <1>1 DEF IsChain
<1>3. \A k \in 1 .. n : order[k] \in Navigations /\ Ts(order[k]) \in Nat
  BY <1>1, NavigationFacts
<1>4. /\ \A k \in 0 .. n : f[k] \in Chains
      /\ f[0] = NoChain /\ \A k \in 1 .. n : f[k] = NextHop(f[k - 1], order[k])
  BY <1>1 DEF IsWalk
<1>5. ASSUME NEW k \in 1 .. n
      PROVE  /\ f[k - 1] \in Chains /\ f[k].previous = Ts(order[k])
             /\ IsRedirect(Status(order[k])) =>
                  f[k].first = IF FirstHop(f[k - 1], order[k]) = Never THEN Ts(order[k])
                               ELSE FirstHop(f[k - 1], order[k])
             /\ ~IsRedirect(Status(order[k])) =>
                  /\ f[k].first = Never
                  /\ f[k].starts[order[k]] = IF FirstHop(f[k - 1], order[k]) = Never
                                             THEN f[k - 1].starts[order[k]]
                                             ELSE FirstHop(f[k - 1], order[k])
  <2>1. k - 1 \in 0 .. n
    BY <1>2
  <2>2. f[k - 1] \in Chains /\ f[k] = NextHop(f[k - 1], order[k]) /\ order[k] \in Navigations
    BY <1>3, <1>4, <2>1
  <2> QED  BY <2>2, NextHopIs
<1>6. FirstHop(f[q - 1], order[q]) = Never
  <2>1. CASE q = 1
    <3>1. f[q - 1].first = Never
      BY <1>4, <2>1 DEF NoChain
    <3> QED  BY <3>1 DEF FirstHop
  <2>2. CASE q # 1
    <3>1. q > 1 /\ q - 1 \in 1 .. n
      BY <1>2, <2>2
    <3>2. f[q - 1].previous = Ts(order[q - 1]) /\ Ts(order[q - 1]) # Never
      BY <1>3, <1>5, <3>1 DEF Never
    <3>3. CASE ~IsRedirect(Status(order[q - 1]))
      <4>1. f[q - 1].first = Never
        BY <1>5, <3>1, <3>3
      <4> QED  BY <4>1 DEF FirstHop
    <3>4. CASE Ts(order[q]) - Ts(order[q - 1]) > MaxGap
      BY <3>2, <3>4 DEF FirstHop, Late
    <3> QED  BY <3>1, <3>3, <3>4 DEF IsChain
  <2> QED  BY <2>1, <2>2
<1>7. PICK S : S = Ts(order[q])
  OBVIOUS
<1>8. S \in Nat /\ S # Never
  BY <1>2, <1>3, <1>7 DEF Never
<1>9. CASE q = p
  <2>1. f[p].starts[order[p]] = f[p - 1].starts[order[p]]
    BY <1>2, <1>5, <1>6, <1>9 DEF IsChain
  <2>2. f[p - 1].starts[order[p]] = Ts(order[p])
    <3>1. p - 1 \in 0 .. p - 1
      BY <1>2
    <3> QED  BY <3>1, WalkLeaves
  <2>3. n \in p .. n
    BY <1>2
  <2> QED  BY <1>1, <1>9, <2>1, <2>2, <2>3, WalkLeaves
<1>10. CASE q # p
  <2> DEFINE G == {k \in 0 .. (p - 1) - q : f[q + k].first = S}
  <2>0. (p - 1) - q \in Nat /\ q \in q .. p - 1
    BY <1>2, <1>10
  <2>1. 0 \in G
    <3>1. IsRedirect(Status(order[q]))
      BY <2>0 DEF IsChain
    <3>2. f[q].first = S
      BY <1>2, <1>5, <1>6, <1>7, <3>1
    <3> QED  BY <1>2, <2>0, <3>2
  <2>2. ASSUME NEW k \in q .. p - 1, f[k].first = S PROVE FirstHop(f[k], order[k + 1]) = S
    <3>1. k \in 1 .. n
      BY <1>2
    <3>2. f[k].previous = Ts(order[k]) /\ Ts(order[k + 1]) - Ts(order[k]) <= MaxGap
      BY <1>5, <3>1 DEF IsChain
    <3>3. k + 1 \in 1 .. n
      BY <1>2
    <3>4. ~(Ts(order[k + 1]) - Ts(order[k]) > MaxGap)
      BY <1>3, <3>1, <3>2, <3>3, SizesAreNat
    <3> QED  BY <2>2, <3>2, <3>4 DEF FirstHop, Late
  <2>3. ASSUME NEW k \in 0 .. ((p - 1) - q) - 1, k \in G PROVE k + 1 \in G
    <3>1. /\ q + k \in q .. p - 1 /\ (q + k) + 1 \in q .. p - 1 /\ (q + k) + 1 \in 1 .. n
          /\ ((q + k) + 1) - 1 = q + k /\ q + (k + 1) = (q + k) + 1 /\ k + 1 \in 0 .. (p - 1) - q
      BY <1>2
    <3>2. f[q + k].first = S
      BY <2>3
    <3>3. FirstHop(f[q + k], order[(q + k) + 1]) = S
      BY <2>2, <3>1, <3>2
    <3>4. IsRedirect(Status(order[(q + k) + 1]))
      BY <3>1 DEF IsChain
    <3>5. f[(q + k) + 1].first = S
      BY <1>5, <1>8, <3>1, <3>3, <3>4
    <3> QED  BY <3>1, <3>5
  <2>4. G \in SUBSET (0 .. (p - 1) - q)
    OBVIOUS
  <2> HIDE DEF G
  <2>5. \A k \in 0 .. (p - 1) - q : k \in G
    BY <2>0, <2>1, <2>3, <2>4, UpTo
  <2>6. f[p - 1].first = S
    <3>1. (p - 1) - q \in 0 .. (p - 1) - q /\ q + ((p - 1) - q) = p - 1
      BY <1>2, <2>0
    <3> QED  BY <2>5, <3>1 DEF G
  <2>7. p - 1 \in q .. p - 1 /\ (p - 1) + 1 = p
    BY <1>2, <1>10
  <2>8. FirstHop(f[p - 1], order[p]) = S
    BY <2>2, <2>6, <2>7
  <2>9. f[p].starts[order[p]] = S
    BY <1>2, <1>5, <1>8, <2>8 DEF IsChain
  <2>10. n \in p .. n
    BY <1>2
  <2> QED  BY <1>1, <1>7, <2>9, <2>10, WalkLeaves
<1> QED  BY <1>9, <1>10

\* The requests of a context's navigations are in the order of the navigations.
LEMMA OrderFacts ==
  ASSUME AttributionInv, PagesInv, NEW c
  PROVE  LET N == NavigationsOf(c)
             order == InOrder(N)
         IN  /\ order \in Seq(Navigations) /\ DOMAIN order = 1 .. Len(order) /\ Len(order) \in Nat
             /\ \A k \in 1 .. Len(order) : order[k] \in N
             /\ \A n \in N : \E k \in 1 .. Len(order) : order[k] = n
             /\ \A k, l \in 1 .. Len(order) : k < l => log[order[k]].req < log[order[l]].req
<1> DEFINE N == NavigationsOf(c)
           order == InOrder(N)
           v == [a \in N |-> Ts(a)]
           w == [a \in N |-> a]
           ahead == [a \in N |-> {b \in N : Ts(b) < Ts(a) \/ (Ts(b) = Ts(a) /\ b < a)}]
<1>1. N \subseteq Navigations /\ IsFiniteSet(N)
  BY NavigationFacts, FS_Subset DEF NavigationsOf
<1>2. \A n \in N : /\ n \in Nat /\ n \in Requests /\ Ts(n) \in Nat /\ log[n].req \in DOMAIN req
                   /\ Ts(n) = req[log[n].req].ts
                   /\ req[log[n].req].kind.main /\ req[log[n].req].kind.context = c
  <2> TAKE n \in N
  <2>1. n \in Navigations /\ Event(n).context = c
    BY DEF NavigationsOf
  <2> QED  BY <2>1, NavigationFacts DEF Event
<1>3. order = InLine(ahead)
  BY DEF InOrder
<1>4. /\ \A a \in N : v[a] \in Int /\ w[a] \in Int
      /\ \A a, b \in N : w[a] = w[b] => a = b
  BY <1>2
<1>5. ahead = AheadBy(v, w, N)
  BY DEF AheadBy
<1>a. DOMAIN ahead = N
  OBVIOUS
<1>6. \A a, b \in N : a \in ahead[b] => Ts(a) < Ts(b) \/ (Ts(a) = Ts(b) /\ a < b)
  OBVIOUS
<1> HIDE DEF v, w, ahead, N, order
<1>7. IsLine(AheadBy(v, w, N), N)
  BY <1>4, StampsAreLine
<1>8. IsSortedBy(order, ahead, N)
  BY <1>1, <1>3, <1>5, <1>7, <1>a, InLineIs
<1>9. Cardinality(N) \in Nat
  BY <1>1, FS_CardinalityType
<1>10. /\ order \in Seq(N) /\ DOMAIN order = 1 .. Len(order) /\ Len(order) \in Nat
       /\ \A n \in N : \E k \in 1 .. Len(order) : order[k] = n
       /\ \A k, l \in 1 .. Len(order) : k < l => order[k] \in ahead[order[l]]
  BY <1>8, <1>9 DEF IsSortedBy
<1>11. \A k \in 1 .. Len(order) : order[k] \in N
  BY <1>10
<1>12. order \in Seq(Navigations)
  BY <1>1, <1>10
<1>13. ASSUME NEW k \in 1 .. Len(order), NEW l \in 1 .. Len(order), k < l
       PROVE  log[order[k]].req < log[order[l]].req
  <2>1. PICK a \in N, b \in N : a = order[k] /\ b = order[l] /\ a \in ahead[b]
    BY <1>10, <1>11, <1>13
  <2>2. PICK i \in DOMAIN req, j \in DOMAIN req : i = log[a].req /\ j = log[b].req
    BY <1>2
  <2>3. Ts(a) = req[i].ts /\ Ts(b) = req[j].ts /\ OfOneContext(i, j)
    BY <1>2, <2>2 DEF OfOneContext
  <2>4. i \in Nat /\ j \in Nat
    BY DEF AttributionInv, AttributionTypes
  <2>5. CASE Ts(a) < Ts(b)
    <3>1. i # j /\ ~(j < i)
      BY <1>2, <2>3, <2>5 DEF PagesInv, InTurn
    <3> QED  BY <2>1, <2>2, <2>4, <3>1
  <2>6. CASE a < b
    BY <1>2, <2>1, <2>2, <2>3, <2>6 DEF PagesInv, LogInTurn
  <2> QED  BY <1>6, <2>1, <2>5, <2>6
<1> QED  BY <1>10, <1>11, <1>12, <1>13 DEF N, order

\* There is an event of the request.
IsRead(i) == \E m \in Requests : log[m].req = i

\* The page starts with its first hop, where that and all since was read without delay.
LEMMA PagesLed ==
  ASSUME AttributionInv, PagesInv, NEW u \in NavigationUnits, NEW page, page = log[u].req,
         \A i \in 1 .. page : OfOneContext(i, page) /\ req[i].ts >= req[page].start - MaxGap => IsRead(i),
         \A i \in 1 .. page - 1 : OfOneContext(i, page) /\ req[i].start = req[page].start =>
           \E j \in i + 1 .. page : /\ OfOneContext(j, page) /\ req[j].start = req[page].start
                                    /\ req[j].ts - req[i].ts <= MaxGap
  PROVE  ChainStarts[u] = req[page].start
<1>1. u \in Navigations /\ ~IsRedirect(Status(u))
  BY DEF NavigationUnits
<1>2. /\ page \in DOMAIN req /\ Made(u) = req[page] /\ Ts(u) = req[page].ts /\ req[page].kind.main
  BY <1>1, NavigationFacts
<1>3. DOMAIN req = 1 .. Len(req) /\ Len(req) \in Nat
  BY DEF AttributionInv, AttributionTypes
<1>4. PICK r \in DOMAIN req : Led(r, page)
  BY <1>2 DEF PagesInv, HopsLead
<1>5. PICK S : S = req[page].start
  OBVIOUS
<1>6. /\ r <= page /\ OfOneContext(r, page) /\ req[r].ts = S /\ S \in Nat /\ S = req[page].start
      /\ \A j \in r .. page - 1 : OfOneContext(j, page) => IsRedirect(req[j].status) /\ req[j].start = S
      /\ \A j \in 1 .. r - 1 :
           OfOneContext(j, page) /\ IsRedirect(req[j].status) => \E k \in j + 1 .. r - 1 : OfOneContext(k, page)
  <2>1. req[r].ts \in Nat
    BY RequestFields DEF AttributionInv
  <2> QED  BY <1>4, <1>5, <2>1 DEF Led
<1>7. PICK c : c = req[page].kind.context
  OBVIOUS
<1>8. PICK N : N = NavigationsOf(c)
  OBVIOUS
<1>9. PICK order : order = InOrder(N)
  OBVIOUS
<1>10. PICK n : n = Len(order)
  OBVIOUS
<1>11. /\ order \in Seq(Navigations) /\ n \in Nat
       /\ \A k \in 1 .. n : order[k] \in N
       /\ \A m \in N : \E k \in 1 .. n : order[k] = m
       /\ \A k, l \in 1 .. n : k < l => log[order[k]].req < log[order[l]].req
  BY <1>8, <1>9, <1>10, OrderFacts
<1> DEFINE R(k) == log[order[k]].req
<1>12. \A k \in 1 .. n : /\ R(k) \in DOMAIN req /\ R(k) \in Nat /\ OfOneContext(R(k), page)
                         /\ Ts(order[k]) = req[R(k)].ts /\ Status(order[k]) = req[R(k)].status
  <2> TAKE k \in 1 .. n
  <2>1. order[k] \in Navigations /\ Event(order[k]).context = c
    BY <1>8, <1>11 DEF NavigationsOf
  <2>2. R(k) \in DOMAIN req /\ Made(order[k]) = req[R(k)] /\ Ts(order[k]) = req[R(k)].ts /\ req[R(k)].kind.main
    BY <2>1, NavigationFacts
  <2> QED  BY <1>2, <1>3, <1>7, <2>1, <2>2 DEF OfOneContext, Event, Status
<1>13. \A i \in 1 .. page : OfOneContext(i, page) /\ req[i].ts >= S - MaxGap => \E k \in 1 .. n : R(k) = i
  <2> SUFFICES ASSUME NEW i \in 1 .. page, OfOneContext(i, page), req[i].ts >= S - MaxGap
               PROVE  \E k \in 1 .. n : R(k) = i
    OBVIOUS
  <2>1. PICK m \in Requests : log[m].req = i
    BY <1>6 DEF IsRead
  <2>2. Event(m) = req[i].kind
    BY <2>1 DEF Event, Made
  <2>3. m \in N
    BY <1>7, <1>8, <2>2 DEF NavigationsOf, Navigations, OfOneContext
  <2> QED  BY <1>11, <2>1, <2>3
<1>14. \A k, l \in 1 .. n : k < l => R(k) < R(l)
  BY <1>11
<1>15. PICK p \in 1 .. n : order[p] = u
  <2>1. u \in N
    BY <1>1, <1>2, <1>7, <1>8 DEF NavigationsOf, Event
  <2> QED  BY <1>11, <2>1
<1> HIDE DEF R
<1>16. R(p) = page
  BY <1>15 DEF R
<1>17. \A k \in 1 .. n : order[k] = order[p] => k = p
  <2> SUFFICES ASSUME NEW k \in 1 .. n, order[k] = order[p], k # p PROVE FALSE
    OBVIOUS
  <2>1. R(k) = R(p)
    BY DEF R
  <2>2. k < p \/ p < k
    BY <1>11
  <2> QED  BY <1>12, <1>14, <2>1, <2>2
<1>18. MaxGap \in Nat /\ page \in Nat /\ r \in Nat /\ p \in Nat /\ r \in 1 .. page
  BY <1>2, <1>3, <1>6, <1>11, SizesAreNat
<1>19. PICK q \in 1 .. n : R(q) = r
  <2>1. req[r].ts >= S - MaxGap
    BY <1>6, <1>18
  <2> QED  BY <1>6, <1>13, <1>18, <2>1
<1>20. q \in 1 .. p /\ q \in Nat
  <2>1. ~(p < q)
    BY <1>6, <1>14, <1>16, <1>18, <1>19
  <2> QED  BY <1>11, <2>1
<1>21. ASSUME NEW i \in DOMAIN req, i >= r PROVE req[i].ts >= S
  <2>1. i \in Nat /\ req[i].ts \in Nat
    BY <1>3, RequestFields DEF AttributionInv
  <2>2. CASE i = r
    BY <1>6, <2>2
  <2>3. CASE i # r
    <3>1. r < i
      BY <1>18, <1>21, <2>1, <2>3
    <3>2. req[r].ts <= req[i].ts
      BY <3>1 DEF PagesInv, InTurn
    <3> QED  BY <1>6, <2>1, <3>2
  <2> QED  BY <2>2, <2>3
<1>22. ASSUME NEW k \in q .. p - 1
       PROVE  IsRedirect(Status(order[k])) /\ Ts(order[k + 1]) - Ts(order[k]) <= MaxGap
  <2>1. k \in 1 .. n /\ k + 1 \in 1 .. n /\ k < p /\ q <= k /\ k \in Nat /\ k + 1 <= p
    <3>1. p \in 1 .. n /\ q \in 1 .. p /\ n \in Nat
      BY <1>11, <1>15, <1>20
    <3> QED  BY ONLY <3>1, k \in q .. p - 1
  <2>2. PICK i \in DOMAIN req : i = R(k)
    BY <1>12, <2>1
  <2>3. i \in Nat /\ i < page /\ r <= i /\ OfOneContext(i, page)
    <3>1. i < page
      BY <1>14, <1>16, <2>1, <2>2
    <3>2. r <= i
      <4>1. CASE q = k
        BY <1>18, <1>19, <2>2, <4>1
      <4>2. CASE q # k
        <5>1. q < k
          BY <1>20, <2>1, <4>2
        <5> QED  BY <1>14, <1>18, <1>19, <1>12, <2>1, <2>2, <5>1
      <4> QED  BY <4>1, <4>2
    <3> QED  BY <1>3, <1>12, <2>1, <2>2, <3>1, <3>2
  <2>4. i \in r .. page - 1 /\ i \in 1 .. page - 1
    BY <1>18, <2>3
  <2>5. IsRedirect(req[i].status) /\ req[i].start = S
    BY <1>6, <2>3, <2>4
  <2>6. PICK j \in i + 1 .. page : OfOneContext(j, page) /\ req[j].ts - req[i].ts <= MaxGap
    BY <1>6, <2>3, <2>4, <2>5
  <2>7. j \in 1 .. page /\ j \in DOMAIN req /\ j > i /\ j >= r /\ j \in Nat
    BY <1>2, <1>3, <1>18, <2>3
  <2>8. req[j].ts >= S - MaxGap
    <3>1. req[j].ts >= S /\ req[j].ts \in Nat
      BY <1>21, <2>7, RequestFields DEF AttributionInv
    <3> QED  BY <1>6, <1>18, <3>1
  <2>9. PICK l \in 1 .. n : R(l) = j
    BY <1>13, <2>6, <2>7, <2>8
  <2>10. k < l
    <3>1. ~(l < k) /\ l # k
      BY <1>14, <2>1, <2>2, <2>3, <2>7, <2>9
    <3> QED  BY <2>1, <3>1
  <2>11. R(k + 1) <= j
    <3>1. CASE l = k + 1
      BY <2>7, <2>9, <3>1
    <3>2. CASE l # k + 1
      <4>1. k + 1 < l
        BY <2>1, <2>10, <3>2
      <4> QED  BY <1>12, <1>14, <2>1, <2>7, <2>9, <4>1
    <3> QED  BY <3>1, <3>2
  <2>12. PICK x \in DOMAIN req : x = R(k + 1)
    BY <1>12, <2>1
  <2>13. req[x].ts <= req[j].ts
    <3>1. x \in Nat /\ x <= j /\ req[j].ts \in Nat
      BY <1>3, <2>7, <2>11, <2>12, RequestFields DEF AttributionInv
    <3>2. CASE x = j
      BY <3>1, <3>2
    <3>3. CASE x # j
      <4>1. x < j
        BY <2>7, <3>1, <3>3
      <4> QED  BY <2>7, <4>1 DEF PagesInv, InTurn
    <3> QED  BY <3>2, <3>3
  <2>14. req[x].ts \in Nat /\ req[i].ts \in Nat /\ req[j].ts \in Nat
    BY <2>7, RequestFields DEF AttributionInv
  <2>15. req[x].ts - req[i].ts <= MaxGap
    BY <1>18, <2>6, <2>13, <2>14
  <2> QED  BY <1>12, <2>1, <2>2, <2>5, <2>12, <2>15
<1>23. ASSUME q > 1
       PROVE  ~IsRedirect(Status(order[q - 1])) \/ Ts(order[q]) - Ts(order[q - 1]) > MaxGap
  <2>1. q - 1 \in 1 .. n /\ q - 1 < q
    BY <1>11, <1>20, <1>23
  <2>2. PICK j \in DOMAIN req : j = R(q - 1)
    BY <1>12, <2>1
  <2>3. j \in Nat /\ j < r /\ OfOneContext(j, page) /\ Ts(order[q - 1]) = req[j].ts /\ Status(order[q - 1]) = req[j].status
    BY <1>3, <1>12, <1>14, <1>19, <2>1, <2>2
  <2>4. Ts(order[q]) = S /\ req[j].ts \in Nat
    BY <1>6, <1>12, <1>19, RequestFields DEF AttributionInv
  <2>5. SUFFICES ASSUME IsRedirect(req[j].status), ~(S - req[j].ts > MaxGap) PROVE FALSE
    BY <2>3, <2>4
  <2>6. j \in 1 .. r - 1
    BY <1>3, <1>18, <2>3
  <2>7. PICK k \in j + 1 .. r - 1 : OfOneContext(k, page)
    BY <1>6, <2>3, <2>5, <2>6
  <2>8. k \in 1 .. page /\ k \in DOMAIN req /\ j < k /\ k < r /\ k \in Nat
    BY <1>2, <1>3, <1>18, <2>3, <2>7
  <2>9. req[k].ts >= S - MaxGap
    <3>1. req[j].ts <= req[k].ts /\ req[k].ts \in Nat
      BY <2>8, RequestFields DEF PagesInv, InTurn, AttributionInv
    <3> QED  BY <1>6, <1>18, <2>4, <2>5, <3>1
  <2>10. PICK l \in 1 .. n : R(l) = k
    BY <1>13, <2>7, <2>8, <2>9
  <2>a. l \in Nat
    BY <1>11, <2>10
  <2>b. R(q - 1) < R(l) /\ R(l) < R(q) /\ R(q - 1) \in Nat /\ R(l) \in Nat /\ R(q) \in Nat
    BY <1>18, <1>19, <2>2, <2>3, <2>8, <2>10
  <2>c. ~(l < q - 1) /\ ~(q < l)
    BY <1>14, <2>1, <2>b
  <2>11. l \in Nat /\ ~(l < q - 1) /\ l # q - 1 /\ ~(q < l) /\ l # q
    BY <2>a, <2>b, <2>c
  <2> QED  BY <1>20, <2>11
<1>24. IsChain(order, q, p)
  BY <1>1, <1>15, <1>20, <1>22, <1>23 DEF IsChain
<1>25. PICK f : IsWalk(f, order) /\ Chained(order) = f[Len(order)]
  BY <1>11, ChainedIs
<1>26. f[Len(order)].starts[order[p]] = Ts(order[q])
  BY <1>10, <1>11, <1>17, <1>24, <1>25, WalkFindsFirst
<1>27. ChainStarts[u] = Chained(order).starts[u]
  BY <1>1, <1>2, <1>7, <1>8, <1>9 DEF ChainStarts, Event
<1>28. Ts(order[q]) = S
  BY <1>6, <1>12, <1>19
<1> QED  BY <1>5, <1>15, <1>25, <1>26, <1>27, <1>28

LEMMA PagesStartRight ==
  ASSUME AttributionInv, PagesInv
  PROVE  PagesStartWithTheirHops
<1> SUFFICES ASSUME NEW u \in NavigationUnits
             PROVE  LET page == log[u].req
                        before == {i \in 1 .. page : req[i].kind.main /\ req[i].kind.context = Event(u).context}
                        chain == {i \in before : req[i].start = Made(u).start}
                        recent == {i \in before : req[i].ts >= Made(u).start - MaxGap}
                        read == {log[m].req : m \in Requests}
                    IN  /\ recent \subseteq read
                        /\ \A i \in chain \ {page} : \E j \in chain : j > i /\ req[j].ts - req[i].ts <= MaxGap
                        => ChainStarts[u] = Made(u).start
  BY DEF PagesStartWithTheirHops
<1> DEFINE page == log[u].req
           before == {i \in 1 .. page : req[i].kind.main /\ req[i].kind.context = Event(u).context}
           chain == {i \in before : req[i].start = Made(u).start}
           recent == {i \in before : req[i].ts >= Made(u).start - MaxGap}
           read == {log[m].req : m \in Requests}
<1> SUFFICES ASSUME recent \subseteq read,
                    \A i \in chain \ {page} : \E j \in chain : j > i /\ req[j].ts - req[i].ts <= MaxGap
             PROVE  ChainStarts[u] = Made(u).start
  OBVIOUS
<1>1. u \in Navigations
  BY DEF NavigationUnits
<1>2. page \in DOMAIN req /\ page \in Nat /\ Made(u) = req[page] /\ Event(u) = req[page].kind /\ req[page].kind.main
  <2>1. page \in DOMAIN req /\ Made(u) = req[page] /\ req[page].kind.main
    BY <1>1, NavigationFacts
  <2> QED  BY <2>1 DEF Event, AttributionInv, AttributionTypes
<1>3. \A i \in 1 .. page : i \in before <=> OfOneContext(i, page)
  BY <1>2 DEF OfOneContext
<1>4. ASSUME NEW i \in 1 .. page, OfOneContext(i, page), req[i].ts >= req[page].start - MaxGap PROVE IsRead(i)
  <2>1. i \in recent
    BY <1>2, <1>3, <1>4
  <2> QED  BY <2>1 DEF IsRead
<1>5. ASSUME NEW i \in 1 .. page - 1, OfOneContext(i, page), req[i].start = req[page].start
      PROVE  \E j \in i + 1 .. page : /\ OfOneContext(j, page) /\ req[j].start = req[page].start
                                      /\ req[j].ts - req[i].ts <= MaxGap
  <2>1. i \in 1 .. page /\ i # page
    BY <1>2
  <2>2. i \in chain \ {page}
    BY <1>2, <1>3, <1>5, <2>1
  <2>3. PICK j \in chain : j > i /\ req[j].ts - req[i].ts <= MaxGap
    BY <2>2
  <2>4. j \in 1 .. page /\ j \in before /\ req[j].start = req[page].start
    BY <1>2, <2>3
  <2>5. j \in i + 1 .. page
    BY <1>2, <2>3, <2>4
  <2> QED  BY <1>3, <2>3, <2>4, <2>5
<1>6. ChainStarts[u] = req[page].start
  BY <1>4, <1>5, PagesLed
<1> QED  BY <1>2, <1>6

-----------------------------------------------------------------------------
(* Attribution: the timeline's slots.                                       *)

\* The slots that end by a stamp.
Ending(s) == {slot \in Slots : slot * Resolution + Resolution <= s}

\* A time's slot ends behind it.
LEMMA SlotsAre ==
  ASSUME AttributionTypes
  PROVE  /\ IsFiniteSet(Slots) /\ \A slot \in Slots : slot \in Nat
         /\ \A t \in Times : t \div Resolution \in Slots /\ t < (t \div Resolution) * Resolution + Resolution
<1>1. ASSUME NEW t \in Times
      PROVE  /\ t \div Resolution \in Slots /\ t \div Resolution \in Nat
             /\ t < (t \div Resolution) * Resolution + Resolution
  <2>1. t \in Nat /\ Resolution \in Nat \ {0}
    BY SizesAreNat DEF Times
  <2>2. PICK q, r : q = t \div Resolution /\ r = t % Resolution
    OBVIOUS
  <2>3. q \in Nat /\ r \in 0 .. Resolution - 1 /\ t = Resolution * q + r
    BY <2>1, <2>2, DivMod
  <2>4. Resolution * q = q * Resolution /\ q * Resolution \in Nat
    BY <2>1, <2>3, Z3
  <2>5. t < q * Resolution + Resolution
    BY <2>1, <2>3, <2>4
  <2>6. q \in Slots
    BY <2>2 DEF Slots
  <2> QED  BY <2>2, <2>3, <2>5, <2>6
<1>2. IsFiniteSet(Slots)
  <2> DEFINE f == [t \in Times |-> t \div Resolution]
  <2>1. \A y \in Slots : \E t \in Times : f[t] = y
    BY DEF Slots
  <2>2. IsFiniteSet(Times)
    BY TermsAreNat
  <2> HIDE DEF f
  <2> QED  BY <2>1, <2>2, ImageIsFinite
<1>3. \A slot \in Slots : slot \in Nat
  BY <1>1 DEF Slots
<1> QED  BY <1>1, <1>2, <1>3

\* Some slots together have the bytes of their times.
LEMMA SlotsTogether ==
  ASSUME AttributionTypes, NEW E, E \subseteq Slots
  PROVE  SumFunctionOnSet(SlotBytes, E) = SumFunctionOnSet(wire, {t \in Times : t \div Resolution \in E})
<1> DEFINE T == {t \in Times : t \div Resolution \in E}
           key == [t \in Times |-> t \div Resolution]
<1>1. IsFiniteSet(T) /\ IsFiniteSet(E) /\ \A t \in T : t \in Times
  BY SlotsAre, TermsAreNat, FS_Subset
<1>2. \A t \in T : wire[t] \in Nat /\ key[t] \in E
  BY DEF AttributionTypes
<1>3. \A slot \in E : SlotBytes[slot] = SumFunctionOnSet(wire, {t \in T : key[t] = slot})
  <2> TAKE slot \in E
  <2>1. {t \in T : key[t] = slot} = {t \in Times : t \div Resolution = slot}
    OBVIOUS
  <2> QED  BY <2>1 DEF SlotBytes
<1> HIDE DEF T, key
<1>4. ArePartsOf(SlotBytes, wire, key, T, E)
  BY <1>3 DEF ArePartsOf
<1>5. SumFunctionOnSet(SlotBytes, E) = SumFunctionOnSet(wire, T)
  BY <1>1, <1>2, <1>4, SumOfParts
<1> QED  BY <1>5 DEF T

\* What has ended by a stamp moved before it, and by a later stamp not less has ended.
LEMMA EndedBytes ==
  ASSUME AttributionTypes, NEW s \in Nat
  PROVE  /\ BytesEndingBy(s) \in Nat /\ AllBytes \in Nat /\ BytesEndingBy(s) <= AllBytes
         /\ BytesEndingBy(s) <= SumFunctionOnSet(wire, {t \in Times : t < s})
         /\ \A r \in Nat : s <= r => BytesEndingBy(s) <= BytesEndingBy(r)
         /\ AllBytes = SumFunctionOnSet(wire, Times)
<1> DEFINE Of(S) == SumFunctionOnSet(wire, S)
           In(E) == {t \in Times : t \div Resolution \in E}
<1>1. IsFiniteSet(Times) /\ \A t \in Times : wire[t] \in Nat /\ t \in Nat
  BY TermsAreNat, SizesAreNat DEF AttributionTypes, Times
<1>2. Resolution \in Nat \ {0}
  BY SizesAreNat
<1>3. \A r : Ending(r) \subseteq Slots /\ BytesEndingBy(r) = Of(In(Ending(r)))
  BY SlotsTogether DEF BytesEndingBy, Ending
<1>4. AllBytes = Of(Times)
  <2>1. In(Slots) = Times
    BY SlotsAre
  <2>2. AllBytes = Of(In(Slots))
    BY SlotsTogether DEF AllBytes
  <2> QED  BY <2>1, <2>2
<1>5. \A A, B \in SUBSET Times : A \subseteq B => Of(A) <= Of(B) /\ Of(A) \in Nat /\ Of(B) \in Nat
  <2> SUFFICES ASSUME NEW A \in SUBSET Times, NEW B \in SUBSET Times, A \subseteq B
               PROVE  Of(A) <= Of(B) /\ Of(A) \in Nat /\ Of(B) \in Nat
    OBVIOUS
  <2>1. IsFiniteSet(A) /\ IsFiniteSet(B) /\ \A t \in B : wire[t] \in Nat
    BY <1>1, FS_Subset
  <2> QED  BY <2>1, SumOfPart, SumFacts
<1>6. \A E : In(E) \subseteq Times
  OBVIOUS
<1>7. In(Ending(s)) \subseteq {t \in Times : t < s}
  <2> SUFFICES ASSUME NEW t \in Times, t \div Resolution \in Ending(s) PROVE t < s
    OBVIOUS
  <2>1. PICK q : q = t \div Resolution
    OBVIOUS
  <2>2. q \in Nat /\ t < q * Resolution + Resolution /\ q * Resolution + Resolution <= s
    BY <2>1, SlotsAre DEF Ending
  <2>3. q * Resolution \in Nat
    BY <1>2, <2>2, Z3
  <2> QED  BY <1>1, <1>2, <2>2, <2>3
<1>8. \A r \in Nat : s <= r => In(Ending(s)) \subseteq In(Ending(r))
  <2> SUFFICES ASSUME NEW r \in Nat, s <= r PROVE Ending(s) \subseteq Ending(r)
    OBVIOUS
  <2>1. \A slot \in Slots : slot * Resolution \in Nat
    <3> TAKE slot \in Slots
    <3>1. slot \in Nat
      BY SlotsAre
    <3> QED  BY <1>2, <3>1, Z3
  <2>2. \A slot \in Slots : slot * Resolution + Resolution <= s => slot * Resolution + Resolution <= r
    <3> TAKE slot \in Slots
    <3>1. PICK x \in Nat : x = slot * Resolution
      BY <2>1
    <3> QED  BY <1>2, <3>1
  <2> QED  BY <2>2 DEF Ending
<1> HIDE DEF Of, In
<1>9. Of(In(Ending(s))) \in Nat /\ Of(Times) \in Nat /\ Of(In(Ending(s))) <= Of(Times)
  BY <1>5, <1>6
<1>10. Of(In(Ending(s))) <= Of({t \in Times : t < s})
  BY <1>5, <1>7
<1>11. \A r \in Nat : s <= r => Of(In(Ending(s))) <= Of(In(Ending(r)))
  BY <1>5, <1>6, <1>8
<1> QED  BY <1>3, <1>4, <1>9, <1>10, <1>11 DEF Of

\* The stamps of some units, in order.
LEMMA StampsInOrder ==
  ASSUME IsFiniteSet(Units), \A n \in Units : n \in Nat /\ UnitStart[n] \in Nat, Units # {}
  PROVE  /\ DOMAIN Stamps = 1 .. Len(Stamps) /\ Len(Stamps) \in Nat \ {0}
         /\ \A k \in DOMAIN Stamps : Stamps[k] \in Nat
         /\ \A k, l \in DOMAIN Stamps : k < l => Stamps[k] <= Stamps[l]
<1> DEFINE D == Timed
           v == [a \in D |-> a[1]]
           w == [a \in D |-> a[2]]
           ahead == [a \in D |-> {b \in D : b[1] < a[1] \/ (b[1] = a[1] /\ b[2] < a[2])}]
<1>1. \A a \in D : \E n \in Units : a = <<UnitStart[n], n>>
  BY DEF Timed
<1>2. \A a \in D : a[1] \in Nat /\ a[2] \in Nat /\ a[2] \in Units /\ a = <<UnitStart[a[2]], a[2]>>
  BY <1>1
<1>3. IsFiniteSet(D)
  <2> DEFINE f == [n \in Units |-> <<UnitStart[n], n>>]
  <2>1. \A a \in D : \E n \in Units : f[n] = a
    BY <1>1
  <2> HIDE DEF f, D
  <2> QED  BY <2>1, ImageIsFinite
<1>4. D # {}
  BY DEF Timed
<1> HIDE DEF D
<1>5. /\ \A a \in D : v[a] \in Int /\ w[a] \in Int
      /\ \A a, b \in D : w[a] = w[b] => a = b
  BY <1>2
<1>6. ahead = AheadBy(v, w, D)
  BY DEF AheadBy
<1>7. \A a, b \in D : a \in ahead[b] => a[1] <= b[1]
  BY <1>2
<1>a. DOMAIN ahead = D
  OBVIOUS
<1> HIDE DEF v, w
<1>8. IsLine(AheadBy(v, w, D), D)
  BY <1>5, StampsAreLine
<1> DEFINE sorted == InLine(ahead)
<1>b. Stamps = [k \in DOMAIN sorted |-> sorted[k][1]]
  BY DEF Stamps, D
<1> HIDE DEF ahead
<1>9. IsSortedBy(sorted, ahead, D)
  BY <1>3, <1>6, <1>8, <1>a, InLineIs
<1>10. Cardinality(D) \in Nat /\ Cardinality(D) # 0
  BY <1>3, <1>4, FS_CardinalityType, FS_EmptySet
<1> HIDE DEF sorted
<1>11. /\ DOMAIN sorted = 1 .. Cardinality(D) /\ \A k \in DOMAIN sorted : sorted[k] \in D
       /\ \A k, l \in DOMAIN sorted : k < l => sorted[k] \in ahead[sorted[l]]
  BY <1>9 DEF IsSortedBy
<1>12. DOMAIN Stamps = 1 .. Cardinality(D) /\ \A k \in DOMAIN Stamps : Stamps[k] = sorted[k][1]
  BY <1>11, <1>b
<1>13. Len(Stamps) = Cardinality(D)
  <2>1. Stamps \in Seq({Stamps[k] : k \in DOMAIN Stamps})
    <3>1. PICK S : S = {Stamps[k] : k \in DOMAIN Stamps}
      OBVIOUS
    <3>2. \A k \in 1 .. Cardinality(D) : Stamps[k] \in S
      BY <1>12, <3>1
    <3>3. Stamps = [k \in 1 .. Cardinality(D) |-> Stamps[k]]
      BY <1>12, <1>b
    <3>4. Stamps \in [1 .. Cardinality(D) -> S]
      BY <3>2, <3>3
    <3>5. Stamps \in Seq(S)
      BY <1>10, <3>4
    <3> QED  BY <3>1, <3>5
  <2> QED  BY <1>10, <1>12, <2>1
<1>14. \A k \in DOMAIN Stamps : Stamps[k] \in Nat
  BY <1>2, <1>11, <1>12
<1>15. \A k, l \in DOMAIN Stamps : k < l => Stamps[k] <= Stamps[l]
  BY <1>7, <1>11, <1>12
<1> QED  BY <1>10, <1>12, <1>13, <1>14, <1>15

\* The parts of the timeline, once the units' times are numbers.
LEMMA PartsRespectTime ==
  ASSUME AttributionInv, IsFiniteSet(Units), \A n \in Units : n \in Nat /\ UnitStart[n] \in Nat
  PROVE  SplitRespectsTime
<1> USE DEF AttributionInv
<1> DEFINE until(stamp) == SumFunctionOnSet(wire, {t \in Times : t < stamp})
<1> SUFFICES ASSUME Units # {}
             PROVE  /\ PerUnit.before <= until(Stamps[1])
                    /\ ~PerUnit.withheld =>
                         /\ PerUnit.first >= 0 /\ PerUnit.rest >= 0
                         /\ PerUnit.before + PerUnit.first + PerUnit.rest = SumFunctionOnSet(WithConnect, Target)
                         /\ Len(Stamps) > 1 => PerUnit.before + PerUnit.first <= until(Stamps[2])
  BY DEF SplitRespectsTime
<1>1. PICK n : n = Len(Stamps)
  OBVIOUS
<1>2. n \in Nat \ {0} /\ DOMAIN Stamps = 1 .. n /\ Stamps[1] \in Nat
      /\ (n > 1 => Stamps[2] \in Nat /\ Stamps[1] <= Stamps[2])
  <2>1. 1 \in 1 .. n /\ (n > 1 => 2 \in 1 .. n) /\ n \in Nat \ {0}
    BY <1>1, StampsInOrder
  <2> QED  BY <1>1, <2>1, StampsInOrder
<1>3. PICK a, b : a = BytesEndingBy(Stamps[1]) /\ b = BytesEndingBy(Stamps[2])
  OBVIOUS
<1>4. PICK all : all = AllBytes
  OBVIOUS
<1>5. a \in Nat /\ all \in Nat /\ a <= all /\ a <= until(Stamps[1])
  BY <1>2, <1>3, <1>4, EndedBytes
<1>6. n > 1 => b \in Nat /\ b <= all /\ b <= until(Stamps[2]) /\ a <= b
  BY <1>2, <1>3, <1>4, EndedBytes
<1>7. all = SumFunctionOnSet(WithConnect, Target)
  BY <1>2, <1>4, EndedBytes DEF TimelineIsWhole
<1>8. /\ PerUnit.before = a /\ PerUnit.first = (IF n > 1 THEN b ELSE all) - a
      /\ PerUnit.rest = IF n > 1 THEN all - b ELSE 0
  BY <1>1, <1>3, <1>4 DEF PerUnit
<1> HIDE DEF until
<1>9. CASE n > 1
  BY <1>1, <1>5, <1>6, <1>7, <1>8, <1>9
<1>10. CASE ~(n > 1)
  BY <1>1, <1>5, <1>7, <1>8, <1>10
<1> QED  BY <1>9, <1>10

\* When units start is a number.
LEMMA StartsAreNat ==
  ASSUME AttributionInv, PagesInv
  PROVE  /\ IsFiniteSet(Units) /\ \A n \in Units : n \in Nat /\ UnitStart[n] \in Nat
<1>1. \A n \in Requests : n \in Nat /\ Ts(n) \in Nat
  <2> TAKE n \in Requests
  <2>1. log[n].req \in DOMAIN req /\ Ts(n) = req[log[n].req].ts
    BY EventFacts
  <2> QED  BY <2>1, EventSets, RequestFields DEF AttributionInv
<1>2. ASSUME NEW n \in Navigations PROVE ChainStarts[n] \in Nat
  <2>1. PICK order : order = InOrder(NavigationsOf(Event(n).context))
    OBVIOUS
  <2>2. order \in Seq(Navigations)
    BY <2>1, OrderFacts
  <2>3. PICK f : IsWalk(f, order) /\ Chained(order) = f[Len(order)]
    BY <2>2, ChainedIs
  <2>4. f[Len(order)] \in Chains
    <3>1. Len(order) \in 0 .. Len(order)
      BY <2>2
    <3> QED  BY <2>3, <3>1 DEF IsWalk
  <2>5. ChainStarts[n] = Chained(order).starts[n]
    BY <2>1 DEF ChainStarts
  <2> QED  BY <2>3, <2>4, <2>5 DEF Chains
<1>3. Units \subseteq Requests
  BY DEF Units, NavigationUnits, Navigations, HookUnits
<1>4. IsFiniteSet(Units)
  BY <1>3, EventSets, FS_Subset
<1>5. ASSUME NEW n \in Units PROVE UnitStart[n] \in Nat
  <2>1. CASE NavigationUnits # {}
    <3>1. n \in Navigations /\ UnitStart = ChainStarts
      BY <2>1 DEF Units, UnitStart, NavigationUnits
    <3> QED  BY <1>2, <3>1
  <2>2. CASE NavigationUnits = {}
    <3>1. n \in HookUnits /\ UnitStart = [m \in HookUnits |-> Ts(m)]
      BY <2>2 DEF Units, UnitStart
    <3> QED  BY <1>1, <1>3, <3>1
  <2> QED  BY <2>1, <2>2
<1> QED  BY <1>1, <1>3, <1>4, <1>5

\* For any job, file and reading: a page's time is that of the first hop that led to it, and
\* the parts before, of and behind the first unit are the whole timeline and never early.
THEOREM PagesAreTimely == Spec => []PagesAreTimed
<1>1. AttributionInv /\ PagesInv => PagesAreTimed
  BY PagesStartRight, StartsAreNat, PartsRespectTime DEF PagesAreTimed
<1> QED  BY <1>1, PagesHold, PTL

-----------------------------------------------------------------------------
(* Command.                                                                 *)

Tellings == [bytes : Nat, tripped : BOOLEAN, incomplete : BOOLEAN]
Papers   == {<<>>} \cup {<<t>> : t \in Tellings}
Disks ==
  [events : {"none", "there", "gone"}, token : {"none", "theirs", "empty", "url", "gone"},
   json : Papers, html : Papers]
Gauges   == [is : {"none", "up", "stopped"}, bytes : Nat, tripped : BOOLEAN, crashed : BOOLEAN]
Found    == {"found", "partial", "not found", "blocked", "load error", "crash"}
Minds ==
  [keep : BOOLEAN, stop : BOOLEAN, outcome : {"none", "job"} \cup Found, wrong : BOOLEAN]
Tunnels  ==
  [own : BOOLEAN, status : Refusals \cup Upstreams \cup {"open", "ok", "reset", "closed"}, was : BOOLEAN]
Stages   == {"start", "made", "up", "waits", "after", "reports", "chooses", "end", "gone"}

CommandTypes ==
  /\ cmd \in Commands /\ at \in Stages /\ disk \in Disks /\ gauge \in Gauges /\ shot \in Tellings
  /\ mind \in Minds /\ records \in Seq(Tunnels)

\* The meter is up from its start to its stop, and nothing is counted when it is not.
MeterIsUp ==
  /\ at \in {"start", "made"} => gauge.is = "none"
  /\ at \in {"up", "waits", "after"} => gauge.is = "up"
  /\ at \in {"reports", "chooses"} => gauge.is = "stopped"

\* Somebody else's token file stays, and events are kept of a job that ran only.
FilesAreOurs ==
  /\ cmd.there <=> disk.token = "theirs"
  /\ at # "end" => disk.token # "gone"
  /\ mind.keep => cmd.keep /\ mind.outcome = "job"

\* What the command makes of its end so far.
Undecided ==
  /\ at # "end" => exit = "none"
  /\ at \in {"start", "made", "up", "waits"} => mind.outcome = "none"
  /\ at \in {"after", "reports", "chooses"} =>
       /\ cmd.name = "run" => mind.outcome = "job"
       /\ cmd.name = "find" => mind.outcome \in Found
       /\ cmd.name = "serve" => mind.outcome = "none"
  /\ mind.outcome = "crash" => mind.wrong
  /\ at \notin {"end", "gone"} /\ mind.wrong => mind.outcome = "crash"
  /\ advice # "none" => mind.outcome \notin {"not found", "blocked"}

\* The snapshot is of all bytes counted, and the report is the snapshot's.
ShotIsLast ==
  /\ shot.incomplete => cmd.name = "run"
  /\ at \in {"reports", "chooses"} => shot.bytes = gauge.bytes /\ shot.tripped = gauge.tripped
  /\ at = "chooses" => disk.json = <<shot>> /\ (cmd.html => disk.html = <<shot>>)

\* A tunnel that was established has not failed before that.
WasReached == \A i \in DOMAIN records : records[i].was => records[i].status \in {"open", "ok", "reset"}

HtmlHasJson == disk.html # <<>> => disk.json # <<>>

CommandInv ==
  /\ CommandTypes /\ MeterIsUp /\ FilesAreOurs /\ Undecided /\ ShotIsLast /\ WasReached /\ HtmlHasJson
  /\ CommandEndsTruly

-----------------------------------------------------------------------------
\* At the start there is nothing yet.
LEMMA CommandStarts == InitCommand => CommandInv
<1> SUFFICES ASSUME InitCommand PROVE CommandInv
  OBVIOUS
<1>1. IsCommand(cmd)
  BY CommandAssumption DEF InitCommand
<1>2. CommandTypes
  BY <1>1 DEF InitCommand, CommandTypes, Stages, Disks, Papers, Gauges, Tellings, Telling, Minds, Found, Tunnels, IsCommand
<1>3. MeterIsUp /\ FilesAreOurs /\ Undecided /\ ShotIsLast
  BY <1>1 DEF InitCommand, MeterIsUp, FilesAreOurs, Undecided, ShotIsLast, IsCommand, Telling, Found
<1>4. WasReached /\ HtmlHasJson
  BY DEF InitCommand, WasReached, HtmlHasJson
<1>5. NothingIsLeft /\ CodeTellsTheEnd /\ AdviceIsForTheFirst /\ ReportsKeepUp
  BY DEF InitCommand, NothingIsLeft, CodeTellsTheEnd, AdviceIsForTheFirst, ReportsKeepUp, Outcomes
<1> QED  BY <1>2, <1>3, <1>4, <1>5 DEF CommandInv, CommandEndsTruly

\* What is in a report that was written.
LEMMA PaperTells ==
  ASSUME NEW x \in Papers, x # <<>>
  PROVE  x[1] \in Tellings /\ x[1].bytes \in Nat
BY DEF Papers, Tellings

\* The finally clauses: whatever went wrong, the meter is stopped and the files removed.
LEMMA LeavesClean ==
  ASSUME CommandInv, at \notin {"end", "gone"}, NEW code, NEW d \in Disks, Leaves(code, d),
         d.events = disk.events, d.token = disk.token, d.html = disk.html,
         d.json = disk.json \/ (at = "reports" /\ d.json = <<shot>>),
         UNCHANGED <<cmd, shot, records, advice>>,
         mind' \in Minds, mind'.keep = mind.keep, mind'.outcome = mind.outcome, mind.wrong => mind'.wrong
  PROVE  /\ CodeTellsTheEnd' => CommandInv'
         /\ exit' = code
<1> USE DEF CommandInv, CommandEndsTruly
<1>1. IsCommand(cmd)
  BY CommandAssumption DEF CommandTypes
<1>2. /\ at' = "end" /\ exit' = code
      /\ disk' \in Disks /\ disk'.json = d.json /\ disk'.html = disk.html
      /\ disk'.events = IF disk.events = "none" \/ mind.keep THEN disk.events ELSE "gone"
      /\ disk'.token = IF disk.token \in {"empty", "url"} THEN "gone" ELSE disk.token
  BY DEF Leaves, CleanDisk, Disks
<1>3. /\ gauge' \in Gauges /\ gauge'.is # "up" /\ gauge'.bytes = gauge.bytes
      /\ gauge'.tripped = gauge.tripped /\ gauge'.crashed = gauge.crashed
  BY DEF Leaves, CommandTypes, Gauges
<1>4. CommandTypes'
  BY <1>2, <1>3 DEF CommandTypes, Stages
<1>5. MeterIsUp' /\ Undecided' /\ ShotIsLast' /\ WasReached'
  BY <1>2 DEF MeterIsUp, Undecided, ShotIsLast, WasReached
<1>6. FilesAreOurs' /\ NothingIsLeft'
  BY <1>1, <1>2, <1>3 DEF FilesAreOurs, NothingIsLeft, CommandTypes, Disks, IsCommand
<1>7. HtmlHasJson' /\ ReportsKeepUp'
  <2>1. disk.json \in Papers /\ disk.html \in Papers /\ shot.bytes \in Nat /\ gauge.bytes \in Nat
    BY DEF CommandTypes, Disks, Tellings, Gauges
  <2>2. /\ disk.json # <<>> => disk.json[1].bytes \in Nat
        /\ disk.html # <<>> => disk.html[1].bytes \in Nat
    BY <2>1, PaperTells
  <2>3. d.json # <<>> => d.json[1].bytes <= gauge.bytes
    BY <2>1, <2>2 DEF ReportsKeepUp, ShotIsLast
  <2>4. disk.html # <<>> => d.json # <<>> /\ disk.html[1].bytes <= d.json[1].bytes
    BY <2>1, <2>2 DEF ReportsKeepUp, ShotIsLast, HtmlHasJson
  <2> QED  BY <1>2, <1>3, <2>3, <2>4 DEF HtmlHasJson, ReportsKeepUp
<1>8. AdviceIsForTheFirst'
  BY DEF AdviceIsForTheFirst
<1> QED  BY <1>2, <1>4, <1>5, <1>6, <1>7, <1>8

\* What ends a command before its report is none of the documented outcomes.
LEMMA FailsKeeps ==
  ASSUME CommandInv, at \notin {"end", "gone"}, NEW code, code \notin Outcomes \cup {"internal"}, Fails(code)
  PROVE  CommandInv'
<1>1. disk \in Disks /\ mind \in Minds
  BY DEF CommandInv, CommandTypes
<1>2. (CodeTellsTheEnd' => CommandInv') /\ exit' = code
  BY <1>1, LeavesClean DEF Fails
<1>3. CodeTellsTheEnd'
  BY <1>2 DEF CodeTellsTheEnd, Outcomes
<1> QED  BY <1>2, <1>3

\* An error that nobody expected is 88, and is one.
LEMMA FailsInsideKeeps ==
  ASSUME CommandInv, at \notin {"end", "gone"}, NEW d \in Disks, Leaves("internal", d),
         d.events = disk.events, d.token = disk.token, d.html = disk.html,
         d.json = disk.json \/ (at = "reports" /\ d.json = <<shot>>),
         mind' = [mind EXCEPT !.wrong = TRUE], UNCHANGED <<cmd, shot, records, advice>>
  PROVE  CommandInv'
<1>1. /\ mind' \in Minds /\ mind'.keep = mind.keep /\ mind'.outcome = mind.outcome /\ mind'.wrong
  BY DEF CommandInv, CommandTypes, Minds
<1>2. (CodeTellsTheEnd' => CommandInv') /\ exit' = "internal"
  BY <1>1, LeavesClean
<1>3. CodeTellsTheEnd'
  BY <1>1, <1>2 DEF CodeTellsTheEnd, Outcomes
<1> QED  BY <1>2, <1>3

\* The exit code is chosen when all is written.
LEMMA ChoosesKeeps ==
  ASSUME CommandInv, Chooses
  PROVE  CommandInv'
<1> USE DEF CommandInv
<1>1. at = "chooses" /\ Leaves(Code, disk) /\ UNCHANGED <<cmd, shot, mind, records, advice>>
  BY DEF Chooses, Fails
<1>2. disk \in Disks /\ mind \in Minds /\ cmd \in Commands /\ IsCommand(cmd)
  BY CommandAssumption DEF CommandTypes
<1>3. (CodeTellsTheEnd' => CommandInv') /\ exit' = Code
  BY <1>1, <1>2, LeavesClean
<1>4. /\ gauge'.bytes = gauge.bytes /\ gauge'.tripped = gauge.tripped /\ gauge'.crashed = gauge.crashed
      /\ disk'.json = disk.json /\ disk'.html = disk.html
  BY <1>1, <1>2 DEF Leaves, CommandTypes, Gauges, CleanDisk, Disks
<1>5. /\ disk.json = <<shot>> /\ (cmd.html => disk.html = <<shot>>)
      /\ shot.bytes = gauge.bytes /\ shot.tripped = gauge.tripped /\ (shot.incomplete => cmd.name = "run")
  BY <1>1 DEF ShotIsLast
<1>6. /\ mind.wrong <=> mind.outcome = "crash"
      /\ cmd.name = "run" => mind.outcome = "job"
      /\ cmd.name = "find" => mind.outcome \in Found
      /\ advice # "none" => mind.outcome \notin {"not found", "blocked"}
  BY <1>1 DEF Undecided
<1>7. ASSUME exit' \in Outcomes
      PROVE  /\ Len(disk'.json) = 1 /\ disk'.json[1].bytes = gauge'.bytes /\ (cmd'.html => disk'.html = disk'.json)
             /\ ~gauge'.crashed /\ ~mind'.wrong
  <2>1. ~gauge.crashed /\ mind.outcome # "crash"
    BY <1>3, <1>7 DEF Code, Outcomes
  <2>2. disk'.json = <<shot>> /\ (cmd'.html => disk'.html = disk'.json)
    BY <1>1, <1>4, <1>5
  <2>3. Len(disk'.json) = 1 /\ disk'.json[1] = shot
    BY <2>2
  <2>4. ~gauge'.crashed /\ ~mind'.wrong
    BY <1>1, <1>4, <1>6, <2>1
  <2> QED  BY <1>4, <1>5, <2>2, <2>3, <2>4
<1>8. ASSUME exit' \in Outcomes
      PROVE  LET gated == Gated(disk'.json[1], {"budget"} \cup IF cmd'.gate THEN {"bypass"} ELSE {})
             IN  IF exit' \in {"budget", "bypass"} THEN gated = exit' ELSE gated = "ok" /\ ~gauge'.tripped
  <2>1. disk'.json[1] = shot /\ cmd' = cmd
    BY <1>1, <1>4, <1>5
  <2>2. exit' # "internal"
    BY <1>8 DEF Outcomes
  <2>3. CASE shot.tripped
    <3>1. exit' = "budget"
      BY <1>3, <2>2, <2>3 DEF Code
    <3> QED  BY <2>1, <2>3, <3>1 DEF Gated
  <2>4. CASE ~shot.tripped /\ cmd.gate /\ shot.incomplete
    <3>1. exit' = "bypass"
      BY <1>3, <1>5, <2>2, <2>4 DEF Code
    <3> QED  BY <2>1, <2>4, <3>1 DEF Gated
  <2>5. CASE ~shot.tripped /\ ~(cmd.gate /\ shot.incomplete)
    <3>1. exit' \notin {"budget", "bypass"}
      BY <1>2, <1>3, <1>6, <2>2, <2>5 DEF Code, Found, IsCommand
    <3> QED  BY <1>4, <1>5, <2>1, <2>5, <3>1 DEF Gated
  <2> QED  BY <2>3, <2>4, <2>5
<1>9. exit' = "internal" => gauge'.crashed \/ mind'.wrong
  BY <1>1, <1>2, <1>3, <1>4, <1>6 DEF Code, Found, IsCommand
<1>10. advice' # "none" => exit' \notin {"not found", "blocked"}
  BY <1>1, <1>2, <1>3, <1>6 DEF Code, Found, IsCommand
<1>11. CodeTellsTheEnd'
  BY <1>7, <1>8, <1>9, <1>10 DEF CodeTellsTheEnd
<1> QED  BY <1>3, <1>11

\* A step that ends nothing says nothing new about the end.
LEMMA GoesOn ==
  ASSUME CommandInv, at # "end", at' # "end", exit' = exit
  PROVE  NothingIsLeft' /\ CodeTellsTheEnd'
<1>1. exit' = "none"
  BY DEF CommandInv, Undecided
<1> QED  BY <1>1 DEF NothingIsLeft, CodeTellsTheEnd, Outcomes

\* While the records stay, so does what was advised.
LEMMA AdviceStays ==
  ASSUME AdviceIsForTheFirst, UNCHANGED <<records, advice>>
  PROVE  AdviceIsForTheFirst'
BY DEF AdviceIsForTheFirst

-----------------------------------------------------------------------------
(* The steps that end nothing. *)

\* The files are made.
LEMMA MakesFilesKeeps ==
  ASSUME CommandInv, MakesFiles
  PROVE  CommandInv'
<1> USE DEF CommandInv, CommandEndsTruly, MakesFiles
<1>1. cmd \in Commands /\ IsCommand(cmd)
  BY CommandAssumption DEF CommandTypes
<1>2. /\ disk' \in Disks /\ disk'.json = disk.json /\ disk'.html = disk.html
      /\ disk'.token = IF cmd.name = "serve" /\ cmd.token # "terminal" THEN "empty" ELSE disk.token
  BY <1>1 DEF CommandTypes, Disks, IsCommand
<1>3. CommandTypes' /\ MeterIsUp' /\ Undecided' /\ ShotIsLast' /\ WasReached'
  BY <1>2 DEF CommandTypes, Stages, MeterIsUp, Undecided, ShotIsLast, WasReached
<1>4. FilesAreOurs'
  BY <1>1, <1>2 DEF FilesAreOurs, IsCommand
<1>5. HtmlHasJson' /\ AdviceIsForTheFirst' /\ ReportsKeepUp'
  BY <1>2 DEF HtmlHasJson, AdviceIsForTheFirst, ReportsKeepUp
<1>6. NothingIsLeft' /\ CodeTellsTheEnd'
  BY GoesOn
<1> QED  BY <1>3, <1>4, <1>5, <1>6

\* The meter starts; the job begins.
LEMMA BeginningKeeps ==
  ASSUME CommandInv, StartsMeter \/ Begins
  PROVE  CommandInv'
<1> USE DEF CommandInv, CommandEndsTruly, StartsMeter, Begins
<1>1. /\ disk' \in Disks /\ disk'.json = disk.json /\ disk'.html = disk.html
      /\ disk'.token = disk.token \/ (disk.token = "empty" /\ disk'.token = "url")
  BY DEF CommandTypes, Disks, files
<1>2. /\ gauge' \in Gauges /\ gauge'.bytes = gauge.bytes
      /\ at' = "up" => gauge'.is = "up"
      /\ at' # "up" => gauge' = gauge
  BY DEF CommandTypes, Gauges
<1>3. CommandTypes' /\ MeterIsUp' /\ Undecided' /\ ShotIsLast' /\ WasReached'
  BY <1>1, <1>2 DEF CommandTypes, Stages, MeterIsUp, Undecided, ShotIsLast, WasReached, files
<1>4. FilesAreOurs'
  BY <1>1 DEF FilesAreOurs, files
<1>a. AdviceIsForTheFirst'
  BY AdviceStays
<1>5. HtmlHasJson' /\ AdviceIsForTheFirst' /\ ReportsKeepUp'
  BY <1>1, <1>2, <1>a DEF HtmlHasJson, ReportsKeepUp
<1>6. NothingIsLeft' /\ CodeTellsTheEnd'
  BY GoesOn
<1> QED  BY <1>3, <1>4, <1>5, <1>6

\* Bytes are counted, the budget trips, the meter dies.
LEMMA MeterKeeps ==
  ASSUME CommandInv, Counts \/ Trips \/ Crashes
  PROVE  CommandInv'
<1> USE DEF CommandInv, CommandEndsTruly, Counts, Trips, Crashes, files
<1>1. gauge.bytes \in Nat /\ gauge \in Gauges
  BY DEF CommandTypes, Gauges
<1>2. gauge' \in Gauges /\ gauge'.is = gauge.is /\ gauge'.bytes >= gauge.bytes /\ gauge.is = "up"
  <2>1. CASE gauge' = [gauge EXCEPT !.bytes = @ + 1]
    BY <1>1, <2>1 DEF Gauges
  <2>2. CASE gauge' = [gauge EXCEPT !.tripped = TRUE]
    <3>1. gauge' \in Gauges /\ gauge'.is = gauge.is /\ gauge'.bytes = gauge.bytes
      BY ONLY <1>1, <2>2 DEF Gauges
    <3> QED  BY <1>1, <3>1
  <2>3. CASE gauge' = [gauge EXCEPT !.crashed = TRUE]
    <3>1. gauge' \in Gauges /\ gauge'.is = gauge.is /\ gauge'.bytes = gauge.bytes
      BY ONLY <1>1, <2>3 DEF Gauges
    <3> QED  BY <1>1, <3>1
  <2> QED  BY <2>1, <2>2, <2>3
<1>3. at \notin {"reports", "chooses", "end"}
  BY <1>2 DEF MeterIsUp, NothingIsLeft
<1>4. CommandTypes' /\ MeterIsUp' /\ FilesAreOurs' /\ Undecided' /\ ShotIsLast' /\ WasReached'
  BY <1>2, <1>3 DEF CommandTypes, Stages, MeterIsUp, FilesAreOurs, Undecided, ShotIsLast, WasReached
<1>5. HtmlHasJson' /\ AdviceIsForTheFirst'
  BY AdviceStays DEF HtmlHasJson
<1>6. ReportsKeepUp'
  <2>1. disk.json \in Papers
    BY DEF CommandTypes, Disks
  <2>2. disk.json # <<>> => disk.json[1].bytes \in Nat
    BY <2>1, PaperTells
  <2> QED  BY <1>1, <1>2, <2>2 DEF ReportsKeepUp, Gauges
<1>7. NothingIsLeft' /\ CodeTellsTheEnd'
  BY <1>3, GoesOn
<1> QED  BY <1>4, <1>5, <1>6, <1>7

\* serve writes a report of what was counted so far.
LEMMA RewritesKeeps ==
  ASSUME CommandInv, Rewrites
  PROVE  CommandInv'
<1> USE DEF CommandInv, CommandEndsTruly, files
<1> DEFINE report == Telling(gauge.bytes, gauge.tripped, FALSE)
<1>1. PICK how \in {"fails", "whole", "json"} : Writes(report, how)
  BY DEF Rewrites
<1>2. /\ at = "waits" /\ UNCHANGED <<cmd, at, gauge, shot, mind, records, advice, exit>>
      /\ disk \in Disks /\ gauge \in Gauges
  BY DEF Rewrites, CommandTypes
<1>3. report \in Tellings /\ report.bytes = gauge.bytes /\ <<report>>[1] = report
  BY <1>2 DEF Telling, Tellings, Gauges
<1>4. gauge.bytes \in Nat /\ disk.json \in Papers /\ disk.html \in Papers
  BY <1>2 DEF Gauges, Disks
<1> HIDE DEF report
<1>5. /\ disk' \in Disks /\ disk'.token = disk.token
      /\ \/ disk' = disk
         \/ disk'.json = <<report>> /\ disk'.html \in {disk.html, <<report>>}
  BY <1>1, <1>2, <1>3 DEF Writes, Disks, Papers
<1>6. CommandTypes' /\ MeterIsUp' /\ Undecided' /\ ShotIsLast' /\ WasReached' /\ FilesAreOurs'
  BY <1>2, <1>5 DEF CommandTypes, MeterIsUp, Undecided, ShotIsLast, WasReached, FilesAreOurs
<1>7. HtmlHasJson' /\ AdviceIsForTheFirst'
  BY <1>2, <1>5, AdviceStays DEF HtmlHasJson
<1>8. ReportsKeepUp'
  <2>1. /\ disk.json # <<>> => disk.json[1].bytes \in Nat
        /\ disk.html # <<>> => disk.html[1].bytes \in Nat
    BY <1>4, PaperTells
  <2>2. disk.html # <<>> => disk.html[1].bytes <= gauge.bytes
    BY <1>4, <2>1 DEF ReportsKeepUp, HtmlHasJson
  <2>3. CASE disk' = disk
    BY <1>2, <2>3 DEF ReportsKeepUp
  <2>4. CASE disk'.json = <<report>> /\ disk'.html \in {disk.html, <<report>>}
    <3>1. disk'.json[1].bytes = gauge.bytes
      BY <1>3, <2>4
    <3>2. disk'.html # <<>> => disk'.html[1].bytes <= gauge.bytes
      BY <1>3, <1>4, <2>2, <2>4
    <3> QED  BY <1>2, <1>4, <3>1, <3>2 DEF ReportsKeepUp
  <2> QED  BY <1>5, <2>3, <2>4
<1>9. NothingIsLeft' /\ CodeTellsTheEnd'
  BY <1>2, GoesOn
<1> QED  BY <1>6, <1>7, <1>8, <1>9

\* A wait is over.
LEMMA WaitEndsKeeps ==
  ASSUME CommandInv, Wakes \/ JobEnds \/ FindEnds
  PROVE  CommandInv'
<1> USE DEF CommandInv, CommandEndsTruly, files
<1>1. /\ at = "waits" /\ at' = "after"
      /\ UNCHANGED <<cmd, disk, shot, gauge, records, advice, exit>>
      /\ mind \in Minds /\ cmd \in Commands /\ IsCommand(cmd)
  BY CommandAssumption DEF Wakes, JobEnds, FindEnds, CommandTypes
<1>2. mind.outcome = "none" /\ mind.wrong = FALSE /\ mind.keep = FALSE
  BY <1>1 DEF Undecided, FilesAreOurs, Minds
<1>3. /\ mind' \in Minds
      /\ cmd.name = "run" => mind'.outcome = "job" /\ mind'.keep = cmd.keep
      /\ cmd.name = "find" => mind'.outcome \in Found
      /\ cmd.name = "serve" => mind'.outcome = "none"
      /\ cmd.name # "run" => mind'.keep = FALSE
      /\ mind'.wrong <=> mind'.outcome = "crash"
      /\ advice # "none" => mind'.outcome \notin {"not found", "blocked"}
  <2>1. CASE Wakes
    BY <1>1, <1>2, <2>1 DEF Wakes
  <2>2. CASE JobEnds
    BY <1>1, <1>2, <2>2 DEF JobEnds, Minds, IsCommand
  <2>3. CASE FindEnds
    <3>1. PICK outcome \in Found :
             /\ advice # "none" => outcome \in {"found", "partial", "load error", "crash"}
             /\ mind' = [mind EXCEPT !.outcome = outcome, !.wrong = @ \/ outcome = "crash"]
      BY <2>3 DEF FindEnds, Found
    <3>2. mind' \in Minds /\ mind'.outcome = outcome /\ mind'.keep = FALSE
      BY <1>1, <1>2, <3>1 DEF Minds
    <3>3. mind'.wrong <=> outcome = "crash"
      BY <1>1, <1>2, <3>1 DEF Minds
    <3> QED  BY <2>3, <3>1, <3>2, <3>3 DEF FindEnds
  <2> QED  BY <2>1, <2>2, <2>3
<1>4. CommandTypes' /\ MeterIsUp' /\ ShotIsLast' /\ WasReached'
  BY <1>1, <1>3 DEF CommandTypes, Stages, MeterIsUp, ShotIsLast, WasReached
<1>5. FilesAreOurs' /\ Undecided'
  BY <1>1, <1>3 DEF FilesAreOurs, Undecided, IsCommand
<1>6. HtmlHasJson' /\ AdviceIsForTheFirst' /\ ReportsKeepUp'
  BY <1>1, AdviceStays DEF HtmlHasJson, ReportsKeepUp
<1>7. NothingIsLeft' /\ CodeTellsTheEnd'
  BY <1>1, GoesOn
<1> QED  BY <1>4, <1>5, <1>6, <1>7

\* What a find's tunnel and its check do, and a signal that only ends the waiting.
LEMMA AsideKeeps ==
  ASSUME CommandInv, at \notin {"end", "gone"},
         \/ at' = at /\ (mind' = mind \/ mind' = [mind EXCEPT !.stop = TRUE])
         \/ at' = "gone" /\ mind' = mind,
         UNCHANGED <<cmd, disk, shot, gauge, exit>>,
         records' \in Seq(Tunnels), WasReached', AdviceIsForTheFirst',
         advice' = advice \/ mind.outcome = "none"
  PROVE  CommandInv'
<1> USE DEF CommandInv, CommandEndsTruly
<1>1. mind' \in Minds /\ mind'.keep = mind.keep /\ mind'.outcome = mind.outcome /\ mind'.wrong = mind.wrong
  BY DEF CommandTypes, Minds
<1>2. CommandTypes' /\ MeterIsUp' /\ ShotIsLast'
  BY <1>1 DEF CommandTypes, Stages, MeterIsUp, ShotIsLast
<1>3. FilesAreOurs' /\ Undecided'
  BY <1>1 DEF FilesAreOurs, Undecided
<1>4. HtmlHasJson' /\ ReportsKeepUp'
  BY DEF HtmlHasJson, ReportsKeepUp
<1>5. NothingIsLeft' /\ CodeTellsTheEnd'
  BY GoesOn
<1> QED  BY <1>2, <1>3, <1>4, <1>5

\* find's tunnels.
LEMMA ConnectsKeeps ==
  ASSUME CommandInv, NEW own \in BOOLEAN, Connects(own)
  PROVE  CommandInv'
<1> USE DEF CommandInv, CommandEndsTruly, files
<1> DEFINE new == [own |-> own, status |-> "open", was |-> FALSE]
<1>1. records \in Seq(Tunnels) /\ new \in Tunnels /\ records' = Append(records, new)
  BY DEF Connects, CommandTypes, Tunnels
<1>2. records' \in Seq(Tunnels)
  BY <1>1
<1>3. \A i \in DOMAIN records' : records'[i] = new \/ (i \in DOMAIN records /\ records'[i] = records[i])
  BY <1>1
<1>4. WasReached'
  BY <1>3 DEF WasReached
<1>5. AdviceIsForTheFirst'
  BY DEF Connects, AdviceIsForTheFirst
<1> QED  BY <1>2, <1>4, <1>5, AsideKeeps DEF Connects
LEMMA ProceedsKeeps ==
  ASSUME CommandInv, NEW i \in DOMAIN records, Proceeds(i)
  PROVE  CommandInv'
<1> USE DEF CommandInv, CommandEndsTruly, files
<1>1. records \in Seq(Tunnels) /\ records[i] \in Tunnels
  BY DEF CommandTypes
<1>2. PICK t \in Tunnels : records' = [records EXCEPT ![i] = t] /\ (t.was => t.status \in {"open", "ok", "reset"})
  <2>1. CASE ~records[i].was /\ records' = [records EXCEPT ![i].was = TRUE]
    <3>1. [records[i] EXCEPT !.was = TRUE] \in Tunnels
      BY <1>1 DEF Tunnels
    <3> QED  BY <1>1, <2>1, <3>1 DEF Proceeds, Tunnels
  <2>2. ASSUME NEW status \in Refusals \cup Upstreams \cup {"closed", "ok", "reset"},
               records[i].was => status \in {"ok", "reset"},
               records' = [records EXCEPT ![i].status = status]
        PROVE  \E t \in Tunnels : records' = [records EXCEPT ![i] = t] /\ (t.was => t.status \in {"open", "ok", "reset"})
    <3>1. [records[i] EXCEPT !.status = status] \in Tunnels
      BY <1>1 DEF Tunnels
    <3> QED  BY <1>1, <2>2, <3>1 DEF Tunnels
  <2> QED  BY <2>1, <2>2 DEF Proceeds
<1>3. records' \in Seq(Tunnels) /\ DOMAIN records' = DOMAIN records
  BY <1>1, <1>2
<1>4. WasReached'
  BY <1>1, <1>2, <1>3 DEF WasReached
<1>5. AdviceIsForTheFirst'
  BY DEF Proceeds, AdviceIsForTheFirst
<1> QED  BY <1>3, <1>4, <1>5, AsideKeeps DEF Proceeds

\* find's abort check: a refusal of the target for its private address is the first word
\* of the target only if no tunnel to it was established and lives or ended well.
LEMMA ChecksKeeps ==
  ASSUME CommandInv, Checks
  PROVE  CommandInv'
<1> USE DEF CommandInv, CommandEndsTruly, files
<1>1. records \in Seq(Tunnels)
  BY DEF CommandTypes
<1>2. AdviceIsForTheFirst'
  <2>1. SUFFICES ASSUME advice' = "allow private"
                 PROVE  \E i \in DOMAIN records :
                          /\ records[i].status = "private" /\ records[i].own
                          /\ \A j \in 1 .. i - 1 : records[j].own /\ records[j].was => records[j].status = "reset"
    BY DEF AdviceIsForTheFirst, Checks
  <2>2. PICK i \in DOMAIN records :
          Decides(i) /\ (\A j \in 1 .. i - 1 : ~Decides(j)) /\ advice' = Reason(i)
    BY <2>1 DEF Checks
  <2>3. records[i] \in Tunnels /\ i \in Nat /\ \A j \in 1 .. i - 1 : j \in DOMAIN records /\ records[j] \in Tunnels
    BY <1>1
  <2>4. records[i].status = "private" /\ ~Reached(i)
    BY <2>1, <2>2 DEF Reason, Decides, Refusals, Upstreams
  <2>5. records[i].own
    BY <2>2, <2>4 DEF Decides, Upstreams
  <2>6. ASSUME NEW j \in 1 .. i - 1, records[j].own, records[j].was
        PROVE  records[j].status = "reset"
    <3>1. records[j].status \in {"open", "ok", "reset"}
      BY <2>3, <2>6 DEF WasReached
    <3> QED  BY <2>4, <2>6, <3>1 DEF Reached
  <2> QED  BY <2>4, <2>5, <2>6
<1>3. WasReached' /\ mind.outcome = "none"
  BY DEF Checks, WasReached, Undecided
<1> QED  BY <1>1, <1>2, <1>3, AsideKeeps DEF Checks

\* The meter is stopped: what it counted is final, and in the snapshot.
LEMMA StopsMeterKeeps ==
  ASSUME CommandInv, StopsMeter
  PROVE  CommandInv'
<1> USE DEF CommandInv, CommandEndsTruly
<1>1. PICK incomplete \in (IF cmd.name = "run" THEN BOOLEAN ELSE {FALSE}) :
          shot' = Telling(gauge.bytes, gauge.tripped, incomplete)
  BY DEF StopsMeter
<1>2. /\ at = "after" /\ at' = "reports" /\ gauge \in Gauges
      /\ gauge' = [gauge EXCEPT !.is = "stopped"]
      /\ UNCHANGED <<cmd, disk, mind, records, advice, exit>>
  BY DEF StopsMeter, CommandTypes
<1>3. /\ gauge' \in Gauges /\ gauge'.is = "stopped" /\ gauge'.bytes = gauge.bytes
      /\ gauge'.tripped = gauge.tripped
  BY <1>2 DEF Gauges
<1>4. /\ shot' \in Tellings /\ shot'.bytes = gauge.bytes /\ shot'.tripped = gauge.tripped
      /\ shot'.incomplete => cmd.name = "run"
  BY <1>1, <1>2 DEF Telling, Tellings, Gauges
<1>5. CommandTypes' /\ MeterIsUp' /\ FilesAreOurs' /\ Undecided' /\ ShotIsLast' /\ WasReached'
  BY <1>2, <1>3, <1>4 DEF CommandTypes, Stages, MeterIsUp, FilesAreOurs, Undecided, ShotIsLast, WasReached
<1>6. HtmlHasJson' /\ AdviceIsForTheFirst' /\ ReportsKeepUp'
  BY <1>2, <1>3, AdviceStays DEF HtmlHasJson, ReportsKeepUp
<1>7. NothingIsLeft' /\ CodeTellsTheEnd'
  BY <1>2, GoesOn
<1> QED  BY <1>5, <1>6, <1>7

\* The report is written, whole.
LEMMA ReportsKeeps ==
  ASSUME CommandInv, Reports
  PROVE  CommandInv'
<1> USE DEF CommandInv, CommandEndsTruly
<1>1. /\ at = "reports" /\ at' = "chooses" /\ disk \in Disks /\ shot \in Tellings
      /\ UNCHANGED <<cmd, gauge, shot, mind, records, advice, exit>>
      /\ disk' = [disk EXCEPT !.json = <<shot>>, !.html = IF cmd.html THEN <<shot>> ELSE @]
  BY DEF Reports, CommandTypes, Writes
<1>2. /\ disk' \in Disks /\ disk'.token = disk.token /\ disk'.json = <<shot>>
      /\ cmd.html => disk'.html = <<shot>>
      /\ disk'.html \in {disk.html, <<shot>>}
  BY <1>1 DEF Disks, Papers
<1>3. CommandTypes' /\ MeterIsUp' /\ FilesAreOurs' /\ Undecided' /\ ShotIsLast' /\ WasReached'
  BY <1>1, <1>2 DEF CommandTypes, Stages, MeterIsUp, FilesAreOurs, Undecided, ShotIsLast, WasReached
<1>4. HtmlHasJson' /\ AdviceIsForTheFirst'
  BY <1>1, <1>2, AdviceStays DEF HtmlHasJson
<1>5. ReportsKeepUp'
  <2>1. shot.bytes = gauge.bytes /\ gauge.bytes \in Nat /\ <<shot>>[1] = shot
    BY <1>1 DEF ShotIsLast, CommandTypes, Gauges
  <2>2. /\ disk.json # <<>> => disk.json[1].bytes \in Nat
        /\ disk.html # <<>> => disk.html[1].bytes \in Nat
    BY <1>1, PaperTells DEF Disks
  <2>3. disk.html # <<>> => disk.html[1].bytes <= gauge.bytes
    BY <2>1, <2>2 DEF ReportsKeepUp, HtmlHasJson
  <2>4. disk'.json[1].bytes = gauge.bytes
    BY <1>2, <2>1
  <2>5. disk'.html # <<>> => disk'.html[1].bytes <= gauge.bytes
    BY <1>2, <2>1, <2>3
  <2> QED  BY <1>1, <2>1, <2>4, <2>5 DEF ReportsKeepUp
<1>6. NothingIsLeft' /\ CodeTellsTheEnd'
  BY <1>1, GoesOn
<1> QED  BY <1>3, <1>4, <1>5, <1>6

\* The report cannot be written, or its HTML cannot.
LEMMA ReportFailsKeeps ==
  ASSUME CommandInv, ReportFails
  PROVE  CommandInv'
<1>1. /\ at = "reports" /\ mind' = [mind EXCEPT !.wrong = TRUE] /\ UNCHANGED <<cmd, shot, records, advice>>
      /\ disk \in Disks /\ shot \in Tellings
  BY DEF ReportFails, CommandInv, CommandTypes
<1>2. CASE Leaves("internal", disk)
  BY <1>1, <1>2, FailsInsideKeeps
<1>3. CASE Leaves("internal", [disk EXCEPT !.json = <<shot>>])
  <2>1. PICK d : d = [disk EXCEPT !.json = <<shot>>]
    OBVIOUS
  <2>2. d \in Disks /\ d.events = disk.events /\ d.token = disk.token /\ d.html = disk.html /\ d.json = <<shot>>
    BY <1>1, <2>1 DEF Disks, Papers
  <2> QED  BY <1>1, <1>3, <2>1, <2>2, FailsInsideKeeps
<1> QED  BY <1>2, <1>3 DEF ReportFails

\* A signal, wherever the main thread is.
LEMMA SignalKeeps ==
  ASSUME CommandInv, NEW sig, Signal(sig)
  PROVE  CommandInv'
<1>1. at \notin {"end", "gone"}
  BY DEF Signal
<1>2. CASE Fails("interrupted")
  BY <1>1, <1>2, FailsKeeps DEF Outcomes
<1>3. CASE /\ mind' = [mind EXCEPT !.stop = @ \/ cmd.name = "serve"]
           /\ UNCHANGED <<cmd, at, files, gauge, records, advice, exit>>
  <2>1. mind' = mind \/ mind' = [mind EXCEPT !.stop = TRUE]
    BY <1>3 DEF CommandInv, CommandTypes, Minds
  <2>2. records' \in Seq(Tunnels) /\ WasReached' /\ AdviceIsForTheFirst'
    BY <1>3, AdviceStays DEF CommandInv, CommandEndsTruly, CommandTypes, WasReached
  <2> QED  BY <1>1, <1>3, <2>1, <2>2, AsideKeeps DEF files
<1>4. CASE at' = "gone" /\ UNCHANGED <<cmd, files, gauge, mind, records, advice, exit>>
  <2>1. records' \in Seq(Tunnels) /\ WasReached' /\ AdviceIsForTheFirst'
    BY <1>4, AdviceStays DEF CommandInv, CommandEndsTruly, CommandTypes, WasReached
  <2> QED  BY <1>1, <1>4, <2>1, AsideKeeps DEF files
<1> QED  BY <1>2, <1>3, <1>4 DEF Signal

\* Every step of a command.
LEMMA CommandStep == CommandInv /\ [NextCommand]_commandVars => CommandInv'
<1> SUFFICES ASSUME CommandInv, [NextCommand]_commandVars PROVE CommandInv'
  OBVIOUS
<1>1. CASE NotPrepared \/ TokenRefused \/ MeterFails \/ TokenUnwritten \/ NoCommand \/ FindRaises
  <2>1. at \notin {"end", "gone"}
    BY <1>1 DEF NotPrepared, TokenRefused, MeterFails, TokenUnwritten, NoCommand, FindRaises
  <2>2. CASE FailsInside
    <3>1. disk \in Disks
      BY DEF CommandInv, CommandTypes
    <3> QED  BY <2>1, <2>2, <3>1, FailsInsideKeeps DEF FailsInside
  <2>3. CASE \E code \in {"usage", "config", "no browser", "no command", "not executable"} : Fails(code)
    BY <2>1, <2>3, FailsKeeps DEF Outcomes
  <2> QED  BY <1>1, <2>2, <2>3 DEF NotPrepared, TokenRefused, MeterFails, TokenUnwritten, NoCommand, FindRaises
<1>2. CASE MakesFiles
  BY <1>2, MakesFilesKeeps
<1>3. CASE StartsMeter \/ Begins
  BY <1>3, BeginningKeeps
<1>4. CASE Counts \/ Trips \/ Crashes
  BY <1>4, MeterKeeps
<1>5. CASE Wakes \/ JobEnds \/ FindEnds
  BY <1>5, WaitEndsKeeps
<1>6. CASE Rewrites
  BY <1>6, RewritesKeeps
<1>7. CASE \E own \in BOOLEAN : Connects(own)
  BY <1>7, ConnectsKeeps
<1>8. CASE \E i \in DOMAIN records : Proceeds(i)
  BY <1>8, ProceedsKeeps
<1>9. CASE Checks
  BY <1>9, ChecksKeeps
<1>10. CASE StopsMeter
  BY <1>10, StopsMeterKeeps
<1>11. CASE Reports
  BY <1>11, ReportsKeeps
<1>12. CASE ReportFails
  BY <1>12, ReportFailsKeeps
<1>13. CASE Chooses
  BY <1>13, ChoosesKeeps
<1>14. CASE \E sig \in {"INT", "TERM"} : Signal(sig)
  BY <1>14, SignalKeeps
<1>15. CASE UNCHANGED commandVars
  <2>1. CommandTypes' /\ MeterIsUp' /\ FilesAreOurs' /\ Undecided' /\ ShotIsLast' /\ WasReached' /\ HtmlHasJson'
    BY <1>15 DEF commandVars, CommandInv, CommandTypes, MeterIsUp, FilesAreOurs, Undecided, ShotIsLast, WasReached,
                 HtmlHasJson
  <2>2. NothingIsLeft' /\ CodeTellsTheEnd' /\ ReportsKeepUp'
    BY <1>15 DEF commandVars, CommandInv, CommandEndsTruly, NothingIsLeft, CodeTellsTheEnd, ReportsKeepUp
  <2>3. AdviceIsForTheFirst'
    BY <1>15, AdviceStays DEF commandVars, CommandInv, CommandEndsTruly
  <2> QED  BY <2>1, <2>2, <2>3 DEF CommandInv, CommandEndsTruly
<1> QED  BY <1>1, <1>2, <1>3, <1>4, <1>5, <1>6, <1>7, <1>8, <1>9, <1>10, <1>11, <1>12, <1>13, <1>14, <1>15 DEF NextCommand

\* Whatever step of a command fails and whenever a signal comes, for any budget, report and
\* number of tunnels: the private files are gone and the meter is stopped, the exit code
\* tells the end, find advises on the first connection only, and reports keep up.
THEOREM CommandsEndTruly == CommandSpec => []CommandEndsTruly
<1>1. CommandInv => CommandEndsTruly
  BY DEF CommandInv
<1> QED  BY <1>1, CommandStarts, CommandStep, PTL DEF CommandSpec
=============================================================================
