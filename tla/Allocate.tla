------------------------------- MODULE Allocate -------------------------------
(***************************************************************************)
(* attribution/allocate.py: the largest-remainder split of a total over    *)
(* weights, which are a function from positions to integers.               *)
(***************************************************************************)
EXTENDS Integers, FiniteSets, Functions

\* Negative weights are zero, and when all are zero all are equal.
CleanWeights(w) ==
  LET clean == [i \in DOMAIN w |-> IF w[i] > 0 THEN w[i] ELSE 0]
  IN  IF SumFunction(clean) = 0 THEN [i \in DOMAIN w |-> 1] ELSE clean

\* The part of the total that the position's weight gives it whole.
Whole(total, w, W, i) == (total * w[i]) \div W

\* Mutant: the units that are left over go to the first positions.
AheadByPosition(total, w, W, i) == {j \in DOMAIN w : j < i}

\* The positions served before i when what is left over is handed out one by one:
\* larger remainders first, and the earlier of two equal ones.
Ahead(total, w, W, i) ==
  LET rest(j) == (total * w[j]) % W
  IN  {j \in DOMAIN w : rest(j) > rest(i) \/ (rest(j) = rest(i) /\ j < i)}

\* Each position's whole part, and one more for the first `extra` positions in line.
Split(total, w, W, extra) ==
  [i \in DOMAIN w |->
     Whole(total, w, W, i) + (IF Cardinality(Ahead(total, w, W, i)) < extra THEN 1 ELSE 0)]

largest_remainder(total, weights) ==
  LET w == CleanWeights(weights)
      W == SumFunction(w)
      t == IF total > 0 THEN total ELSE 0
      extra == t - SumFunction([i \in DOMAIN w |-> Whole(t, w, W, i)])
  IN  Split(t, w, W, extra)
=============================================================================
