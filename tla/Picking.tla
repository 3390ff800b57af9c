------------------------------- MODULE Picking -------------------------------
(* Loops that go through a list and append some of its entries to another, and *)
(* sorting.                                                                    *)
EXTENDS Naturals, FiniteSets

\* What s has at the positions S, in their order.
Picked(s, S) ==
  [k \in 1 .. Cardinality(S) |-> s[CHOOSE i \in S : Cardinality({j \in S : j <= i}) = k]]

\* The domain of ahead as a sequence, each member behind those that are ahead of it.
InLine(ahead) ==
  [k \in 1 .. Cardinality(DOMAIN ahead) |-> CHOOSE i \in DOMAIN ahead : Cardinality(ahead[i]) = k - 1]
=============================================================================
