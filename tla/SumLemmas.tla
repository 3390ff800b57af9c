----------------------------- MODULE SumLemmas ------------------------------
(***************************************************************************)
(* Facts about finite sets that several proofs need: induction on them,    *)
(* folds and sums over them, places in a line, division, and loops that    *)
(* are functions of the round.                                             *)
(*                                                                         *)
(* The library defines folds and sums by recursion, and what they are is   *)
(* proved here from SetInduction, which takes its property as a set.       *)
(***************************************************************************)
EXTENDS Integers, FiniteSets, Functions, FiniteSetTheorems, TLAPS

-----------------------------------------------------------------------------
(* Folds and sums over finite sets.                                        *)

\* Induction on a finite set, over the set of its subsets that have the property.
LEMMA SetInduction ==
  ASSUME NEW S, IsFiniteSet(S), NEW P \in SUBSET SUBSET S,
         \A T \in SUBSET S : (\A U \in SUBSET T : U # T => U \in P) => T \in P
  PROVE  \A T \in SUBSET S : T \in P
<1> DEFINE B == (SUBSET S) \ P
<1>1. SUFFICES ASSUME B # {} PROVE FALSE OBVIOUS
<1>2. IsWellFoundedOn(StrictSubsetOrdering(S), SUBSET S)
  BY FS_StrictSubsetOrderingWellFounded, FS_FiniteSubsetsOfFinite
<1>3. B \subseteq SUBSET S OBVIOUS
<1>4. \E T \in B : \A U \in B : ~ (<<U, T>> \in StrictSubsetOrdering(S))
  <2> HIDE DEF B
  <2>1. QED BY <1>1, <1>2, <1>3, WFMin
<1>5. PICK T \in B : \A U \in B : ~ (<<U, T>> \in StrictSubsetOrdering(S)) BY <1>4
<1>6. \A U \in SUBSET T : U # T => U \in P
  BY <1>5 DEF StrictSubsetOrdering
<1>7. QED BY <1>5, <1>6

\* f folds g over the subsets of T, in the order of c.
IsFold(f, T, c, g, base, V) ==
  /\ f \in [SUBSET T -> V]
  /\ \A s \in SUBSET T : f[s] = IF s = {} THEN base ELSE g[c[s]][f[s \ {c[s]}]]

\* A fold over a finite set has one value.
LEMMA FoldsUnique ==
  ASSUME NEW T, IsFiniteSet(T), NEW V, NEW base \in V, NEW g, NEW c,
         \A s \in SUBSET T : s # {} => c[s] \in s,
         NEW f, NEW h, IsFold(f, T, c, g, base, V), IsFold(h, T, c, g, base, V)
  PROVE  f = h
<1> DEFINE P == {s \in SUBSET T : f[s] = h[s]}
<1>1. ASSUME NEW s \in SUBSET T, \A u \in SUBSET s : u # s => u \in P PROVE s \in P
  <2>1. CASE s = {} BY <2>1 DEF IsFold
  <2>2. CASE s # {}
    <3>1. s \ {c[s]} \in P BY <2>2, <1>1
    <3>2. QED BY <2>2, <3>1 DEF IsFold
  <2>3. QED BY <2>1, <2>2
<1>2. P \in SUBSET SUBSET T OBVIOUS
<1> HIDE DEF P
<1>3. \A s \in SUBSET T : s \in P BY <1>1, <1>2, SetInduction
<1>4. \A s \in SUBSET T : f[s] = h[s] BY <1>3 DEF P
<1>5. QED BY <1>4 DEF IsFold

\* A fold over a set is one over each of its subsets.
LEMMA FoldsRestrict ==
  ASSUME NEW T, NEW U \in SUBSET T, NEW V, NEW base, NEW g, NEW c,
         \A s \in SUBSET T : s # {} => c[s] \in s,
         NEW f, IsFold(f, T, c, g, base, V),
         NEW h, h = [s \in SUBSET U |-> f[s]]
  PROVE  IsFold(h, U, c, g, base, V)
<1>1. \A s \in SUBSET U : s \in SUBSET T /\ s \ {c[s]} \in SUBSET U OBVIOUS
<1>2. QED BY <1>1 DEF IsFold

\* Over a finite set there is a fold.
LEMMA FoldsExists ==
  ASSUME NEW S, IsFiniteSet(S), NEW V, NEW base \in V, NEW g \in [S -> [V -> V]], NEW c,
         \A s \in SUBSET S : s # {} => c[s] \in s
  PROVE  \E f : IsFold(f, S, c, g, base, V)
<1> DEFINE P == {T \in SUBSET S : \E f : IsFold(f, T, c, g, base, V)}
<1>1. ASSUME NEW T \in SUBSET S, \A U \in SUBSET T : U # T => U \in P PROVE T \in P
  <2> DEFINE G == [U \in SUBSET T |-> CHOOSE f : IsFold(f, U, c, g, base, V)]
             f == [s \in SUBSET T |-> IF s = {} THEN base ELSE g[c[s]][G[s \ {c[s]}][s \ {c[s]}]]]
  <2>1. \A U \in SUBSET T : U # T => IsFold(G[U], U, c, g, base, V) BY <1>1
  <2> HIDE DEF G
  <2>2. ASSUME NEW s \in SUBSET T, s # {}
        PROVE  /\ c[s] \in S /\ s \ {c[s]} \in SUBSET T /\ s \ {c[s]} # T
               /\ s \ {c[s]} \in SUBSET s /\ s \ {c[s]} # s
    <3>1. s \in SUBSET S OBVIOUS
    <3>2. c[s] \in s BY <2>2, <3>1
    <3> DEFINE x == c[s]
    <3>3. x \in s BY <3>2
    <3> HIDE DEF x
    <3>4. /\ x \in S /\ s \ {x} \in SUBSET T /\ s \ {x} # T
          /\ s \ {x} \in SUBSET s /\ s \ {x} # s
      BY <3>3
    <3>5. QED BY <3>4 DEF x
  <2>3. ASSUME NEW u \in SUBSET T, u # T PROVE G[u][u] \in V
    <3>1. IsFold(G[u], u, c, g, base, V) BY <2>1, <2>3
    <3>2. G[u] \in [SUBSET u -> V] BY <3>1 DEF IsFold
    <3>3. QED BY <3>2
  <2>4. ASSUME NEW s \in SUBSET T PROVE f[s] \in V
    <3>1. CASE s = {} BY <3>1
    <3>2. CASE s # {}
      <4>0. s \ {c[s]} \in SUBSET T /\ s \ {c[s]} # T BY <2>2, <3>2
      <4> DEFINE w == s \ {c[s]}
      <4>a. w \in SUBSET T /\ w # T BY <4>0
      <4> HIDE DEF w
      <4>b. G[w][w] \in V BY ONLY <2>3, <4>a
      <4>1. G[s \ {c[s]}][s \ {c[s]}] \in V BY <4>b DEF w
      <4>2. g[c[s]] \in [V -> V] BY <2>2, <3>2
      <4>3. f[s] = g[c[s]][G[s \ {c[s]}][s \ {c[s]}]] BY <3>2
      <4>4. QED BY ONLY <4>1, <4>2, <4>3
    <3>3. QED BY <3>1, <3>2
  <2>5. ASSUME NEW u \in SUBSET T, u # T PROVE f[u] = G[u][u]
    <3>1. IsFold(G[u], u, c, g, base, V) BY <2>1, <2>5
    <3>2. CASE u = {} BY <3>1, <3>2 DEF IsFold
    <3>3. CASE u # {}
      <4> DEFINE w == u \ {c[u]}
      <4>1. w \in SUBSET T /\ w # T /\ w \in SUBSET u BY <2>2, <3>3
      <4>2. \A s \in SUBSET u : s # {} => c[s] \in s OBVIOUS
      <4>3. IsFold(G[w], w, c, g, base, V) BY <2>1, <4>1
      <4> HIDE DEF w
      <4> DEFINE h == [s \in SUBSET w |-> G[u][s]]
      <4>0. h = [s \in SUBSET w |-> G[u][s]] OBVIOUS
      <4>c. w \in SUBSET u BY <4>1
      <4>7. h[w] = G[u][w] OBVIOUS
      <4> HIDE DEF h
      <4>4. IsFold(h, w, c, g, base, V) BY ONLY <3>1, <4>c, <4>2, <4>0, FoldsRestrict, ZenonT(60)
      <4>5. \A s \in SUBSET w : s # {} => c[s] \in s BY <4>1
      <4>6. IsFiniteSet(w) BY <4>1, FS_Subset
      <4>8. h = G[w] BY <4>3, <4>4, <4>5, <4>6, FoldsUnique
      <4>9. G[u][u] = g[c[u]][G[u][w]] BY <3>1, <3>3 DEF IsFold, w
      <4>10. f[u] = g[c[u]][G[w][w]] BY <3>3 DEF w
      <4>11. QED BY <4>7, <4>8, <4>9, <4>10
    <3>4. QED BY <3>2, <3>3
  <2>6. \A s \in SUBSET T : f[s] = IF s = {} THEN base ELSE g[c[s]][f[s \ {c[s]}]]
    BY <2>2, <2>5
  <2>7. f \in [SUBSET T -> V]
    <3> HIDE DEF f
    <3>1. f = [s \in SUBSET T |-> f[s]] BY DEF f
    <3>2. QED BY <3>1, <2>4
  <2> HIDE DEF f
  <2>8. IsFold(f, T, c, g, base, V) BY <2>6, <2>7 DEF IsFold
  <2>9. QED BY <2>8
<1>2. P \in SUBSET SUBSET S OBVIOUS
<1> HIDE DEF P
<1>3. S \in P BY <1>1, <1>2, SetInduction
<1>4. QED BY <1>3 DEF P

\* The library's sum of v over S folds v over the subsets of S.
Picks(S) == [s \in SUBSET S |-> CHOOSE x \in s : TRUE]
Plus(v, S) == [x \in S |-> [n \in Nat |-> v[x] + n]]

\* SumFunctionOnSet is a fold, which takes the elements in the order of CHOOSE.
LEMMA SumIsFold ==
  ASSUME NEW S, IsFiniteSet(S), NEW v, \A x \in S : v[x] \in Nat
  PROVE  \E f : /\ IsFold(f, S, Picks(S), Plus(v, S), 0, Nat)
                /\ SumFunctionOnSet(v, S) = f[S]
<1> DEFINE c == Picks(S)
           g == Plus(v, S)
           Eq(f) == f = [s \in SUBSET S |->
                           IF s = {} THEN 0
                           ELSE LET x == CHOOSE y \in s : TRUE IN v[x] + f[s \ {x}]]
           h == CHOOSE f : Eq(f)
<1>1. \A s \in SUBSET S : c[s] = CHOOSE x \in s : TRUE BY DEF Picks
<1>2. \A s \in SUBSET S : s # {} => c[s] \in s BY <1>1
<1>3. g \in [S -> [Nat -> Nat]] BY DEF Plus
<1>4. \A x \in S, n \in Nat : g[x][n] = v[x] + n BY DEF Plus
<1>5. SumFunctionOnSet(v, S) = h[S]
  BY DEF SumFunctionOnSet, FoldFunctionOnSet, MapThenFoldSet
<1>6. ASSUME NEW f, IsFold(f, S, c, g, 0, Nat) PROVE Eq(f)
  <2>1. f \in [SUBSET S -> Nat] BY <1>6 DEF IsFold
  <2>2. ASSUME NEW s \in SUBSET S
        PROVE  f[s] = IF s = {} THEN 0 ELSE LET x == CHOOSE y \in s : TRUE IN v[x] + f[s \ {x}]
    <3>1. CASE s = {} BY <3>1, <1>6 DEF IsFold
    <3>2. CASE s # {}
      <4>1. c[s] \in S /\ s \ {c[s]} \in SUBSET S BY <1>2, <3>2
      <4>2. f[s] = g[c[s]][f[s \ {c[s]}]] BY <3>2, <1>6 DEF IsFold
      <4>3. f[s \ {c[s]}] \in Nat BY <2>1, <4>1
      <4> HIDE DEF g, c
      <4>4. f[s] = v[c[s]] + f[s \ {c[s]}] BY <1>4, <4>1, <4>2, <4>3
      <4>5. QED BY <1>1, <3>2, <4>4
    <3>3. QED BY <3>1, <3>2
  <2>3. QED BY <2>1, <2>2
<1>7. \E f : IsFold(f, S, c, g, 0, Nat)
  <2> HIDE DEF c, g
  <2>1. QED BY <1>2, <1>3, FoldsExists
<1>8. Eq(h)
  <2>1. \E f : Eq(f) BY <1>6, <1>7
  <2> HIDE DEF Eq
  <2>2. QED BY <2>1
<1>9. ASSUME NEW f, Eq(f) PROVE h = f
  <2> DEFINE P == {s \in SUBSET S : h[s] = f[s]}
  <2>1. ASSUME NEW s \in SUBSET S, \A u \in SUBSET s : u # s => u \in P PROVE s \in P
    <3> DEFINE x == CHOOSE y \in s : TRUE
    <3> HIDE DEF h
    <3>1. CASE s = {} BY <3>1, <1>8, <1>9
    <3>2. CASE s # {}
      <4>1. x \in s BY <3>2
      <4>2. h[s] = v[x] + h[s \ {x}] BY <3>2, <1>8
      <4>3. f[s] = v[x] + f[s \ {x}] BY <3>2, <1>9
      <4> HIDE DEF x
      <4>4. s \ {x} \in P BY <2>1, <4>1
      <4>5. QED BY <4>2, <4>3, <4>4
    <3>3. QED BY <3>1, <3>2
  <2>2. P \in SUBSET SUBSET S OBVIOUS
  <2> HIDE DEF P
  <2>3. \A s \in SUBSET S : s \in P BY <2>1, <2>2, SetInduction
  <2> HIDE DEF h
  <2>4. \A s \in SUBSET S : h[s] = f[s] BY <2>3 DEF P
  <2>5. QED BY <2>4, <1>8, <1>9
<1>10. QED
  <2>1. PICK f : IsFold(f, S, c, g, 0, Nat) BY <1>7
  <2>2. h = f BY <1>6, <1>9, <2>1
  <2> HIDE DEF h, c, g
  <2>3. QED BY <1>5, <2>1, <2>2 DEF c, g

\* A sum of naturals is one, and any of its terms can be taken out.
LEMMA SumFacts ==
  ASSUME NEW S, IsFiniteSet(S), NEW v, \A x \in S : v[x] \in Nat
  PROVE  /\ SumFunctionOnSet(v, S) \in Nat
         /\ S = {} => SumFunctionOnSet(v, S) = 0
         /\ \A x \in S : SumFunctionOnSet(v, S) = v[x] + SumFunctionOnSet(v, S \ {x})
<1> DEFINE c == Picks(S)
           Of(s) == SumFunctionOnSet(v, s)
<1>1. \A s \in SUBSET S : c[s] = CHOOSE x \in s : TRUE BY DEF Picks
<1>2. \A s \in SUBSET S : s # {} => c[s] \in s BY <1>1
<1>3. PICK f : IsFold(f, S, c, Plus(v, S), 0, Nat) /\ Of(S) = f[S] BY SumIsFold
<1>4. \A x \in S, n \in Nat : Plus(v, S)[x][n] = v[x] + n BY DEF Plus
<1>5. \A s \in SUBSET S : f[s] \in Nat BY <1>3 DEF IsFold
<1> HIDE DEF c
<1>6. ASSUME NEW s \in SUBSET S PROVE Of(s) = f[s]
  <2>1. IsFiniteSet(s) BY FS_Subset
  <2>2. PICK h : IsFold(h, s, Picks(s), Plus(v, s), 0, Nat) /\ Of(s) = h[s] BY <2>1, SumIsFold
  <2>3. IsFold(h, s, c, Plus(v, S), 0, Nat)
    <3>1. \A u \in SUBSET s : Picks(s)[u] = c[u] BY DEF Picks, c
    <3>2. \A x \in s : Plus(v, s)[x] = Plus(v, S)[x] BY DEF Plus
    <3>3. \A u \in SUBSET s : u # {} => c[u] \in s BY <1>2
    <3>4. QED BY <2>2, <3>1, <3>2, <3>3, ZenonT(60) DEF IsFold
  <2> DEFINE k == [u \in SUBSET s |-> f[u]]
  <2>4. k = [u \in SUBSET s |-> f[u]] OBVIOUS
  <2>5. k[s] = f[s] OBVIOUS
  <2> HIDE DEF k, Of
  <2>6. IsFold(k, s, c, Plus(v, S), 0, Nat) BY <1>2, <1>3, <2>4, FoldsRestrict
  <2>7. \A u \in SUBSET s : u # {} => c[u] \in u BY <1>2
  <2>8. h = k BY <2>1, <2>3, <2>6, <2>7, FoldsUnique
  <2>9. QED BY <2>2, <2>5, <2>8
<1> HIDE DEF Of
<1>7. Of({}) = 0 BY <1>3, <1>6 DEF IsFold
<1>8. ASSUME NEW s \in SUBSET S, s # {} PROVE Of(s) = v[c[s]] + Of(s \ {c[s]})
  <2>1. c[s] \in S /\ s \ {c[s]} \in SUBSET S BY <1>2, <1>8
  <2>2. f[s] = Plus(v, S)[c[s]][f[s \ {c[s]}]] BY <1>3, <1>8 DEF IsFold
  <2>3. f[s] = v[c[s]] + f[s \ {c[s]}] BY <2>1, <2>2, <1>4, <1>5
  <2>4. Of(s) = f[s] /\ Of(s \ {c[s]}) = f[s \ {c[s]}] BY <2>1, <1>6
  <2>5. QED BY <2>3, <2>4
<1> DEFINE P == {s \in SUBSET S : \A x \in s : Of(s) = v[x] + Of(s \ {x})}
<1>9. ASSUME NEW s \in SUBSET S, \A u \in SUBSET s : u # s => u \in P PROVE s \in P
  <2> SUFFICES ASSUME NEW x \in s PROVE Of(s) = v[x] + Of(s \ {x}) OBVIOUS
  <2> DEFINE y == c[s]
  <2>1. y \in s /\ Of(s) = v[y] + Of(s \ {y}) BY <1>2, <1>8
  <2>2. CASE x = y BY <2>1, <2>2
  <2>3. CASE x # y
    <3> HIDE DEF y
    <3>1. s \ {y} \in P /\ s \ {x} \in P BY <2>1, <1>9
    <3>2. x \in s \ {y} /\ y \in s \ {x} BY <2>1, <2>3
    <3>3. Of(s \ {y}) = v[x] + Of((s \ {y}) \ {x}) BY <3>1, <3>2
    <3>4. Of(s \ {x}) = v[y] + Of((s \ {x}) \ {y}) BY <3>1, <3>2
    <3>5. (s \ {x}) \ {y} = (s \ {y}) \ {x} OBVIOUS
    <3>6. v[x] \in Nat /\ v[y] \in Nat BY <2>1
    <3>7. Of((s \ {y}) \ {x}) \in Nat BY <1>5, <1>6
    <3>8. QED BY <2>1, <3>3, <3>4, <3>5, <3>6, <3>7
  <2>4. QED BY <2>2, <2>3
<1>10. P \in SUBSET SUBSET S OBVIOUS
<1> HIDE DEF P
<1>11. S \in P BY <1>9, <1>10, SetInduction
<1>12. Of(S) \in Nat BY <1>5, <1>6
<1>13. QED BY <1>7, <1>11, <1>12 DEF P, Of

\* Sums of the same terms are the same.
LEMMA SumSame ==
  ASSUME NEW S, IsFiniteSet(S), NEW v, NEW w, \A x \in S : v[x] \in Nat /\ w[x] = v[x]
  PROVE  SumFunctionOnSet(w, S) = SumFunctionOnSet(v, S)
<1> DEFINE V(s) == SumFunctionOnSet(v, s)
           W(s) == SumFunctionOnSet(w, s)
           P == {s \in SUBSET S : V(s) = W(s)}
<1>1. ASSUME NEW s \in SUBSET S, \A u \in SUBSET s : u # s => u \in P PROVE s \in P
  <2>1. IsFiniteSet(s) BY FS_Subset
  <2>2. CASE s = {} BY <2>1, <2>2, SumFacts
  <2>3. CASE s # {}
    <3>1. PICK x \in s : TRUE BY <2>3
    <3>2. V(s) = v[x] + V(s \ {x}) BY <2>1, SumFacts
    <3>3. W(s) = w[x] + W(s \ {x}) BY <2>1, SumFacts
    <3>4. s \ {x} \in P BY <1>1
    <3>5. QED BY <3>2, <3>3, <3>4
  <2>4. QED BY <2>2, <2>3
<1>2. P \in SUBSET SUBSET S OBVIOUS
<1> HIDE DEF P
<1>3. S \in P BY <1>1, <1>2, SetInduction
<1>4. QED BY <1>3 DEF P

\* A term more.
LEMMA SumNew ==
  ASSUME NEW S, IsFiniteSet(S), NEW x, x \notin S, NEW v, \A y \in S \cup {x} : v[y] \in Nat
  PROVE  SumFunctionOnSet(v, S \cup {x}) = v[x] + SumFunctionOnSet(v, S)
<1> DEFINE T == S \cup {x}
<1>1. IsFiniteSet(T) BY FS_AddElement
<1>2. x \in T /\ T \ {x} = S OBVIOUS
<1>3. \A y \in T : v[y] \in Nat OBVIOUS
<1> HIDE DEF T
<1>4. SumFunctionOnSet(v, T) = v[x] + SumFunctionOnSet(v, T \ {x}) BY <1>1, <1>2, <1>3, SumFacts
<1>5. QED BY <1>2, <1>4 DEF T

\* The terms of a part and those of the rest.
LEMMA SumSplit ==
  ASSUME NEW S, IsFiniteSet(S), NEW v, \A x \in S : v[x] \in Nat, NEW A \in SUBSET S
  PROVE  SumFunctionOnSet(v, S) = SumFunctionOnSet(v, A) + SumFunctionOnSet(v, S \ A)
<1> DEFINE V(T) == SumFunctionOnSet(v, T)
           P == {T \in SUBSET S : V(T) = V(T \cap A) + V(T \ A)}
<1>1. ASSUME NEW T \in SUBSET S, \A U \in SUBSET T : U # T => U \in P PROVE T \in P
  <2>1. IsFiniteSet(T) /\ IsFiniteSet(T \cap A) /\ IsFiniteSet(T \ A) BY FS_Subset
  <2>2. V(T) \in Nat /\ V(T \cap A) \in Nat /\ V(T \ A) \in Nat BY <2>1, SumFacts
  <2>3. CASE T = {}
    <3>1. T \cap A = {} /\ T \ A = {} BY <2>3
    <3>2. V({}) = 0 BY FS_EmptySet, SumFacts
    <3>3. QED BY <2>3, <3>1, <3>2
  <2>4. CASE T # {}
    <3>1. PICK x \in T : TRUE BY <2>4
    <3> DEFINE U == T \ {x}
    <3>2. IsFiniteSet(U \cap A) /\ IsFiniteSet(U \ A) BY <2>1, FS_Subset
    <3>3. V(U \cap A) \in Nat /\ V(U \ A) \in Nat /\ v[x] \in Nat BY <3>2, SumFacts
    <3>4. V(T) = v[x] + V(U) BY <2>1, SumFacts
    <3>5. V(U) = V(U \cap A) + V(U \ A) BY <1>1
    <3>6. CASE x \in A
      <4>1. V(T \cap A) = v[x] + V((T \cap A) \ {x}) BY <2>1, <3>6, SumFacts
      <4>0. (T \cap A) \ {x} = U \cap A /\ T \ A = U \ A BY <3>6
      <4>2. V((T \cap A) \ {x}) = V(U \cap A) /\ V(T \ A) = V(U \ A) BY <4>0
      <4> HIDE DEF V, U
      <4>3. V(T) = V(T \cap A) + V(T \ A) BY <3>3, <3>4, <3>5, <4>1, <4>2
      <4>4. QED BY <4>3 DEF P
    <3>7. CASE x \notin A
      <4>1. V(T \ A) = v[x] + V((T \ A) \ {x}) BY <2>1, <3>7, SumFacts
      <4>0. (T \ A) \ {x} = U \ A /\ T \cap A = U \cap A BY <3>7
      <4>2. V((T \ A) \ {x}) = V(U \ A) /\ V(T \cap A) = V(U \cap A) BY <4>0
      <4> HIDE DEF V, U
      <4>3. V(T) = V(T \cap A) + V(T \ A) BY <3>3, <3>4, <3>5, <4>1, <4>2
      <4>4. QED BY <4>3 DEF P
    <3>8. QED BY <3>6, <3>7
  <2>5. QED BY <2>3, <2>4
<1>2. P \in SUBSET SUBSET S OBVIOUS
<1> HIDE DEF P
<1>3. S \in P BY <1>1, <1>2, SetInduction
<1>4. S \cap A = A OBVIOUS
<1>5. QED BY <1>3, <1>4 DEF P

\* Fewer terms make no larger sum.
LEMMA SumOfPart ==
  ASSUME NEW S, IsFiniteSet(S), NEW v, \A x \in S : v[x] \in Nat, NEW A \in SUBSET S
  PROVE  SumFunctionOnSet(v, A) <= SumFunctionOnSet(v, S)
<1> DEFINE a == SumFunctionOnSet(v, A)
           b == SumFunctionOnSet(v, S \ A)
           c == SumFunctionOnSet(v, S)
<1>1. c = a + b BY SumSplit
<1>2. IsFiniteSet(A) /\ IsFiniteSet(S \ A) BY FS_Subset
<1>3. a \in Nat /\ b \in Nat BY <1>2, SumFacts
<1> HIDE DEF a, b, c
<1>4. a <= c BY <1>1, <1>3
<1>5. QED BY <1>4 DEF a, c

\* A sum of sums.
LEMMA SumPlus ==
  ASSUME NEW S, IsFiniteSet(S), NEW v, NEW w, NEW u,
         \A x \in S : v[x] \in Nat /\ w[x] \in Nat /\ u[x] = v[x] + w[x]
  PROVE  SumFunctionOnSet(u, S) = SumFunctionOnSet(v, S) + SumFunctionOnSet(w, S)
<1> DEFINE V(T) == SumFunctionOnSet(v, T)
           W(T) == SumFunctionOnSet(w, T)
           U(T) == SumFunctionOnSet(u, T)
           P == {T \in SUBSET S : U(T) = V(T) + W(T)}
<1>0. \A x \in S : u[x] \in Nat OBVIOUS
<1>1. ASSUME NEW T \in SUBSET S, \A R \in SUBSET T : R # T => R \in P PROVE T \in P
  <2>1. IsFiniteSet(T) BY FS_Subset
  <2>2. CASE T = {}
    <3>1. U(T) = 0 /\ V(T) = 0 /\ W(T) = 0 BY <1>0, <2>1, <2>2, SumFacts
    <3>2. QED BY <3>1
  <2>3. CASE T # {}
    <3>1. PICK x \in T : TRUE BY <2>3
    <3> DEFINE R == T \ {x}
    <3>2. IsFiniteSet(R) BY <2>1, FS_Subset
    <3>3. V(R) \in Nat /\ W(R) \in Nat /\ v[x] \in Nat /\ w[x] \in Nat /\ u[x] = v[x] + w[x]
      BY <3>2, SumFacts
    <3>4. V(T) = v[x] + V(R) BY <2>1, SumFacts
    <3>5. W(T) = w[x] + W(R) BY <2>1, SumFacts
    <3>6. U(T) = u[x] + U(R) BY <1>0, <2>1, SumFacts
    <3>7. U(R) = V(R) + W(R) BY <1>1
    <3> HIDE DEF U, V, W, R
    <3>8. U(T) = V(T) + W(T) BY <3>3, <3>4, <3>5, <3>6, <3>7
    <3>9. QED BY <3>8
  <2>4. QED BY <2>2, <2>3
<1>2. P \in SUBSET SUBSET S OBVIOUS
<1> HIDE DEF P
<1>3. S \in P BY <1>1, <1>2, SetInduction
<1>4. QED BY <1>3 DEF P

\* Smaller terms make no larger sum.
LEMMA SumAtMost ==
  ASSUME NEW S, IsFiniteSet(S), NEW v, NEW w,
         \A x \in S : v[x] \in Nat /\ w[x] \in Nat /\ v[x] <= w[x]
  PROVE  SumFunctionOnSet(v, S) <= SumFunctionOnSet(w, S)
<1> DEFINE d == [x \in S |-> w[x] - v[x]]
           a == SumFunctionOnSet(v, S)
           b == SumFunctionOnSet(w, S)
           e == SumFunctionOnSet(d, S)
<1>1. \A x \in S : d[x] \in Nat /\ w[x] = v[x] + d[x] OBVIOUS
<1> HIDE DEF d
<1>2. b = a + e BY <1>1, SumPlus
<1>3. a \in Nat /\ e \in Nat BY <1>1, SumFacts
<1> HIDE DEF a, b, e
<1>4. a <= b BY <1>2, <1>3
<1>5. QED BY <1>4 DEF a, b

\* Terms that are zero.
LEMMA SumOfZeros ==
  ASSUME NEW S, IsFiniteSet(S), NEW v, \A x \in S : v[x] = 0
  PROVE  SumFunctionOnSet(v, S) = 0
<1> DEFINE V(T) == SumFunctionOnSet(v, T)
           P == {T \in SUBSET S : V(T) = 0}
<1>1. ASSUME NEW T \in SUBSET S, \A R \in SUBSET T : R # T => R \in P PROVE T \in P
  <2>1. IsFiniteSet(T) BY FS_Subset
  <2>2. CASE T = {} BY <2>1, <2>2, SumFacts
  <2>3. CASE T # {}
    <3>1. PICK x \in T : TRUE BY <2>3
    <3>2. V(T) = v[x] + V(T \ {x}) BY <2>1, SumFacts
    <3>3. V(T \ {x}) = 0 /\ v[x] = 0 BY <1>1
    <3> HIDE DEF V
    <3>4. V(T) = 0 BY <3>2, <3>3
    <3>5. QED BY <3>4
  <2>4. QED BY <2>2, <2>3
<1>2. P \in SUBSET SUBSET S OBVIOUS
<1> HIDE DEF P
<1>3. S \in P BY <1>1, <1>2, SetInduction
<1>4. QED BY <1>3 DEF P

\* Terms that are all the same.
LEMMA SumOfConstant ==
  ASSUME NEW S, IsFiniteSet(S), NEW c \in Nat, NEW v, \A x \in S : v[x] = c
  PROVE  SumFunctionOnSet(v, S) = c * Cardinality(S)
<1> DEFINE V(T) == SumFunctionOnSet(v, T)
           P == {T \in SUBSET S : V(T) = c * Cardinality(T)}
<1>1. ASSUME NEW T \in SUBSET S, \A R \in SUBSET T : R # T => R \in P PROVE T \in P
  <2>1. IsFiniteSet(T) BY FS_Subset
  <2>2. CASE T = {}
    <3>1. V(T) = 0 BY <2>1, <2>2, SumFacts
    <3>2. Cardinality(T) = 0 BY <2>2, FS_EmptySet
    <3>3. c * 0 = 0 OBVIOUS
    <3>4. QED BY <3>1, <3>2, <3>3
  <2>3. CASE T # {}
    <3>1. PICK x \in T : TRUE BY <2>3
    <3>2. V(T) = v[x] + V(T \ {x}) BY <2>1, SumFacts
    <3>3. V(T \ {x}) = c * Cardinality(T \ {x}) /\ v[x] = c BY <1>1
    <3>4. IsFiniteSet(T \ {x}) /\ Cardinality(T \ {x}) = Cardinality(T) - 1 BY <2>1, FS_RemoveElement
    <3>5. Cardinality(T \ {x}) \in Nat /\ Cardinality(T) \in Nat BY <2>1, <3>4, FS_CardinalityType
    <3> HIDE DEF V
    <3>6. PICK n \in Nat : n = Cardinality(T \ {x}) BY <3>5
    <3>7. Cardinality(T) = n + 1 BY <3>4, <3>5, <3>6
    <3>8. c * (n + 1) = c + c * n BY Z3
    <3>9. V(T) = c * Cardinality(T) BY <3>2, <3>3, <3>6, <3>7, <3>8
    <3>10. QED BY <3>9
  <2>4. QED BY <2>2, <2>3
<1>2. P \in SUBSET SUBSET S OBVIOUS
<1> HIDE DEF P
<1>3. S \in P BY <1>1, <1>2, SetInduction
<1>4. QED BY <1>3 DEF P

\* w is c times v.
IsMultiple(w, c, v, S) == \A x \in S : v[x] \in Nat /\ w[x] = c * v[x]

\* A sum of multiples.
LEMMA SumTimes ==
  ASSUME NEW S, IsFiniteSet(S), NEW c \in Nat, NEW v, NEW w, IsMultiple(w, c, v, S)
  PROVE  SumFunctionOnSet(w, S) = c * SumFunctionOnSet(v, S)
<1> DEFINE V(T) == SumFunctionOnSet(v, T)
           W(T) == SumFunctionOnSet(w, T)
           P == {T \in SUBSET S : W(T) = c * V(T)}
<1>0. \A x \in S : v[x] \in Nat /\ w[x] \in Nat
  <2> TAKE x \in S
  <2>1. v[x] \in Nat /\ w[x] = c * v[x] BY DEF IsMultiple
  <2>2. QED BY <2>1, SMT
<1>1. ASSUME NEW T \in SUBSET S, \A R \in SUBSET T : R # T => R \in P PROVE T \in P
  <2>1. IsFiniteSet(T) BY FS_Subset
  <2>2. CASE T = {}
    <3>1. V(T) = 0 /\ W(T) = 0 BY <1>0, <2>1, <2>2, SumFacts
    <3>2. c * 0 = 0 OBVIOUS
    <3>3. QED BY <3>1, <3>2
  <2>3. CASE T # {}
    <3>1. PICK x \in T : TRUE BY <2>3
    <3>2. V(T) = v[x] + V(T \ {x}) BY <1>0, <2>1, SumFacts
    <3>3. W(T) = w[x] + W(T \ {x}) BY <1>0, <2>1, SumFacts
    <3>4. W(T \ {x}) = c * V(T \ {x}) /\ w[x] = c * v[x] /\ v[x] \in Nat BY <1>1 DEF IsMultiple
    <3>5. V(T \ {x}) \in Nat BY <1>0, <2>1, SumFacts, FS_Subset
    <3> HIDE DEF V, W
    <3>6. PICK n \in Nat : n = V(T \ {x}) BY <3>5
    <3>7. PICK m \in Nat : m = v[x] BY <3>4
    <3>8. c * (m + n) = c * m + c * n BY Z3
    <3>9. W(T) = c * V(T) BY <3>2, <3>3, <3>4, <3>6, <3>7, <3>8
    <3>10. QED BY <3>9
  <2>4. QED BY <2>2, <2>3
<1>2. P \in SUBSET SUBSET S OBVIOUS
<1> HIDE DEF P
<1>3. S \in P BY <1>1, <1>2, SetInduction
<1>4. QED BY <1>3 DEF P

\* v is c on A and zero on the rest of S.
IsChosen(v, S, A, c) == (\A x \in A : v[x] = c) /\ \A x \in S \ A : v[x] = 0

\* Terms that are the same on a part and zero elsewhere.
LEMMA SumOfChosen ==
  ASSUME NEW S, IsFiniteSet(S), NEW c, c \in Nat, NEW A, A \subseteq S,
         NEW v, IsChosen(v, S, A, c)
  PROVE  SumFunctionOnSet(v, S) = c * Cardinality(A)
<1>1. IsFiniteSet(A) /\ IsFiniteSet(S \ A) BY FS_Subset
<1>2. \A x \in S : v[x] \in Nat BY DEF IsChosen
<1>3. SumFunctionOnSet(v, S) = SumFunctionOnSet(v, A) + SumFunctionOnSet(v, S \ A) BY <1>2, SumSplit
<1>4. \A x \in A : v[x] = c BY DEF IsChosen
<1>5. SumFunctionOnSet(v, A) = c * Cardinality(A) BY <1>1, <1>4, SumOfConstant
<1>6. \A x \in S \ A : v[x] = 0 BY DEF IsChosen
<1>7. SumFunctionOnSet(v, S \ A) = 0 BY <1>1, <1>6, SumOfZeros
<1>8. SumFunctionOnSet(v, A) \in Nat BY <1>1, <1>2, SumFacts
<1>9. QED BY <1>3, <1>5, <1>7, <1>8

\* A sum in which one term changes by an amount.
LEMMA SumChanged ==
  ASSUME NEW S, IsFiniteSet(S), NEW v, \A y \in S : v[y] \in Nat, NEW x \in S, NEW d \in Nat,
         NEW w, \A y \in S : w[y] = IF y = x THEN v[y] + d ELSE v[y]
  PROVE  SumFunctionOnSet(w, S) = SumFunctionOnSet(v, S) + d
<1> DEFINE R == S \ {x}
           a == SumFunctionOnSet(v, R)
<1>1. \A y \in S : w[y] \in Nat OBVIOUS
<1>2. IsFiniteSet(R) BY FS_Subset
<1>3. \A y \in R : v[y] \in Nat /\ w[y] = v[y] OBVIOUS
<1>4. SumFunctionOnSet(v, S) = v[x] + a BY SumFacts
<1>5. SumFunctionOnSet(w, S) = w[x] + SumFunctionOnSet(w, R) BY <1>1, SumFacts
<1>6. SumFunctionOnSet(w, R) = a BY <1>2, <1>3, SumSame
<1>7. a \in Nat BY <1>2, <1>3, SumFacts
<1> HIDE DEF a
<1>8. QED BY <1>4, <1>5, <1>6, <1>7

\* What a finite set names is finite.
LEMMA ImageIsFinite ==
  ASSUME NEW S, IsFiniteSet(S), NEW f, NEW T, \A y \in T : \E x \in S : f[x] = y
  PROVE  IsFiniteSet(T)
<1> DEFINE R == {x \in S : f[x] \in T}
           g == [x \in R |-> f[x]]
<1>1. IsFiniteSet(R) BY FS_Subset
<1>2. g \in Surjection(R, T) BY DEF Surjection
<1> HIDE DEF R, g
<1>3. QED BY <1>1, <1>2, FS_Surjection

\* p has, for each key of B, what v has on the members of S with that key.
ArePartsOf(p, v, key, S, B) == \A b \in B : p[b] = SumFunctionOnSet(v, {x \in S : key[x] = b})

\* The sums of the parts that a key divides S into make the whole.
LEMMA SumOfParts ==
  ASSUME NEW S, IsFiniteSet(S), NEW v, \A x \in S : v[x] \in Nat,
         NEW B, IsFiniteSet(B), NEW key, \A x \in S : key[x] \in B,
         NEW p, ArePartsOf(p, v, key, S, B)
  PROVE  SumFunctionOnSet(p, B) = SumFunctionOnSet(v, S)
<1> SUFFICES ASSUME \A b \in B : p[b] = SumFunctionOnSet(v, {x \in S : key[x] = b})
             PROVE  SumFunctionOnSet(p, B) = SumFunctionOnSet(v, S)
  BY DEF ArePartsOf
<1> DEFINE Keyed(C) == {x \in S : key[x] \in C}
           V(T) == SumFunctionOnSet(v, T)
           P == {C \in SUBSET B : SumFunctionOnSet(p, C) = V(Keyed(C))}
<1>0. \A b \in B : p[b] \in Nat
  <2> TAKE b \in B
  <2>1. IsFiniteSet({x \in S : key[x] = b}) BY FS_Subset
  <2>2. V({x \in S : key[x] = b}) \in Nat BY <2>1, SumFacts
  <2>3. QED BY <2>2
<1>1. ASSUME NEW C \in SUBSET B, \A R \in SUBSET C : R # C => R \in P PROVE C \in P
  <2>1. IsFiniteSet(C) BY FS_Subset
  <2>2. CASE C = {}
    <3>1. SumFunctionOnSet(p, C) = 0 BY <1>0, <2>1, <2>2, SumFacts
    <3>2. Keyed(C) = {} BY <2>2
    <3>3. V({}) = 0 BY FS_EmptySet, SumFacts
    <3>4. QED BY <3>1, <3>2, <3>3
  <2>3. CASE C # {}
    <3>1. PICK b \in C : TRUE BY <2>3
    <3> DEFINE R == C \ {b}
               A == {x \in S : key[x] = b}
    <3>2. SumFunctionOnSet(p, C) = p[b] + SumFunctionOnSet(p, R) BY <1>0, <2>1, SumFacts
    <3>3. SumFunctionOnSet(p, R) = V(Keyed(R)) BY <1>1
    <3>4. IsFiniteSet(Keyed(C)) /\ A \in SUBSET Keyed(C) /\ Keyed(C) \ A = Keyed(R) BY FS_Subset
    <3>5. \A x \in Keyed(C) : v[x] \in Nat OBVIOUS
    <3>6. p[b] = V(A) OBVIOUS
    <3> DEFINE K == Keyed(C)
    <3>7. IsFiniteSet(K) /\ A \in SUBSET K /\ (\A x \in K : v[x] \in Nat) BY <3>4, <3>5
    <3> HIDE DEF K, A
    <3>8. SumFunctionOnSet(v, K) = SumFunctionOnSet(v, A) + SumFunctionOnSet(v, K \ A) BY <3>7, SumSplit
    <3>9. V(Keyed(C)) = V(A) + V(Keyed(R)) BY <3>4, <3>8 DEF K
    <3> HIDE DEF V, Keyed, R
    <3>10. SumFunctionOnSet(p, C) = V(Keyed(C)) BY <3>2, <3>3, <3>6, <3>9
    <3>11. QED BY <3>10
  <2>4. QED BY <2>2, <2>3
<1>2. P \in SUBSET SUBSET B OBVIOUS
<1> HIDE DEF P
<1>3. B \in P BY <1>1, <1>2, SetInduction
<1>4. Keyed(B) = S OBVIOUS
<1>5. QED BY <1>3, <1>4 DEF P

\* A table by rows and by columns, and the sums of each row and of each column.
IsTable(row, col, r, c, A, B) ==
  /\ \A a \in A, b \in B : row[a][b] \in Nat
  /\ \A a \in A, b \in B : col[b][a] = row[a][b]
  /\ \A a \in A : r[a] = SumFunctionOnSet(row[a], B)
  /\ \A b \in B : c[b] = SumFunctionOnSet(col[b], A)

\* The sum of a table is the same by rows and by columns.
LEMMA SumOfTable ==
  ASSUME NEW A, IsFiniteSet(A), NEW B, IsFiniteSet(B),
         NEW row, NEW col, NEW r, NEW c, IsTable(row, col, r, c, A, B)
  PROVE  SumFunctionOnSet(r, A) = SumFunctionOnSet(c, B)
<1> SUFFICES ASSUME \A a \in A, b \in B : row[a][b] \in Nat, \A a \in A, b \in B : col[b][a] = row[a][b],
                    \A a \in A : r[a] = SumFunctionOnSet(row[a], B),
                    \A b \in B : c[b] = SumFunctionOnSet(col[b], A)
             PROVE  SumFunctionOnSet(r, A) = SumFunctionOnSet(c, B)
  BY DEF IsTable
<1> DEFINE upto(C) == [b \in B |-> SumFunctionOnSet(col[b], C)]
           U(C) == SumFunctionOnSet(upto(C), B)
           P == {C \in SUBSET A : SumFunctionOnSet(r, C) = U(C)}
<1>0. \A a \in A : r[a] \in Nat BY SumFacts
<1>1. ASSUME NEW C \in SUBSET A, NEW b \in B
      PROVE  /\ SumFunctionOnSet(col[b], C) \in Nat
             /\ C = {} => SumFunctionOnSet(col[b], C) = 0
             /\ \A a \in C : SumFunctionOnSet(col[b], C) = col[b][a] + SumFunctionOnSet(col[b], C \ {a})
  <2>1. IsFiniteSet(C) /\ \A a \in C : col[b][a] \in Nat BY FS_Subset
  <2>2. QED BY <2>1, SumFacts
<1>2. ASSUME NEW C \in SUBSET A, \A R \in SUBSET C : R # C => R \in P PROVE C \in P
  <2>1. IsFiniteSet(C) BY FS_Subset
  <2>2. CASE C = {}
    <3>1. SumFunctionOnSet(r, C) = 0 BY <1>0, <2>1, <2>2, SumFacts
    <3> DEFINE u == upto(C)
    <3>2. \A b \in B : u[b] = 0 BY <1>1, <2>2
    <3> HIDE DEF u
    <3>3. SumFunctionOnSet(u, B) = 0 BY <3>2, SumOfZeros
    <3>4. QED BY <3>1, <3>3 DEF u
  <2>3. CASE C # {}
    <3>1. PICK a \in C : TRUE BY <2>3
    <3> DEFINE R == C \ {a}
               u == upto(C)
               w == upto(R)
               v == row[a]
    <3>2. SumFunctionOnSet(r, C) = r[a] + SumFunctionOnSet(r, R) BY <1>0, <2>1, SumFacts
    <3>3. SumFunctionOnSet(r, R) = SumFunctionOnSet(w, B) BY <1>2
    <3>4. ASSUME NEW b \in B PROVE v[b] \in Nat /\ w[b] \in Nat /\ u[b] = v[b] + w[b]
      <4>1. R \in SUBSET A OBVIOUS
      <4>2. SumFunctionOnSet(col[b], R) \in Nat BY <1>1, <4>1
      <4>3. SumFunctionOnSet(col[b], C) = col[b][a] + SumFunctionOnSet(col[b], R) BY <1>1
      <4>4. QED BY <4>2, <4>3
    <3>5. r[a] = SumFunctionOnSet(v, B) OBVIOUS
    <3> HIDE DEF u, w, v
    <3>6. SumFunctionOnSet(u, B) = SumFunctionOnSet(v, B) + SumFunctionOnSet(w, B) BY <3>4, SumPlus
    <3>7. SumFunctionOnSet(r, C) = SumFunctionOnSet(u, B) BY <3>2, <3>3, <3>5, <3>6
    <3>8. QED BY <3>7 DEF u
  <2>4. QED BY <2>2, <2>3
<1>3. P \in SUBSET SUBSET A OBVIOUS
<1> HIDE DEF P
<1>4. A \in P BY <1>2, <1>3, SetInduction
<1>5. SumFunctionOnSet(r, A) = U(A) BY <1>4 DEF P
<1> DEFINE u == upto(A)
<1>6. \A b \in B : c[b] \in Nat /\ u[b] = c[b] BY <1>1
<1> HIDE DEF u
<1>7. SumFunctionOnSet(u, B) = SumFunctionOnSet(c, B) BY <1>6, SumSame
<1>8. QED BY <1>5, <1>7 DEF u

\* Terms that each have one of their own among others, which is no smaller.
LEMMA SumOfImage ==
  ASSUME NEW S, IsFiniteSet(S), NEW T, IsFiniteSet(T),
         NEW v, \A x \in S : v[x] \in Nat, NEW w, \A y \in T : w[y] \in Nat,
         NEW f, \A x \in S : f[x] \in T /\ v[x] <= w[f[x]],
         \A x, y \in S : f[x] = f[y] => x = y
  PROVE  SumFunctionOnSet(v, S) <= SumFunctionOnSet(w, T)
<1> DEFINE V(U) == SumFunctionOnSet(v, U)
           W(U) == SumFunctionOnSet(w, U)
           Im(U) == {f[x] : x \in U}
           P == {U \in SUBSET S : V(U) <= W(Im(U))}
<1>1. ASSUME NEW U \in SUBSET S, \A R \in SUBSET U : R # U => R \in P PROVE U \in P
  <2>1. IsFiniteSet(U) BY FS_Subset
  <2>2. Im(U) \in SUBSET T /\ IsFiniteSet(Im(U)) BY FS_Subset
  <2>3. CASE U = {}
    <3>1. V(U) = 0 BY <2>1, <2>3, SumFacts
    <3>2. W(Im(U)) \in Nat BY <2>2, SumFacts
    <3> HIDE DEF V, W
    <3>3. V(U) <= W(Im(U)) BY <3>1, <3>2
    <3>4. QED BY <3>3
  <2>4. CASE U # {}
    <3>1. PICK x \in U : TRUE BY <2>4
    <3> DEFINE R == U \ {x}
               I == Im(U)
               y == f[x]
    <3>2. V(U) = v[x] + V(R) BY <2>1, SumFacts
    <3>3. y \in I /\ I \ {y} = Im(R) OBVIOUS
    <3>4. \A z \in I : w[z] \in Nat BY <2>2
    <3>5. IsFiniteSet(I) BY <2>2
    <3>6. v[x] <= w[y] /\ v[x] \in Nat OBVIOUS
    <3>7. IsFiniteSet(R) /\ IsFiniteSet(I \ {y}) BY <2>1, <3>5, FS_Subset
    <3>8. V(R) \in Nat BY <3>7, SumFacts
    <3>9. V(R) <= W(Im(R)) BY <1>1
    <3> HIDE DEF I, y, R
    <3>10. W(I) = w[y] + W(I \ {y}) BY <3>3, <3>4, <3>5, SumFacts
    <3>11. W(I \ {y}) \in Nat /\ w[y] \in Nat BY <3>3, <3>4, <3>7, SumFacts
    <3> HIDE DEF V, W, Im
    <3>12. V(U) <= W(I) BY <3>2, <3>3, <3>6, <3>8, <3>9, <3>10, <3>11
    <3>13. QED BY <3>12 DEF I
  <2>5. QED BY <2>3, <2>4
<1>2. P \in SUBSET SUBSET S OBVIOUS
<1> HIDE DEF P
<1>3. S \in P BY <1>1, <1>2, SetInduction
<1>4. V(S) <= W(Im(S)) BY <1>3 DEF P
<1> DEFINE I == Im(S)
<1>5. I \in SUBSET T OBVIOUS
<1> HIDE DEF I
<1>6. W(I) <= W(T) BY <1>5, SumOfPart
<1>7. IsFiniteSet(I) BY <1>5, FS_Subset
<1>8. W(I) \in Nat BY <1>5, <1>7, SumFacts
<1>9. V(S) \in Nat /\ W(T) \in Nat BY SumFacts
<1>10. V(S) <= W(I) BY <1>4 DEF I
<1> HIDE DEF V, W
<1>11. V(S) <= W(T) BY <1>6, <1>8, <1>9, <1>10
<1>12. QED BY <1>11 DEF V, W

-----------------------------------------------------------------------------
(* Places in a line.                                                        *)

\* Each member of D has the others before or behind it: ahead[i] are those before i.
IsLine(ahead, D) ==
  /\ \A i \in D : ahead[i] \in SUBSET (D \ {i})
  /\ \A i, j \in D : i # j => i \in ahead[j] \/ j \in ahead[i]
  /\ \A i \in D : \A j \in ahead[i] : ahead[j] \subseteq ahead[i]

\* Places are the numbers from 0, each taken once.
LEMMA PlacesInLine ==
  ASSUME NEW D, IsFiniteSet(D), NEW ahead, IsLine(ahead, D)
  PROVE  /\ \A i \in D : Cardinality(ahead[i]) \in 0 .. Cardinality(D) - 1
         /\ \A i \in D : \A j \in ahead[i] : Cardinality(ahead[j]) < Cardinality(ahead[i])
         /\ \A i, j \in D : Cardinality(ahead[i]) = Cardinality(ahead[j]) => i = j
         /\ \A k \in 0 .. Cardinality(D) - 1 : \E i \in D : Cardinality(ahead[i]) = k
<1> DEFINE n == Cardinality(D)
           place == [i \in D |-> Cardinality(ahead[i])]
<1>1. n \in Nat
  BY FS_CardinalityType
<1>2. ASSUME NEW i \in D PROVE IsFiniteSet(ahead[i]) /\ place[i] \in 0 .. n - 1
  <2>1. ahead[i] \subseteq D \ {i}
    BY DEF IsLine
  <2>2. IsFiniteSet(D \ {i}) /\ Cardinality(D \ {i}) = n - 1
    BY FS_RemoveElement
  <2>3. IsFiniteSet(ahead[i]) /\ Cardinality(ahead[i]) <= n - 1
    BY <2>1, <2>2, FS_Subset
  <2>4. Cardinality(ahead[i]) \in Nat
    BY <2>3, FS_CardinalityType
  <2> QED  BY <2>3, <2>4, <1>1
<1>3. ASSUME NEW i \in D, NEW j \in ahead[i] PROVE j \in D /\ place[j] < place[i]
  <2>1. j \in D /\ ahead[j] \subseteq ahead[i] /\ j \notin ahead[j]
    BY DEF IsLine
  <2>2. ahead[j] # ahead[i]
    BY <2>1
  <2>3. /\ Cardinality(ahead[j]) <= Cardinality(ahead[i])
        /\ Cardinality(ahead[j]) # Cardinality(ahead[i])
    BY <1>2, <2>1, <2>2, FS_Subset
  <2>4. place[i] \in 0 .. n - 1 /\ place[j] \in 0 .. n - 1
    BY <1>2, <2>1
  <2>5. place[j] <= place[i] /\ place[j] # place[i]
    BY <2>1, <2>3
  <2> HIDE DEF place, n
  <2> QED  BY <1>1, <2>1, <2>4, <2>5
<1>4. ASSUME NEW i \in D, NEW j \in D, i # j PROVE place[i] # place[j]
  <2>1. place[i] < place[j] \/ place[j] < place[i]
    BY <1>3, <1>4 DEF IsLine
  <2>2. place[i] \in 0 .. n - 1 /\ place[j] \in 0 .. n - 1
    BY <1>2
  <2> HIDE DEF place, n
  <2> QED  BY <1>1, <2>1, <2>2
<1>5. \A i \in D : place[i] = Cardinality(ahead[i])
  OBVIOUS
<1>6. place \in Injection(D, 0 .. n - 1)
  <2>1. place \in [D -> 0 .. n - 1]
    BY <1>2
  <2> HIDE DEF n, place
  <2>2. IsInjective(place)
    BY <2>1, <1>4 DEF IsInjective
  <2> QED  BY <2>1, <2>2 DEF Injection
<1> HIDE DEF place
<1>7. place \in Surjection(D, 0 .. n - 1)
  <2> HIDE DEF n
  <2>1. IsFiniteSet(0 .. n - 1) /\ Cardinality(0 .. n - 1) = n
    BY <1>1, FS_Interval
  <2> QED  BY <1>6, <2>1, FS_Injection DEF n
<1>8. \A k \in 0 .. n - 1 : \E i \in D : place[i] = k
  BY <1>7 DEF Surjection
<1> QED  BY <1>2, <1>3, <1>4, <1>5, <1>8

LEMMA EachPlaceIsTaken ==
  ASSUME NEW D, IsFiniteSet(D), NEW ahead, IsLine(ahead, D), NEW k \in 0 .. Cardinality(D) - 1
  PROVE  \E i \in D : Cardinality(ahead[i]) = k
  BY PlacesInLine

\* As many have a place below k as there are such places.
LEMMA FirstInLine ==
  ASSUME NEW D, IsFiniteSet(D), NEW ahead, IsLine(ahead, D), NEW k \in 0 .. Cardinality(D)
  PROVE  Cardinality({i \in D : Cardinality(ahead[i]) < k}) = k
<1> DEFINE n == Cardinality(D)
           first == {i \in D : Cardinality(ahead[i]) < k}
           served == [i \in first |-> Cardinality(ahead[i])]
<1>1. n \in Nat
  BY FS_CardinalityType
<1>2. /\ \A i \in D : Cardinality(ahead[i]) \in 0 .. n - 1
      /\ \A i, j \in D : Cardinality(ahead[i]) = Cardinality(ahead[j]) => i = j
      /\ \A m \in 0 .. n - 1 : \E i \in D : Cardinality(ahead[i]) = m
  BY PlacesInLine
<1>3. k \in 0 .. n
  OBVIOUS
<1> HIDE DEF n
<1>4. served \in Bijection(first, 0 .. k - 1)
  <2>1. served \in [first -> 0 .. k - 1]
    <3> SUFFICES ASSUME NEW i \in first PROVE Cardinality(ahead[i]) \in 0 .. k - 1
      OBVIOUS
    <3>1. i \in D /\ Cardinality(ahead[i]) < k /\ Cardinality(ahead[i]) \in 0 .. n - 1
      BY <1>2
    <3> QED  BY <3>1, <1>1, <1>3
  <2>2. IsInjective(served)
    BY <1>2, <2>1 DEF IsInjective
  <2>3. ASSUME NEW m \in 0 .. k - 1 PROVE \E i \in first : served[i] = m
    <3>1. m \in 0 .. n - 1
      BY <1>1, <1>3
    <3>2. PICK i \in D : Cardinality(ahead[i]) = m
      BY <1>2, <3>1
    <3>3. m < k
      BY <1>1, <1>3
    <3>4. i \in first /\ served[i] = m
      BY <3>2, <3>3
    <3> QED  BY <3>4
  <2> QED  BY <2>1, <2>2, <2>3 DEF Bijection, Injection, Surjection
<1>5. IsFiniteSet(first)
  BY FS_Subset
<1>6. Cardinality(0 .. k - 1) = Cardinality(first)
  BY <1>4, <1>5, FS_Bijection DEF ExistsBijection
<1>7. Cardinality(0 .. k - 1) = k
  BY <1>1, <1>3, FS_Interval
<1> QED  BY <1>6, <1>7

\* Numbers in their order: each has a place from 1, no two the same, and the smaller the lower.
Place(S, i) == Cardinality({j \in S : j <= i})

LEMMA OrderIsLine ==
  ASSUME NEW S, \A i \in S : i \in Nat, IsFiniteSet(S)
  PROVE  \E ahead : /\ IsLine(ahead, S)
                    /\ \A i \in S : /\ ahead[i] = {j \in S : j < i}
                                    /\ Place(S, i) = Cardinality(ahead[i]) + 1
                                    /\ Cardinality(ahead[i]) \in Nat
<1>0. \A i \in S : i \in Nat
  OBVIOUS
<1>2. PICK ahead : \A i \in S : ahead[i] = {j \in S : j < i}
  <2> WITNESS [i \in S |-> {j \in S : j < i}]
  <2> QED  OBVIOUS
<1>3. IsLine(ahead, S)
  <2>1. \A i \in S : ahead[i] \in SUBSET (S \ {i})
    BY <1>0, <1>2
  <2>2. \A i, j \in S : i # j => i \in ahead[j] \/ j \in ahead[i]
    BY <1>2
  <2>3. ASSUME NEW i \in S, NEW j \in ahead[i], NEW k \in ahead[j] PROVE k \in ahead[i]
    <3>1. j \in S /\ j < i
      BY <1>2
    <3>2. k \in S /\ k < j
      BY <1>2, <3>1
    <3>3. k < i
      BY <1>0, <3>1, <3>2
    <3> QED  BY <1>2, <3>2, <3>3
  <2> QED  BY <2>1, <2>2, <2>3 DEF IsLine
<1>4. ASSUME NEW i \in S
      PROVE  Place(S, i) = Cardinality(ahead[i]) + 1 /\ Cardinality(ahead[i]) \in Nat
  <2>1. {j \in S : j <= i} = ahead[i] \cup {i}
    <3>1. \A j \in S : j <= i <=> (j < i \/ j = i)
      BY <1>0
    <3> QED  BY <1>2, <3>1
  <2>2. IsFiniteSet(ahead[i]) /\ i \notin ahead[i]
    <3>1. ahead[i] \in SUBSET S /\ ~ i < i
      BY <1>0, <1>2
    <3> QED  BY <1>2, <3>1, FS_Subset
  <2>3. Cardinality(ahead[i] \cup {i}) = Cardinality(ahead[i]) + 1
    BY <2>2, FS_AddElement
  <2> QED  BY <2>1, <2>2, <2>3, FS_CardinalityType DEF Place
<1> QED  BY <1>2, <1>3, <1>4

LEMMA PlacesInOrder ==
  ASSUME NEW S, \A i \in S : i \in Nat, IsFiniteSet(S)
  PROVE  /\ Cardinality(S) \in Nat
         /\ \A i \in S : Place(S, i) \in 1 .. Cardinality(S)
         /\ \A i, j \in S : i < j => Place(S, i) < Place(S, j)
         /\ \A i, j \in S : Place(S, i) = Place(S, j) => i = j
         /\ \A k \in 1 .. Cardinality(S) : \E i \in S : Place(S, i) = k
<1> DEFINE n == Cardinality(S)
<1>1. n \in Nat
  BY FS_CardinalityType
<1>2. PICK ahead : /\ IsLine(ahead, S)
                   /\ \A i \in S : /\ ahead[i] = {j \in S : j < i}
                                   /\ Place(S, i) = Cardinality(ahead[i]) + 1
                                   /\ Cardinality(ahead[i]) \in Nat
  BY OrderIsLine
<1>3. IsLine(ahead, S)
  BY <1>2
<1>4. \A i \in S : Place(S, i) = Cardinality(ahead[i]) + 1 /\ Cardinality(ahead[i]) \in Nat
  BY <1>2
<1>5. /\ \A i \in S : Cardinality(ahead[i]) \in 0 .. Cardinality(S) - 1
      /\ \A i \in S : \A j \in ahead[i] : Cardinality(ahead[j]) < Cardinality(ahead[i])
      /\ \A i, j \in S : Cardinality(ahead[i]) = Cardinality(ahead[j]) => i = j
      /\ \A k \in 0 .. Cardinality(S) - 1 : \E i \in S : Cardinality(ahead[i]) = k
  <2>1. \A i \in S : Cardinality(ahead[i]) \in 0 .. Cardinality(S) - 1
    BY <1>3, PlacesInLine
  <2>2. \A i \in S : \A j \in ahead[i] : Cardinality(ahead[j]) < Cardinality(ahead[i])
    BY <1>3, PlacesInLine
  <2>3. \A i, j \in S : Cardinality(ahead[i]) = Cardinality(ahead[j]) => i = j
    BY <1>3, PlacesInLine
  <2>4. ASSUME NEW k \in 0 .. Cardinality(S) - 1 PROVE \E i \in S : Cardinality(ahead[i]) = k
    BY <1>3, EachPlaceIsTaken
  <2> QED  BY <2>1, <2>2, <2>3, <2>4
<1> HIDE DEF n
<1>6. ASSUME NEW i \in S PROVE Place(S, i) \in 1 .. n
  <2>1. Cardinality(ahead[i]) \in 0 .. n - 1
    BY <1>5 DEF n
  <2> QED  BY <1>1, <1>4, <2>1
<1>7. ASSUME NEW i \in S, NEW j \in S, i < j PROVE Place(S, i) < Place(S, j)
  <2>1. Cardinality(ahead[i]) < Cardinality(ahead[j])
    BY <1>2, <1>5, <1>7
  <2> QED  BY <1>4, <2>1
<1>8. ASSUME NEW i \in S, NEW j \in S, Place(S, i) = Place(S, j) PROVE i = j
  <2>1. Cardinality(ahead[i]) = Cardinality(ahead[j])
    BY <1>4, <1>8
  <2> QED  BY <1>5, <2>1
<1>9. ASSUME NEW k \in 1 .. n PROVE \E i \in S : Place(S, i) = k
  <2>1. k - 1 \in 0 .. n - 1 /\ k \in Nat
    BY <1>1
  <2>2. PICK i \in S : Cardinality(ahead[i]) = k - 1
    BY <1>5, <2>1 DEF n
  <2> QED  BY <1>4, <2>1, <2>2
<1> QED  BY <1>1, <1>6, <1>7, <1>8, <1>9 DEF n

\* As many have a place up to k as there are such places.
LEMMA FirstPlaces ==
  ASSUME NEW S, \A i \in S : i \in Nat, IsFiniteSet(S), NEW k \in 0 .. Cardinality(S)
  PROVE  Cardinality({i \in S : Place(S, i) <= k}) = k
<1>1. PICK ahead : /\ IsLine(ahead, S)
                   /\ \A i \in S : /\ ahead[i] = {j \in S : j < i}
                                   /\ Place(S, i) = Cardinality(ahead[i]) + 1
                                   /\ Cardinality(ahead[i]) \in Nat
  BY OrderIsLine
<1>2. Cardinality({i \in S : Cardinality(ahead[i]) < k}) = k
  BY <1>1, FirstInLine
<1>3. k \in Nat
  BY FS_CardinalityType
<1>4. \A i \in S : Place(S, i) <= k <=> Cardinality(ahead[i]) < k
  BY <1>1, <1>3
<1>5. {i \in S : Place(S, i) <= k} = {i \in S : Cardinality(ahead[i]) < k}
  BY <1>4
<1> QED  BY <1>2, <1>5

\* A number that is larger than all has the last place, and the others keep theirs.
LEMMA PlaceBehind ==
  ASSUME NEW S, \A i \in S : i \in Nat, IsFiniteSet(S), NEW n \in Nat, \A i \in S : i < n
  PROVE  /\ Cardinality(S \cup {n}) = Cardinality(S) + 1
         /\ Place(S \cup {n}, n) = Cardinality(S) + 1
         /\ \A i \in S : Place(S \cup {n}, i) = Place(S, i)
<1>1. n \notin S
  BY SMT
<1>2. Cardinality(S \cup {n}) = Cardinality(S) + 1
  BY <1>1, FS_AddElement
<1>3. {j \in S \cup {n} : j <= n} = S \cup {n}
  OBVIOUS
<1>4. ASSUME NEW i \in S PROVE {j \in S \cup {n} : j <= i} = {j \in S : j <= i}
  <2>1. i \in Nat /\ ~ n <= i
    OBVIOUS
  <2> QED  BY <2>1
<1> QED  BY <1>2, <1>3, <1>4 DEF Place

\* line has in each place the one with as many before it.
IsPlaced(line, ahead, D) ==
  /\ DOMAIN line = 1 .. Cardinality(D)
  /\ \A k \in DOMAIN line : line[k] \in D
  /\ \A k \in DOMAIN line : Cardinality(ahead[line[k]]) = k - 1

LEMMA LineUp ==
  ASSUME NEW D, IsFiniteSet(D), NEW ahead, IsLine(ahead, D), NEW line, IsPlaced(line, ahead, D)
  PROVE  /\ \A i \in D : \E k \in DOMAIN line : line[k] = i
         /\ \A a, b \in DOMAIN line : a < b => line[a] \in ahead[line[b]]
<1> DEFINE n == Cardinality(D)
<1>0. /\ DOMAIN line = 1 .. n
      /\ \A k \in 1 .. n : line[k] \in D /\ Cardinality(ahead[line[k]]) = k - 1
  BY DEF IsPlaced
<1>1. n \in Nat
  BY FS_CardinalityType
<1>2. /\ \A i \in D : Cardinality(ahead[i]) \in 0 .. n - 1
      /\ \A i \in D : \A j \in ahead[i] : Cardinality(ahead[j]) < Cardinality(ahead[i])
      /\ \A i, j \in D : Cardinality(ahead[i]) = Cardinality(ahead[j]) => i = j
  BY PlacesInLine
<1> HIDE DEF n
<1>3. ASSUME NEW i \in D PROVE \E k \in 1 .. n : line[k] = i
  <2>1. PICK p \in 0 .. n - 1 : p = Cardinality(ahead[i])
    BY <1>2
  <2>2. p + 1 \in 1 .. n /\ (p + 1) - 1 = p
    BY <1>1
  <2>3. line[p + 1] \in D /\ Cardinality(ahead[line[p + 1]]) = p
    BY <1>0, <2>2
  <2> QED  BY <1>2, <2>1, <2>2, <2>3
<1>4. ASSUME NEW a \in 1 .. n, NEW b \in 1 .. n, a < b PROVE line[a] \in ahead[line[b]]
  <2>1. line[a] \in D /\ line[b] \in D /\ Cardinality(ahead[line[a]]) = a - 1 /\ Cardinality(ahead[line[b]]) = b - 1
    BY <1>0
  <2>2. line[a] # line[b]
    BY <1>4, <2>1
  <2>3. line[a] \in ahead[line[b]] \/ line[b] \in ahead[line[a]]
    BY <2>1, <2>2 DEF IsLine
  <2>4. CASE line[b] \in ahead[line[a]]
    <3>1. b - 1 < a - 1
      BY <1>2, <2>1, <2>4
    <3> QED  BY <1>4, <3>1
  <2> QED  BY <2>3, <2>4
<1> QED  BY <1>0, <1>3, <1>4

\* w is v with n added at x.
IsGrown(w, v, S, x, n) ==
  \A y \in S \cup {x} : w[y] = (IF y \in S THEN v[y] ELSE 0) + (IF y = x THEN n ELSE 0)

\* A sum where n was added at x, which may be new.
LEMMA SumGrows ==
  ASSUME NEW S, IsFiniteSet(S), NEW v, \A y \in S : v[y] \in Nat, NEW x, NEW n \in Nat,
         NEW w, IsGrown(w, v, S, x, n)
  PROVE  SumFunctionOnSet(w, S \cup {x}) = SumFunctionOnSet(v, S) + n
<1>1. CASE x \in S
  <2>1. S \cup {x} = S
    BY <1>1
  <2>2. \A y \in S : w[y] = IF y = x THEN v[y] + n ELSE v[y]
    BY <1>1 DEF IsGrown
  <2>3. SumFunctionOnSet(w, S) = SumFunctionOnSet(v, S) + n
    BY <1>1, <2>2, SumChanged
  <2> QED  BY <2>1, <2>3
<1>2. CASE x \notin S
  <2>1. w[x] = n /\ \A y \in S : w[y] = v[y]
    BY <1>2 DEF IsGrown
  <2>2. \A y \in S \cup {x} : w[y] \in Nat
    BY <2>1
  <2>3. SumFunctionOnSet(w, S \cup {x}) = w[x] + SumFunctionOnSet(w, S)
    BY <1>2, <2>2, SumNew
  <2>4. SumFunctionOnSet(w, S) = SumFunctionOnSet(v, S)
    BY <2>1, SumSame
  <2>5. SumFunctionOnSet(v, S) \in Nat
    BY SumFacts
  <2> QED  BY <2>1, <2>3, <2>4, <2>5
<1> QED  BY <1>1, <1>2

\* v is s on D, and zero elsewhere.
IsBeyond(v, s, U, D) ==
  /\ D \subseteq U /\ \A i \in U : v[i] \in Nat
  /\ \A i \in U \ D : v[i] = 0
  /\ \A i \in D : s[i] = v[i]

\* A function that is zero where the other one is not defined has the same sum.
LEMMA SumBeyond ==
  ASSUME NEW U, IsFiniteSet(U), NEW D, NEW v, NEW s, IsBeyond(v, s, U, D)
  PROVE  SumFunctionOnSet(v, U) = SumFunctionOnSet(s, D)
<1>0. /\ D \in SUBSET U /\ (\A i \in U : v[i] \in Nat)
      /\ (\A i \in U \ D : v[i] = 0) /\ (\A i \in D : s[i] = v[i])
  BY DEF IsBeyond
<1>1. SumFunctionOnSet(v, U) = SumFunctionOnSet(v, D) + SumFunctionOnSet(v, U \ D)
  BY <1>0, SumSplit
<1>2. SumFunctionOnSet(v, U \ D) = 0
  <2>1. IsFiniteSet(U \ D)
    BY FS_Subset
  <2> QED  BY <1>0, <2>1, SumOfZeros
<1>3. IsFiniteSet(D)
  BY <1>0, FS_Subset
<1>4. SumFunctionOnSet(s, D) = SumFunctionOnSet(v, D)
  <2>1. \A i \in D : v[i] \in Nat /\ s[i] = v[i]
    BY <1>0
  <2> QED  BY <1>3, <2>1, SumSame
<1>5. SumFunctionOnSet(v, D) \in Nat
  <2>1. \A i \in D : v[i] \in Nat
    BY <1>0
  <2> QED  BY <1>3, <2>1, SumFacts
<1> QED  BY <1>1, <1>2, <1>4, <1>5

-----------------------------------------------------------------------------
(* Division, and loops that are functions of the round.                   *)

\* What \div and % by a positive number mean.
LEMMA DivMod ==
  ASSUME NEW a \in Nat, NEW b \in Nat \ {0}
  PROVE  /\ a \div b \in Nat
         /\ a % b \in 0 .. b - 1
         /\ a = b * (a \div b) + (a % b)
  BY SMT

\* The quotient is the only number that leaves a rest below the divisor.
LEMMA DivIs ==
  ASSUME NEW b \in Nat \ {0}, NEW p \in Nat, NEW u \in 0 .. b - 1, NEW a, a = b * p + u
  PROVE  a \div b = p
<1>1. a \in Nat
  BY Z3
<1>2. PICK q \in Nat : q = a \div b
  BY <1>1, DivMod
<1>3. PICK r \in 0 .. b - 1 : a = b * q + r
  BY <1>1, <1>2, DivMod
<1>4. PICK x \in Nat : x = b * p
  BY Z3
<1>5. PICK y \in Nat : y = b * q
  BY Z3
<1>6. x + u = y + r
  BY <1>3, <1>4, <1>5
<1>7. CASE p < q
  <2>1. PICK d \in Nat : q = p + 1 + d
    <3>1. q - p - 1 \in Nat /\ q = p + 1 + (q - p - 1)
      BY <1>7
    <3> QED  BY <3>1
  <2>2. PICK e \in Nat : e = b * d
    BY Z3
  <2>3. y = x + b + e
    BY <1>4, <1>5, <2>1, <2>2, Z3
  <2> QED  BY <1>6, <2>3
<1>8. CASE q < p
  <2>1. PICK d \in Nat : p = q + 1 + d
    <3>1. p - q - 1 \in Nat /\ p = q + 1 + (p - q - 1)
      BY <1>8
    <3> QED  BY <3>1
  <2>2. PICK e \in Nat : e = b * d
    BY Z3
  <2>3. x = y + b + e
    BY <1>4, <1>5, <2>1, <2>2, Z3
  <2> QED  BY <1>6, <2>3
<1> QED  BY <1>2, <1>7, <1>8

\* Floor(t / 2r) is floor(t / r) // 2.
LEMMA DivTwice ==
  ASSUME NEW a \in Nat, NEW r \in Nat \ {0}
  PROVE  a \div (2 * r) = (a \div r) \div 2 /\ a \div r \in Nat
<1>1. PICK q \in Nat : q = a \div r
  BY DivMod
<1>2. PICK s \in 0 .. r - 1 : a = r * q + s
  BY <1>1, DivMod
<1>3. PICK p \in Nat : p = q \div 2
  OBVIOUS
<1>4. PICK d \in {0, 1} : q = 2 * p + d
  BY <1>3
<1>5. PICK x \in Nat : x = r * p
  BY Z3
<1>6. PICK u \in Nat : u = r * d + s /\ u < 2 * r
  <2>1. CASE d = 0
    <3>1. r * d = 0
      BY <2>1
    <3> QED  BY <3>1
  <2>2. CASE d = 1
    <3>1. r * d = r
      BY <2>2
    <3> QED  BY <3>1
  <2> QED  BY <1>4, <2>1, <2>2
<1>7. PICK b \in Nat \ {0} : b = 2 * r
  OBVIOUS
<1>8. a = b * p + u
  BY <1>2, <1>4, <1>6, <1>7, Z3
<1>9. u \in 0 .. b - 1
  BY <1>6, <1>7
<1>10. a \div b = p
  BY <1>8, <1>9, DivIs
<1> QED  BY <1>1, <1>3, <1>7, <1>10

\* What holds of 0, and of k + 1 with k, holds up to n.
LEMMA UpTo ==
  ASSUME NEW n \in Nat, NEW G \in SUBSET (0 .. n), 0 \in G,
         \A k \in 0 .. n - 1 : k \in G => k + 1 \in G
  PROVE  \A k \in 0 .. n : k \in G
<1> DEFINE S == 0 .. n
           P == {T \in SUBSET S : T = {} \/ \E m \in T : \A x \in T : m <= x}
<1>1. IsFiniteSet(S)
  BY FS_Interval
<1>2. ASSUME NEW T \in SUBSET S, \A U \in SUBSET T : U # T => U \in P PROVE T \in P
  <2>1. CASE T = {}
    BY <2>1
  <2>2. CASE T # {}
    <3>1. PICK x \in T : TRUE
      BY <2>2
    <3>2. T \ {x} \in P
      BY <1>2, <3>1
    <3>3. x \in Int /\ \A y \in T : y \in Int
      BY <3>1
    <3>4. CASE T \ {x} = {}
      BY <3>1, <3>3, <3>4
    <3>5. CASE T \ {x} # {}
      <4>1. PICK m \in T \ {x} : \A y \in T \ {x} : m <= y
        BY <3>2, <3>5
      <4>2. m \in T /\ m \in Int
        BY <3>3, <4>1
      <4>3. CASE m <= x
        <5>1. \A y \in T : m <= y
          BY <4>1, <4>3
        <5> QED  BY <4>2, <5>1
      <4>4. CASE x < m
        <5>1. \A y \in T : x <= y
          BY <3>3, <4>1, <4>2, <4>4
        <5> QED  BY <3>1, <5>1
      <4> QED  BY <3>3, <4>2, <4>3, <4>4
    <3> QED  BY <3>4, <3>5
  <2> QED  BY <2>1, <2>2
<1> DEFINE B == S \ G
<1>3. B \in P
  <2> HIDE DEF S
  <2>1. \A T \in SUBSET S : T \in P
    <3>1. P \in SUBSET SUBSET S
      OBVIOUS
    <3>2. \A T \in SUBSET S : (\A U \in SUBSET T : U # T => U \in P) => T \in P
      BY <1>2
    <3> HIDE DEF P
    <3> QED  BY <1>1, <3>1, <3>2, SetInduction
  <2> QED  BY <2>1
<1>4. SUFFICES ASSUME B # {} PROVE FALSE
  OBVIOUS
<1>5. PICK m \in B : \A x \in B : m <= x
  BY <1>3, <1>4
<1>6. m \in 1 .. n /\ m - 1 \in 0 .. n - 1
  BY <1>5
<1>7. m - 1 \in G
  BY <1>5, <1>6
<1>8. (m - 1) + 1 \in G
  BY <1>6, <1>7
<1> QED  BY <1>5, <1>6, <1>8

\* step[k] is what round k does, and g[k] what there is after it.
AreRounds(g, n, a, step) == g = [k \in 0 .. n |-> IF k = 0 THEN a ELSE step[k][g[k - 1]]]

\* What a loop of n rounds goes through.
LEMMA RoundsExist ==
  ASSUME NEW n \in Nat, NEW X, NEW a \in X, NEW step \in [1 .. n -> [X -> X]]
  PROVE  \E g \in [0 .. n -> X] : AreRounds(g, n, a, step)
<1> DEFINE Is(g, m) == g \in [0 .. m -> X] /\ g = [k \in 0 .. m |-> IF k = 0 THEN a ELSE step[k][g[k - 1]]]
           G == {m \in 0 .. n : \E g : Is(g, m)}
<1>1. 0 \in G
  <2> DEFINE g == [k \in 0 .. 0 |-> a]
  <2>1. Is(g, 0)
    <3>1. \A k \in 0 .. 0 : k = 0
      OBVIOUS
    <3>2. g = [k \in 0 .. 0 |-> IF k = 0 THEN a ELSE step[k][g[k - 1]]]
      BY <3>1
    <3>3. g \in [0 .. 0 -> X]
      OBVIOUS
    <3> QED  BY <3>2, <3>3
  <2> HIDE DEF g, Is
  <2>2. 0 \in 0 .. n
    OBVIOUS
  <2> QED  BY <2>1, <2>2
<1>2. ASSUME NEW k \in 0 .. n - 1, k \in G PROVE k + 1 \in G
  <2>1. PICK g : Is(g, k)
    BY <1>2
  <2> DEFINE h == [j \in 0 .. k + 1 |-> IF j = k + 1 THEN step[k + 1][g[k]] ELSE g[j]]
  <2>2. k \in 0 .. k /\ g[k] \in X /\ step[k + 1] \in [X -> X]
    BY <2>1
  <2>3. h \in [0 .. k + 1 -> X]
    BY <2>1, <2>2
  <2>4. ASSUME NEW j \in 0 .. k + 1 PROVE h[j] = IF j = 0 THEN a ELSE step[j][h[j - 1]]
    <3>1. CASE j = k + 1
      <4>1. j # 0 /\ j - 1 = k /\ h[j - 1] = g[k]
        BY <3>1
      <4> QED  BY <3>1, <4>1
    <3>2. CASE j # k + 1
      <4>1. j \in 0 .. k /\ h[j] = g[j]
        BY <3>2
      <4>2. g[j] = IF j = 0 THEN a ELSE step[j][g[j - 1]]
        BY <2>1, <4>1
      <4>3. j # 0 => h[j - 1] = g[j - 1]
        BY <4>1
      <4> QED  BY <4>1, <4>2, <4>3
    <3> QED  BY <3>1, <3>2
  <2>5. Is(h, k + 1)
    BY <2>3, <2>4
  <2> HIDE DEF h, Is
  <2> QED  BY <2>5
<1>3. n \in G
  <2> HIDE DEF Is
  <2>1. G \in SUBSET (0 .. n)
    OBVIOUS
  <2> HIDE DEF G
  <2>2. \A k \in 0 .. n : k \in G
    BY <1>1, <1>2, <2>1, UpTo
  <2> QED  BY <2>2
<1> QED  BY <1>3 DEF AreRounds

\* A set of natural numbers has a least one.
IsLeast(k, S) == k \in S /\ \A l \in S : k <= l

LEMMA LeastIs ==
  ASSUME NEW S \in SUBSET Nat, S # {}
  PROVE  IsLeast(CHOOSE k \in S : \A l \in S : k <= l, S)
<1>1. PICK n \in S : TRUE
  OBVIOUS
<1>2. \E k \in S : \A l \in S : k <= l
  <2> DEFINE G == {m \in 0 .. n : \A l \in S : l > m}
  <2>1. SUFFICES ASSUME \A k \in S : \E l \in S : l < k PROVE FALSE
    BY SMT
  <2>2. 0 \notin S
    BY <2>1
  <2>3. 0 \in G
    BY <1>1, <2>2
  <2>4. ASSUME NEW k \in 0 .. n - 1, k \in G PROVE k + 1 \in G
    <3>1. ASSUME NEW l \in S PROVE l > k + 1
      <4>1. \A x \in S : x > k
        BY <2>4
      <4>2. k + 1 \notin S
        <5>1. SUFFICES ASSUME k + 1 \in S PROVE FALSE
          OBVIOUS
        <5>2. PICK x \in S : x < k + 1
          BY <2>1, <5>1
        <5> QED  BY <4>1, <5>2
      <4> QED  BY <4>1, <4>2
    <3> QED  BY <3>1
  <2>5. G \in SUBSET (0 .. n) /\ n \in Nat
    BY <1>1
  <2> HIDE DEF G
  <2>6. \A k \in 0 .. n : k \in G
    BY <2>3, <2>4, <2>5, UpTo
  <2>7. n \in G
    BY <2>5, <2>6
  <2> QED  BY <1>1, <2>7 DEF G
<1> QED  BY <1>2 DEF IsLeast
=============================================================================
