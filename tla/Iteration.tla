----------------------------- MODULE Iteration -----------------------------
(***************************************************************************)
(* Lemmas for the proofs about loops: least elements, and the existence of *)
(* a function that is defined by recursion on a number.                    *)
(***************************************************************************)
EXTENDS Naturals, WellFoundedInduction, NaturalsInduction, TLAPS

\* A nonempty set of numbers has a least one.
LEMMA Least == ASSUME NEW S \in SUBSET Nat, S # {} PROVE \E x \in S : \A y \in S : x <= y
<1>1. PICK x \in S : \A y \in S : ~(<<y, x>> \in OpToRel(<, Nat))
  BY WFMin, NatLessThanWellFounded
<1>2. \A y \in S : ~(y < x)
  BY <1>1, Zenon DEF OpToRel
<1> QED
  BY <1>2

\* The iteration of a step D from x, up to n times.
Iterates(g, n, S, D, x) ==
    g \in [0..n -> S] /\ g[0] = x /\ \A i \in 1..n : g[i] = D[i][g[i - 1]]

\* A step that stays in S can be iterated.
LEMMA CanIterate ==
    ASSUME NEW S, NEW n \in Nat, NEW D, NEW x \in S, \A i \in 1..n : \A y \in S : D[i][y] \in S
    PROVE  \E g : Iterates(g, n, S, D, x)
<1> DEFINE T == {m \in 0..n : ~\E g : Iterates(g, m, S, D, x)}
<1>1. SUFFICES ASSUME T # {} PROVE FALSE
  BY <1>1
<1>2. PICK m \in T : \A k \in T : m <= k
  <2>1. T \in SUBSET Nat
    OBVIOUS
  <2> HIDE DEF T
  <2> QED
    BY <1>1, <2>1, Least
<1>3. m # 0
  <2>1. Iterates([i \in 0..0 |-> x], 0, S, D, x)
    BY DEF Iterates
  <2> QED
    BY <2>1
<1>4. m - 1 \in 0..n /\ m - 1 \notin T
  BY <1>2, <1>3
<1>5. PICK g : Iterates(g, m - 1, S, D, x)
  BY <1>4
<1> DEFINE h == [i \in 0..m |-> IF i = m THEN D[m][g[m - 1]] ELSE g[i]]
<1>6. /\ m \in 1..n /\ g \in [0..(m - 1) -> S] /\ g[0] = x
      /\ \A i \in 1..(m - 1) : g[i] = D[i][g[i - 1]]
  BY <1>3, <1>5 DEF Iterates
<1>7. D[m][g[m - 1]] \in S
  BY <1>6
<1>8. h \in [0..m -> S]
  BY <1>6, <1>7
<1>9. h[0] = x
  BY <1>6
<1>10. ASSUME NEW i \in 1..m PROVE h[i] = D[i][h[i - 1]]
  BY <1>6
<1>11. Iterates(h, m, S, D, x)
  BY <1>8, <1>9, <1>10 DEF Iterates
<1> QED
  BY <1>11

=============================================================================
