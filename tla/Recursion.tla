------------------------------- MODULE Recursion -------------------------------
(***************************************************************************)
(* Induction over numbers, and functions that are defined by recursion on  *)
(* them.  The induction rules of the library have operators as parameters; *)
(* the rules here have sets and functions in their place, and come from    *)
(* the least element of a well-founded relation.                           *)
(***************************************************************************)
EXTENDS Integers, WellFoundedInduction, TLAPS

\* A set of natural numbers has a least element.
LEMMA LeastNumber ==
  ASSUME NEW T, T \subseteq Nat, T # {}
  PROVE  \E x \in T : \A y \in T : x <= y
<1>1. \A x, y \in Nat : x < y => <<x, y>> \in OpToRel(<, Nat)
  BY Zenon DEF OpToRel
<1>2. \E R : IsWellFoundedOn(R, Nat) /\ \A x, y \in Nat : x < y => <<x, y>> \in R
  BY <1>1, NatLessThanWellFounded, Zenon
<1>3. PICK R : IsWellFoundedOn(R, Nat) /\ \A x, y \in Nat : x < y => <<x, y>> \in R
  BY <1>2
<1>4. IsWellFoundedOn(R, Nat)
  BY <1>3
<1>5. \E x \in T : \A y \in T : ~ (<<y, x>> \in R)
  BY <1>4, WFMin
<1>6. PICK x \in T : \A y \in T : ~ (<<y, x>> \in R)
  BY <1>5
<1>7. ASSUME NEW y \in T PROVE x <= y
  <2>1. x \in Nat /\ y \in Nat /\ <<y, x>> \notin R
    BY <1>6
  <2>2. ~ (y < x)
    BY <2>1, <1>3
  <2> QED BY <2>1, <2>2
<1> QED BY <1>7

\* Induction from 1 to n
LEMMA UpTo ==
  ASSUME NEW n \in Nat, NEW S, n > 0 => 1 \in S, \A i \in 1 .. n - 1 : i \in S => i + 1 \in S
  PROVE  1 .. n \subseteq S
<1> SUFFICES ASSUME (1 .. n) \ S # {} PROVE FALSE
  OBVIOUS
<1> DEFINE T == (1 .. n) \ S
<1> HIDE DEF T
<1>0. T \subseteq Nat /\ T # {}
  BY DEF T
<1>1. PICK x \in T : \A y \in T : x <= y
  BY <1>0, LeastNumber
<1> USE DEF T
<1>2. x # 1 /\ x - 1 \in 1 .. n - 1 /\ x = (x - 1) + 1
  BY <1>1
<1>3. x - 1 \in S
  BY <1>1, <1>2
<1> QED BY <1>1, <1>2, <1>3

\* f starts with a and goes on with G.
Recurs(f, n, a, G) == \A i \in 1 .. n : f[i] = IF i = 1 THEN a ELSE G[i][f[i - 1]]

\* There is such a function.
LEMMA RecursionExists ==
  ASSUME NEW n \in Nat, NEW V, NEW a \in V, NEW G \in [1 .. n -> [V -> V]]
  PROVE  \E f \in [1 .. n -> V] : Recurs(f, n, a, G)
<1> USE DEF Recurs
<1> DEFINE Solves(f, m) == \A i \in 1 .. m : f[i] = IF i = 1 THEN a ELSE G[i][f[i - 1]]
           S == {m \in 1 .. n : \E f \in [1 .. m -> V] : Solves(f, m)}
<1>1. ASSUME n > 0 PROVE 1 \in S
  <2> DEFINE f == [i \in 1 .. 1 |-> a]
  <2>1. f \in [1 .. 1 -> V] /\ Solves(f, 1)
    OBVIOUS
  <2>2. \E g \in [1 .. 1 -> V] : Solves(g, 1)
    BY <2>1
  <2>3. 1 \in 1 .. n
    BY <1>1
  <2> QED BY <2>2, <2>3
<1>2. ASSUME NEW m \in 1 .. n - 1, m \in S PROVE m + 1 \in S
  <2>1. PICK f \in [1 .. m -> V] : Solves(f, m)
    BY <1>2
  <2> DEFINE g == [i \in 1 .. m + 1 |-> IF i = m + 1 THEN G[m + 1][f[m]] ELSE f[i]]
  <2>2. G[m + 1][f[m]] \in V
    OBVIOUS
  <2>3. g \in [1 .. m + 1 -> V]
    BY <2>2
  <2>4. ASSUME NEW i \in 1 .. m + 1
        PROVE  g[i] = IF i = 1 THEN a ELSE G[i][g[i - 1]]
    <3>1. CASE i = m + 1
      <4>1. i # 1 /\ i - 1 = m /\ m \in 1 .. m + 1 /\ m # m + 1
        BY <3>1
      <4> QED BY <3>1, <4>1
    <3>2. CASE i # m + 1
      <4>1. i \in 1 .. m /\ (i # 1 => i - 1 \in 1 .. m + 1 /\ i - 1 # m + 1)
        BY <3>2
      <4>2. f[i] = IF i = 1 THEN a ELSE G[i][f[i - 1]]
        BY <2>1, <4>1
      <4> QED BY <3>2, <4>1, <4>2
    <3> QED BY <3>1, <3>2
  <2>5. \E h \in [1 .. m + 1 -> V] : Solves(h, m + 1)
    BY <2>3, <2>4
  <2> QED BY <2>5
<1>3. CASE n = 0
  <2> WITNESS [i \in 1 .. n |-> a] \in [1 .. n -> V]
  <2> QED BY <1>3
<1>4. CASE n > 0
  <2> HIDE DEF S
  <2>1. 1 .. n \subseteq S
    BY <1>1, <1>2, UpTo
  <2>2. n \in S
    BY <1>4, <2>1
  <2> QED BY <2>2 DEF S
<1> QED BY <1>3, <1>4
===============================================================================
