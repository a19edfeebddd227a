----------------------------- MODULE NaturalsBySets -----------------------------
(* Induction over the natural numbers with a set in the place of the property, and what *)
(* follows from it: a function may be defined by recursion on 0 .. n.                    *)
EXTENDS Naturals, Sequences, WellFoundedInduction, TLAPS

\* A set of natural numbers that is not empty has a least one.
LEMMA LeastNatural ==
  ASSUME NEW T, T \subseteq Nat, T # {}
  PROVE  \E x \in T : \A y \in T : x <= y
<1>1. \E x \in T : \A y \in T : <<y, x>> \notin OpToRel(<, Nat)
  BY NatLessThanWellFounded, WFMin, Zenon
<1>2. \A x, y \in Nat : <<y, x>> \in OpToRel(<, Nat) <=> y < x
  BY DEF OpToRel
<1>3. \E x \in T : \A y \in T : ~(y < x)
  BY <1>1, <1>2, Zenon
<1> QED
  BY <1>3

\* A set that has 0, and with every number the next one, has all of them.
LEMMA InductionBySet ==
  ASSUME NEW P, P \subseteq Nat, 0 \in P, \A n \in P : n + 1 \in P
  PROVE  P = Nat
<1> SUFFICES ASSUME Nat \ P # {} PROVE FALSE OBVIOUS
<1>1. PICK x \in Nat \ P : \A y \in Nat \ P : x <= y
  BY LeastNatural
<1>2. x # 0 OBVIOUS
<1>3. x - 1 \in Nat /\ x - 1 \in P
  BY <1>1, <1>2
<1> QED
  BY <1>3, <1>1

\* What begins in a set and stays in it at every step is in it all along.
LEMMA StaysInSet ==
  ASSUME NEW n \in Nat, NEW S, NEW f, f[0] \in S,
         \A i \in 1 .. n : f[i - 1] \in S => f[i] \in S
  PROVE  \A i \in 0 .. n : f[i] \in S
<1> DEFINE P == {i \in Nat : i <= n => f[i] \in S}
<1>1. 0 \in P OBVIOUS
<1>2. ASSUME NEW i \in P PROVE i + 1 \in P
  <2>1. CASE i + 1 <= n
    <3>1. i \in Nat /\ f[i] \in S
      BY <2>1
    <3>2. f[(i + 1) - 1] \in S /\ i + 1 \in 1 .. n
      BY <3>1, <2>1
    <3> QED
      BY <3>1, <3>2
  <2>2. CASE ~(i + 1 <= n)
    BY <2>2
  <2> QED
    BY <2>1, <2>2
<1>3. P = Nat
  <2>1. P \subseteq Nat OBVIOUS
  <2> HIDE DEF P
  <2> QED
    BY <1>1, <1>2, <2>1, InductionBySet
<1> QED
  BY <1>3

\* The function f on 0 .. n begins with base and goes on by the function step.
IsRecursion(f, n, S, base, step) ==
  /\ f \in [0 .. n -> S]
  /\ f[0] = base /\ \A i \in 1 .. n : f[i] = step[<<i, f[i - 1]>>]

\* A function on 0 .. n is given by its value at 0 and by how each value follows from the
\* one before.
LEMMA RecursionOnInterval ==
  ASSUME NEW n \in Nat, NEW S, NEW base \in S, NEW step \in [(1 .. n) \X S -> S]
  PROVE  \E f : IsRecursion(f, n, S, base, step)
<1> DEFINE Upto(m, f) ==
      /\ f \in [0 .. m -> S]
      /\ f[0] = base /\ \A i \in 1 .. m : f[i] = step[<<i, f[i - 1]>>]
<1> DEFINE P == {m \in Nat : m <= n => \E f : Upto(m, f)}
<1>1. 0 \in P
  <2>1. Upto(0, [i \in 0 .. 0 |-> base]) OBVIOUS
  <2> QED
    BY <2>1
<1>2. ASSUME NEW m \in P PROVE m + 1 \in P
  <2>1. CASE m + 1 <= n
    <3>1. m \in Nat /\ m <= n
      BY <2>1
    <3>2. PICK f : Upto(m, f)
      BY <3>1
    <3> DEFINE x == step[<<m + 1, f[m]>>]
               g == [i \in 0 .. m + 1 |-> IF i <= m THEN f[i] ELSE x]
    <3>3. x \in S
      <4>1. f[m] \in S /\ m + 1 \in 1 .. n
        BY <3>1, <3>2, <2>1
      <4> QED
        BY <4>1
    <3>4. g \in [0 .. m + 1 -> S]
      <4> HIDE DEF x
      <4> QED
        BY <3>1, <3>2, <3>3
    <3>5. g[0] = base
      BY <3>1, <3>2
    <3>6. ASSUME NEW i \in 1 .. m + 1 PROVE g[i] = step[<<i, g[i - 1]>>]
      <4>1. i \in 0 .. m + 1 /\ i - 1 \in 0 .. m + 1 /\ i - 1 <= m
        BY <3>1
      <4>2. g[i - 1] = f[i - 1]
        BY <4>1
      <4>3. CASE i <= m
        <5>1. g[i] = f[i] /\ i \in 1 .. m
          BY <4>1, <4>3, <3>1
        <5> QED
          BY <5>1, <4>2, <3>2
      <4>4. CASE ~(i <= m)
        <5>1. i = m + 1 /\ i - 1 = m
          BY <4>1, <4>4, <3>1
        <5>2. g[i] = x
          BY <4>1, <4>4
        <5> QED
          BY <5>1, <5>2, <4>2
      <4> QED
        BY <4>3, <4>4
    <3>7. Upto(m + 1, g)
      <4> HIDE DEF g
      <4> QED
        BY <3>4, <3>5, <3>6
    <3> HIDE DEF Upto, g
    <3> QED
      BY <3>7, <3>1
  <2>2. CASE ~(m + 1 <= n)
    BY <2>2
  <2> QED
    BY <2>1, <2>2
<1>3. P = Nat
  <2>1. P \subseteq Nat OBVIOUS
  <2> HIDE DEF P
  <2> QED
    BY <1>1, <1>2, <2>1, InductionBySet
<1>4. PICK f : Upto(n, f)
  BY <1>3
<1> QED
  BY <1>4 DEF IsRecursion
=============================================================================
