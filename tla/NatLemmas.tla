----------------------------- MODULE NatLemmas -----------------------------
(***************************************************************************)
(* Induction over the natural numbers without a theorem that takes an      *)
(* operator: a set of numbers has a least one, so that what fails fails    *)
(* first somewhere; and what is computed step by step is computed.         *)
(***************************************************************************)
EXTENDS Integers, WellFoundedInduction, TLAPS

\* Of a set of numbers one is the least.
LEMMA LeastNat ==
    ASSUME NEW T, T \subseteq Nat, T # {}
    PROVE  \E x \in T : \A y \in T : x <= y
<1> DEFINE R == {ss \in Nat \X Nat : ss[1] < ss[2]}
<1>1. IsWellFoundedOn(R, Nat)
  BY NatLessThanWellFounded DEF OpToRel
<1>2. \A x, y \in Nat : y < x => <<y, x>> \in R
  OBVIOUS
<1> HIDE DEF R
<1>3. PICK x \in T : \A y \in T : ~(<<y, x>> \in R)
  BY <1>1, WFMin
<1>4. ASSUME NEW y \in T PROVE x <= y
  <2>1. x \in Nat /\ y \in Nat OBVIOUS
  <2>2. ~(y < x) BY <1>2, <1>3, <2>1
  <2> QED BY <2>1, <2>2
<1> QED BY <1>4

\* Of a set of numbers up to N one is the greatest.
LEMMA GreatestUpTo ==
    ASSUME NEW N \in Nat, NEW T, T \subseteq 0..N, T # {}
    PROVE  \E x \in T : \A y \in T : y <= x
<1>1. \A x \in T : x \in Nat /\ N - x \in Nat
  OBVIOUS
<1>2. PICK x \in T : \A y \in T : N - x <= N - y
  <2> DEFINE Below == {N - x : x \in T}
  <2>1. Below \subseteq Nat /\ Below # {}
    BY <1>1
  <2>2. PICK a \in Below : \A b \in Below : a <= b
    BY <2>1, LeastNat
  <2> QED BY <2>2
<1> QED BY <1>1, <1>2

\* What holds of 0, and of each number up to N after the one before it, holds of all to N.
LEMMA UpTo ==
    ASSUME NEW N \in Nat, NEW T, 0 \in T, \A n \in 1..N : n - 1 \in T => n \in T
    PROVE  \A n \in 0..N : n \in T
<1>1. SUFFICES ASSUME NEW k \in 0..N, k \notin T PROVE FALSE
  OBVIOUS
<1> (0..N) \ T # {} /\ (0..N) \ T \subseteq Nat
  BY <1>1
<1>2. PICK n \in (0..N) \ T : \A m \in (0..N) \ T : n <= m
  BY <1>1, LeastNat
<1>3. n \in 1..N /\ n - 1 \in 0..N /\ ~(n <= n - 1)
  BY <1>2
<1>4. n - 1 \in T
  BY <1>2, <1>3
<1> QED BY <1>2, <1>3, <1>4

\* N steps, each from T to T, and what they make of a first value.
StepsWithin(F, N, T) == F \in [1..N -> [T -> T]]

MadeBy(g, F, N, T, first) ==
    /\ g \in [0..N -> T]
    /\ g[0] = first
    /\ \A n \in 1..N : g[n] = F[n][g[n - 1]]

\* Whatever N steps are taken from T to T, there is what they make.
LEMMA StepByStep ==
    ASSUME NEW N \in Nat, NEW T, NEW first \in T, NEW F, StepsWithin(F, N, T)
    PROVE  \E g : MadeBy(g, F, N, T, first)
<1> USE DEF StepsWithin
<1> DEFINE Made(m, g) == g[0] = first /\ \A n \in 1..m : g[n] = F[n][g[n - 1]]
           Done == {m \in 0..N : \E g \in [0..m -> T] : Made(m, g)}
<1>1. 0 \in Done
  <2> DEFINE g == [n \in 0..0 |-> first]
  <2>1. g \in [0..0 -> T] /\ g[0] = first
    OBVIOUS
  <2> HIDE DEF g
  <2>2. Made(0, g)
    BY <2>1
  <2> QED BY <2>1, <2>2
<1>2. ASSUME NEW m \in 1..N, m - 1 \in Done PROVE m \in Done
  <2>1. PICK g \in [0..(m - 1) -> T] : Made(m - 1, g)
    BY <1>2
  <2> DEFINE h == [n \in 0..m |-> IF n = m THEN F[m][g[m - 1]] ELSE g[n]]
  <2>2. h \in [0..m -> T]
    <3>1. m - 1 \in 0..(m - 1) /\ \A n \in 0..m : n # m => n \in 0..(m - 1)
      OBVIOUS
    <3>2. F[m][g[m - 1]] \in T
      BY <3>1
    <3> QED BY <3>1, <3>2
  <2>3. \A n \in 1..m : h[n] = F[n][h[n - 1]]
    <3>1. ASSUME NEW n \in 1..m PROVE h[n] = F[n][h[n - 1]]
      <4>1. n - 1 \in 0..m /\ n - 1 # m /\ n \in 0..m
        OBVIOUS
      <4>2. h[n - 1] = g[n - 1]
        BY <4>1
      <4>3. CASE n = m BY <4>1, <4>2, <4>3
      <4>4. CASE n # m
        <5>1. n \in 1..(m - 1) BY <4>4
        <5>2. h[n] = g[n] BY <4>1, <4>4
        <5> QED BY <2>1, <4>2, <5>1, <5>2
      <4> QED BY <4>3, <4>4
    <3> QED BY <3>1
  <2>4. h[0] = first
    <3>1. 0 \in 0..m /\ 0 # m OBVIOUS
    <3> QED BY <2>1, <3>1
  <2> HIDE DEF h
  <2> QED BY <2>2, <2>3, <2>4
<1> HIDE DEF Done
<1>3. N \in Done
  <2>1. \A n \in 0..N : n \in Done
    BY <1>1, <1>2, UpTo
  <2> QED BY <2>1
<1> QED BY <1>3 DEF Done, MadeBy
=============================================================================
