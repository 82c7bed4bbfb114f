----------------------------- MODULE Recursion -----------------------------
(***************************************************************************)
(* A function defined by recursion on the naturals is what its definition  *)
(* says.  A module whose recursive functions are to be proved about        *)
(* instantiates this one for each of them, with the value at 0 and the     *)
(* step from n - 1 to n.                                                   *)
(***************************************************************************)
EXTENDS Integers, WellFoundedInduction, TLAPS

CONSTANTS Base, Step(_, _)

f[n \in Nat] == IF n = 0 THEN Base ELSE Step(n, f[n - 1])

(* Every set of naturals that is not empty has a least element. *)
LEMMA LeastNatural ==
  ASSUME NEW S \in SUBSET Nat, S # {}
  PROVE  \E m \in S : \A k \in S : m <= k
<1>1. PICK R : IsWellFoundedOn(R, Nat) /\ \A x, y \in Nat : x < y => <<x, y>> \in R
  <2>1. \A x, y \in Nat : x < y => <<x, y>> \in OpToRel(<, Nat)
    BY Zenon DEF OpToRel
  <2> QED
    BY <2>1, NatLessThanWellFounded, Zenon
<1>2. PICK m \in S : \A y \in S : ~ (<<y, m>> \in R)
  <2>1. IsWellFoundedOn(R, Nat) /\ S \subseteq Nat
    BY <1>1
  <2> QED
    BY <2>1, WFMin, Zenon
<1>3. \A k \in S : ~ (k < m)
  BY <1>1, <1>2, Zenon
<1>4. \A k \in S : m <= k
  BY <1>3
<1> QED
  BY <1>4

(* A set that holds 0, and with each number the next, holds them all. *)
LEMMA NaturalInduction ==
  ASSUME NEW S, 0 \in S, \A n \in Nat : n \in S => n + 1 \in S
  PROVE  Nat \subseteq S
<1> SUFFICES ASSUME Nat \ S # {} PROVE FALSE
  OBVIOUS
<1>1. PICK m \in Nat \ S : \A k \in Nat \ S : m <= k
  BY LeastNatural
<1>2. m - 1 \in Nat /\ m - 1 < m
  BY <1>1
<1> QED
  BY <1>1, <1>2

(* The function up to m. *)
Unrolled(g, m) == g = [n \in 0..m |-> IF n = 0 THEN Base ELSE Step(n, g[n - 1])]
Upto(m) == CHOOSE g : Unrolled(g, m)

(* It exists, and each is the beginning of the next. *)
LEMMA UnrollsUpto ==
  ASSUME NEW m \in Nat
  PROVE  \E g : Unrolled(g, m)
<1> DEFINE S == {k \in Nat : \E g : Unrolled(g, k)}
<1>1. 0 \in S
  <2> DEFINE g == [n \in 0..0 |-> Base]
  <2>1. g = [n \in 0..0 |-> IF n = 0 THEN Base ELSE Step(n, g[n - 1])]
    OBVIOUS
  <2> QED
    BY <2>1 DEF Unrolled
<1>2. ASSUME NEW k \in Nat, k \in S PROVE k + 1 \in S
  <2>1. PICK g : Unrolled(g, k)
    BY <1>2
  <2> DEFINE h == [n \in 0..k + 1 |-> IF n \in 0..k THEN g[n] ELSE Step(n, g[n - 1])]
  <2>2. h = [n \in 0..k + 1 |-> IF n = 0 THEN Base ELSE Step(n, h[n - 1])]
    <3>1. ASSUME NEW n \in 0..k + 1
          PROVE  h[n] = IF n = 0 THEN Base ELSE Step(n, h[n - 1])
      <4>1. CASE n = 0
        BY <2>1, <4>1 DEF Unrolled
      <4>2. CASE n \in 0..k /\ n # 0
        <5>1. n - 1 \in 0..k /\ n - 1 \in 0..k + 1 /\ h[n] = g[n] /\ h[n - 1] = g[n - 1]
          BY <4>2
        <5>2. g[n] = Step(n, g[n - 1])
          BY <2>1, <4>2 DEF Unrolled
        <5> QED
          BY <4>2, <5>1, <5>2
      <4>3. CASE n = k + 1
        <5>1. n - 1 \in 0..k /\ n - 1 \in 0..k + 1 /\ n \notin 0..k /\ n # 0
          BY <4>3
        <5>2. h[n] = Step(n, g[n - 1]) /\ h[n - 1] = g[n - 1]
          BY <5>1
        <5> QED
          BY <5>1, <5>2
      <4> QED
        BY <4>1, <4>2, <4>3
    <3> QED
      BY <3>1
  <2>3. Unrolled(h, k + 1)
    BY <2>2, Zenon DEF Unrolled
  <2> QED
    BY <2>3
<1>3. Nat \subseteq S
  <2> HIDE DEF S
  <2> QED
    BY <1>1, <1>2, NaturalInduction
<1> QED
  BY <1>3

LEMMA UptoAgree ==
  ASSUME NEW m \in Nat
  PROVE  Upto(m + 1)[m] = Upto(m)[m]
<1> DEFINE g == Upto(m)
           h == Upto(m + 1)
<1>1. Unrolled(g, m) /\ Unrolled(h, m + 1)
  <2>1. (\E x : Unrolled(x, m)) /\ (\E x : Unrolled(x, m + 1))
    BY UnrollsUpto
  <2> QED
    BY <2>1, Zenon DEF Upto
<1> HIDE DEF g, h
<1> DEFINE S == {k \in Nat : k <= m => h[k] = g[k]}
<1>2. 0 \in S
  BY <1>1 DEF Unrolled
<1>3. ASSUME NEW k \in Nat, k \in S PROVE k + 1 \in S
  <2> SUFFICES ASSUME k + 1 <= m PROVE h[k + 1] = g[k + 1]
    OBVIOUS
  <2>1. k + 1 \in 0..m /\ k + 1 \in 0..m + 1 /\ k + 1 # 0 /\ (k + 1) - 1 = k
    OBVIOUS
  <2>2. h[k + 1] = Step(k + 1, h[k]) /\ g[k + 1] = Step(k + 1, g[k])
    BY <1>1, <2>1 DEF Unrolled
  <2> QED
    BY <1>3, <2>2
<1>4. Nat \subseteq S
  <2> HIDE DEF S
  <2> QED
    BY <1>2, <1>3, NaturalInduction
<1> QED
  BY <1>4 DEF g, h

(* Such a function exists, and is what its definition says at every step. *)
THEOREM Unrolls ==
  /\ f = [n \in Nat |-> IF n = 0 THEN Base ELSE Step(n, f[n - 1])]
  /\ f[0] = Base
  /\ \A n \in Nat : f[n + 1] = Step(n + 1, f[n])
<1> DEFINE g == [n \in Nat |-> Upto(n)[n]]
<1>1. ASSUME NEW n \in Nat
      PROVE  g[n] = IF n = 0 THEN Base ELSE Step(n, g[n - 1])
  <2>1. Unrolled(Upto(n), n)
    BY UnrollsUpto, Zenon DEF Upto
  <2>2. CASE n = 0
    BY <2>1, <2>2 DEF Unrolled
  <2>3. CASE n # 0
    <3>1. n - 1 \in Nat /\ (n - 1) + 1 = n /\ n \in 0..n
      BY <2>3
    <3>2. Upto(n)[n] = Step(n, Upto(n)[n - 1])
      BY <2>1, <2>3, <3>1 DEF Unrolled
    <3>3. Upto(n)[n - 1] = Upto(n - 1)[n - 1]
      <4> DEFINE k == n - 1
      <4>1. k \in Nat /\ k + 1 = n
        BY <3>1
      <4>2. Upto(k + 1)[k] = Upto(k)[k]
        BY <4>1, UptoAgree
      <4> QED
        BY <4>1, <4>2
    <3> QED
      BY <2>3, <3>1, <3>2, <3>3
  <2> QED
    BY <2>2, <2>3
<1>2. g = [n \in Nat |-> IF n = 0 THEN Base ELSE Step(n, g[n - 1])]
  BY <1>1
<1>3. \E x : x = [n \in Nat |-> IF n = 0 THEN Base ELSE Step(n, x[n - 1])]
  <2> HIDE DEF g
  <2> QED
    BY <1>2
<1>4. f = [n \in Nat |-> IF n = 0 THEN Base ELSE Step(n, f[n - 1])]
  BY <1>3, Zenon DEF f
<1>5. f[0] = Base
  BY <1>4
<1>6. ASSUME NEW n \in Nat PROVE f[n + 1] = Step(n + 1, f[n])
  <2>1. n + 1 \in Nat /\ n + 1 # 0 /\ (n + 1) - 1 = n
    OBVIOUS
  <2>2. f[n + 1] = Step(n + 1, f[(n + 1) - 1])
    <3> DEFINE k == n + 1
    <3> HIDE DEF k
    <3>1. k \in Nat /\ k # 0
      BY <2>1 DEF k
    <3>2. f[k] = IF k = 0 THEN Base ELSE Step(k, f[k - 1])
      BY <1>4, <3>1, Zenon
    <3>3. f[k] = Step(k, f[k - 1])
      BY <3>1, <3>2, Zenon
    <3> QED
      BY <3>3, Zenon DEF k
  <2> QED
    BY <2>1, <2>2
<1> QED
  BY <1>4, <1>5, <1>6
=============================================================================
