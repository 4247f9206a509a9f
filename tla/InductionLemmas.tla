-------------------------- MODULE InductionLemmas --------------------------
(***************************************************************************)
(* Induction on the natural numbers, and what follows from it.  A property *)
(* of numbers is the set of those that have it: a lemma about sets can be  *)
(* cited where one about predicates cannot.                                *)
(***************************************************************************)
EXTENDS Integers, WellFoundedInduction, TLAPS

LEMMA Least ==
    ASSUME NEW T, T \subseteq Nat, T # {}
    PROVE  \E x \in T : \A y \in T : x <= y
<1>1. PICK x \in T : \A y \in T : ~(<<y, x>> \in OpToRel(<, Nat))
  BY Zenon, NatLessThanWellFounded, WFMin
<1>2. \A y \in T : ~(<<y, x>> \in {ss \in Nat \X Nat : ss[1] < ss[2]})
  BY Zenon, <1>1 DEF OpToRel
<1>3. \A y \in T : ~(y < x)
  BY <1>2
<1> QED
  BY <1>3

LEMMA Induction ==
    ASSUME NEW S, 0 \in S, \A n \in Nat : n \in S => n + 1 \in S
    PROVE  \A n \in Nat : n \in S
<1> SUFFICES ASSUME NEW m \in Nat \ S PROVE FALSE
  OBVIOUS
<1>1. PICK x \in Nat \ S : \A y \in Nat \ S : x <= y
  BY Least
<1>2. x # 0 /\ x - 1 \in Nat /\ x - 1 \in S
  BY <1>1
<1> QED
  BY <1>1, <1>2

(* What holds of n if it holds of everything below n holds of every number. *)
LEMMA StrongInduction ==
    ASSUME NEW S, \A n \in Nat : (\A m \in 0 .. n - 1 : m \in S) => n \in S
    PROVE  \A n \in Nat : n \in S
<1> SUFFICES ASSUME NEW m \in Nat \ S PROVE FALSE
  OBVIOUS
<1>1. PICK x \in Nat \ S : \A y \in Nat \ S : x <= y
  BY Least
<1>2. \A y \in 0 .. x - 1 : y \in S
  BY <1>1
<1> QED
  BY <1>1, <1>2

(* A set of numbers with a bound has a largest one. *)
LEMMA Greatest ==
    ASSUME NEW T, NEW n \in Nat, T \subseteq 0 .. n, T # {}
    PROVE  \E x \in T : \A y \in T : y <= x
<1> DEFINE D == {d \in Nat : n - d \in T}
<1>1. PICK z \in T : z \in 0 .. n
  OBVIOUS
<1>2. n - z \in D
  BY <1>1
<1>3. PICK d \in D : \A e \in D : d <= e
  BY <1>2, Least
<1>4. ASSUME NEW y \in T PROVE y <= n - d
  <2>1. y \in 0 .. n /\ n - y \in D
    BY <1>4
  <2>2. d <= n - y /\ d \in Nat
    BY <1>3, <2>1
  <2> QED
    BY <2>1, <2>2
<1>5. n - d \in T
  BY <1>3
<1> QED
  BY <1>4, <1>5

(* g is the sequence from c, with the step function h, as far as k. *)
Started(S, c, h, g, k) ==
    /\ g \in [0 .. k -> S] /\ g[0] = c
    /\ \A i \in 0 .. k - 1 : g[i + 1] = h[i][g[i]]

LEMMA StartedExists ==
    ASSUME NEW S, NEW c \in S, NEW h \in [Nat -> [S -> S]]
    PROVE  \A k \in Nat : \E g : Started(S, c, h, g, k)
<1> DEFINE T == {k \in Nat : \E g : Started(S, c, h, g, k)}
<1>1. 0 \in T
  <2>1. 0 \in 0 .. 0 /\ \A i \in 0 .. 0 - 1 : FALSE
    OBVIOUS
  <2>2. [i \in 0 .. 0 |-> c] \in [0 .. 0 -> S] /\ [i \in 0 .. 0 |-> c][0] = c
    BY <2>1
  <2>3. Started(S, c, h, [i \in 0 .. 0 |-> c], 0)
    BY <2>1, <2>2 DEF Started
  <2> QED
    BY <2>3
<1>2. ASSUME NEW k \in Nat, k \in T PROVE k + 1 \in T
  <2>1. PICK g : Started(S, c, h, g, k)
    BY <1>2
  <2> DEFINE e == [i \in 0 .. k + 1 |-> IF i = k + 1 THEN h[k][g[k]] ELSE g[i]]
  <2>2. \A i \in 0 .. k : i \in 0 .. k + 1 /\ i # k + 1 /\ g[i] \in S
    BY <2>1 DEF Started
  <2>3. e \in [0 .. k + 1 -> S] /\ e[k + 1] = h[k][g[k]] /\ \A i \in 0 .. k : e[i] = g[i]
    <3>1. \A i \in 0 .. k + 1 : i = k + 1 \/ i \in 0 .. k
      OBVIOUS
    <3>2. h[k][g[k]] \in S
      BY <2>2
    <3> QED
      BY <2>2, <3>1, <3>2
  <2> HIDE DEF e
  <2>4. ASSUME NEW i \in 0 .. (k + 1) - 1 PROVE e[i + 1] = h[i][e[i]]
    <3>1. CASE i = k
      BY <2>3, <3>1
    <3>2. CASE i \in 0 .. k - 1
      <4>1. i \in 0 .. k /\ i + 1 \in 0 .. k
        BY <3>2
      <4>2. g[i + 1] = h[i][g[i]]
        BY <2>1, <3>2 DEF Started
      <4> QED
        BY <2>3, <4>1, <4>2
    <3> QED
      BY <2>4, <3>1, <3>2
  <2>5. Started(S, c, h, e, k + 1)
    <3>1. e[0] = c
      BY <2>1, <2>3 DEF Started
    <3> QED
      BY <2>3, <2>4, <3>1 DEF Started
  <2> QED
    BY <2>5
<1> HIDE DEF T
<1>3. \A k \in Nat : k \in T
  BY <1>1, <1>2, Induction
<1> QED
  BY <1>3 DEF T

LEMMA StartedAgree ==
    ASSUME NEW S, NEW c, NEW h, NEW k \in Nat, NEW g, NEW e,
           Started(S, c, h, g, k), Started(S, c, h, e, k + 1)
    PROVE  g[k] = e[k]
<1> DEFINE T == {i \in Nat : i <= k => g[i] = e[i]}
<1>1. 0 \in T
  BY DEF Started
<1>2. ASSUME NEW i \in Nat, i \in T PROVE i + 1 \in T
  <2>1. CASE i + 1 <= k
    <3>1. i \in 0 .. k - 1 /\ i \in 0 .. (k + 1) - 1 /\ i <= k
      BY <2>1
    <3>2. g[i + 1] = h[i][g[i]] /\ e[i + 1] = h[i][e[i]]
      BY <3>1 DEF Started
    <3> QED
      BY <1>2, <3>1, <3>2
  <2> QED
    BY <2>1
<1> HIDE DEF T
<1>3. k \in T
  BY <1>1, <1>2, Induction
<1> QED
  BY <1>3 DEF T

(***************************************************************************)
(* Recursion: every step function, from every start, has its sequence.     *)
(***************************************************************************)
Iterates(S, c, h, f) ==
    f \in [Nat -> S] /\ f[0] = c /\ \A n \in Nat : f[n + 1] = h[n][f[n]]

LEMMA Recursion ==
    ASSUME NEW S, NEW c \in S, NEW h \in [Nat -> [S -> S]]
    PROVE  \E f : Iterates(S, c, h, f)
<1> DEFINE G == [k \in Nat |-> CHOOSE g : Started(S, c, h, g, k)]
<1>1. \A k \in Nat : Started(S, c, h, G[k], k)
  BY StartedExists
<1> HIDE DEF G
<1>2. \A k \in Nat : G[k][k] \in S
  BY <1>1 DEF Started
<1>3. PICK f \in [Nat -> S] : \A k \in Nat : f[k] = G[k][k]
  <2>1. [k \in Nat |-> G[k][k]] \in [Nat -> S]
    BY <1>2
  <2> QED
    BY <2>1
<1>4. f[0] = c
  BY <1>1, <1>3 DEF Started
<1>5. ASSUME NEW n \in Nat PROVE f[n + 1] = h[n][f[n]]
  <2>1. n + 1 \in Nat /\ n \in 0 .. (n + 1) - 1
    OBVIOUS
  <2>2. Started(S, c, h, G[n], n) /\ Started(S, c, h, G[n + 1], n + 1)
    BY <1>1, <2>1
  <2>3. G[n][n] = G[n + 1][n]
    BY <2>2, StartedAgree
  <2>4. G[n + 1][n + 1] = h[n][G[n + 1][n]]
    BY <2>1, <2>2 DEF Started
  <2> QED
    BY <1>3, <2>1, <2>3, <2>4
<1> QED
  BY <1>4, <1>5 DEF Iterates
=============================================================================
