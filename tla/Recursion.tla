------------------------------ MODULE Recursion ------------------------------
(***************************************************************************)
(* Induction and recursion over the natural numbers, stated with sets and  *)
(* functions: a property is the set of the numbers that have it, and a     *)
(* step the function that takes it.  Both rest on the least element of a   *)
(* set of numbers.  The facts about division say what a quotient is.       *)
(***************************************************************************)
EXTENDS Integers, WellFoundedInduction, TLAPS

LEMMA LeastNumber ==
  ASSUME NEW T \in SUBSET Nat, T # {}
  PROVE  \E x \in T : \A y \in T : x <= y
<1> DEFINE R == {ss \in Nat \X Nat : ss[1] < ss[2]}
<1>1. IsWellFoundedOn(R, Nat)
  BY NatLessThanWellFounded DEF OpToRel
<1>2. \A x, y \in Nat : x < y => <<x, y>> \in R
  OBVIOUS
<1> HIDE DEF R
<1>3. PICK x \in T : \A y \in T : ~ (<<y, x>> \in R)
  BY <1>1, WFMin
<1>4. \A y \in T : x <= y
  <2> TAKE y \in T
  <2>1. x \in Nat /\ y \in Nat /\ ~ (y < x)
    BY <1>2, <1>3
  <2> QED  BY <2>1
<1> QED  BY <1>3, <1>4

\* A set that holds 0, and each number up to K whose predecessor it holds.
Inductive(T, K) == 0 \in T /\ \A n \in 1..K : n - 1 \in T => n \in T

LEMMA StepsReach ==
  ASSUME NEW K \in Nat, NEW T, Inductive(T, K), NEW k \in 0..K
  PROVE  k \in T
<1> DEFINE Missed == {n \in 0..K : n \notin T}
<1>1. SUFFICES ASSUME Missed # {}  PROVE FALSE
  OBVIOUS
<1>2. Missed \in SUBSET Nat
  OBVIOUS
<1>3. PICK n \in Missed : \A y \in Missed : n <= y
  <2> HIDE DEF Missed
  <2> QED  BY <1>1, <1>2, LeastNumber
<1>4. n \in 1..K /\ n - 1 \in 0..K /\ ~ (n <= n - 1)
  <2>1. n \in 0..K /\ n # 0
    BY DEF Inductive
  <2> QED  BY <2>1
<1>5. n - 1 \in T /\ n \notin T
  BY <1>3, <1>4
<1> QED  BY <1>4, <1>5 DEF Inductive

\* Two functions that start alike and take like steps from like places.
Alike(f, g, K) ==
  f[0] = g[0] /\ \A n \in 1..K : f[n - 1] = g[n - 1] => f[n] = g[n]

LEMMA SameSteps ==
  ASSUME NEW K \in Nat, NEW f, NEW g, Alike(f, g, K), NEW k \in 0..K
  PROVE  f[k] = g[k]
<1> DEFINE T == {n \in 0..K : f[n] = g[n]}
<1>1. 0 \in T
  BY DEF Alike
<1>2. \A n \in 1..K : n - 1 \in T => n \in T
  BY DEF Alike
<1>3. k \in T
  <2> HIDE DEF T
  <2>1. Inductive(T, K)
    BY <1>1, <1>2 DEF Inductive
  <2> QED  BY <2>1, StepsReach
<1> QED  BY <1>3

\* Recursion: from A on, K steps, step n by F[n].
FromHere(A, F, S, K) ==
  \E f \in [0..K -> S] : f[0] = A /\ \A n \in 1..K : f[n] = F[n][f[n - 1]]

LEMMA RecursionReaches ==
  ASSUME NEW K \in Nat, NEW S, NEW A \in S, NEW F \in [1..K -> [S -> S]]
  PROVE  FromHere(A, F, S, K)
<1> DEFINE To(f, k) == f[0] = A /\ \A n \in 1..k : f[n] = F[n][f[n - 1]]
           T == {k \in 0..K : \E f \in [0..k -> S] : To(f, k)}
<1>1. 0 \in T
  <2> DEFINE f == [n \in 0..0 |-> A]
  <2>1. f \in [0..0 -> S] /\ To(f, 0)
    OBVIOUS
  <2>2. 0 \in 0..K
    OBVIOUS
  <2> HIDE DEF f, To
  <2> QED  BY <2>1, <2>2
<1>2. ASSUME NEW k \in 1..K, k - 1 \in T  PROVE k \in T
  <2>1. PICK f \in [0..(k - 1) -> S] : To(f, k - 1)
    BY <1>2
  <2> DEFINE g == [n \in 0..k |-> IF n = k THEN F[k][f[k - 1]] ELSE f[n]]
  <2>2. \A n \in 0..k : n # k => n \in 0..(k - 1)
    OBVIOUS
  <2>3. g \in [0..k -> S]
    <3>1. k - 1 \in 0..(k - 1) /\ F[k] \in [S -> S]
      OBVIOUS
    <3>2. F[k][f[k - 1]] \in S
      BY <3>1
    <3> QED  BY <2>2, <3>2
  <2>4. To(g, k)
    <3>1. g[0] = A
      BY <2>1
    <3>2. ASSUME NEW n \in 1..k  PROVE g[n] = F[n][g[n - 1]]
      <4>1. n - 1 \in 0..k /\ n \in 0..k /\ n - 1 # k
        OBVIOUS
      <4>2. g[n - 1] = f[n - 1]
        BY <4>1
      <4>3. CASE n = k
        BY <4>1, <4>2, <4>3
      <4>4. CASE n # k
        <5>1. n \in 1..(k - 1)
          BY <4>4
        <5> QED  BY <2>1, <4>1, <4>2, <4>4, <5>1
      <4> QED  BY <4>3, <4>4
    <3> QED  BY <3>1, <3>2
  <2>5. k \in 0..K
    OBVIOUS
  <2> HIDE DEF g, To
  <2> QED  BY <2>3, <2>4, <2>5
<1>3. K \in T
  <2> HIDE DEF T
  <2>1. Inductive(T, K) /\ K \in 0..K
    BY <1>1, <1>2 DEF Inductive
  <2> QED  BY <2>1, StepsReach
<1> QED  BY <1>3 DEF FromHere

-----------------------------------------------------------------------------
(* Division, for the recursions that count.                                *)

LEMMA Quotients ==
  ASSUME NEW p \in Nat, NEW s \in Nat \ {0}
  PROVE  /\ p \div s \in Nat /\ (p \div s) * s \in Nat
         /\ p % s = p - (p \div s) * s /\ p % s \in 0..(s - 1)
<1> DEFINE k == p \div s
<1>1. k \in Nat /\ p % s \in 0..(s - 1)
  OBVIOUS
<1>2. p % s = p - k * s
  OBVIOUS
<1>3. k * s \in Nat
  BY <1>1
<1> QED  BY <1>1, <1>2, <1>3

LEMMA Products ==
  ASSUME NEW s \in Nat \ {0}, NEW k \in Nat
  PROVE  /\ k * s \in Nat /\ (k + 1) * s = k * s + s
         /\ \A j \in Nat : k < j => (k + 1) * s <= j * s
  OBVIOUS

LEMMA QuotientIs ==
  ASSUME NEW p \in Nat, NEW s \in Nat \ {0}, NEW k \in Nat, k * s <= p, p < k * s + s
  PROVE  k = p \div s
  OBVIOUS
=============================================================================
