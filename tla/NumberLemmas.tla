---------------------------- MODULE NumberLemmas ----------------------------
(***************************************************************************)
(* Extremes of sets of natural numbers, which the proofs of the components *)
(* use where a reader would argue by induction.                            *)
(***************************************************************************)
EXTENDS Naturals, FiniteSetTheorems, WellFoundedInduction, TLAPS

Smaller == {ss \in Nat \X Nat : ss[1] < ss[2]}

LEMMA SmallerWellFounded == IsWellFoundedOn(Smaller, Nat)
BY NatLessThanWellFounded, Zenon DEF OpToRel, Smaller

\* Every set of numbers that is not empty has a least member.
LEMMA SmallestNumber ==
  ASSUME NEW T, T \subseteq Nat, T # {}
  PROVE  \E v \in T : \A w \in T : v <= w
<1>1. PICK v \in T : \A w \in T : <<w, v>> \notin Smaller
  BY WFMin, SmallerWellFounded
<1>2. ASSUME NEW w \in T PROVE v <= w
  <2>1. v \in Nat /\ w \in Nat
    OBVIOUS
  <2>2. ~(w < v)
    BY <1>1, <2>1 DEF Smaller
  <2> QED BY <2>1, <2>2
<1> QED BY <1>2

\* Of finitely many things, one has the largest number.
LEMMA LargestOf ==
  ASSUME NEW S, IsFiniteSet(S), S # {}, NEW f \in [S -> Nat]
  PROVE  \E m \in S : \A x \in S : f[x] <= f[m]
<1>1. PICK n \in Nat : ExistsSurjection(1..n, S)
  BY FS_NatSurjection
<1>2. PICK g \in [1..n -> S] : \A x \in S : \E i \in 1..n : g[i] = x
  BY <1>1 DEF ExistsSurjection, Surjection
<1> DEFINE Tops(k) == {i \in 1..k : \A j \in 1..k : f[g[j]] <= f[g[i]]}
           bad == {k \in 1..n : Tops(k) = {}}
<1>3. n # 0
  BY <1>2
<1>4. bad = {}
  <2> SUFFICES ASSUME bad # {} PROVE FALSE
    OBVIOUS
  <2>1. bad \subseteq Nat
    OBVIOUS
  <2>2. PICK k \in bad : \A w \in bad : k <= w
    <3> HIDE DEF bad
    <3> QED BY <2>1, SmallestNumber
  <2>3. k \in 1..n /\ Tops(k) = {}
    OBVIOUS
  <2>4. CASE k = 1
    <3>1. f[g[1]] \in Nat
      BY <1>3
    <3>2. 1 \in Tops(k)
      BY <2>4, <3>1
    <3> QED BY <2>3, <3>2
  <2>5. CASE k # 1
    <3>1. k - 1 \in 1..n /\ ~(k <= k - 1)
      BY <2>3, <2>5
    <3>2. PICK i \in 1..(k-1) : \A j \in 1..(k-1) : f[g[j]] <= f[g[i]]
      BY <2>2, <3>1
    <3>3. \A j \in 1..k : f[g[j]] \in Nat
      BY <2>3
    <3>4. \A j \in 1..k : j \in 1..(k-1) \/ j = k
      BY <2>3
    <3>5. i \in 1..k /\ k \in 1..k
      BY <2>3, <3>1
    <3>6. CASE f[g[k]] <= f[g[i]]
      <4>1. \A j \in 1..k : f[g[j]] <= f[g[i]]
        BY <3>2, <3>4, <3>6
      <4> QED BY <2>3, <3>5, <4>1
    <3>7. CASE f[g[i]] <= f[g[k]]
      <4>1. ASSUME NEW j \in 1..k PROVE f[g[j]] <= f[g[k]]
        <5>1. CASE j \in 1..(k-1)
          <6>1. f[g[j]] <= f[g[i]]
            BY <3>2, <5>1
          <6>2. f[g[j]] \in Nat /\ f[g[i]] \in Nat /\ f[g[k]] \in Nat
            BY <3>3, <3>5
          <6> HIDE DEF bad
          <6> QED BY <3>7, <6>1, <6>2
        <5>2. CASE j = k
          BY <3>3, <5>2
        <5> QED BY <3>4, <5>1, <5>2
      <4> QED BY <2>3, <3>5, <4>1
    <3> QED BY <3>3, <3>5, <3>6, <3>7
  <2> QED BY <2>4, <2>5
<1>5. PICK i \in 1..n : \A j \in 1..n : f[g[j]] <= f[g[i]]
  <2>1. n \in 1..n
    BY <1>3
  <2>2. Tops(n) # {}
    BY <1>4, <2>1
  <2> QED BY <2>2
<1>6. g[i] \in S /\ \A x \in S : f[x] <= f[g[i]]
  BY <1>2, <1>5
<1> QED BY <1>6
=============================================================================
