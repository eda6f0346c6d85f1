----------------------------- MODULE SumProofs ------------------------------
(***************************************************************************)
(* Sums over finite sets, as the models take them with MapThenSumSet: that *)
(* there is one, and that the order in which its terms are taken does not  *)
(* matter.  Induction is by the least element of a set of naturals.        *)
(***************************************************************************)
EXTENDS FiniteSetsExt, FiniteSetTheorems, TLAPS

LEMMA Induction ==
  ASSUME NEW A, 0 \in A, \A n \in Nat : n \in A => n + 1 \in A
  PROVE  Nat \subseteq A
<1>. DEFINE Less == OpToRel(<, Nat)
            Rest == Nat \ A
<1>1. SUFFICES ASSUME Rest # {} PROVE FALSE
  OBVIOUS
<1>2. IsWellFoundedOn(Less, Nat)
  BY NatLessThanWellFounded
<1>. HIDE DEF Less
<1>3. PICK n \in Rest : \A m \in Rest : <<m, n>> \notin Less
  BY <1>1, <1>2, WFMin
<1>4. n # 0 /\ n - 1 \in Nat /\ n - 1 < n /\ n \in Nat
  BY <1>3
<1>5. <<n - 1, n>> \in Less
  BY <1>4 DEF Less, OpToRel
<1>6. n - 1 \in A
  BY <1>3, <1>4, <1>5
<1>. QED
  BY <1>3, <1>4, <1>6

-----------------------------------------------------------------------------
Pick(s) == CHOOSE x \in s : TRUE

\* `it` gives the sum of g over each subset of S.
Sums(it, g, S) ==
  it = [s \in SUBSET S |-> IF s = {} THEN 0 ELSE g[Pick(s)] + it[s \ {Pick(s)}]]

LEMMA PickFacts ==
  ASSUME NEW s, IsFiniteSet(s), s # {}
  PROVE  /\ Pick(s) \in s
         /\ Cardinality(s) \in Nat \ {0}
         /\ \A x \in s : IsFiniteSet(s \ {x}) /\ Cardinality(s \ {x}) = Cardinality(s) - 1
<1>1. Pick(s) \in s
  BY DEF Pick
<1>2. Cardinality(s) \in Nat /\ Cardinality(s) # 0
  BY FS_CardinalityType, FS_EmptySet
<1>3. \A x \in s : IsFiniteSet(s \ {x}) /\ Cardinality(s \ {x}) = Cardinality(s) - 1
  BY FS_RemoveElement
<1>. QED
  BY <1>1, <1>2, <1>3

LEMMA SubsetFacts ==
  ASSUME NEW S, IsFiniteSet(S), NEW s \in SUBSET S
  PROVE  IsFiniteSet(s) /\ Cardinality(s) \in 0..Cardinality(S)
  BY FS_Subset, FS_CardinalityType

(***************************************************************************)
(* The recursion has a solution: it is found for subsets of one element,   *)
(* two, and so on.                                                         *)
(***************************************************************************)
LEMMA SumsExist ==
  ASSUME NEW S, IsFiniteSet(S), NEW g
  PROVE  \E it : Sums(it, g, S)
<1>. DEFINE Next1(it, s) == IF s = {} THEN 0 ELSE g[Pick(s)] + it[s \ {Pick(s)}]
            Up(it, n) == \A s \in SUBSET S : Cardinality(s) <= n => it[s] = Next1(it, s)
            A == {n \in Nat : \E it : DOMAIN it = SUBSET S /\ Up(it, n)}
<1>1. 0 \in A
  <2>. DEFINE zero == [s \in SUBSET S |-> 0]
  <2>1. Up(zero, 0)
    <3>. SUFFICES ASSUME NEW s \in SUBSET S, Cardinality(s) <= 0 PROVE zero[s] = Next1(zero, s)
      OBVIOUS
    <3>1. s = {}
      BY SubsetFacts, PickFacts
    <3>. QED
      BY <3>1
  <2>2. DOMAIN zero = SUBSET S
    OBVIOUS
  <2>. QED
    BY <2>1, <2>2
<1>2. ASSUME NEW n \in Nat, n \in A PROVE n + 1 \in A
  <2>1. PICK it : DOMAIN it = SUBSET S /\ Up(it, n)
    BY <1>2
  <2>. DEFINE jt == [s \in SUBSET S |-> IF Cardinality(s) <= n THEN it[s] ELSE Next1(it, s)]
  <2>2. ASSUME NEW s \in SUBSET S, Cardinality(s) <= n + 1
        PROVE  jt[s] = Next1(jt, s)
    <3>1. jt[s] = Next1(it, s)
      BY <2>1
    <3>2. CASE s = {}
      BY <3>1, <3>2
    <3>3. CASE s # {}
      <4>1. /\ s \ {Pick(s)} \in SUBSET S
            /\ Cardinality(s \ {Pick(s)}) <= n
        BY <2>2, <3>3, SubsetFacts, PickFacts
      <4>2. jt[s \ {Pick(s)}] = it[s \ {Pick(s)}]
        BY <4>1
      <4>. QED
        BY <3>1, <3>3, <4>2
    <3>. QED
      BY <3>2, <3>3
  <2>3. DOMAIN jt = SUBSET S
    OBVIOUS
  <2>. HIDE DEF jt, Next1
  <2>4. Up(jt, n + 1)
    BY <2>2
  <2>. QED
    BY <2>3, <2>4
<1>3. Cardinality(S) \in A
  <2>. HIDE DEF A
  <2>. QED
    BY <1>1, <1>2, Induction, FS_CardinalityType
<1>4. PICK it : DOMAIN it = SUBSET S /\ Up(it, Cardinality(S))
  BY <1>3
<1>5. \A s \in SUBSET S : it[s] = Next1(it, s)
  <2>. SUFFICES ASSUME NEW s \in SUBSET S PROVE it[s] = Next1(it, s)
    OBVIOUS
  <2>1. Cardinality(s) <= Cardinality(S)
    BY SubsetFacts
  <2>. HIDE DEF Next1
  <2>. QED
    BY <1>4, <2>1
<1>. DEFINE kt == [s \in SUBSET S |-> it[s]]
<1>6. ASSUME NEW s \in SUBSET S PROVE kt[s] = Next1(kt, s)
  <2>1. kt[s] = Next1(it, s)
    BY <1>5
  <2>2. s \ {Pick(s)} \in SUBSET S
    OBVIOUS
  <2>3. kt[s \ {Pick(s)}] = it[s \ {Pick(s)}]
    BY <2>2
  <2>. QED
    BY <2>1, <2>3
<1>7. DOMAIN kt = SUBSET S /\ kt = [s \in DOMAIN kt |-> kt[s]]
  OBVIOUS
<1>. HIDE DEF kt
<1>8. [s \in SUBSET S |-> Next1(kt, s)] = [s \in SUBSET S |-> kt[s]]
  <2>. HIDE DEF Next1
  <2>. QED
    BY <1>6
<1>9. Sums(kt, g, S)
  BY <1>7, <1>8 DEF Sums
<1>. QED
  BY <1>9

(***************************************************************************)
(* There is one sum, whatever the set is a subset of.                      *)
(***************************************************************************)
LEMMA SumsUnique ==
  ASSUME NEW S, IsFiniteSet(S), NEW T \in SUBSET S, NEW g, NEW h,
         \A x \in T : g[x] = h[x],
         NEW it, Sums(it, g, S), NEW jt, Sums(jt, h, T)
  PROVE  it[T] = jt[T]
<1>. DEFINE A == {n \in Nat : \A s \in SUBSET T : Cardinality(s) <= n => it[s] = jt[s]}
<1>0. /\ \A s \in SUBSET S : it[s] = IF s = {} THEN 0 ELSE g[Pick(s)] + it[s \ {Pick(s)}]
      /\ \A s \in SUBSET T : jt[s] = IF s = {} THEN 0 ELSE h[Pick(s)] + jt[s \ {Pick(s)}]
  BY DEF Sums
<1>1. ASSUME NEW s \in SUBSET T
      PROVE  IsFiniteSet(s) /\ Cardinality(s) \in Nat /\ s \in SUBSET S
  BY SubsetFacts
<1>2. 0 \in A
  <2>. SUFFICES ASSUME NEW s \in SUBSET T, Cardinality(s) <= 0 PROVE it[s] = jt[s]
    OBVIOUS
  <2>1. s = {}
    BY <1>1, PickFacts
  <2>. QED
    BY <1>0, <1>1, <2>1
<1>3. ASSUME NEW n \in Nat, n \in A PROVE n + 1 \in A
  <2>. SUFFICES ASSUME NEW s \in SUBSET T, Cardinality(s) <= n + 1 PROVE it[s] = jt[s]
    OBVIOUS
  <2>1. CASE s = {}
    BY <1>0, <1>1, <2>1
  <2>2. CASE s # {}
    <3>1. /\ s \ {Pick(s)} \in SUBSET T /\ Pick(s) \in T
          /\ Cardinality(s \ {Pick(s)}) <= n
      BY <1>1, <2>2, PickFacts
    <3>2. it[s \ {Pick(s)}] = jt[s \ {Pick(s)}]
      BY <1>3, <3>1
    <3>. QED
      BY <1>0, <1>1, <2>2, <3>1, <3>2
  <2>. QED
    BY <2>1, <2>2
<1>4. Cardinality(T) \in A
  <2>. HIDE DEF A
  <2>. QED
    BY <1>1, <1>2, <1>3, Induction
<1>. QED
  BY <1>1, <1>4

(***************************************************************************)
(* Any element may be taken first.                                         *)
(***************************************************************************)
NatTerms(g, S) == \A x \in S : g[x] \in Nat

LEMMA SumsInAnyOrder ==
  ASSUME NEW S, IsFiniteSet(S), NEW g, NatTerms(g, S), NEW it, Sums(it, g, S)
  PROVE  \A s \in SUBSET S : it[s] \in Nat /\ \A x \in s : it[s] = g[x] + it[s \ {x}]
<1>. DEFINE Good(s) == it[s] \in Nat /\ \A x \in s : it[s] = g[x] + it[s \ {x}]
            A == {n \in Nat : \A s \in SUBSET S : Cardinality(s) <= n => Good(s)}
<1>. USE DEF NatTerms
<1>0. \A s \in SUBSET S : it[s] = IF s = {} THEN 0 ELSE g[Pick(s)] + it[s \ {Pick(s)}]
  BY DEF Sums
<1>1. ASSUME NEW s \in SUBSET S
      PROVE  IsFiniteSet(s) /\ Cardinality(s) \in 0..Cardinality(S) /\ Cardinality(S) \in Nat
  BY SubsetFacts, FS_CardinalityType
<1>2. 0 \in A
  <2>. SUFFICES ASSUME NEW s \in SUBSET S, Cardinality(s) <= 0 PROVE Good(s)
    OBVIOUS
  <2>1. s = {}
    BY <1>1, PickFacts
  <2>. QED
    BY <1>0, <2>1
<1>3. ASSUME NEW n \in Nat, n \in A PROVE n + 1 \in A
  <2>. SUFFICES ASSUME NEW s \in SUBSET S, Cardinality(s) <= n + 1 PROVE Good(s)
    OBVIOUS
  <2>1. CASE s = {}
    <3>1. it[s] = 0
      BY <1>0, <2>1
    <3>. QED
      BY <2>1, <3>1
  <2>2. CASE s # {}
    <3>. DEFINE y == Pick(s)
    <3>0. \A x \in s : s \ {x} \in SUBSET S /\ Cardinality(s \ {x}) <= n
      BY <1>1, <2>2, PickFacts
    <3>1. y \in s /\ y \in S
      BY <1>1, <2>2, PickFacts
    <3>2. \A x \in s : Good(s \ {x})
      BY <1>3, <3>0
    <3>3. it[s] = g[y] + it[s \ {y}]
      BY <1>0, <2>2
    <3>. HIDE DEF y
    <3>4. it[s] \in Nat
      <4>1. it[s \ {y}] \in Nat /\ g[y] \in Nat
        BY <3>1, <3>2
      <4>. QED
        BY <3>3, <4>1
    <3>5. ASSUME NEW x \in s PROVE it[s] = g[x] + it[s \ {x}]
      <4>1. CASE x = y
        BY <3>3, <4>1
      <4>2. CASE x # y
        <5>1. x \in s \ {y} /\ y \in s \ {x}
          BY <3>1, <4>2
        <5>2. it[s \ {y}] = g[x] + it[(s \ {y}) \ {x}]
          BY <3>1, <3>2, <5>1
        <5>3. it[s \ {x}] = g[y] + it[(s \ {x}) \ {y}]
          BY <3>2, <5>1
        <5>4. (s \ {y}) \ {x} = (s \ {x}) \ {y}
          OBVIOUS
        <5>5. it[(s \ {x}) \ {y}] \in Nat
          <6>1. (s \ {x}) \ {y} \in SUBSET S /\ Cardinality((s \ {x}) \ {y}) <= n
            <7>1. IsFiniteSet(s \ {x}) /\ Cardinality(s \ {x}) \in Nat
              BY <1>1, <3>0
            <7>2. Cardinality((s \ {x}) \ {y}) = Cardinality(s \ {x}) - 1
              BY <5>1, <7>1, PickFacts
            <7>. QED
              BY <3>0, <7>1, <7>2
          <6>. QED
            BY <1>3, <6>1
        <5>6. g[x] \in Nat /\ g[y] \in Nat
          BY <3>1
        <5>7. \A a, b, k \in Nat : a + (b + k) = b + (a + k)
          OBVIOUS
        <5>8. g[y] + (g[x] + it[(s \ {x}) \ {y}]) = g[x] + (g[y] + it[(s \ {x}) \ {y}])
          BY <5>5, <5>6, <5>7
        <5>. QED
          BY <3>3, <5>2, <5>3, <5>4, <5>8, Zenon
      <4>. QED
        BY <4>1, <4>2
    <3>. QED
      BY <3>4, <3>5
  <2>. QED
    BY <2>1, <2>2
<1>4. ASSUME NEW s \in SUBSET S PROVE Good(s)
  <2>1. Cardinality(S) \in A
    <3>. HIDE DEF A
    <3>. QED
      BY <1>1, <1>2, <1>3, Induction
  <2>. HIDE DEF Good
  <2>. QED
    BY <1>1, <2>1
<1>. QED
  BY <1>4

(***************************************************************************)
(* One element more adds its term.                                         *)
(***************************************************************************)
LEMMA SumsAdd ==
  ASSUME NEW S, IsFiniteSet(S), NEW x, x \notin S,
         NEW g, NEW h, \A y \in S \cup {x} : g[y] \in Nat, \A y \in S : g[y] = h[y],
         NEW it, Sums(it, g, S \cup {x}), NEW jt, Sums(jt, h, S)
  PROVE  jt[S] \in Nat /\ it[S \cup {x}] = g[x] + jt[S]
<1>. DEFINE T == S \cup {x}
<1>1. IsFiniteSet(T) /\ S \in SUBSET T /\ T \in SUBSET T /\ T \ {x} = S /\ x \in T
  BY FS_AddElement
<1>2. it[S] = jt[S]
  <2>. HIDE DEF T
  <2>. QED
    BY <1>1, SumsUnique DEF T
<1>3. it[S] \in Nat /\ it[T] = g[x] + it[T \ {x}]
  <2>1. Sums(it, g, T) /\ NatTerms(g, T)
    BY DEF NatTerms
  <2>. HIDE DEF T
  <2>2. \A s \in SUBSET T : it[s] \in Nat /\ \A y \in s : it[s] = g[y] + it[s \ {y}]
    BY <1>1, <2>1, SumsInAnyOrder
  <2>. QED
    BY <1>1, <2>2
<1>. HIDE DEF T
<1>. QED
  BY <1>1, <1>2, <1>3 DEF T

LEMMA ImageFinite ==
  ASSUME NEW S, IsFiniteSet(S), NEW f
  PROVE  IsFiniteSet({f[x] : x \in S})
<1>. DEFINE T == {f[x] : x \in S}
            g == [x \in S |-> f[x]]
<1>1. g \in Surjection(S, T)
  BY DEF Surjection
<1>. HIDE DEF g, T
<1>2. IsFiniteSet(T)
  BY <1>1, FS_Surjection
<1>. QED
  BY <1>2 DEF T

(***************************************************************************)
(* The same terms in another place: the sum over the images of 1..n under  *)
(* an injection is the sum along it.                                       *)
(***************************************************************************)
Enumerates(f, n, T) ==
  /\ \A i, j \in 1..n : f[i] = f[j] => i = j
  /\ \A i \in 1..n : f[i] \in T
  /\ \A x \in T : \E i \in 1..n : x = f[i]

LEMMA SumsAlong ==
  ASSUME NEW n \in Nat, NEW f, NEW T, Enumerates(f, n, T),
         NEW g, NatTerms(g, 1..n), NEW h, \A i \in 1..n : h[f[i]] = g[i],
         NEW it, Sums(it, g, 1..n), NEW jt, Sums(jt, h, T)
  PROVE  it[1..n] = jt[T]
<1>. DEFINE S == 1..n
            Im(k) == {f[i] : i \in 1..k}
            A == {k \in Nat : k <= n => it[1..k] = jt[Im(k)]}
<1>0. T = Im(n)
  BY DEF Enumerates
<1>1. IsFiniteSet(S) /\ IsFiniteSet(T)
  <2>1. IsFiniteSet(S)
    BY FS_Interval
  <2>2. T = {f[i] : i \in S}
    BY <1>0
  <2>. HIDE DEF S
  <2>. QED
    BY <2>1, <2>2, ImageFinite
<1>2. \A s \in SUBSET S : it[s] \in Nat /\ \A x \in s : it[s] = g[x] + it[s \ {x}]
  <2>1. Sums(it, g, S) /\ NatTerms(g, S)
    OBVIOUS
  <2>. HIDE DEF S
  <2>. QED
    BY <1>1, <2>1, SumsInAnyOrder
<1>3. \A s \in SUBSET T : jt[s] \in Nat /\ \A x \in s : jt[s] = h[x] + jt[s \ {x}]
  <2>1. Sums(jt, h, T) /\ NatTerms(h, T)
    BY DEF NatTerms, Enumerates
  <2>. QED
    BY <1>1, <2>1, SumsInAnyOrder
<1>4. 0 \in A
  <2>1. it[{}] = 0 /\ jt[{}] = 0
    BY DEF Sums
  <2>2. 1..0 = {} /\ Im(0) = {}
    OBVIOUS
  <2>. QED
    BY <2>1, <2>2
<1>5. ASSUME NEW k \in Nat, k \in A PROVE k + 1 \in A
  <2>. SUFFICES ASSUME k + 1 <= n PROVE it[1..(k + 1)] = jt[Im(k + 1)]
    OBVIOUS
  <2>1. /\ 1..(k + 1) \in SUBSET S /\ k + 1 \in 1..(k + 1)
        /\ (1..(k + 1)) \ {k + 1} = 1..k
    OBVIOUS
  <2>2. it[1..(k + 1)] = g[k + 1] + it[1..k]
    <3>. DEFINE s == 1..(k + 1)
    <3>1. s \in SUBSET S /\ k + 1 \in s /\ s \ {k + 1} = 1..k
      BY <2>1
    <3>. HIDE DEF S, s
    <3>2. it[s] = g[k + 1] + it[s \ {k + 1}]
      BY <1>2, <3>1
    <3>. QED
      BY <3>1, <3>2 DEF s
  <2>3. Im(k + 1) \in SUBSET T /\ f[k + 1] \in Im(k + 1)
    BY DEF Enumerates
  <2>4. Im(k + 1) \ {f[k + 1]} = Im(k)
    <3>1. \A i \in 1..k : f[i] # f[k + 1]
      BY DEF Enumerates
    <3>2. \A i \in 1..(k + 1) : i \in 1..k \/ i = k + 1
      OBVIOUS
    <3>. QED
      BY <3>1, <3>2
  <2>5. jt[Im(k + 1)] = h[f[k + 1]] + jt[Im(k)]
    <3>. DEFINE s == Im(k + 1)
                x == f[k + 1]
    <3>1. s \in SUBSET T /\ x \in s /\ s \ {x} = Im(k)
      BY <2>3, <2>4
    <3>. HIDE DEF Im, s, x
    <3>2. jt[s] = h[x] + jt[s \ {x}]
      BY <1>3, <3>1
    <3>. QED
      BY <3>1, <3>2 DEF s, x
  <2>6. h[f[k + 1]] = g[k + 1] /\ it[1..k] = jt[Im(k)]
    BY <1>5
  <2>. HIDE DEF Im
  <2>. QED
    BY <2>2, <2>5, <2>6
<1>6. n \in A
  <2>. HIDE DEF A
  <2>. QED
    BY <1>4, <1>5, Induction
<1>. QED
  BY <1>0, <1>6

(***************************************************************************)
(* A finite set of naturals has a greatest element, and can be listed in   *)
(* ascending order.                                                        *)
(***************************************************************************)
LEMMA MaxFacts ==
  ASSUME NEW s \in SUBSET Nat, IsFiniteSet(s), s # {}
  PROVE  Max(s) \in s /\ \A y \in s : Max(s) >= y
<1>. DEFINE HasMax(t) == \E x \in t : \A y \in t : x >= y
            A == {n \in Nat : \A t \in SUBSET Nat :
                    IsFiniteSet(t) /\ t # {} /\ Cardinality(t) = n => HasMax(t)}
<1>1. 0 \in A
  BY PickFacts
<1>2. ASSUME NEW n \in Nat, n \in A PROVE n + 1 \in A
  <2>. SUFFICES ASSUME NEW t \in SUBSET Nat, IsFiniteSet(t), t # {}, Cardinality(t) = n + 1
                PROVE  HasMax(t)
    OBVIOUS
  <2>1. PICK x \in t : TRUE
    OBVIOUS
  <2>2. IsFiniteSet(t \ {x}) /\ Cardinality(t \ {x}) = n /\ t \ {x} \in SUBSET Nat
    BY PickFacts
  <2>3. CASE t \ {x} = {}
    BY <2>1, <2>3
  <2>4. CASE t \ {x} # {}
    <3>1. PICK z \in t \ {x} : \A y \in t \ {x} : z >= y
      BY <1>2, <2>2, <2>4
    <3>2. x \in Nat /\ z \in Nat
      OBVIOUS
    <3>3. CASE z >= x
      BY <3>1, <3>3
    <3>4. CASE x > z
      <4>1. \A y \in t : x >= y
        BY <3>1, <3>2, <3>4
      <4>. QED
        BY <4>1
    <3>. QED
      BY <3>2, <3>3, <3>4
  <2>. QED
    BY <2>3, <2>4
<1>3. Cardinality(s) \in A
  <2>. HIDE DEF A
  <2>. QED
    BY <1>1, <1>2, Induction, FS_CardinalityType
<1>4. HasMax(s)
  BY <1>3
<1>. QED
  BY <1>4 DEF Max

(***************************************************************************)
(* A sum over 1..n taken from the end, as FoldLeft takes the terms of a    *)
(* sequence.                                                               *)
(***************************************************************************)
LEMMA FromTheEnd ==
  ASSUME NEW n \in Nat, NEW s \in SUBSET (1..n)
  PROVE  /\ Cardinality(s) \in Nat
         /\ Cardinality(s) <= 0 => s = {}
         /\ s # {} => /\ Max(s) \in s /\ s \ {Max(s)} \in SUBSET (1..n)
                      /\ Cardinality(s \ {Max(s)}) = Cardinality(s) - 1
<1>1. IsFiniteSet(1..n)
  BY FS_Interval
<1>2. IsFiniteSet(s) /\ Cardinality(s) \in Nat
  BY <1>1, FS_Subset, FS_CardinalityType
<1>3. Cardinality(s) <= 0 => s = {}
  BY <1>2, PickFacts
<1>4. ASSUME s # {}
      PROVE  /\ Max(s) \in s /\ s \ {Max(s)} \in SUBSET (1..n)
             /\ Cardinality(s \ {Max(s)}) = Cardinality(s) - 1
  <2>1. s \in SUBSET Nat
    OBVIOUS
  <2>2. Max(s) \in s
    BY <1>2, <1>4, <2>1, MaxFacts
  <2>. QED
    BY <1>2, <1>4, <2>2, PickFacts
<1>. QED
  BY <1>2, <1>3, <1>4

LEMMA SumsFromTheEnd ==
  ASSUME NEW n \in Nat, NEW g, NatTerms(g, 1..n), NEW it, Sums(it, g, 1..n),
         NEW s \in SUBSET (1..n)
  PROVE  /\ it[s] \in Nat
         /\ s = {} => it[s] = 0
         /\ s # {} => g[Max(s)] \in Nat /\ it[s] = g[Max(s)] + it[s \ {Max(s)}]
                      /\ it[s \ {Max(s)}] \in Nat
<1>. DEFINE S == 1..n
<1>1. IsFiniteSet(S) /\ s \in SUBSET S /\ Sums(it, g, S) /\ NatTerms(g, S)
  BY FS_Interval
<1>. HIDE DEF S
<1>2. \A t \in SUBSET S : it[t] \in Nat /\ \A x \in t : it[t] = g[x] + it[t \ {x}]
  <2>1. IsFiniteSet(S) /\ Sums(it, g, S) /\ NatTerms(g, S)
    BY <1>1
  <2>. QED
    BY <2>1, SumsInAnyOrder
<1>3. s = {} => it[s] = 0
  BY DEF Sums
<1>4. s # {} => Max(s) \in s /\ s \ {Max(s)} \in SUBSET S
  BY FromTheEnd DEF S
<1>. QED
  BY <1>1, <1>2, <1>3, <1>4 DEF NatTerms

IsAscending(s) == \A i, j \in DOMAIN s : i < j => s[i] < s[j]

LEMMA AscendingExists ==
  ASSUME NEW S \in SUBSET Nat, IsFiniteSet(S)
  PROVE  \E s \in [1..Cardinality(S) -> S] : IsAscending(s)
<1>. DEFINE Lists(T, n) == \E s \in [1..n -> T] : IsAscending(s)
            A == {n \in Nat : \A T \in SUBSET Nat :
                    IsFiniteSet(T) /\ Cardinality(T) = n => Lists(T, n)}
<1>1. 0 \in A
  <2>. SUFFICES ASSUME NEW T PROVE Lists(T, 0)
    OBVIOUS
  <2>1. [i \in 1..0 |-> i] \in [1..0 -> T] /\ IsAscending([i \in 1..0 |-> i])
    BY DEF IsAscending
  <2>. QED
    BY <2>1
<1>2. ASSUME NEW n \in Nat, n \in A PROVE n + 1 \in A
  <2>. SUFFICES ASSUME NEW T \in SUBSET Nat, IsFiniteSet(T), Cardinality(T) = n + 1
                PROVE  Lists(T, n + 1)
    OBVIOUS
  <2>. DEFINE m == Max(T)
  <2>1. T # {}
    BY FS_EmptySet
  <2>2. m \in T /\ \A y \in T : m >= y
    BY <2>1, MaxFacts
  <2>. HIDE DEF m
  <2>3. IsFiniteSet(T \ {m}) /\ Cardinality(T \ {m}) = n /\ T \ {m} \in SUBSET Nat
    BY <2>1, <2>2, PickFacts
  <2>4. PICK s \in [1..n -> T \ {m}] : IsAscending(s)
    BY <1>2, <2>3
  <2>. DEFINE t == [i \in 1..(n + 1) |-> IF i = n + 1 THEN m ELSE s[i]]
  <2>5. \A i \in 1..(n + 1) : i = n + 1 \/ i \in 1..n
    OBVIOUS
  <2>6. t \in [1..(n + 1) -> T]
    BY <2>2, <2>4, <2>5
  <2>7. IsAscending(t)
    <3>. SUFFICES ASSUME NEW i \in 1..(n + 1), NEW j \in 1..(n + 1), i < j
                  PROVE  t[i] < t[j]
      BY DEF IsAscending
    <3>1. i \in 1..n /\ t[i] = s[i] /\ s[i] \in T \ {m}
      BY <2>4
    <3>2. CASE j = n + 1
      <4>1. m >= s[i] /\ s[i] # m /\ m \in Nat /\ s[i] \in Nat /\ t[j] = m
        BY <2>2, <3>1, <3>2
      <4>. HIDE DEF t
      <4>. QED
        BY <3>1, <4>1
    <3>3. CASE j # n + 1
      <4>1. j \in 1..n /\ t[j] = s[j]
        BY <3>3
      <4>2. s[i] < s[j]
        BY <2>4, <3>1, <4>1 DEF IsAscending
      <4>. HIDE DEF t
      <4>. QED
        BY <3>1, <4>1, <4>2
    <3>. QED
      BY <3>2, <3>3
  <2>. QED
    BY <2>6, <2>7
<1>3. Cardinality(S) \in A
  <2>. HIDE DEF A
  <2>. QED
    BY <1>1, <1>2, Induction, FS_CardinalityType
<1>. QED
  BY <1>3

-----------------------------------------------------------------------------
(***************************************************************************)
(* The balances of accounts under a root, as Witness adds them up.         *)
(***************************************************************************)
SumOf(root, S) == MapThenSumSet(LAMBDA a : root.keccak[a].balance, S)

LEMMA SumOfIsSums ==
  ASSUME NEW root, NEW S, IsFiniteSet(S)
  PROVE  \E it : /\ Sums(it, [a \in S |-> root.keccak[a].balance], S)
                 /\ SumOf(root, S) = it[S]
<1>. DEFINE g == [a \in S |-> root.keccak[a].balance]
            Solves(it) == it = [s \in SUBSET S |->
               IF s = {} THEN 0
               ELSE root.keccak[CHOOSE x \in s : TRUE].balance + it[s \ {CHOOSE x \in s : TRUE}]]
            iter == CHOOSE it : Solves(it)
<1>1. SumOf(root, S) = iter[S]
  BY DEF SumOf, MapThenSumSet, MapThenFoldSet
<1>2. ASSUME NEW it PROVE Solves(it) <=> Sums(it, g, S)
  <2>1. \A s \in SUBSET S : s # {} =>
          g[CHOOSE x \in s : TRUE] = root.keccak[CHOOSE x \in s : TRUE].balance
    <3>. SUFFICES ASSUME NEW s \in SUBSET S, s # {}
                  PROVE  g[CHOOSE x \in s : TRUE] = root.keccak[CHOOSE x \in s : TRUE].balance
      OBVIOUS
    <3>1. (CHOOSE x \in s : TRUE) \in S
      OBVIOUS
    <3>. QED
      BY <3>1
  <2>. HIDE DEF g
  <2>. QED
    BY <2>1 DEF Sums, Pick
<1>3. \E it : Solves(it)
  <2>. HIDE DEF Solves, g
  <2>. QED
    BY <1>2, SumsExist
<1>4. Solves(iter)
  <2>. HIDE DEF Solves
  <2>. QED
    BY <1>3
<1>. HIDE DEF iter, Solves, g
<1>5. Sums(iter, g, S) /\ SumOf(root, S) = iter[S]
  BY <1>1, <1>2, <1>4
<1>. QED
  BY <1>5 DEF g

LEMMA SumOfEmpty == \A root : SumOf(root, {}) = 0
<1>. SUFFICES ASSUME NEW root PROVE SumOf(root, {}) = 0
  OBVIOUS
<1>. DEFINE g == [a \in {} |-> root.keccak[a].balance]
<1>1. IsFiniteSet({})
  BY FS_EmptySet
<1>2. PICK it : Sums(it, g, {}) /\ SumOf(root, {}) = it[{}]
  BY <1>1, SumOfIsSums
<1>3. it[{}] = 0
  <2>. HIDE DEF g
  <2>. QED
    BY <1>2 DEF Sums
<1>. QED
  BY <1>2, <1>3

LEMMA SumOfAdd ==
  ASSUME NEW root, NEW S, IsFiniteSet(S), NEW x, x \notin S,
         \A a \in S \cup {x} : root.keccak[a].balance \in Nat
  PROVE  SumOf(root, S) \in Nat /\ SumOf(root, S \cup {x}) = root.keccak[x].balance + SumOf(root, S)
<1>. DEFINE g == [a \in S \cup {x} |-> root.keccak[a].balance]
            h == [a \in S |-> root.keccak[a].balance]
<1>1. IsFiniteSet(S \cup {x})
  BY FS_AddElement
<1>2. PICK it : Sums(it, g, S \cup {x}) /\ SumOf(root, S \cup {x}) = it[S \cup {x}]
  BY <1>1, SumOfIsSums
<1>3. PICK jt : Sums(jt, h, S) /\ SumOf(root, S) = jt[S]
  BY SumOfIsSums
<1>4. /\ \A y \in S \cup {x} : g[y] \in Nat
      /\ \A y \in S : g[y] = h[y]
      /\ g[x] = root.keccak[x].balance
  OBVIOUS
<1>. HIDE DEF g, h
<1>5. jt[S] \in Nat /\ it[S \cup {x}] = g[x] + jt[S]
  <2>1. Sums(it, g, S \cup {x}) /\ Sums(jt, h, S) /\ IsFiniteSet(S) /\ x \notin S
    BY <1>2, <1>3
  <2>2. \A y \in S \cup {x} : g[y] \in Nat
    BY <1>4
  <2>3. \A y \in S : g[y] = h[y]
    BY <1>4
  <2>. QED
    BY <2>1, <2>2, <2>3, SumsAdd
<1>. QED
  BY <1>2, <1>3, <1>4, <1>5

=============================================================================
