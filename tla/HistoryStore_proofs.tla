------------------------ MODULE HistoryStore_proofs ------------------------
(***************************************************************************)
(* What shedding may and may not do, and which series a limit holds for,   *)
(* for any hosts, samples, rings and limits.  The bytes of a store are     *)
(* sums over its series, whose few facts come first.                       *)
(***************************************************************************)
EXTENDS HistoryStore, FiniteSetTheorems, TLAPS

-----------------------------------------------------------------------------
(* Minima. *)

LEMMA MinOfPair ==
  ASSUME NEW a \in Int, NEW b \in Int
  PROVE  Min({a, b}) = IF a <= b THEN a ELSE b
<1>1. \E x \in {a, b} : \A y \in {a, b} : x <= y
  BY SMT
<1>2. Min({a, b}) \in {a, b} /\ \A y \in {a, b} : Min({a, b}) <= y
  BY <1>1 DEF Min
<1> QED BY <1>2, SMT

\* The intervals 0..x, x in T, have a smallest one.
LEMMA MinExists ==
  ASSUME NEW T \in SUBSET Nat, T # {}, NEW n \in Nat, \A x \in T : x <= n
  PROVE  Min(T) \in T /\ \A y \in T : Min(T) <= y
<1> DEFINE Below == {0..x : x \in T}
<1>1. Below \subseteq FiniteSubsetsOf(0..n)
  <2>1. \A x \in T : IsFiniteSet(0..x) /\ 0..x \subseteq 0..n
    <3> TAKE x \in T
    <3>1. x \in Nat /\ x <= n
      OBVIOUS
    <3>2. IsFiniteSet(0..x)
      BY <3>1, FS_Interval
    <3>3. 0..x \subseteq 0..n
      BY <3>1
    <3> QED BY <3>2, <3>3
  <2> QED BY <2>1 DEF FiniteSubsetsOf
<1>2. Below # {}
  OBVIOUS
<1>3. PICK B \in Below : \A C \in Below : ~ (<<C, B>> \in StrictSubsetOrdering(0..n))
  <2>1. IsWellFoundedOn(StrictSubsetOrdering(0..n), FiniteSubsetsOf(0..n))
    BY FS_StrictSubsetOrderingWellFounded
  <2> HIDE DEF Below
  <2> QED BY <1>1, <1>2, <2>1, WFMin
<1>4. PICK x \in T : B = 0..x
  OBVIOUS
<1>5. \A y \in T : x <= y
  <2> SUFFICES ASSUME NEW y \in T, ~(x <= y) PROVE FALSE
    OBVIOUS
  <2>1. x \in Nat /\ y \in Nat /\ y < x
    OBVIOUS
  <2>2. 0..y \subseteq 0..x /\ x \notin 0..y /\ x \in 0..x /\ 0..x \subseteq 0..n
    <3>1. x <= n
      OBVIOUS
    <3> QED BY <2>1, <3>1
  <2>3. <<0..y, 0..x>> \in StrictSubsetOrdering(0..n)
    BY <2>2 DEF StrictSubsetOrdering
  <2> QED BY <1>3, <1>4, <2>3
<1>6. \E m \in T : \A y \in T : m <= y
  BY <1>5
<1> QED BY <1>6 DEF Min

-----------------------------------------------------------------------------
(* Sums over a finite set. *)

LEMMA NatsByInduction ==
  ASSUME NEW T \in SUBSET Nat, 0 \in T, \A n \in T : n + 1 \in T
  PROVE  T = Nat
<1>1. SUFFICES ASSUME Nat \ T # {} PROVE FALSE
  OBVIOUS
<1>2. PICK m \in Nat \ T : \A k \in Nat \ T : ~(<<k, m>> \in OpToRel(<, Nat))
  BY <1>1, NatLessThanWellFounded, WFMin
<1>3. m - 1 \in T
  <2>1. m # 0
    OBVIOUS
  <2>2. m - 1 \in Nat /\ m - 1 < m
    BY <2>1
  <2>3. <<m - 1, m>> \in OpToRel(<, Nat)
    BY <2>2 DEF OpToRel
  <2> QED BY <1>2, <2>2, <2>3
<1>4. m - 1 + 1 = m
  OBVIOUS
<1> QED BY <1>2, <1>3, <1>4

\* One unfolding of a sum over s, g giving the sums over the smaller sets.
Pick(s) == CHOOSE x \in s : TRUE
Body(w, g, s) == IF s = {} THEN 0 ELSE w[Pick(s)] + g[s \ {Pick(s)}]
Sums(w, S) == CHOOSE g : g = [r \in SUBSET S |-> Body(w, g, r)]
Sum(w, S) == Sums(w, S)[S]

LEMMA SumsExist ==
  ASSUME NEW w, NEW S, IsFiniteSet(S)
  PROVE  \A s \in SUBSET S : Sums(w, S)[s] = Body(w, Sums(w, S), s)
<1> DEFINE Small(n) == {s \in SUBSET S : Cardinality(s) <= n}
           T == {n \in Nat : \E g : g = [s \in Small(n) |-> Body(w, g, s)]}
<1>1. \A s \in SUBSET S : IsFiniteSet(s) /\ Cardinality(s) \in Nat
  BY FS_Subset, FS_CardinalityType
<1>2. \A n \in Nat : \A s \in Small(n) :
        s # {} => s \ {Pick(s)} \in SUBSET S /\ Cardinality(s \ {Pick(s)}) = Cardinality(s) - 1
  <2> TAKE n \in Nat
  <2> TAKE s \in Small(n)
  <2> HAVE s # {}
  <2>1. Pick(s) \in s
    BY DEF Pick
  <2> QED BY <1>1, <2>1, FS_RemoveElement
<1>3. 0 \in T
  <2>1. \A s \in Small(0) : s = {}
    BY <1>1, FS_EmptySet
  <2> DEFINE g == [s \in Small(0) |-> 0]
  <2>2. g = [s \in Small(0) |-> Body(w, g, s)]
    BY <2>1 DEF Body
  <2> HIDE DEF g
  <2> QED BY <2>2
<1>4. ASSUME NEW n \in T PROVE n + 1 \in T
  <2>1. PICK g : g = [s \in Small(n) |-> Body(w, g, s)]
    OBVIOUS
  <2> DEFINE h == [s \in Small(n + 1) |-> IF s \in Small(n) THEN g[s] ELSE Body(w, g, s)]
  <2>2. ASSUME NEW s \in Small(n + 1) PROVE h[s] = Body(w, h, s)
    <3>1. h[s] = Body(w, g, s)
      BY <2>1
    <3>2. CASE s = {}
      BY <3>1, <3>2 DEF Body
    <3>3. CASE s # {}
      <4> DEFINE x == Pick(s)
      <4>1. s \ {x} \in SUBSET S /\ Cardinality(s \ {x}) = Cardinality(s) - 1
        BY <1>2, <3>3
      <4>2. s \ {x} \in Small(n) /\ s \ {x} \in Small(n + 1)
        BY <1>1, <4>1
      <4>3. h[s \ {x}] = g[s \ {x}]
        BY <4>2
      <4> HIDE DEF h
      <4> QED BY <3>1, <3>3, <4>3 DEF Body
    <3> QED BY <3>2, <3>3
  <2>3. h = [s \in Small(n + 1) |-> Body(w, h, s)]
    BY <2>2
  <2> HIDE DEF h
  <2>4. \E f : f = [s \in Small(n + 1) |-> Body(w, f, s)]
    BY <2>3
  <2>5. n + 1 \in Nat
    OBVIOUS
  <2> HIDE DEF Small
  <2> QED BY <2>4, <2>5
<1>5. T = Nat
  <2> HIDE DEF T
  <2>1. T \in SUBSET Nat
    BY DEF T
  <2> QED BY <1>3, <1>4, <2>1, NatsByInduction
<1>6. Cardinality(S) \in T
  BY <1>5, FS_CardinalityType
<1>7. Small(Cardinality(S)) = SUBSET S
  BY FS_Subset
<1>8. \E g : g = [r \in SUBSET S |-> Body(w, g, r)]
  BY <1>6, <1>7
<1> DEFINE g == Sums(w, S)
<1>9. g = [r \in SUBSET S |-> Body(w, g, r)]
  BY <1>8 DEF Sums
<1> HIDE DEF g
<1>10. \A s \in SUBSET S : g[s] = Body(w, g, s)
  BY <1>9
<1> QED BY <1>10 DEF g

\* What the sums are: nothing over the empty set, and over another the weight
\* of some element with the sum over the rest.
LEMMA SumsStep ==
  ASSUME NEW w, NEW S, IsFiniteSet(S), NEW s \in SUBSET S
  PROVE  /\ s = {} => Sums(w, S)[s] = 0
         /\ s # {} => Pick(s) \in s /\ Sums(w, S)[s] = w[Pick(s)] + Sums(w, S)[s \ {Pick(s)}]
<1>2. Sums(w, S)[s] = Body(w, Sums(w, S), s)
  BY SumsExist
<1>3. s # {} => Pick(s) \in s
  BY DEF Pick
<1> QED BY <1>2, <1>3 DEF Body

\* The sums over the subsets of S do not depend on S, nor on weights outside.
LEMMA SumsAgree ==
  ASSUME NEW w, NEW v, NEW S, NEW R, IsFiniteSet(S), IsFiniteSet(R),
         NEW K, K \subseteq S, K \subseteq R, \A x \in K : w[x] = v[x]
  PROVE  Sums(w, S)[K] = Sums(v, R)[K]
<1> DEFINE T == {n \in Nat : \A s \in SUBSET K : Cardinality(s) = n => Sums(w, S)[s] = Sums(v, R)[s]}
<1>1. \A s \in SUBSET K : IsFiniteSet(s) /\ Cardinality(s) \in Nat
  BY FS_Subset, FS_CardinalityType
<1>2. \A s \in SUBSET K : s \in SUBSET S /\ s \in SUBSET R
  OBVIOUS
<1>7. ASSUME NEW s \in SUBSET R, s # {}
      PROVE  Sums(v, R)[s] = v[Pick(s)] + Sums(v, R)[s \ {Pick(s)}]
  <2> HIDE DEF T
  <2>1. Sums(v, R)[s] = Body(v, Sums(v, R), s)
    BY SumsExist
  <2> QED BY <1>7, <2>1 DEF Body
<1>3. 0 \in T
  <2>1. \A s \in SUBSET K : Cardinality(s) = 0 => s = {}
    BY <1>1, FS_EmptySet
  <2>2. {} \in SUBSET S /\ {} \in SUBSET R
    OBVIOUS
  <2>3. Sums(w, S)[{}] = 0
    BY <2>2, SumsStep
  <2>4. Sums(v, R)[{}] = 0
    BY <2>2, SumsStep
  <2> QED BY <2>1, <2>3, <2>4
<1>4. ASSUME NEW n \in T PROVE n + 1 \in T
  <2>1. ASSUME NEW s \in SUBSET K, Cardinality(s) = n + 1
        PROVE  Sums(w, S)[s] = Sums(v, R)[s]
    <3> DEFINE x == Pick(s)
    <3>1. s # {}
      <4>1. n \in Nat
        OBVIOUS
      <4> HIDE DEF T
      <4> QED BY <2>1, <4>1, FS_EmptySet
    <3>2. /\ x \in s
          /\ Sums(w, S)[s] = w[x] + Sums(w, S)[s \ {x}]
      BY <1>2, <3>1, SumsStep
    <3>6. Sums(v, R)[s] = v[x] + Sums(v, R)[s \ {x}]
      <4>1. s \in SUBSET R
        BY <1>2
      <4>2. Sums(v, R)[s] = v[Pick(s)] + Sums(v, R)[s \ {Pick(s)}]
        BY <1>7, <3>1, <4>1
      <4> QED BY <4>2
    <3> HIDE DEF x
    <3>3. s \ {x} \in SUBSET K /\ Cardinality(s \ {x}) = n
      <4>1. n \in Nat
        OBVIOUS
      <4>2. IsFiniteSet(s)
        BY <1>1
      <4>3. Cardinality(s \ {x}) = Cardinality(s) - 1
        BY <3>2, <4>2, FS_RemoveElement
      <4> QED BY <2>1, <4>1, <4>3
    <3>4. Sums(w, S)[s \ {x}] = Sums(v, R)[s \ {x}]
      BY <3>3
    <3>5. w[x] = v[x]
      BY <3>2
    <3> QED BY <3>2, <3>4, <3>5, <3>6
  <2>2. n + 1 \in Nat
    OBVIOUS
  <2> QED BY <2>1, <2>2
<1>5. T = Nat
  <2> HIDE DEF T
  <2>1. T \in SUBSET Nat
    BY DEF T
  <2> QED BY <1>3, <1>4, <2>1, NatsByInduction
<1>6. Cardinality(K) \in T
  BY <1>1, <1>5
<1> QED BY <1>6

\* One element at a time, in any order.
LEMMA SumTakesOut ==
  ASSUME NEW w, NEW S, IsFiniteSet(S), \A x \in S : w[x] \in Nat
  PROVE  /\ \A s \in SUBSET S : Sums(w, S)[s] \in Nat
         /\ \A s \in SUBSET S : \A x \in s : Sums(w, S)[s] = w[x] + Sums(w, S)[s \ {x}]
<1> DEFINE Good(s) == /\ Sums(w, S)[s] \in Nat
                      /\ \A x \in s : Sums(w, S)[s] = w[x] + Sums(w, S)[s \ {x}]
           T == {n \in Nat : \A s \in SUBSET S : Cardinality(s) <= n => Good(s)}
<1>1. \A s \in SUBSET S : IsFiniteSet(s) /\ Cardinality(s) \in Nat
  BY FS_Subset, FS_CardinalityType
<1>2. Good({})
  <2>1. {} \in SUBSET S
    OBVIOUS
  <2>2. Sums(w, S)[{}] = 0
    BY <2>1, SumsStep
  <2> QED BY <2>2
<1>3. 0 \in T
  <2>1. \A s \in SUBSET S : Cardinality(s) <= 0 => s = {}
    BY <1>1, FS_EmptySet
  <2> HIDE DEF Good
  <2> QED BY <1>2, <2>1
<1>4. ASSUME NEW n \in T PROVE n + 1 \in T
  <2>1. ASSUME NEW s \in SUBSET S, Cardinality(s) <= n + 1, s # {}
        PROVE  Good(s)
    <3> DEFINE p == Pick(s)
    <3>1. p \in s /\ Sums(w, S)[s] = w[p] + Sums(w, S)[s \ {p}]
      BY <2>1, SumsStep
    <3> HIDE DEF p
    <3>2. p \in s
      BY <3>1
    <3>3. \A x \in s : s \ {x} \in SUBSET S /\ Cardinality(s \ {x}) <= n
      BY <1>1, <2>1, FS_RemoveElement
    <3>4. \A x \in s : Good(s \ {x})
      <4> HIDE DEF Good
      <4> QED BY <3>3
    <3>5. Sums(w, S)[s] = w[p] + Sums(w, S)[s \ {p}]
      BY <3>1
    <3>6. ASSUME NEW x \in s
          PROVE  Sums(w, S)[s] = w[x] + Sums(w, S)[s \ {x}]
      <4>1. CASE x = p
        BY <3>5, <4>1
      <4>2. CASE x # p
        <5> DEFINE r == (s \ {x}) \ {p}
        <5>1. (s \ {p}) \ {x} = r /\ x \in s \ {p} /\ p \in s \ {x}
          BY <3>2, <4>2
        <5>2. Sums(w, S)[s \ {p}] = w[x] + Sums(w, S)[r]
          BY <3>2, <3>4, <5>1
        <5>3. Sums(w, S)[s \ {x}] = w[p] + Sums(w, S)[r]
          BY <3>4, <5>1
        <5>4. w[x] \in Nat /\ w[p] \in Nat
          BY <3>2
        <5>5. r \in SUBSET S /\ Cardinality(r) <= n
          <6>1. n \in Nat /\ s \ {x} \in SUBSET S /\ Cardinality(s \ {x}) <= n
            BY <3>3
          <6>2. IsFiniteSet(s \ {x}) /\ Cardinality(s \ {x}) \in Nat
            BY <1>1, <6>1
          <6>3. Cardinality(r) = Cardinality(s \ {x}) - 1
            BY <5>1, <6>2, FS_RemoveElement
          <6> QED BY <6>1, <6>2, <6>3
        <5>6. Sums(w, S)[r] \in Nat
          <6>1. Good(r)
            <7> HIDE DEF Good
            <7> QED BY <5>5
          <6> QED BY <6>1
        <5> QED BY <3>5, <5>2, <5>3, <5>4, <5>6
      <4> QED BY <4>1, <4>2
    <3>7. Sums(w, S)[s] \in Nat
      <4>1. w[p] \in Nat /\ Sums(w, S)[s \ {p}] \in Nat
        BY <3>2, <3>4
      <4> QED BY <3>5, <4>1
    <3> QED BY <3>6, <3>7
  <2>2. n + 1 \in Nat
    OBVIOUS
  <2> HIDE DEF Good
  <2> QED BY <1>2, <2>1, <2>2
<1>5. T = Nat
  <2> HIDE DEF T
  <2>1. T \in SUBSET Nat
    BY DEF T
  <2> QED BY <1>3, <1>4, <2>1, NatsByInduction
<1>6. ASSUME NEW s \in SUBSET S PROVE Good(s)
  <2>1. Cardinality(s) \in T
    BY <1>1, <1>5
  <2> HIDE DEF Good
  <2> QED BY <2>1
<1> QED BY <1>6

\* A sum over a subset is no larger.
LEMMA SumOfSubset ==
  ASSUME NEW w, NEW S, IsFiniteSet(S), \A x \in S : w[x] \in Nat,
         NEW v, NEW K, K \subseteq S, \A x \in K : v[x] = w[x]
  PROVE  Sum(v, K) \in Nat /\ Sum(w, S) \in Nat /\ Sum(v, K) <= Sum(w, S)
<1> DEFINE T == {n \in Nat : \A s \in SUBSET S : K \subseteq s /\ Cardinality(s) <= n => Sums(w, S)[K] <= Sums(w, S)[s]}
<1>1. \A s \in SUBSET S : IsFiniteSet(s) /\ Cardinality(s) \in Nat
  BY FS_Subset, FS_CardinalityType
<1>2. \A s \in SUBSET S : Sums(w, S)[s] \in Nat
  BY SumTakesOut
<1>3. K \in SUBSET S /\ S \in SUBSET S
  OBVIOUS
<1>4. 0 \in T
  <2>1. \A s \in SUBSET S : Cardinality(s) <= 0 => s = {}
    BY <1>1, FS_EmptySet
  <2>2. ASSUME NEW s \in SUBSET S, K \subseteq s, Cardinality(s) <= 0 PROVE K = s
    BY <2>1, <2>2
  <2> QED BY <1>2, <1>3, <2>2
<1>5. ASSUME NEW n \in T PROVE n + 1 \in T
  <2>1. ASSUME NEW s \in SUBSET S, K \subseteq s, Cardinality(s) <= n + 1
        PROVE  Sums(w, S)[K] <= Sums(w, S)[s]
    <3>1. CASE K = s
      BY <1>2, <3>1
    <3>2. CASE K # s
      <4>1. PICK y \in s : y \notin K
        BY <2>1, <3>2
      <4>2. Sums(w, S)[s] = w[y] + Sums(w, S)[s \ {y}]
        BY SumTakesOut
      <4>3. n \in Nat /\ IsFiniteSet(s) /\ Cardinality(s) \in Nat
        BY <1>1
      <4>4. Cardinality(s \ {y}) = Cardinality(s) - 1
        BY <4>3, FS_RemoveElement
      <4>5. s \ {y} \in SUBSET S /\ K \subseteq s \ {y} /\ Cardinality(s \ {y}) <= n
        BY <2>1, <4>1, <4>3, <4>4
      <4>6. Sums(w, S)[K] <= Sums(w, S)[s \ {y}]
        BY <4>5
      <4>7. w[y] \in Nat /\ Sums(w, S)[s \ {y}] \in Nat /\ Sums(w, S)[K] \in Nat
        BY <1>2, <1>3, <4>5
      <4> HIDE DEF T
      <4> QED BY <4>2, <4>6, <4>7
    <3> QED BY <3>1, <3>2
  <2>2. n + 1 \in Nat
    OBVIOUS
  <2> QED BY <2>1, <2>2
<1>6. T = Nat
  <2> HIDE DEF T
  <2>1. T \in SUBSET Nat
    BY DEF T
  <2> QED BY <1>4, <1>5, <2>1, NatsByInduction
<1>7. Cardinality(S) \in T
  BY <1>1, <1>3, <1>6
<1>8. Sums(w, S)[K] <= Sums(w, S)[S]
  BY <1>1, <1>3, <1>7
<1>9. Sums(v, K)[K] = Sums(w, S)[K]
  <2>1. IsFiniteSet(K)
    BY <1>1, <1>3
  <2> HIDE DEF T
  <2> QED BY <2>1, SumsAgree
<1> QED BY <1>2, <1>3, <1>8, <1>9 DEF Sum

-----------------------------------------------------------------------------
(* Bytes. *)

LEMMA SeriesBytesIsNat ==
  ASSUME NEW level \in Levels
  PROVE  SeriesBytes(level) \in Nat
<1>1. Last \in Nat \ {0} /\ \A i \in Levels : TierBytes[i] \in Nat
  BY StoreShape
<1>2. level..Last \subseteq Levels /\ level \in Int /\ Last \in Int
  BY <1>1 DEF Levels
<1>3. IsFiniteSet(level..Last)
  BY <1>2, FS_Interval
<1>4. SeriesBytes(level) = Sum(TierBytes, level..Last)
  BY DEF SeriesBytes, MapThenSumSet, MapThenFoldSet, Sum, Sums, Body, Pick
<1>5. \A i \in level..Last : TierBytes[i] \in Nat
  BY <1>1, <1>2
<1> QED BY <1>3, <1>4, <1>5, SumOfSubset

\* The bytes of some series are no more than the bytes of all of them.
LEMMA BytesOfSome ==
  ASSUME NEW D, IsFiniteSet(D), NEW f \in [D -> Levels], NEW K \in SUBSET D
  PROVE  /\ Bytes([k \in K |-> f[k]]) \in Nat /\ Bytes(f) \in Nat
         /\ Bytes([k \in K |-> f[k]]) <= Bytes(f)
<1> DEFINE w(g) == [k \in DOMAIN g |-> SeriesBytes(g[k])]
<1>1. ASSUME NEW g PROVE Bytes(g) = Sum(w(g), DOMAIN g)
  BY ZenonT(40) DEF Bytes, MapThenSumSet, MapThenFoldSet, Sum, Sums, Body, Pick
<1>2. DOMAIN f = D /\ DOMAIN [k \in K |-> f[k]] = K
  OBVIOUS
<1>3. \A k \in D : w(f)[k] = SeriesBytes(f[k]) /\ SeriesBytes(f[k]) \in Nat
  BY SeriesBytesIsNat
<1>4. \A k \in K : w([i \in K |-> f[i]])[k] = w(f)[k]
  OBVIOUS
<1> HIDE DEF w
<1>5. K \subseteq D
  OBVIOUS
<1>6. \A k \in D : w(f)[k] \in Nat
  BY <1>3
<1>7. /\ Sum(w([k \in K |-> f[k]]), K) \in Nat /\ Sum(w(f), D) \in Nat
      /\ Sum(w([k \in K |-> f[k]]), K) <= Sum(w(f), D)
  BY <1>4, <1>5, <1>6, SumOfSubset
<1> QED BY <1>1, <1>2, <1>7

-----------------------------------------------------------------------------
(* Shedding. *)

LEMMA ShedGives ==
  ASSUME NEW D, NEW f \in [D -> Levels], NEW n \in Nat
  PROVE  /\ Shed(f, n) \in [D -> Levels]
         /\ \A k \in D : Shed(f, n)[k] = IF f[k] + n <= Last THEN f[k] + n ELSE Last
<1>1. Last \in Nat \ {0}
  BY StoreShape
<1>2. \A k \in D : f[k] \in Nat /\ f[k] >= 1 /\ f[k] <= Last
  BY <1>1 DEF Levels
<1>3. \A k \in D : Min({f[k] + n, Last}) = IF f[k] + n <= Last THEN f[k] + n ELSE Last
  BY <1>1, <1>2, MinOfPair
<1>4. \A k \in D : Min({f[k] + n, Last}) \in Levels
  BY <1>1, <1>2, <1>3 DEF Levels
<1>5. DOMAIN f = D
  OBVIOUS
<1>6. Shed(f, n) = [k \in D |-> Min({f[k] + n, Last})]
  BY <1>5 DEF Shed
<1> QED BY <1>3, <1>4, <1>6

\* No shedding at all changes nothing.
LEMMA ShedNothing ==
  ASSUME NEW D, NEW f \in [D -> Levels]
  PROVE  Shed(f, 0) = f
<1>1. Last \in Nat \ {0}
  BY StoreShape
<1>2. \A k \in D : Shed(f, 0)[k] = f[k]
  BY <1>1, ShedGives DEF Levels
<1>3. Shed(f, 0) \in [D -> Levels]
  BY ShedGives
<1> QED BY <1>2, <1>3

\* Enforcing sheds every series equally often, and not once when the limit is
\* met as things are.
LEMMA EnforcedGives ==
  ASSUME NEW D, NEW f \in [D -> Levels], NEW limit
  PROVE  \E n \in 0..Last : /\ Enforced(f, limit) = Shed(f, n)
                            /\ n # 0 => ~(Bytes(f) <= limit)
<1>1. Last \in Nat \ {0}
  BY StoreShape
<1> DEFINE T == {n \in 0..Last : n = Last \/ Bytes(Shed(f, n)) <= limit}
<1>2. T \in SUBSET Nat /\ T # {} /\ \A n \in T : n <= Last
  BY <1>1
<1>3. Min(T) \in T /\ \A n \in T : Min(T) <= n
  <2> HIDE DEF T
  <2> QED BY <1>1, <1>2, MinExists
<1>4. Enforced(f, limit) = Shed(f, Min(T))
  BY DEF Enforced
<1>5. Min(T) # 0 => ~(Bytes(Shed(f, 0)) <= limit)
  <2>1. Min(T) # 0 => 0 \notin T
    BY <1>1, <1>2, <1>3
  <2> QED BY <1>1, <2>1
<1>6. Min(T) # 0 => ~(Bytes(f) <= limit)
  BY <1>5, ShedNothing
<1>7. Min(T) \in 0..Last
  BY <1>3
<1> HIDE DEF T
<1> QED BY <1>4, <1>6, <1>7

LEMMA EnforcedKeeps ==
  ASSUME NEW D, NEW f \in [D -> Levels], NEW limit
  PROVE  /\ Enforced(f, limit) \in [D -> Levels]
         /\ \A j, k \in D : f[j] <= f[k] => Enforced(f, limit)[j] <= Enforced(f, limit)[k]
         /\ \A k \in D : Enforced(f, limit)[k] > f[k] => ~(Bytes(f) <= limit)
<1>1. Last \in Nat \ {0}
  BY StoreShape
<1>2. PICK n \in 0..Last : Enforced(f, limit) = Shed(f, n) /\ (n # 0 => ~(Bytes(f) <= limit))
  BY EnforcedGives
<1>3. n \in Nat
  BY <1>1
<1>4. /\ Enforced(f, limit) \in [D -> Levels]
      /\ \A k \in D : Enforced(f, limit)[k] = IF f[k] + n <= Last THEN f[k] + n ELSE Last
  BY <1>2, <1>3, ShedGives
<1>5. \A k \in D : f[k] \in 1..Last
  BY DEF Levels
<1>6. \A j, k \in D : f[j] <= f[k] => Enforced(f, limit)[j] <= Enforced(f, limit)[k]
  BY <1>1, <1>3, <1>4, <1>5
<1>7. ASSUME NEW k \in D, Enforced(f, limit)[k] > f[k]
      PROVE  ~(Bytes(f) <= limit)
  <2>1. f[k] \in 1..Last
    BY <1>5
  <2>2. Enforced(f, limit)[k] = IF f[k] + n <= Last THEN f[k] + n ELSE Last
    BY <1>4
  <2>3. n # 0
    <3> SUFFICES ASSUME n = 0 PROVE FALSE
      OBVIOUS
    <3> QED BY <1>1, <1>7, <2>1, <2>2
  <2> QED BY <1>2, <2>3
<1> QED BY <1>4, <1>6, <1>7

LEMMA FinestIsALevel ==
  ASSUME NEW D, NEW f \in [D -> Levels]
  PROVE  FinestOf(f) \in Levels
<1>1. Last \in Nat \ {0}
  BY StoreShape
<1> DEFINE T == {f[k] : k \in D}
<1>2. T \subseteq Levels /\ (D # {} => T # {})
  OBVIOUS
<1>3. T \in SUBSET Nat /\ \A x \in T : x <= Last
  BY <1>1, <1>2 DEF Levels
<1>4. DOMAIN f = D
  OBVIOUS
<1>5. CASE D = {}
  BY <1>1, <1>4, <1>5 DEF FinestOf, Levels
<1>6. CASE D # {}
  <2>1. Min(T) \in T
    <3> HIDE DEF T
    <3> QED BY <1>1, <1>2, <1>3, <1>6, MinExists
  <2>2. FinestOf(f) = Min(T)
    BY <1>4, <1>6 DEF FinestOf
  <2> QED BY <1>2, <2>1, <2>2
<1> QED BY <1>5, <1>6

-----------------------------------------------------------------------------
(* The invariant: types, and a limit whenever set_cap_mb is about to enforce it. *)

Enforcing == cmd = <<"enforce">> => cap > 0
IInv == TypeOK /\ Enforcing

\* A series appears with every tier it can have.
Grown(keys) == [k \in Series \cup keys |-> IF k \in Series THEN floor[k] ELSE 1]

LEMMA GrownIsTyped ==
  ASSUME IInv, NEW keys
  PROVE  Grown(keys) \in [Series \cup keys -> Levels]
BY StoreShape DEF IInv, TypeOK, Grown, Levels, Series

\* What record does to the series, with the check and without.
LEMMA RecordGives ==
  ASSUME IInv, NEW h \in Hosts, NEW frame \in Frames, Record(h, frame)
  PROVE  \/ /\ cap > 0
            /\ floor' = Enforced(Grown(Keys(h, frame)), cap)
            /\ finest' = FinestOf(Enforced(Grown(Keys(h, frame)), cap))
            /\ fresh' = {}
         \/ /\ floor' = Grown(Keys(h, frame))
            /\ finest' = finest
            /\ fresh' = fresh \cup (Keys(h, frame) \ Series)
BY DEF Record, CheckIsDue, Enforce, Grown

LEMMA StepKeeps == ASSUME IInv, [Next]_vars PROVE IInv'
<1> USE DEF IInv
<1>1. Last \in Nat \ {0} /\ 1 \in Levels /\ Limits \subseteq Nat /\ CheckEvery \in Nat \ {0}
  BY StoreShape DEF Levels
<1>2. ASSUME NEW h \in Hosts, NEW frame \in Frames, Record(h, frame)
      PROVE  IInv'
  <2> DEFINE g == Grown(Keys(h, frame))
  <2>1. g \in [Series \cup Keys(h, frame) -> Levels]
    BY GrownIsTyped
  <2>2. cap' = cap /\ cmd' = cmd /\ writes' = IF cap > 0 THEN (writes + 1) % CheckEvery ELSE writes
    BY <1>2 DEF Record
  <2>3. writes' \in 0..(CheckEvery - 1)
    BY <1>1, <2>2 DEF TypeOK
  <2> HIDE DEF g
  <2>4. CASE floor' = Enforced(g, cap) /\ finest' = FinestOf(Enforced(g, cap)) /\ fresh' = {}
    <3>1. Enforced(g, cap) \in [Series \cup Keys(h, frame) -> Levels]
      BY <2>1, EnforcedKeeps
    <3>2. FinestOf(Enforced(g, cap)) \in Levels
      BY <3>1, FinestIsALevel
    <3>3. floor' \in [DOMAIN floor' -> Levels]
      BY <2>4, <3>1
    <3> QED BY <2>2, <2>3, <2>4, <3>2, <3>3 DEF TypeOK, Series, Enforcing
  <2>5. CASE floor' = g /\ finest' = finest /\ fresh' = fresh \cup (Keys(h, frame) \ Series)
    <3>1. floor' \in [DOMAIN floor' -> Levels] /\ DOMAIN floor' = Series \cup Keys(h, frame)
      BY <2>1, <2>5
    <3> QED BY <2>2, <2>3, <2>5, <3>1 DEF TypeOK, Series, Enforcing
  <2> QED BY <1>2, <2>4, <2>5, RecordGives DEF g
<1>3. ASSUME NEW limit \in Limits, SetCap(limit)
      PROVE  IInv'
  <2>1. cap' = limit /\ (cmd' = <<"enforce">> => limit > 0) /\ cmd' \in {None, <<"enforce">>}
    BY <1>3, StoreShape DEF SetCap
  <2> QED BY <1>3, <2>1 DEF SetCap, TypeOK, Series, Enforcing
<1>4. CASE EnforceNow
  <2>1. floor \in [Series -> Levels]
    BY DEF TypeOK
  <2>2. Enforced(floor, cap) \in [Series -> Levels]
    BY <2>1, EnforcedKeeps
  <2>3. FinestOf(Enforced(floor, cap)) \in Levels
    BY <2>2, FinestIsALevel
  <2>4. floor' \in [DOMAIN floor' -> Levels] /\ fresh' = {} /\ UNCHANGED <<cap, finest, writes>>
    BY <1>4, <2>2 DEF EnforceNow
  <2>5. \E i \in Levels : cmd' = <<"finest", i>>
    BY <1>4, <2>3 DEF EnforceNow
  <2>6. cmd' # <<"enforce">>
    BY <2>5
  <2> QED BY <2>4, <2>5, <2>6 DEF TypeOK, Series, Enforcing
<1>5. CASE Report
  <2>1. cmd # None /\ cmd[1] = "finest" /\ cmd' = None /\ finest' = cmd[2]
        /\ UNCHANGED <<floor, cap, writes, fresh>>
    BY <1>5 DEF Report
  <2>2. PICK i \in Levels : cmd = <<"finest", i>>
    BY <2>1 DEF TypeOK
  <2>3. finest' \in Levels
    BY <2>1, <2>2
  <2> QED BY <2>1, <2>3, StoreShape DEF TypeOK, Series, Enforcing
<1>6. ASSUME NEW kept \in SUBSET Series, Keep(kept)
      PROVE  floor' \in [Series' -> Levels] /\ fresh' \subseteq Series'
  BY <1>6 DEF Keep, TypeOK, Series
<1>7. CASE Clear
  <2>1. Keep({}) /\ cmd' = <<"finest", 1>> /\ UNCHANGED <<cap, finest, writes>>
    BY <1>7 DEF Clear
  <2>2. floor' \in [Series' -> Levels] /\ fresh' \subseteq Series'
    BY <1>6, <2>1
  <2>3. cmd' # <<"enforce">>
    BY <2>1
  <2> QED BY <1>1, <2>1, <2>2, <2>3 DEF TypeOK, Enforcing
<1>8. ASSUME NEW h \in Hosts, ForgetHost(h)
      PROVE  IInv'
  <2>1. Keep({k \in Series : k[1] # h}) /\ UNCHANGED <<cap, finest, writes, cmd>>
    BY <1>8 DEF ForgetHost
  <2>2. floor' \in [Series' -> Levels] /\ fresh' \subseteq Series'
    BY <1>6, <2>1
  <2> QED BY <2>1, <2>2 DEF TypeOK, Enforcing
<1>9. CASE UNCHANGED vars
  BY <1>9 DEF vars, TypeOK, Series, Enforcing
<1> QED BY <1>2, <1>3, <1>4, <1>5, <1>7, <1>8, <1>9 DEF Next

LEMMA Invariance == Spec => []IInv
<1>1. Init => IInv
  BY StoreShape DEF Init, IInv, TypeOK, Series, Enforcing, Levels
<1>2. IInv /\ [Next]_vars => IInv'
  BY StepKeeps
<1> QED BY <1>1, <1>2, PTL DEF Spec

\* The store's variables keep their types: no series is shed past its last tier
\* (Series::shed_finest), and the resolution reported is one there is.
THEOREM StoreTypeCorrect == Spec => []TypeOK
<1>1. IInv => TypeOK
  BY DEF IInv
<1> QED BY <1>1, Invariance, PTL

-----------------------------------------------------------------------------
(* What a step may do to the series. *)

\* Which series there are after a step, and what became of the ones that were.
LEMMA StepOnSeries ==
  ASSUME IInv, [Next]_vars
  PROVE  \/ \E keys : \/ floor' = Grown(keys)
                      \/ floor' = Enforced(Grown(keys), cap) /\ cap > 0
         \/ floor' = Enforced(floor, cap) /\ cap > 0
         \/ floor' = [k \in {} |-> floor[k]]
         \/ \E h : floor' = [k \in {j \in Series : j[1] # h} |-> floor[k]]
         \/ floor' = floor
<1>1. ASSUME NEW h \in Hosts, NEW frame \in Frames, Record(h, frame)
      PROVE  \E keys : \/ floor' = Grown(keys)
                       \/ floor' = Enforced(Grown(keys), cap) /\ cap > 0
  BY <1>1, RecordGives
<1>2. CASE EnforceNow
  BY <1>2 DEF EnforceNow, IInv, Enforcing
<1>3. CASE Clear
  BY <1>3 DEF Clear, Keep
<1>4. ASSUME NEW h \in Hosts, ForgetHost(h)
      PROVE  floor' = [k \in {j \in Series : j[1] # h} |-> floor[k]]
  BY <1>4 DEF ForgetHost, Keep
<1>5. CASE Report \/ UNCHANGED vars \/ \E limit \in Limits : SetCap(limit)
  BY <1>5 DEF Report, vars, SetCap
<1> QED BY <1>1, <1>2, <1>3, <1>4, <1>5 DEF Next

\* A step that keeps a series keeps its level, or raises all of them alike and
\* only because they exceed a limit that is set.
LEMMA StepOnLevels ==
  ASSUME IInv, [Next]_vars, NEW j \in Series \cap DOMAIN floor', NEW k \in Series \cap DOMAIN floor'
  PROVE  /\ floor[j] <= floor[k] => floor'[j] <= floor'[k]
         /\ floor'[k] > floor[k] =>
              cap > 0 /\ ~(Bytes([i \in DOMAIN floor' |-> IF i \in Series THEN floor[i] ELSE 1]) <= cap)
<1>1. floor \in [Series -> Levels] /\ DOMAIN floor = Series
  BY DEF IInv, TypeOK, Series
<1>2. Levels \subseteq Nat /\ \A i \in Series : floor[i] \in Levels
  BY <1>1, StoreShape DEF Levels
<1>3. CASE floor'[j] = floor[j] /\ floor'[k] = floor[k]
  <2>1. floor[k] \in Nat
    BY <1>2
  <2> QED BY <1>3, <2>1
<1>4. ASSUME NEW D, NEW f \in [D -> Levels], Series \subseteq D, floor' = Enforced(f, cap), cap > 0,
             f = [i \in D |-> IF i \in Series THEN floor[i] ELSE 1]
      PROVE  /\ floor[j] <= floor[k] => floor'[j] <= floor'[k]
             /\ floor'[k] > floor[k] =>
                  cap > 0 /\ ~(Bytes([i \in DOMAIN floor' |-> IF i \in Series THEN floor[i] ELSE 1]) <= cap)
  <2>1. f[j] = floor[j] /\ f[k] = floor[k] /\ j \in D /\ k \in D
    BY <1>4
  <2>2. DOMAIN floor' = D
    BY <1>4, EnforcedKeeps
  <2>3. [i \in DOMAIN floor' |-> IF i \in Series THEN floor[i] ELSE 1] = f
    BY <1>4, <2>2
  <2>4. \A x, y \in D : f[x] <= f[y] => floor'[x] <= floor'[y]
    BY <1>4, EnforcedKeeps
  <2>5. \A x \in D : floor'[x] > f[x] => ~(Bytes(f) <= cap)
    BY <1>4, EnforcedKeeps
  <2> QED BY <1>4, <2>1, <2>3, <2>4, <2>5
<1>5. ASSUME NEW keys, floor' = Grown(keys)
      PROVE  floor'[j] = floor[j] /\ floor'[k] = floor[k]
  BY <1>5 DEF Grown
<1>6. ASSUME NEW keys, floor' = Enforced(Grown(keys), cap), cap > 0
      PROVE  /\ floor[j] <= floor[k] => floor'[j] <= floor'[k]
             /\ floor'[k] > floor[k] =>
                  cap > 0 /\ ~(Bytes([i \in DOMAIN floor' |-> IF i \in Series THEN floor[i] ELSE 1]) <= cap)
  <2>1. Grown(keys) \in [Series \cup keys -> Levels] /\ Series \subseteq Series \cup keys
    BY GrownIsTyped
  <2>2. Grown(keys) = [i \in Series \cup keys |-> IF i \in Series THEN floor[i] ELSE 1]
    BY DEF Grown
  <2> QED BY <1>4, <1>6, <2>1, <2>2
<1>7. ASSUME floor' = Enforced(floor, cap), cap > 0
      PROVE  /\ floor[j] <= floor[k] => floor'[j] <= floor'[k]
             /\ floor'[k] > floor[k] =>
                  cap > 0 /\ ~(Bytes([i \in DOMAIN floor' |-> IF i \in Series THEN floor[i] ELSE 1]) <= cap)
  <2>1. floor = [i \in Series |-> IF i \in Series THEN floor[i] ELSE 1]
    BY <1>1
  <2> QED BY <1>1, <1>4, <1>7, <2>1
<1>8. ASSUME NEW K, floor' = [i \in K |-> floor[i]]
      PROVE  floor'[j] = floor[j] /\ floor'[k] = floor[k]
  BY <1>8
<1>9. CASE floor' = floor
  BY <1>3, <1>9
<1>10. CASE \E keys : floor' = Grown(keys) \/ (floor' = Enforced(Grown(keys), cap) /\ cap > 0)
  BY <1>3, <1>5, <1>6, <1>10
<1>11. CASE \/ floor' = [i \in {} |-> floor[i]]
            \/ \E h : floor' = [i \in {x \in Series : x[1] # h} |-> floor[i]]
  BY <1>3, <1>8, <1>11
<1> QED BY <1>7, <1>9, <1>10, <1>11, StepOnSeries

\* Nothing is shed without a limit, or while the limit is met (record's check
\* and set_cap_mb).
THEOREM ShedsOnlyWhenOverCorrect == Spec => ShedsOnlyWhenOver
<1>1. ASSUME IInv, [Next]_vars
      PROVE  [(\E k \in Series \cap DOMAIN floor' : floor'[k] > floor[k]) =>
                cap > 0 /\ ~(Bytes([k \in DOMAIN floor' |-> IF k \in Series THEN floor[k] ELSE 1]) <= cap)]_vars
  BY <1>1, StepOnLevels
<1> QED BY <1>1, Invariance, PTL DEF Spec, ShedsOnlyWhenOver

\* Shedding is uniform (History::enforce_cap): one series never overtakes
\* another, whatever they started from.  Resolution goes, coverage stays
\* (enforce_cap against forget_host and clear): a series disappears with its
\* host, or with all others.
THEOREM DegradesUniformlyCorrect == Spec => DegradesUniformly
<1>1. ASSUME IInv, [Next]_vars, NEW k \in Series \ DOMAIN floor'
      PROVE  DOMAIN floor' = {} \/ DOMAIN floor' = {j \in Series : j[1] # k[1]}
  <2>1. floor \in [Series -> Levels] /\ DOMAIN floor = Series
    BY <1>1 DEF IInv, TypeOK, Series
  <2>2. ASSUME NEW keys, floor' = Grown(keys) \/ floor' = Enforced(Grown(keys), cap)
        PROVE  FALSE
    <3>1. Grown(keys) \in [Series \cup keys -> Levels]
      BY <1>1, GrownIsTyped
    <3>2. DOMAIN floor' = Series \cup keys
      BY <2>2, <3>1, EnforcedKeeps
    <3> QED BY <3>2
  <2>3. CASE floor' = Enforced(floor, cap) \/ floor' = floor
    BY <2>1, <2>3, EnforcedKeeps
  <2>4. ASSUME NEW h, floor' = [i \in {x \in Series : x[1] # h} |-> floor[i]]
        PROVE  DOMAIN floor' = {j \in Series : j[1] # k[1]}
    <3>1. DOMAIN floor' = {x \in Series : x[1] # h}
      BY <2>4
    <3>2. k[1] = h
      BY <3>1
    <3> QED BY <3>1, <3>2
  <2>5. CASE floor' = [i \in {} |-> floor[i]]
    BY <2>5
  <2> QED BY <1>1, <2>2, <2>3, <2>4, <2>5, StepOnSeries
<1>2. ASSUME IInv, [Next]_vars
      PROVE  [/\ \A j, k \in Series \cap DOMAIN floor' :
                   floor[j] <= floor[k] => floor'[j] <= floor'[k]
              /\ \A k \in Series \ DOMAIN floor' :
                   \/ DOMAIN floor' = {}
                   \/ DOMAIN floor' = {j \in Series : j[1] # k[1]}]_vars
  <2>1. \A j, k \in Series \cap DOMAIN floor' : floor[j] <= floor[k] => floor'[j] <= floor'[k]
    BY <1>2, StepOnLevels
  <2> QED BY <1>1, <1>2, <2>1
<1> QED BY <1>2, Invariance, PTL DEF Spec, DegradesUniformly

-----------------------------------------------------------------------------
(* The limit is kept by the series it was enforced on. *)

\* The series that were there when the limit was last enforced.
Old == Series \ fresh
Fits(f, limit) == Bytes(f) <= limit \/ \A k \in DOMAIN f : f[k] = Last

\* They fit, or have nothing left to give: forgetting a host takes some of them
\* away, which is why the invariant is about the bytes of a part.
OldFit == cap > 0 /\ cmd # <<"enforce">> => Fits([k \in Old |-> floor[k]], cap)
FewSeries == IsFiniteSet(Series)

LEMMA EnforcedFits ==
  ASSUME NEW D, NEW f \in [D -> Levels], NEW limit
  PROVE  Fits(Enforced(f, limit), limit)
<1>1. Last \in Nat \ {0}
  BY StoreShape
<1> DEFINE T == {n \in 0..Last : n = Last \/ Bytes(Shed(f, n)) <= limit}
<1>2. T \in SUBSET Nat /\ T # {} /\ \A n \in T : n <= Last
  BY <1>1
<1>3. Min(T) \in T
  <2> HIDE DEF T
  <2> QED BY <1>1, <1>2, MinExists
<1>4. Enforced(f, limit) = Shed(f, Min(T))
  BY DEF Enforced
<1>5. CASE Bytes(Shed(f, Min(T))) <= limit
  BY <1>4, <1>5 DEF Fits
<1>6. CASE Min(T) = Last
  <2>1. /\ Shed(f, Last) \in [D -> Levels]
        /\ \A k \in D : Shed(f, Last)[k] = IF f[k] + Last <= Last THEN f[k] + Last ELSE Last
    BY <1>1, ShedGives
  <2>2. \A k \in D : f[k] \in Nat /\ f[k] >= 1
    BY <1>1 DEF Levels
  <2>3. \A k \in D : Shed(f, Last)[k] = Last
    BY <1>1, <2>1, <2>2
  <2> HIDE DEF T
  <2> QED BY <1>4, <1>6, <2>1, <2>3 DEF Fits
<1> QED BY <1>3, <1>5, <1>6

LEMMA ImageIsFinite ==
  ASSUME NEW S, IsFiniteSet(S), NEW f
  PROVE  IsFiniteSet({f[x] : x \in S})
<1> DEFINE T == {f[x] : x \in S}
           g == [x \in S |-> f[x]]
<1>1. g \in Surjection(S, T)
  BY DEF Surjection
<1> HIDE DEF T, g
<1>2. IsFiniteSet(T)
  BY <1>1, FS_Surjection
<1> QED BY <1>2 DEF T

LEMMA KeysAreFew ==
  ASSUME NEW h \in Hosts, NEW frame \in Frames
  PROVE  IsFiniteSet(Keys(h, frame))
<1>1. frame \in Frame
  BY StoreShape
<1>2. frame.has \subseteq Optional /\ frame.temps \in Seq(Sensor) /\ frame.cores \in Nat
  BY <1>1 DEF Frame
<1>3. IsFiniteSet({"cpu", "disk", "net", "load"} \cup frame.has)
  <2>1. IsFiniteSet({"cpu"}) /\ IsFiniteSet({"disk"}) /\ IsFiniteSet({"net"}) /\ IsFiniteSet({"load"})
    BY FS_Singleton
  <2>2. IsFiniteSet({"cpu"} \cup {"disk"}) /\ IsFiniteSet({"net"} \cup {"load"})
    BY <2>1, FS_Union
  <2>3. IsFiniteSet(({"cpu"} \cup {"disk"}) \cup ({"net"} \cup {"load"}))
    BY <2>2, FS_Union
  <2>4. {"cpu", "disk", "net", "load"} = ({"cpu"} \cup {"disk"}) \cup ({"net"} \cup {"load"})
    OBVIOUS
  <2>5. IsFiniteSet({"mem"}) /\ IsFiniteSet({"swap"}) /\ IsFiniteSet({"fs"})
        /\ IsFiniteSet({"temp"}) /\ IsFiniteSet({"gpu"}) /\ IsFiniteSet({"gpumem"})
    BY FS_Singleton
  <2>6. IsFiniteSet({"mem"} \cup {"swap"}) /\ IsFiniteSet({"fs"} \cup {"temp"})
        /\ IsFiniteSet({"gpu"} \cup {"gpumem"})
    BY <2>5, FS_Union
  <2>7. IsFiniteSet(({"mem"} \cup {"swap"}) \cup ({"fs"} \cup {"temp"}))
    BY <2>6, FS_Union
  <2>8. IsFiniteSet((({"mem"} \cup {"swap"}) \cup ({"fs"} \cup {"temp"})) \cup ({"gpu"} \cup {"gpumem"}))
    BY <2>6, <2>7, FS_Union
  <2>9. Optional = (({"mem"} \cup {"swap"}) \cup ({"fs"} \cup {"temp"})) \cup ({"gpu"} \cup {"gpumem"})
    BY DEF Optional
  <2>10. IsFiniteSet(Optional)
    BY <2>8, <2>9
  <2>11. IsFiniteSet(frame.has)
    BY <1>2, <2>10, FS_Subset
  <2> QED BY <2>3, <2>4, <2>11, FS_Union
<1>4. IsFiniteSet({<<m>> : m \in {"cpu", "disk", "net", "load"} \cup frame.has})
  <2> DEFINE M == {"cpu", "disk", "net", "load"} \cup frame.has
             f == [m \in M |-> <<m>>]
  <2>1. IsFiniteSet({f[m] : m \in M})
    BY <1>3, ImageIsFinite
  <2>2. {f[m] : m \in M} = {<<m>> : m \in M}
    OBVIOUS
  <2> QED BY <2>1, <2>2
<1>5. IsFiniteSet(SensorKeys(frame))
  <2>1. DOMAIN frame.temps = 1..Len(frame.temps) /\ Len(frame.temps) \in Nat
    BY <1>2
  <2>2. IsFiniteSet(DOMAIN frame.temps)
    BY <2>1, FS_Interval
  <2> DEFINE f == [j \in DOMAIN frame.temps |-> SensorKey(frame.temps, j)]
  <2>3. IsFiniteSet({f[j] : j \in DOMAIN frame.temps})
    BY <2>2, ImageIsFinite
  <2>4. {f[j] : j \in DOMAIN frame.temps} = SensorKeys(frame)
    BY DEF SensorKeys
  <2> QED BY <2>3, <2>4
<1>6. IsFiniteSet({<<"core", "", i>> : i \in 0..(frame.cores - 1)})
  <2>1. IsFiniteSet(0..(frame.cores - 1))
    BY <1>2, FS_Interval
  <2> DEFINE C == 0..(frame.cores - 1)
             f == [i \in C |-> <<"core", "", i>>]
  <2>2. IsFiniteSet({f[i] : i \in C})
    BY <2>1, ImageIsFinite
  <2>3. {f[i] : i \in C} = {<<"core", "", i>> : i \in C}
    OBVIOUS
  <2> QED BY <2>2, <2>3
<1>7. IsFiniteSet(Metrics(frame))
  <2>1. IsFiniteSet({<<m>> : m \in {"cpu", "disk", "net", "load"} \cup frame.has} \cup SensorKeys(frame))
    BY <1>4, <1>5, FS_Union
  <2> QED BY <1>6, <2>1, FS_Union DEF Metrics
<1> DEFINE f == [m \in Metrics(frame) |-> <<h, m>>]
<1>8. IsFiniteSet({f[m] : m \in Metrics(frame)})
  BY <1>7, ImageIsFinite
<1>9. {f[m] : m \in Metrics(frame)} = Keys(h, frame)
  BY DEF Keys
<1> QED BY <1>8, <1>9


LEMMA FitKept ==
  ASSUME IInv, OldFit, FewSeries, [Next]_vars
  PROVE  OldFit' /\ FewSeries'
<1>1. floor \in [Series -> Levels] /\ fresh \subseteq Series /\ DOMAIN floor = Series
  BY DEF IInv, TypeOK, Series
<1>2. ASSUME NEW D, NEW f \in [D -> Levels], IsFiniteSet(D), floor' = Enforced(f, cap), cap' = cap, fresh' = {}
      PROVE  OldFit' /\ FewSeries'
  <2>1. Enforced(f, cap) \in [D -> Levels]
    BY EnforcedKeeps
  <2>2. DOMAIN floor' = D /\ floor' = [k \in D |-> floor'[k]]
    BY <1>2, <2>1
  <2>3. Old' = D
    BY <1>2, <2>2 DEF Old, Series
  <2>4. [k \in Old' |-> floor'[k]] = floor'
    BY <2>2, <2>3
  <2>5. Fits(floor', cap')
    BY <1>2, EnforcedFits
  <2> QED BY <1>2, <2>2, <2>4, <2>5 DEF OldFit, FewSeries, Series
<1>3. ASSUME NEW h \in Hosts, NEW frame \in Frames, Record(h, frame)
      PROVE  OldFit' /\ FewSeries'
  <2> DEFINE keys == Keys(h, frame)
  <2>1. IsFiniteSet(Series \cup keys)
    BY KeysAreFew, FS_Union DEF FewSeries
  <2>2. Grown(keys) \in [Series \cup keys -> Levels]
    BY GrownIsTyped
  <2>3. cap' = cap /\ cmd' = cmd
    BY <1>3 DEF Record
  <2> HIDE DEF keys
  <2>4. CASE floor' = Enforced(Grown(keys), cap) /\ fresh' = {}
    BY <1>2, <2>1, <2>2, <2>3, <2>4
  <2>5. CASE floor' = Grown(keys) /\ fresh' = fresh \cup (keys \ Series)
    <3>1. DOMAIN floor' = Series \cup keys /\ \A k \in Series : floor'[k] = floor[k]
      BY <2>5 DEF Grown
    <3>2. Old' = Old
      BY <1>1, <2>5, <3>1 DEF Old, Series
    <3>3. [k \in Old' |-> floor'[k]] = [k \in Old |-> floor[k]]
      BY <3>1, <3>2 DEF Old
    <3> QED BY <2>1, <2>3, <3>1, <3>3 DEF OldFit, FewSeries, Series
  <2> QED BY <1>3, <2>4, <2>5, RecordGives DEF keys
<1>4. ASSUME NEW limit \in Limits, SetCap(limit)
      PROVE  OldFit' /\ FewSeries'
  <2>1. ~(cap' > 0 /\ cmd' # <<"enforce">>)
    BY <1>4, StoreShape DEF SetCap
  <2>2. floor' = floor
    BY <1>4 DEF SetCap
  <2> QED BY <2>1, <2>2 DEF OldFit, FewSeries, Series
<1>5. CASE EnforceNow
  <2>1. floor' = Enforced(floor, cap) /\ fresh' = {} /\ cap' = cap
    BY <1>5 DEF EnforceNow
  <2> QED BY <1>1, <1>2, <2>1 DEF FewSeries
<1>6. CASE Report
  <2>1. cmd[1] = "finest" /\ UNCHANGED <<floor, cap, fresh>>
    BY <1>6 DEF Report
  <2>2. cmd # <<"enforce">>
    BY <2>1
  <2>3. Old' = Old /\ floor' = floor /\ cap' = cap /\ Series' = Series
    BY <2>1 DEF Old, Series
  <2> QED BY <2>2, <2>3 DEF OldFit, FewSeries
<1>7. ASSUME NEW kept \in SUBSET Series, Keep(kept), cap' = cap,
             kept = {} \/ cmd # <<"enforce">>
      PROVE  OldFit' /\ FewSeries'
  <2>1. DOMAIN floor' = kept /\ (\A k \in kept : floor'[k] = floor[k]) /\ fresh' = fresh \cap kept
    BY <1>7 DEF Keep
  <2>2. FewSeries'
    BY <1>7, <2>1, FS_Subset DEF FewSeries, Series
  <2>3. Old' = Old \cap kept
    BY <2>1 DEF Old, Series
  <2> DEFINE g == [k \in Old |-> floor[k]]
  <2>4. [k \in Old' |-> floor'[k]] = [k \in Old' |-> g[k]] /\ Old' \subseteq Old
    BY <2>1, <2>3
  <2>5. g \in [Old -> Levels]
    BY <1>1 DEF Old
  <2>6. IsFiniteSet(Old)
    BY FS_Subset DEF Old, FewSeries
  <2> HIDE DEF g
  <2>7. Bytes([k \in Old' |-> g[k]]) \in Nat /\ Bytes(g) \in Nat /\ Bytes([k \in Old' |-> g[k]]) <= Bytes(g)
    <3> DEFINE K == Old'
    <3>1. K \in SUBSET Old
      BY <2>4
    <3> HIDE DEF K
    <3>2. Bytes([k \in K |-> g[k]]) \in Nat /\ Bytes(g) \in Nat /\ Bytes([k \in K |-> g[k]]) <= Bytes(g)
      BY <2>5, <2>6, <3>1, BytesOfSome
    <3> QED BY <3>2 DEF K
  <2>8. cap \in Nat
    BY StoreShape DEF IInv, TypeOK
  <2>9. Fits(g, cap) => Fits([k \in Old' |-> floor'[k]], cap)
    <3>1. CASE Bytes(g) <= cap
      <4>1. Bytes([k \in Old' |-> floor'[k]]) <= cap
        BY <2>4, <2>7, <2>8, <3>1
      <4> QED BY <4>1 DEF Fits
    <3>2. CASE \A k \in DOMAIN g : g[k] = Last
      <4>1. DOMAIN g = Old
        BY <2>5
      <4>2. \A k \in Old' : g[k] = Last
        BY <2>4, <3>2, <4>1
      <4> DEFINE K == Old'
                 h == [k \in K |-> g[k]]
      <4>3. \A k \in DOMAIN h : h[k] = Last
        BY <4>2
      <4> QED BY <2>4, <4>3 DEF Fits
    <3> QED BY <3>1, <3>2 DEF Fits
  <2>10. CASE cmd # <<"enforce">>
    BY <1>7, <2>2, <2>9, <2>10 DEF OldFit, g
  <2>11. CASE kept = {}
    <3> DEFINE K == Old'
               h == [k \in K |-> floor'[k]]
    <3>1. \A k \in DOMAIN h : h[k] = Last
      BY <2>3, <2>11
    <3>2. Fits([k \in Old' |-> floor'[k]], cap')
      BY <3>1 DEF Fits
    <3> QED BY <2>2, <3>2 DEF OldFit
  <2> QED BY <1>7, <2>10, <2>11
<1>8. CASE Clear
  BY <1>7, <1>8 DEF Clear
<1>9. ASSUME NEW h \in Hosts, ForgetHost(h)
      PROVE  OldFit' /\ FewSeries'
  <2>1. Keep({k \in Series : k[1] # h}) /\ cap' = cap /\ cmd # <<"enforce">>
    BY <1>9, StoreShape DEF ForgetHost
  <2> QED BY <1>7, <2>1
<1>10. CASE UNCHANGED vars
  BY <1>10 DEF vars, OldFit, FewSeries, Old, Series
<1> QED BY <1>3, <1>4, <1>5, <1>6, <1>8, <1>9, <1>10 DEF Next

\* However the limit, the samples and the hosts change in between, only series
\* that appeared since it was last enforced, and set_cap_mb before it has
\* enforced the new one, can leave a set limit exceeded with resolution to give
\* up (enforce_cap, record's check, forget_host).
THEOREM OverIsRecentCorrect == Spec => []OverIsRecent
<1>1. Init => OldFit /\ FewSeries
  <2> SUFFICES ASSUME Init PROVE OldFit /\ FewSeries
    OBVIOUS
  <2>1. cap = 0 /\ DOMAIN floor = {}
    BY DEF Init
  <2> QED BY <2>1, FS_EmptySet DEF OldFit, FewSeries, Series
<1>2. IInv /\ OldFit /\ FewSeries /\ [Next]_vars => OldFit' /\ FewSeries'
  BY FitKept
<1>3. IInv /\ OldFit /\ FewSeries => OverIsRecent
  <2> SUFFICES ASSUME IInv, OldFit, FewSeries, cap > 0, Bytes(floor) > cap, cmd # <<"enforce">>, fresh = {},
                      NEW j \in Series, floor[j] < Last
               PROVE  FALSE
    BY DEF OverIsRecent
  <2>1. floor \in [Series -> Levels] /\ Old = Series
    BY DEF IInv, TypeOK, Series, Old
  <2>2. [k \in Old |-> floor[k]] = floor
    BY <2>1
  <2>3. Fits(floor, cap)
    BY <2>2 DEF OldFit
  <2>4. floor[j] \in Int /\ Last \in Int
    BY <2>1, StoreShape DEF Levels
  <2>5. Bytes(floor) <= cap
    BY <2>1, <2>3, <2>4 DEF Fits
  <2>6. Bytes(floor) \in Nat
    BY <2>1, BytesOfSome DEF FewSeries
  <2>7. cap \in Nat
    BY StoreShape DEF IInv, TypeOK
  <2> QED BY <2>5, <2>6, <2>7
<1> QED BY <1>1, <1>2, <1>3, Invariance, PTL DEF Spec
=============================================================================
