--------------------------- MODULE Parsers_proofs ---------------------------
(***************************************************************************)
(* What the parsers make of a frame, for any lines, frames of any length   *)
(* and any TOP_N.  Parsers' own steps only build the inputs, so the        *)
(* invariant (Inv) is short: the frame and the one before it are made of   *)
(* the plane's lines.  The theorems are about the operators.               *)
(*                                                                         *)
(* Nearly all of these are folds over a sequence.  That the recursion has  *)
(* a solution, and which, is proved by induction on the places of the      *)
(* sequence (UpTo, FoldExists) for each of the three folds: Those, which   *)
(* keeps the elements of a set, Left, which keeps the best place, and the  *)
(* list of filesystems.  The rest speaks of what they return and not of    *)
(* how.                                                                    *)
(*                                                                         *)
(* LineTypes is what is assumed of the lines: which fields are numbers, or *)
(* no number when they cannot be read.                                     *)
(***************************************************************************)
EXTENDS Parsers, SequenceTheorems, FiniteSetTheorems, NaturalsInduction, WellFoundedInduction, TLAPS

-----------------------------------------------------------------------------
(* Recursion on the length of a sequence. *)

\* Numbers from 0 to N are reached one by one.
LEMMA UpTo ==
  ASSUME NEW N \in Nat, NEW T \in SUBSET (0..N), 0 \in T, \A n \in T : n < N => n + 1 \in T
  PROVE  T = 0..N
<1>1. SUFFICES ASSUME (0..N) \ T # {} PROVE FALSE
  OBVIOUS
<1>2. PICK m \in (0..N) \ T : \A k \in (0..N) \ T : ~(<<k, m>> \in OpToRel(<, Nat))
  <2>1. (0..N) \ T \in SUBSET Nat
    OBVIOUS
  <2> QED BY <1>1, <2>1, NatLessThanWellFounded, WFMin
<1>3. m # 0 /\ m - 1 \in 0..N /\ m - 1 < m
  OBVIOUS
<1>4. m - 1 \in T
  <2>1. <<m - 1, m>> \in OpToRel(<, Nat)
    BY <1>3 DEF OpToRel
  <2> QED BY <1>2, <1>3, <2>1
<1>5. m - 1 < N /\ m - 1 + 1 = m
  OBVIOUS
<1> QED BY <1>4, <1>5

\* f goes from a by the steps F, N times.
FoldsTo(f, N, a, F) ==
  /\ DOMAIN f = 0..N /\ f[0] = a
  /\ \A n \in 1..N : f[n] = F[<<f[n - 1], n>>]

\* There is such a function: the recursion has a solution.
LEMMA FoldExists ==
  ASSUME NEW N \in Nat, NEW V, NEW a \in V, NEW F \in [V \X (1..N) -> V]
  PROVE  \E f \in [0..N -> V] : FoldsTo(f, N, a, F)
<1> DEFINE Upto(f, k) == f[0] = a /\ \A n \in 1..k : f[n] = F[<<f[n - 1], n>>]
           T == {k \in 0..N : \E f \in [0..N -> V] : Upto(f, k)}
<1>1. 0 \in T
  <2> DEFINE f == [n \in 0..N |-> a]
  <2>1. f \in [0..N -> V] /\ Upto(f, 0)
    OBVIOUS
  <2> HIDE DEF f, Upto
  <2> QED BY <2>1
<1>2. ASSUME NEW k \in T, k < N PROVE k + 1 \in T
  <2>1. k \in 0..N /\ k + 1 \in 1..N /\ k + 1 \in 0..N /\ k + 1 - 1 = k
    BY <1>2
  <2>2. PICK f \in [0..N -> V] : Upto(f, k)
    OBVIOUS
  <2>3. PICK v \in V : v = F[<<f[k], k + 1>>]
    <3>1. f[k] \in V
      BY <2>1
    <3>2. <<f[k], k + 1>> \in V \X (1..N)
      BY <2>1, <3>1
    <3> QED BY <3>2
  <2> DEFINE g == [n \in 0..N |-> IF n = k + 1 THEN v ELSE f[n]]
  <2>4. g \in [0..N -> V]
    OBVIOUS
  <2>5. g[0] = a
    BY <2>1, <2>2
  <2>6. ASSUME NEW n \in 1..(k + 1) PROVE g[n] = F[<<g[n - 1], n>>]
    <3>1. n \in 0..N /\ n - 1 \in 0..N /\ n - 1 # k + 1
      BY <2>1
    <3>2. g[n - 1] = f[n - 1]
      BY <3>1
    <3>3. CASE n = k + 1
      BY <2>1, <2>3, <3>1, <3>2, <3>3
    <3>4. CASE n # k + 1
      <4>1. n \in 1..k
        BY <2>1, <3>4
      <4>2. f[n] = F[<<f[n - 1], n>>]
        BY <2>2, <4>1
      <4> QED BY <3>1, <3>2, <3>4, <4>2
    <3> QED BY <3>3, <3>4
  <2> HIDE DEF g
  <2>7. Upto(g, k + 1)
    BY <2>5, <2>6
  <2> HIDE DEF Upto
  <2> QED BY <2>1, <2>4, <2>7
<1>3. N \in T
  <2> HIDE DEF T
  <2>1. T \in SUBSET (0..N)
    BY DEF T
  <2>2. T = 0..N
    BY <1>1, <1>2, <2>1, UpTo
  <2> QED BY <2>2
<1>4. PICK f \in [0..N -> V] : Upto(f, N)
  BY <1>3
<1>5. FoldsTo(f, N, a, F)
  BY <1>4 DEF FoldsTo
<1> QED BY <1>5

-----------------------------------------------------------------------------
(* The elements of a sequence that are in a set. *)

\* What Those goes through.
Collects(f, s, S) ==
  /\ f[0] = <<>>
  /\ \A n \in 1..Len(s) : f[n] = IF s[n] \in S THEN Append(f[n - 1], s[n]) ELSE f[n - 1]

\* There is such a function, and Those is where it ends.
LEMMA ThoseRuns ==
  ASSUME NEW V, NEW s \in Seq(V), NEW S
  PROVE  \E f \in [0..Len(s) -> Seq(V)] : Collects(f, s, S) /\ Those(s, S) = f[Len(s)]
<1> DEFINE N == Len(s)
           Step(out, n) == IF s[n] \in S THEN Append(out, s[n]) ELSE out
           F == [x \in Seq(V) \X (1..N) |-> Step(x[1], x[2])]
           Body(r, n) == IF n = 0 THEN <<>>
                         ELSE IF s[n] \in S THEN Append(r[n - 1], s[n]) ELSE r[n - 1]
           r == CHOOSE g : g = [n \in 0..N |-> Body(g, n)]
<1>1. Those(s, S) = r[N]
  BY DEF Those
<1>2. \A n \in 1..N : s[n] \in V
  OBVIOUS
<1>3. N \in Nat
  OBVIOUS
<1>4. ASSUME NEW g, NEW n \in 0..N PROVE Body(g, n) = IF n = 0 THEN <<>> ELSE Step(g[n - 1], n)
  OBVIOUS
<1>5. ASSUME NEW out \in Seq(V), NEW n \in 1..N PROVE Step(out, n) \in Seq(V)
  BY <1>2
<1>6. ASSUME NEW out, NEW n \in 1..N
      PROVE  Step(out, n) = IF s[n] \in S THEN Append(out, s[n]) ELSE out
  OBVIOUS
<1> HIDE DEF N, Step, Body
<1>7. F \in [Seq(V) \X (1..N) -> Seq(V)]
  BY <1>5
<1>8. \A out \in Seq(V) : \A n \in 1..N : F[<<out, n>>] = Step(out, n)
  OBVIOUS
<1> HIDE DEF F
<1>9. PICK f \in [0..N -> Seq(V)] : FoldsTo(f, N, <<>>, F)
  <2>1. <<>> \in Seq(V)
    OBVIOUS
  <2> HIDE DEF r
  <2> QED BY <1>3, <1>7, <2>1, FoldExists, Zenon
<1>10. f[0] = <<>> /\ \A n \in 1..N : f[n] = Step(f[n - 1], n)
  <2>1. ASSUME NEW n \in 1..N PROVE f[n] = Step(f[n - 1], n)
    <3>1. n - 1 \in 0..N
      BY <1>3
    <3>2. f[n - 1] \in Seq(V)
      BY <3>1
    <3>3. f[n] = F[<<f[n - 1], n>>]
      BY <1>9 DEF FoldsTo
    <3> QED BY <1>8, <3>2, <3>3
  <2> QED BY <1>9, <2>1 DEF FoldsTo
<1>11. f = [n \in 0..N |-> Body(f, n)]
  <2>1. ASSUME NEW n \in 0..N PROVE f[n] = Body(f, n)
    <3>1. n # 0 => n \in 1..N
      BY <1>3
    <3> QED BY <1>4, <1>10, <3>1
  <2> QED BY <2>1
<1>12. r = [n \in 0..N |-> Body(r, n)]
  BY <1>11
<1> HIDE DEF r
<1>13. ASSUME NEW n \in 0..N PROVE r[n] = Body(r, n)
  <2> DEFINE W(k) == Body(r, k)
  <2>1. r = [k \in 0..N |-> W(k)]
    BY <1>12
  <2> HIDE DEF W
  <2>2. r[n] = W(n)
    BY <2>1
  <2> QED BY <2>2 DEF W
<1>14. r[N] = f[N]
  <2>1. \A n \in 1..N : r[n] = Step(r[n - 1], n)
    <3> TAKE n \in 1..N
    <3>1. n \in 0..N /\ n # 0
      BY <1>3
    <3> QED BY <1>4, <1>13, <3>1
  <2>2. r[0] = f[0]
    BY <1>3, <1>4, <1>10, <1>13
  <2> DEFINE T == {n \in 0..N : r[n] = f[n]}
  <2>3. 0 \in T
    BY <1>3, <2>2
  <2>4. ASSUME NEW k \in T, k < N PROVE k + 1 \in T
    <3>1. k + 1 \in 1..N /\ k + 1 \in 0..N /\ k + 1 - 1 = k
      BY <1>3, <2>4
    <3>2. r[k + 1] = Step(r[k], k + 1) /\ f[k + 1] = Step(f[k], k + 1)
      BY <1>10, <2>1, <3>1
    <3> QED BY <3>1, <3>2
  <2>5. T = 0..N
    <3>1. T \in SUBSET (0..N)
      OBVIOUS
    <3> HIDE DEF T
    <3> QED BY <1>3, <2>3, <2>4, <3>1, UpTo
  <2>6. N \in 0..N
    BY <1>3
  <2> QED BY <2>5, <2>6
<1>15. \A n \in 1..N : f[n] = IF s[n] \in S THEN Append(f[n - 1], s[n]) ELSE f[n - 1]
  BY <1>6, <1>10
<1> QED BY <1>1, <1>9, <1>10, <1>14, <1>15 DEF Collects, N

\* Nothing is left of a sequence that has none of them.
LEMMA ThoseNone ==
  ASSUME NEW S
  PROVE  Those(<<>>, S) = <<>>
<1>1. PICK f \in [0..Len(<<>>) -> Seq({})] : Collects(f, <<>>, S) /\ Those(<<>>, S) = f[Len(<<>>)]
  <2>1. <<>> \in Seq({})
    OBVIOUS
  <2> QED BY <2>1, ThoseRuns
<1>2. Len(<<>>) = 0
  OBVIOUS
<1> QED BY <1>1, <1>2 DEF Collects

\* One line more.
LEMMA ThoseAppend ==
  ASSUME NEW V, NEW s \in Seq(V), NEW l \in V, NEW S
  PROVE  Those(Append(s, l), S) = IF l \in S THEN Append(Those(s, S), l) ELSE Those(s, S)
<1> DEFINE t == Append(s, l)
           N == Len(s)
<1>1. t \in Seq(V) /\ Len(t) = N + 1 /\ t[N + 1] = l /\ \A n \in 1..N : t[n] = s[n]
  OBVIOUS
<1>2. N \in Nat
  OBVIOUS
<1> HIDE DEF t
<1>3. PICK f \in [0..N -> Seq(V)] : Collects(f, s, S) /\ Those(s, S) = f[N]
  BY ThoseRuns
<1>4. PICK g \in [0..(N + 1) -> Seq(V)] : Collects(g, t, S) /\ Those(t, S) = g[N + 1]
  <2>1. \E g \in [0..Len(t) -> Seq(V)] : Collects(g, t, S) /\ Those(t, S) = g[Len(t)]
    BY <1>1, ThoseRuns
  <2> QED BY <1>1, <2>1
<1> DEFINE T == {n \in 0..N : g[n] = f[n]}
<1>5. 0 \in T
  BY <1>2, <1>3, <1>4 DEF Collects
<1> HIDE DEF N
<1>6. ASSUME NEW k \in T, k < N PROVE k + 1 \in T
  <2>1. k + 1 \in 1..N /\ k + 1 \in 1..(N + 1) /\ k + 1 \in 0..N /\ k + 1 - 1 = k
    BY <1>2, <1>6
  <2>2. f[k + 1] = IF s[k + 1] \in S THEN Append(f[k], s[k + 1]) ELSE f[k]
    BY <1>3, <2>1 DEF Collects, N
  <2>3. g[k + 1] = IF t[k + 1] \in S THEN Append(g[k], t[k + 1]) ELSE g[k]
    BY <1>1, <1>4, <2>1 DEF Collects
  <2> QED BY <1>1, <2>1, <2>2, <2>3
<1>7. T = 0..N
  <2>1. T \in SUBSET (0..N)
    OBVIOUS
  <2> HIDE DEF T
  <2> QED BY <1>2, <1>5, <1>6, <2>1, UpTo
<1>8. g[N] = f[N]
  <2>1. N \in 0..N
    BY <1>2
  <2> QED BY <1>7, <2>1
<1>9. g[N + 1] = IF l \in S THEN Append(g[N], l) ELSE g[N]
  <2>1. N + 1 \in 1..(N + 1) /\ N + 1 - 1 = N
    BY <1>2
  <2>2. \A n \in 1..(N + 1) : g[n] = IF t[n] \in S THEN Append(g[n - 1], t[n]) ELSE g[n - 1]
    BY <1>1, <1>4, Zenon DEF Collects
  <2>3. g[N + 1] = IF t[N + 1] \in S THEN Append(g[N], t[N + 1]) ELSE g[N]
    <3>1. PICK n \in 1..(N + 1) : n = N + 1 /\ n - 1 = N
      BY <1>2, <2>1
    <3>2. g[n] = IF t[n] \in S THEN Append(g[n - 1], t[n]) ELSE g[n - 1]
      BY <2>2
    <3> QED BY <3>1, <3>2, Zenon
  <2> QED BY <1>1, <2>1, <2>3
<1> QED BY <1>3, <1>4, <1>8, <1>9 DEF t

\* What an appended line is to the elements.
LEMMA RangeAppend ==
  ASSUME NEW V, NEW s \in Seq(V), NEW l \in V
  PROVE  Range(Append(s, l)) = Range(s) \cup {l}
<1>1. Len(s) \in Nat /\ Len(Append(s, l)) = Len(s) + 1 /\ Append(s, l) \in Seq(V)
  OBVIOUS
<1>2. DOMAIN s = 1..Len(s) /\ DOMAIN Append(s, l) = 1..(Len(s) + 1)
  BY <1>1
<1>3. Append(s, l)[Len(s) + 1] = l /\ \A n \in 1..Len(s) : Append(s, l)[n] = s[n]
  OBVIOUS
<1>4. 1..(Len(s) + 1) = (1..Len(s)) \cup {Len(s) + 1}
  BY <1>1
<1> QED BY <1>2, <1>3, <1>4 DEF Range

\* Those are all the elements that are in the set, and no others.
LEMMA ThoseAre ==
  ASSUME NEW V, NEW s \in Seq(V), NEW S
  PROVE  /\ Those(s, S) \in Seq(V)
         /\ Range(Those(s, S)) = Range(s) \cap S
<1> DEFINE N == Len(s)
<1>1. PICK f \in [0..N -> Seq(V)] : Collects(f, s, S) /\ Those(s, S) = f[N]
  BY ThoseRuns
<1>2. N \in Nat /\ DOMAIN s = 1..N /\ \A n \in 1..N : s[n] \in V
  OBVIOUS
<1> DEFINE T == {n \in 0..N : Range(f[n]) = {s[m] : m \in 1..n} \cap S}
<1>3. 0 \in T
  <2>1. f[0] = <<>> /\ 1..0 = {}
    BY <1>1 DEF Collects
  <2>2. Range(<<>>) = {}
    BY DEF Range
  <2> QED BY <1>2, <2>1, <2>2
<1> HIDE DEF N
<1>4. ASSUME NEW k \in T, k < N PROVE k + 1 \in T
  <2>1. k \in 0..N /\ k + 1 \in 1..N /\ k + 1 \in 0..N /\ k + 1 - 1 = k /\ 1..(k + 1) = (1..k) \cup {k + 1}
    BY <1>2, <1>4
  <2>2. f[k + 1] = IF s[k + 1] \in S THEN Append(f[k], s[k + 1]) ELSE f[k]
    BY <1>1, <2>1 DEF Collects, N
  <2>3. f[k] \in Seq(V) /\ s[k + 1] \in V
    BY <1>2, <2>1
  <2>4. Range(Append(f[k], s[k + 1])) = Range(f[k]) \cup {s[k + 1]}
    BY <2>3, RangeAppend
  <2>5. {s[m] : m \in 1..(k + 1)} = {s[m] : m \in 1..k} \cup {s[k + 1]}
    BY <2>1
  <2>6. Range(f[k]) = {s[m] : m \in 1..k} \cap S
    OBVIOUS
  <2>7. Range(f[k + 1]) = {s[m] : m \in 1..(k + 1)} \cap S
    <3>1. CASE s[k + 1] \in S
      BY <2>2, <2>4, <2>5, <2>6, <3>1
    <3>2. CASE s[k + 1] \notin S
      BY <2>2, <2>5, <2>6, <3>2
    <3> QED BY <3>1, <3>2
  <2> QED BY <2>1, <2>7
<1>5. T = 0..N
  <2>1. T \in SUBSET (0..N)
    OBVIOUS
  <2> HIDE DEF T
  <2> QED BY <1>2, <1>3, <1>4, <2>1, UpTo
<1>6. N \in 0..N
  BY <1>2
<1>7. Range(f[N]) = {s[m] : m \in 1..N} \cap S
  BY <1>5, <1>6
<1>8. Range(s) = {s[m] : m \in 1..N}
  BY <1>2 DEF Range
<1> QED BY <1>1, <1>6, <1>7, <1>8

\* Choosing twice is choosing once.
LEMMA ThoseOfThose ==
  ASSUME NEW V, NEW s \in Seq(V), NEW S, NEW C, S \subseteq C
  PROVE  Those(Those(s, C), S) = Those(s, S)
<1> DEFINE N == Len(s)
<1>1. PICK f \in [0..N -> Seq(V)] : Collects(f, s, C) /\ Those(s, C) = f[N]
  BY ThoseRuns
<1>2. PICK g \in [0..N -> Seq(V)] : Collects(g, s, S) /\ Those(s, S) = g[N]
  BY ThoseRuns
<1>3. N \in Nat /\ \A n \in 1..N : s[n] \in V
  OBVIOUS
<1> DEFINE T == {n \in 0..N : Those(f[n], S) = g[n]}
<1>4. 0 \in T
  BY <1>1, <1>2, <1>3, ThoseNone DEF Collects
<1>5. ASSUME NEW k \in T, k < N PROVE k + 1 \in T
  <2>1. k \in 0..N /\ k + 1 \in 1..N /\ k + 1 \in 0..N /\ k + 1 - 1 = k
    BY <1>3, <1>5
  <2>2. f[k + 1] = IF s[k + 1] \in C THEN Append(f[k], s[k + 1]) ELSE f[k]
    BY <1>1, <2>1 DEF Collects
  <2>3. g[k + 1] = IF s[k + 1] \in S THEN Append(g[k], s[k + 1]) ELSE g[k]
    BY <1>2, <2>1 DEF Collects
  <2> HIDE DEF N
  <2>4. f[k] \in Seq(V) /\ s[k + 1] \in V
    BY <1>3, <2>1
  <2>5. Those(Append(f[k], s[k + 1]), S)
          = IF s[k + 1] \in S THEN Append(Those(f[k], S), s[k + 1]) ELSE Those(f[k], S)
    <3>1. PICK x \in Seq(V), l \in V : x = f[k] /\ l = s[k + 1]
      BY <2>4
    <3>2. Those(Append(x, l), S) = IF l \in S THEN Append(Those(x, S), l) ELSE Those(x, S)
      BY ThoseAppend
    <3> QED BY <3>1, <3>2
  <2>6. Those(f[k], S) = g[k]
    OBVIOUS
  <2>7. Those(f[k + 1], S) = g[k + 1]
    BY <2>2, <2>3, <2>5, <2>6
  <2> QED BY <2>1, <2>7
<1>6. T = 0..N
  <2>1. T \in SUBSET (0..N)
    OBVIOUS
  <2> HIDE DEF T, N
  <2> QED BY <1>3, <1>4, <1>5, <2>1, UpTo
<1>7. N \in 0..N
  BY <1>3
<1> QED BY <1>1, <1>2, <1>6, <1>7

-----------------------------------------------------------------------------
(* Sums. *)

\* What Sum goes through.
Totals(f, q) ==
  /\ f[0] = 0
  /\ \A n \in 1..Len(q) : f[n] = f[n - 1] + q[n]

\* There is such a function, and Sum is where it ends.
LEMMA SumRuns ==
  ASSUME NEW q \in Seq(Nat)
  PROVE  \E f \in [0..Len(q) -> Nat] : Totals(f, q) /\ Sum(q) = f[Len(q)]
<1> DEFINE N == Len(q)
           F == [x \in Nat \X (1..N) |-> x[1] + q[x[2]]]
           Body(r, n) == IF n = 0 THEN 0 ELSE r[n - 1] + q[n]
           r == CHOOSE g : g = [n \in 0..N |-> Body(g, n)]
<1>1. Sum(q) = r[N]
  BY DEF Sum
<1>2. N \in Nat /\ \A n \in 1..N : q[n] \in Nat
  OBVIOUS
<1> HIDE DEF N
<1>3. F \in [Nat \X (1..N) -> Nat]
  BY <1>2
<1>4. \A m \in Nat : \A n \in 1..N : F[<<m, n>>] = m + q[n]
  OBVIOUS
<1> HIDE DEF F
<1>5. PICK f \in [0..N -> Nat] : FoldsTo(f, N, 0, F)
  <2>1. 0 \in Nat
    OBVIOUS
  <2> HIDE DEF r
  <2> QED BY <1>2, <1>3, <2>1, FoldExists, Zenon
<1>6. f[0] = 0 /\ \A n \in 1..N : f[n] = f[n - 1] + q[n]
  <2>1. ASSUME NEW n \in 1..N PROVE f[n] = f[n - 1] + q[n]
    <3>1. n - 1 \in 0..N
      BY <1>2
    <3>2. f[n - 1] \in Nat
      BY <3>1
    <3>3. f[n] = F[<<f[n - 1], n>>]
      BY <1>5 DEF FoldsTo
    <3> QED BY <1>4, <3>2, <3>3
  <2> QED BY <1>5, <2>1 DEF FoldsTo
<1>7. ASSUME NEW g, NEW n \in 0..N PROVE Body(g, n) = IF n = 0 THEN 0 ELSE g[n - 1] + q[n]
  OBVIOUS
<1> HIDE DEF Body
<1>8. f = [n \in 0..N |-> Body(f, n)]
  <2>1. ASSUME NEW n \in 0..N PROVE f[n] = Body(f, n)
    <3>1. n # 0 => n \in 1..N
      BY <1>2
    <3> QED BY <1>6, <1>7, <3>1
  <2> QED BY <2>1
<1>9. r = [n \in 0..N |-> Body(r, n)]
  BY <1>8
<1> HIDE DEF r
<1>10. ASSUME NEW n \in 0..N PROVE r[n] = Body(r, n)
  <2> DEFINE W(k) == Body(r, k)
  <2>1. r = [k \in 0..N |-> W(k)]
    BY <1>9
  <2> HIDE DEF W
  <2>2. r[n] = W(n)
    BY <2>1
  <2> QED BY <2>2 DEF W
<1> DEFINE T == {n \in 0..N : r[n] = f[n]}
<1>11. 0 \in T
  <2>1. 0 \in 0..N
    BY <1>2
  <2> QED BY <1>6, <1>7, <1>10, <2>1
<1>12. ASSUME NEW k \in T, k < N PROVE k + 1 \in T
  <2>1. k + 1 \in 1..N /\ k + 1 \in 0..N /\ k + 1 - 1 = k /\ k + 1 # 0
    BY <1>2, <1>12
  <2>2. r[k + 1] = r[k] + q[k + 1] /\ f[k + 1] = f[k] + q[k + 1]
    BY <1>6, <1>7, <1>10, <2>1
  <2> QED BY <2>1, <2>2
<1>13. T = 0..N
  <2>1. T \in SUBSET (0..N)
    OBVIOUS
  <2> HIDE DEF T
  <2> QED BY <1>2, <1>11, <1>12, <2>1, UpTo
<1>14. r[N] = f[N]
  <2>1. N \in 0..N
    BY <1>2
  <2> QED BY <1>13, <2>1
<1> QED BY <1>1, <1>5, <1>6, <1>14 DEF Totals, N

\* The way of Sum is the only one.
LEMMA SumEnds ==
  ASSUME NEW q \in Seq(Nat), NEW g, Totals(g, q)
  PROVE  Sum(q) = g[Len(q)]
<1> DEFINE N == Len(q)
<1>1. N \in Nat
  OBVIOUS
<1>2. PICK f \in [0..N -> Nat] : Totals(f, q) /\ Sum(q) = f[N]
  BY SumRuns
<1> HIDE DEF N
<1> DEFINE T == {n \in 0..N : f[n] = g[n]}
<1>3. 0 \in T
  BY <1>1, <1>2 DEF Totals
<1>4. ASSUME NEW k \in T, k < N PROVE k + 1 \in T
  <2>1. k + 1 \in 1..N /\ k + 1 \in 0..N /\ k + 1 - 1 = k
    BY <1>1, <1>4
  <2>2. f[k + 1] = f[k] + q[k + 1] /\ g[k + 1] = g[k] + q[k + 1]
    BY <1>2, <2>1 DEF Totals, N
  <2> QED BY <2>1, <2>2
<1>5. T = 0..N
  <2>1. T \in SUBSET (0..N)
    OBVIOUS
  <2> HIDE DEF T
  <2> QED BY <1>1, <1>3, <1>4, <2>1, UpTo
<1>6. N \in 0..N
  BY <1>1
<1> QED BY <1>2, <1>5, <1>6 DEF N

\* Nothing adds up to nothing.
LEMMA SumNone == Sum(<<>>) = 0
<1>1. PICK f \in [0..Len(<<>>) -> Nat] : Totals(f, <<>>) /\ Sum(<<>>) = f[Len(<<>>)]
  <2>1. <<>> \in Seq(Nat)
    OBVIOUS
  <2> QED BY <2>1, SumRuns
<1>2. Len(<<>>) = 0
  OBVIOUS
<1> QED BY <1>1, <1>2 DEF Totals

\* One number more.
LEMMA SumAppend ==
  ASSUME NEW q \in Seq(Nat), NEW v \in Nat
  PROVE  Sum(Append(q, v)) = Sum(q) + v
<1> DEFINE t == Append(q, v)
           N == Len(q)
<1>1. t \in Seq(Nat) /\ Len(t) = N + 1 /\ t[N + 1] = v /\ (\A n \in 1..N : t[n] = q[n]) /\ N \in Nat
  OBVIOUS
<1> HIDE DEF t
<1>2. PICK f \in [0..N -> Nat] : Totals(f, q) /\ Sum(q) = f[N]
  BY SumRuns
<1> DEFINE g == [n \in 0..(N + 1) |-> IF n = N + 1 THEN f[N] + v ELSE f[n]]
<1>3. g[0] = 0 /\ g[N + 1] = f[N] + v
  BY <1>1, <1>2 DEF Totals
<1>4. ASSUME NEW n \in 1..(N + 1) PROVE g[n] = g[n - 1] + t[n]
  <2>1. n - 1 \in 0..(N + 1) /\ n - 1 # N + 1
    BY <1>1
  <2>2. g[n - 1] = f[n - 1]
    BY <2>1
  <2>3. CASE n = N + 1
    BY <1>1, <1>3, <2>2, <2>3
  <2>4. CASE n # N + 1
    <3>1. n \in 1..N
      BY <1>1, <2>4
    <3>2. f[n] = f[n - 1] + q[n]
      BY <1>2, <3>1 DEF Totals
    <3> QED BY <1>1, <2>2, <2>4, <3>1, <3>2
  <2> QED BY <2>3, <2>4
<1> HIDE DEF g, N
<1>5. Totals(g, t)
  BY <1>1, <1>3, <1>4 DEF Totals
<1>6. Sum(t) = g[N + 1]
  BY <1>1, <1>5, SumEnds
<1> QED BY <1>2, <1>3, <1>6 DEF t

\* The weights of the elements that were kept add up to those of all, when what was
\* not kept weighs nothing.
LEMMA SumOfThose ==
  ASSUME NEW V, NEW s \in Seq(V), NEW S, NEW w \in [V -> Nat],
         \A l \in Range(s) : l \notin S => w[l] = 0
  PROVE  Sum([n \in DOMAIN Those(s, S) |-> w[Those(s, S)[n]]]) = Sum([n \in DOMAIN s |-> w[s[n]]])
<1> DEFINE Weights(u) == [n \in DOMAIN u |-> w[u[n]]]
           N == Len(s)
           q == Weights(s)
<1>1. ASSUME NEW u \in Seq(V) PROVE Weights(u) \in Seq(Nat) /\ Len(Weights(u)) = Len(u)
  <2>1. DOMAIN u = 1..Len(u) /\ Len(u) \in Nat /\ \A n \in 1..Len(u) : u[n] \in V
    OBVIOUS
  <2>2. \A n \in 1..Len(u) : w[u[n]] \in Nat
    BY <2>1
  <2> QED BY <2>1, <2>2
<1>2. ASSUME NEW u \in Seq(V), NEW l \in V PROVE Weights(Append(u, l)) = Append(Weights(u), w[l])
  <2> DEFINE a == Append(u, l)
             b == Append(Weights(u), w[l])
  <2>1. a \in Seq(V) /\ Len(a) = Len(u) + 1 /\ a[Len(u) + 1] = l /\ (\A n \in 1..Len(u) : a[n] = u[n])
    OBVIOUS
  <2>2. w[l] \in Nat /\ Len(u) \in Nat /\ DOMAIN u = 1..Len(u)
    OBVIOUS
  <2>3. Weights(a) \in Seq(Nat) /\ Len(Weights(a)) = Len(u) + 1
    BY <1>1, <2>1
  <2>4. Weights(u) \in Seq(Nat) /\ Len(Weights(u)) = Len(u)
    BY <1>1
  <2>5. \A n \in 1..(Len(u) + 1) : Weights(a)[n] = w[a[n]]
    BY <2>1, <2>3
  <2>6. \A n \in 1..Len(u) : Weights(u)[n] = w[u[n]]
    BY <2>2
  <2> HIDE DEF Weights, a
  <2>7. b \in Seq(Nat) /\ Len(b) = Len(u) + 1 /\ b[Len(u) + 1] = w[l]
        /\ \A n \in 1..Len(u) : b[n] = Weights(u)[n]
    <3>1. ASSUME NEW z \in Seq(Nat), NEW v \in Nat
          PROVE  /\ Append(z, v) \in Seq(Nat) /\ Len(Append(z, v)) = Len(z) + 1
                 /\ Append(z, v)[Len(z) + 1] = v /\ \A n \in 1..Len(z) : Append(z, v)[n] = z[n]
      OBVIOUS
    <3>2. /\ b \in Seq(Nat) /\ Len(b) = Len(Weights(u)) + 1
          /\ b[Len(Weights(u)) + 1] = w[l] /\ \A n \in 1..Len(Weights(u)) : b[n] = Weights(u)[n]
      BY <2>2, <2>4, <3>1
    <3> HIDE DEF b
    <3> QED BY <2>4, <3>2
  <2> HIDE DEF b
  <2>8. \A n \in 1..(Len(u) + 1) : Weights(a)[n] = b[n]
    <3> TAKE n \in 1..(Len(u) + 1)
    <3>1. n = Len(u) + 1 \/ n \in 1..Len(u)
      BY <2>2
    <3>2. Weights(a)[n] = w[a[n]]
      BY <2>5
    <3>3. CASE n = Len(u) + 1
      <4>1. a[n] = l
        BY <2>1, <3>3 DEF a
      <4>2. b[n] = w[l]
        BY <2>7, <3>3
      <4> QED BY <3>2, <4>1, <4>2
    <3>4. CASE n \in 1..Len(u)
      <4>1. a[n] = u[n]
        BY <2>1, <3>4 DEF a
      <4>2. b[n] = w[u[n]]
        BY <2>6, <2>7, <3>4
      <4> QED BY <3>2, <4>1, <4>2
    <3> QED BY <3>1, <3>3, <3>4
  <2>9. Weights(a) = b
    <3>1. \A n \in 1..Len(Weights(a)) : Weights(a)[n] = b[n]
      BY <2>3, <2>8
    <3> QED BY <2>3, <2>7, <3>1, SeqEqual
  <2> QED BY <2>9 DEF a, b
<1>3. PICK f \in [0..N -> Seq(V)] : Collects(f, s, S) /\ Those(s, S) = f[N]
  BY ThoseRuns
<1>4. N \in Nat /\ DOMAIN s = 1..N /\ \A n \in 1..N : s[n] \in V
  OBVIOUS
<1>5. q \in Seq(Nat) /\ Len(q) = N /\ \A n \in 1..N : q[n] = w[s[n]]
  BY <1>1, <1>4
<1>6. Weights(<<>>) = <<>>
  OBVIOUS
<1> HIDE DEF Weights, N, q
<1>7. PICK g \in [0..N -> Nat] : Totals(g, q) /\ Sum(q) = g[N]
  BY <1>5, SumRuns
<1> DEFINE T == {n \in 0..N : Sum(Weights(f[n])) = g[n]}
<1>8. 0 \in T
  <2>1. f[0] = <<>> /\ g[0] = 0 /\ 0 \in 0..N
    BY <1>3, <1>4, <1>7 DEF Collects, Totals
  <2> QED BY <1>6, <2>1, SumNone
<1>9. ASSUME NEW k \in T, k < N PROVE k + 1 \in T
  <2>1. k + 1 \in 1..N /\ k + 1 \in 0..N /\ k \in 0..N /\ k + 1 - 1 = k
    BY <1>4, <1>9
  <2>2. f[k + 1] = IF s[k + 1] \in S THEN Append(f[k], s[k + 1]) ELSE f[k]
    BY <1>3, <2>1 DEF Collects, N
  <2>3. g[k + 1] = g[k] + w[s[k + 1]]
    BY <1>5, <1>7, <2>1 DEF Totals
  <2>4. f[k] \in Seq(V) /\ s[k + 1] \in V /\ w[s[k + 1]] \in Nat /\ g[k] \in Nat
    BY <1>4, <2>1
  <2>5. Sum(Weights(f[k])) = g[k]
    OBVIOUS
  <2>6. CASE s[k + 1] \in S
    <3>1. Sum(Weights(f[k + 1])) = Sum(Append(Weights(f[k]), w[s[k + 1]]))
      BY <1>2, <2>2, <2>4, <2>6
    <3>2. Sum(Append(Weights(f[k]), w[s[k + 1]])) = Sum(Weights(f[k])) + w[s[k + 1]]
      BY <1>1, <2>4, SumAppend
    <3> QED BY <2>1, <2>3, <2>5, <3>1, <3>2
  <2>7. CASE s[k + 1] \notin S
    <3>1. s[k + 1] \in Range(s)
      BY <1>4, <2>1 DEF Range
    <3>2. w[s[k + 1]] = 0
      BY <2>7, <3>1
    <3> QED BY <2>1, <2>2, <2>3, <2>4, <2>5, <2>7, <3>2
  <2> QED BY <2>6, <2>7
<1>10. T = 0..N
  <2>1. T \in SUBSET (0..N)
    OBVIOUS
  <2> HIDE DEF T
  <2> QED BY <1>4, <1>8, <1>9, <2>1, UpTo
<1>11. N \in 0..N
  BY <1>4
<1>12. Sum(Weights(f[N])) = Sum(q)
  BY <1>7, <1>10, <1>11
<1> QED BY <1>3, <1>12 DEF Weights, q

-----------------------------------------------------------------------------
(* A frame without its noise. *)

Quiet(s) == {l \in Range(s) : ~Noise(l)}
Clean(s) == Those(s, Quiet(s))

\* What is read is not noise, and the same without the noise.
Reads(s, S, C) == S = C /\ S \subseteq Quiet(s)

\* A frame without its noise is made of the lines that are none.
LEMMA CleanIs ==
  ASSUME NEW V, NEW s \in Seq(V)
  PROVE  Clean(s) \in Seq(V) /\ Range(Clean(s)) = Quiet(s)
<1>1. Clean(s) \in Seq(V) /\ Range(Clean(s)) = Range(s) \cap Quiet(s)
  BY ThoseAre DEF Clean
<1> QED BY <1>1 DEF Quiet

\* A parser that reads no noise reads the same without it.
LEMMA ReadsTheSame ==
  ASSUME NEW V, NEW s \in Seq(V), NEW S, NEW C, Reads(s, S, C)
  PROVE  Those(Clean(s), C) = Those(s, S)
<1>1. S = C /\ S \subseteq Quiet(s)
  BY DEF Reads
<1>2. Those(Those(s, Quiet(s)), S) = Those(s, S)
  BY <1>1, ThoseOfThose
<1> QED BY <1>1, <1>2 DEF Clean

\* The lines of one command that say something.
Telling(s, tag) == {l \in Of(s, tag) : ~Empty(l)}

\* So does one that reads what says something.
LEMMA TellingIs ==
  ASSUME NEW V, NEW s \in Seq(V), NEW tag, tag \notin Headings
  PROVE  Reads(s, Telling(s, tag), Telling(Clean(s), tag))
<1>1. Range(Clean(s)) = Quiet(s)
  BY CleanIs
<1>2. ASSUME NEW l, l.tag = tag PROVE Noise(l) <=> (~l.ok \/ Empty(l))
  BY <1>2 DEF Noise
<1>3. Telling(Clean(s), tag) = {l \in Range(s) : l.tag = tag /\ l.ok /\ ~Empty(l)}
  BY <1>1, <1>2 DEF Telling, Of, Quiet
<1>4. Telling(s, tag) = {l \in Range(s) : l.tag = tag /\ l.ok /\ ~Empty(l)}
  BY DEF Telling, Of
<1>5. {l \in Range(s) : l.tag = tag /\ l.ok /\ ~Empty(l)} \subseteq Quiet(s)
  BY <1>2 DEF Quiet
<1> QED BY <1>3, <1>4, <1>5 DEF Reads

Headed(s, tag) == {l \in Range(s) : l.tag = tag}

\* Headings are never noise.
LEMMA HeadedIs ==
  ASSUME NEW V, NEW s \in Seq(V), NEW tag \in Headings
  PROVE  Reads(s, Headed(s, tag), Headed(Clean(s), tag))
<1>1. Range(Clean(s)) = Quiet(s)
  BY CleanIs
<1>2. ASSUME NEW l, l.tag = tag PROVE ~Noise(l)
  BY <1>2 DEF Noise
<1>3. Headed(Clean(s), tag) = Headed(s, tag)
  BY <1>1, <1>2 DEF Headed, Quiet
<1>4. Headed(s, tag) \subseteq Quiet(s)
  BY <1>2 DEF Headed, Quiet
<1> QED BY <1>3, <1>4 DEF Reads

\* What each command has to say.
LEMMA EmptyIs ==
  /\ \A l : l.tag = "TXF"   => (Empty(l) <=> NaN \in {l.total, l.used})
  /\ \A l : l.tag = "TXG"   => (Empty(l) <=> NaN \in {l.util, l.used, l.total})
  /\ \A l : l.tag = "mem"   => (Empty(l) <=> l.kb = NaN)
  /\ \A l : l.tag = "load"  => (Empty(l) <=> NaN \in Range(l.load))
  /\ \A l : l.tag = "TXI"   => (Empty(l) <=> l.value = "")
  /\ \A l : l.tag = "TXP"   => (Empty(l) <=> NaN \in {l.pid, l.delta})
  /\ \A l : l.tag = "TXGrp" => (Empty(l) <=> l.usec = NaN)
  /\ \A l : l.tag = "TXR"   => (Empty(l) <=> l.count = NaN \/ l.unit = "")
  /\ \A l : l.tag \in {"TXWC", "TXWM", "TXWN", "TXWD"} => (Empty(l) <=> NaN \in {l.a, l.b})
  /\ \A l : l.tag = "TXWP"  => (Empty(l) <=> NaN \in {l.pid, l.delta})
  /\ \A l, tag : tag \in {"TXT", "net", "disk", "TXC", "TXO", "TXWPT"} /\ l.tag = tag => ~Empty(l)
<1>1. \A l : l.tag = "TXF"   => (Empty(l) <=> NaN \in {l.total, l.used})
  BY DEF Empty
<1>2. \A l : l.tag = "TXG"   => (Empty(l) <=> NaN \in {l.util, l.used, l.total})
  BY DEF Empty
<1>3. \A l : l.tag = "mem"   => (Empty(l) <=> l.kb = NaN)
  BY DEF Empty
<1>4. \A l : l.tag = "load"  => (Empty(l) <=> NaN \in Range(l.load))
  BY DEF Empty
<1>5. \A l : l.tag = "TXI"   => (Empty(l) <=> l.value = "")
  BY DEF Empty
<1>6. \A l : l.tag = "TXP"   => (Empty(l) <=> NaN \in {l.pid, l.delta})
  BY DEF Empty
<1>7. \A l : l.tag = "TXGrp" => (Empty(l) <=> l.usec = NaN)
  BY DEF Empty
<1>8. \A l : l.tag = "TXR"   => (Empty(l) <=> l.count = NaN \/ l.unit = "")
  BY DEF Empty
<1>9. \A l : l.tag \in {"TXWC", "TXWM", "TXWN", "TXWD"} => (Empty(l) <=> NaN \in {l.a, l.b})
  BY DEF Empty
<1>10. \A l : l.tag = "TXWP"  => (Empty(l) <=> NaN \in {l.pid, l.delta})
  BY DEF Empty
<1>11. \A l, tag : tag \in {"TXT", "net", "disk", "TXC", "TXO", "TXWPT"} /\ l.tag = tag => ~Empty(l)
  <2>1. \A l : l.tag = "TXT" => ~Empty(l)
    BY DEF Empty
  <2>2. \A l : l.tag = "net" => ~Empty(l)
    BY DEF Empty
  <2>3. \A l : l.tag = "disk" => ~Empty(l)
    BY DEF Empty
  <2>4. \A l : l.tag = "TXC" => ~Empty(l)
    BY DEF Empty
  <2>5. \A l : l.tag = "TXO" => ~Empty(l)
    BY DEF Empty
  <2>6. \A l : l.tag = "TXWPT" => ~Empty(l)
    BY DEF Empty
  <2> QED BY <2>1, <2>2, <2>3, <2>4, <2>5, <2>6
<1> QED BY <1>1, <1>2, <1>3, <1>4, <1>5, <1>6, <1>7, <1>8, <1>9, <1>10, <1>11

\* None of these is a heading.
LEMMA TagsAreNoHeadings ==
  \A tag \in {"TXT", "TXG", "net", "disk", "mem", "load", "TXF", "TXI", "TXP", "TXC", "TXO", "TXGrp",
              "TXR", "TXWC", "TXWM", "TXWN", "TXWD", "TXWP", "TXWPT"} : tag \notin Headings
BY DEF Headings

\* One lemma for each selection that a parser makes of the lines.
LEMMA TempsTheSame ==
  ASSUME NEW V, NEW s \in Seq(V)
  PROVE  Those(Clean(s), {l \in Of(Clean(s), "TXT") : Plausible(l)})
           = Those(s, {l \in Of(s, "TXT") : Plausible(l)})
<1> DEFINE S == {l \in Of(s, "TXT") : Plausible(l)}
           C == {l \in Of(Clean(s), "TXT") : Plausible(l)}
<1>1. /\ S = {l \in Telling(s, "TXT") : Plausible(l)}
      /\ C = {l \in Telling(Clean(s), "TXT") : Plausible(l)}
  BY EmptyIs DEF Telling, Of
<1>2. Reads(s, Telling(s, "TXT"), Telling(Clean(s), "TXT"))
  BY TellingIs, TagsAreNoHeadings
<1>3. Reads(s, S, C)
  BY <1>1, <1>2 DEF Reads
<1> HIDE DEF S, C
<1>4. Those(Clean(s), C) = Those(s, S)
  BY <1>3, ReadsTheSame
<1> QED BY <1>4 DEF S, C

LEMMA CpuTempsTheSame ==
  ASSUME NEW V, NEW s \in Seq(V)
  PROVE  Those(Clean(s), {l \in Of(Clean(s), "TXT") : Plausible(l) /\ CpuRank(l) # NaN})
           = Those(s, {l \in Of(s, "TXT") : Plausible(l) /\ CpuRank(l) # NaN})
<1> DEFINE S == {l \in Of(s, "TXT") : Plausible(l) /\ CpuRank(l) # NaN}
           C == {l \in Of(Clean(s), "TXT") : Plausible(l) /\ CpuRank(l) # NaN}
<1>1. /\ S = {l \in Telling(s, "TXT") : Plausible(l) /\ CpuRank(l) # NaN}
      /\ C = {l \in Telling(Clean(s), "TXT") : Plausible(l) /\ CpuRank(l) # NaN}
  BY EmptyIs DEF Telling, Of
<1>2. Reads(s, Telling(s, "TXT"), Telling(Clean(s), "TXT"))
  BY TellingIs, TagsAreNoHeadings
<1>3. Reads(s, S, C)
  BY <1>1, <1>2 DEF Reads
<1> HIDE DEF S, C
<1>4. Those(Clean(s), C) = Those(s, S)
  BY <1>3, ReadsTheSame
<1> QED BY <1>4 DEF S, C

LEMMA GpusTheSame ==
  ASSUME NEW V, NEW s \in Seq(V)
  PROVE  Those(Clean(s), {l \in Of(Clean(s), "TXG") : NaN \notin {l.util, l.used, l.total}})
           = Those(s, {l \in Of(s, "TXG") : NaN \notin {l.util, l.used, l.total}})
<1> DEFINE S == {l \in Of(s, "TXG") : NaN \notin {l.util, l.used, l.total}}
           C == {l \in Of(Clean(s), "TXG") : NaN \notin {l.util, l.used, l.total}}
<1>1. /\ S = {l \in Telling(s, "TXG") : NaN \notin {l.util, l.used, l.total}}
      /\ C = {l \in Telling(Clean(s), "TXG") : NaN \notin {l.util, l.used, l.total}}
  BY EmptyIs DEF Telling, Of
<1>2. Reads(s, Telling(s, "TXG"), Telling(Clean(s), "TXG"))
  BY TellingIs, TagsAreNoHeadings
<1>3. Reads(s, S, C)
  BY <1>1, <1>2 DEF Reads
<1> HIDE DEF S, C
<1>4. Those(Clean(s), C) = Those(s, S)
  BY <1>3, ReadsTheSame
<1> QED BY <1>4 DEF S, C

LEMMA LinksTheSame ==
  ASSUME NEW V, NEW s \in Seq(V)
  PROVE  Those(Clean(s), {l \in Of(Clean(s), "net") : l.iface.start \notin VirtualLinks})
           = Those(s, {l \in Of(s, "net") : l.iface.start \notin VirtualLinks})
<1> DEFINE S == {l \in Of(s, "net") : l.iface.start \notin VirtualLinks}
           C == {l \in Of(Clean(s), "net") : l.iface.start \notin VirtualLinks}
<1>1. /\ S = {l \in Telling(s, "net") : l.iface.start \notin VirtualLinks}
      /\ C = {l \in Telling(Clean(s), "net") : l.iface.start \notin VirtualLinks}
  BY EmptyIs DEF Telling, Of
<1>2. Reads(s, Telling(s, "net"), Telling(Clean(s), "net"))
  BY TellingIs, TagsAreNoHeadings
<1>3. Reads(s, S, C)
  BY <1>1, <1>2 DEF Reads
<1> HIDE DEF S, C
<1>4. Those(Clean(s), C) = Those(s, S)
  BY <1>3, ReadsTheSame
<1> QED BY <1>4 DEF S, C

LEMMA DisksTheSame ==
  ASSUME NEW V, NEW s \in Seq(V)
  PROVE  Those(Clean(s), {l \in Of(Clean(s), "disk") : IsWholeDisk(l.name)})
           = Those(s, {l \in Of(s, "disk") : IsWholeDisk(l.name)})
<1> DEFINE S == {l \in Of(s, "disk") : IsWholeDisk(l.name)}
           C == {l \in Of(Clean(s), "disk") : IsWholeDisk(l.name)}
<1>1. /\ S = {l \in Telling(s, "disk") : IsWholeDisk(l.name)}
      /\ C = {l \in Telling(Clean(s), "disk") : IsWholeDisk(l.name)}
  BY EmptyIs DEF Telling, Of
<1>2. Reads(s, Telling(s, "disk"), Telling(Clean(s), "disk"))
  BY TellingIs, TagsAreNoHeadings
<1>3. Reads(s, S, C)
  BY <1>1, <1>2 DEF Reads
<1> HIDE DEF S, C
<1>4. Those(Clean(s), C) = Those(s, S)
  BY <1>3, ReadsTheSame
<1> QED BY <1>4 DEF S, C

LEMMA AggregatesTheSame ==
  ASSUME NEW V, NEW s \in Seq(V)
  PROVE  Those(Clean(s), {l \in {l \in Range(Clean(s)) : l.tag = "cpu"} : l.label = "cpu"})
           = Those(s, {l \in {l \in Range(s) : l.tag = "cpu"} : l.label = "cpu"})
<1> DEFINE S == {l \in {l \in Range(s) : l.tag = "cpu"} : l.label = "cpu"}
           C == {l \in {l \in Range(Clean(s)) : l.tag = "cpu"} : l.label = "cpu"}
<1>1. /\ S = {l \in Headed(s, "cpu") : l.label = "cpu"}
      /\ C = {l \in Headed(Clean(s), "cpu") : l.label = "cpu"}
  BY DEF Headed
<1>2. Reads(s, Headed(s, "cpu"), Headed(Clean(s), "cpu"))
  BY HeadedIs DEF Headings
<1>3. Reads(s, S, C)
  BY <1>1, <1>2 DEF Reads
<1> HIDE DEF S, C
<1>4. Those(Clean(s), C) = Those(s, S)
  BY <1>3, ReadsTheSame
<1> QED BY <1>4 DEF S, C

LEMMA CoresTheSame ==
  ASSUME NEW V, NEW s \in Seq(V)
  PROVE  Those(Clean(s), {l \in {l \in Range(Clean(s)) : l.tag = "cpu"} : l.label # "cpu"})
           = Those(s, {l \in {l \in Range(s) : l.tag = "cpu"} : l.label # "cpu"})
<1> DEFINE S == {l \in {l \in Range(s) : l.tag = "cpu"} : l.label # "cpu"}
           C == {l \in {l \in Range(Clean(s)) : l.tag = "cpu"} : l.label # "cpu"}
<1>1. /\ S = {l \in Headed(s, "cpu") : l.label # "cpu"}
      /\ C = {l \in Headed(Clean(s), "cpu") : l.label # "cpu"}
  BY DEF Headed
<1>2. Reads(s, Headed(s, "cpu"), Headed(Clean(s), "cpu"))
  BY HeadedIs DEF Headings
<1>3. Reads(s, S, C)
  BY <1>1, <1>2 DEF Reads
<1> HIDE DEF S, C
<1>4. Those(Clean(s), C) = Those(s, S)
  BY <1>3, ReadsTheSame
<1> QED BY <1>4 DEF S, C

Memory(t, k) == Those(t, {l \in Of(t, "mem") : l.key = k /\ l.kb # NaN})

LEMMA MemoryTheSame ==
  ASSUME NEW V, NEW s \in Seq(V), NEW k
  PROVE  Memory(Clean(s), k) = Memory(s, k)
<1> DEFINE S == {l \in Of(s, "mem") : l.key = k /\ l.kb # NaN}
           C == {l \in Of(Clean(s), "mem") : l.key = k /\ l.kb # NaN}
<1>1. /\ S = {l \in Telling(s, "mem") : l.key = k /\ l.kb # NaN}
      /\ C = {l \in Telling(Clean(s), "mem") : l.key = k /\ l.kb # NaN}
  BY EmptyIs DEF Telling, Of
<1>2. Reads(s, Telling(s, "mem"), Telling(Clean(s), "mem"))
  BY TellingIs, TagsAreNoHeadings
<1>3. Reads(s, S, C)
  BY <1>1, <1>2 DEF Reads
<1> HIDE DEF S, C
<1>4. Those(Clean(s), C) = Those(s, S)
  BY <1>3, ReadsTheSame
<1> QED BY <1>4 DEF S, C, Memory

LEMMA LoadsTheSame ==
  ASSUME NEW V, NEW s \in Seq(V)
  PROVE  Those(Clean(s), {l \in Of(Clean(s), "load") : NaN \notin Range(l.load)})
           = Those(s, {l \in Of(s, "load") : NaN \notin Range(l.load)})
<1> DEFINE S == {l \in Of(s, "load") : NaN \notin Range(l.load)}
           C == {l \in Of(Clean(s), "load") : NaN \notin Range(l.load)}
<1>1. /\ S = {l \in Telling(s, "load") : NaN \notin Range(l.load)}
      /\ C = {l \in Telling(Clean(s), "load") : NaN \notin Range(l.load)}
  BY EmptyIs DEF Telling, Of
<1>2. Reads(s, Telling(s, "load"), Telling(Clean(s), "load"))
  BY TellingIs, TagsAreNoHeadings
<1>3. Reads(s, S, C)
  BY <1>1, <1>2 DEF Reads
<1> HIDE DEF S, C
<1>4. Those(Clean(s), C) = Those(s, S)
  BY <1>3, ReadsTheSame
<1> QED BY <1>4 DEF S, C

LEMMA MountsTheSame ==
  ASSUME NEW V, NEW s \in Seq(V)
  PROVE  Those(Clean(s), {l \in Of(Clean(s), "TXF") : /\ ~IsPseudo(l.source)
                                                    /\ NaN \notin {l.total, l.used} /\ l.total # 0})
           = Those(s, {l \in Of(s, "TXF") : /\ ~IsPseudo(l.source)
                                            /\ NaN \notin {l.total, l.used} /\ l.total # 0})
<1> DEFINE S == {l \in Of(s, "TXF") : /\ ~IsPseudo(l.source)
                                      /\ NaN \notin {l.total, l.used} /\ l.total # 0}
           C == {l \in Of(Clean(s), "TXF") : /\ ~IsPseudo(l.source)
                                             /\ NaN \notin {l.total, l.used} /\ l.total # 0}
<1>1. /\ S = {l \in Telling(s, "TXF") : /\ ~IsPseudo(l.source)
                                        /\ NaN \notin {l.total, l.used} /\ l.total # 0}
      /\ C = {l \in Telling(Clean(s), "TXF") : /\ ~IsPseudo(l.source)
                                               /\ NaN \notin {l.total, l.used} /\ l.total # 0}
  BY EmptyIs DEF Telling, Of
<1>2. Reads(s, Telling(s, "TXF"), Telling(Clean(s), "TXF"))
  BY TellingIs, TagsAreNoHeadings
<1>3. Reads(s, S, C)
  BY <1>1, <1>2 DEF Reads
<1> HIDE DEF S, C
<1>4. Those(Clean(s), C) = Those(s, S)
  BY <1>3, ReadsTheSame
<1> QED BY <1>4 DEF S, C

LEMMA FactsTheSame ==
  ASSUME NEW V, NEW s \in Seq(V), NEW k
  PROVE  Those(Clean(s), {l \in Of(Clean(s), "TXI") : l.key = k /\ l.value # ""})
           = Those(s, {l \in Of(s, "TXI") : l.key = k /\ l.value # ""})
<1> DEFINE S == {l \in Of(s, "TXI") : l.key = k /\ l.value # ""}
           C == {l \in Of(Clean(s), "TXI") : l.key = k /\ l.value # ""}
<1>1. /\ S = {l \in Telling(s, "TXI") : l.key = k /\ l.value # ""}
      /\ C = {l \in Telling(Clean(s), "TXI") : l.key = k /\ l.value # ""}
  BY EmptyIs DEF Telling, Of
<1>2. Reads(s, Telling(s, "TXI"), Telling(Clean(s), "TXI"))
  BY TellingIs, TagsAreNoHeadings
<1>3. Reads(s, S, C)
  BY <1>1, <1>2 DEF Reads
<1> HIDE DEF S, C
<1>4. Those(Clean(s), C) = Those(s, S)
  BY <1>3, ReadsTheSame
<1> QED BY <1>4 DEF S, C

LEMMA RowsTheSame ==
  ASSUME NEW V, NEW s \in Seq(V)
  PROVE  Those(Clean(s), {l \in Of(Clean(s), "TXP") : NaN \notin {l.pid, l.delta}})
           = Those(s, {l \in Of(s, "TXP") : NaN \notin {l.pid, l.delta}})
<1> DEFINE S == {l \in Of(s, "TXP") : NaN \notin {l.pid, l.delta}}
           C == {l \in Of(Clean(s), "TXP") : NaN \notin {l.pid, l.delta}}
<1>1. /\ S = {l \in Telling(s, "TXP") : NaN \notin {l.pid, l.delta}}
      /\ C = {l \in Telling(Clean(s), "TXP") : NaN \notin {l.pid, l.delta}}
  BY EmptyIs DEF Telling, Of
<1>2. Reads(s, Telling(s, "TXP"), Telling(Clean(s), "TXP"))
  BY TellingIs, TagsAreNoHeadings
<1>3. Reads(s, S, C)
  BY <1>1, <1>2 DEF Reads
<1> HIDE DEF S, C
<1>4. Those(Clean(s), C) = Those(s, S)
  BY <1>3, ReadsTheSame
<1> QED BY <1>4 DEF S, C

LEMMA CommandsTheSame ==
  ASSUME NEW V, NEW s \in Seq(V), NEW p
  PROVE  Those(Clean(s), {l \in Of(Clean(s), "TXC") : l.pid = p})
           = Those(s, {l \in Of(s, "TXC") : l.pid = p})
<1> DEFINE S == {l \in Of(s, "TXC") : l.pid = p}
           C == {l \in Of(Clean(s), "TXC") : l.pid = p}
<1>1. /\ S = {l \in Telling(s, "TXC") : l.pid = p}
      /\ C = {l \in Telling(Clean(s), "TXC") : l.pid = p}
  BY EmptyIs DEF Telling, Of
<1>2. Reads(s, Telling(s, "TXC"), Telling(Clean(s), "TXC"))
  BY TellingIs, TagsAreNoHeadings
<1>3. Reads(s, S, C)
  BY <1>1, <1>2 DEF Reads
<1> HIDE DEF S, C
<1>4. Those(Clean(s), C) = Those(s, S)
  BY <1>3, ReadsTheSame
<1> QED BY <1>4 DEF S, C

LEMMA OwnersTheSame ==
  ASSUME NEW V, NEW s \in Seq(V), NEW p
  PROVE  Those(Clean(s), {l \in Of(Clean(s), "TXO") : l.pid = p})
           = Those(s, {l \in Of(s, "TXO") : l.pid = p})
<1> DEFINE S == {l \in Of(s, "TXO") : l.pid = p}
           C == {l \in Of(Clean(s), "TXO") : l.pid = p}
<1>1. /\ S = {l \in Telling(s, "TXO") : l.pid = p}
      /\ C = {l \in Telling(Clean(s), "TXO") : l.pid = p}
  BY EmptyIs DEF Telling, Of
<1>2. Reads(s, Telling(s, "TXO"), Telling(Clean(s), "TXO"))
  BY TellingIs, TagsAreNoHeadings
<1>3. Reads(s, S, C)
  BY <1>1, <1>2 DEF Reads
<1> HIDE DEF S, C
<1>4. Those(Clean(s), C) = Those(s, S)
  BY <1>3, ReadsTheSame
<1> QED BY <1>4 DEF S, C

LEMMA GroupsTheSame ==
  ASSUME NEW V, NEW s \in Seq(V)
  PROVE  Those(Clean(s), {l \in Of(Clean(s), "TXGrp") : l.usec # NaN})
           = Those(s, {l \in Of(s, "TXGrp") : l.usec # NaN})
<1> DEFINE S == {l \in Of(s, "TXGrp") : l.usec # NaN}
           C == {l \in Of(Clean(s), "TXGrp") : l.usec # NaN}
<1>1. /\ S = {l \in Telling(s, "TXGrp") : l.usec # NaN}
      /\ C = {l \in Telling(Clean(s), "TXGrp") : l.usec # NaN}
  BY EmptyIs DEF Telling, Of
<1>2. Reads(s, Telling(s, "TXGrp"), Telling(Clean(s), "TXGrp"))
  BY TellingIs, TagsAreNoHeadings
<1>3. Reads(s, S, C)
  BY <1>1, <1>2 DEF Reads
<1> HIDE DEF S, C
<1>4. Those(Clean(s), C) = Those(s, S)
  BY <1>3, ReadsTheSame
<1> QED BY <1>4 DEF S, C

LEMMA RestartsTheSame ==
  ASSUME NEW V, NEW s \in Seq(V)
  PROVE  Those(Clean(s), {l \in Of(Clean(s), "TXR") : l.count # NaN /\ l.unit # ""})
           = Those(s, {l \in Of(s, "TXR") : l.count # NaN /\ l.unit # ""})
<1> DEFINE S == {l \in Of(s, "TXR") : l.count # NaN /\ l.unit # ""}
           C == {l \in Of(Clean(s), "TXR") : l.count # NaN /\ l.unit # ""}
<1>1. /\ S = {l \in Telling(s, "TXR") : l.count # NaN /\ l.unit # ""}
      /\ C = {l \in Telling(Clean(s), "TXR") : l.count # NaN /\ l.unit # ""}
  BY EmptyIs DEF Telling, Of
<1>2. Reads(s, Telling(s, "TXR"), Telling(Clean(s), "TXR"))
  BY TellingIs, TagsAreNoHeadings
<1>3. Reads(s, S, C)
  BY <1>1, <1>2 DEF Reads
<1> HIDE DEF S, C
<1>4. Those(Clean(s), C) = Those(s, S)
  BY <1>3, ReadsTheSame
<1> QED BY <1>4 DEF S, C

LEMMA WinRowsTheSame ==
  ASSUME NEW V, NEW s \in Seq(V)
  PROVE  Those(Clean(s), {l \in Of(Clean(s), "TXWP") : NaN \notin {l.pid, l.delta}})
           = Those(s, {l \in Of(s, "TXWP") : NaN \notin {l.pid, l.delta}})
<1> DEFINE S == {l \in Of(s, "TXWP") : NaN \notin {l.pid, l.delta}}
           C == {l \in Of(Clean(s), "TXWP") : NaN \notin {l.pid, l.delta}}
<1>1. /\ S = {l \in Telling(s, "TXWP") : NaN \notin {l.pid, l.delta}}
      /\ C = {l \in Telling(Clean(s), "TXWP") : NaN \notin {l.pid, l.delta}}
  BY EmptyIs DEF Telling, Of
<1>2. Reads(s, Telling(s, "TXWP"), Telling(Clean(s), "TXWP"))
  BY TellingIs, TagsAreNoHeadings
<1>3. Reads(s, S, C)
  BY <1>1, <1>2 DEF Reads
<1> HIDE DEF S, C
<1>4. Those(Clean(s), C) = Those(s, S)
  BY <1>3, ReadsTheSame
<1> QED BY <1>4 DEF S, C

LEMMA HeadingTheSame ==
  ASSUME NEW V, NEW s \in Seq(V), NEW tag \in Headings
  PROVE  Those(Clean(s), {l \in Range(Clean(s)) : l.tag = tag}) = Those(s, {l \in Range(s) : l.tag = tag})
<1>1. Reads(s, Headed(s, tag), Headed(Clean(s), tag))
  BY HeadedIs
<1>2. Those(Clean(s), Headed(Clean(s), tag)) = Those(s, Headed(s, tag))
  BY <1>1, ReadsTheSame
<1> QED BY <1>2 DEF Headed

LEMMA WindowTheSame ==
  ASSUME NEW V, NEW s \in Seq(V)
  PROVE  Those(Clean(s), Of(Clean(s), "TXWPT")) = Those(s, Of(s, "TXWPT"))
<1>1. Of(s, "TXWPT") = Telling(s, "TXWPT") /\ Of(Clean(s), "TXWPT") = Telling(Clean(s), "TXWPT")
  BY EmptyIs DEF Telling, Of
<1>2. Reads(s, Telling(s, "TXWPT"), Telling(Clean(s), "TXWPT"))
  BY TellingIs, TagsAreNoHeadings
<1> QED BY <1>1, <1>2, ReadsTheSame

LEMMA CountersTheSame ==
  ASSUME NEW V, NEW s \in Seq(V), NEW tag \in {"TXWC", "TXWM", "TXWN", "TXWD"}, NEW Q
  PROVE  Those(Clean(s), {l \in Of(Clean(s), tag) : NaN \notin {l.a, l.b}} \cap Q)
           = Those(s, {l \in Of(s, tag) : NaN \notin {l.a, l.b}} \cap Q)
<1> DEFINE S == {l \in Of(s, tag) : NaN \notin {l.a, l.b}} \cap Q
           C == {l \in Of(Clean(s), tag) : NaN \notin {l.a, l.b}} \cap Q
<1>1. S = Telling(s, tag) \cap Q /\ C = Telling(Clean(s), tag) \cap Q
  <2>1. ASSUME NEW l, l.tag = tag PROVE Empty(l) <=> NaN \in {l.a, l.b}
    BY <2>1 DEF Empty
  <2> QED BY <2>1 DEF Telling, Of
<1>2. Reads(s, Telling(s, tag), Telling(Clean(s), tag))
  BY TellingIs, TagsAreNoHeadings
<1>3. Reads(s, S, C)
  BY <1>1, <1>2 DEF Reads
<1> HIDE DEF S, C
<1>4. Those(Clean(s), C) = Those(s, S)
  BY <1>3, ReadsTheSame
<1> QED BY <1>4 DEF S, C

-----------------------------------------------------------------------------
(* So every parser makes the same of a frame and of the frame without its  *)
(* noise.                                                                  *)

\* parse_frame, from its eleven parts.
LEMMA FrameTheSame ==
  ASSUME NEW V, NEW s \in Seq(V)
  PROVE  ParseFrame(Clean(s)) = ParseFrame(s)
<1>1. ParseStat(Clean(s)) = ParseStat(s)
  BY AggregatesTheSame, CoresTheSame DEF ParseStat
<1>2. ParseMeminfo(Clean(s)) = ParseMeminfo(s)
  <2>1. ASSUME NEW k \in MemKeys PROVE Memory(Clean(s), k) = Memory(s, k)
    BY MemoryTheSame
  <2>2. \A t : ParseMeminfo(t) = [k \in MemKeys |-> IF Memory(t, k) = <<>> THEN 0 ELSE Last(Memory(t, k)).kb]
    BY DEF ParseMeminfo, Memory
  <2> QED BY <2>1, <2>2
<1>3. ParseNetDev(Clean(s)) = ParseNetDev(s)
  BY LinksTheSame DEF ParseNetDev
<1>4. ParseDiskstats(Clean(s)) = ParseDiskstats(s)
  BY DisksTheSame DEF ParseDiskstats
<1>5. ParseLoadavg(Clean(s)) = ParseLoadavg(s)
  BY LoadsTheSame DEF ParseLoadavg
<1>6. ParseCpuTemp(Clean(s)) = ParseCpuTemp(s)
  <2> DEFINE Read(t) == Those(t, {l \in Of(t, "TXT") : Plausible(l) /\ CpuRank(l) # NaN})
             Made(x) == LET best == Left(Len(x), {p \in TwoOf(x) : Stays(x[p[1]], x[p[2]])})
                        IN IF best = 0 THEN Nothing ELSE x[best].celsius
  <2>1. Read(Clean(s)) = Read(s)
    BY CpuTempsTheSame
  <2>2. ParseCpuTemp(Clean(s)) = Made(Read(Clean(s))) /\ ParseCpuTemp(s) = Made(Read(s))
    BY DEF ParseCpuTemp
  <2> HIDE DEF Read, Made
  <2> QED BY <2>1, <2>2
<1>7. ParseTemps(Clean(s)) = ParseTemps(s)
  BY TempsTheSame DEF ParseTemps
<1>8. ParseGpu(Clean(s)) = ParseGpu(s)
  BY GpusTheSame DEF ParseGpu
<1>9. ParseUptime(Clean(s)) = ParseUptime(s)
  BY HeadingTheSame DEF ParseUptime, Headings
<1>10. ParseFacts(Clean(s)) = ParseFacts(s)
  <2> DEFINE Read(t, k) == Those(t, {l \in Of(t, "TXI") : l.key = k /\ l.value # ""})
  <2>1. ASSUME NEW k \in FactKeys PROVE Read(Clean(s), k) = Read(s, k)
    BY FactsTheSame
  <2>2. \A t : ParseFacts(t) = [k \in FactKeys |-> IF Read(t, k) = <<>> THEN "" ELSE Last(Read(t, k)).value]
    BY DEF ParseFacts
  <2> HIDE DEF Read
  <2> QED BY <2>1, <2>2
<1>11. ParseFilesystems(Clean(s)) = ParseFilesystems(s)
  <2> DEFINE Read(t) == Those(t, {l \in Of(t, "TXF") : /\ ~IsPseudo(l.source)
                                                        /\ NaN \notin {l.total, l.used} /\ l.total # 0})
             Made(x) == LET out[n \in 0 .. Len(x)] == IF n = 0 THEN <<>> ELSE ListFilesystem(out[n - 1], x[n])
                        IN out[Len(x)]
  <2>1. Read(Clean(s)) = Read(s)
    BY MountsTheSame
  <2>2. ParseFilesystems(Clean(s)) = Made(Read(Clean(s))) /\ ParseFilesystems(s) = Made(Read(s))
    BY DEF ParseFilesystems
  <2> HIDE DEF Read, Made
  <2> QED BY <2>1, <2>2
<1> QED BY <1>1, <1>2, <1>3, <1>4, <1>5, <1>6, <1>7, <1>8, <1>9, <1>10, <1>11, Zenon DEF ParseFrame

\* The process plane.
LEMMA ProcessesTheSame ==
  ASSUME NEW V, NEW s \in Seq(V)
  PROVE  /\ ParseProcesses(Clean(s)) = ParseProcesses(s)
         /\ ParseRestarts(Clean(s)) = ParseRestarts(s)
         /\ ParseCgroups(Clean(s)) = ParseCgroups(s)
<1>1. Denominator(Clean(s)) = Denominator(s)
  BY HeadingTheSame DEF Denominator, Headings
<1>2. Rows(Clean(s)) = Rows(s)
  BY RowsTheSame DEF Rows
<1>3. \A rows, n : Collected(Clean(s), "TXC", rows, n) = Collected(s, "TXC", rows, n)
  <2> TAKE rows, n
  <2> DEFINE Read(t) == Those(t, {l \in Of(t, "TXC") : l.pid = rows[n].pid})
             Made(x) == IF x = <<>> \/ \E m \in 1 .. n - 1 : rows[m].pid = rows[n].pid THEN Nothing
                        ELSE Last(x).value
  <2>1. Read(Clean(s)) = Read(s)
    <3>1. \A q : Those(Clean(s), {l \in Of(Clean(s), "TXC") : l.pid = q})
                   = Those(s, {l \in Of(s, "TXC") : l.pid = q})
      BY CommandsTheSame
    <3> QED BY <3>1
  <2>2. \A t : Collected(t, "TXC", rows, n) = Made(Read(t))
    BY DEF Collected
  <2> HIDE DEF Read, Made
  <2> QED BY <2>1, <2>2
<1>4. \A rows, n : Collected(Clean(s), "TXO", rows, n) = Collected(s, "TXO", rows, n)
  <2> TAKE rows, n
  <2> DEFINE Read(t) == Those(t, {l \in Of(t, "TXO") : l.pid = rows[n].pid})
             Made(x) == IF x = <<>> \/ \E m \in 1 .. n - 1 : rows[m].pid = rows[n].pid THEN Nothing
                        ELSE Last(x).value
  <2>1. Read(Clean(s)) = Read(s)
    <3>1. \A q : Those(Clean(s), {l \in Of(Clean(s), "TXO") : l.pid = q})
                   = Those(s, {l \in Of(s, "TXO") : l.pid = q})
      BY OwnersTheSame
    <3> QED BY <3>1
  <2>2. \A t : Collected(t, "TXO", rows, n) = Made(Read(t))
    BY DEF Collected
  <2> HIDE DEF Read, Made
  <2> QED BY <2>1, <2>2
<1>5. ParseProcesses(Clean(s)) = ParseProcesses(s)
  BY <1>1, <1>2, <1>3, <1>4 DEF ParseProcesses
<1>6. ParseRestarts(Clean(s)) = ParseRestarts(s)
  <2> DEFINE Read(t) == Those(t, {l \in Of(t, "TXR") : l.count # NaN /\ l.unit # ""})
             Made(x) == [n \in DOMAIN x |-> <<x[n].unit, x[n].count>>]
  <2>1. Read(Clean(s)) = Read(s)
    BY RestartsTheSame
  <2>2. ParseRestarts(Clean(s)) = Made(Read(Clean(s))) /\ ParseRestarts(s) = Made(Read(s))
    BY DEF ParseRestarts
  <2> HIDE DEF Read, Made
  <2> QED BY <2>1, <2>2
<1>7. ParseCgroups(Clean(s)) = ParseCgroups(s)
  BY GroupsTheSame, HeadingTheSame DEF ParseCgroups, Headings
<1> QED BY <1>5, <1>6, <1>7

\* Both frames of a Windows host.
LEMMA WindowsTheSame ==
  ASSUME NEW V, NEW s \in Seq(V)
  PROVE  /\ ParseWinFrame(Clean(s)) = ParseWinFrame(s)
         /\ ParseWinProcesses(Clean(s)) = ParseWinProcesses(s)
<1>1. ParseWinFrame(Clean(s)) = ParseWinFrame(s)
  <2> DEFINE Told(t, tag, Q) == Those(t, {l \in Of(t, tag) : NaN \notin {l.a, l.b}} \cap Q)
             Whole == Range(s) \cup Range(Clean(s))
             Total == {l \in Whole : l.name = "_Total"}
             Single == {l \in Whole : l.name # "_Total"}
             Ups(t) == Those(t, {l \in Range(t) : l.tag = "TXWU"})
             Made(cores, totals, nets, disks, mems, ups) ==
               [cores  |-> cores,
                total  |-> IF totals = <<>> THEN Nothing ELSE Last(totals),
                nets   |-> nets,
                disks  |-> disks,
                mem    |-> IF mems = <<>> THEN <<0, 0>> ELSE <<Last(mems).a, Last(mems).b>>,
                uptime |-> IF ups = <<>> THEN Nothing ELSE Last(ups).a]
  <2>1. \A tag \in {"TXWC", "TXWM", "TXWN", "TXWD"} : \A Q : Told(Clean(s), tag, Q) = Told(s, tag, Q)
    BY CountersTheSame
  <2>2. Ups(Clean(s)) = Ups(s)
    BY HeadingTheSame DEF Headings
  <2>3. ASSUME NEW t \in {s, Clean(s)}
        PROVE  ParseWinFrame(t) = Made(Told(t, "TXWC", Single), Told(t, "TXWC", Total), Told(t, "TXWN", Whole),
                                       Told(t, "TXWD", Single), Told(t, "TXWM", Whole), Ups(t))
    <3> DEFINE numbers(tag) == {l \in Of(t, tag) : NaN \notin {l.a, l.b}}
    <3>1. ASSUME NEW tag PROVE /\ {l \in numbers(tag) : l.name = "_Total"} = numbers(tag) \cap Total
                               /\ {l \in numbers(tag) : l.name # "_Total"} = numbers(tag) \cap Single
                               /\ numbers(tag) = numbers(tag) \cap Whole
      BY DEF Of
    <3> QED BY <3>1 DEF ParseWinFrame
  <2> HIDE DEF Told, Whole, Total, Single, Ups, Made
  <2>4. /\ Told(Clean(s), "TXWC", Single) = Told(s, "TXWC", Single)
        /\ Told(Clean(s), "TXWC", Total) = Told(s, "TXWC", Total)
        /\ Told(Clean(s), "TXWN", Whole) = Told(s, "TXWN", Whole)
        /\ Told(Clean(s), "TXWD", Single) = Told(s, "TXWD", Single)
        /\ Told(Clean(s), "TXWM", Whole) = Told(s, "TXWM", Whole)
    BY <2>1
  <2>5. ParseWinFrame(s) = Made(Told(s, "TXWC", Single), Told(s, "TXWC", Total), Told(s, "TXWN", Whole),
                               Told(s, "TXWD", Single), Told(s, "TXWM", Whole), Ups(s))
    BY <2>3
  <2>6. ParseWinFrame(Clean(s)) = Made(Told(Clean(s), "TXWC", Single), Told(Clean(s), "TXWC", Total),
                                       Told(Clean(s), "TXWN", Whole), Told(Clean(s), "TXWD", Single),
                                       Told(Clean(s), "TXWM", Whole), Ups(Clean(s)))
    BY <2>3
  <2> QED BY <2>2, <2>4, <2>5, <2>6, Zenon
<1>2. ParseWinProcesses(Clean(s)) = ParseWinProcesses(s)
  BY WinRowsTheSame, WindowTheSame DEF ParseWinProcesses
<1> QED BY <1>1, <1>2

-----------------------------------------------------------------------------
(* The inputs are frames of the plane's lines.                             *)

Inv ==
  /\ plane \in DOMAIN LinesOf
  /\ lines \in Seq(LinesOf[plane]) /\ before \in Seq(LinesOf[plane])

\* There is nothing in a frame that has not begun.
LEMMA Initially == Init => Inv
<1>1. \A V : <<>> \in Seq(V)
  OBVIOUS
<1> QED BY <1>1 DEF Init, Inv

\* A frame gets lines of its plane.
LEMMA StepKeeps == Inv /\ [Next]_vars => Inv'
<1> SUFFICES ASSUME Inv, [Next]_vars PROVE Inv'
  OBVIOUS
<1>1. CASE AddLine
  <2>1. PICK l \in LinesOf[plane] : Fits(l) /\ lines' = Append(lines, l)
    BY <1>1 DEF AddLine
  <2>2. UNCHANGED <<plane, before>>
    BY <1>1 DEF AddLine
  <2>3. lines' \in Seq(LinesOf[plane])
    BY <2>1 DEF Inv
  <2> QED BY <2>2, <2>3 DEF Inv
<1>2. CASE EndFrame
  <2>1. <<>> \in Seq(LinesOf[plane])
    OBVIOUS
  <2> QED BY <1>2, <2>1 DEF EndFrame, Inv
<1>3. CASE UNCHANGED vars
  BY <1>3 DEF vars, Inv
<1> QED BY <1>1, <1>2, <1>3 DEF Next

\* The parsers are given frames of the plane's lines, the last and the one before it
\* (parse_frame's callers, sampler.rs:258).
THEOREM InputsCorrect == Spec => []Inv
BY Initially, StepKeeps, PTL DEF Spec

\* A line that says nothing costs the frame nothing and adds nothing to it, in any
\* of the nine parsers (parse_frame's, sampler.rs:282; parse_win_frame, windows.rs:345).
THEOREM NoiseCostsNothingCorrect == Spec => []NoiseCostsNothing
<1>1. Inv => NoiseCostsNothing
  <2> SUFFICES ASSUME Inv PROVE NoiseCostsNothing
    OBVIOUS
  <2> DEFINE clean == Those(lines, {l \in Range(lines) : ~Noise(l)})
  <2>1. clean = Clean(lines)
    BY DEF Clean, Quiet
  <2>2. lines \in Seq(LinesOf[plane])
    BY DEF Inv
  <2>3. /\ ParseFrame(clean) = ParseFrame(lines)
        /\ ParseProcesses(clean) = ParseProcesses(lines)
        /\ ParseRestarts(clean) = ParseRestarts(lines) /\ ParseCgroups(clean) = ParseCgroups(lines)
        /\ ParseWinFrame(clean) = ParseWinFrame(lines)
        /\ ParseWinProcesses(clean) = ParseWinProcesses(lines)
    <3> HIDE DEF clean
    <3> QED BY <2>1, <2>2, FrameTheSame, ProcessesTheSame, WindowsTheSame
  <2> HIDE DEF clean
  <2> QED BY <2>3 DEF NoiseCostsNothing, clean
<1> QED BY <1>1, InputsCorrect, PTL

-----------------------------------------------------------------------------
(* Percentages of the CPU's time. *)

\* A counter that cannot be read counts zero.
LEMMA OrZeroCounts ==
  ASSUME NEW field \in {NaN} \cup Nat
  PROVE  OrZero(field) \in Nat
BY DEF OrZero

\* The fields of a line are what LineTypes says.
LEMMA Numbers ==
  ASSUME NEW p \in DOMAIN LinesOf, NEW l \in LinesOf[p]
  PROVE  HasNumbers(l)
BY LineTypes

\* The elements of a sequence, by their places.
LEMMA InRange ==
  ASSUME NEW V, NEW s \in Seq(V)
  PROVE  /\ Range(s) \subseteq V
         /\ \A n \in DOMAIN s : s[n] \in Range(s)
         /\ s # <<>> => Last(s) \in Range(s) /\ s[1] \in Range(s)
         /\ \A x \in Range(s) : \E n \in DOMAIN s : s[n] = x
<1>1. DOMAIN s = 1..Len(s) /\ Len(s) \in Nat /\ \A n \in 1..Len(s) : s[n] \in V
  OBVIOUS
<1>2. s # <<>> => Len(s) \in 1..Len(s) /\ 1 \in 1..Len(s)
  BY <1>1
<1> QED BY <1>1, <1>2 DEF Range, Last

\* The rows of /proc/stat are counters.
LEMMA StatTyped ==
  ASSUME NEW p \in DOMAIN LinesOf, NEW s \in Seq(LinesOf[p])
  PROVE  /\ ParseStat(s).aggregate \in [Times -> Nat]
         /\ ParseStat(s).cores \in Seq([Times -> Nat])
<1> DEFINE rows == {l \in Range(s) : l.tag = "cpu"}
           times(l) == [t \in Times |-> OrZero(l.times[t])]
           all == Those(s, {l \in rows : l.label = "cpu"})
           cores == Those(s, {l \in rows : l.label # "cpu"})
<1>1. ParseStat(s) = [aggregate |-> IF all = <<>> THEN [t \in Times |-> 0] ELSE times(Last(all)),
                      cores     |-> [n \in DOMAIN cores |-> times(cores[n])]]
  BY DEF ParseStat
<1>2. \A l \in rows : times(l) \in [Times -> Nat]
  <2>1. \A l \in rows : l \in LinesOf[p] /\ l.tag = "cpu"
    BY InRange
  <2> SUFFICES ASSUME NEW l \in rows PROVE times(l) \in [Times -> Nat]
    OBVIOUS
  <2>2. \A t \in Times : l.times[t] \in {NaN} \cup Nat
    BY <2>1, Numbers DEF HasNumbers
  <2> QED BY <2>2, OrZeroCounts
<1>3. /\ all \in Seq(LinesOf[p]) /\ Range(all) \subseteq rows
      /\ cores \in Seq(LinesOf[p]) /\ Range(cores) \subseteq rows
  BY ThoseAre
<1> HIDE DEF rows, times, all, cores
<1>4. all # <<>> => Last(all) \in rows
  BY <1>3, InRange
<1>5. [n \in DOMAIN cores |-> times(cores[n])] \in Seq([Times -> Nat])
  <2>1. DOMAIN cores = 1..Len(cores) /\ Len(cores) \in Nat
    BY <1>3
  <2>2. \A n \in 1..Len(cores) : times(cores[n]) \in [Times -> Nat]
    BY <1>2, <1>3, <2>1, InRange
  <2> QED BY <2>1, <2>2
<1>6. [t \in Times |-> 0] \in [Times -> Nat]
  OBVIOUS
<1> QED BY <1>1, <1>2, <1>4, <1>5, <1>6

\* Each part of the CPU's time is one.
LEMMA TimesOf ==
  ASSUME NEW t \in [Times -> Nat]
  PROVE  /\ {t.user, t.nice, t.system, t.idle, t.iowait, t.irq, t.softirq, t.steal} \subseteq Nat
BY DEF Times

\* A percentage of any two counters is one.
LEMMA BusyIsAPercentage ==
  ASSUME NEW a \in [Times -> Nat], NEW b \in [Times -> Nat]
  PROVE  /\ BusyPct(a, b)[2] = Minus(TotalJiffies(b), TotalJiffies(a))
         /\ BusyPct(a, b)[2] \in Nat
         /\ BusyPct(a, b)[1] \in 0 .. BusyPct(a, b)[2]
<1>1. TotalJiffies(a) \in Nat /\ TotalJiffies(b) \in Nat /\ IdleJiffies(a) \in Nat /\ IdleJiffies(b) \in Nat
  BY TimesOf DEF TotalJiffies, IdleJiffies
<1>2. \A x, y \in Nat : Minus(x, y) \in Nat /\ Minus(x, y) <= x
  BY DEF Minus
<1> DEFINE total == Minus(TotalJiffies(b), TotalJiffies(a))
           idle == Minus(IdleJiffies(b), IdleJiffies(a))
<1>3. total \in Nat /\ idle \in Nat
  BY <1>1, <1>2
<1>4. Minus(total, idle) \in 0 .. total
  BY <1>2, <1>3
<1>5. BusyPct(a, b) = <<Minus(total, idle), total>>
  BY DEF BusyPct
<1> QED BY <1>3, <1>4, <1>5

\* No part is more than the whole.
LEMMA BreakdownIsBounded ==
  ASSUME NEW a \in [Times -> Nat], NEW b \in [Times -> Nat]
  PROVE  /\ DOMAIN Breakdown(a, b) = {"user", "system", "iowait", "steal", "idle"}
         /\ \A p \in DOMAIN Breakdown(a, b) : Breakdown(a, b)[p] \in 0 .. BusyPct(a, b)[2]
<1> DEFINE total == Minus(TotalJiffies(b), TotalJiffies(a))
           names == {"user", "system", "iowait", "steal", "idle"}
<1>1. total = BusyPct(a, b)[2] /\ total \in Nat
  BY BusyIsAPercentage
<1>2. \A t \in [Times -> Nat] : DOMAIN Parts(t) = names /\ \A p \in names : Parts(t)[p] \in Nat
  BY TimesOf DEF Parts
<1>3. \A p \in names : AtMost(Minus(Parts(b)[p], Parts(a)[p]), total) \in 0 .. total
  BY <1>1, <1>2 DEF AtMost, Minus
<1>4. Breakdown(a, b) = [p \in names |-> AtMost(Minus(Parts(b)[p], Parts(a)[p]), total)]
  BY <1>2 DEF Breakdown
<1> HIDE DEF total, names
<1> QED BY <1>1, <1>3, <1>4 DEF names

\* When no counter went back, all of the time is accounted for.
LEMMA MinusIs ==
  ASSUME NEW x \in Nat, NEW y \in Nat, x >= y
  PROVE  Minus(x, y) = x - y
BY DEF Minus

\* When no counter goes back the parts are the whole.
LEMMA BreakdownAddsUp ==
  ASSUME NEW a \in [Times -> Nat], NEW b \in [Times -> Nat], \A t \in Times : b[t] >= a[t]
  PROVE  LET d == Breakdown(a, b) busy == BusyPct(a, b) IN
         /\ d.user + d.system + d.iowait + d.steal + d.idle = busy[2]
         /\ busy[1] = d.user + d.system + d.steal
<1>1. /\ b.user >= a.user /\ b.nice >= a.nice /\ b.system >= a.system /\ b.idle >= a.idle
      /\ b.iowait >= a.iowait /\ b.irq >= a.irq /\ b.softirq >= a.softirq /\ b.steal >= a.steal
  BY DEF Times
<1> DEFINE total == TotalJiffies(b) - TotalJiffies(a)
           user == b.user - a.user + (b.nice - a.nice)
           system == b.system - a.system + (b.irq - a.irq) + (b.softirq - a.softirq)
           iowait == b.iowait - a.iowait
           steal == b.steal - a.steal
           idle == b.idle - a.idle
<1>2. /\ user \in Nat /\ system \in Nat /\ iowait \in Nat /\ steal \in Nat /\ idle \in Nat
      /\ total = user + system + iowait + steal + idle
  BY <1>1, TimesOf DEF TotalJiffies
<1>3. Minus(TotalJiffies(b), TotalJiffies(a)) = total
  <2>1. TotalJiffies(a) \in Nat /\ TotalJiffies(b) \in Nat
    BY TimesOf DEF TotalJiffies
  <2>2. TotalJiffies(b) >= TotalJiffies(a)
    <3>1. total \in Nat
      BY <1>2
    <3> QED BY <2>1, <3>1
  <2> QED BY <2>1, <2>2, MinusIs
<1>4. Minus(IdleJiffies(b), IdleJiffies(a)) = idle + iowait
  BY <1>1, TimesOf DEF IdleJiffies, Minus
<1>5. BusyPct(a, b) = <<Minus(total, idle + iowait), total>>
  BY <1>3, <1>4 DEF BusyPct
<1>6. /\ Minus(Parts(b).user, Parts(a).user) = user /\ Minus(Parts(b).system, Parts(a).system) = system
      /\ Minus(Parts(b).iowait, Parts(a).iowait) = iowait /\ Minus(Parts(b).steal, Parts(a).steal) = steal
      /\ Minus(Parts(b).idle, Parts(a).idle) = idle
  <2>1. /\ a.user + a.nice \in Nat /\ a.system + a.irq + a.softirq \in Nat /\ a.iowait \in Nat
        /\ a.steal \in Nat /\ a.idle \in Nat
        /\ b.user + b.nice \in Nat /\ b.system + b.irq + b.softirq \in Nat /\ b.iowait \in Nat
        /\ b.steal \in Nat /\ b.idle \in Nat
    BY TimesOf
  <2>2. /\ Minus(b.user + b.nice, a.user + a.nice) = b.user + b.nice - (a.user + a.nice)
        /\ Minus(b.system + b.irq + b.softirq, a.system + a.irq + a.softirq)
             = b.system + b.irq + b.softirq - (a.system + a.irq + a.softirq)
        /\ Minus(b.iowait, a.iowait) = iowait /\ Minus(b.steal, a.steal) = steal
        /\ Minus(b.idle, a.idle) = idle
    BY <1>1, <2>1, TimesOf DEF Minus
  <2>3. /\ b.user + b.nice - (a.user + a.nice) = user
        /\ b.system + b.irq + b.softirq - (a.system + a.irq + a.softirq) = system
    BY TimesOf
  <2> QED BY <2>2, <2>3 DEF Parts
<1>7. \A p \in {"user", "system", "iowait", "steal", "idle"} :
        Breakdown(a, b)[p] = AtMost(Minus(Parts(b)[p], Parts(a)[p]), total)
  BY <1>3 DEF Breakdown, Parts
<1> HIDE DEF total, user, system, iowait, steal, idle
<1>8. /\ AtMost(user, total) = user /\ AtMost(system, total) = system /\ AtMost(iowait, total) = iowait
      /\ AtMost(steal, total) = steal /\ AtMost(idle, total) = idle
      /\ Minus(total, idle + iowait) = user + system + steal
  BY <1>2 DEF AtMost, Minus
<1>9. /\ Breakdown(a, b).user = user /\ Breakdown(a, b).system = system
      /\ Breakdown(a, b).iowait = iowait /\ Breakdown(a, b).steal = steal /\ Breakdown(a, b).idle = idle
  BY <1>6, <1>7, <1>8
<1>10. BusyPct(a, b)[1] = user + system + steal /\ BusyPct(a, b)[2] = total
  BY <1>5, <1>8
<1> QED BY <1>2, <1>9, <1>10

\* Every percentage is one and the parts of the CPU's time add up (busy_pct and
\* breakdown, proc.rs:105).
THEOREM PercentagesAddUpCorrect == Spec => []PercentagesAddUp
<1>1. Inv => PercentagesAddUp
  <2> SUFFICES ASSUME Inv, plane = "stat", Two PROVE PercentagesAddUp
    BY DEF PercentagesAddUp
  <2> DEFINE a == ParseStat(before)
             b == ParseStat(lines)
  <2>1. /\ a.aggregate \in [Times -> Nat] /\ a.cores \in Seq([Times -> Nat])
        /\ b.aggregate \in [Times -> Nat] /\ b.cores \in Seq([Times -> Nat])
    BY StatTyped DEF Inv
  <2> HIDE DEF a, b
  <2>2. \A p \in Range(CorePcts(a, b)) : p[1] \in 0 .. p[2]
    <3>1. DOMAIN a.cores = 1..Len(a.cores) /\ DOMAIN b.cores = 1..Len(b.cores)
          /\ Len(a.cores) \in Nat /\ Len(b.cores) \in Nat
      BY <2>1
    <3>2. ASSUME NEW n \in 1 .. AtMost(Len(a.cores), Len(b.cores))
          PROVE  BusyPct(a.cores[n], b.cores[n])[1] \in 0 .. BusyPct(a.cores[n], b.cores[n])[2]
      <4>1. n \in 1..Len(a.cores) /\ n \in 1..Len(b.cores)
        <5> DEFINE x == Len(a.cores)
                   y == Len(b.cores)
        <5>1. x \in Nat /\ y \in Nat /\ n \in 1 .. AtMost(x, y)
          BY <3>1
        <5> HIDE DEF x, y
        <5>2. n \in 1..x /\ n \in 1..y
          BY <5>1 DEF AtMost
        <5> QED BY <5>2 DEF x, y
      <4>2. a.cores[n] \in [Times -> Nat] /\ b.cores[n] \in [Times -> Nat]
        <5>1. \A c \in Seq([Times -> Nat]) : \A m \in 1..Len(c) : c[m] \in [Times -> Nat]
          OBVIOUS
        <5> QED BY <2>1, <4>1, <5>1, Zenon
      <4> QED BY <4>2, BusyIsAPercentage
    <3> QED BY <3>2 DEF CorePcts, Range
  <2>3. BusyPct(a.aggregate, b.aggregate)[1] \in 0 .. BusyPct(a.aggregate, b.aggregate)[2]
    BY <2>1, BusyIsAPercentage
  <2>4. \A part \in Range(Breakdown(a.aggregate, b.aggregate)) :
          part \in 0 .. BusyPct(a.aggregate, b.aggregate)[2]
    <3>1. \A p \in DOMAIN Breakdown(a.aggregate, b.aggregate) :
            Breakdown(a.aggregate, b.aggregate)[p] \in 0 .. BusyPct(a.aggregate, b.aggregate)[2]
      BY <2>1, BreakdownIsBounded
    <3> QED BY <3>1 DEF Range
  <2>5. (\A t \in Times : b.aggregate[t] >= a.aggregate[t]) =>
          LET d == Breakdown(a.aggregate, b.aggregate) busy == BusyPct(a.aggregate, b.aggregate) IN
          /\ d.user + d.system + d.iowait + d.steal + d.idle = busy[2]
          /\ busy[1] = d.user + d.system + d.steal
    BY <2>1, BreakdownAddsUp
  <2> QED BY <2>2, <2>3, <2>4, <2>5 DEF PercentagesAddUp, a, b
<1> QED BY <1>1, InputsCorrect, PTL

-----------------------------------------------------------------------------
(* Ranks.  In a finite set with a strict total order, R being the pairs of *)
(* one element and another it is ahead of, each number below the size of   *)
(* the set is the rank of one element.                                     *)

Ordered(S, R) ==
  /\ IsFiniteSet(S)
  /\ \A x \in S : <<x, x>> \notin R
  /\ \A x, y \in S : x # y => <<x, y>> \in R \/ <<y, x>> \in R
  /\ \A x, y, z \in S : <<x, y>> \in R /\ <<y, z>> \in R => <<x, z>> \in R

Ahead(S, R, x) == {y \in S : <<y, x>> \in R}
Rank(S, R, x) == Cardinality(Ahead(S, R, x))

\* Who is ahead has the smaller rank.
LEMMA RanksGrow ==
  ASSUME NEW S, NEW R, Ordered(S, R), NEW x \in S, NEW y \in S, <<y, x>> \in R
  PROVE  Rank(S, R, y) < Rank(S, R, x)
<1>1. Ahead(S, R, y) \in SUBSET Ahead(S, R, x) /\ Ahead(S, R, x) \in SUBSET S
  BY DEF Ordered, Ahead
<1>2. IsFiniteSet(Ahead(S, R, x))
  BY <1>1, FS_Subset DEF Ordered
<1>3. y \in Ahead(S, R, x) /\ y \notin Ahead(S, R, y)
  BY DEF Ordered, Ahead
<1>4. /\ Cardinality(Ahead(S, R, y)) <= Cardinality(Ahead(S, R, x))
      /\ Cardinality(Ahead(S, R, x)) = Cardinality(Ahead(S, R, y)) => Ahead(S, R, x) = Ahead(S, R, y)
  BY <1>1, <1>2, FS_Subset
<1>5. Cardinality(Ahead(S, R, x)) # Cardinality(Ahead(S, R, y))
  BY <1>3, <1>4
<1>6. Cardinality(Ahead(S, R, x)) \in Nat /\ Cardinality(Ahead(S, R, y)) \in Nat
  BY <1>1, <1>2, FS_Subset, FS_CardinalityType
<1> QED BY <1>4, <1>5, <1>6 DEF Rank

\* Ranks are numbers below the size of the set.
LEMMA RankBelow ==
  ASSUME NEW S, NEW R, Ordered(S, R), NEW x \in S
  PROVE  Rank(S, R, x) \in Nat /\ Cardinality(S) \in Nat /\ Rank(S, R, x) < Cardinality(S)
<1>1. Ahead(S, R, x) \in SUBSET S /\ x \notin Ahead(S, R, x)
  BY DEF Ordered, Ahead
<1>2. IsFiniteSet(S)
  BY DEF Ordered
<1>3. /\ IsFiniteSet(Ahead(S, R, x)) /\ Cardinality(Ahead(S, R, x)) <= Cardinality(S)
      /\ Cardinality(S) = Cardinality(Ahead(S, R, x)) => S = Ahead(S, R, x)
  BY <1>1, <1>2, FS_Subset
<1>4. Cardinality(S) # Cardinality(Ahead(S, R, x))
  BY <1>1, <1>3
<1>5. Cardinality(S) \in Nat /\ Cardinality(Ahead(S, R, x)) \in Nat
  BY <1>2, <1>3, FS_CardinalityType
<1> QED BY <1>3, <1>4, <1>5 DEF Rank

\* No two have the same rank.
LEMMA RanksDiffer ==
  ASSUME NEW S, NEW R, Ordered(S, R), NEW x \in S, NEW y \in S, Rank(S, R, x) = Rank(S, R, y)
  PROVE  x = y
<1>1. Rank(S, R, x) \in Nat /\ Rank(S, R, y) \in Nat
  BY RankBelow
<1>2. CASE <<x, y>> \in R
  BY <1>1, <1>2, RanksGrow
<1>3. CASE <<y, x>> \in R
  BY <1>1, <1>3, RanksGrow
<1> QED BY <1>2, <1>3 DEF Ordered

\* Every rank is somebody's.
LEMMA RanksReach ==
  ASSUME NEW S, NEW R, Ordered(S, R), NEW k \in 0 .. Cardinality(S) - 1
  PROVE  \E x \in S : Rank(S, R, x) = k
<1> DEFINE N == Cardinality(S)
           T == (0 .. N - 1) \ {k}
           f == [x \in S |-> Rank(S, R, x)]
<1>1. IsFiniteSet(S) /\ N \in Nat
  BY FS_CardinalityType DEF Ordered
<1>2. IsFiniteSet(T) /\ Cardinality(T) = N - 1
  <2>1. k \in 0 .. N - 1 /\ N - 1 \in Int /\ 0 <= N - 1
    BY <1>1
  <2> DEFINE I == 0 .. N - 1
  <2>2. IsFiniteSet(I) /\ Cardinality(I) = N
    BY <1>1, <2>1, FS_Interval
  <2>3. k \in I /\ T = I \ {k}
    BY <2>1
  <2> HIDE DEF I, T, N
  <2> QED BY <2>2, <2>3, FS_RemoveElement
<1>3. SUFFICES ASSUME \A x \in S : Rank(S, R, x) # k PROVE FALSE
  OBVIOUS
<1>4. f \in [S -> T]
  <2>1. \A x \in S : Rank(S, R, x) \in 0 .. N - 1
    BY <1>1, RankBelow
  <2> QED BY <1>3, <2>1
<1>5. Cardinality(T) < Cardinality(S)
  BY <1>1, <1>2
<1> HIDE DEF T, f
<1>6. PICK x \in S, y \in S : x # y /\ f[x] = f[y]
  BY <1>1, <1>2, <1>4, <1>5, FS_PigeonHole
<1>7. Rank(S, R, x) = Rank(S, R, y)
  BY <1>6 DEF f
<1> QED BY <1>6, <1>7, RanksDiffer

\* The elements of a rank below n are n, if there is one more, and ahead of it.
LEMMA FirstOnes ==
  ASSUME NEW S, NEW R, Ordered(S, R), NEW n \in Nat, NEW x \in S, ~(Rank(S, R, x) < n)
  PROVE  LET T == {y \in S : Rank(S, R, y) < n} IN
         IsFiniteSet(T) /\ Cardinality(T) >= n /\ T \subseteq Ahead(S, R, x)
<1> DEFINE T == {y \in S : Rank(S, R, y) < n}
           at == [k \in 1..n |-> CHOOSE y \in S : Rank(S, R, y) = k - 1]
<1>1. IsFiniteSet(S) /\ Rank(S, R, x) \in Nat /\ Rank(S, R, x) < Cardinality(S) /\ Cardinality(S) \in Nat
  BY RankBelow DEF Ordered
<1>2. T \in SUBSET S
  OBVIOUS
<1>3. IsFiniteSet(T)
  BY <1>1, <1>2, FS_Subset
<1>4. ASSUME NEW k \in 1..n PROVE at[k] \in S /\ Rank(S, R, at[k]) = k - 1
  <2>1. k - 1 \in 0 .. Cardinality(S) - 1
    BY <1>1
  <2>2. \E y \in S : Rank(S, R, y) = k - 1
    BY <2>1, RanksReach
  <2> QED BY <2>2
<1>5. \A k \in 1..n : at[k] \in T
  <2> TAKE k \in 1..n
  <2>1. k - 1 < n
    OBVIOUS
  <2> QED BY <1>4, <2>1
<1>6. \A j, k \in 1..n : at[j] = at[k] => j = k
  <2> SUFFICES ASSUME NEW j \in 1..n, NEW k \in 1..n, at[j] = at[k] PROVE j = k
    OBVIOUS
  <2>1. j - 1 = k - 1
    BY <1>4
  <2> QED BY <2>1
<1>7. at \in [1..n -> T]
  BY <1>5
<1> HIDE DEF T, at
<1>8. at \in Injection(1..n, T)
  BY <1>6, <1>7 DEF Injection, IsInjective
<1>9. Cardinality(1..n) <= Cardinality(T) /\ Cardinality(1..n) = n
  <2>1. Cardinality(1..n) = n
    BY FS_Interval
  <2> QED BY <1>3, <1>8, <2>1, FS_Injection
<1>10. Cardinality(T) >= n
  <2>1. Cardinality(T) \in Nat
    BY <1>3, FS_CardinalityType
  <2> QED BY <1>9, <2>1
<1>11. ASSUME NEW y \in T PROVE y \in Ahead(S, R, x)
  <2>1. y \in S /\ Rank(S, R, y) < n /\ Rank(S, R, y) \in Nat
    BY RankBelow DEF T
  <2>2. y # x
    BY <1>1, <2>1
  <2>3. <<x, y>> \notin R
    BY <1>1, <2>1, RanksGrow
  <2> QED BY <2>1, <2>2, <2>3 DEF Ordered, Ahead
<1> QED BY <1>3, <1>10, <1>11 DEF T

-----------------------------------------------------------------------------
(* The ranking of processes. *)

\* What is mapped one to one is no more than what it is mapped to.
LEMMA InjectionCounts ==
  ASSUME NEW S, NEW T, IsFiniteSet(T), NEW f \in [S -> T],
         \A x, y \in S : f[x] = f[y] => x = y
  PROVE  IsFiniteSet(S) /\ Cardinality(S) <= Cardinality(T)
         /\ Cardinality(S) \in Nat /\ Cardinality(T) \in Nat
<1>1. f \in Injection(S, T)
  BY DEF Injection, IsInjective
<1>2. IsFiniteSet(S) /\ Cardinality(S) <= Cardinality(T)
  BY <1>1, FS_Injection
<1> QED BY <1>2, FS_CardinalityType

\* Either the n first leave nobody out, or they are n and ahead of whoever is out.
LEMMA TopOfIs ==
  ASSUME NEW S, IsFiniteSet(S), S \subseteq Nat \X Nat, NEW n \in Nat
  PROVE  /\ TopOf(S, n) \subseteq S
         /\ \A p \in S \ TopOf(S, n) :
              /\ IsFiniteSet(TopOf(S, n)) /\ Cardinality(TopOf(S, n)) >= n
              /\ \A q \in TopOf(S, n) : q[1] >= p[1]
<1> DEFINE R == {s \in S \X S : Above(s[1], s[2])}
<1>1. \A x \in S : x[1] \in Nat /\ x[2] \in Nat /\ x = <<x[1], x[2]>>
  OBVIOUS
<1>2. \A x, y \in S : <<x, y>> \in R <=> Above(x, y)
  OBVIOUS
<1> HIDE DEF R
<1>3. Ordered(S, R)
  BY <1>1, <1>2 DEF Ordered, Above
<1>4. \A p \in S : {q \in S : Above(q, p)} = Ahead(S, R, p)
  BY <1>2 DEF Ahead
<1>5. TopOf(S, n) = {y \in S : Rank(S, R, y) < n}
  BY <1>4 DEF TopOf, Rank
<1>6. ASSUME NEW p \in S \ TopOf(S, n)
      PROVE  /\ IsFiniteSet(TopOf(S, n)) /\ Cardinality(TopOf(S, n)) >= n
             /\ \A q \in TopOf(S, n) : q[1] >= p[1]
  <2>1. ~(Rank(S, R, p) < n)
    BY <1>5
  <2>2. /\ IsFiniteSet(TopOf(S, n)) /\ Cardinality(TopOf(S, n)) >= n
        /\ TopOf(S, n) \subseteq Ahead(S, R, p)
    BY <1>3, <1>5, <2>1, FirstOnes
  <2>3. \A q \in Ahead(S, R, p) : q \in S /\ Above(q, p)
    BY <1>2 DEF Ahead
  <2>4. \A q \in Ahead(S, R, p) : q[1] >= p[1]
    BY <1>1, <2>3 DEF Above
  <2> QED BY <2>2, <2>4
<1> QED BY <1>5, <1>6

\* A snapshot is a finite table of what /proc says.
Table(t) ==
  /\ IsFiniteSet(DOMAIN t) /\ DOMAIN t \subseteq Nat
  /\ \A p \in DOMAIN t : t[p].start \in Nat /\ t[p].jiffies \in Nat /\ t[p].rss \in Nat

\* A snapshot is a table of counters by pid.
LEMMA SnapshotIs ==
  ASSUME "snapshot" \in DOMAIN LinesOf, NEW rows \in Seq(LinesOf["snapshot"])
  PROVE  Table(Snapshot(rows))
<1> DEFINE pids == {l.pid : l \in Range(rows)}
           f == [n \in 1..Len(rows) |-> rows[n].pid]
<1>1. \A l \in Range(rows) : {l.pid, l.start, l.jiffies, l.rss} \subseteq Nat
  <2>1. \A l \in Range(rows) : l \in LinesOf["snapshot"]
    BY InRange
  <2>2. \A l \in Range(rows) : HasNumbers(l) /\ l.tag = "pid"
    BY <2>1, LineTypes
  <2> QED BY <2>2 DEF HasNumbers
<1>2. IsFiniteSet(pids)
  <2>1. IsFiniteSet(1..Len(rows))
    <3>1. Len(rows) \in Nat
      OBVIOUS
    <3> QED BY <3>1, FS_Interval
  <2>2. DOMAIN rows = 1..Len(rows)
    OBVIOUS
  <2>3. f \in Surjection(1..Len(rows), pids)
    <3>1. f \in [1..Len(rows) -> pids]
      BY <2>2, InRange
    <3>2. \A p \in pids : \E n \in 1..Len(rows) : f[n] = p
      BY <2>2, InRange
    <3> HIDE DEF f, pids
    <3> QED BY <3>1, <3>2 DEF Surjection
  <2> HIDE DEF f, pids
  <2> QED BY <2>1, <2>3, FS_Surjection
<1>3. DOMAIN Snapshot(rows) = pids
  BY DEF Snapshot
<1>4. pids \subseteq Nat
  BY <1>1
<1>5. \A p \in pids : Snapshot(rows)[p] \in Range(rows)
  <2> TAKE p \in pids
  <2>1. \E l \in Range(rows) : l.pid = p
    OBVIOUS
  <2>2. Snapshot(rows)[p] = CHOOSE l \in Range(rows) : l.pid = p
    BY DEF Snapshot
  <2> HIDE DEF pids
  <2> QED BY <2>1, <2>2
<1> HIDE DEF pids
<1> QED BY <1>1, <1>2, <1>3, <1>4, <1>5 DEF Table

\* What a process used in the window.
Used(a, b, p) ==
  IF p \in DOMAIN a /\ a[p].start = b[p].start THEN Minus(b[p].jiffies, a[p].jiffies) ELSE 0

Busy(a, b) == {q \in DOMAIN b : SameProcess(a, b, q) /\ b[q].jiffies > a[q].jiffies}
ByUse(a, b) == {<<b[q].jiffies - a[q].jiffies, q>> : q \in Busy(a, b)}
BySize(b) == {<<b[q].rss, q>> : q \in DOMAIN b}

\* What the ranking goes by.
LEMMA KeysAre ==
  ASSUME NEW a, NEW b, Table(a), Table(b)
  PROVE  /\ \A q \in Busy(a, b) : Used(a, b, q) = b[q].jiffies - a[q].jiffies /\ Used(a, b, q) \in Nat \ {0}
         /\ \A q \in DOMAIN b \ Busy(a, b) : Used(a, b, q) = 0
         /\ ByUse(a, b) = {<<Used(a, b, q), q>> : q \in Busy(a, b)}
         /\ IsFiniteSet(ByUse(a, b)) /\ ByUse(a, b) \subseteq Nat \X Nat
         /\ IsFiniteSet(BySize(b)) /\ BySize(b) \subseteq Nat \X Nat
<1>1. \A q \in Busy(a, b) : Used(a, b, q) = b[q].jiffies - a[q].jiffies /\ Used(a, b, q) \in Nat \ {0}
  BY DEF Table, Busy, Used, SameProcess, Minus
<1>2. \A q \in DOMAIN b \ Busy(a, b) : Used(a, b, q) = 0
  BY DEF Table, Busy, Used, SameProcess, Minus
<1>3. ByUse(a, b) = {<<Used(a, b, q), q>> : q \in Busy(a, b)}
  BY <1>1 DEF ByUse
<1>4. Busy(a, b) \subseteq DOMAIN b /\ DOMAIN b \subseteq Nat
  BY DEF Busy, Table
<1>5. ByUse(a, b) \subseteq Nat \X Nat
  BY <1>1, <1>3, <1>4
<1>6. BySize(b) \subseteq Nat \X Nat
  BY DEF BySize, Table
<1>7. ASSUME NEW S, NEW k, S = {<<k[q], q>> : q \in DOMAIN k}, DOMAIN k \subseteq DOMAIN b
      PROVE  IsFiniteSet(S)
  <2> DEFINE f == [x \in S |-> x[2]]
  <2>1. f \in [S -> DOMAIN b] /\ \A x, y \in S : f[x] = f[y] => x = y
    BY <1>7
  <2> HIDE DEF f
  <2> QED BY <2>1, InjectionCounts DEF Table
<1>8. IsFiniteSet(ByUse(a, b))
  <2> DEFINE k == [q \in Busy(a, b) |-> Used(a, b, q)]
  <2>1. DOMAIN k = Busy(a, b) /\ ByUse(a, b) = {<<k[q], q>> : q \in DOMAIN k}
    BY <1>3
  <2> HIDE DEF k
  <2> QED BY <1>4, <1>7, <2>1
<1>9. IsFiniteSet(BySize(b))
  <2> DEFINE k == [q \in DOMAIN b |-> b[q].rss]
  <2>1. DOMAIN k = DOMAIN b /\ BySize(b) = {<<k[q], q>> : q \in DOMAIN k}
    BY DEF BySize
  <2> HIDE DEF k
  <2> QED BY <1>7, <2>1
<1> QED BY <1>1, <1>2, <1>3, <1>5, <1>6, <1>8, <1>9

\* The two halves of a ranking.
First(a, b, n) == TopOf(ByUse(a, b), n)
Second(b, n) == TopOf(BySize(b), n)
Listed(a, b, n) == {r[1] : r \in Ranked(a, b, n)}

\* What a pair of the first half is, one of the second, and a row of the ranking.
BusyPair(a, b, n, p) ==
  /\ p = <<Used(a, b, p[2]), p[2]>> /\ p[2] \in Busy(a, b) /\ p[2] \in DOMAIN b
  /\ <<p[2], p[1]>> \in Ranked(a, b, n)
LargePair(a, b, n, p) == p = <<b[p[2]].rss, p[2]>> /\ p[2] \in DOMAIN b /\ p[2] \in Listed(a, b, n)
Row(a, b, n, r) ==
  /\ r = <<r[1], r[2]>> /\ r[1] \in DOMAIN b
  /\ \/ r[2] = Used(a, b, r[1]) /\ <<r[2], r[1]>> \in First(a, b, n)
     \/ r[2] = 0 /\ \A p \in First(a, b, n) : p[2] # r[1]

\* Where each entry of the ranking comes from.
LEMMA RankedIs ==
  ASSUME NEW a, NEW b, Table(a), Table(b), NEW n \in Nat
  PROVE  /\ First(a, b, n) \subseteq ByUse(a, b) /\ Second(b, n) \subseteq BySize(b)
         /\ \A p \in First(a, b, n) : BusyPair(a, b, n, p)
         /\ \A p \in Second(b, n) : LargePair(a, b, n, p)
         /\ \A r \in Ranked(a, b, n) : Row(a, b, n, r)
<1>1. First(a, b, n) \subseteq ByUse(a, b) /\ Second(b, n) \subseteq BySize(b)
  BY KeysAre, TopOfIs DEF First, Second
<1>2. \A p \in ByUse(a, b) : p = <<Used(a, b, p[2]), p[2]>> /\ p[2] \in Busy(a, b) /\ p[2] \in DOMAIN b
  BY KeysAre DEF Busy
<1>3. \A p \in BySize(b) : p = <<b[p[2]].rss, p[2]>> /\ p[2] \in DOMAIN b
  BY DEF BySize
<1> DEFINE charged == {p[2] : p \in First(a, b, n)}
<1>4. Ranked(a, b, n) = {<<p[2], p[1]>> : p \in First(a, b, n)}
                          \cup {<<p[2], 0>> : p \in {m \in Second(b, n) : m[2] \notin charged}}
  BY DEF Ranked, First, Second, ByUse, BySize, Busy
<1>5. \A p \in First(a, b, n) : <<p[2], p[1]>> \in Ranked(a, b, n)
  BY <1>4
<1>6. ASSUME NEW p \in Second(b, n) PROVE p[2] \in Listed(a, b, n)
  <2>1. CASE p[2] \in charged
    <3>1. PICK q \in First(a, b, n) : q[2] = p[2]
      BY <2>1
    <3>2. <<q[2], q[1]>> \in Ranked(a, b, n)
      BY <1>5
    <3> QED BY <3>1, <3>2 DEF Listed
  <2>2. CASE p[2] \notin charged
    <3>1. <<p[2], 0>> \in Ranked(a, b, n)
      BY <1>4, <2>2
    <3> QED BY <3>1 DEF Listed
  <2> QED BY <2>1, <2>2
<1>7. ASSUME NEW r \in Ranked(a, b, n)
      PROVE  /\ r = <<r[1], r[2]>> /\ r[1] \in DOMAIN b
             /\ \/ r[2] = Used(a, b, r[1]) /\ <<r[2], r[1]>> \in First(a, b, n)
                \/ r[2] = 0 /\ \A p \in First(a, b, n) : p[2] # r[1]
  <2>1. CASE r \in {<<p[2], p[1]>> : p \in First(a, b, n)}
    <3>1. PICK p \in First(a, b, n) : r = <<p[2], p[1]>>
      BY <2>1
    <3> QED BY <1>1, <1>2, <3>1
  <2>2. CASE r \in {<<p[2], 0>> : p \in {m \in Second(b, n) : m[2] \notin charged}}
    <3>1. PICK p \in Second(b, n) : p[2] \notin charged /\ r = <<p[2], 0>>
      BY <2>2
    <3>2. \A q \in First(a, b, n) : q[2] # p[2]
      BY <3>1
    <3> QED BY <1>1, <1>3, <3>1, <3>2
  <2> QED BY <1>4, <2>1, <2>2
<1>8. \A p \in First(a, b, n) : BusyPair(a, b, n, p)
  BY <1>1, <1>2, <1>5 DEF BusyPair
<1>9. \A p \in Second(b, n) : LargePair(a, b, n, p)
  BY <1>1, <1>3, <1>6 DEF LargePair
<1>10. \A r \in Ranked(a, b, n) : Row(a, b, n, r)
  BY <1>7 DEF Row
<1> QED BY <1>1, <1>8, <1>9, <1>10

\* No process is listed twice, and none with what it did not use.
LEMMA ListedOnce ==
  ASSUME NEW a, NEW b, Table(a), Table(b), NEW n \in Nat
  PROVE  /\ \A r, s \in Ranked(a, b, n) : r[1] = s[1] => r = s
         /\ \A r \in Ranked(a, b, n) : r[2] \in {0, Used(a, b, r[1])}
         /\ IsFiniteSet(Ranked(a, b, n)) /\ Listed(a, b, n) \subseteq DOMAIN b
         /\ \A r \in Ranked(a, b, n) : r[2] \in Nat
<1>1. \A r \in Ranked(a, b, n) : /\ r = <<r[1], r[2]>> /\ r[1] \in DOMAIN b
                                 /\ \/ r[2] = Used(a, b, r[1]) /\ <<r[2], r[1]>> \in First(a, b, n)
                                    \/ r[2] = 0 /\ \A p \in First(a, b, n) : p[2] # r[1]
  <2>1. \A r \in Ranked(a, b, n) : Row(a, b, n, r)
    BY RankedIs
  <2> QED BY <2>1 DEF Row
<1>2. \A r, s \in Ranked(a, b, n) : r[1] = s[1] => r = s
  <2> SUFFICES ASSUME NEW r \in Ranked(a, b, n), NEW s \in Ranked(a, b, n), r[1] = s[1] PROVE r[2] = s[2]
    BY <1>1
  <2> QED BY <1>1
<1>3. IsFiniteSet(Ranked(a, b, n))
  <2> DEFINE f == [r \in Ranked(a, b, n) |-> r[1]]
  <2>1. f \in [Ranked(a, b, n) -> DOMAIN b]
    BY <1>1
  <2>2. \A r, s \in Ranked(a, b, n) : f[r] = f[s] => r = s
    BY <1>2
  <2> HIDE DEF f
  <2> QED BY <2>1, <2>2, InjectionCounts DEF Table
<1>4. \A q \in DOMAIN b : Used(a, b, q) \in Nat
  <2>1. /\ \A q \in Busy(a, b) : Used(a, b, q) \in Nat \ {0}
        /\ \A q \in DOMAIN b \ Busy(a, b) : Used(a, b, q) = 0
    BY KeysAre, Zenon
  <2> QED BY <2>1
<1>5. \A r \in Ranked(a, b, n) : r[2] \in {0, Used(a, b, r[1])} /\ r[2] \in Nat
  <2> TAKE r \in Ranked(a, b, n)
  <2>1. r[1] \in DOMAIN b /\ (r[2] = Used(a, b, r[1]) \/ r[2] = 0)
    BY <1>1
  <2> QED BY <1>4, <2>1
<1>6. Listed(a, b, n) \subseteq DOMAIN b
  BY <1>1 DEF Listed
<1> QED BY <1>2, <1>3, <1>5, <1>6

\* Whoever is left out has n ahead of it that used as much.
LEMMA BusierThan ==
  ASSUME NEW a, NEW b, Table(a), Table(b), NEW n \in Nat, NEW p \in DOMAIN b \ Listed(a, b, n)
  PROVE  Cardinality({r \in Ranked(a, b, n) : r[2] >= Used(a, b, p)}) >= n
<1> DEFINE out == {r \in Ranked(a, b, n) : r[2] >= Used(a, b, p)}
<1>1. IsFiniteSet(out)
  <2>1. out \in SUBSET Ranked(a, b, n)
    OBVIOUS
  <2> QED BY <2>1, ListedOnce, FS_Subset
<1>2. CASE p \in Busy(a, b)
  <2> DEFINE x == <<Used(a, b, p), p>>
             f == [q \in First(a, b, n) |-> <<q[2], q[1]>>]
  <2>1. x \in ByUse(a, b)
    BY <1>2, KeysAre
  <2>2. x \notin First(a, b, n)
    <3> SUFFICES ASSUME x \in First(a, b, n) PROVE FALSE
      OBVIOUS
    <3>1. <<x[2], x[1]>> \in Ranked(a, b, n) /\ x[2] = p
      BY RankedIs DEF BusyPair
    <3> QED BY <3>1 DEF Listed
  <2>3. /\ IsFiniteSet(First(a, b, n)) /\ Cardinality(First(a, b, n)) >= n
        /\ \A q \in First(a, b, n) : q[1] >= x[1]
    BY <2>1, <2>2, KeysAre, TopOfIs DEF First
  <2>4. \A q \in First(a, b, n) : f[q] \in out
    <3> TAKE q \in First(a, b, n)
    <3>1. <<q[2], q[1]>> \in Ranked(a, b, n) /\ q[1] >= Used(a, b, p)
      BY <2>3, RankedIs DEF BusyPair
    <3> QED BY <3>1
  <2>5. \A q, s \in First(a, b, n) : f[q] = f[s] => q = s
    <3>1. \A q \in First(a, b, n) : q = <<Used(a, b, q[2]), q[2]>>
      <4>1. \A q \in First(a, b, n) : BusyPair(a, b, n, q)
        BY RankedIs
      <4> QED BY <4>1 DEF BusyPair
    <3> QED BY <3>1
  <2>6. f \in [First(a, b, n) -> out]
    BY <2>4
  <2> HIDE DEF f, out
  <2>7. Cardinality(First(a, b, n)) <= Cardinality(out)
        /\ Cardinality(First(a, b, n)) \in Nat /\ Cardinality(out) \in Nat
    BY <1>1, <2>5, <2>6, InjectionCounts
  <2> QED BY <2>3, <2>7 DEF out
<1>3. CASE p \notin Busy(a, b)
  <2> DEFINE x == <<b[p].rss, p>>
             f == [q \in Second(b, n) |-> CHOOSE r \in Ranked(a, b, n) : r[1] = q[2]]
  <2>1. Used(a, b, p) = 0
    BY <1>3, KeysAre
  <2>2. x \in BySize(b)
    BY DEF BySize
  <2>3. x \notin Second(b, n)
    <3> SUFFICES ASSUME x \in Second(b, n) PROVE FALSE
      OBVIOUS
    <3>1. x[2] \in Listed(a, b, n) /\ x[2] = p
      BY RankedIs DEF LargePair
    <3> QED BY <3>1
  <2>4. IsFiniteSet(Second(b, n)) /\ Cardinality(Second(b, n)) >= n
    BY <2>2, <2>3, KeysAre, TopOfIs DEF Second
  <2>5. \A q \in Second(b, n) : f[q] \in Ranked(a, b, n) /\ f[q][1] = q[2]
    <3> TAKE q \in Second(b, n)
    <3>1. \E r \in Ranked(a, b, n) : r[1] = q[2]
      <4>1. q[2] \in Listed(a, b, n)
        BY RankedIs DEF LargePair
      <4> QED BY <4>1 DEF Listed
    <3> QED BY <3>1
  <2>6. \A q \in Second(b, n) : f[q] \in out
    <3>1. \A r \in Ranked(a, b, n) : r[2] >= 0
      BY ListedOnce
    <3> HIDE DEF f
    <3> QED BY <2>1, <2>5, <3>1
  <2>7. \A q, s \in Second(b, n) : f[q] = f[s] => q = s
    <3>1. \A q \in Second(b, n) : q = <<b[q[2]].rss, q[2]>>
      <4>1. \A q \in Second(b, n) : LargePair(a, b, n, q)
        BY RankedIs
      <4> QED BY <4>1 DEF LargePair
    <3> HIDE DEF f
    <3> QED BY <2>5, <3>1
  <2>8. f \in [Second(b, n) -> out]
    BY <2>6
  <2> HIDE DEF f, out
  <2>9. Cardinality(Second(b, n)) <= Cardinality(out)
        /\ Cardinality(Second(b, n)) \in Nat /\ Cardinality(out) \in Nat
    BY <1>1, <2>7, <2>8, InjectionCounts
  <2> QED BY <2>4, <2>9 DEF out
<1> QED BY <1>2, <1>3

\* And n that are as large.
LEMMA LargerThan ==
  ASSUME NEW a, NEW b, Table(a), Table(b), NEW n \in Nat, NEW p \in DOMAIN b \ Listed(a, b, n)
  PROVE  Cardinality({q \in Listed(a, b, n) : b[q].rss >= b[p].rss}) >= n
<1> DEFINE large == {q \in Listed(a, b, n) : b[q].rss >= b[p].rss}
           x == <<b[p].rss, p>>
           f == [q \in Second(b, n) |-> q[2]]
<1>1. IsFiniteSet(large)
  <2>1. large \in SUBSET DOMAIN b
    BY ListedOnce
  <2> QED BY <2>1, FS_Subset DEF Table
<1>2. x \in BySize(b)
  BY DEF BySize
<1>3. x \notin Second(b, n)
  <2> SUFFICES ASSUME x \in Second(b, n) PROVE FALSE
    OBVIOUS
  <2>1. x[2] \in Listed(a, b, n) /\ x[2] = p
    BY RankedIs DEF LargePair
  <2> QED BY <2>1
<1>4. /\ IsFiniteSet(Second(b, n)) /\ Cardinality(Second(b, n)) >= n
      /\ \A q \in Second(b, n) : q[1] >= x[1]
  BY <1>2, <1>3, KeysAre, TopOfIs DEF Second
<1>5. \A q \in Second(b, n) : q = <<b[q[2]].rss, q[2]>> /\ q[2] \in Listed(a, b, n)
  <2>1. \A q \in Second(b, n) : LargePair(a, b, n, q)
    BY RankedIs
  <2> QED BY <2>1 DEF LargePair
<1>6. \A q \in Second(b, n) : q[1] = b[q[2]].rss
  BY <1>5
<1>7. \A q \in Second(b, n) : f[q] \in large
  BY <1>4, <1>5, <1>6
<1>8. \A q, s \in Second(b, n) : f[q] = f[s] => q = s
  BY <1>5
<1>9. f \in [Second(b, n) -> large]
  BY <1>7
<1> HIDE DEF f, large
<1>10. Cardinality(Second(b, n)) <= Cardinality(large)
       /\ Cardinality(Second(b, n)) \in Nat /\ Cardinality(large) \in Nat
  BY <1>1, <1>8, <1>9, InjectionCounts
<1> QED BY <1>4, <1>10 DEF large

\* The ranking charges each process what it used itself, and leaves nobody out who
\* was busier or larger than all who are in (proc_emit, procs.rs:374).
THEOREM RankingIsTrueCorrect == Spec => []RankingIsTrue
<1>1. Inv => RankingIsTrue
  <2> SUFFICES ASSUME Inv, plane = "snapshot", Two PROVE RankingIsTrue
    BY DEF RankingIsTrue
  <2> DEFINE a == Snapshot(before)
             b == Snapshot(lines)
  <2>1. Table(a) /\ Table(b)
    BY SnapshotIs DEF Inv
  <2>2. TopN \in Nat
    BY ParsersAssumption
  <2> HIDE DEF a, b
  <2>3. /\ \A r, s \in Ranked(a, b, TopN) : r[1] = s[1] => r = s
        /\ \A r \in Ranked(a, b, TopN) : r[2] \in {0, Used(a, b, r[1])}
    BY <2>1, <2>2, ListedOnce
  <2>4. \A p \in DOMAIN b \ Listed(a, b, TopN) :
          /\ Cardinality({r \in Ranked(a, b, TopN) : r[2] >= Used(a, b, p)}) >= TopN
          /\ Cardinality({q \in Listed(a, b, TopN) : b[q].rss >= b[p].rss}) >= TopN
    BY <2>1, <2>2, BusierThan, LargerThan
  <2> QED BY <2>3, <2>4 DEF RankingIsTrue, Listed, Used, a, b
<1> QED BY <1>1, InputsCorrect, PTL

-----------------------------------------------------------------------------
(* The rows of the process view. *)

\* The n-th of a sorted sequence is the one of rank n - 1.
Ranks(rows) ==
  {p \in TwoOf(rows) : \/ Before(rows[p[1]], rows[p[2]])
                       \/ ~Before(rows[p[2]], rows[p[1]]) /\ p[1] < p[2]}

\* The sorted rows are the rows, and in order.
LEMMA SortedIs ==
  ASSUME NEW V, NEW rows \in Seq(V), \A r \in Range(rows) : r.cpu \in Nat /\ r.rss \in Nat
  PROVE  /\ Sorted(rows) \in Seq(V) /\ Len(Sorted(rows)) = Len(rows)
         /\ Range(Sorted(rows)) = Range(rows)
         /\ \A m, n \in DOMAIN Sorted(rows) : m < n => ~Before(Sorted(rows)[n], Sorted(rows)[m])
<1> DEFINE S == DOMAIN rows
           R == Ranks(rows)
           place(m) == Cardinality({k \in S : Before(rows[k], rows[m]) \/ (~Before(rows[m], rows[k]) /\ k < m)})
           at(n) == CHOOSE m \in S : place(m) = n - 1
<1>1. S = 1..Len(rows) /\ Len(rows) \in Nat /\ \A n \in S : rows[n] \in V /\ rows[n] \in Range(rows)
  BY InRange
<1>2. \A m, n \in S : <<m, n>> \in R <=> \/ Before(rows[m], rows[n])
                                         \/ ~Before(rows[n], rows[m]) /\ m < n
  BY DEF Ranks, TwoOf
<1>3. \A n \in S : rows[n].cpu \in Nat /\ rows[n].rss \in Nat /\ n \in Nat
  BY <1>1
<1>4. Ordered(S, R)
  <2>1. IsFiniteSet(S) /\ Cardinality(S) = Len(rows)
    BY <1>1, FS_Interval
  <2> HIDE DEF S, R
  <2>2. \A m \in S : <<m, m>> \notin R
    BY <1>2, <1>3 DEF Before
  <2>3. \A m, n \in S : m # n => <<m, n>> \in R \/ <<n, m>> \in R
    BY <1>2, <1>3 DEF Before
  <2>4. \A l, m, n \in S : <<l, m>> \in R /\ <<m, n>> \in R => <<l, n>> \in R
    <3> SUFFICES ASSUME NEW l \in S, NEW m \in S, NEW n \in S, <<l, m>> \in R, <<m, n>> \in R
                 PROVE  <<l, n>> \in R
      OBVIOUS
    <3>1. PICK a, b, c, d, e, f \in Nat : /\ a = rows[l].cpu /\ b = rows[m].cpu /\ c = rows[n].cpu
                                          /\ d = rows[l].rss /\ e = rows[m].rss /\ f = rows[n].rss
      BY <1>3
    <3>2. /\ (a > b \/ (a = b /\ d > e)) \/ (~(b > a \/ (b = a /\ e > d)) /\ l < m)
          /\ (b > c \/ (b = c /\ e > f)) \/ (~(c > b \/ (c = b /\ f > e)) /\ m < n)
      BY <1>2, <3>1 DEF Before
    <3>3. (a > c \/ (a = c /\ d > f)) \/ (~(c > a \/ (c = a /\ f > d)) /\ l < n)
      BY <1>3, <3>2
    <3> QED BY <1>2, <3>1, <3>3 DEF Before
  <2> QED BY <2>1, <2>2, <2>3, <2>4 DEF Ordered
<1>5. Cardinality(S) = Len(rows)
  BY <1>1, FS_Interval
<1>6. \A m \in S : place(m) = Rank(S, R, m)
  <2> TAKE m \in S
  <2>1. {k \in S : Before(rows[k], rows[m]) \/ (~Before(rows[m], rows[k]) /\ k < m)} = Ahead(S, R, m)
    BY <1>2 DEF Ahead
  <2> QED BY <2>1 DEF Rank
<1>7. Sorted(rows) = [n \in S |-> rows[at(n)]]
  BY DEF Sorted
<1> HIDE DEF S, R, place
<1>8. ASSUME NEW n \in S PROVE at(n) \in S /\ Rank(S, R, at(n)) = n - 1
  <2>1. n - 1 \in 0 .. Cardinality(S) - 1
    BY <1>1, <1>5
  <2>2. \E m \in S : Rank(S, R, m) = n - 1
    BY <1>4, <2>1, RanksReach
  <2>3. \E m \in S : place(m) = n - 1
    BY <1>6, <2>2
  <2>4. at(n) \in S /\ place(at(n)) = n - 1
    BY <2>3
  <2> QED BY <1>6, <2>4
<1> HIDE DEF at
<1>9. Sorted(rows) \in Seq(V) /\ Len(Sorted(rows)) = Len(rows) /\ DOMAIN Sorted(rows) = S
  <2>1. \A n \in S : rows[at(n)] \in V
    BY <1>1, <1>8
  <2> QED BY <1>1, <1>7, <2>1
<1>10. Range(Sorted(rows)) = Range(rows)
  <2>1. \A n \in S : Sorted(rows)[n] \in Range(rows)
    BY <1>1, <1>7, <1>8
  <2>2. ASSUME NEW m \in S PROVE \E n \in S : Sorted(rows)[n] = rows[m]
    <3>1. Rank(S, R, m) \in Nat /\ Rank(S, R, m) < Len(rows)
      BY <1>4, <1>5, RankBelow
    <3>2. Rank(S, R, m) + 1 \in S /\ Rank(S, R, m) + 1 - 1 = Rank(S, R, m)
      BY <1>1, <3>1
    <3>3. PICK n \in S : n - 1 = Rank(S, R, m)
      <4>1. PICK n \in S : n = Rank(S, R, m) + 1
        BY <3>2
      <4> QED BY <3>1, <4>1
    <3>4. Rank(S, R, at(n)) = Rank(S, R, m) /\ at(n) \in S
      BY <1>8, <3>3
    <3>5. at(n) = m
      BY <1>4, <3>4, RanksDiffer
    <3> QED BY <1>7, <3>5
  <2>3. \A x \in Range(rows) : \E m \in S : rows[m] = x
    BY InRange DEF S
  <2>4. \A x : x \in Range(Sorted(rows)) <=> \E n \in S : Sorted(rows)[n] = x
    BY <1>9 DEF Range
  <2> QED BY <2>1, <2>2, <2>3, <2>4
<1>11. ASSUME NEW m \in S, NEW n \in S, m < n PROVE ~Before(Sorted(rows)[n], Sorted(rows)[m])
  <2>1. at(m) \in S /\ at(n) \in S /\ Rank(S, R, at(m)) = m - 1 /\ Rank(S, R, at(n)) = n - 1
    BY <1>8
  <2>2. <<at(n), at(m)>> \notin R
    <3> SUFFICES ASSUME <<at(n), at(m)>> \in R PROVE FALSE
      OBVIOUS
    <3>1. Rank(S, R, at(n)) < Rank(S, R, at(m))
      BY <1>4, <2>1, RanksGrow
    <3> QED BY <1>3, <1>11, <2>1, <3>1
  <2>3. ~Before(rows[at(n)], rows[at(m)])
    BY <1>2, <2>1, <2>2
  <2> QED BY <1>7, <2>3
<1> QED BY <1>9, <1>10, <1>11

Said(s, pid, tag) == {l.value : l \in {k \in Of(s, tag) : k.pid = pid}}
FirstOfPid(rows, n) == \A m \in 1 .. n - 1 : rows[m].pid # rows[n].pid

\* A row collects what was said of its pid, and the first of that pid does.
LEMMA CollectedIs ==
  ASSUME NEW V, NEW s \in Seq(V), NEW tag, NEW rows, NEW n
  PROVE  /\ Collected(s, tag, rows, n) = Nothing \/ Collected(s, tag, rows, n) \in Said(s, rows[n].pid, tag)
         /\ FirstOfPid(rows, n) /\ Said(s, rows[n].pid, tag) # {} =>
              Collected(s, tag, rows, n) \in Said(s, rows[n].pid, tag)
<1> DEFINE those == {l \in Of(s, tag) : l.pid = rows[n].pid}
           told == Those(s, those)
<1>1. Collected(s, tag, rows, n) = IF told = <<>> \/ \E m \in 1 .. n - 1 : rows[m].pid = rows[n].pid
                                   THEN Nothing ELSE Last(told).value
  BY DEF Collected
<1>2. told \in Seq(V) /\ Range(told) = those
  <2>1. those \subseteq Range(s)
    BY DEF Of
  <2> HIDE DEF those
  <2>2. Those(s, those) \in Seq(V) /\ Range(Those(s, those)) = Range(s) \cap those
    BY ThoseAre
  <2> QED BY <2>1, <2>2
<1>3. Said(s, rows[n].pid, tag) = {l.value : l \in those}
  BY DEF Said
<1> HIDE DEF those, told
<1>4. told # <<>> => Last(told) \in those
  BY <1>2, InRange
<1>5. told = <<>> => those = {}
  BY <1>2 DEF Range
<1> QED BY <1>1, <1>3, <1>4, <1>5 DEF FirstOfPid

\* Among the rows of a pid there is a first.
LEMMA FirstRow ==
  ASSUME NEW V, NEW rows \in Seq(V), NEW n \in DOMAIN rows
  PROVE  \E m \in DOMAIN rows : rows[m].pid = rows[n].pid /\ FirstOfPid(rows, m)
<1> DEFINE T == {m \in DOMAIN rows : rows[m].pid = rows[n].pid}
<1>1. DOMAIN rows = 1..Len(rows) /\ Len(rows) \in Nat
  OBVIOUS
<1>2. T \subseteq Nat /\ T # {}
  BY <1>1
<1>3. PICK m \in T : \A k \in T : ~(<<k, m>> \in OpToRel(<, Nat))
  BY <1>2, NatLessThanWellFounded, WFMin
<1>4. ASSUME NEW k \in 1 .. m - 1 PROVE rows[k].pid # rows[m].pid
  <2>1. k \in DOMAIN rows /\ k < m /\ k \in Nat /\ m \in Nat
    BY <1>1
  <2>2. <<k, m>> \in OpToRel(<, Nat)
    BY <2>1 DEF OpToRel
  <2> QED BY <1>3, <2>1, <2>2
<1> QED BY <1>3, <1>4 DEF FirstOfPid

\* The denominator is a number.
LEMMA DenominatorIs ==
  ASSUME NEW p \in DOMAIN LinesOf, NEW s \in Seq(LinesOf[p])
  PROVE  Denominator(s) \in Nat
<1> DEFINE headed == {l \in Range(s) : l.tag = "TXPT"}
           told == Those(s, headed)
<1>1. Denominator(s) = IF told = <<>> THEN 0 ELSE OrZero(Last(told).total)
  BY DEF Denominator
<1>2. told \in Seq(LinesOf[p]) /\ Range(told) \subseteq headed
  BY ThoseAre
<1> HIDE DEF told
<1>3. told # <<>> => Last(told) \in headed
  BY <1>2, InRange
<1>4. \A l \in headed : l.total \in {NaN} \cup Nat
  <2>1. \A l \in headed : l \in LinesOf[p] /\ l.tag = "TXPT"
    BY InRange
  <2> QED BY <2>1, Numbers DEF HasNumbers
<1> QED BY <1>1, <1>3, <1>4, OrZeroCounts

\* The rows are lines, and their fields numbers.
LEMMA RowsAre ==
  ASSUME NEW p \in DOMAIN LinesOf, NEW s \in Seq(LinesOf[p])
  PROVE  /\ Rows(s) \in Seq(LinesOf[p])
         /\ \A r \in Range(Rows(s)) : r.delta \in Nat /\ OrZero(r.rss) \in Nat
<1> DEFINE good == {l \in Of(s, "TXP") : NaN \notin {l.pid, l.delta}}
<1>1. Rows(s) \in Seq(LinesOf[p]) /\ Range(Rows(s)) \subseteq good
  BY ThoseAre DEF Rows
<1>2. \A l \in good : l \in LinesOf[p] /\ l.tag = "TXP" /\ l.delta # NaN
  BY InRange DEF Of
<1>3. \A l \in good : l.delta \in Nat /\ OrZero(l.rss) \in Nat
  BY <1>2, Numbers, OrZeroCounts DEF HasNumbers
<1> QED BY <1>1, <1>3

\* The row made of the n-th line, before the rows are sorted.
Made(s, n) ==
  LET rows == Rows(s)
      total == Denominator(s)
      path == Collected(s, "TXO", rows, n)
      cmd  == Collected(s, "TXC", rows, n)
  IN [pid |-> rows[n].pid, cpu |-> AtMost(rows[n].delta, total), rss |-> OrZero(rows[n].rss),
      kernel |-> OrZero(rows[n].rss) = 0 /\ rows[n].comm \in KernelNames,
      cmd |-> IF cmd = Nothing THEN "" ELSE cmd,
      owner |-> IF path = Nothing THEN NoOwner ELSE ParseOwner(path)]

\* A command line was printed for a pid, and none of blanks.
Speaks(s, pid) == Said(s, pid, "TXC") # {} /\ "" \notin Said(s, pid, "TXC")

\* A row keeps its own.
Own(s, r) ==
  /\ r.cpu \in 0 .. Denominator(s)
  /\ r.cmd # "" => r.cmd \in Said(s, r.pid, "TXC")
  /\ r.owner # NoOwner => r.owner \in {ParseOwner(p) : p \in Said(s, r.pid, "TXO")}

\* A row made of a line keeps its own.
LEMMA MadeIs ==
  ASSUME NEW p \in DOMAIN LinesOf, NEW s \in Seq(LinesOf[p]), NEW n \in DOMAIN Rows(s)
  PROVE  /\ Own(s, Made(s, n)) /\ Made(s, n).pid = Rows(s)[n].pid
         /\ Made(s, n).cpu \in Nat /\ Made(s, n).rss \in Nat
         /\ FirstOfPid(Rows(s), n) /\ Speaks(s, Rows(s)[n].pid) => Made(s, n).cmd # ""
<1> DEFINE row == Rows(s)[n]
           path == Collected(s, "TXO", Rows(s), n)
           cmd == Collected(s, "TXC", Rows(s), n)
<1>1. row.delta \in Nat /\ OrZero(row.rss) \in Nat
  BY RowsAre, InRange
<1>2. Denominator(s) \in Nat
  BY DenominatorIs
<1>3. /\ cmd = Nothing \/ cmd \in Said(s, row.pid, "TXC")
      /\ path = Nothing \/ path \in Said(s, row.pid, "TXO")
      /\ FirstOfPid(Rows(s), n) /\ Said(s, row.pid, "TXC") # {} => cmd \in Said(s, row.pid, "TXC")
  BY CollectedIs
<1>4. Nothing \notin Said(s, row.pid, "TXC")
  <2>1. \A l \in Of(s, "TXC") : l \in LinesOf[p] /\ l.tag = "TXC"
    BY InRange DEF Of
  <2>2. \A l \in Of(s, "TXC") : l.value # Nothing
    BY <2>1, LineTypes DEF SaysSomething
  <2> QED BY <2>2 DEF Said
<1> HIDE DEF row, path, cmd
<1>5. /\ Made(s, n).pid = row.pid /\ Made(s, n).cpu = AtMost(row.delta, Denominator(s))
      /\ Made(s, n).rss = OrZero(row.rss) /\ Made(s, n).cmd = (IF cmd = Nothing THEN "" ELSE cmd)
      /\ Made(s, n).owner = (IF path = Nothing THEN NoOwner ELSE ParseOwner(path))
  BY DEF Made, row, path, cmd
<1>6. Made(s, n).cpu \in 0 .. Denominator(s) /\ Made(s, n).cpu \in Nat /\ Made(s, n).rss \in Nat
  <2> DEFINE d == row.delta
             total == Denominator(s)
  <2>1. d \in Nat /\ total \in Nat
    BY <1>1, <1>2
  <2> HIDE DEF d, total
  <2>2. AtMost(d, total) \in 0 .. total /\ AtMost(d, total) \in Nat
    BY <2>1 DEF AtMost
  <2> QED BY <1>1, <1>5, <2>2 DEF d, total
<1>7. Made(s, n).cmd # "" => Made(s, n).cmd \in Said(s, row.pid, "TXC")
  BY <1>3, <1>5
<1>8. Made(s, n).owner # NoOwner => Made(s, n).owner \in {ParseOwner(q) : q \in Said(s, row.pid, "TXO")}
  BY <1>3, <1>5
<1>9. Own(s, Made(s, n))
  BY <1>5, <1>6, <1>7, <1>8 DEF Own
<1> QED BY <1>3, <1>4, <1>5, <1>6, <1>9 DEF row, Speaks

\* So do all of them, sorted.
LEMMA ProcessesAre ==
  ASSUME NEW p \in DOMAIN LinesOf, NEW s \in Seq(LinesOf[p])
  PROVE  /\ Len(ParseProcesses(s)) = IF Denominator(s) = 0 THEN 0 ELSE Len(Rows(s))
         /\ \A r \in Range(ParseProcesses(s)) :
              /\ Own(s, r)
              /\ Speaks(s, r.pid) => \E t \in Range(ParseProcesses(s)) : t.pid = r.pid /\ t.cmd # ""
         /\ \A m, n \in DOMAIN ParseProcesses(s) :
              m < n => ~Before(ParseProcesses(s)[n], ParseProcesses(s)[m])
<1> DEFINE rows == Rows(s)
           made == [n \in DOMAIN rows |-> Made(s, n)]
<1>1. ParseProcesses(s) = IF Denominator(s) = 0 THEN <<>> ELSE Sorted(made)
  BY DEF ParseProcesses, Made
<1>2. rows \in Seq(LinesOf[p])
  BY RowsAre
<1> HIDE DEF rows
<1>3. DOMAIN rows = 1..Len(rows) /\ Len(rows) \in Nat
  BY <1>2
<1>4. made \in Seq(Range(made)) /\ Len(made) = Len(rows) /\ DOMAIN made = DOMAIN rows
  BY <1>3 DEF Range
<1>5. \A n \in DOMAIN rows : made[n] = Made(s, n)
  OBVIOUS
<1> HIDE DEF made
<1>6. \A r \in Range(made) : \E n \in DOMAIN rows : r = Made(s, n)
  BY <1>4, <1>5 DEF Range
<1>7. \A r \in Range(made) : r.cpu \in Nat /\ r.rss \in Nat /\ Own(s, r)
  BY <1>6, MadeIs DEF rows
<1>8. ASSUME NEW r \in Range(made), Speaks(s, r.pid)
      PROVE  \E t \in Range(made) : t.pid = r.pid /\ t.cmd # ""
  <2>1. PICK n \in DOMAIN rows : r = Made(s, n)
    BY <1>6
  <2>2. r.pid = rows[n].pid
    BY <2>1, MadeIs DEF rows
  <2>3. PICK m \in DOMAIN rows : rows[m].pid = rows[n].pid /\ FirstOfPid(rows, m)
    BY <1>2, FirstRow
  <2>4. Made(s, m).pid = r.pid /\ Made(s, m).cmd # ""
    BY <1>8, <2>2, <2>3, MadeIs DEF rows
  <2>5. Made(s, m) \in Range(made)
    BY <1>4, <1>5 DEF Range
  <2> QED BY <2>4, <2>5
<1>9. CASE Denominator(s) = 0
  <2>1. ParseProcesses(s) = <<>> /\ Len(<<>>) = 0 /\ DOMAIN <<>> = {} /\ Range(<<>>) = {}
    BY <1>1, <1>9 DEF Range
  <2> QED BY <1>9, <2>1
<1>10. CASE Denominator(s) # 0
  <2>1. ParseProcesses(s) = Sorted(made)
    BY <1>1, <1>10
  <2>2. /\ Len(Sorted(made)) = Len(made) /\ Range(Sorted(made)) = Range(made)
        /\ \A m, n \in DOMAIN Sorted(made) : m < n => ~Before(Sorted(made)[n], Sorted(made)[m])
    BY <1>4, <1>7, SortedIs
  <2> QED BY <1>4, <1>7, <1>8, <1>10, <2>1, <2>2 DEF rows
<1> QED BY <1>9, <1>10

\* A row of the process view has its own command line and owner, none is lost, and
\* the rows are in order (parse_processes, procs.rs:485 and :548).
THEOREM RowsKeepTheirOwnCorrect == Spec => []RowsKeepTheirOwn
<1>1. Inv => RowsKeepTheirOwn
  <2> SUFFICES ASSUME Inv, plane = "process" PROVE RowsKeepTheirOwn
    BY DEF RowsKeepTheirOwn
  <2> DEFINE out == ParseProcesses(lines)
  <2>1. /\ Len(out) = IF Denominator(lines) = 0 THEN 0 ELSE Len(Rows(lines))
        /\ \A r \in Range(out) :
             /\ Own(lines, r)
             /\ Speaks(lines, r.pid) => \E t \in Range(out) : t.pid = r.pid /\ t.cmd # ""
        /\ \A m, n \in DOMAIN out : m < n => ~Before(out[n], out[m])
    BY ProcessesAre DEF Inv
  <2> HIDE DEF out
  <2> QED BY <2>1 DEF RowsKeepTheirOwn, Own, Speaks, Said, out
<1> QED BY <1>1, InputsCorrect, PTL


-----------------------------------------------------------------------------
(* The place that is left. *)

Passes(f, n, R) ==
  f[0] = 0 /\ \A k \in 1..n : f[k] = IF <<f[k - 1], k>> \in R THEN f[k - 1] ELSE k

\* There is such a function, and Left is where it ends.
LEMMA LeftRuns ==
  ASSUME NEW N \in Nat, NEW R
  PROVE  \E f \in [0..N -> 0..N] : Passes(f, N, R) /\ Left(N, R) = f[N]
<1> DEFINE Step(out, n) == IF <<out, n>> \in R THEN out ELSE n
           F == [x \in (0..N) \X (1..N) |-> Step(x[1], x[2])]
           Body(r, n) == IF n = 0 THEN 0 ELSE IF <<r[n - 1], n>> \in R THEN r[n - 1] ELSE n
           r == CHOOSE g : g = [n \in 0..N |-> Body(g, n)]
<1>1. Left(N, R) = r[N]
  BY DEF Left
<1>2. ASSUME NEW g, NEW n \in 0..N PROVE Body(g, n) = IF n = 0 THEN 0 ELSE Step(g[n - 1], n)
  OBVIOUS
<1>3. ASSUME NEW out \in 0..N, NEW n \in 1..N PROVE Step(out, n) \in 0..N
  OBVIOUS
<1>4. ASSUME NEW out, NEW n \in 1..N
      PROVE  Step(out, n) = IF <<out, n>> \in R THEN out ELSE n
  OBVIOUS
<1> HIDE DEF Step, Body
<1>5. F \in [(0..N) \X (1..N) -> 0..N]
  BY <1>3
<1>6. \A out \in 0..N : \A n \in 1..N : F[<<out, n>>] = Step(out, n)
  OBVIOUS
<1> HIDE DEF F
<1>7. PICK f \in [0..N -> 0..N] : FoldsTo(f, N, 0, F)
  <2> DEFINE V == 0..N
  <2>1. 0 \in V
    OBVIOUS
  <2>2. F \in [V \X (1..N) -> V]
    BY <1>5
  <2> HIDE DEF r, V
  <2>3. \E f \in [0..N -> V] : FoldsTo(f, N, 0, F)
    BY <2>1, <2>2, FoldExists, Zenon
  <2> QED BY <2>3 DEF V
<1>8. f[0] = 0 /\ \A n \in 1..N : f[n] = Step(f[n - 1], n)
  <2>1. ASSUME NEW n \in 1..N PROVE f[n] = Step(f[n - 1], n)
    <3>1. n - 1 \in 0..N
      OBVIOUS
    <3>2. f[n - 1] \in 0..N
      BY <3>1
    <3>3. f[n] = F[<<f[n - 1], n>>]
      BY <1>7 DEF FoldsTo
    <3> QED BY <1>6, <3>2, <3>3
  <2> QED BY <1>7, <2>1 DEF FoldsTo
<1>9. f = [n \in 0..N |-> Body(f, n)]
  <2>1. ASSUME NEW n \in 0..N PROVE f[n] = Body(f, n)
    <3>1. n # 0 => n \in 1..N
      OBVIOUS
    <3> QED BY <1>2, <1>8, <3>1
  <2> QED BY <2>1
<1>10. r = [n \in 0..N |-> Body(r, n)]
  BY <1>9
<1> HIDE DEF r
<1>11. ASSUME NEW n \in 0..N PROVE r[n] = Body(r, n)
  <2> DEFINE W(k) == Body(r, k)
  <2>1. r = [k \in 0..N |-> W(k)]
    BY <1>10
  <2> HIDE DEF W
  <2>2. r[n] = W(n)
    BY <2>1
  <2> QED BY <2>2 DEF W
<1>12. r[N] = f[N]
  <2>1. \A n \in 1..N : r[n] = Step(r[n - 1], n)
    <3> TAKE n \in 1..N
    <3>1. n \in 0..N /\ n # 0
      OBVIOUS
    <3> QED BY <1>2, <1>11, <3>1
  <2>2. r[0] = f[0]
    BY <1>2, <1>8, <1>11
  <2> DEFINE T == {n \in 0..N : r[n] = f[n]}
  <2>3. 0 \in T
    BY <2>2
  <2>4. ASSUME NEW k \in T, k < N PROVE k + 1 \in T
    <3>1. k + 1 \in 1..N /\ k + 1 \in 0..N /\ k + 1 - 1 = k
      BY <2>4
    <3>2. r[k + 1] = Step(r[k], k + 1) /\ f[k + 1] = Step(f[k], k + 1)
      BY <1>8, <2>1, <3>1
    <3> QED BY <3>1, <3>2
  <2>5. T = 0..N
    <3>1. T \in SUBSET (0..N)
      OBVIOUS
    <3> HIDE DEF T
    <3> QED BY <2>3, <2>4, <3>1, UpTo
  <2>6. N \in 0..N
    OBVIOUS
  <2> QED BY <2>5, <2>6
<1>13. \A n \in 1..N : f[n] = IF <<f[n - 1], n>> \in R THEN f[n - 1] ELSE n
  BY <1>4, <1>8
<1> QED BY <1>1, <1>7, <1>8, <1>12, <1>13 DEF Passes

\* W says who is no worse than whom: whoever stays is not, and neither is the next
\* one when it does not stay.
NoWorse(W, R, n) ==
  /\ \A a, b \in 1..n : <<a, b>> \in R => <<a, b>> \in W
  /\ \A a, b \in 1..n : <<a, b>> \notin R => <<b, a>> \in W
  /\ \A a \in 1..n : <<a, a>> \in W
  /\ \A a, b, c \in 1..n : <<a, b>> \in W /\ <<b, c>> \in W => <<a, c>> \in W

\* Then who is left is no worse than anyone.
LEMMA LeftIs ==
  ASSUME NEW N \in Nat, NEW R, NEW W, NoWorse(W, R, N), \A k : <<0, k>> \notin R
  PROVE  /\ N = 0 => Left(N, R) = 0
         /\ N # 0 => Left(N, R) \in 1..N /\ \A m \in 1..N : <<Left(N, R), m>> \in W
<1>1. PICK f \in [0..N -> 0..N] : Passes(f, N, R) /\ Left(N, R) = f[N]
  BY LeftRuns
<1> DEFINE T == {k \in 0..N : k # 0 => f[k] \in 1..k /\ \A m \in 1..k : <<f[k], m>> \in W}
<1>2. 0 \in T
  OBVIOUS
<1>3. ASSUME NEW k \in T, k < N PROVE k + 1 \in T
  <2>1. k \in 0..N /\ k + 1 \in 1..N /\ k + 1 \in 0..N /\ k + 1 - 1 = k
    BY <1>3
  <2>2. f[k + 1] = IF <<f[k], k + 1>> \in R THEN f[k] ELSE k + 1
    <3>1. \A n \in 1..N : f[n] = IF <<f[n - 1], n>> \in R THEN f[n - 1] ELSE n
      BY <1>1 DEF Passes
    <3> HIDE DEF T
    <3>2. PICK n \in 1..N : n = k + 1 /\ n - 1 = k
      BY <2>1
    <3>3. f[n] = IF <<f[n - 1], n>> \in R THEN f[n - 1] ELSE n
      BY <3>1, Zenon
    <3> QED BY <3>2, <3>3, Zenon
  <2>3. f[k] \in 0..N /\ (k = 0 => f[k] = 0)
    BY <1>1, <2>1 DEF Passes
  <2>4. <<k + 1, k + 1>> \in W
    BY <2>1 DEF NoWorse
  <2>5. CASE k = 0
    <3>1. f[k + 1] = k + 1 /\ k + 1 \in 1..(k + 1)
      BY <2>1, <2>2, <2>3, <2>5
    <3>2. \A m \in 1..(k + 1) : m = k + 1
      BY <2>5
    <3>3. \A m \in 1..(k + 1) : <<f[k + 1], m>> \in W
      BY <2>4, <3>1, <3>2
    <3> QED BY <2>1, <3>1, <3>3
  <2>6. CASE k # 0
    <3>1. f[k] \in 1..k /\ \A m \in 1..k : <<f[k], m>> \in W
      BY <2>6
    <3>2. f[k] \in 1..N /\ \A m \in 1..k : m \in 1..N
      BY <2>1, <3>1
    <3>3. \A m \in 1..(k + 1) : m \in 1..k \/ m = k + 1
      BY <2>1
    <3>4. CASE <<f[k], k + 1>> \in R
      <4>1. <<f[k], k + 1>> \in W
        BY <2>1, <3>2, <3>4 DEF NoWorse
      <4>2. f[k + 1] = f[k] /\ f[k] \in 1..(k + 1)
        BY <2>2, <3>1, <3>4
      <4> QED BY <2>1, <3>1, <3>3, <4>1, <4>2
    <3>5. CASE <<f[k], k + 1>> \notin R
      <4>1. <<k + 1, f[k]>> \in W
        BY <2>1, <3>2, <3>5 DEF NoWorse
      <4>2. \A m \in 1..k : <<k + 1, m>> \in W
        BY <2>1, <3>1, <3>2, <4>1 DEF NoWorse
      <4>3. f[k + 1] = k + 1 /\ k + 1 \in 1..(k + 1)
        BY <2>1, <2>2, <3>5
      <4> QED BY <2>1, <2>4, <3>3, <4>2, <4>3
    <3> QED BY <3>4, <3>5
  <2> QED BY <2>5, <2>6
<1>4. T = 0..N
  <2>1. T \in SUBSET (0..N)
    OBVIOUS
  <2> HIDE DEF T
  <2> QED BY <1>2, <1>3, <2>1, UpTo
<1>5. N \in T
  <2> HIDE DEF T
  <2> QED BY <1>4
<1> QED BY <1>1, <1>5 DEF Passes

-----------------------------------------------------------------------------
(* Readings. *)

\* The hottest of a list of readings.
LEMMA HottestIs ==
  ASSUME NEW V, NEW temps \in Seq(V), temps # <<>>, \A t \in Range(temps) : t.celsius \in Int
  PROVE  \E t \in Range(temps) :
           /\ Hottest(temps).celsius = t.celsius /\ Hottest(temps).name[1] = t.driver
           /\ \A u \in Range(temps) : u.celsius <= t.celsius
<1> DEFINE N == Len(temps)
           R == {p \in TwoOf(temps) : temps[p[1]].celsius >= temps[p[2]].celsius}
           best == Left(N, R)
<1>1. N \in Nat /\ N # 0 /\ DOMAIN temps = 1..N /\ \A n \in 1..N : temps[n] \in Range(temps)
  BY InRange
<1>2. \A n \in 1..N : temps[n].celsius \in Int
  BY <1>1
<1>3. \A a, b \in 1..N : <<a, b>> \in R <=> temps[a].celsius >= temps[b].celsius
  BY <1>1 DEF TwoOf
<1>4. \A k : <<0, k>> \notin R
  <2>1. R \subseteq (1..N) \X (1..N)
    BY <1>1 DEF TwoOf
  <2>2. 0 \notin 1..N
    BY <1>1
  <2> HIDE DEF R
  <2> QED BY <2>1, <2>2
<1>5. Hottest(temps) = IF best = 0 THEN Nothing
                       ELSE [name    |-> SensorName(temps[best], IndexWithinDriver(temps, best)),
                             celsius |-> temps[best].celsius]
  BY DEF Hottest
<1> HIDE DEF N, R
<1>6. NoWorse(R, R, N)
  <2>1. \A a, b \in 1..N : <<a, b>> \notin R => <<b, a>> \in R
    BY <1>2, <1>3
  <2>2. \A a \in 1..N : <<a, a>> \in R
    BY <1>2, <1>3
  <2>3. \A a, b, c \in 1..N : <<a, b>> \in R /\ <<b, c>> \in R => <<a, c>> \in R
    BY <1>2, <1>3
  <2> QED BY <2>1, <2>2, <2>3 DEF NoWorse
<1>7. best \in 1..N /\ \A m \in 1..N : <<best, m>> \in R
  BY <1>1, <1>4, <1>6, LeftIs
<1> HIDE DEF best
<1>8. \A m \in 1..N : temps[best].celsius >= temps[m].celsius
  BY <1>3, <1>7
<1>9. best # 0 /\ temps[best] \in Range(temps)
  BY <1>1, <1>7
<1>10. Hottest(temps).celsius = temps[best].celsius /\ Hottest(temps).name[1] = temps[best].driver
  <2>1. Hottest(temps) = [name |-> SensorName(temps[best], IndexWithinDriver(temps, best)),
                          celsius |-> temps[best].celsius]
    BY <1>5, <1>9
  <2>2. \A t, i : SensorName(t, i)[1] = t.driver
    BY DEF SensorName
  <2> QED BY <2>1, <2>2
<1>11. \A u \in Range(temps) : u.celsius <= temps[best].celsius
  <2> TAKE u \in Range(temps)
  <2>1. PICK n \in 1..N : temps[n] = u
    BY <1>1, InRange
  <2> QED BY <1>2, <1>7, <1>8, <2>1
<1> QED BY <1>9, <1>10, <1>11

\* The readings that can be the CPU's are of a driver of its own, and their ranks
\* are numbers.
LEMMA CpuRanks ==
  ASSUME NEW t, CpuRank(t) # NaN
  PROVE  CpuRank(t) \in 0..3 /\ SensorKindOf(t.driver) = "cpu"
BY DEF CpuRank, SensorKindOf

\* A plausible reading is a number.
LEMMA PlausibleIs ==
  ASSUME NEW t, Plausible(t)
  PROVE  t.celsius \in Int
BY DEF Plausible

\* The CPU's temperature is the hottest of those of the best rank.
LEMMA CpuTempIs ==
  ASSUME NEW V, NEW s \in Seq(V), NEW cpu,
         cpu = {t \in Range(ParseTemps(s)) : CpuRank(t) # NaN}
  PROVE  IF cpu = {} THEN ParseCpuTemp(s) = Nothing
         ELSE \E t \in cpu : /\ ParseCpuTemp(s) = t.celsius
                             /\ \A u \in cpu : CpuRank(t) <= CpuRank(u)
                             /\ \A u \in cpu : (\A v \in cpu : CpuRank(u) <= CpuRank(v)) =>
                                                 u.celsius <= t.celsius
<1> DEFINE read == {l \in Of(s, "TXT") : Plausible(l) /\ CpuRank(l) # NaN}
           c == Those(s, read)
           N == Len(c)
           R == {p \in TwoOf(c) : Stays(c[p[1]], c[p[2]])}
           best == Left(N, R)
           W == {p \in (1..N) \X (1..N) : Stays(c[p[1]], c[p[2]])}
<1>1. ParseCpuTemp(s) = IF best = 0 THEN Nothing ELSE c[best].celsius
  BY DEF ParseCpuTemp
<1>2. c \in Seq(V) /\ Range(c) = cpu
  <2>1. c \in Seq(V) /\ Range(c) = Range(s) \cap read
    <3> HIDE DEF read
    <3> QED BY ThoseAre
  <2>2. Range(ParseTemps(s)) = Range(s) \cap {l \in Of(s, "TXT") : Plausible(l)}
    <3> DEFINE P == {l \in Of(s, "TXT") : Plausible(l)}
    <3>1. ParseTemps(s) = Those(s, P)
      BY DEF ParseTemps
    <3> HIDE DEF P
    <3>2. Range(ParseTemps(s)) = Range(s) \cap P
      BY <3>1, ThoseAre
    <3> QED BY <3>2 DEF P
  <2> QED BY <2>1, <2>2
<1>3. \A t \in cpu : CpuRank(t) \in 0..3 /\ t.celsius \in Int
  <2>1. \A t \in cpu : CpuRank(t) # NaN
    OBVIOUS
  <2>2. \A t \in cpu : t \in read
    <3>1. Range(c) = Range(s) \cap read
      <4> HIDE DEF read
      <4> QED BY ThoseAre
    <3> HIDE DEF c, read
    <3> QED BY <1>2, <3>1
  <2>3. ASSUME NEW t \in read PROVE t.celsius \in Int
    <3>1. Plausible(t)
      OBVIOUS
    <3> QED BY <3>1, PlausibleIs
  <2> HIDE DEF read
  <2> QED BY <2>1, <2>2, <2>3, CpuRanks
<1> HIDE DEF read, c
<1>4. N \in Nat /\ DOMAIN c = 1..N /\ (\A n \in 1..N : c[n] \in cpu) /\ \A t \in cpu : \E n \in 1..N : c[n] = t
  BY <1>2, InRange
<1>5. \A a, b \in 1..N : (<<a, b>> \in R <=> Stays(c[a], c[b])) /\ (<<a, b>> \in W <=> Stays(c[a], c[b]))
  BY <1>4 DEF TwoOf
<1>6. \A k : <<0, k>> \notin R
  <2>1. R \subseteq (1..N) \X (1..N) /\ 0 \notin 1..N
    BY <1>4 DEF TwoOf
  <2> HIDE DEF R
  <2> QED BY <2>1
<1> HIDE DEF N, R, W
<1>7. NoWorse(W, R, N)
  <2> DEFINE rank == [n \in 1..N |-> CpuRank(c[n])]
             warm == [n \in 1..N |-> c[n].celsius]
  <2>1. \A n \in 1..N : rank[n] \in 0..3 /\ warm[n] \in Int
    BY <1>3, <1>4
  <2>2. \A a, b \in 1..N : Stays(c[a], c[b]) <=> rank[a] < rank[b] \/ (rank[a] = rank[b] /\ warm[a] >= warm[b])
    BY DEF Stays
  <2> HIDE DEF rank, warm
  <2>3. \A a, b \in 1..N : <<a, b>> \in R => <<a, b>> \in W
    BY <1>5
  <2>4. ASSUME NEW a \in 1..N, NEW b \in 1..N, <<a, b>> \notin R PROVE <<b, a>> \in W
    <3>1. ~(rank[a] < rank[b] \/ (rank[a] = rank[b] /\ warm[a] >= warm[b]))
      BY <1>5, <2>2, <2>4
    <3>2. rank[b] < rank[a] \/ (rank[b] = rank[a] /\ warm[b] >= warm[a])
      BY <2>1, <3>1
    <3> QED BY <1>5, <2>2, <3>2
  <2>5. \A a \in 1..N : <<a, a>> \in W
    BY <1>5, <2>1, <2>2
  <2>6. \A a, b, d \in 1..N : <<a, b>> \in W /\ <<b, d>> \in W => <<a, d>> \in W
    BY <1>5, <2>1, <2>2
  <2> QED BY <2>3, <2>4, <2>5, <2>6 DEF NoWorse
<1>8. /\ N = 0 => best = 0
      /\ N # 0 => best \in 1..N /\ \A m \in 1..N : <<best, m>> \in W
  BY <1>4, <1>6, <1>7, LeftIs
<1> HIDE DEF best
<1>9. CASE N = 0
  <2>1. cpu = {}
    BY <1>4, <1>9
  <2> QED BY <1>1, <1>8, <1>9, <2>1
<1>10. CASE N # 0
  <2>1. best \in 1..N /\ \A m \in 1..N : Stays(c[best], c[m])
    BY <1>5, <1>8, <1>10
  <2>2. c[best] \in cpu /\ \A u \in cpu : Stays(c[best], u)
    BY <1>4, <2>1
  <2>3. ParseCpuTemp(s) = c[best].celsius
    BY <1>1, <1>4, <2>1
  <2>4. PICK t \in cpu : t = c[best]
    BY <2>2
  <2>5. \A u \in cpu : CpuRank(t) < CpuRank(u) \/ (CpuRank(t) = CpuRank(u) /\ t.celsius >= u.celsius)
    BY <2>2, <2>4 DEF Stays
  <2>6. ASSUME NEW u \in cpu
        PROVE  /\ CpuRank(t) <= CpuRank(u)
               /\ CpuRank(u) <= CpuRank(t) => u.celsius <= t.celsius
    <3>1. CpuRank(t) \in 0..3 /\ CpuRank(u) \in 0..3 /\ t.celsius \in Int /\ u.celsius \in Int
      BY <1>3
    <3> HIDE DEF CpuRank
    <3> QED BY <2>5, <3>1
  <2>7. cpu # {}
    BY <2>2
  <2> QED BY <2>3, <2>4, <2>6, <2>7
<1> QED BY <1>9, <1>10

\* A processor of a Windows host is compared with itself, over a time that passed.
LEMMA WinCoresAre ==
  ASSUME NEW p \in DOMAIN LinesOf, NEW s \in Seq(LinesOf[p]), NEW t \in Seq(LinesOf[p]),
         NEW a, NEW b, a = ParseWinFrame(s), b = ParseWinFrame(t),
         NEW n \in DOMAIN b.cores, NEW busy, busy = WinCpu(a, b).cores[n], busy # Nothing
  PROVE  /\ busy[2] > 0 /\ busy[1] \in 0 .. busy[2]
         /\ \E c \in Range(a.cores) : c.name = b.cores[n].name /\ busy[2] = b.cores[n].b - c.b
<1> DEFINE Cores(q) == {l \in {k \in Of(q, "TXWC") : NaN \notin {k.a, k.b}} : l.name # "_Total"}
           old == Those(s, Cores(s))
           new == Those(t, Cores(t))
<1>1. a.cores = old /\ b.cores = new
  BY DEF ParseWinFrame
<1>2. \A q \in Seq(LinesOf[p]) : /\ Range(q) \subseteq LinesOf[p]
                                 /\ Those(q, Cores(q)) \in Seq(LinesOf[p])
                                 /\ Range(Those(q, Cores(q))) \subseteq Cores(q)
  <2> TAKE q \in Seq(LinesOf[p])
  <2>1. Range(q) \subseteq LinesOf[p]
    BY InRange
  <2> HIDE DEF Cores
  <2> QED BY <2>1, ThoseAre
<1>3. \A q \in Seq(LinesOf[p]) : \A l \in Cores(q) : l.a \in Int /\ l.b \in Int
  <2> TAKE q \in Seq(LinesOf[p])
  <2> TAKE l \in Cores(q)
  <2>1. l \in LinesOf[p] /\ l.tag = "TXWC" /\ NaN \notin {l.a, l.b}
    BY <1>2 DEF Of
  <2>2. {l.a, l.b} \subseteq Unread
    BY <2>1, LineTypes DEF HasNumbers
  <2> QED BY <2>1, <2>2 DEF Unread
<1> HIDE DEF Cores
<1>4. /\ old \in Seq(LinesOf[p]) /\ new \in Seq(LinesOf[p])
      /\ \A l \in Range(old) \cup Range(new) : l.a \in Int /\ l.b \in Int
  BY <1>2, <1>3
<1> HIDE DEF old, new
<1>5. busy = WinCore(old, new, n)
  BY <1>1 DEF WinCpu
<1> DEFINE now == new[n]
           same == {c \in Range(old) : c.name = now.name}
           ago == Those(old, same)
<1>6. busy = IF ago = <<>> THEN Nothing ELSE WinBusy(ago[1], now)
  BY <1>5 DEF WinCore
<1>7. ago \in Seq(LinesOf[p]) /\ Range(ago) = Range(old) \cap same
  <2> HIDE DEF same
  <2> QED BY <1>4, ThoseAre
<1>8. now \in Range(new)
  BY <1>1, <1>4, InRange
<1>9. ago # <<>> => ago[1] \in Range(ago)
  BY <1>7, InRange
<1> HIDE DEF ago, now
<1>10. ago # <<>> /\ busy = WinBusy(ago[1], now)
  BY <1>6
<1>11. PICK c \in Range(old) : c = ago[1] /\ c.name = now.name
  BY <1>7, <1>9, <1>10
<1>12. c.a \in Int /\ c.b \in Int /\ now.a \in Int /\ now.b \in Int
  BY <1>4, <1>8, <1>11
<1>13. /\ ~(now.a < c.a \/ now.b <= c.b)
       /\ busy = <<Minus(now.b - c.b, now.a - c.a), now.b - c.b>>
  BY <1>10, <1>11 DEF WinBusy
<1>14. busy[1] = Minus(now.b - c.b, now.a - c.a) /\ busy[2] = now.b - c.b
  BY <1>13
<1>15. busy[2] > 0 /\ busy[1] \in 0 .. busy[2]
  BY <1>12, <1>13, <1>14 DEF Minus
<1> QED BY <1>1, <1>11, <1>14, <1>15 DEF now

\* Every reading is of the device it is reported for (parse_cpu_temp, hottest:
\* hwmon.rs; win_pump's cores, windows.rs:345).
THEOREM ReadingsKeepTheirDeviceCorrect == Spec => []ReadingsKeepTheirDevice
<1>1. Inv => ReadingsKeepTheirDevice
  <2> SUFFICES ASSUME Inv PROVE ReadingsKeepTheirDevice
    OBVIOUS
  <2> DEFINE temps == ParseTemps(lines)
             ranked == {t \in Range(temps) : CpuRank(t) # NaN}
             cpu == {t \in Range(temps) : SensorKindOf(t.driver) = "cpu" /\ CpuRank(t) # NaN}
             best == {t \in cpu : \A u \in cpu : CpuRank(t) <= CpuRank(u)}
  <2>1. lines \in Seq(LinesOf[plane]) /\ before \in Seq(LinesOf[plane]) /\ plane \in DOMAIN LinesOf
    BY DEF Inv
  <2>2. cpu = ranked
    BY CpuRanks
  <2>3. temps \in Seq(LinesOf[plane]) /\ \A t \in Range(temps) : t.celsius \in Int
    <3> DEFINE P == {l \in Of(lines, "TXT") : Plausible(l)}
    <3>1. temps = Those(lines, P)
      BY DEF ParseTemps
    <3>2. \A t \in P : t.celsius \in Int
      BY DEF Plausible
    <3> HIDE DEF P, temps
    <3>3. temps \in Seq(LinesOf[plane]) /\ Range(temps) = Range(lines) \cap P
      BY <2>1, <3>1, ThoseAre
    <3> QED BY <3>2, <3>3
  <2>4. IF ranked = {} THEN ParseCpuTemp(lines) = Nothing
        ELSE \E t \in ranked : /\ ParseCpuTemp(lines) = t.celsius
                               /\ \A u \in ranked : CpuRank(t) <= CpuRank(u)
                               /\ \A u \in ranked : (\A v \in ranked : CpuRank(u) <= CpuRank(v)) =>
                                                      u.celsius <= t.celsius
    <3> DEFINE them == {t \in Range(ParseTemps(lines)) : CpuRank(t) # NaN}
    <3>1. ranked = them
      OBVIOUS
    <3> HIDE DEF ranked
    <3> QED BY <2>1, <3>1, CpuTempIs
  <2> HIDE DEF temps, ranked, cpu
  <2>5. IF cpu = {} THEN ParseCpuTemp(lines) = Nothing
        ELSE \E t \in best : /\ ParseCpuTemp(lines) = t.celsius
                             /\ \A u \in best : u.celsius <= t.celsius
    <3>1. CASE cpu = {}
      BY <2>2, <2>4, <3>1
    <3>2. CASE cpu # {}
      <4>1. PICK t \in ranked :
               /\ ParseCpuTemp(lines) = t.celsius
               /\ \A u \in ranked : CpuRank(t) <= CpuRank(u)
               /\ \A u \in ranked : (\A v \in ranked : CpuRank(u) <= CpuRank(v)) => u.celsius <= t.celsius
        BY <2>2, <2>4, <3>2
      <4>2. t \in best
        BY <2>2, <4>1
      <4> QED BY <2>2, <3>2, <4>1, <4>2
    <3> QED BY <3>1, <3>2
  <2>6. temps # <<>> =>
          /\ \A t \in Range(temps) : t.celsius <= Hottest(temps).celsius
          /\ \E t \in Range(temps) : /\ t.celsius = Hottest(temps).celsius
                                      /\ t.driver = Hottest(temps).name[1]
    BY <2>3, HottestIs
  <2>7. plane = "windows" /\ Two =>
          LET a == ParseWinFrame(before) b == ParseWinFrame(lines) IN
          \A n \in DOMAIN b.cores :
            LET busy == WinCpu(a, b).cores[n] IN
            busy # Nothing =>
              /\ busy[2] > 0 /\ busy[1] \in 0 .. busy[2]
              /\ \E c \in Range(a.cores) : c.name = b.cores[n].name /\ busy[2] = b.cores[n].b - c.b
    BY <2>1, WinCoresAre
  <2> QED BY <2>5, <2>6, <2>7 DEF ReadingsKeepTheirDevice, temps, cpu
<1> QED BY <1>1, InputsCorrect, PTL

-----------------------------------------------------------------------------
(* Filesystems. *)

RealFs(s) ==
  {l \in Of(s, "TXF") : ~IsPseudo(l.source) /\ NaN \notin {l.total, l.used} /\ l.total # 0}

\* What is said of a filesystem.
Entries(V) ==
  [source : {l.source : l \in V}, mount : {l.mount : l \in V},
   total : {l.total : l \in V}, used : {l.used : l \in V}]

Lists(f, s) == f[0] = <<>> /\ \A n \in 1..Len(s) : f[n] = ListFilesystem(f[n - 1], s[n])

HeldAt(out, l) == {n \in DOMAIN out : out[n].source = l.source}
Taken(out, l) == \E n \in DOMAIN out : out[n].mount = l.mount
Renamed(out, l, n) ==
  IF n \in HeldAt(out, l) /\ Shorter(l.mount, out[n].mount)
  THEN [out[n] EXCEPT !.mount = l.mount] ELSE out[n]
EntryOf(l) == [source |-> l.source, mount |-> l.mount, total |-> l.total, used |-> l.used]

\* One line more.
LEMMA ListOne ==
  ASSUME NEW out, NEW l
  PROVE  /\ Taken(out, l) => ListFilesystem(out, l) = out
         /\ ~Taken(out, l) /\ HeldAt(out, l) = {} => ListFilesystem(out, l) = Append(out, EntryOf(l))
         /\ ~Taken(out, l) /\ HeldAt(out, l) # {} =>
              ListFilesystem(out, l) = [n \in DOMAIN out |-> Renamed(out, l, n)]
<1>1. ListFilesystem(out, l) =
        IF Taken(out, l) THEN out
        ELSE IF HeldAt(out, l) = {} THEN Append(out, EntryOf(l))
        ELSE [n \in DOMAIN out |-> Renamed(out, l, n)]
  BY DEF ListFilesystem, Taken, HeldAt, EntryOf, Renamed
<1> QED BY <1>1

\* A new name changes nothing but the name.
LEMMA RenamedIs ==
  ASSUME NEW V, NEW out \in Seq(Entries(V)), NEW l \in V, NEW n \in DOMAIN out
  PROVE  /\ Renamed(out, l, n) \in Entries(V)
         /\ Renamed(out, l, n).source = out[n].source
         /\ Renamed(out, l, n).total = out[n].total /\ Renamed(out, l, n).used = out[n].used
         /\ Renamed(out, l, n).mount = IF n \in HeldAt(out, l) /\ Shorter(l.mount, out[n].mount)
                                       THEN l.mount ELSE out[n].mount
<1>1. out[n] \in Entries(V)
  OBVIOUS
<1>2. l.mount \in {k.mount : k \in V}
  OBVIOUS
<1>3. CASE n \in HeldAt(out, l) /\ Shorter(l.mount, out[n].mount)
  <2>1. Renamed(out, l, n) = [out[n] EXCEPT !.mount = l.mount]
    BY <1>3 DEF Renamed
  <2> QED BY <1>1, <1>2, <1>3, <2>1 DEF Entries
<1>4. CASE ~(n \in HeldAt(out, l) /\ Shorter(l.mount, out[n].mount))
  <2>1. Renamed(out, l, n) = out[n]
    BY <1>4 DEF Renamed
  <2> QED BY <1>1, <1>4, <2>1
<1> QED BY <1>3, <1>4

\* The list says only what lines say.
LEMMA ListKeeps ==
  ASSUME NEW V, NEW out \in Seq(Entries(V)), NEW l \in V
  PROVE  ListFilesystem(out, l) \in Seq(Entries(V))
<1>1. CASE Taken(out, l)
  BY <1>1, ListOne
<1>2. CASE ~Taken(out, l) /\ HeldAt(out, l) = {}
  <2>1. EntryOf(l) \in Entries(V)
    BY DEF EntryOf, Entries
  <2>2. ListFilesystem(out, l) = Append(out, EntryOf(l))
    BY <1>2, ListOne
  <2> QED BY <2>1, <2>2
<1>3. CASE ~Taken(out, l) /\ HeldAt(out, l) # {}
  <2>1. ListFilesystem(out, l) = [n \in DOMAIN out |-> Renamed(out, l, n)]
    BY <1>3, ListOne
  <2>2. DOMAIN out = 1..Len(out) /\ Len(out) \in Nat
    OBVIOUS
  <2>3. \A n \in DOMAIN out : Renamed(out, l, n) \in Entries(V)
    BY RenamedIs
  <2> QED BY <2>1, <2>2, <2>3
<1> QED BY <1>1, <1>2, <1>3

\* The recursion over the lines has a solution, and it is the one the code takes.
LEMMA ListRuns ==
  ASSUME NEW V, NEW s \in Seq(V), NEW r,
         r = CHOOSE g : g = [n \in 0..Len(s) |-> IF n = 0 THEN <<>> ELSE ListFilesystem(g[n - 1], s[n])]
  PROVE  \E f \in [0..Len(s) -> Seq(Entries(V))] : Lists(f, s) /\ r[Len(s)] = f[Len(s)]
<1> DEFINE N == Len(s)
           E == Seq(Entries(V))
           Step(out, n) == ListFilesystem(out, s[n])
           F == [x \in E \X (1..N) |-> Step(x[1], x[2])]
           Body(g, n) == IF n = 0 THEN <<>> ELSE Step(g[n - 1], n)
<1>1. r = CHOOSE g : g = [n \in 0..N |-> Body(g, n)]
  OBVIOUS
<1>2. \A n \in 1..N : s[n] \in V
  OBVIOUS
<1>3. N \in Nat
  OBVIOUS
<1>4. ASSUME NEW g, NEW n \in 0..N PROVE Body(g, n) = IF n = 0 THEN <<>> ELSE Step(g[n - 1], n)
  OBVIOUS
<1>5. ASSUME NEW out \in E, NEW n \in 1..N PROVE Step(out, n) \in E
  BY <1>2, ListKeeps
<1>6. ASSUME NEW out, NEW n \in 1..N PROVE Step(out, n) = ListFilesystem(out, s[n])
  OBVIOUS
<1>7. <<>> \in E
  OBVIOUS
<1> HIDE DEF N, E, Step, Body
<1>8. F \in [E \X (1..N) -> E]
  BY <1>5
<1>9. \A out \in E : \A n \in 1..N : F[<<out, n>>] = Step(out, n)
  OBVIOUS
<1> HIDE DEF F
<1>10. PICK f \in [0..N -> E] : FoldsTo(f, N, <<>>, F)
  BY <1>3, <1>7, <1>8, FoldExists, Zenon
<1>11. f[0] = <<>> /\ \A n \in 1..N : f[n] = Step(f[n - 1], n)
  <2>1. ASSUME NEW n \in 1..N PROVE f[n] = Step(f[n - 1], n)
    <3>1. n - 1 \in 0..N
      BY <1>3
    <3>2. f[n - 1] \in E
      BY <3>1
    <3>3. f[n] = F[<<f[n - 1], n>>]
      BY <1>10 DEF FoldsTo
    <3> QED BY <1>9, <3>2, <3>3
  <2> QED BY <1>10, <2>1 DEF FoldsTo
<1>12. f = [n \in 0..N |-> Body(f, n)]
  <2>1. ASSUME NEW n \in 0..N PROVE f[n] = Body(f, n)
    <3>1. n # 0 => n \in 1..N
      BY <1>3
    <3> QED BY <1>4, <1>11, <3>1
  <2> QED BY <2>1
<1>13. r = [n \in 0..N |-> Body(r, n)]
  BY <1>1, <1>12
<1>14. ASSUME NEW n \in 0..N PROVE r[n] = Body(r, n)
  <2> DEFINE W(k) == Body(r, k)
  <2>1. r = [k \in 0..N |-> W(k)]
    BY <1>13
  <2> HIDE DEF W
  <2>2. r[n] = W(n)
    BY <2>1
  <2> QED BY <2>2 DEF W
<1>15. r[N] = f[N]
  <2>1. \A n \in 1..N : r[n] = Step(r[n - 1], n)
    <3> TAKE n \in 1..N
    <3>1. n \in 0..N /\ n # 0
      BY <1>3
    <3> QED BY <1>4, <1>14, <3>1
  <2>2. r[0] = f[0]
    BY <1>3, <1>4, <1>11, <1>14
  <2> DEFINE T == {n \in 0..N : r[n] = f[n]}
  <2>3. 0 \in T
    BY <1>3, <2>2
  <2>4. ASSUME NEW k \in T, k < N PROVE k + 1 \in T
    <3>1. k + 1 \in 1..N /\ k + 1 \in 0..N /\ k + 1 - 1 = k
      BY <1>3, <2>4
    <3>2. r[k + 1] = Step(r[k], k + 1) /\ f[k + 1] = Step(f[k], k + 1)
      BY <1>11, <2>1, <3>1
    <3> QED BY <3>1, <3>2
  <2>5. T = 0..N
    <3>1. T \in SUBSET (0..N)
      OBVIOUS
    <3> HIDE DEF T
    <3> QED BY <1>3, <2>3, <2>4, <3>1, UpTo
  <2>6. N \in 0..N
    BY <1>3
  <2> QED BY <2>5, <2>6
<1>16. \A n \in 1..N : f[n] = ListFilesystem(f[n - 1], s[n])
  BY <1>6, <1>11
<1> QED BY <1>10, <1>11, <1>15, <1>16 DEF Lists, N, E

\* Each filesystem and each mount point once.
Once(out) ==
  \A m, n \in DOMAIN out : m # n => out[m].source # out[n].source /\ out[m].mount # out[n].mount
\* Nothing that no line says.
FromLines(out, S) ==
  \A n \in DOMAIN out : \E k \in S : k.source = out[n].source /\ k.mount = out[n].mount
\* A filesystem with a mount point of its own is listed, under no longer a name.
HasOwn(out, S, own) ==
  \A k \in S \cap own :
    \E n \in DOMAIN out : out[n].source = k.source /\ out[n].mount.len <= k.mount.len

OwnMounts(V, own) == \A k \in own : \A l \in V : l.mount = k.mount => l.source = k.source
HaveLengths(V) == \A k \in V : k.mount.len \in Nat
Good(out, S, own) == Once(out) /\ FromLines(out, S) /\ HasOwn(out, S, own)

\* What Append does, by places.
LEMMA AppendIs ==
  ASSUME NEW E, NEW out \in Seq(E), NEW e \in E
  PROVE  /\ DOMAIN Append(out, e) = DOMAIN out \cup {Len(out) + 1}
         /\ Len(out) + 1 \notin DOMAIN out
         /\ Append(out, e)[Len(out) + 1] = e
         /\ \A n \in DOMAIN out : Append(out, e)[n] = out[n]
OBVIOUS

\* One line more keeps what is good about the list.
LEMMA ListHolds ==
  ASSUME NEW V, NEW own, OwnMounts(V, own), HaveLengths(V),
         NEW out \in Seq(Entries(V)), NEW S \in SUBSET V, NEW l \in V, Good(out, S, own)
  PROVE  Good(ListFilesystem(out, l), S \cup {l}, own)
<1> DEFINE new == ListFilesystem(out, l)
<1>1. \A n \in DOMAIN out : out[n] \in Entries(V)
  OBVIOUS
<1>2. \A n \in DOMAIN out : out[n].mount.len \in Nat
  BY <1>1 DEF HaveLengths, Entries
<1>3. l.mount.len \in Nat
  BY DEF HaveLengths
<1>4. CASE Taken(out, l)
  <2>1. new = out
    BY <1>4, ListOne
  <2>2. PICK n \in DOMAIN out : out[n].mount = l.mount
    BY <1>4 DEF Taken
  <2>3. l \in own => out[n].source = l.source
    <3>1. PICK k \in S : k.source = out[n].source /\ k.mount = out[n].mount
      BY DEF Good, FromLines
    <3> QED BY <2>2, <3>1 DEF OwnMounts
  <2>4. l \in own => \E m \in DOMAIN out : out[m].source = l.source /\ out[m].mount.len <= l.mount.len
    BY <1>3, <2>2, <2>3
  <2>5. HasOwn(out, S \cup {l}, own)
    BY <2>4 DEF Good, HasOwn
  <2>6. FromLines(out, S \cup {l})
    BY DEF Good, FromLines
  <2> QED BY <2>1, <2>5, <2>6 DEF Good
<1>5. CASE ~Taken(out, l) /\ HeldAt(out, l) = {}
  <2> DEFINE e == EntryOf(l)
             N == Len(out) + 1
  <2>1. new = Append(out, e)
    BY <1>5, ListOne
  <2>2. e \in Entries(V) /\ e.source = l.source /\ e.mount = l.mount
    BY DEF EntryOf, Entries
  <2> HIDE DEF e
  <2>3. /\ DOMAIN new = DOMAIN out \cup {N} /\ N \notin DOMAIN out
        /\ new[N] = e /\ \A n \in DOMAIN out : new[n] = out[n]
    BY <2>1, <2>2, AppendIs
  <2>4. \A n \in DOMAIN out : out[n].source # l.source /\ out[n].mount # l.mount
    BY <1>5 DEF Taken, HeldAt
  <2> HIDE DEF new, N
  <2>5. Once(new)
    BY <2>2, <2>3, <2>4 DEF Good, Once
  <2>6. FromLines(new, S \cup {l})
    BY <2>2, <2>3 DEF Good, FromLines
  <2>7. HasOwn(new, S \cup {l}, own)
    <3> SUFFICES ASSUME NEW k \in (S \cup {l}) \cap own
                 PROVE  \E n \in DOMAIN new : new[n].source = k.source /\ new[n].mount.len <= k.mount.len
      BY DEF HasOwn
    <3>1. CASE k \in S
      <4>1. PICK n \in DOMAIN out : out[n].source = k.source /\ out[n].mount.len <= k.mount.len
        BY <3>1 DEF Good, HasOwn
      <4> QED BY <2>3, <4>1
    <3>2. CASE k = l
      BY <1>3, <2>2, <2>3, <3>2
    <3> QED BY <3>1, <3>2
  <2> QED BY <2>5, <2>6, <2>7 DEF Good, new
<1>6. CASE ~Taken(out, l) /\ HeldAt(out, l) # {}
  <2>1. new = [n \in DOMAIN out |-> Renamed(out, l, n)]
    BY <1>6, ListOne
  <2>2. DOMAIN new = DOMAIN out /\ \A n \in DOMAIN out : new[n] = Renamed(out, l, n)
    BY <2>1
  <2> HIDE DEF new
  <2>3. \A n \in DOMAIN out : new[n].source = out[n].source
    BY <2>2, RenamedIs
  <2>4. \A n \in DOMAIN out :
          new[n].mount = IF out[n].source = l.source /\ l.mount.len < out[n].mount.len
                         THEN l.mount ELSE out[n].mount
    BY <2>2, RenamedIs DEF HeldAt, Shorter
  <2>5. \A n \in DOMAIN out : out[n].mount # l.mount
    BY <1>6 DEF Taken
  <2>6. \A n \in DOMAIN out : new[n].mount.len <= out[n].mount.len
    BY <1>2, <1>3, <2>4
  <2>7. \A n \in DOMAIN out : out[n].source = l.source => new[n].mount.len <= l.mount.len
    BY <1>2, <1>3, <2>4
  <2>8. Once(new)
    <3> SUFFICES ASSUME NEW m \in DOMAIN out, NEW n \in DOMAIN out, m # n
                 PROVE  new[m].source # new[n].source /\ new[m].mount # new[n].mount
      BY <2>2 DEF Once
    <3>1. out[m].source # out[n].source /\ out[m].mount # out[n].mount
      BY DEF Good, Once
    <3> QED BY <2>3, <2>4, <2>5, <3>1
  <2>9. FromLines(new, S \cup {l})
    <3> SUFFICES ASSUME NEW n \in DOMAIN out
                 PROVE  \E k \in S \cup {l} : k.source = new[n].source /\ k.mount = new[n].mount
      BY <2>2 DEF FromLines
    <3>1. PICK k \in S : k.source = out[n].source /\ k.mount = out[n].mount
      BY DEF Good, FromLines
    <3> QED BY <2>3, <2>4, <3>1
  <2>10. HasOwn(new, S \cup {l}, own)
    <3> SUFFICES ASSUME NEW k \in (S \cup {l}) \cap own
                 PROVE  \E n \in DOMAIN out : new[n].source = k.source /\ new[n].mount.len <= k.mount.len
      BY <2>2 DEF HasOwn
    <3>1. CASE k \in S
      <4>1. PICK n \in DOMAIN out : out[n].source = k.source /\ out[n].mount.len <= k.mount.len
        BY <3>1 DEF Good, HasOwn
      <4>2. k.mount.len \in Nat
        BY <3>1 DEF HaveLengths
      <4>3. new[n].mount.len \in Nat
        BY <1>2, <1>3, <2>4
      <4>4. new[n].mount.len <= k.mount.len
        BY <1>2, <2>6, <4>1, <4>2, <4>3
      <4> QED BY <2>3, <4>1, <4>4
    <3>2. CASE k = l
      <4>1. PICK n \in DOMAIN out : out[n].source = l.source
        BY <1>6 DEF HeldAt
      <4> QED BY <2>3, <2>7, <3>2, <4>1
    <3> QED BY <3>1, <3>2
  <2> QED BY <2>8, <2>9, <2>10 DEF Good, new
<1> QED BY <1>4, <1>5, <1>6

\* So it is good in the end.
LEMMA FilesystemsAre ==
  ASSUME NEW V, NEW s \in Seq(V), NEW own, HaveLengths(RealFs(s)), OwnMounts(RealFs(s), own)
  PROVE  ParseFilesystems(s) \in Seq(Entries(RealFs(s))) /\ Good(ParseFilesystems(s), RealFs(s), own)
<1> DEFINE real == RealFs(s)
           rs == Those(s, real)
           r == CHOOSE g : g = [n \in 0..Len(rs) |-> IF n = 0 THEN <<>> ELSE ListFilesystem(g[n - 1], rs[n])]
<1>1. ParseFilesystems(s) = r[Len(rs)]
  BY DEF ParseFilesystems, RealFs
<1>2. rs \in Seq(V) /\ Range(rs) = real
  <2>1. real \subseteq Range(s)
    BY DEF RealFs, Of
  <2> HIDE DEF real
  <2>2. Those(s, real) \in Seq(V) /\ Range(Those(s, real)) = Range(s) \cap real
    BY ThoseAre
  <2> QED BY <2>1, <2>2
<1>3. rs \in Seq(real)
  <2> HIDE DEF rs, real
  <2>1. DOMAIN rs = 1..Len(rs) /\ Len(rs) \in Nat /\ \A n \in DOMAIN rs : rs[n] \in real
    BY <1>2, InRange
  <2>2. \A T : \A q \in Seq(T) : \A U : (\A n \in 1..Len(q) : q[n] \in U) => q \in Seq(U)
    OBVIOUS
  <2> QED BY <1>2, <2>1, <2>2
<1> DEFINE N == Len(rs)
<1>4. PICK f \in [0..N -> Seq(Entries(real))] : Lists(f, rs) /\ r[N] = f[N]
  <2> HIDE DEF rs, real
  <2>1. \E f \in [0..Len(rs) -> Seq(Entries(real))] : Lists(f, rs) /\ r[Len(rs)] = f[Len(rs)]
    BY <1>3, ListRuns
  <2> QED BY <2>1
<1>5. N \in Nat /\ \A n \in 1..N : rs[n] \in real
  <2> HIDE DEF rs, real
  <2> QED BY <1>3
<1>6. real = {rs[m] : m \in 1..N}
  <2> HIDE DEF rs, real
  <2>1. DOMAIN rs = 1..N
    BY <1>3
  <2> QED BY <1>2, <2>1 DEF Range
<1> HIDE DEF rs, r, N
<1> DEFINE So(n) == {rs[m] : m \in 1..n}
           T == {n \in 0..N : Good(f[n], So(n), own)}
<1> HIDE DEF real
<1>7. 0 \in T
  <2>1. f[0] = <<>> /\ So(0) = {} /\ DOMAIN <<>> = {}
    BY <1>4 DEF Lists
  <2> HIDE DEF So
  <2>2. Good(f[0], So(0), own)
    BY <2>1 DEF Good, Once, FromLines, HasOwn
  <2> QED BY <1>5, <2>2
<1>8. ASSUME NEW k \in T, k < N PROVE k + 1 \in T
  <2>1. k \in 0..N /\ k + 1 \in 1..N /\ k + 1 \in 0..N /\ k + 1 - 1 = k
    BY <1>5, <1>8
  <2>2. f[k + 1] = ListFilesystem(f[k], rs[k + 1])
    BY <1>4, <2>1 DEF Lists, N
  <2>3. So(k + 1) = So(k) \cup {rs[k + 1]}
    <3>1. 1..(k + 1) = 1..k \cup {k + 1}
      BY <2>1
    <3> QED BY <3>1
  <2>4. So(k) \in SUBSET real /\ rs[k + 1] \in real /\ f[k] \in Seq(Entries(real))
    BY <1>4, <1>5, <2>1
  <2>5. Good(f[k], So(k), own)
    OBVIOUS
  <2>6. HaveLengths(real) /\ OwnMounts(real, own)
    BY DEF real
  <2> HIDE DEF So
  <2>7. Good(ListFilesystem(f[k], rs[k + 1]), So(k) \cup {rs[k + 1]}, own)
    BY <2>4, <2>5, <2>6, ListHolds
  <2> QED BY <2>1, <2>2, <2>3, <2>7
<1>9. T = 0..N
  <2>1. T \in SUBSET (0..N)
    OBVIOUS
  <2> HIDE DEF T
  <2> QED BY <1>5, <1>7, <1>8, <2>1, UpTo
<1>10. N \in T /\ N \in 0..N
  <2> HIDE DEF T
  <2> QED BY <1>5, <1>9
<1>11. Good(f[N], So(N), own) /\ f[N] \in Seq(Entries(real))
  BY <1>4, <1>10
<1>12. So(N) = real
  BY <1>6
<1> HIDE DEF So
<1> QED BY <1>1, <1>4, <1>11, <1>12 DEF N, real

\* Of two fractions.
LEMMA FractionsTransitive ==
  ASSUME NEW a \in Nat, NEW b \in Nat, NEW c \in Nat,
         NEW x \in Nat \ {0}, NEW y \in Nat \ {0}, NEW z \in Nat \ {0},
         b * x <= a * y, c * y <= b * z
  PROVE  c * x <= a * z
<1>1. (b * x) * z <= (a * y) * z
  <2>1. \A u, v, w \in Nat : u <= v => u * w <= v * w
    OBVIOUS
  <2>2. b * x \in Nat /\ a * y \in Nat
    OBVIOUS
  <2> QED BY <2>1, <2>2
<1>2. (c * y) * x <= (b * z) * x
  <2>1. \A u, v, w \in Nat : u <= v => u * w <= v * w
    OBVIOUS
  <2>2. c * y \in Nat /\ b * z \in Nat
    OBVIOUS
  <2> QED BY <2>1, <2>2
<1>3. (b * x) * z = (b * z) * x
  OBVIOUS
<1>4. (c * x) * y <= (a * z) * y
  <2>1. (c * x) * y = (c * y) * x /\ (a * z) * y = (a * y) * z
    OBVIOUS
  <2>2. (c * y) * x \in Nat /\ (b * z) * x \in Nat /\ (a * y) * z \in Nat
    OBVIOUS
  <2> QED BY <1>1, <1>2, <1>3, <2>1, <2>2
<1>5. c * x \in Nat /\ a * z \in Nat
  OBVIOUS
<1>6. \A u, v \in Nat : \A w \in Nat \ {0} : u * w <= v * w => u <= v
  OBVIOUS
<1> QED BY <1>4, <1>5, <1>6

\* None is fuller than the fullest.
LEMMA FullestIs ==
  ASSUME NEW E, NEW all \in Seq(E), all # <<>>,
         \A e \in E : e.used \in Nat /\ e.total \in Nat \ {0}
  PROVE  \A e \in Range(all) : ~Fuller(e, Fullest(all))
<1> DEFINE N == Len(all)
           R == {p \in TwoOf(all) : Fuller(all[p[1]], all[p[2]])}
           W == {p \in (1..N) \X (1..N) : ~Fuller(all[p[2]], all[p[1]])}
           best == Left(N, R)
<1>1. Fullest(all) = IF best = 0 THEN Nothing ELSE all[best]
  BY DEF Fullest
<1>2. N \in Nat /\ N # 0 /\ DOMAIN all = 1..N /\ \A n \in 1..N : all[n] \in E
  OBVIOUS
<1>3. \A a, b \in 1..N : (<<a, b>> \in R <=> Fuller(all[a], all[b])) /\ (<<a, b>> \in W <=> ~Fuller(all[b], all[a]))
  BY <1>2 DEF TwoOf
<1>4. \A k : <<0, k>> \notin R
  <2>1. R \subseteq (1..N) \X (1..N) /\ 0 \notin 1..N
    BY <1>2 DEF TwoOf
  <2> HIDE DEF R
  <2> QED BY <2>1
<1> HIDE DEF R, W
<1>5. NoWorse(W, R, N)
  <2> DEFINE u == [n \in 1..N |-> all[n].used]
             t == [n \in 1..N |-> all[n].total]
  <2>1. \A n \in 1..N : u[n] \in Nat /\ t[n] \in Nat \ {0}
    BY <1>2
  <2>2. \A a, b \in 1..N : Fuller(all[a], all[b]) <=> u[a] * t[b] > u[b] * t[a]
    BY DEF Fuller
  <2>3. \A a, b \in 1..N : u[a] * t[b] \in Nat
    BY <2>1
  <2> HIDE DEF u, t, N
  <2>4. \A a, b \in 1..N : ~Fuller(all[b], all[a]) <=> u[b] * t[a] <= u[a] * t[b]
    BY <2>2, <2>3
  <2>5. \A a, b \in 1..N : Fuller(all[a], all[b]) => ~Fuller(all[b], all[a])
    BY <2>2, <2>3
  <2>6. \A a \in 1..N : ~Fuller(all[a], all[a])
    BY <2>2, <2>3
  <2>7. ASSUME NEW a \in 1..N, NEW b \in 1..N, NEW c \in 1..N,
               ~Fuller(all[b], all[a]), ~Fuller(all[c], all[b])
        PROVE  ~Fuller(all[c], all[a])
    <3>1. u[b] * t[a] <= u[a] * t[b] /\ u[c] * t[b] <= u[b] * t[c]
      BY <2>4, <2>7
    <3>2. u[c] * t[a] <= u[a] * t[c]
      BY <2>1, <3>1, FractionsTransitive
    <3> QED BY <2>4, <3>2
  <2>8. \A a, b \in 1..N : <<a, b>> \in R => <<a, b>> \in W
    BY <1>3, <2>5
  <2>9. \A a, b \in 1..N : <<a, b>> \notin R => <<b, a>> \in W
    BY <1>3
  <2>10. \A a \in 1..N : <<a, a>> \in W
    BY <1>3, <2>6
  <2>11. \A a, b, c \in 1..N : <<a, b>> \in W /\ <<b, c>> \in W => <<a, c>> \in W
    BY <1>3, <2>7
  <2> QED BY <2>8, <2>9, <2>10, <2>11 DEF NoWorse
<1> HIDE DEF N
<1>6. best \in 1..N /\ \A m \in 1..N : <<best, m>> \in W
  BY <1>2, <1>4, <1>5, LeftIs
<1> HIDE DEF best
<1>7. Fullest(all) = all[best]
  BY <1>1, <1>2, <1>6
<1>8. \A m \in 1..N : ~Fuller(all[m], all[best])
  BY <1>3, <1>6
<1> QED BY <1>2, <1>7, <1>8, InRange

\* Each filesystem is one entry, none that has a name of its own is lost, and none is
\* fuller than the fullest (parse_filesystems, facts.rs:168, fullest, facts.rs:226).
LEMMA FilesystemsAreOnce ==
  ASSUME Inv
  PROVE  FilesystemsCountedOnce
<1> DEFINE out == ParseFilesystems(lines)
           real == RealFs(lines)
           own == {l \in real : \A k \in real : k.mount = l.mount => k.source = l.source}
<1>1. lines \in Seq(LinesOf[plane]) /\ plane \in DOMAIN LinesOf
  BY DEF Inv
<1>2. ASSUME NEW l \in real PROVE l.mount.len \in Nat /\ l.used \in Nat /\ l.total \in Nat \ {0}
  <2>1. l \in LinesOf[plane] /\ l.tag = "TXF" /\ NaN \notin {l.total, l.used} /\ l.total # 0
    BY <1>1, InRange DEF RealFs, Of
  <2>2. {l.total, l.used} \subseteq {NaN} \cup Nat /\ l.mount.len \in Nat
    BY <1>1, <2>1, LineTypes DEF HasNumbers
  <2> QED BY <2>1, <2>2
<1> HIDE DEF real
<1>3. HaveLengths(real) /\ OwnMounts(real, own)
  BY <1>2 DEF HaveLengths, OwnMounts
<1>4. out \in Seq(Entries(real)) /\ Good(out, real, own)
  <2> HIDE DEF own
  <2> QED BY <1>1, <1>3, FilesystemsAre DEF real
<1>5. \A e \in Entries(real) : e.used \in Nat /\ e.total \in Nat \ {0}
  BY <1>2 DEF Entries
<1> HIDE DEF out
<1>6. \A e \in Range(out) : ~Fuller(e, Fullest(out))
  <2>1. out = <<>> => Range(out) = {}
    BY DEF Range
  <2>2. out # <<>> => \A e \in Range(out) : ~Fuller(e, Fullest(out))
    BY <1>4, <1>5, FullestIs
  <2> QED BY <2>1, <2>2
<1>7. \A m, n \in DOMAIN out : m # n => out[m].source # out[n].source /\ out[m].mount # out[n].mount
  BY <1>4 DEF Good, Once
<1>8. \A e \in Range(out) : \E l \in real : l.source = e.source /\ l.mount = e.mount
  BY <1>4, InRange DEF Good, FromLines
<1>9. \A l \in own : \E e \in Range(out) : e.source = l.source /\ e.mount.len <= l.mount.len
  <2> TAKE l \in own
  <2>1. PICK n \in DOMAIN out : out[n].source = l.source /\ out[n].mount.len <= l.mount.len
    BY <1>4 DEF Good, HasOwn
  <2>2. out[n] \in Range(out)
    BY <1>4, InRange
  <2> QED BY <2>1, <2>2
<1>10. FilesystemsCountedOnce
  <2>1. /\ \A m, n \in DOMAIN ParseFilesystems(lines) : m # n =>
             /\ ParseFilesystems(lines)[m].source # ParseFilesystems(lines)[n].source
             /\ ParseFilesystems(lines)[m].mount # ParseFilesystems(lines)[n].mount
        /\ \A e \in Range(ParseFilesystems(lines)) :
             \E l \in RealFs(lines) : l.source = e.source /\ l.mount = e.mount
        /\ \A l \in own : \E e \in Range(ParseFilesystems(lines)) :
             e.source = l.source /\ e.mount.len <= l.mount.len
        /\ \A e \in Range(ParseFilesystems(lines)) : ~Fuller(e, Fullest(ParseFilesystems(lines)))
    BY <1>6, <1>7, <1>8, <1>9 DEF out, real
  <2> QED BY <2>1 DEF FilesystemsCountedOnce, RealFs, real
<1> QED BY <1>10

-----------------------------------------------------------------------------
(* What a host has moved. *)

\* What one line says was moved.
Says(l, tag, field) ==
  IF l.tag = tag /\ l.ok /\ l.kind \in Counted /\ l[field] # NaN THEN l[field] ELSE 0

Moved(s, tag, field) == Sum([n \in DOMAIN s |-> Says(s[n], tag, field)])

\* The lines that count.
CountedOf(s, tag) == {l \in Of(s, tag) : l.kind \in Counted}

\* The sum over the lines that count is the sum of what each line says.
LEMMA EachLineCounts ==
  ASSUME NEW V, NEW s \in Seq(V), NEW tag, NEW field,
         \A l \in V : l.tag = tag => l[field] \in {NaN} \cup Nat
  PROVE  Sum([n \in DOMAIN Those(s, CountedOf(s, tag)) |-> OrZero(Those(s, CountedOf(s, tag))[n][field])])
           = Moved(s, tag, field)
<1> DEFINE w == [l \in V |-> Says(l, tag, field)]
           S == CountedOf(s, tag)
           t == Those(s, S)
<1>1. w \in [V -> Nat]
  <2>1. ASSUME NEW l \in V PROVE Says(l, tag, field) \in Nat
    BY DEF Says
  <2> QED BY <2>1
<1>2. ASSUME NEW l \in Range(s), l \notin S PROVE w[l] = 0
  <2>1. l \in V
    BY InRange
  <2>2. Says(l, tag, field) = 0
    BY <1>2 DEF Says, CountedOf, Of
  <2> QED BY <2>1, <2>2
<1>3. Sum([n \in DOMAIN t |-> w[t[n]]]) = Sum([n \in DOMAIN s |-> w[s[n]]])
  <2>1. \A l \in Range(s) : l \notin S => w[l] = 0
    BY <1>2
  <2> HIDE DEF w, S
  <2>2. Sum([n \in DOMAIN Those(s, S) |-> w[Those(s, S)[n]]]) = Sum([n \in DOMAIN s |-> w[s[n]]])
    BY <1>1, <2>1, SumOfThose
  <2> QED BY <2>2
<1>4. t \in Seq(V) /\ Range(t) = Range(s) \cap S
  BY ThoseAre
<1> HIDE DEF t
<1>5. ASSUME NEW n \in DOMAIN t PROVE OrZero(t[n][field]) = w[t[n]]
  <2>1. t[n] \in Range(s) /\ t[n] \in S /\ t[n] \in V
    BY <1>4, InRange
  <2>2. t[n].tag = tag /\ t[n].ok /\ t[n].kind \in Counted
    BY <2>1 DEF CountedOf, Of
  <2>3. OrZero(t[n][field]) = Says(t[n], tag, field)
    BY <2>2 DEF OrZero, Says
  <2> QED BY <2>1, <2>3
<1>6. ASSUME NEW n \in DOMAIN s PROVE Says(s[n], tag, field) = w[s[n]]
  <2>1. s[n] \in V
    OBVIOUS
  <2> QED BY <2>1
<1> HIDE DEF w
<1>7. [n \in DOMAIN t |-> OrZero(t[n][field])] = [n \in DOMAIN t |-> w[t[n]]]
  BY <1>5
<1>8. [n \in DOMAIN s |-> Says(s[n], tag, field)] = [n \in DOMAIN s |-> w[s[n]]]
  BY <1>6
<1> QED BY <1>3, <1>7, <1>8 DEF t, Moved

\* Of the names there are, those that pass is_whole_disk are the whole disks without a
\* number for a name, and those that parse_net_dev does not skip are the host's own
\* links and what stands in front of them.
LEMMA CountedByName ==
  ASSUME NEW p \in DOMAIN LinesOf, NEW l \in LinesOf[p]
  PROVE  /\ l.tag = "disk" => (IsWholeDisk(l.name) <=> l.kind \in Counted)
         /\ l.tag = "net"  => (l.iface.start \notin VirtualLinks <=> l.kind \in Counted)
<1>1. NamedByTheKernel(l)
  BY LineTypes
<1>2. ASSUME l.tag = "disk" PROVE IsWholeDisk(l.name) <=> l.kind \in Counted
  <2>1. l.kind \in {"whole", "partition", "other", "numbered"} /\ l.name \in BlockNames[l.kind]
    BY <1>1, <1>2 DEF NamedByTheKernel, BlockNames
  <2>2. CASE l.kind = "whole"
    <3>1. BlockNames["whole"] = [start: {"sd", "vd", "hd", "xvd"}, p: BOOLEAN, digit: {FALSE}]
                            \cup [start: {"nvme", "mmcblk"}, p: {FALSE}, digit: {TRUE}]
      BY DEF BlockNames
    <3>2. \/ l.name \in [start: {"sd", "vd", "hd", "xvd"}, p: BOOLEAN, digit: {FALSE}]
          \/ l.name \in [start: {"nvme", "mmcblk"}, p: {FALSE}, digit: {TRUE}]
      BY <2>1, <2>2, <3>1, Zenon
    <3>3. \/ l.name.start \in {"sd", "vd", "hd", "xvd"} /\ ~l.name.digit
          \/ l.name.start \in {"nvme", "mmcblk"} /\ ~l.name.p
      BY <3>2
    <3>4. IsWholeDisk(l.name)
      BY <3>3 DEF IsWholeDisk
    <3> QED BY <2>2, <3>4 DEF Counted
  <2>3. CASE l.kind = "partition"
    <3>1. BlockNames["partition"] = [start: {"sd", "vd", "hd", "xvd"}, p: BOOLEAN, digit: {TRUE}]
                            \cup [start: {"nvme", "mmcblk"}, p: {TRUE}, digit: {TRUE}]
      BY DEF BlockNames
    <3>2. \/ l.name \in [start: {"sd", "vd", "hd", "xvd"}, p: BOOLEAN, digit: {TRUE}]
          \/ l.name \in [start: {"nvme", "mmcblk"}, p: {TRUE}, digit: {TRUE}]
      BY <2>1, <2>3, <3>1, Zenon
    <3>3. \/ l.name.start \in {"sd", "vd", "hd", "xvd"} /\ l.name.digit
          \/ l.name.start \in {"nvme", "mmcblk"} /\ l.name.p
      BY <3>2
    <3>4. ~IsWholeDisk(l.name)
      BY <3>3 DEF IsWholeDisk
    <3> QED BY <2>3, <3>4 DEF Counted
  <2>4. CASE l.kind = "other"
    <3>1. BlockNames["other"] = [start: {"loop", "dm-", "md", "zram", "ram", "sr", "zd", "bcache"}, p: BOOLEAN, digit: {TRUE}]
      BY DEF BlockNames
    <3>2. l.name \in [start: {"loop", "dm-", "md", "zram", "ram", "sr", "zd", "bcache"}, p: BOOLEAN, digit: {TRUE}]
      BY <2>1, <2>4, <3>1, Zenon
    <3>3. l.name.start \in {"loop", "dm-", "md", "zram", "ram", "sr", "zd", "bcache"} /\ l.name.digit
      BY <3>2
    <3>4. ~IsWholeDisk(l.name)
      BY <3>3 DEF IsWholeDisk
    <3> QED BY <2>4, <3>4 DEF Counted
  <2>5. CASE l.kind = "numbered"
    <3>1. BlockNames["numbered"] = [start: {"rbd", "nbd", "pmem"}, p: BOOLEAN, digit: {TRUE}]
      BY DEF BlockNames
    <3>2. l.name \in [start: {"rbd", "nbd", "pmem"}, p: BOOLEAN, digit: {TRUE}]
      BY <2>1, <2>5, <3>1, Zenon
    <3>3. l.name.start \in {"rbd", "nbd", "pmem"} /\ l.name.digit
      BY <3>2
    <3>4. ~IsWholeDisk(l.name)
      BY <3>3 DEF IsWholeDisk
    <3> QED BY <2>5, <3>4 DEF Counted
  <2> QED BY <2>1, <2>2, <2>3, <2>4, <2>5
<1>3. ASSUME l.tag = "net" PROVE l.iface.start \notin VirtualLinks <=> l.kind \in Counted
  <2>1. l.kind \in {"own", "inside", "stacked"} /\ l.iface.start \in LinkNames[l.kind]
    BY <1>1, <1>3 DEF NamedByTheKernel, LinkNames
  <2> QED BY <2>1 DEF LinkNames, VirtualLinks, Counted
<1> QED BY <1>2, <1>3

\* The bytes that were moved are those that the lines that count say
\* (parse_diskstats, sampler.rs:530, parse_net_dev, sampler.rs:492).
LEMMA MovedIs ==
  ASSUME NEW p \in DOMAIN LinesOf, NEW s \in Seq(LinesOf[p])
  PROVE  /\ ParseDiskstats(s) = <<512 * Moved(s, "disk", "read"), 512 * Moved(s, "disk", "written")>>
         /\ ParseNetDev(s) = <<Moved(s, "net", "rx"), Moved(s, "net", "tx")>>
<1> DEFINE V == LinesOf[p]
           disks == Those(s, {l \in Of(s, "disk") : IsWholeDisk(l.name)})
           links == Those(s, {l \in Of(s, "net") : l.iface.start \notin VirtualLinks})
<1>1. \A l \in Range(s) : l \in V
  BY InRange
<1>2. disks = Those(s, CountedOf(s, "disk"))
  <2>1. {l \in Of(s, "disk") : IsWholeDisk(l.name)} = CountedOf(s, "disk")
    BY <1>1, CountedByName DEF CountedOf, Of
  <2> QED BY <2>1
<1>3. links = Those(s, CountedOf(s, "net"))
  <2>1. {l \in Of(s, "net") : l.iface.start \notin VirtualLinks} = CountedOf(s, "net")
    BY <1>1, CountedByName DEF CountedOf, Of
  <2> QED BY <2>1
<1>4. \A l \in V : HasNumbers(l)
  BY Numbers
<1>5. /\ \A l \in V : l.tag = "disk" => l["read"] \in {NaN} \cup Nat
      /\ \A l \in V : l.tag = "disk" => l["written"] \in {NaN} \cup Nat
      /\ \A l \in V : l.tag = "net" => l["rx"] \in {NaN} \cup Nat
      /\ \A l \in V : l.tag = "net" => l["tx"] \in {NaN} \cup Nat
  BY <1>4 DEF HasNumbers
<1>6. ParseDiskstats(s) = <<512 * Sum([n \in DOMAIN disks |-> OrZero(disks[n].read)]),
                            512 * Sum([n \in DOMAIN disks |-> OrZero(disks[n].written)])>>
  BY DEF ParseDiskstats, SectorBytes
<1>7. ParseNetDev(s) = <<Sum([n \in DOMAIN links |-> OrZero(links[n].rx)]),
                         Sum([n \in DOMAIN links |-> OrZero(links[n].tx)])>>
  BY DEF ParseNetDev
<1> HIDE DEF disks, links, V
<1>8. Sum([n \in DOMAIN disks |-> OrZero(disks[n].read)]) = Moved(s, "disk", "read")
  <2>1. s \in Seq(V)
    BY DEF V
  <2> QED BY <1>2, <1>5, <2>1, EachLineCounts
<1>9. Sum([n \in DOMAIN disks |-> OrZero(disks[n].written)]) = Moved(s, "disk", "written")
  <2>1. s \in Seq(V)
    BY DEF V
  <2> QED BY <1>2, <1>5, <2>1, EachLineCounts
<1>10. Sum([n \in DOMAIN links |-> OrZero(links[n].rx)]) = Moved(s, "net", "rx")
  <2>1. s \in Seq(V)
    BY DEF V
  <2> QED BY <1>3, <1>5, <2>1, EachLineCounts
<1>11. Sum([n \in DOMAIN links |-> OrZero(links[n].tx)]) = Moved(s, "net", "tx")
  <2>1. s \in Seq(V)
    BY DEF V
  <2> QED BY <1>3, <1>5, <2>1, EachLineCounts
<1> QED BY <1>6, <1>7, <1>8, <1>9, <1>10, <1>11

\* What was moved is what the whole disks and the links say, each once, and the bridges,
\* taps and bonds that parse_net_dev has no name for; what is stored is one entry a
\* filesystem (is_whole_disk, sampler.rs:557; parse_filesystems, facts.rs:168; fullest,
\* facts.rs:226).
THEOREM DevicesCountedOnceCorrect == Spec => []DevicesCountedOnce
<1>1. Inv => FilesystemsCountedOnce
  BY FilesystemsAreOnce
<1>2. Inv => DisksCountedOnce
  <2> SUFFICES ASSUME Inv PROVE DisksCountedOnce
    OBVIOUS
  <2>1. lines \in Seq(LinesOf[plane]) /\ plane \in DOMAIN LinesOf
    BY DEF Inv
  <2>2. /\ ParseDiskstats(lines) = <<512 * Moved(lines, "disk", "read"),
                                      512 * Moved(lines, "disk", "written")>>
        /\ ParseNetDev(lines) = <<Moved(lines, "net", "rx"), Moved(lines, "net", "tx")>>
    BY <2>1, MovedIs
  <2> QED BY <2>2 DEF DisksCountedOnce, Moved, Says
<1>3. Inv => DevicesCountedOnce
  BY <1>1, <1>2 DEF DevicesCountedOnce
<1> QED BY <1>3, InputsCorrect, PTL
=============================================================================
