------------------------ MODULE EventStream_proofs ------------------------
(***************************************************************************)
(* Proofs about EventStream: its three safety properties, for every size   *)
(* of channel, ring and wire, every number of events and of faults.        *)
(*                                                                         *)
(* The functions that read bytes (Dechunk, SplitFrames, Outcomes) recur on *)
(* what is left of a sequence.  The first part shows that such a function  *)
(* exists and equals its body; the second, by induction on the length of   *)
(* the bytes, how each of them goes on when more bytes arrive; the third   *)
(* what the server's chunks decode to; the last takes the session and its  *)
(* server through every step.                                              *)
(***************************************************************************)
EXTENDS EventStream, SequenceTheorems, NaturalsInduction, WellFoundedInduction, TLAPS

-----------------------------------------------------------------------------
(* Recursion. *)

LEMMA NatsByInduction ==
  ASSUME NEW T \in SUBSET Nat, 0 \in T, \A n \in T : n + 1 \in T
  PROVE  T = Nat
<1>1. SUFFICES ASSUME Nat \ T # {} PROVE FALSE
  OBVIOUS
<1>2. PICK m \in Nat \ T : \A k \in Nat \ T : ~(<<k, m>> \in OpToRel(<, Nat))
  BY <1>1, NatLessThanWellFounded, WFMin
<1>3. m - 1 \in T
  <2>1. m # 0
    OBVIOUS
  <2>2. m - 1 \in Nat /\ m - 1 < m
    BY <2>1
  <2>3. <<m - 1, m>> \in OpToRel(<, Nat)
    BY <2>2 DEF OpToRel
  <2> QED BY <1>2, <2>2, <2>3
<1>4. m - 1 + 1 = m
  OBVIOUS
<1> QED BY <1>2, <1>3, <1>4

\* F[<<g, s>>], the next value at s, looks at g only where size is smaller.
Recursive(S, size, V, F) ==
  /\ size \in [S -> Nat] /\ V # {} /\ F \in [[S -> V] \X S -> V]
  /\ \A g, h \in [S -> V] : \A s \in S :
       (\A r \in S : size[r] < size[s] => g[r] = h[r]) => F[<<g, s>>] = F[<<h, s>>]
Solves(f, S, V, F) == f \in [S -> V] /\ \A s \in S : f[s] = F[<<f, s>>]

\* Then there is a function whose values are the next ones.
LEMMA RecursionExists ==
  ASSUME NEW S, NEW size, NEW V, NEW F, Recursive(S, size, V, F)
  PROVE  \E f : Solves(f, S, V, F)
<1> USE DEF Recursive
<1> DEFINE Upto(g, n) == \A s \in S : size[s] < n => g[s] = F[<<g, s>>]
           T == {n \in Nat : \E g \in [S -> V] : Upto(g, n)}
<1>1. 0 \in T
  <2>1. PICK v \in V : TRUE
    OBVIOUS
  <2> DEFINE g == [s \in S |-> v]
  <2>2. g \in [S -> V] /\ Upto(g, 0)
    OBVIOUS
  <2> HIDE DEF g, Upto
  <2> QED BY <2>2
<1>2. ASSUME NEW n \in T PROVE n + 1 \in T
  <2>1. PICK g \in [S -> V] : Upto(g, n)
    OBVIOUS
  <2>2. n \in Nat /\ n + 1 \in Nat
    OBVIOUS
  <2> DEFINE h == [s \in S |-> F[<<g, s>>]]
  <2>3. h \in [S -> V]
    OBVIOUS
  <2>4. ASSUME NEW s \in S, size[s] < n + 1 PROVE h[s] = F[<<h, s>>]
    <3>1. \A r \in S : size[r] < size[s] => g[r] = h[r]
      <4> TAKE r \in S
      <4> HAVE size[r] < size[s]
      <4>1. size[r] < n
        BY <2>2, <2>4
      <4> QED BY <2>1, <4>1
    <3>2. h[s] = F[<<g, s>>]
      OBVIOUS
    <3> HIDE DEF h
    <3> QED BY <2>3, <3>1, <3>2
  <2> HIDE DEF h
  <2>5. Upto(h, n + 1)
    BY <2>4
  <2> HIDE DEF Upto
  <2> QED BY <2>2, <2>3, <2>5
<1>3. T = Nat
  <2> HIDE DEF T
  <2>1. T \in SUBSET Nat
    BY DEF T
  <2> QED BY <1>1, <1>2, <2>1, NatsByInduction
<1>4. ASSUME NEW g \in [S -> V], NEW h \in [S -> V], NEW m \in Nat, NEW n \in Nat, Upto(g, m), Upto(h, n),
             NEW s \in S, size[s] < m, size[s] < n
      PROVE  g[s] = h[s]
  <2> DEFINE U == {k \in Nat : \A r \in S : size[r] < k /\ size[r] < m /\ size[r] < n => g[r] = h[r]}
  <2>1. 0 \in U
    OBVIOUS
  <2>2. ASSUME NEW k \in U PROVE k + 1 \in U
    <3>1. ASSUME NEW r \in S, size[r] < k + 1, size[r] < m, size[r] < n PROVE g[r] = h[r]
      <4>1. \A q \in S : size[q] < size[r] => g[q] = h[q]
        <5> TAKE q \in S
        <5> HAVE size[q] < size[r]
        <5>1. size[q] < k /\ size[q] < m /\ size[q] < n
          BY <3>1
        <5> QED BY <5>1
      <4>2. F[<<g, r>>] = F[<<h, r>>]
        BY <4>1
      <4> QED BY <1>4, <3>1, <4>2
    <3>2. k + 1 \in Nat
      OBVIOUS
    <3> QED BY <3>1, <3>2
  <2>3. U = Nat
    <3> HIDE DEF U
    <3>1. U \in SUBSET Nat
      BY DEF U
    <3> QED BY <2>1, <2>2, <3>1, NatsByInduction
  <2>4. m \in U
    BY <2>3
  <2> QED BY <1>4, <2>4
<1> DEFINE G(n) == CHOOSE g \in [S -> V] : Upto(g, n)
           f == [s \in S |-> G(size[s] + 1)[s]]
<1>5. \A n \in Nat : G(n) \in [S -> V] /\ Upto(G(n), n)
  <2> TAKE n \in Nat
  <2>1. n \in T
    BY <1>3
  <2>2. \E g \in [S -> V] : Upto(g, n)
    BY <2>1
  <2> HIDE DEF Upto
  <2> QED BY <2>2
<1>6. \A s \in S : size[s] \in Nat /\ size[s] + 1 \in Nat /\ size[s] < size[s] + 1
  OBVIOUS
<1> HIDE DEF G
<1>7. f \in [S -> V]
  <2> HIDE DEF Upto
  <2> QED BY <1>5, <1>6
<1>8. ASSUME NEW s \in S PROVE f[s] = F[<<f, s>>]
  <2> DEFINE n == size[s] + 1
             g == G(n)
  <2>1. n \in Nat /\ size[s] < n
    BY <1>6
  <2>2. g \in [S -> V] /\ Upto(g, n)
    BY <1>5, <2>1
  <2>3. \A r \in S : size[r] < size[s] => g[r] = f[r]
    <3> TAKE r \in S
    <3> HAVE size[r] < size[s]
    <3>1. size[r] < n /\ size[r] + 1 \in Nat /\ size[r] < size[r] + 1
      BY <1>6
    <3>2. G(size[r] + 1) \in [S -> V] /\ Upto(G(size[r] + 1), size[r] + 1)
      BY <1>5, <3>1
    <3> HIDE DEF n, g, Upto
    <3>3. g[r] = G(size[r] + 1)[r]
      BY <1>4, <2>1, <2>2, <3>1, <3>2
    <3> QED BY <3>3
  <2>4. f[s] = F[<<g, s>>]
    BY <2>1, <2>2
  <2> HIDE DEF f, g, n
  <2> QED BY <1>7, <2>2, <2>3, <2>4
<1> HIDE DEF f
<1> QED BY <1>7, <1>8 DEF Solves

-----------------------------------------------------------------------------
(* Pieces of sequences. *)

LEMMA DropFacts ==
  ASSUME NEW S, NEW s \in Seq(S), NEW n \in 0 .. Len(s)
  PROVE  /\ Drop(s, n) \in Seq(S)
         /\ Len(Drop(s, n)) = Len(s) - n
         /\ \A i \in 1 .. Len(s) - n : Drop(s, n)[i] = s[n + i]
<1>1. Len(s) \in Nat /\ \A i \in 1 .. Len(s) : s[i] \in S
  BY LenProperties, ElementOfSeq
<1>2. \A i \in n + 1 .. Len(s) : s[i] \in S
  BY <1>1
<1>3. n + 1 \in Int /\ Len(s) \in Int
  BY <1>1
<1>4. /\ SubSeq(s, n + 1, Len(s)) \in Seq(S)
      /\ Len(SubSeq(s, n + 1, Len(s))) = IF n + 1 <= Len(s) THEN Len(s) - (n + 1) + 1 ELSE 0
      /\ \A i \in 1 .. Len(s) - (n + 1) + 1 : SubSeq(s, n + 1, Len(s))[i] = s[n + 1 + i - 1]
  BY <1>2, <1>3, SubSeqProperties
<1>5. Len(s) - (n + 1) + 1 = Len(s) - n /\ \A i \in 1 .. Len(s) - n : n + 1 + i - 1 = n + i
  BY <1>1
<1>6. Len(SubSeq(s, n + 1, Len(s))) = Len(s) - n
  BY <1>1, <1>4
<1>7. \A i \in 1 .. Len(s) - n : SubSeq(s, n + 1, Len(s))[i] = s[n + i]
  BY <1>4, <1>5
<1> QED BY <1>4, <1>6, <1>7 DEF Drop

\* What Drop and SubSeq from the front return, and how they compose.
LEMMA TakeFacts ==
  ASSUME NEW S, NEW s \in Seq(S), NEW n \in 0 .. Len(s)
  PROVE  /\ SubSeq(s, 1, n) \in Seq(S)
         /\ Len(SubSeq(s, 1, n)) = n
         /\ \A i \in 1 .. n : SubSeq(s, 1, n)[i] = s[i]
<1>1. Len(s) \in Nat /\ \A i \in 1 .. Len(s) : s[i] \in S
  BY LenProperties, ElementOfSeq
<1>2. (\A i \in 1 .. n : s[i] \in S) /\ 1 \in Int /\ n \in Int
  BY <1>1
<1>3. /\ SubSeq(s, 1, n) \in Seq(S)
      /\ Len(SubSeq(s, 1, n)) = IF 1 <= n THEN n - 1 + 1 ELSE 0
      /\ \A i \in 1 .. n - 1 + 1 : SubSeq(s, 1, n)[i] = s[1 + i - 1]
  BY <1>2, SubSeqProperties
<1>4. n - 1 + 1 = n /\ \A i \in 1 .. n : 1 + i - 1 = i
  BY <1>1
<1>5. Len(SubSeq(s, 1, n)) = n
  BY <1>1, <1>3
<1> QED BY <1>3, <1>4, <1>5

LEMMA DropNone ==
  ASSUME NEW S, NEW s \in Seq(S)
  PROVE  Drop(s, 0) = s
<1>1. Len(s) \in Nat /\ 0 \in 0 .. Len(s)
  BY LenProperties
<1>2. Drop(s, 0) \in Seq(S) /\ Len(Drop(s, 0)) = Len(s) /\ \A i \in 1 .. Len(s) : Drop(s, 0)[i] = s[i]
  <2>1. Drop(s, 0) \in Seq(S) /\ Len(Drop(s, 0)) = Len(s) - 0 /\ \A i \in 1 .. Len(s) - 0 : Drop(s, 0)[i] = s[0 + i]
    BY <1>1, DropFacts
  <2>2. Len(s) - 0 = Len(s) /\ \A i \in 1 .. Len(s) : 0 + i = i
    BY <1>1
  <2> QED BY <2>1, <2>2
<1> QED BY <1>2, SeqEqual

LEMMA DropAll ==
  ASSUME NEW S, NEW s \in Seq(S)
  PROVE  Drop(s, Len(s)) = <<>>
<1>1. Len(s) \in Nat
  BY LenProperties
<1> QED BY <1>1, SubSeqEmpty DEF Drop

LEMMA DropConcat ==
  ASSUME NEW S, NEW s \in Seq(S), NEW t \in Seq(S), NEW n \in 0 .. Len(s)
  PROVE  Drop(s \o t, n) = Drop(s, n) \o t
<1>1. Len(s) \in Nat /\ Len(t) \in Nat
  BY LenProperties
<1>2. /\ s \o t \in Seq(S) /\ Len(s \o t) = Len(s) + Len(t)
      /\ \A i \in 1 .. Len(s) + Len(t) : (s \o t)[i] = IF i <= Len(s) THEN s[i] ELSE t[i - Len(s)]
  BY ConcatProperties
<1>3. n \in 0 .. Len(s \o t)
  BY <1>1, <1>2
<1> DEFINE u == s \o t
           d == Drop(s, n)
<1> HIDE DEF u, d
<1>4. /\ Drop(u, n) \in Seq(S) /\ Len(Drop(u, n)) = Len(u) - n
      /\ \A i \in 1 .. Len(u) - n : Drop(u, n)[i] = u[n + i]
  BY <1>2, <1>3, DropFacts, ZenonT(40) DEF u
<1>5. d \in Seq(S) /\ Len(d) = Len(s) - n /\ \A i \in 1 .. Len(s) - n : d[i] = s[n + i]
  BY DropFacts DEF d
<1>6. /\ d \o t \in Seq(S) /\ Len(d \o t) = Len(d) + Len(t)
      /\ \A i \in 1 .. Len(d) + Len(t) : (d \o t)[i] = IF i <= Len(d) THEN d[i] ELSE t[i - Len(d)]
  BY <1>5, ConcatProperties
<1>7. Len(Drop(u, n)) = Len(d \o t)
  BY <1>1, <1>2, <1>4, <1>5, <1>6 DEF u
<1>8. ASSUME NEW i \in 1 .. Len(Drop(u, n)) PROVE Drop(u, n)[i] = (d \o t)[i]
  <2>1. Len(u) = Len(s) + Len(t) /\ i \in 1 .. Len(s) + Len(t) - n /\ n \in Nat /\ i \in Nat
    BY <1>1, <1>2, <1>4, <1>8 DEF u
  <2>2. Drop(u, n)[i] = u[n + i]
    BY <1>4, <2>1
  <2>3. u[n + i] = IF n + i <= Len(s) THEN s[n + i] ELSE t[n + i - Len(s)]
    <3>1. n + i \in 1 .. Len(s) + Len(t)
      BY <1>1, <2>1
    <3> QED BY <1>2, <3>1 DEF u
  <2>4. (d \o t)[i] = IF i <= Len(d) THEN d[i] ELSE t[i - Len(d)]
    <3>1. i \in 1 .. Len(d) + Len(t)
      BY <1>1, <1>5, <2>1
    <3> QED BY <1>6, <3>1
  <2>5. CASE n + i <= Len(s)
    <3>1. i \in 1 .. Len(s) - n /\ i <= Len(d)
      BY <1>1, <1>5, <2>1, <2>5
    <3> QED BY <1>5, <2>2, <2>3, <2>4, <2>5, <3>1
  <2>6. CASE ~(n + i <= Len(s))
    <3>1. ~(i <= Len(d)) /\ n + i - Len(s) = i - Len(d)
      BY <1>1, <1>5, <2>1, <2>6
    <3> QED BY <2>2, <2>3, <2>4, <2>6, <3>1
  <2> QED BY <2>5, <2>6
<1>9. Drop(u, n) = d \o t
  BY <1>4, <1>6, <1>7, <1>8, SeqEqual
<1> QED BY <1>9 DEF u, d

LEMMA DropDrop ==
  ASSUME NEW S, NEW s \in Seq(S), NEW m \in 0 .. Len(s), NEW n \in 0 .. Len(s) - m
  PROVE  Drop(Drop(s, m), n) = Drop(s, m + n)
<1>1. Len(s) \in Nat /\ m \in Nat /\ n \in Nat /\ m + n \in 0 .. Len(s)
  <2>1. Len(s) \in Nat
    BY LenProperties
  <2> QED BY <2>1
<1> DEFINE d == Drop(s, m)
<1>2. d \in Seq(S) /\ Len(d) = Len(s) - m /\ \A i \in 1 .. Len(s) - m : d[i] = s[m + i]
  BY DropFacts
<1> HIDE DEF d
<1>3. n \in 0 .. Len(d)
  BY <1>2
<1>4. Drop(d, n) \in Seq(S) /\ Len(Drop(d, n)) = Len(d) - n /\ \A i \in 1 .. Len(d) - n : Drop(d, n)[i] = d[n + i]
  BY <1>2, <1>3, DropFacts, ZenonT(40)
<1>5. /\ Drop(s, m + n) \in Seq(S) /\ Len(Drop(s, m + n)) = Len(s) - (m + n)
      /\ \A i \in 1 .. Len(s) - (m + n) : Drop(s, m + n)[i] = s[m + n + i]
  BY <1>1, DropFacts
<1>6. Len(Drop(d, n)) = Len(Drop(s, m + n))
  <2>1. Len(Drop(d, n)) = Len(d) - n
    BY <1>4
  <2>2. Len(d) = Len(s) - m
    BY <1>2
  <2>3. Len(Drop(s, m + n)) = Len(s) - (m + n)
    BY <1>5
  <2> QED BY <1>1, <2>1, <2>2, <2>3
<1>7. ASSUME NEW i \in 1 .. Len(Drop(d, n)) PROVE Drop(d, n)[i] = Drop(s, m + n)[i]
  <2>1. i \in 1 .. Len(d) - n /\ i \in 1 .. Len(s) - (m + n) /\ n + i \in 1 .. Len(s) - m /\ m + (n + i) = m + n + i
    BY <1>1, <1>2, <1>4, <1>7
  <2> QED BY <1>2, <1>4, <1>5, <2>1
<1>8. Drop(d, n) = Drop(s, m + n)
  BY <1>4, <1>5, <1>6, <1>7, SeqEqual
<1> QED BY <1>8 DEF d

LEMMA TakeDrop ==
  ASSUME NEW S, NEW s \in Seq(S), NEW n \in 0 .. Len(s)
  PROVE  SubSeq(s, 1, n) \o Drop(s, n) = s
<1>1. Len(s) \in Nat /\ n \in Nat
  <2>1. Len(s) \in Nat
    BY LenProperties
  <2> QED BY <2>1
<1> DEFINE a == SubSeq(s, 1, n)
           d == Drop(s, n)
<1>2. a \in Seq(S) /\ Len(a) = n /\ \A i \in 1 .. n : a[i] = s[i]
  BY TakeFacts
<1>3. d \in Seq(S) /\ Len(d) = Len(s) - n /\ \A i \in 1 .. Len(s) - n : d[i] = s[n + i]
  BY DropFacts
<1> HIDE DEF a, d
<1>4. /\ a \o d \in Seq(S) /\ Len(a \o d) = Len(a) + Len(d)
      /\ \A i \in 1 .. Len(a) + Len(d) : (a \o d)[i] = IF i <= Len(a) THEN a[i] ELSE d[i - Len(a)]
  BY <1>2, <1>3, ConcatProperties
<1>5. Len(a \o d) = Len(s)
  BY <1>1, <1>2, <1>3, <1>4
<1>6. ASSUME NEW i \in 1 .. Len(a \o d) PROVE (a \o d)[i] = s[i]
  <2>1. i \in 1 .. Len(a) + Len(d) /\ i \in 1 .. Len(s) /\ i \in Nat
    BY <1>1, <1>4, <1>5, <1>6
  <2>2. CASE i <= n
    BY <1>1, <1>2, <1>4, <2>1, <2>2
  <2>3. CASE ~(i <= n)
    <3>1. i - n \in 1 .. Len(s) - n /\ n + (i - n) = i
      BY <1>1, <2>1, <2>3
    <3>2. d[i - n] = s[i]
      BY <1>3, <3>1
    <3> QED BY <1>2, <1>4, <2>1, <2>3, <3>2
  <2> QED BY <2>2, <2>3
<1>7. a \o d = s
  BY <1>4, <1>5, <1>6, SeqEqual
<1> QED BY <1>7 DEF a, d

\* Two bytes at a place.
LEMMA PairAt ==
  ASSUME NEW S, NEW s \in Seq(S), NEW i \in 1 .. Len(s) - 1, NEW x \in S, NEW y \in S
  PROVE  SubSeq(s, i, i + 1) = <<x, y>> <=> s[i] = x /\ s[i + 1] = y
<1>1. Len(s) \in Nat /\ \A j \in 1 .. Len(s) : s[j] \in S
  BY LenProperties, ElementOfSeq
<1>2. i \in Int /\ i + 1 \in Int /\ \A j \in i .. i + 1 : s[j] \in S
  BY <1>1
<1> DEFINE p == SubSeq(s, i, i + 1)
<1>3. /\ p \in Seq(S)
      /\ Len(p) = IF i <= i + 1 THEN i + 1 - i + 1 ELSE 0
      /\ \A j \in 1 .. i + 1 - i + 1 : p[j] = s[i + j - 1]
  BY <1>2, SubSeqProperties
<1> HIDE DEF p
<1>4. Len(p) = 2 /\ i + 1 - i + 1 = 2 /\ i + 1 - 1 = i /\ i + 2 - 1 = i + 1
  BY <1>2, <1>3
<1>5. p[1] = s[i] /\ p[2] = s[i + 1]
  <2>1. 1 \in 1 .. i + 1 - i + 1 /\ 2 \in 1 .. i + 1 - i + 1
    BY <1>4
  <2>2. p[1] = s[i + 1 - 1] /\ p[2] = s[i + 2 - 1]
    BY <1>3, <2>1
  <2> QED BY <1>4, <2>2
<1> DEFINE q == <<x, y>>
<1>6. q \in Seq(S) /\ Len(q) = 2 /\ q[1] = x /\ q[2] = y
  OBVIOUS
<1> HIDE DEF q
<1>7. p = q <=> p[1] = x /\ p[2] = y
  <2>1. ASSUME p[1] = x, p[2] = y PROVE p = q
    <3>1. \A j \in 1 .. Len(p) : p[j] = q[j]
      <4> TAKE j \in 1 .. Len(p)
      <4>1. j = 1 \/ j = 2
        BY <1>4
      <4> QED BY <1>6, <2>1, <4>1
    <3> QED BY <1>3, <1>4, <1>6, <3>1, SeqEqual
  <2> QED BY <1>6, <2>1
<1> QED BY <1>5, <1>7 DEF p, q

-----------------------------------------------------------------------------
(* Find, for the needles of two bytes. *)

Pairs(s, x, y) == {i \in 1 .. Len(s) - 1 : s[i] = x /\ s[i + 1] = y}

\* Find of two bytes is the first place where they stand, 0 when there is none.
LEMMA FirstOf ==
  ASSUME NEW T \in SUBSET Nat, T # {}
  PROVE  \E i \in T : \A j \in T : i <= j
<1>1. PICK m \in T : \A k \in T : ~(<<k, m>> \in OpToRel(<, Nat))
  BY NatLessThanWellFounded, WFMin
<1>2. \A j \in T : m <= j
  <2> TAKE j \in T
  <2>1. ~(j < m)
    <3>1. j \in Nat /\ m \in Nat
      OBVIOUS
    <3>2. j < m => <<j, m>> \in OpToRel(<, Nat)
      BY <3>1 DEF OpToRel
    <3> QED BY <1>1, <3>2
  <2> QED BY <2>1
<1> QED BY <1>2

LEMMA FindPair ==
  ASSUME NEW S, NEW s \in Seq(S), NEW x \in S, NEW y \in S
  PROVE  /\ Pairs(s, x, y) = {} => Find(s, <<x, y>>) = 0
         /\ Pairs(s, x, y) # {} => /\ Find(s, <<x, y>>) \in Pairs(s, x, y)
                                   /\ \A j \in Pairs(s, x, y) : Find(s, <<x, y>>) <= j
<1> DEFINE q == <<x, y>>
           at == {i \in 1 .. Len(s) - Len(q) + 1 : SubSeq(s, i, i + Len(q) - 1) = q}
<1>1. Len(s) \in Nat /\ Len(q) = 2 /\ Len(s) - Len(q) + 1 = Len(s) - 1
  <2>1. Len(s) \in Nat
    BY LenProperties
  <2> QED BY <2>1
<1>2. \A i \in 1 .. Len(s) - 1 : SubSeq(s, i, i + Len(q) - 1) = q <=> s[i] = x /\ s[i + 1] = y
  <2> TAKE i \in 1 .. Len(s) - 1
  <2>1. i + Len(q) - 1 = i + 1
    BY <1>1
  <2> QED BY <2>1, PairAt
<1> HIDE DEF q
<1>3. at = Pairs(s, x, y)
  BY <1>1, <1>2 DEF Pairs
<1>4. Find(s, q) = IF at = {} THEN 0 ELSE CHOOSE i \in at : \A j \in at : i <= j
  BY DEF Find
<1>5. at \in SUBSET Nat
  BY <1>1
<1> HIDE DEF at
<1>6. at # {} => Find(s, q) \in at /\ \A j \in at : Find(s, q) <= j
  BY <1>4, <1>5, FirstOf
<1> QED BY <1>3, <1>4, <1>6 DEF q

\* What has been found stays where it is when more bytes arrive.
LEMMA FindMore ==
  ASSUME NEW S, NEW s \in Seq(S), NEW t \in Seq(S), NEW x \in S, NEW y \in S,
         Find(s, <<x, y>>) # 0
  PROVE  Find(s \o t, <<x, y>>) = Find(s, <<x, y>>)
<1> DEFINE i == Find(s, <<x, y>>)
           k == Find(s \o t, <<x, y>>)
           u == s \o t
<1>1. Len(s) \in Nat /\ Len(t) \in Nat
  BY LenProperties
<1>2. /\ u \in Seq(S) /\ Len(u) = Len(s) + Len(t)
      /\ \A j \in 1 .. Len(s) + Len(t) : u[j] = IF j <= Len(s) THEN s[j] ELSE t[j - Len(s)]
  BY ConcatProperties
<1>3. i \in Pairs(s, x, y) /\ \A j \in Pairs(s, x, y) : i <= j
  BY FindPair
<1> HIDE DEF i, u
<1>4. \A j \in 1 .. Len(s) - 1 : u[j] = s[j] /\ u[j + 1] = s[j + 1]
  <2> TAKE j \in 1 .. Len(s) - 1
  <2>1. j \in 1 .. Len(s) + Len(t) /\ j + 1 \in 1 .. Len(s) + Len(t) /\ j <= Len(s) /\ j + 1 <= Len(s)
    BY <1>1
  <2> QED BY <1>2, <2>1
<1>5. i \in Pairs(u, x, y)
  <2>1. i \in 1 .. Len(s) - 1 /\ s[i] = x /\ s[i + 1] = y
    BY <1>3 DEF Pairs
  <2>2. i \in 1 .. Len(u) - 1
    BY <1>1, <1>2, <2>1
  <2> QED BY <1>4, <2>1, <2>2 DEF Pairs
<1>6. k \in Pairs(u, x, y) /\ k <= i
  BY <1>2, <1>5, FindPair DEF u
<1> HIDE DEF k
<1>7. k \in Pairs(s, x, y)
  <2>1. i \in 1 .. Len(s) - 1
    BY <1>3 DEF Pairs
  <2>2. k \in 1 .. Len(u) - 1 /\ u[k] = x /\ u[k + 1] = y
    BY <1>6 DEF Pairs
  <2>3. k \in 1 .. Len(s) - 1
    BY <1>1, <1>2, <1>6, <2>1, <2>2
  <2> QED BY <1>4, <2>2, <2>3 DEF Pairs
<1>8. i <= k /\ i \in Int /\ k \in Int
  <2>1. i \in 1 .. Len(s) - 1 /\ k \in 1 .. Len(s) - 1
    BY <1>3, <1>7 DEF Pairs
  <2> QED BY <1>3, <1>7, <2>1
<1>9. i = k
  BY <1>6, <1>8
<1> QED BY <1>9 DEF i, k

-----------------------------------------------------------------------------
(* What dechunk does. *)

Decoded == [data : Seq(Bytes), consumed : Nat, end : BOOLEAN, bad : BOOLEAN]

Eol(b) == Find(b, <<CR, LF>>)
Size(b) == b[1] - Digit(0)

\* A whole chunk in front.
Whole(b) == /\ Eol(b) = 2 /\ Size(b) \in 1 .. 9 /\ Size(b) + 5 <= Len(b)
            /\ SubSeq(b, Size(b) + 4, Size(b) + 5) = <<CR, LF>>
\* An error in front, or the last chunk.
Wrong(b) == \/ Eol(b) # 0 /\ (Eol(b) # 2 \/ Size(b) \notin 0 .. 9)
            \/ /\ Eol(b) = 2 /\ Size(b) \in 1 .. 9 /\ Size(b) + 5 <= Len(b)
               /\ SubSeq(b, Size(b) + 4, Size(b) + 5) # <<CR, LF>>
Final(b) == Eol(b) = 2 /\ Size(b) = 0

\* One pass of the loop.
ChunkStep(g, b) ==
  IF Whole(b)
  THEN [data |-> SubSeq(b, 4, Size(b) + 3) \o g[Drop(b, Size(b) + 5)].data,
        consumed |-> Size(b) + 5 + g[Drop(b, Size(b) + 5)].consumed,
        end |-> g[Drop(b, Size(b) + 5)].end, bad |-> g[Drop(b, Size(b) + 5)].bad]
  ELSE IF Wrong(b) THEN Undecoded(0, FALSE, TRUE)
  ELSE IF Final(b) THEN Undecoded(3, TRUE, FALSE)
  ELSE Undecoded(0, FALSE, FALSE)

LEMMA SomeBytes == LF \in Bytes /\ CR \in Bytes /\ COLON \in Bytes /\ DATA \in Bytes
                   /\ \A n \in 0 .. 9 : Digit(n) \in Bytes
<1>1. MaxEvents \in Nat
  BY StreamAssumption
<1> QED BY <1>1 DEF LF, CR, COLON, DATA, Digit, Bytes, JSONBASE

LEMMA UndecodedTyped ==
  ASSUME NEW n \in Nat, NEW e \in BOOLEAN, NEW f \in BOOLEAN
  PROVE  Undecoded(n, e, f) \in Decoded
BY DEF Undecoded, Decoded

\* A whole chunk leaves less than there was, and its payload is bytes.
LEMMA WholeFacts ==
  ASSUME NEW b \in Seq(Bytes), Whole(b)
  PROVE  /\ Size(b) \in 1 .. 9 /\ Size(b) + 5 \in 0 .. Len(b)
         /\ Drop(b, Size(b) + 5) \in Seq(Bytes) /\ Len(Drop(b, Size(b) + 5)) = Len(b) - (Size(b) + 5)
         /\ SubSeq(b, 4, Size(b) + 3) \in Seq(Bytes) /\ Len(SubSeq(b, 4, Size(b) + 3)) = Size(b)
         /\ \A i \in 1 .. Size(b) : SubSeq(b, 4, Size(b) + 3)[i] = b[i + 3]
<1>1. Len(b) \in Nat /\ \A i \in 1 .. Len(b) : b[i] \in Bytes
  BY LenProperties, ElementOfSeq
<1>2. Size(b) \in 1 .. 9 /\ Size(b) + 5 <= Len(b)
  BY DEF Whole
<1> DEFINE z == Size(b)
<1>3. z \in 1 .. 9 /\ z + 5 <= Len(b)
  BY <1>2
<1> HIDE DEF z
<1>4. z + 5 \in 0 .. Len(b)
  BY <1>1, <1>3
<1>5. \A i \in 4 .. z + 3 : b[i] \in Bytes
  BY <1>1, <1>3
<1>6. /\ SubSeq(b, 4, z + 3) \in Seq(Bytes)
      /\ Len(SubSeq(b, 4, z + 3)) = IF 4 <= z + 3 THEN z + 3 - 4 + 1 ELSE 0
      /\ \A i \in 1 .. z + 3 - 4 + 1 : SubSeq(b, 4, z + 3)[i] = b[4 + i - 1]
  <2>1. PICK m \in Int : m = 4
    OBVIOUS
  <2>2. PICK n \in Int : n = z + 3
    BY <1>3
  <2>3. \A i \in m .. n : b[i] \in Bytes
    BY <1>5, <2>1, <2>2
  <2>4. /\ SubSeq(b, m, n) \in Seq(Bytes)
        /\ Len(SubSeq(b, m, n)) = IF m <= n THEN n - m + 1 ELSE 0
        /\ \A i \in 1 .. n - m + 1 : SubSeq(b, m, n)[i] = b[m + i - 1]
    BY <2>3, SubSeqProperties
  <2>5. SubSeq(b, 4, z + 3) = SubSeq(b, m, n)
    BY <2>1, <2>2
  <2>6. n - m + 1 = z + 3 - 4 + 1 /\ (m <= n <=> 4 <= z + 3)
    BY <1>3, <2>1, <2>2
  <2>7. Len(SubSeq(b, m, n)) = IF 4 <= z + 3 THEN z + 3 - 4 + 1 ELSE 0
    BY <2>4, <2>6
  <2>8. \A i \in 1 .. z + 3 - 4 + 1 : SubSeq(b, m, n)[i] = b[4 + i - 1]
    BY <2>1, <2>4, <2>6
  <2> QED BY <2>4, <2>5, <2>7, <2>8
<1>7. z + 3 - 4 + 1 = z /\ 4 <= z + 3 /\ \A i \in 1 .. z : 4 + i - 1 = i + 3
  BY <1>3
<1>8. Drop(b, z + 5) \in Seq(Bytes) /\ Len(Drop(b, z + 5)) = Len(b) - (z + 5)
  BY <1>4, DropFacts
<1>9. Len(SubSeq(b, 4, z + 3)) = z /\ \A i \in 1 .. z : SubSeq(b, 4, z + 3)[i] = b[i + 3]
  BY <1>6, <1>7
<1> QED BY <1>3, <1>4, <1>6, <1>8, <1>9 DEF z

\* A pass makes a Decoded out of Decoded.
LEMMA StepTyped ==
  ASSUME NEW b \in Seq(Bytes), NEW g, Whole(b) => g[Drop(b, Size(b) + 5)] \in Decoded
  PROVE  ChunkStep(g, b) \in Decoded
<1>1. CASE Whole(b)
  <2> DEFINE d == Drop(b, Size(b) + 5)
             a == SubSeq(b, 4, Size(b) + 3)
  <2>1. g[d].data \in Seq(Bytes) /\ g[d].consumed \in Nat /\ g[d].end \in BOOLEAN /\ g[d].bad \in BOOLEAN
    BY <1>1 DEF Decoded
  <2>2. a \in Seq(Bytes) /\ Size(b) \in 1 .. 9
    BY <1>1, WholeFacts
  <2> HIDE DEF a, d
  <2>3. a \o g[d].data \in Seq(Bytes)
    BY <2>1, <2>2, ConcatProperties
  <2>4. Size(b) + 5 + g[d].consumed \in Nat
    BY <2>1, <2>2
  <2>5. ChunkStep(g, b) = [data |-> a \o g[d].data, consumed |-> Size(b) + 5 + g[d].consumed,
                           end |-> g[d].end, bad |-> g[d].bad]
    BY <1>1 DEF ChunkStep, a, d
  <2> QED BY <2>1, <2>3, <2>4, <2>5 DEF Decoded
<1>2. CASE ~Whole(b)
  <2>1. ChunkStep(g, b) \in {Undecoded(0, FALSE, TRUE), Undecoded(3, TRUE, FALSE), Undecoded(0, FALSE, FALSE)}
    BY <1>2 DEF ChunkStep
  <2> QED BY <2>1, UndecodedTyped
<1> QED BY <1>1, <1>2

\* Dechunk is defined on all byte sequences and equals its body.
LEMMA DechunkDef ==
  ASSUME NEW b \in Seq(Bytes)
  PROVE  Dechunk[b] = ChunkStep(Dechunk, b)
<1> DEFINE S == Seq(Bytes)
           G(g, s) == LET eol  == Find(s, <<CR, LF>>)
                          size == s[1] - Digit(0)
                          used == size + 5
                          more == g[Drop(s, used)]
                      IN IF eol = 0 THEN Undecoded(0, FALSE, FALSE)
                         ELSE IF eol # 2 \/ size \notin 0 .. 9 THEN Undecoded(0, FALSE, TRUE)
                         ELSE IF size = 0 THEN Undecoded(3, TRUE, FALSE)
                         ELSE IF Len(s) < used THEN Undecoded(0, FALSE, FALSE)
                         ELSE IF SubSeq(s, used - 1, used) # <<CR, LF>> THEN Undecoded(0, FALSE, TRUE)
                         ELSE [data |-> SubSeq(s, 4, used - 2) \o more.data,
                               consumed |-> used + more.consumed, end |-> more.end, bad |-> more.bad]
<1>1. Dechunk = CHOOSE g : g = [s \in S |-> G(g, s)]
  BY DEF Dechunk
<1>2. ASSUME NEW g, NEW s \in S PROVE G(g, s) = ChunkStep(g, s)
  <2> DEFINE e == Eol(s)
             z == Size(s)
             rec(k) == [data |-> SubSeq(s, 4, k) \o g[Drop(s, z + 5)].data,
                        consumed |-> z + 5 + g[Drop(s, z + 5)].consumed,
                        end |-> g[Drop(s, z + 5)].end, bad |-> g[Drop(s, z + 5)].bad]
             crlf(k) == SubSeq(s, k, z + 5) = <<CR, LF>>
  <2>1. Len(s) \in Nat
    BY LenProperties
  <2>2. G(g, s) = IF e = 0 THEN Undecoded(0, FALSE, FALSE)
                  ELSE IF e # 2 \/ z \notin 0 .. 9 THEN Undecoded(0, FALSE, TRUE)
                  ELSE IF z = 0 THEN Undecoded(3, TRUE, FALSE)
                  ELSE IF Len(s) < z + 5 THEN Undecoded(0, FALSE, FALSE)
                  ELSE IF ~crlf((z + 5) - 1) THEN Undecoded(0, FALSE, TRUE)
                  ELSE rec((z + 5) - 2)
    BY DEF Eol, Size
  <2>3. Whole(s) <=> e = 2 /\ z \in 1 .. 9 /\ z + 5 <= Len(s) /\ crlf(z + 4)
    BY Zenon DEF Whole
  <2>4. Wrong(s) <=> \/ e # 0 /\ (e # 2 \/ z \notin 0 .. 9)
                     \/ e = 2 /\ z \in 1 .. 9 /\ z + 5 <= Len(s) /\ ~crlf(z + 4)
    BY Zenon DEF Wrong
  <2>5. Final(s) <=> e = 2 /\ z = 0
    BY Zenon DEF Final
  <2>6. ChunkStep(g, s) = IF Whole(s) THEN rec(z + 3)
                          ELSE IF Wrong(s) THEN Undecoded(0, FALSE, TRUE)
                          ELSE IF Final(s) THEN Undecoded(3, TRUE, FALSE)
                          ELSE Undecoded(0, FALSE, FALSE)
    BY Zenon DEF ChunkStep
  <2> HIDE DEF G, e, z, rec, crlf
  <2>7. CASE z \in 1 .. 9
    <3>1. (z + 5) - 1 = z + 4 /\ (z + 5) - 2 = z + 3 /\ z # 0 /\ z \in 0 .. 9 /\ (Len(s) < z + 5 <=> ~(z + 5 <= Len(s)))
      BY <2>1, <2>7
    <3>2. G(g, s) = IF e = 0 THEN Undecoded(0, FALSE, FALSE)
                    ELSE IF e # 2 THEN Undecoded(0, FALSE, TRUE)
                    ELSE IF ~(z + 5 <= Len(s)) THEN Undecoded(0, FALSE, FALSE)
                    ELSE IF ~crlf(z + 4) THEN Undecoded(0, FALSE, TRUE)
                    ELSE rec(z + 3)
      BY <2>2, <3>1
    <3>3. CASE e # 2
      <4>1. ~Whole(s) /\ ~Final(s) /\ (Wrong(s) <=> e # 0)
        BY <2>3, <2>4, <2>5, <3>1, <3>3
      <4> QED BY <2>6, <3>2, <3>3, <4>1
    <3>4. CASE e = 2 /\ ~(z + 5 <= Len(s))
      <4>1. ~Whole(s) /\ ~Final(s) /\ ~Wrong(s)
        BY <2>3, <2>4, <2>5, <3>1, <3>4
      <4> QED BY <2>6, <3>2, <3>4, <4>1
    <3>5. CASE e = 2 /\ z + 5 <= Len(s) /\ ~crlf(z + 4)
      <4>1. ~Whole(s) /\ Wrong(s)
        BY <2>3, <2>4, <2>7, <3>5
      <4> QED BY <2>6, <3>2, <3>5, <4>1
    <3>6. CASE e = 2 /\ z + 5 <= Len(s) /\ crlf(z + 4)
      <4>1. Whole(s)
        BY <2>3, <2>7, <3>6
      <4> QED BY <2>6, <3>2, <3>6, <4>1
    <3> QED BY <3>3, <3>4, <3>5, <3>6
  <2>8. CASE z \notin 1 .. 9
    <3>1. z \in 0 .. 9 <=> z = 0
      BY <2>8
    <3>2. ~Whole(s)
      BY <2>3, <2>8
    <3>3. CASE e = 0
      <4>1. ~Wrong(s) /\ ~Final(s)
        BY <2>4, <2>5, <3>3
      <4> QED BY <2>2, <2>6, <3>2, <3>3, <4>1
    <3>4. CASE e # 0 /\ (e # 2 \/ z # 0)
      <4>1. Wrong(s)
        BY <2>4, <3>1, <3>4
      <4> QED BY <2>2, <2>6, <3>1, <3>2, <3>4, <4>1
    <3>5. CASE e = 2 /\ z = 0
      <4>1. ~Wrong(s) /\ Final(s)
        BY <2>4, <2>5, <2>8, <3>1, <3>5
      <4> QED BY <2>2, <2>6, <3>1, <3>2, <3>5, <4>1
    <3> QED BY <3>3, <3>4, <3>5
  <2> QED BY <2>7, <2>8
<1> HIDE DEF G
<1>3. \E g : g = [s \in S |-> G(g, s)]
  <2> DEFINE size == [s \in S |-> Len(s)]
             F == [p \in [S -> Decoded] \X S |-> ChunkStep(p[1], p[2])]
  <2>1. size \in [S -> Nat]
    BY LenProperties
  <2>2. Decoded # {}
    BY UndecodedTyped
  <2>3. F \in [[S -> Decoded] \X S -> Decoded]
    <3>1. ASSUME NEW p \in [S -> Decoded] \X S PROVE ChunkStep(p[1], p[2]) \in Decoded
      <4>1. p[1] \in [S -> Decoded] /\ p[2] \in Seq(Bytes)
        OBVIOUS
      <4>2. Whole(p[2]) => Drop(p[2], Size(p[2]) + 5) \in S
        BY <4>1, WholeFacts
      <4>3. Whole(p[2]) => p[1][Drop(p[2], Size(p[2]) + 5)] \in Decoded
        BY <4>1, <4>2
      <4> QED BY <4>1, <4>3, StepTyped
    <3> QED BY <3>1
  <2>4. ASSUME NEW g \in [S -> Decoded], NEW h \in [S -> Decoded], NEW s \in S,
               \A r \in S : size[r] < size[s] => g[r] = h[r]
        PROVE  F[<<g, s>>] = F[<<h, s>>]
    <3>1. F[<<g, s>>] = ChunkStep(g, s) /\ F[<<h, s>>] = ChunkStep(h, s)
      OBVIOUS
    <3>2. CASE Whole(s)
      <4>1. Len(s) \in Nat /\ Size(s) \in 1 .. 9 /\ Size(s) + 5 \in 0 .. Len(s)
            /\ Drop(s, Size(s) + 5) \in S /\ Len(Drop(s, Size(s) + 5)) = Len(s) - (Size(s) + 5)
        BY <3>2, LenProperties, WholeFacts
      <4>2. size[Drop(s, Size(s) + 5)] < size[s]
        BY <4>1
      <4>3. g[Drop(s, Size(s) + 5)] = h[Drop(s, Size(s) + 5)]
        BY <2>4, <4>1, <4>2
      <4> QED BY <3>1, <4>3 DEF ChunkStep
    <3>3. CASE ~Whole(s)
      BY <3>1, <3>3 DEF ChunkStep
    <3> QED BY <3>2, <3>3
  <2> HIDE DEF size
  <2> HIDE DEF F, S
  <2>9. \A g, h \in [S -> Decoded] : \A s \in S :
           (\A r \in S : size[r] < size[s] => g[r] = h[r]) => F[<<g, s>>] = F[<<h, s>>]
    BY <2>4
  <2>5. Recursive(S, size, Decoded, F)
    BY <2>1, <2>2, <2>3, <2>9 DEF Recursive
  <2>6. PICK f : Solves(f, S, Decoded, F)
    BY <2>5, RecursionExists
  <2>7. ASSUME NEW s \in S PROVE f[s] = G(f, s)
    <3>1. f \in [S -> Decoded] /\ f[s] = F[<<f, s>>]
      BY <2>6 DEF Solves
    <3>2. F[<<f, s>>] = ChunkStep(f, s)
      BY <3>1 DEF F
    <3> QED BY <1>2, <3>1, <3>2
  <2>8. f = [s \in S |-> G(f, s)]
    BY <2>6, <2>7 DEF Solves
  <2> QED BY <2>8
<1> DEFINE D == Dechunk
<1>4. D = [s \in S |-> G(D, s)]
  BY <1>1, <1>3
<1> HIDE DEF D
<1>5. D[b] = G(D, b)
  BY <1>4
<1> QED BY <1>2, <1>5 DEF D

-----------------------------------------------------------------------------
(* dechunk and the bytes that arrive later. *)

LEMMA Assoc ==
  ASSUME NEW S, NEW s \in Seq(S), NEW t \in Seq(S), NEW u \in Seq(S)
  PROVE  (s \o t) \o u = s \o (t \o u)
BY ConcatAssociative

AssocOn(S) == \A s, t, u \in Seq(S) : (s \o t) \o u = s \o (t \o u)

LEMMA AssocAll ==
  ASSUME NEW S
  PROVE  AssocOn(S)
BY Assoc DEF AssocOn

\* Induction on the length of a sequence.
LEMMA ByLength ==
  ASSUME NEW S, NEW P \in SUBSET Seq(S),
         \A s \in Seq(S) : (\A r \in Seq(S) : Len(r) < Len(s) => r \in P) => s \in P
  PROVE  P = Seq(S)
<1> DEFINE T == {n \in Nat : \A s \in Seq(S) : Len(s) < n => s \in P}
<1>1. \A s \in Seq(S) : Len(s) \in Nat
  BY LenProperties
<1>2. 0 \in T
  BY <1>1
<1>3. ASSUME NEW n \in T PROVE n + 1 \in T
  <2>1. ASSUME NEW s \in Seq(S), Len(s) < n + 1 PROVE s \in P
    <3>1. \A r \in Seq(S) : Len(r) < Len(s) => r \in P
      <4> TAKE r \in Seq(S)
      <4> HAVE Len(r) < Len(s)
      <4>1. Len(r) < n
        BY <1>1, <2>1
      <4> QED BY <4>1
    <3> QED BY <3>1
  <2>2. n + 1 \in Nat
    OBVIOUS
  <2> QED BY <2>1, <2>2
<1>4. T = Nat
  <2> HIDE DEF T
  <2>1. T \in SUBSET Nat
    BY DEF T
  <2> QED BY <1>2, <1>3, <2>1, NatsByInduction
<1>5. ASSUME NEW s \in Seq(S) PROVE s \in P
  <2>1. Len(s) + 1 \in Nat /\ Len(s) < Len(s) + 1
    BY <1>1
  <2>2. Len(s) + 1 \in T
    <3> HIDE DEF T
    <3> QED BY <1>4, <2>1
  <2> QED BY <2>1, <2>2
<1> QED BY <1>5

\* The four outcomes of one pass.
LEMMA DechunkCases ==
  ASSUME NEW b \in Seq(Bytes)
  PROVE  /\ Wrong(b) => Dechunk[b] = Undecoded(0, FALSE, TRUE)
         /\ Final(b) => Dechunk[b] = Undecoded(3, TRUE, FALSE)
         /\ ~Whole(b) /\ ~Wrong(b) /\ ~Final(b) => Dechunk[b] = Undecoded(0, FALSE, FALSE)
         /\ Whole(b) => LET r == Drop(b, Size(b) + 5)
                        IN Dechunk[b] = [data |-> SubSeq(b, 4, Size(b) + 3) \o Dechunk[r].data,
                                         consumed |-> (Size(b) + 5) + Dechunk[r].consumed,
                                         end |-> Dechunk[r].end, bad |-> Dechunk[r].bad]
<1>1. Wrong(b) => ~Whole(b)
  <2>1. Size(b) \in 1 .. 9 => Size(b) \in 0 .. 9
    OBVIOUS
  <2> QED BY <2>1, Zenon DEF Wrong, Whole
<1>2. Final(b) => ~Whole(b) /\ ~Wrong(b)
  <2>1. Size(b) = 0 => Size(b) \in 0 .. 9 /\ Size(b) \notin 1 .. 9
    OBVIOUS
  <2> QED BY <2>1, Zenon DEF Wrong, Whole, Final
<1>3. Dechunk[b] = ChunkStep(Dechunk, b)
  BY DechunkDef
<1>4. Whole(b) => Dechunk[b] = [data |-> SubSeq(b, 4, Size(b) + 3) \o Dechunk[Drop(b, Size(b) + 5)].data,
                                consumed |-> (Size(b) + 5) + Dechunk[Drop(b, Size(b) + 5)].consumed,
                                end |-> Dechunk[Drop(b, Size(b) + 5)].end, bad |-> Dechunk[Drop(b, Size(b) + 5)].bad]
  BY <1>3, Zenon DEF ChunkStep
<1>5. ~Whole(b) => Dechunk[b] = IF Wrong(b) THEN Undecoded(0, FALSE, TRUE)
                                ELSE IF Final(b) THEN Undecoded(3, TRUE, FALSE)
                                ELSE Undecoded(0, FALSE, FALSE)
  BY <1>3, Zenon DEF ChunkStep
<1>6. Wrong(b) => Dechunk[b] = Undecoded(0, FALSE, TRUE)
  BY <1>1, <1>5, Zenon
<1>7. Final(b) => Dechunk[b] = Undecoded(3, TRUE, FALSE)
  BY <1>2, <1>5, Zenon
<1>8. ~Whole(b) /\ ~Wrong(b) /\ ~Final(b) => Dechunk[b] = Undecoded(0, FALSE, FALSE)
  BY <1>5, Zenon
<1> QED BY <1>4, <1>6, <1>7, <1>8, Zenon

\* The fields of the outcome, with and without a whole chunk in front.
LEMMA DechunkWhole ==
  ASSUME NEW b \in Seq(Bytes), Whole(b), NEW r, r = Drop(b, Size(b) + 5)
  PROVE  /\ Dechunk[b].data = SubSeq(b, 4, Size(b) + 3) \o Dechunk[r].data
         /\ Dechunk[b].consumed = (Size(b) + 5) + Dechunk[r].consumed
         /\ Dechunk[b].end = Dechunk[r].end /\ Dechunk[b].bad = Dechunk[r].bad
<1> DEFINE d == SubSeq(b, 4, Size(b) + 3) \o Dechunk[r].data
           n == (Size(b) + 5) + Dechunk[r].consumed
           e == Dechunk[r].end
           f == Dechunk[r].bad
<1>1. Dechunk[b] = [data |-> d, consumed |-> n, end |-> e, bad |-> f]
  BY DechunkCases, Zenon
<1> HIDE DEF d, n, e, f
<1>2. Dechunk[b].data = d /\ Dechunk[b].consumed = n /\ Dechunk[b].end = e /\ Dechunk[b].bad = f
  BY <1>1
<1> QED BY <1>2, Zenon DEF d, n, e, f

LEMMA DechunkOther ==
  ASSUME NEW b \in Seq(Bytes), ~Whole(b)
  PROVE  /\ Dechunk[b].data = <<>>
         /\ Dechunk[b].consumed = IF ~Wrong(b) /\ Final(b) THEN 3 ELSE 0
         /\ Dechunk[b].end <=> ~Wrong(b) /\ Final(b)
         /\ Dechunk[b].bad <=> Wrong(b)
<1>1. Wrong(b) => Dechunk[b] = [data |-> <<>>, consumed |-> 0, end |-> FALSE, bad |-> TRUE]
  BY DechunkCases, Zenon DEF Undecoded
<1>2. Final(b) => Dechunk[b] = [data |-> <<>>, consumed |-> 3, end |-> TRUE, bad |-> FALSE]
  BY DechunkCases, Zenon DEF Undecoded
<1>3. ~Wrong(b) /\ ~Final(b) => Dechunk[b] = [data |-> <<>>, consumed |-> 0, end |-> FALSE, bad |-> FALSE]
  BY DechunkCases, Zenon DEF Undecoded
<1>4. CASE Wrong(b)
  BY <1>1, <1>4
<1>5. CASE ~Wrong(b) /\ Final(b)
  BY <1>2, <1>5
<1>6. CASE ~Wrong(b) /\ ~Final(b)
  BY <1>3, <1>6
<1> QED BY <1>4, <1>5, <1>6

LEMMA DecodedEqual ==
  ASSUME NEW d \in Decoded, NEW e \in Decoded,
         d.data = e.data, d.consumed = e.consumed, d.end = e.end, d.bad = e.bad
  PROVE  d = e
BY DEF Decoded

\* Dechunk never consumes more than there is.
LEMMA DechunkTyped ==
  ASSUME NEW b \in Seq(Bytes)
  PROVE  Dechunk[b] \in Decoded /\ Dechunk[b].consumed <= Len(b)
<1> DEFINE P == {s \in Seq(Bytes) : Dechunk[s] \in Decoded /\ (Dechunk[s].consumed <= Len(s))}
<1>1. ASSUME NEW s \in Seq(Bytes), \A r \in Seq(Bytes) : Len(r) < Len(s) => r \in P
      PROVE  s \in P
  <2> DEFINE r == Drop(s, Size(s) + 5)
  <2>1. Len(s) \in Nat
    BY LenProperties
  <2>2. CASE Whole(s)
    <3>1. Size(s) \in 1 .. 9 /\ Size(s) + 5 \in 0 .. Len(s) /\ r \in Seq(Bytes) /\ Len(r) = Len(s) - (Size(s) + 5)
      BY <2>2, WholeFacts
    <3>2. r \in P
      BY <1>1, <2>1, <3>1
    <3>3. Dechunk[r] \in Decoded /\ Dechunk[r].consumed <= Len(r)
      BY <3>2
    <3>4. Dechunk[s] \in Decoded
      BY <3>3, StepTyped, DechunkDef
    <3>5. Dechunk[s].consumed = (Size(s) + 5) + Dechunk[r].consumed
      BY <2>2, DechunkWhole
    <3>6. Dechunk[r].consumed \in Nat
      BY <3>3 DEF Decoded
    <3> HIDE DEF r
    <3>7. Dechunk[s].consumed <= Len(s)
      BY <2>1, <3>1, <3>3, <3>5, <3>6
    <3> QED BY <3>4, <3>7
  <2>3. CASE ~Whole(s)
    <3>1. Dechunk[s] \in Decoded
      BY <2>3, StepTyped, DechunkDef
    <3>2. Final(s) => 3 <= Len(s)
      <4>1. CR \in Bytes /\ LF \in Bytes
        BY SomeBytes
      <4>2. Eol(s) # 0 => Eol(s) \in Pairs(s, CR, LF)
        BY <4>1, FindPair DEF Eol
      <4>3. Eol(s) # 0 => Eol(s) \in 1 .. Len(s) - 1
        BY <4>2 DEF Pairs
      <4> QED BY <2>1, <4>3 DEF Final
    <3>4. Dechunk[s].consumed = 0 \/ (Dechunk[s].consumed = 3 /\ Final(s))
      BY <2>3, DechunkOther
    <3> QED BY <2>1, <3>1, <3>2, <3>4
  <2> QED BY <2>2, <2>3
<1>2. P = Seq(Bytes)
  <2> HIDE DEF P
  <2>1. P \in SUBSET Seq(Bytes)
    BY DEF P
  <2> QED BY <1>1, <2>1, ByLength
<1> QED BY <1>2

\* What stands in front of b stands in front of b \o c.
LEMMA FrontStays ==
  ASSUME NEW b \in Seq(Bytes), NEW c \in Seq(Bytes), Eol(b) # 0
  PROVE  Eol(b \o c) = Eol(b) /\ Size(b \o c) = Size(b)
<1>1. CR \in Bytes /\ LF \in Bytes
  BY SomeBytes
<1>2. Eol(b \o c) = Eol(b)
  BY <1>1, FindMore DEF Eol
<1>3. Eol(b) \in 1 .. Len(b) - 1
  BY <1>1, FindPair DEF Eol, Pairs
<1>4. Len(b) \in Nat /\ Len(c) \in Nat
  BY LenProperties
<1>5. 1 \in 1 .. Len(b) + Len(c) /\ 1 <= Len(b)
  BY <1>3, <1>4
<1>6. (b \o c)[1] = b[1]
  BY <1>5, ConcatProperties
<1> QED BY <1>2, <1>6 DEF Size

\* So does a chunk that is there to its end.
LEMMA EndOfChunkStays ==
  ASSUME NEW b \in Seq(Bytes), NEW c \in Seq(Bytes), NEW z \in 1 .. 9, z + 5 <= Len(b)
  PROVE  /\ z + 5 <= Len(b \o c)
         /\ SubSeq(b \o c, z + 4, z + 5) = SubSeq(b, z + 4, z + 5)
         /\ SubSeq(b \o c, 4, z + 3) = SubSeq(b, 4, z + 3)
<1>1. Len(b) \in Nat /\ Len(c) \in Nat /\ Len(b \o c) = Len(b) + Len(c)
  BY LenProperties, ConcatProperties
<1>4. PICK m \in Int : m = 4
  OBVIOUS
<1>5. m \in 1 .. Len(b) /\ z + 3 \in 1 .. Len(b) /\ z + 4 \in 1 .. Len(b) /\ z + 5 \in 1 .. Len(b)
  BY <1>1, <1>4
<1>6. SubSeq(b \o c, z + 4, z + 5) = SubSeq(b, z + 4, z + 5)
  BY <1>5, SubSeqOfConcat1
<1>7. SubSeq(b \o c, m, z + 3) = SubSeq(b, m, z + 3)
  BY <1>5, SubSeqOfConcat1
<1>8. z + 5 <= Len(b \o c)
  BY <1>1
<1> QED BY <1>4, <1>6, <1>7, <1>8

\* More bytes never change what stands in front.
LEMMA KindStays ==
  ASSUME NEW b \in Seq(Bytes), NEW c \in Seq(Bytes)
  PROVE  /\ Whole(b) => Whole(b \o c)
         /\ Wrong(b) => Wrong(b \o c)
         /\ Final(b) => Final(b \o c)
<1>1. Eol(b) # 0 => Eol(b \o c) = Eol(b) /\ Size(b \o c) = Size(b)
  BY FrontStays
<1>2. Size(b) \in 1 .. 9 /\ Size(b) + 5 <= Len(b) =>
        /\ Size(b) + 5 <= Len(b \o c)
        /\ SubSeq(b \o c, Size(b) + 4, Size(b) + 5) = SubSeq(b, Size(b) + 4, Size(b) + 5)
  BY EndOfChunkStays
<1> DEFINE v == Size(b)
           w == Size(b \o c)
           x == SubSeq(b, v + 4, v + 5)
           y == SubSeq(b \o c, w + 4, w + 5)
<1>3. Whole(b) <=> Eol(b) = 2 /\ v \in 1 .. 9 /\ v + 5 <= Len(b) /\ x = <<CR, LF>>
  BY Zenon DEF Whole
<1>4. Whole(b \o c) <=> Eol(b \o c) = 2 /\ w \in 1 .. 9 /\ w + 5 <= Len(b \o c) /\ y = <<CR, LF>>
  BY Zenon DEF Whole
<1>6. Wrong(b) <=> \/ Eol(b) # 0 /\ (Eol(b) # 2 \/ v \notin 0 .. 9)
                   \/ Eol(b) = 2 /\ v \in 1 .. 9 /\ v + 5 <= Len(b) /\ x # <<CR, LF>>
  BY Zenon DEF Wrong
<1>7. Wrong(b \o c) <=> \/ Eol(b \o c) # 0 /\ (Eol(b \o c) # 2 \/ w \notin 0 .. 9)
                        \/ Eol(b \o c) = 2 /\ w \in 1 .. 9 /\ w + 5 <= Len(b \o c) /\ y # <<CR, LF>>
  BY Zenon DEF Wrong
<1>8. Eol(b) # 0 => Eol(b \o c) = Eol(b) /\ w = v
  BY <1>1
<1>9. Eol(b) # 0 /\ v \in 1 .. 9 /\ v + 5 <= Len(b) => w + 5 <= Len(b \o c) /\ y = x
  BY <1>1, <1>2, Zenon
<1> HIDE DEF v, w, x, y
<1>10. Whole(b) => Whole(b \o c)
  BY <1>3, <1>4, <1>8, <1>9
<1>11. Wrong(b) => Wrong(b \o c)
  BY <1>6, <1>7, <1>8, <1>9
<1>5. Final(b) => Final(b \o c)
  BY <1>1 DEF Final
<1> QED BY <1>5, <1>10, <1>11

\* A decode that has met an error or the end is over; any other goes on where it stopped.
Joins(b, c) ==
  LET d == Dechunk[b]
      e == Dechunk[Drop(b, d.consumed) \o c]
  IN IF d.bad \/ d.end THEN Dechunk[b \o c] = d
     ELSE /\ Dechunk[b \o c].data = d.data \o e.data
          /\ Dechunk[b \o c].consumed = d.consumed + e.consumed
          /\ Dechunk[b \o c].end = e.end /\ Dechunk[b \o c].bad = e.bad

\* A decode of all the bytes is a decode of the first and of what they leave with the rest.
LEMMA DechunkJoin ==
  ASSUME NEW b \in Seq(Bytes), NEW c \in Seq(Bytes)
  PROVE  Joins(b, c)
<1> DEFINE P == {s \in Seq(Bytes) : Joins(s, c)}
<1>1. ASSUME NEW s \in Seq(Bytes), \A r \in Seq(Bytes) : Len(r) < Len(s) => r \in P
      PROVE  Joins(s, c)
  <2> DEFINE k == Size(s) + 5
             r == Drop(s, k)
             x == SubSeq(s, 4, Size(s) + 3)
  <2>1. s \o c \in Seq(Bytes) /\ Len(s) \in Nat
    BY LenProperties, ConcatProperties
  <2>2. CASE Whole(s)
    <3>1. k \in 6 .. 14 /\ k \in 0 .. Len(s) /\ r \in Seq(Bytes) /\ Len(r) = Len(s) - k /\ x \in Seq(Bytes)
      <4>1. /\ Size(s) \in 1 .. 9 /\ Size(s) + 5 \in 0 .. Len(s)
            /\ Drop(s, Size(s) + 5) \in Seq(Bytes) /\ Len(Drop(s, Size(s) + 5)) = Len(s) - (Size(s) + 5)
            /\ SubSeq(s, 4, Size(s) + 3) \in Seq(Bytes)
        BY <2>2, WholeFacts
      <4>2. k \in 6 .. 14
        <5> HIDE DEF r, x
        <5>1. PICK z \in 1 .. 9 : z = Size(s)
          BY <4>1
        <5>2. z + 5 \in 6 .. 14
          OBVIOUS
        <5> QED BY <5>1, <5>2
      <4> QED BY <4>1, <4>2, Zenon
    <3>2. Whole(s \o c) /\ Size(s \o c) = Size(s) /\ SubSeq(s \o c, 4, Size(s) + 3) = x
      <4>1. Whole(s \o c)
        BY <2>2, KindStays
      <4>2. Eol(s) # 0 /\ Size(s) \in 1 .. 9 /\ Size(s) + 5 <= Len(s)
        BY <2>2 DEF Whole
      <4>3. Size(s \o c) = Size(s)
        BY <4>2, FrontStays
      <4>4. SubSeq(s \o c, 4, Size(s) + 3) = x
        BY <4>2, EndOfChunkStays
      <4> QED BY <4>1, <4>3, <4>4
    <3>3. Drop(s \o c, k) = r \o c
      BY <3>1, DropConcat
    <3>4. /\ Dechunk[s].data = x \o Dechunk[r].data
          /\ Dechunk[s].consumed = k + Dechunk[r].consumed
          /\ Dechunk[s].end = Dechunk[r].end /\ Dechunk[s].bad = Dechunk[r].bad
      BY <2>2, DechunkWhole
    <3>5. /\ Dechunk[s \o c].data = x \o Dechunk[r \o c].data
          /\ Dechunk[s \o c].consumed = k + Dechunk[r \o c].consumed
          /\ Dechunk[s \o c].end = Dechunk[r \o c].end /\ Dechunk[s \o c].bad = Dechunk[r \o c].bad
      <4> DEFINE w == s \o c
                 q == r \o c
      <4>1. w \in Seq(Bytes) /\ Whole(w)
        BY <2>1, <3>2
      <4>2. q = Drop(w, Size(w) + 5) /\ SubSeq(w, 4, Size(w) + 3) = x /\ Size(w) + 5 = k
        BY <3>2, <3>3, Zenon
      <4> HIDE DEF w, q, x, k
      <4>3. /\ Dechunk[w].data = x \o Dechunk[q].data
            /\ Dechunk[w].consumed = k + Dechunk[q].consumed
            /\ Dechunk[w].end = Dechunk[q].end /\ Dechunk[w].bad = Dechunk[q].bad
        <5>1. /\ Dechunk[w].data = SubSeq(w, 4, Size(w) + 3) \o Dechunk[q].data
              /\ Dechunk[w].consumed = (Size(w) + 5) + Dechunk[q].consumed
              /\ Dechunk[w].end = Dechunk[q].end /\ Dechunk[w].bad = Dechunk[q].bad
          BY <4>1, <4>2, DechunkWhole
        <5> QED BY <4>2, <5>1
      <4> QED BY <4>3, Zenon DEF w, q
    <3>6. Joins(r, c)
      BY <1>1, <2>1, <3>1
    <3>7. r \o c \in Seq(Bytes)
      BY <3>1, ConcatProperties
    <3>8. Dechunk[r] \in Decoded /\ Dechunk[r].consumed <= Len(r) /\ Dechunk[r \o c] \in Decoded
      BY <3>1, <3>7, DechunkTyped
    <3>9. Dechunk[s] \in Decoded /\ Dechunk[s \o c] \in Decoded
      BY <2>1, DechunkTyped
    <3> HIDE DEF k, r, x
    <3>10. CASE Dechunk[s].bad \/ Dechunk[s].end
      <4>1. Dechunk[r \o c] = Dechunk[r]
        BY <3>4, <3>6, <3>10 DEF Joins
      <4>2. /\ Dechunk[s \o c].data = Dechunk[s].data /\ Dechunk[s \o c].consumed = Dechunk[s].consumed
            /\ Dechunk[s \o c].end = Dechunk[s].end /\ Dechunk[s \o c].bad = Dechunk[s].bad
        BY <3>4, <3>5, <4>1
      <4>3. Dechunk[s \o c] = Dechunk[s]
        BY <3>9, <4>2, DecodedEqual
      <4> QED BY <3>10, <4>3 DEF Joins
    <3>11. CASE ~(Dechunk[s].bad \/ Dechunk[s].end)
      <4> DEFINE n == Dechunk[r].consumed
                 e == Dechunk[Drop(r, n) \o c]
      <4>1. /\ Dechunk[r \o c].data = Dechunk[r].data \o e.data
            /\ Dechunk[r \o c].consumed = n + e.consumed
            /\ Dechunk[r \o c].end = e.end /\ Dechunk[r \o c].bad = e.bad
        BY <3>4, <3>6, <3>11 DEF Joins
      <4>2. n \in Nat /\ n <= Len(r) /\ Len(r) \in Nat /\ Dechunk[r].data \in Seq(Bytes)
        BY <2>1, <3>1, <3>8, LenProperties DEF Decoded
      <4>3. n \in 0 .. Len(s) - k /\ n \in 0 .. Len(r)
        BY <3>1, <4>2
      <4>4. Drop(s, k + n) = Drop(r, n)
        BY <3>1, <4>3, DropDrop DEF r
      <4>5. Drop(r, n) \o c \in Seq(Bytes)
        <5>1. Drop(r, n) \in Seq(Bytes)
          BY <3>1, <4>3, DropFacts
        <5> QED BY <5>1, ConcatProperties
      <4>6. e.data \in Seq(Bytes) /\ e.consumed \in Nat
        BY <4>5, DechunkTyped DEF Decoded
      <4> HIDE DEF e, n
      <4>7. Drop(s, Dechunk[s].consumed) \o c = Drop(r, n) \o c
        BY <3>4, <4>4 DEF n
      <4>8. Dechunk[s \o c].data = Dechunk[s].data \o e.data
        <5>1. x \o (Dechunk[r].data \o e.data) = (x \o Dechunk[r].data) \o e.data
          <6>1. x \in Seq(Bytes) /\ Dechunk[r].data \in Seq(Bytes) /\ e.data \in Seq(Bytes)
            BY <3>1, <4>2, <4>6
          <6>2. PICK p \in Seq(Bytes) : p = x
            BY <6>1
          <6>3. PICK q \in Seq(Bytes) : q = Dechunk[r].data
            BY <6>1
          <6>4. PICK w \in Seq(Bytes) : w = e.data
            BY <6>1
          <6>5. (p \o q) \o w = p \o (q \o w)
            BY Assoc, SMTT(40)
          <6> QED BY <6>2, <6>3, <6>4, <6>5, Zenon
        <5> QED BY <3>4, <3>5, <4>1, <5>1
      <4>9. Dechunk[s \o c].consumed = Dechunk[s].consumed + e.consumed
        <5>1. k \in Int /\ n \in Int /\ e.consumed \in Int
          BY <3>1, <4>2, <4>6
        <5>2. Dechunk[s \o c].consumed = k + (n + e.consumed) /\ Dechunk[s].consumed = k + n
          BY <3>4, <3>5, <4>1 DEF n
        <5> QED BY <5>1, <5>2
      <4>10. Dechunk[s \o c].end = e.end /\ Dechunk[s \o c].bad = e.bad
        BY <3>5, <4>1
      <4>11. Dechunk[Drop(s, Dechunk[s].consumed) \o c] = e
        BY <4>7 DEF e
      <4> QED BY <3>11, <4>8, <4>9, <4>10, <4>11 DEF Joins
    <3> QED BY <3>10, <3>11
  <2>3. CASE ~Whole(s)
    <3>1. CASE Wrong(s)
      <4>1. Wrong(s \o c)
        BY <3>1, KindStays
      <4>2. Dechunk[s] = Undecoded(0, FALSE, TRUE) /\ Dechunk[s \o c] = Undecoded(0, FALSE, TRUE)
        BY <2>1, <3>1, <4>1, DechunkCases
      <4>3. Dechunk[s].bad
        BY <4>2 DEF Undecoded
      <4> QED BY <4>2, <4>3 DEF Joins
    <3>2. CASE Final(s)
      <4>1. Final(s \o c)
        BY <3>2, KindStays
      <4>2. Dechunk[s] = Undecoded(3, TRUE, FALSE) /\ Dechunk[s \o c] = Undecoded(3, TRUE, FALSE)
        BY <2>1, <3>2, <4>1, DechunkCases
      <4>3. Dechunk[s].end
        BY <4>2 DEF Undecoded
      <4> QED BY <4>2, <4>3 DEF Joins
    <3>3. CASE ~Wrong(s) /\ ~Final(s)
      <4>1. Dechunk[s].data = <<>> /\ Dechunk[s].consumed = 0 /\ ~Dechunk[s].end /\ ~Dechunk[s].bad
        BY <2>3, <3>3, DechunkOther
      <4>2. Drop(s, 0) = s
        BY DropNone
      <4> DEFINE e == Dechunk[s \o c]
      <4>3. e.data \in Seq(Bytes) /\ e.consumed \in Nat
        BY <2>1, DechunkTyped DEF Decoded
      <4> HIDE DEF e
      <4>4. <<>> \o e.data = e.data
        BY <4>3, ConcatEmptySeq
      <4>5. Dechunk[Drop(s, Dechunk[s].consumed) \o c] = e
        BY <4>1, <4>2 DEF e
      <4>6. e.data = Dechunk[s].data \o e.data /\ e.consumed = Dechunk[s].consumed + e.consumed
        BY <4>1, <4>3, <4>4
      <4> QED BY <4>1, <4>5, <4>6 DEF Joins, e
    <3> QED BY <3>1, <3>2, <3>3
  <2> QED BY <2>2, <2>3
<1>2. P = Seq(Bytes)
  <2> HIDE DEF Joins
  <2>1. \A s \in Seq(Bytes) : (\A r \in Seq(Bytes) : Len(r) < Len(s) => r \in P) => s \in P
    BY <1>1
  <2> HIDE DEF P
  <2>2. P \in SUBSET Seq(Bytes)
    BY DEF P
  <2> QED BY <2>1, <2>2, ByLength
<1>3. b \in P
  BY <1>2
<1> QED BY <1>3

\* What a decode left behind decodes to nothing.
LEMMA DechunkAgain ==
  ASSUME NEW b \in Seq(Bytes), ~Dechunk[b].bad, ~Dechunk[b].end, NEW t, t = Drop(b, Dechunk[b].consumed)
  PROVE  t \in Seq(Bytes) /\ Dechunk[t].data = <<>> /\ Dechunk[t].consumed = 0 /\ ~Dechunk[t].end /\ ~Dechunk[t].bad
<1> DEFINE d == Dechunk[b]
           e == Dechunk[t]
<1>1. d \in Decoded /\ d.consumed \in Nat /\ d.consumed <= Len(b) /\ Len(b) \in Nat /\ d.data \in Seq(Bytes)
  BY DechunkTyped, LenProperties DEF Decoded
<1>2. d.consumed \in 0 .. Len(b)
  BY <1>1
<1>3. t \in Seq(Bytes)
  BY <1>2, DropFacts
<1>4. <<>> \in Seq(Bytes) /\ b \o <<>> = b /\ t \o <<>> = t
  BY <1>3, ConcatEmptySeq
<1>5. Joins(b, <<>>)
  <2>1. \A c \in Seq(Bytes) : Joins(b, c)
    BY DechunkJoin
  <2> QED BY <1>4, <2>1, Zenon
<1>6. d.data = d.data \o e.data /\ d.consumed = d.consumed + e.consumed /\ d.end = e.end /\ d.bad = e.bad
  BY <1>4, <1>5 DEF Joins
<1>7. e.data \in Seq(Bytes) /\ e.consumed \in Nat
  BY <1>3, DechunkTyped DEF Decoded
<1> HIDE DEF d, e
<1>8. e.data = <<>>
  <2>1. PICK p \in Seq(Bytes) : p = d.data
    BY <1>1
  <2>2. PICK q \in Seq(Bytes) : q = e.data
    BY <1>7
  <2>3. p \o q = p
    BY <1>6, <2>1, <2>2
  <2>4. q = <<>>
    BY <2>3, ConcatEqualIffEmpty
  <2> QED BY <2>2, <2>4
<1>9. e.consumed = 0
  BY <1>1, <1>6, <1>7
<1> QED BY <1>3, <1>6, <1>8, <1>9 DEF d, e

-----------------------------------------------------------------------------
(* What split_sse_frames does. *)

Split == [frames : Seq(Seq(Bytes)), rest : Seq(Bytes)]

Gap(b) == Find(b, <<LF, LF>>)

\* One pass of the loop.
FrameStep(g, b) ==
  IF Gap(b) = 0 THEN [frames |-> <<>>, rest |-> b]
  ELSE [frames |-> <<SubSeq(b, 1, Gap(b) - 1)>> \o g[Drop(b, Gap(b) + 1)].frames,
        rest |-> g[Drop(b, Gap(b) + 1)].rest]

LEMMA GapFacts ==
  ASSUME NEW b \in Seq(Bytes), Gap(b) # 0
  PROVE  /\ Gap(b) \in 1 .. Len(b) - 1 /\ Gap(b) + 1 \in 0 .. Len(b)
         /\ Drop(b, Gap(b) + 1) \in Seq(Bytes) /\ Len(Drop(b, Gap(b) + 1)) = Len(b) - (Gap(b) + 1)
         /\ SubSeq(b, 1, Gap(b) - 1) \in Seq(Bytes)
<1>1. LF \in Bytes /\ Len(b) \in Nat
  BY SomeBytes, LenProperties
<1>2. Gap(b) \in Pairs(b, LF, LF)
  BY <1>1, FindPair DEF Gap
<1>3. Gap(b) \in 1 .. Len(b) - 1
  BY <1>2 DEF Pairs
<1>4. Gap(b) + 1 \in 0 .. Len(b) /\ Gap(b) - 1 \in 0 .. Len(b)
  BY <1>1, <1>3
<1>5. Drop(b, Gap(b) + 1) \in Seq(Bytes) /\ Len(Drop(b, Gap(b) + 1)) = Len(b) - (Gap(b) + 1)
  BY <1>4, DropFacts
<1>6. SubSeq(b, 1, Gap(b) - 1) \in Seq(Bytes)
  BY <1>4, TakeFacts
<1> QED BY <1>3, <1>4, <1>5, <1>6

LEMMA FrameStepTyped ==
  ASSUME NEW b \in Seq(Bytes), NEW g, Gap(b) # 0 => g[Drop(b, Gap(b) + 1)] \in Split
  PROVE  FrameStep(g, b) \in Split
<1>1. CASE Gap(b) = 0
  <2>1. <<>> \in Seq(Seq(Bytes))
    OBVIOUS
  <2> QED BY <1>1, <2>1 DEF FrameStep, Split
<1>2. CASE Gap(b) # 0
  <2> DEFINE f == SubSeq(b, 1, Gap(b) - 1)
             d == Drop(b, Gap(b) + 1)
  <2>1. f \in Seq(Bytes) /\ g[d].frames \in Seq(Seq(Bytes)) /\ g[d].rest \in Seq(Bytes)
    BY <1>2, GapFacts DEF Split
  <2>2. FrameStep(g, b) = [frames |-> <<f>> \o g[d].frames, rest |-> g[d].rest]
    BY <1>2, Zenon DEF FrameStep
  <2> HIDE DEF f, d
  <2>3. <<f>> \in Seq(Seq(Bytes))
    BY <2>1
  <2>4. <<f>> \o g[d].frames \in Seq(Seq(Bytes))
    BY <2>1, <2>3, ConcatProperties
  <2> QED BY <2>1, <2>2, <2>4 DEF Split
<1> QED BY <1>1, <1>2

\* SplitFrames is defined on all byte sequences and equals its body.
LEMMA SplitFramesDef ==
  ASSUME NEW b \in Seq(Bytes)
  PROVE  SplitFrames[b] = FrameStep(SplitFrames, b)
<1> DEFINE S == Seq(Bytes)
           G(g, s) == LET i    == Find(s, <<LF, LF>>)
                          more == g[Drop(s, i + 1)]
                      IN IF i = 0 THEN [frames |-> <<>>, rest |-> s]
                         ELSE [frames |-> <<SubSeq(s, 1, i - 1)>> \o more.frames, rest |-> more.rest]
<1>1. SplitFrames = CHOOSE g : g = [s \in S |-> G(g, s)]
  BY DEF SplitFrames
<1>2. ASSUME NEW g, NEW s \in S PROVE G(g, s) = FrameStep(g, s)
  BY DEF FrameStep, Gap
<1> HIDE DEF G
<1>3. \E g : g = [s \in S |-> G(g, s)]
  <2> DEFINE size == [s \in S |-> Len(s)]
             F == [p \in [S -> Split] \X S |-> FrameStep(p[1], p[2])]
  <2>1. size \in [S -> Nat]
    BY LenProperties
  <2>2. Split # {}
    <3>1. [frames |-> <<>>, rest |-> <<>>] \in Split
      BY DEF Split
    <3> QED BY <3>1
  <2>3. F \in [[S -> Split] \X S -> Split]
    <3>1. ASSUME NEW p \in [S -> Split] \X S PROVE FrameStep(p[1], p[2]) \in Split
      <4>1. p[1] \in [S -> Split] /\ p[2] \in Seq(Bytes)
        OBVIOUS
      <4>2. Gap(p[2]) # 0 => Drop(p[2], Gap(p[2]) + 1) \in S
        BY <4>1, GapFacts
      <4>3. Gap(p[2]) # 0 => p[1][Drop(p[2], Gap(p[2]) + 1)] \in Split
        BY <4>1, <4>2
      <4> QED BY <4>1, <4>3, FrameStepTyped
    <3> QED BY <3>1
  <2>4. ASSUME NEW g \in [S -> Split], NEW h \in [S -> Split], NEW s \in S,
               \A r \in S : size[r] < size[s] => g[r] = h[r]
        PROVE  F[<<g, s>>] = F[<<h, s>>]
    <3>1. F[<<g, s>>] = FrameStep(g, s) /\ F[<<h, s>>] = FrameStep(h, s)
      OBVIOUS
    <3>2. CASE Gap(s) # 0
      <4>1. /\ Len(s) \in Nat /\ Gap(s) \in 1 .. Len(s) - 1
            /\ Drop(s, Gap(s) + 1) \in S /\ Len(Drop(s, Gap(s) + 1)) = Len(s) - (Gap(s) + 1)
        BY <3>2, LenProperties, GapFacts
      <4>2. size[Drop(s, Gap(s) + 1)] < size[s]
        BY <4>1
      <4>3. g[Drop(s, Gap(s) + 1)] = h[Drop(s, Gap(s) + 1)]
        BY <2>4, <4>1, <4>2
      <4> QED BY <3>1, <4>3 DEF FrameStep
    <3>3. CASE Gap(s) = 0
      BY <3>1, <3>3 DEF FrameStep
    <3> QED BY <3>2, <3>3
  <2> HIDE DEF size
  <2> HIDE DEF F, S
  <2>5. \A g, h \in [S -> Split] : \A s \in S :
           (\A r \in S : size[r] < size[s] => g[r] = h[r]) => F[<<g, s>>] = F[<<h, s>>]
    BY <2>4
  <2>6. Recursive(S, size, Split, F)
    BY <2>1, <2>2, <2>3, <2>5 DEF Recursive
  <2>7. PICK f : Solves(f, S, Split, F)
    BY <2>6, RecursionExists
  <2>8. ASSUME NEW s \in S PROVE f[s] = G(f, s)
    <3>1. f \in [S -> Split] /\ f[s] = F[<<f, s>>]
      BY <2>7 DEF Solves
    <3>2. F[<<f, s>>] = FrameStep(f, s)
      BY <3>1 DEF F
    <3> QED BY <1>2, <3>1, <3>2
  <2>9. f = [s \in S |-> G(f, s)]
    BY <2>7, <2>8 DEF Solves
  <2> QED BY <2>9
<1> DEFINE D == SplitFrames
<1>4. D = [s \in S |-> G(D, s)]
  BY <1>1, <1>3
<1> HIDE DEF D
<1>5. D[b] = G(D, b)
  BY <1>4
<1> QED BY <1>2, <1>5 DEF D

LEMMA SplitCases ==
  ASSUME NEW b \in Seq(Bytes), NEW r, r = Drop(b, Gap(b) + 1)
  PROVE  /\ Gap(b) = 0 => SplitFrames[b].frames = <<>> /\ SplitFrames[b].rest = b
         /\ Gap(b) # 0 => /\ SplitFrames[b].frames = <<SubSeq(b, 1, Gap(b) - 1)>> \o SplitFrames[r].frames
                          /\ SplitFrames[b].rest = SplitFrames[r].rest
<1>1. CASE Gap(b) = 0
  <2>1. SplitFrames[b] = [frames |-> <<>>, rest |-> b]
    BY <1>1, SplitFramesDef DEF FrameStep
  <2> QED BY <1>1, <2>1
<1>2. CASE Gap(b) # 0
  <2> DEFINE f == <<SubSeq(b, 1, Gap(b) - 1)>> \o SplitFrames[r].frames
             t == SplitFrames[r].rest
  <2>1. SplitFrames[b] = [frames |-> f, rest |-> t]
    BY <1>2, SplitFramesDef, Zenon DEF FrameStep
  <2> HIDE DEF f, t
  <2>2. SplitFrames[b].frames = f /\ SplitFrames[b].rest = t
    BY <2>1
  <2> QED BY <1>2, <2>2, Zenon DEF f, t
<1> QED BY <1>1, <1>2

LEMMA SplitTyped ==
  ASSUME NEW b \in Seq(Bytes)
  PROVE  SplitFrames[b] \in Split
<1> DEFINE P == {s \in Seq(Bytes) : SplitFrames[s] \in Split}
<1>1. ASSUME NEW s \in Seq(Bytes), \A r \in Seq(Bytes) : Len(r) < Len(s) => r \in P
      PROVE  s \in P
  <2> DEFINE r == Drop(s, Gap(s) + 1)
  <2>1. Gap(s) # 0 => SplitFrames[r] \in Split
    <3>1. ASSUME Gap(s) # 0 PROVE SplitFrames[r] \in Split
      <4>1. Len(s) \in Nat /\ Gap(s) \in 1 .. Len(s) - 1 /\ r \in Seq(Bytes) /\ Len(r) = Len(s) - (Gap(s) + 1)
        BY <3>1, LenProperties, GapFacts
      <4> HIDE DEF r
      <4>2. Len(r) < Len(s)
        BY <4>1
      <4> QED BY <1>1, <4>1, <4>2
    <3> QED BY <3>1
  <2> QED BY <2>1, FrameStepTyped, SplitFramesDef
<1>2. P = Seq(Bytes)
  <2> HIDE DEF P
  <2>1. P \in SUBSET Seq(Bytes)
    BY DEF P
  <2> QED BY <1>1, <2>1, ByLength
<1> QED BY <1>2

\* The frames of x \o y are those of x and those of what x left, with y behind it.
SplitJoins(x, y) ==
  LET s == SplitFrames[x]
      t == SplitFrames[s.rest \o y]
  IN SplitFrames[x \o y].frames = s.frames \o t.frames /\ SplitFrames[x \o y].rest = t.rest

\* The frames of all the bytes are those of the first, then those of their rest with the others.
LEMMA SplitJoin ==
  ASSUME NEW x \in Seq(Bytes), NEW y \in Seq(Bytes)
  PROVE  SplitJoins(x, y)
<1> DEFINE P == {s \in Seq(Bytes) : SplitJoins(s, y)}
<1>1. ASSUME NEW s \in Seq(Bytes), \A r \in Seq(Bytes) : Len(r) < Len(s) => r \in P
      PROVE  SplitJoins(s, y)
  <2> DEFINE w == s \o y
  <2>1. w \in Seq(Bytes) /\ Len(s) \in Nat
    BY LenProperties, ConcatProperties
  <2>2. CASE Gap(s) = 0
    <3>1. SplitFrames[s].frames = <<>> /\ SplitFrames[s].rest = s
      BY <2>2, SplitCases
    <3>2. SplitFrames[w].frames \in Seq(Seq(Bytes))
      BY <2>1, SplitTyped DEF Split
    <3> HIDE DEF w
    <3>3. <<>> \o SplitFrames[w].frames = SplitFrames[w].frames
      BY <3>2, ConcatEmptySeq
    <3> QED BY <3>1, <3>3, Zenon DEF SplitJoins, w
  <2>3. CASE Gap(s) # 0
    <3> DEFINE k == Gap(s) + 1
               r == Drop(s, k)
               q == r \o y
               f == SubSeq(s, 1, Gap(s) - 1)
    <3>1. /\ Gap(s) \in 1 .. Len(s) - 1 /\ k \in 0 .. Len(s)
          /\ r \in Seq(Bytes) /\ Len(r) = Len(s) - k /\ f \in Seq(Bytes)
      BY <2>3, GapFacts
    <3>2. Gap(w) = Gap(s)
      BY <2>3, SomeBytes, FindMore DEF Gap
    <3>3. Drop(w, k) = q
      BY <3>1, DropConcat
    <3>4. SubSeq(w, 1, Gap(s) - 1) = f
      <4>1. CASE Gap(s) = 1
        <5>1. PICK one \in Int : one = 1
          OBVIOUS
        <5>2. PICK zero \in Int : zero = Gap(s) - 1 /\ zero < one
          BY <4>1, <5>1
        <5>3. SubSeq(w, one, zero) = <<>> /\ SubSeq(s, one, zero) = <<>>
          BY <5>2, SubSeqEmpty
        <5> QED BY <5>1, <5>2, <5>3
      <4>2. CASE Gap(s) # 1
        <5>1. PICK one \in 1 .. Len(s) : one = 1
          BY <2>1, <3>1
        <5>2. Gap(s) - 1 \in 1 .. Len(s)
          BY <2>1, <3>1, <4>2
        <5>3. SubSeq(s \o y, one, Gap(s) - 1) = SubSeq(s, one, Gap(s) - 1)
          BY <5>2, SubSeqOfConcat1
        <5> QED BY <5>1, <5>3
      <4> QED BY <4>1, <4>2
    <3>5. q \in Seq(Bytes)
      BY <3>1, ConcatProperties
    <3>6. /\ SplitFrames[s].frames = <<f>> \o SplitFrames[r].frames
          /\ SplitFrames[s].rest = SplitFrames[r].rest
      BY <2>3, SplitCases
    <3>7. /\ SplitFrames[w].frames = <<f>> \o SplitFrames[q].frames
          /\ SplitFrames[w].rest = SplitFrames[q].rest
      <4> HIDE DEF w, f, q, k
      <4>1. q = Drop(w, Gap(w) + 1) /\ Gap(w) # 0
        BY <2>3, <3>2, <3>3 DEF k
      <4>2. /\ SplitFrames[w].frames = <<SubSeq(w, 1, Gap(w) - 1)>> \o SplitFrames[q].frames
            /\ SplitFrames[w].rest = SplitFrames[q].rest
        BY <2>1, <4>1, SplitCases, ZenonT(40)
      <4> QED BY <3>2, <3>4, <4>2
    <3>8. SplitJoins(r, y)
      <4> HIDE DEF r, k
      <4>1. Len(r) < Len(s)
        BY <2>1, <3>1 DEF k
      <4> QED BY <1>1, <3>1, <4>1
    <3>9. SplitFrames[r] \in Split /\ SplitFrames[q] \in Split
      BY <3>1, <3>5, SplitTyped
    <3> DEFINE t == SplitFrames[SplitFrames[r].rest \o y]
    <3>10. SplitFrames[q].frames = SplitFrames[r].frames \o t.frames /\ SplitFrames[q].rest = t.rest
      BY <3>8, Zenon DEF SplitJoins
    <3>11. SplitFrames[r].rest \o y \in Seq(Bytes)
      <4>1. SplitFrames[r].rest \in Seq(Bytes)
        BY <3>9 DEF Split
      <4> QED BY <4>1, ConcatProperties
    <3>12. t \in Split
      BY <3>11, SplitTyped
    <3>13. SplitFrames[w].frames = SplitFrames[s].frames \o t.frames
      <4> HIDE DEF t, f, r, q, w
      <4>0. PICK U : U = Seq(Bytes)
        OBVIOUS
      <4>1. PICK a \in Seq(U) : a = <<f>>
        <5>1. f \in U
          BY <3>1, <4>0
        <5>2. <<f>> \in Seq(U)
          BY <5>1
        <5> QED BY <5>2, Zenon
      <4>2. PICK b \in Seq(U) : b = SplitFrames[r].frames
        BY <3>9, <4>0 DEF Split
      <4>3. PICK c \in Seq(U) : c = t.frames
        BY <3>12, <4>0 DEF Split
      <4>4. (a \o b) \o c = a \o (b \o c)
        BY Assoc, SMTT(40)
      <4> QED BY <3>6, <3>7, <3>10, <4>1, <4>2, <4>3, <4>4, Zenon
    <3>14. SplitFrames[w].rest = t.rest
      BY <3>7, <3>10, Zenon
    <3>15. SplitFrames[SplitFrames[s].rest \o y] = t
      BY <3>6, Zenon
    <3> HIDE DEF t
    <3> QED BY <3>13, <3>14, <3>15, Zenon DEF SplitJoins
  <2> QED BY <2>2, <2>3
<1>2. P = Seq(Bytes)
  <2> HIDE DEF SplitJoins
  <2>1. \A s \in Seq(Bytes) : (\A r \in Seq(Bytes) : Len(r) < Len(s) => r \in P) => s \in P
    BY <1>1
  <2> HIDE DEF P
  <2>2. P \in SUBSET Seq(Bytes)
    BY DEF P
  <2> QED BY <2>1, <2>2, ByLength
<1>3. x \in P
  BY <1>2
<1> QED BY <1>3

\* The rest of a body holds no frame.
LEMMA SplitAgain ==
  ASSUME NEW b \in Seq(Bytes), NEW t, t = SplitFrames[b].rest
  PROVE  t \in Seq(Bytes) /\ SplitFrames[t].frames = <<>> /\ SplitFrames[t].rest = t
<1>1. SplitFrames[b] \in Split /\ SplitFrames[b].frames \in Seq(Seq(Bytes)) /\ t \in Seq(Bytes)
  BY SplitTyped DEF Split
<1>2. SplitFrames[t].frames \in Seq(Seq(Bytes))
  BY <1>1, SplitTyped DEF Split
<1>3. <<>> \in Seq(Bytes) /\ b \o <<>> = b /\ t \o <<>> = t
  BY <1>1, ConcatEmptySeq
<1>4. SplitJoins(b, <<>>)
  <2>1. \A c \in Seq(Bytes) : SplitJoins(b, c)
    BY SplitJoin
  <2> QED BY <1>3, <2>1, Zenon
<1>5. SplitFrames[b].frames = SplitFrames[b].frames \o SplitFrames[t].frames /\ t = SplitFrames[t].rest
  BY <1>3, <1>4, Zenon DEF SplitJoins
<1>6. SplitFrames[t].frames = <<>>
  <2>1. PICK p \in Seq(Seq(Bytes)) : p = SplitFrames[b].frames
    BY <1>1
  <2>2. PICK q \in Seq(Seq(Bytes)) : q = SplitFrames[t].frames
    BY <1>2
  <2>3. p \o q = p
    BY <1>5, <2>1, <2>2
  <2>4. q = <<>>
    BY <2>3, ConcatEqualIffEmpty
  <2> QED BY <2>2, <2>4
<1> QED BY <1>1, <1>5, <1>6

-----------------------------------------------------------------------------
(* What the frames of a body say. *)

Frame == Seq(Bytes)
One(frame) == IF DecodeEvent(frame) = 0 THEN <<>> ELSE <<DecodeEvent(frame)>>

LEMMA DecodeEventTyped ==
  ASSUME NEW frame \in Seq(Bytes)
  PROVE  DecodeEvent(frame) \in Int
<1> DEFINE json == {i \in DOMAIN frame : frame[i] > JSONBASE}
<1>1. DOMAIN frame = 1 .. Len(frame) /\ \A i \in 1 .. Len(frame) : frame[i] \in Bytes
  BY LenProperties, ElementOfSeq
<1>2. json # {} => (CHOOSE i \in json : TRUE) \in json
  OBVIOUS
<1>3. json # {} => frame[CHOOSE i \in json : TRUE] \in Int
  <2>1. \A i \in json : frame[i] \in Bytes
    BY <1>1
  <2>2. Bytes \subseteq Int
    BY DEF Bytes
  <2> HIDE DEF json
  <2> QED BY <1>2, <2>1, <2>2
<1>4. DecodeEvent(frame) \in {0, -1} \/ (json # {} /\ DecodeEvent(frame) = frame[CHOOSE i \in json : TRUE] - JSONBASE)
  BY DEF DecodeEvent
<1>5. JSONBASE \in Int
  BY DEF JSONBASE
<1> HIDE DEF json
<1> QED BY <1>3, <1>4, <1>5

LEMMA OneTyped ==
  ASSUME NEW frame \in Seq(Bytes)
  PROVE  One(frame) \in Seq(Int)
<1>1. DecodeEvent(frame) \in Int
  BY DecodeEventTyped
<1>2. <<>> \in Seq(Int) /\ <<DecodeEvent(frame)>> \in Seq(Int)
  BY <1>1
<1> QED BY <1>2 DEF One

\* One pass of the loop.
EventStep(g, frames) == IF frames = <<>> THEN <<>> ELSE One(Head(frames)) \o g[Tail(frames)]

LEMMA EventStepTyped ==
  ASSUME NEW frames \in Seq(Frame), NEW g, frames # <<>> => g[Tail(frames)] \in Seq(Int)
  PROVE  EventStep(g, frames) \in Seq(Int)
<1>1. CASE frames = <<>>
  BY <1>1 DEF EventStep
<1>2. CASE frames # <<>>
  <2>0. Head(frames) \in Frame
    BY <1>2, HeadTailProperties
  <2>1. Head(frames) \in Seq(Bytes)
    BY <2>0, Zenon DEF Frame
  <2>2. PICK a \in Seq(Int) : a = One(Head(frames))
    BY <2>1, OneTyped
  <2>3. PICK b \in Seq(Int) : b = g[Tail(frames)]
    BY <1>2
  <2>4. a \o b \in Seq(Int)
    BY ConcatProperties
  <2> QED BY <1>2, <2>2, <2>3, <2>4 DEF EventStep
<1> QED BY <1>1, <1>2

\* Outcomes is defined on all sequences of frames and equals its body.
LEMMA OutcomesDef ==
  ASSUME NEW fs \in Seq(Seq(Bytes))
  PROVE  Outcomes[fs] = EventStep(Outcomes, fs)
<1> DEFINE S == Seq(Seq(Bytes))
           G(g, s) == LET event == DecodeEvent(Head(s))
                          more  == g[Tail(s)]
                      IN IF s = <<>> THEN <<>>
                         ELSE (IF event = 0 THEN <<>> ELSE <<event>>) \o more
<1>1. Outcomes = CHOOSE g : g = [s \in S |-> G(g, s)]
  BY DEF Outcomes
<1>2. ASSUME NEW g, NEW s \in S PROVE G(g, s) = EventStep(g, s)
  BY DEF EventStep, One
<1> HIDE DEF G
<1>9. S = Seq(Frame)
  BY Zenon DEF Frame
<1> HIDE DEF S
<1>10. \A s \in S : s \in Seq(Frame)
  BY <1>9, Zenon
<1>3. \E g : g = [s \in S |-> G(g, s)]
  <2> DEFINE size == [s \in S |-> Len(s)]
             F == [p \in [S -> Seq(Int)] \X S |-> EventStep(p[1], p[2])]
  <2>1. size \in [S -> Nat]
    <3>1. ASSUME NEW s \in S PROVE Len(s) \in Nat
      <4>1. PICK q \in Seq(Frame) : q = s
        BY <1>10
      <4> QED BY <4>1, LenProperties
    <3> QED BY <3>1
  <2>2. Seq(Int) # {}
    <3>1. <<>> \in Seq(Int)
      OBVIOUS
    <3> QED BY <3>1
  <2>10. ASSUME NEW s \in S, s # <<>>
         PROVE  Tail(s) \in S /\ Len(s) \in Nat /\ Len(Tail(s)) = Len(s) - 1
    <3>1. PICK q \in Seq(Frame) : q = s
      BY <1>10
    <3>2. Tail(q) \in Seq(Frame) /\ Len(q) \in Nat /\ Len(Tail(q)) = Len(q) - 1
      BY <2>10, <3>1, HeadTailProperties, LenProperties
    <3> QED BY <1>9, <3>1, <3>2, Zenon
  <2>3. F \in [[S -> Seq(Int)] \X S -> Seq(Int)]
    <3>1. ASSUME NEW p \in [S -> Seq(Int)] \X S PROVE EventStep(p[1], p[2]) \in Seq(Int)
      <4>1. p[1] \in [S -> Seq(Int)] /\ p[2] \in S
        OBVIOUS
      <4>2. p[2] # <<>> => p[1][Tail(p[2])] \in Seq(Int)
        BY <2>10, <4>1
      <4>3. PICK q \in Seq(Frame) : q = p[2]
        BY <1>10, <4>1
      <4> QED BY <4>2, <4>3, EventStepTyped
    <3> QED BY <3>1
  <2>4. ASSUME NEW g \in [S -> Seq(Int)], NEW h \in [S -> Seq(Int)], NEW s \in S,
               \A r \in S : size[r] < size[s] => g[r] = h[r]
        PROVE  F[<<g, s>>] = F[<<h, s>>]
    <3>1. F[<<g, s>>] = EventStep(g, s) /\ F[<<h, s>>] = EventStep(h, s)
      OBVIOUS
    <3>2. CASE s # <<>>
      <4>1. Tail(s) \in S /\ Len(s) \in Nat /\ Len(Tail(s)) = Len(s) - 1
        BY <2>10, <3>2
      <4>2. size[Tail(s)] < size[s]
        <5>1. size[Tail(s)] = Len(Tail(s)) /\ size[s] = Len(s)
          BY <4>1, Zenon
        <5>2. PICK t \in S : t = Tail(s)
          BY <4>1
        <5>3. Len(t) = Len(s) - 1
          BY <4>1, <5>2, Zenon
        <5>4. Len(t) < Len(s)
          BY <4>1, <5>3
        <5> QED BY <5>1, <5>2, <5>4, Zenon
      <4>3. g[Tail(s)] = h[Tail(s)]
        BY <2>4, <4>1, <4>2
      <4> QED BY <3>1, <4>3 DEF EventStep
    <3>3. CASE s = <<>>
      BY <3>1, <3>3 DEF EventStep
    <3> QED BY <3>2, <3>3
  <2> HIDE DEF size
  <2> HIDE DEF F
  <2>5. \A g, h \in [S -> Seq(Int)] : \A s \in S :
           (\A r \in S : size[r] < size[s] => g[r] = h[r]) => F[<<g, s>>] = F[<<h, s>>]
    BY <2>4
  <2>6. Recursive(S, size, Seq(Int), F)
    BY <2>1, <2>2, <2>3, <2>5 DEF Recursive
  <2>7. PICK f : Solves(f, S, Seq(Int), F)
    BY <2>6, RecursionExists
  <2>8. ASSUME NEW s \in S PROVE f[s] = G(f, s)
    <3>1. f \in [S -> Seq(Int)] /\ f[s] = F[<<f, s>>]
      BY <2>7 DEF Solves
    <3>2. F[<<f, s>>] = EventStep(f, s)
      BY <3>1 DEF F
    <3> QED BY <1>2, <3>1, <3>2 DEF S
  <2>9. f = [s \in S |-> G(f, s)]
    BY <2>7, <2>8 DEF Solves
  <2> QED BY <2>9
<1> DEFINE D == Outcomes
<1>4. D = [s \in S |-> G(D, s)]
  BY <1>1, <1>3
<1> HIDE DEF D
<1>5. D[fs] = G(D, fs)
  BY <1>4 DEF S
<1> QED BY <1>2, <1>5 DEF D, S

LEMMA OutcomesCases ==
  ASSUME NEW fs \in Seq(Frame)
  PROVE  /\ fs = <<>> => Outcomes[fs] = <<>>
         /\ fs # <<>> => Outcomes[fs] = One(Head(fs)) \o Outcomes[Tail(fs)]
<1>1. fs \in Seq(Seq(Bytes))
  BY Zenon DEF Frame
<1>2. Outcomes[fs] = EventStep(Outcomes, fs)
  BY <1>1, OutcomesDef
<1> QED BY <1>2, Zenon DEF EventStep

LEMMA OutcomesTyped ==
  ASSUME NEW fs \in Seq(Frame)
  PROVE  Outcomes[fs] \in Seq(Int)
<1> DEFINE P == {s \in Seq(Frame) : Outcomes[s] \in Seq(Int)}
<1>1. ASSUME NEW s \in Seq(Frame), \A r \in Seq(Frame) : Len(r) < Len(s) => r \in P
      PROVE  s \in P
  <2>1. s # <<>> => Outcomes[Tail(s)] \in Seq(Int)
    <3>1. ASSUME s # <<>> PROVE Outcomes[Tail(s)] \in Seq(Int)
      <4>1. Tail(s) \in Seq(Frame) /\ Len(s) \in Nat /\ Len(Tail(s)) = Len(s) - 1
        BY <3>1, HeadTailProperties, LenProperties
      <4>2. Len(Tail(s)) < Len(s)
        BY <4>1
      <4> QED BY <1>1, <4>1, <4>2
    <3> QED BY <3>1
  <2>2. EventStep(Outcomes, s) \in Seq(Int)
    BY <2>1, EventStepTyped
  <2>3. s \in Seq(Seq(Bytes))
    BY Zenon DEF Frame
  <2>4. Outcomes[s] = EventStep(Outcomes, s)
    BY <2>3, OutcomesDef
  <2> QED BY <2>2, <2>4
<1>2. P = Seq(Frame)
  <2> HIDE DEF P
  <2>1. P \in SUBSET Seq(Frame)
    BY DEF P
  <2> QED BY <1>1, <2>1, ByLength
<1> QED BY <1>2

\* The events of two runs of frames are those of the first, then those of the second.
LEMMA OutcomesJoin ==
  ASSUME NEW fs \in Seq(Frame), NEW gs \in Seq(Frame)
  PROVE  Outcomes[fs \o gs] = Outcomes[fs] \o Outcomes[gs]
<1> DEFINE P == {s \in Seq(Frame) : Outcomes[s \o gs] = Outcomes[s] \o Outcomes[gs]}
<1>0. PICK c \in Seq(Int) : c = Outcomes[gs]
  BY OutcomesTyped
<1>1. ASSUME NEW s \in Seq(Frame), \A r \in Seq(Frame) : Len(r) < Len(s) => r \in P
      PROVE  s \in P
  <2>1. CASE s = <<>>
    <3>1. s \o gs = gs /\ <<>> \o c = c
      BY <2>1, ConcatEmptySeq
    <3>2. Outcomes[s] = <<>>
      BY <2>1, OutcomesCases
    <3> QED BY <1>0, <3>1, <3>2
  <2>2. CASE s # <<>>
    <3>1. Head(s) \in Frame /\ Tail(s) \in Seq(Frame) /\ Len(s) \in Nat /\ Len(Tail(s)) = Len(s) - 1
      BY <2>2, HeadTailProperties, LenProperties
    <3>2. PICK t \in Seq(Frame) : t = Tail(s)
      BY <3>1
    <3>3. Len(t) < Len(s)
      BY <3>1, <3>2
    <3>4. Outcomes[t \o gs] = Outcomes[t] \o c
      BY <1>0, <1>1, <3>3
    <3>5. PICK w \in Seq(Frame) : w = s \o gs
      BY ConcatProperties
    <3>6. w # <<>> /\ Head(w) = Head(s) /\ Tail(w) = t \o gs
      <4>1. Len(gs) \in Nat /\ Len(w) = Len(s) + Len(gs) /\ Len(s) >= 1
        BY <2>2, <3>1, <3>5, LenProperties, ConcatProperties, EmptySeq
      <4>2. \A i \in 1 .. Len(s) + Len(gs) : w[i] = IF i <= Len(s) THEN s[i] ELSE gs[i - Len(s)]
        BY <3>5, ConcatProperties
      <4>3. w # <<>>
        BY <3>1, <4>1
      <4>4. Head(w) = w[1] /\ Head(s) = s[1]
        BY <2>2, <4>3
      <4>5. 1 \in 1 .. Len(s) + Len(gs) /\ 1 <= Len(s)
        BY <3>1, <4>1
      <4>6. Head(w) = Head(s)
        BY <4>2, <4>4, <4>5
      <4>7. PICK x \in Seq(Frame) : x = Tail(w)
        BY <4>3, HeadTailProperties
      <4>8. Len(x) = Len(w) - 1 /\ \A i \in 1 .. Len(x) : x[i] = w[i + 1]
        BY <4>3, <4>7, HeadTailProperties
      <4>9. PICK y \in Seq(Frame) : y = t \o gs
        BY ConcatProperties
      <4>10. Len(y) = Len(t) + Len(gs) /\ \A i \in 1 .. Len(t) + Len(gs) : y[i] = IF i <= Len(t) THEN t[i] ELSE gs[i - Len(t)]
        BY <4>9, ConcatProperties
      <4>11. Len(t) = Len(s) - 1 /\ \A i \in 1 .. Len(t) : t[i] = s[i + 1]
        BY <2>2, <3>1, <3>2, HeadTailProperties
      <4>12. Len(x) = Len(y)
        BY <3>1, <4>1, <4>8, <4>10, <4>11
      <4>13. ASSUME NEW i \in 1 .. Len(x) PROVE x[i] = y[i]
        <5>1. i + 1 \in 1 .. Len(s) + Len(gs) /\ i \in 1 .. Len(t) + Len(gs)
          BY <3>1, <4>1, <4>8, <4>11
        <5>2. x[i] = IF i + 1 <= Len(s) THEN s[i + 1] ELSE gs[i + 1 - Len(s)]
          BY <4>2, <4>8, <5>1
        <5>3. y[i] = IF i <= Len(t) THEN t[i] ELSE gs[i - Len(t)]
          BY <4>10, <5>1
        <5>4. CASE i <= Len(t)
          <6>1. i + 1 <= Len(s) /\ i \in 1 .. Len(t)
            BY <3>1, <4>11, <5>4
          <6> QED BY <4>11, <5>2, <5>3, <5>4, <6>1
        <5>5. CASE ~(i <= Len(t))
          <6>1. ~(i + 1 <= Len(s)) /\ i + 1 - Len(s) = i - Len(t)
            BY <3>1, <4>11, <5>5
          <6> QED BY <5>2, <5>3, <5>5, <6>1
        <5> QED BY <5>4, <5>5
      <4>14. x = y
        BY <4>12, <4>13, SeqEqual
      <4> QED BY <4>3, <4>6, <4>7, <4>9, <4>14
    <3>7. Outcomes[w] = One(Head(s)) \o Outcomes[t \o gs]
      BY <3>6, OutcomesCases
    <3>8. Outcomes[s] = One(Head(s)) \o Outcomes[t]
      BY <2>2, <3>2, OutcomesCases
    <3>9. PICK a \in Seq(Int) : a = One(Head(s))
      <4>1. Head(s) \in Seq(Bytes)
        BY <3>1, Zenon DEF Frame
      <4> QED BY <4>1, OneTyped
    <3>10. PICK b \in Seq(Int) : b = Outcomes[t]
      BY OutcomesTyped
    <3>11. (a \o b) \o c = a \o (b \o c)
      <4>1. AssocOn(Int)
        BY AssocAll
      <4> QED BY <4>1, Zenon DEF AssocOn
    <3>12. Outcomes[s \o gs] = Outcomes[s] \o Outcomes[gs]
      BY <1>0, <3>4, <3>5, <3>7, <3>8, <3>9, <3>10, <3>11, Zenon
    <3> QED BY <3>12
  <2> QED BY <2>1, <2>2
<1>2. P = Seq(Frame)
  <2> HIDE DEF P
  <2>1. P \in SUBSET Seq(Frame)
    BY DEF P
  <2> QED BY <1>1, <2>1, ByLength
<1> QED BY <1>2

-----------------------------------------------------------------------------
(* What the session keeps. *)

\* k and b are kept of the bytes g, and v from n on is what g said.
Kept(g, k, b, v, n) ==
  LET d == Dechunk[g]
      s == SplitFrames[d.data]
  IN ~d.bad /\ ~d.end /\ k = Drop(g, d.consumed) /\ b = s.rest /\ Drop(v, n) = Outcomes[s.frames]

\* No bytes: no data, no frame, no event.
LEMMA NoBytes ==
  /\ Dechunk[<<>>].data = <<>> /\ Dechunk[<<>>].consumed = 0 /\ ~Dechunk[<<>>].end /\ ~Dechunk[<<>>].bad
  /\ SplitFrames[<<>>].frames = <<>> /\ SplitFrames[<<>>].rest = <<>> /\ Outcomes[<<>>] = <<>>
<1>1. PICK nil \in Seq(Bytes) : nil = <<>> /\ Len(nil) = 0
  <2>1. <<>> \in Seq(Bytes) /\ Len(<<>>) = 0
    OBVIOUS
  <2> QED BY <2>1, Zenon
<1>2. Eol(nil) = 0 /\ Gap(nil) = 0
  <2>1. Pairs(nil, CR, LF) = {} /\ Pairs(nil, LF, LF) = {}
    BY <1>1 DEF Pairs
  <2>2. CR \in Bytes /\ LF \in Bytes
    BY SomeBytes
  <2> QED BY <2>1, <2>2, FindPair DEF Eol, Gap
<1>3. ~Whole(nil) /\ ~Wrong(nil) /\ ~Final(nil)
  BY <1>2 DEF Whole, Wrong, Final
<1>4. Dechunk[nil].data = <<>> /\ Dechunk[nil].consumed = 0 /\ ~Dechunk[nil].end /\ ~Dechunk[nil].bad
  BY <1>3, DechunkOther
<1>5. SplitFrames[nil].frames = <<>> /\ SplitFrames[nil].rest = nil
  BY <1>2, SplitCases
<1>6. PICK none \in Seq(Frame) : none = <<>>
  <2>1. <<>> \in Seq(Frame)
    OBVIOUS
  <2> QED BY <2>1, Zenon
<1>7. Outcomes[none] = <<>>
  BY <1>6, OutcomesCases
<1> QED BY <1>1, <1>4, <1>5, <1>6, <1>7

LEMMA KeptNothing ==
  ASSUME NEW v \in Seq(Int)
  PROVE  Kept(<<>>, <<>>, <<>>, v, Len(v))
<1>1. PICK nil \in Seq(Bytes) : nil = <<>>
  <2>1. <<>> \in Seq(Bytes)
    OBVIOUS
  <2> QED BY <2>1, Zenon
<1>2. Drop(nil, 0) = nil /\ Drop(v, Len(v)) = <<>>
  BY DropNone, DropAll
<1> QED BY <1>1, <1>2, NoBytes, Zenon DEF Kept

\* A read that decodes keeps the session what one decode of everything would leave.
LEMMA KeptMore ==
  ASSUME NEW g \in Seq(Bytes), NEW k, NEW b, NEW v \in Seq(Int), NEW n \in 0 .. Len(v), Kept(g, k, b, v, n),
         NEW c \in Seq(Bytes), NEW e, e = Dechunk[k \o c], ~e.bad, ~e.end,
         NEW t, t = SplitFrames[b \o e.data]
  PROVE  Kept(g \o c, Drop(k \o c, e.consumed), t.rest, v \o Outcomes[t.frames], n)
<1> DEFINE d == Dechunk[g]
           s == SplitFrames[d.data]
<1>1. ~d.bad /\ ~d.end /\ k = Drop(g, d.consumed) /\ b = s.rest /\ Drop(v, n) = Outcomes[s.frames]
  BY Zenon DEF Kept
<1>2. d.data \in Seq(Bytes) /\ d.consumed \in Nat /\ d.consumed <= Len(g) /\ Len(g) \in Nat
  BY DechunkTyped, LenProperties DEF Decoded
<1>3. d.consumed \in 0 .. Len(g)
  BY <1>2
<1>4. k \in Seq(Bytes) /\ Len(k) = Len(g) - d.consumed
  BY <1>1, <1>3, DropFacts
<1>5. k \o c \in Seq(Bytes) /\ Len(k \o c) = Len(k) + Len(c) /\ Len(c) \in Nat
  BY <1>4, ConcatProperties, LenProperties
<1>6. e.data \in Seq(Bytes) /\ e.consumed \in Nat /\ e.consumed <= Len(k \o c)
  BY <1>5, DechunkTyped DEF Decoded
<1>7. /\ Dechunk[g \o c].data = d.data \o e.data
      /\ Dechunk[g \o c].consumed = d.consumed + e.consumed
      /\ Dechunk[g \o c].end = e.end /\ Dechunk[g \o c].bad = e.bad
  <2>1. Joins(g, c)
    BY DechunkJoin
  <2> QED BY <1>1, <2>1, Zenon DEF Joins
<1>8. SplitFrames[d.data] \in Split
  BY <1>2, SplitTyped
<1>9. b \in Seq(Bytes) /\ b \o e.data \in Seq(Bytes)
  <2>1. b \in Seq(Bytes)
    BY <1>1, <1>8 DEF Split
  <2> QED BY <1>6, <2>1, ConcatProperties
<1>10. t \in Split
  BY <1>9, SplitTyped
<1>11. /\ SplitFrames[d.data \o e.data].frames = s.frames \o t.frames
       /\ SplitFrames[d.data \o e.data].rest = t.rest
  <2>1. \A x, y \in Seq(Bytes) : SplitJoins(x, y)
    BY SplitJoin
  <2>2. SplitJoins(d.data, e.data)
    BY <1>2, <1>6, <2>1, Zenon
  <2> QED BY <1>1, <2>2, Zenon DEF SplitJoins
<1>12. Outcomes[s.frames \o t.frames] = Outcomes[s.frames] \o Outcomes[t.frames]
  <2>1. PICK x \in Seq(Frame) : x = s.frames
    BY <1>8 DEF Split, Frame
  <2>2. PICK y \in Seq(Frame) : y = t.frames
    BY <1>10 DEF Split, Frame
  <2>3. Outcomes[x \o y] = Outcomes[x] \o Outcomes[y]
    BY OutcomesJoin
  <2> QED BY <2>1, <2>2, <2>3, Zenon
<1>13. Drop(v \o Outcomes[t.frames], n) = Drop(v, n) \o Outcomes[t.frames]
  <2>1. PICK y \in Seq(Frame) : y = t.frames
    BY <1>10 DEF Split, Frame
  <2>2. PICK w \in Seq(Int) : w = Outcomes[y]
    BY OutcomesTyped
  <2>3. Drop(v \o w, n) = Drop(v, n) \o w
    BY DropConcat
  <2> QED BY <2>1, <2>2, <2>3, Zenon
<1>14. Drop(g \o c, d.consumed + e.consumed) = Drop(k \o c, e.consumed)
  <2>1. g \o c \in Seq(Bytes) /\ Len(g \o c) = Len(g) + Len(c)
    BY ConcatProperties
  <2>2. Drop(g \o c, d.consumed) = k \o c
    BY <1>1, <1>3, DropConcat
  <2>3. d.consumed \in 0 .. Len(g \o c) /\ e.consumed \in 0 .. Len(g \o c) - d.consumed
    BY <1>2, <1>4, <1>5, <1>6, <2>1, SMTT(40)
  <2>4. PICK w \in Seq(Bytes) : w = g \o c
    BY <2>1
  <2>5. Drop(Drop(w, d.consumed), e.consumed) = Drop(w, d.consumed + e.consumed)
    BY <2>3, <2>4, DropDrop
  <2> QED BY <2>2, <2>4, <2>5, Zenon
<1> HIDE DEF d, s
<1>15. /\ ~Dechunk[g \o c].bad /\ ~Dechunk[g \o c].end
       /\ Drop(k \o c, e.consumed) = Drop(g \o c, Dechunk[g \o c].consumed)
       /\ t.rest = SplitFrames[Dechunk[g \o c].data].rest
       /\ Drop(v \o Outcomes[t.frames], n) = Outcomes[SplitFrames[Dechunk[g \o c].data].frames]
  BY <1>1, <1>7, <1>11, <1>12, <1>13, <1>14, Zenon
<1> QED BY <1>15, Zenon DEF Kept

-----------------------------------------------------------------------------
(* The bytes that can be on the wire, and what a read finds. *)

LEMMA ChunkTyped ==
  ASSUME NEW s \in Seq(Bytes), NEW n \in 0 .. 9
  PROVE  <<Digit(n), CR, LF>> \o s \o <<CR, LF>> \in Seq(Bytes)
<1>1. Digit(n) \in Bytes /\ CR \in Bytes /\ LF \in Bytes
  BY SomeBytes
<1>2. <<Digit(n), CR, LF>> \in Seq(Bytes) /\ <<CR, LF>> \in Seq(Bytes)
  BY <1>1
<1>3. <<Digit(n), CR, LF>> \o s \in Seq(Bytes)
  BY <1>2, ConcatProperties
<1> QED BY <1>2, <1>3, ConcatProperties

LEMMA LineTyped ==
  ASSUME NEW n \in Events
  PROVE  Line(n) \in Seq(Bytes) /\ Len(Line(n)) = 4
<1>1. MaxEvents \in Nat
  BY StreamAssumption
<1>2. JSONBASE + n \in Bytes
  BY <1>1 DEF Events, Bytes, JSONBASE
<1>3. DATA \in Bytes /\ LF \in Bytes
  BY SomeBytes
<1> QED BY <1>2, <1>3 DEF Line

LEMMA SentTyped ==
  ASSUME NEW n \in Events
  PROVE  /\ Cuts(Line(n)) \subseteq Seq(Bytes)
         /\ Garbled(Line(n)) \subseteq Seq(Bytes)
<1> DEFINE s == Line(n)
<1>1. s \in Seq(Bytes) /\ Len(s) = 4
  BY LineTyped
<1> HIDE DEF s
<1>2. Chunk(s) \in Seq(Bytes)
  BY <1>1, ChunkTyped DEF Chunk
<1>3. SubSeq(s, 1, Len(s) - 1) \in Seq(Bytes) /\ Len(SubSeq(s, 1, Len(s) - 1)) = 3
  <2>1. Len(s) - 1 \in 0 .. Len(s) /\ Len(s) - 1 = 3
    BY <1>1
  <2> QED BY <1>1, <2>1, TakeFacts
<1>4. <<LF>> \in Seq(Bytes) /\ Len(<<LF>>) = 1
  BY SomeBytes
<1>5. Chunk(SubSeq(s, 1, Len(s) - 1)) \in Seq(Bytes) /\ Chunk(<<LF>>) \in Seq(Bytes)
  <2>1. \A t \in Seq(Bytes) : Len(t) \in 0 .. 9 => Chunk(t) \in Seq(Bytes)
    BY ChunkTyped DEF Chunk
  <2>2. Len(SubSeq(s, 1, Len(s) - 1)) \in 0 .. 9 /\ Len(<<LF>>) \in 0 .. 9
    BY <1>3, <1>4
  <2> QED BY <1>3, <1>4, <2>1, <2>2, Zenon
<1>6. Chunk(SubSeq(s, 1, Len(s) - 1)) \o Chunk(<<LF>>) \in Seq(Bytes)
  BY <1>5, ConcatProperties
<1>7. ASSUME NEW d \in {-1, 1} PROVE <<Digit(Len(s) + d), CR, LF>> \o s \o <<CR, LF>> \in Seq(Bytes)
  <2>1. Len(s) + d \in 0 .. 9
    BY <1>1
  <2> QED BY <1>1, <2>1, ChunkTyped
<1>8. Cuts(s) \subseteq Seq(Bytes)
  BY <1>2, <1>6, Zenon DEF Cuts
<1>9. Garbled(s) \subseteq Seq(Bytes)
  BY <1>7, Zenon DEF Garbled
<1> QED BY <1>8, <1>9 DEF s

LEMMA OtherTyped ==
  /\ \A status \in {GOOD, REFUSAL} : HeadOf(status) \in Seq(Bytes)
  /\ Chunk(Comment) \in Seq(Bytes) /\ LastChunk \in Seq(Bytes)
<1>1. CR \in Bytes /\ LF \in Bytes /\ COLON \in Bytes /\ Digit(0) \in Bytes
  BY SomeBytes
<1>2. GOOD \in Bytes /\ REFUSAL \in Bytes
  BY StreamAssumption DEF GOOD, REFUSAL, Bytes, JSONBASE
<1>3. Comment \in Seq(Bytes) /\ Len(Comment) = 3
  BY <1>1 DEF Comment
<1>4. Chunk(Comment) \in Seq(Bytes)
  <2>1. PICK s \in Seq(Bytes) : s = Comment /\ Len(s) \in 0 .. 9
    BY <1>3
  <2>2. Chunk(s) \in Seq(Bytes)
    BY <2>1, ChunkTyped DEF Chunk
  <2> QED BY <2>1, <2>2
<1>5. LastChunk \in Seq(Bytes)
  BY <1>1 DEF LastChunk
<1>6. \A status \in {GOOD, REFUSAL} : HeadOf(status) \in Seq(Bytes)
  BY <1>1, <1>2 DEF HeadOf
<1> QED BY <1>4, <1>5, <1>6

\* Find returns 0 or the first place of the needle.
LEMMA FindBounds ==
  ASSUME NEW s, NEW q, Len(s) \in Nat, Len(q) \in Nat
  PROVE  \/ Find(s, q) = 0
         \/ /\ Find(s, q) \in 1 .. Len(s) - Len(q) + 1
            /\ SubSeq(s, Find(s, q), Find(s, q) + Len(q) - 1) = q
            /\ \A j \in 1 .. Len(s) - Len(q) + 1 :
                 SubSeq(s, j, j + Len(q) - 1) = q => Find(s, q) <= j
<1> DEFINE at == {i \in 1 .. Len(s) - Len(q) + 1 : SubSeq(s, i, i + Len(q) - 1) = q}
<1>1. Find(s, q) = IF at = {} THEN 0 ELSE CHOOSE i \in at : \A j \in at : i <= j
  BY DEF Find
<1>2. at \in SUBSET Nat
  OBVIOUS
<1> HIDE DEF at
<1>3. Find(s, q) = 0 \/ (Find(s, q) \in at /\ \A j \in at : Find(s, q) <= j)
  BY <1>1, <1>2, FirstOf
<1> QED BY <1>3, Zenon DEF at

LEMMA HeldTyped ==
  ASSUME NEW all \in Seq(Bytes), NEW held \in Held(all)
  PROVE  held \in Seq(Bytes)
<1> DEFINE q == <<CR, LF, CR, LF>>
           k == Find(all, q)
<1>1. SplitHead(all).tag = "ok" /\ held = Drop(all, SplitHead(all).used)
  BY DEF Held
<1>2. k = 0 => SplitHead(all) = [tag |-> "partial", used |-> 0]
  BY DEF SplitHead
<1>3. k # 0 /\ all[1] # GOOD => SplitHead(all) = [tag |-> "refused", used |-> 0]
  BY DEF SplitHead
<1>4. k # 0 /\ all[1] = GOOD => SplitHead(all) = [tag |-> "ok", used |-> k + 3]
  BY DEF SplitHead
<1>5. Len(all) \in Nat /\ Len(q) = 4
  BY LenProperties
<1>6. k = 0 \/ k \in 1 .. Len(all) - 3
  <2>1. k = 0 \/ k \in 1 .. Len(all) - Len(q) + 1
    BY <1>5, FindBounds, Zenon
  <2>2. Len(all) - Len(q) + 1 = Len(all) - 3
    BY <1>5
  <2> QED BY <2>1, <2>2, Zenon
<1> HIDE DEF k
<1>7. k # 0 /\ SplitHead(all).used = k + 3
  BY <1>1, <1>2, <1>3, <1>4
<1>8. k + 3 \in 0 .. Len(all)
  BY <1>5, <1>6, <1>7
<1> QED BY <1>1, <1>7, <1>8, DropFacts

-----------------------------------------------------------------------------
(* Types, and the cuts. *)

StreamTypes ==
  /\ made \in 0 .. MaxEvents /\ chan \in Seq(Events) /\ ring \in Seq(Events)
  /\ cursor \in Int /\ -1 <= cursor /\ cursor <= Len(ring)
  /\ since \in Nat /\ since <= Len(ring)
  /\ wire \in Seq(Bytes) /\ socket \in Seq(Bytes) /\ body \in Seq(Bytes) /\ got \in Seq(Bytes)
  /\ delivered \in Seq(Int) /\ base \in 0 .. Len(delivered)
  /\ phase \in {"down", "asked", "body"}
  /\ missed \in BOOLEAN /\ closed \in BOOLEAN /\ garbled \in BOOLEAN

CutsHold ==
  /\ phase = "asked" => got = <<>> /\ body = <<>> /\ base = Len(delivered)
  /\ phase = "body" => Kept(got, socket, body, delivered, base)

\* The parts of Digest by the names they have in its definition.
LEMMA DigestTyped ==
  ASSUME NEW held \in Seq(Bytes), NEW tail \in Seq(Bytes), NEW out, out = Digest(held, tail),
         NEW d, d = Dechunk[held], NEW s, s = SplitFrames[tail \o d.data]
  PROVE  /\ out.bad = d.bad /\ out.end = d.end /\ out.socket = Drop(held, d.consumed)
         /\ out.body = s.rest /\ out.events = Outcomes[s.frames]
         /\ out.socket \in Seq(Bytes) /\ out.body \in Seq(Bytes) /\ out.events \in Seq(Int)
<1>1. d.data \in Seq(Bytes) /\ d.consumed \in Nat /\ d.consumed <= Len(held) /\ Len(held) \in Nat
  BY DechunkTyped, LenProperties DEF Decoded
<1>2. Drop(held, d.consumed) \in Seq(Bytes)
  <2>1. d.consumed \in 0 .. Len(held)
    BY <1>1
  <2> QED BY <2>1, DropFacts
<1>3. tail \o d.data \in Seq(Bytes)
  BY <1>1, ConcatProperties
<1>4. s.rest \in Seq(Bytes) /\ s.frames \in Seq(Frame)
  BY <1>3, SplitTyped DEF Split, Frame
<1>5. Outcomes[s.frames] \in Seq(Int)
  BY <1>4, OutcomesTyped
<1> DEFINE x == Drop(held, d.consumed)
           y == Outcomes[s.frames]
<1>6. out = [bad |-> d.bad, end |-> d.end, socket |-> x, body |-> s.rest, events |-> y]
  BY Zenon DEF Digest
<1> HIDE DEF x, y
<1>7. out.bad = d.bad /\ out.end = d.end /\ out.socket = x /\ out.body = s.rest /\ out.events = y
  BY <1>6
<1> QED BY <1>2, <1>4, <1>5, <1>7, Zenon DEF x, y

LEMMA ReadTyped ==
  ASSUME StreamTypes, NEW n \in 1 .. Len(wire)
  PROVE  /\ SubSeq(wire, 1, n) \in Seq(Bytes) /\ socket \o SubSeq(wire, 1, n) \in Seq(Bytes)
         /\ Drop(wire, n) \in Seq(Bytes)
         /\ \A held \in AfterHead(socket \o SubSeq(wire, 1, n)) : held \in Seq(Bytes)
<1>1. wire \in Seq(Bytes) /\ socket \in Seq(Bytes) /\ Len(wire) \in Nat
  BY LenProperties DEF StreamTypes
<1>2. n \in 0 .. Len(wire)
  BY <1>1
<1>3. SubSeq(wire, 1, n) \in Seq(Bytes) /\ Drop(wire, n) \in Seq(Bytes)
  BY <1>1, <1>2, TakeFacts, DropFacts
<1>4. socket \o SubSeq(wire, 1, n) \in Seq(Bytes)
  BY <1>1, <1>3, ConcatProperties
<1>5. ASSUME NEW held \in AfterHead(socket \o SubSeq(wire, 1, n)) PROVE held \in Seq(Bytes)
  <2>1. held = socket \o SubSeq(wire, 1, n) \/ held \in Held(socket \o SubSeq(wire, 1, n))
    BY DEF AfterHead
  <2> QED BY <1>4, <2>1, HeldTyped
<1> QED BY <1>3, <1>4, <1>5

\* The bytes a pass of the loop adds to those the session has kept.
Arrived(held, n) == IF phase = "asked" THEN held ELSE SubSeq(wire, 1, n)

\* A pass of the loop keeps the session what one decode of everything read would leave.
LEMMA DecodesKeeps ==
  ASSUME StreamTypes, CutsHold, phase \in {"asked", "body"}, NEW n \in 1 .. Len(wire),
         NEW held \in AfterHead(socket \o SubSeq(wire, 1, n)), Decodes(held, n)
  PROVE  /\ phase' = "body" /\ socket' \in Seq(Bytes) /\ body' \in Seq(Bytes) /\ got' \in Seq(Bytes)
         /\ delivered' \in Seq(Int) /\ base' \in 0 .. Len(delivered')
         /\ Kept(got', socket', body', delivered', base')
<1> DEFINE c == Arrived(held, n)
           k == IF phase = "asked" THEN <<>> ELSE socket
           d == Dechunk[held]
           s == SplitFrames[body \o d.data]
<1>1. PICK out : /\ out = Digest(held, body) /\ ~out.bad /\ ~out.end
                 /\ phase' = "body" /\ socket' = out.socket /\ body' = out.body
                 /\ delivered' = delivered \o out.events
                 /\ IF out.socket = <<>> /\ out.body = <<>>
                    THEN got' = <<>> /\ base' = Len(delivered')
                    ELSE got' = got \o c /\ base' = base
  BY DEF Decodes, Arrived
<1>2. /\ held \in Seq(Bytes) /\ SubSeq(wire, 1, n) \in Seq(Bytes)
      /\ body \in Seq(Bytes) /\ got \in Seq(Bytes) /\ delivered \in Seq(Int) /\ base \in 0 .. Len(delivered)
  BY ReadTyped DEF StreamTypes
<1>3. /\ out.bad = d.bad /\ out.end = d.end /\ out.socket = Drop(held, d.consumed)
      /\ out.body = s.rest /\ out.events = Outcomes[s.frames]
      /\ out.socket \in Seq(Bytes) /\ out.body \in Seq(Bytes) /\ out.events \in Seq(Int)
  <2>1. PICK h \in Seq(Bytes) : h = held
    BY <1>2
  <2>2. PICK t \in Seq(Bytes) : t = body
    BY <1>2
  <2>3. d = Dechunk[h] /\ s = SplitFrames[t \o d.data] /\ out = Digest(h, t)
    BY <1>1, <2>1, <2>2, Zenon
  <2> HIDE DEF d, s, k, c
  <2>4. /\ out.bad = d.bad /\ out.end = d.end /\ out.socket = Drop(h, d.consumed)
        /\ out.body = s.rest /\ out.events = Outcomes[s.frames]
        /\ out.socket \in Seq(Bytes) /\ out.body \in Seq(Bytes) /\ out.events \in Seq(Int)
    BY <2>3, DigestTyped
  <2> QED BY <2>1, <2>4, Zenon
<1>4. c \in Seq(Bytes)
  BY <1>2 DEF Arrived
<1>5. Kept(got, k, body, delivered, base) /\ held = k \o c
  <2>1. CASE phase = "asked"
    <3>1. got = <<>> /\ body = <<>> /\ base = Len(delivered) /\ k = <<>> /\ c = held
      BY <2>1 DEF CutsHold, Arrived
    <3>2. Kept(<<>>, <<>>, <<>>, delivered, Len(delivered))
      BY <1>2, KeptNothing
    <3>3. <<>> \o held = held
      BY <1>2, ConcatEmptySeq
    <3> HIDE DEF c, k
    <3> QED BY <3>1, <3>2, <3>3, Zenon
  <2>2. CASE phase = "body"
    <3>1. k = socket /\ c = SubSeq(wire, 1, n) /\ held = socket \o SubSeq(wire, 1, n)
      BY <2>2 DEF Arrived, AfterHead
    <3>2. Kept(got, socket, body, delivered, base)
      BY <2>2 DEF CutsHold
    <3> HIDE DEF c, k
    <3> QED BY <3>1, <3>2, Zenon
  <2> QED BY <2>1, <2>2
<1> HIDE DEF c, k, d, s
<1>6. got \o c \in Seq(Bytes)
  BY <1>2, <1>4, ConcatProperties
<1>7. delivered \o out.events \in Seq(Int) /\ Len(delivered) \in Nat /\ Len(delivered') = Len(delivered) + Len(out.events)
      /\ Len(out.events) \in Nat
  BY <1>1, <1>2, <1>3, ConcatProperties, LenProperties
<1>8. /\ base \in 0 .. Len(delivered') /\ Len(delivered') \in 0 .. Len(delivered')
  BY <1>2, <1>7
<1>9. Kept(got \o c, socket', body', delivered', base)
  <2>1. PICK g \in Seq(Bytes) : g = got
    BY <1>2
  <2>2. PICK x \in Seq(Bytes) : x = c
    BY <1>4
  <2>3. PICK v \in Seq(Int) : v = delivered
    BY <1>2
  <2>4. base \in 0 .. Len(v) /\ Kept(g, k, body, v, base)
    BY <1>2, <1>5, <2>1, <2>3
  <2>5. d = Dechunk[k \o x] /\ ~d.bad /\ ~d.end /\ s = SplitFrames[body \o d.data]
    BY <1>1, <1>3, <1>5, <2>2, Zenon DEF d, s
  <2>6. Kept(g \o x, Drop(k \o x, d.consumed), s.rest, v \o Outcomes[s.frames], base)
    BY <2>4, <2>5, KeptMore
  <2>7. Drop(k \o x, d.consumed) = socket' /\ s.rest = body' /\ v \o Outcomes[s.frames] = delivered'
    BY <1>1, <1>3, <1>5, <2>2, <2>3, Zenon
  <2> QED BY <2>1, <2>2, <2>6, <2>7, Zenon
<1>10. CASE out.socket = <<>> /\ out.body = <<>>
  <2>1. got' = <<>> /\ base' = Len(delivered') /\ socket' = <<>> /\ body' = <<>>
    BY <1>1, <1>10
  <2>2. Kept(<<>>, <<>>, <<>>, delivered', Len(delivered'))
    <3>1. delivered' \in Seq(Int)
      BY <1>1, <1>7
    <3> QED BY <3>1, KeptNothing
  <2>3. <<>> \in Seq(Bytes)
    OBVIOUS
  <2> QED BY <1>1, <1>7, <1>8, <2>1, <2>2, <2>3, Zenon
<1>11. CASE ~(out.socket = <<>> /\ out.body = <<>>)
  <2>1. got' = got \o c /\ base' = base
    BY <1>1, <1>11
  <2> QED BY <1>1, <1>3, <1>6, <1>7, <1>8, <1>9, <2>1, Zenon
<1> QED BY <1>10, <1>11

LEMMA OldestFacts ==
  ASSUME StreamTypes
  PROVE  Oldest \in 0 .. Len(ring) /\ Len(ring) \in Nat
<1>1. Len(ring) \in Nat /\ RingCap \in Nat
  BY StreamAssumption, LenProperties DEF StreamTypes
<1> QED BY <1>1 DEF Oldest

LEMMA StreamInitTyped == Init => StreamTypes /\ CutsHold
<1> SUFFICES ASSUME Init PROVE StreamTypes /\ CutsHold
  OBVIOUS
<1>1. <<>> \in Seq(Bytes) /\ <<>> \in Seq(Events) /\ <<>> \in Seq(Int) /\ Len(<<>>) = 0
  OBVIOUS
<1>2. MaxEvents \in Nat
  BY StreamAssumption
<1>3. 0 \in 0 .. MaxEvents /\ 0 \in 0 .. 0 /\ 0 \in Nat /\ -1 \in Int /\ -1 <= -1 /\ -1 <= 0 /\ 0 <= 0
  BY <1>2
<1>4. /\ chan = <<>> /\ made = 0 /\ ring = <<>> /\ cursor = -1 /\ missed = FALSE /\ since = 0
      /\ wire = <<>> /\ closed = FALSE /\ phase = "down" /\ socket = <<>> /\ body = <<>> /\ delivered = <<>>
      /\ got = <<>> /\ base = 0 /\ garbled = FALSE
  BY DEF Init
<1>5. StreamTypes
  <2>1. made \in 0 .. MaxEvents /\ chan \in Seq(Events) /\ ring \in Seq(Events)
    BY <1>1, <1>3, <1>4
  <2>2. cursor \in Int /\ -1 <= cursor /\ cursor <= Len(ring) /\ since \in Nat /\ since <= Len(ring)
    BY <1>1, <1>3, <1>4
  <2>3. /\ wire \in Seq(Bytes) /\ socket \in Seq(Bytes) /\ body \in Seq(Bytes) /\ got \in Seq(Bytes)
        /\ delivered \in Seq(Int)
    BY <1>1, <1>4
  <2>4. base \in 0 .. Len(delivered)
    BY <1>1, <1>3, <1>4
  <2>5. phase \in {"down", "asked", "body"} /\ missed \in BOOLEAN /\ closed \in BOOLEAN /\ garbled \in BOOLEAN
    BY <1>4
  <2> QED BY <2>1, <2>2, <2>3, <2>4, <2>5 DEF StreamTypes
<1>6. CutsHold
  BY <1>4 DEF CutsHold
<1> QED BY <1>5, <1>6

\* The server's steps leave the session alone, and write bytes.
ServerTypes ==
  /\ made' \in 0 .. MaxEvents /\ chan' \in Seq(Events) /\ ring' \in Seq(Events)
  /\ cursor' \in Int /\ -1 <= cursor' /\ cursor' <= Len(ring')
  /\ since' \in Nat /\ since' <= Len(ring')
  /\ wire' \in Seq(Bytes)
  /\ missed' \in BOOLEAN /\ closed' \in BOOLEAN /\ garbled' \in BOOLEAN
  /\ UNCHANGED session

\* The server's steps keep the types and do not touch the session.
LEMMA ServerTyped ==
  ASSUME StreamTypes,
         \/ Sample \/ Notice \/ Feed \/ Accept(GOOD) \/ Accept(REFUSAL)
         \/ Lagged \/ Send \/ KeepAlive \/ Ends \/ Garble \/ Stalls
  PROVE  ServerTypes
<1>0. /\ MaxEvents \in Nat /\ made \in Nat /\ Len(ring) \in Nat /\ Oldest \in 0 .. Len(ring)
      /\ chan \in Seq(Events) /\ ring \in Seq(Events) /\ wire \in Seq(Bytes)
  BY StreamAssumption, OldestFacts DEF StreamTypes
<1>1. CASE Sample \/ Notice
  <2>1. /\ made < MaxEvents /\ made' = made + 1 /\ chan' \in {chan, Append(chan, made + 1)}
        /\ UNCHANGED <<ring, conn, session, wire, closed, garbled>>
    BY <1>1 DEF Sample, Notice
  <2>2. made + 1 \in 0 .. MaxEvents /\ made + 1 \in Events
    BY <1>0, <2>1 DEF Events, StreamTypes
  <2>3. chan' \in Seq(Events)
    <3>1. PICK m \in Events : m = made + 1
      BY <2>2
    <3>2. Append(chan, m) \in Seq(Events)
      BY <1>0, AppendProperties
    <3> QED BY <1>0, <2>1, <3>1, <3>2
  <2> QED BY <2>1, <2>2, <2>3 DEF ServerTypes, StreamTypes, conn
<1>2. CASE Feed
  <2>1. /\ chan # <<>> /\ ring' = Append(ring, Head(chan)) /\ chan' = Tail(chan)
        /\ UNCHANGED <<made, conn, session, wire, closed, garbled>>
    BY <1>2 DEF Feed
  <2>2. Head(chan) \in Events /\ Tail(chan) \in Seq(Events)
    BY <1>0, <2>1, HeadTailProperties
  <2>3. ring' \in Seq(Events) /\ Len(ring') = Len(ring) + 1
    BY <1>0, <2>1, <2>2, AppendProperties
  <2>4. cursor <= Len(ring') /\ since <= Len(ring')
    BY <1>0, <2>3 DEF StreamTypes
  <2> QED BY <2>1, <2>2, <2>3, <2>4 DEF ServerTypes, StreamTypes, conn
<1>3. CASE Accept(GOOD) \/ Accept(REFUSAL)
  <2>1. PICK status \in {GOOD, REFUSAL} : Accept(status)
    BY <1>3
  <2>2. wire' \in Seq(Bytes)
    <3>1. wire' = HeadOf(status)
      BY <2>1 DEF Accept
    <3> QED BY <3>1, OtherTyped
  <2>3. /\ cursor' \in {cursor, Len(ring)} /\ since' \in {since, Len(ring)} /\ closed' \in BOOLEAN /\ missed' \in BOOLEAN
        /\ UNCHANGED <<server, session, garbled>>
    BY <2>1 DEF Accept
  <2>4. cursor' \in Int /\ -1 <= cursor' /\ cursor' <= Len(ring) /\ since' \in Nat /\ since' <= Len(ring)
    BY <1>0, <2>3 DEF StreamTypes
  <2> QED BY <2>2, <2>3, <2>4 DEF ServerTypes, StreamTypes, server
<1>4. CASE Lagged
  <2>1. cursor' = Oldest /\ missed' = TRUE /\ UNCHANGED <<server, since, session, wire, closed, garbled>>
    BY <1>4 DEF Lagged
  <2>2. cursor' \in Int /\ -1 <= cursor' /\ cursor' <= Len(ring)
    BY <1>0, <2>1
  <2> QED BY <2>1, <2>2 DEF ServerTypes, StreamTypes, server
<1>5. CASE Send \/ Garble
  <2>1. /\ cursor \in Oldest .. Len(ring) - 1 /\ cursor' = cursor + 1
        /\ \E bytes \in Cuts(Line(ring[cursor + 1])) \cup Garbled(Line(ring[cursor + 1])) : wire' = wire \o bytes
        /\ UNCHANGED <<server, missed, since, session, closed>> /\ garbled' \in {garbled, TRUE}
    BY <1>5 DEF Send, Garble
  <2>2. cursor + 1 \in 1 .. Len(ring)
    BY <1>0, <2>1
  <2>3. ring[cursor + 1] \in Events
    BY <1>0, <2>2, ElementOfSeq
  <2>4. wire' \in Seq(Bytes)
    <3>1. PICK bytes \in Cuts(Line(ring[cursor + 1])) \cup Garbled(Line(ring[cursor + 1])) : wire' = wire \o bytes
      BY <2>1
    <3>2. bytes \in Seq(Bytes)
      BY <2>3, SentTyped
    <3> QED BY <1>0, <3>1, <3>2, ConcatProperties
  <2>5. cursor' \in Int /\ -1 <= cursor' /\ cursor' <= Len(ring)
    BY <1>0, <2>1, <2>2
  <2> QED BY <2>1, <2>4, <2>5 DEF ServerTypes, StreamTypes, server
<1>6. CASE KeepAlive \/ Ends
  <2>1. /\ wire' \in {Chunk(Comment), wire \o LastChunk, wire, <<>>} /\ closed' \in {closed, TRUE}
        /\ UNCHANGED <<server, conn, session, garbled>>
    BY <1>6 DEF KeepAlive, Ends
  <2>2. wire' \in Seq(Bytes)
    <3>1. wire \o LastChunk \in Seq(Bytes)
      BY <1>0, OtherTyped, ConcatProperties
    <3>2. <<>> \in Seq(Bytes)
      OBVIOUS
    <3> QED BY <1>0, <2>1, <3>1, <3>2, OtherTyped
  <2> QED BY <2>1, <2>2 DEF ServerTypes, StreamTypes, server, conn
<1>7. CASE Stalls
  <2>1. UNCHANGED <<server, conn, session, wire, closed, garbled>>
    BY <1>7 DEF Stalls
  <2> QED BY <1>0, <2>1 DEF ServerTypes, StreamTypes, server, conn
<1> QED BY <1>1, <1>2, <1>3, <1>4, <1>5, <1>6, <1>7

\* What a session that returns has delivered, and where it stands.
LEMMA ReturnsTyped ==
  ASSUME StreamTypes, NEW n \in 1 .. Len(wire), Returns(socket \o SubSeq(wire, 1, n))
  PROVE  /\ phase' = "down" /\ socket' = <<>> /\ body' = <<>> /\ got' = <<>> /\ base' = Len(delivered') /\ closed' = TRUE
         /\ delivered' \in Seq(Int) /\ UNCHANGED <<server, conn, garbled, faults, stalled>>
<1> DEFINE all == socket \o SubSeq(wire, 1, n)
<1>1. body \in Seq(Bytes) /\ delivered \in Seq(Int)
  BY DEF StreamTypes
<1>2. \A held \in AfterHead(all) : held \in Seq(Bytes)
  BY ReadTyped
<1>3. \/ delivered' = delivered
      \/ \E held \in AfterHead(all) : delivered' = delivered \o Digest(held, body).events
  BY DEF Returns
<1>4. delivered' \in Seq(Int)
  <2>1. CASE delivered' = delivered
    BY <1>1, <2>1
  <2>2. CASE \E held \in AfterHead(all) : delivered' = delivered \o Digest(held, body).events
    <3>1. PICK held \in AfterHead(all) : delivered' = delivered \o Digest(held, body).events
      BY <2>2
    <3>2. PICK h \in Seq(Bytes) : h = held
      BY <1>2
    <3>3. PICK t \in Seq(Bytes) : t = body
      BY <1>1
    <3>4. Digest(h, t).events \in Seq(Int)
      BY DigestTyped
    <3>5. Digest(held, body).events \in Seq(Int)
      BY <3>2, <3>3, <3>4, Zenon
    <3> QED BY <1>1, <3>1, <3>5, ConcatProperties
  <2> QED BY <1>3, <2>1, <2>2
<1>5. /\ phase' = "down" /\ socket' = <<>> /\ body' = <<>> /\ got' = <<>> /\ base' = Len(delivered') /\ closed' = TRUE
      /\ UNCHANGED <<server, conn, garbled, faults, stalled>>
  BY Zenon DEF Returns, HangUp
<1> QED BY <1>4, <1>5

\* Types and CutsHold are inductive.
LEMMA StreamStep == StreamTypes /\ CutsHold /\ [Next]_vars => (StreamTypes /\ CutsHold)'
<1> SUFFICES ASSUME StreamTypes, CutsHold, [Next]_vars PROVE (StreamTypes /\ CutsHold)'
  OBVIOUS
<1>1. ASSUME ServerTypes PROVE (StreamTypes /\ CutsHold)'
  <2>1. UNCHANGED <<phase, socket, body, delivered, got, base>>
    BY <1>1 DEF ServerTypes, session
  <2>2. StreamTypes'
    BY <1>1, <2>1 DEF ServerTypes, StreamTypes
  <2>3. CutsHold'
    BY <2>1, Zenon DEF CutsHold
  <2> QED BY <2>2, <2>3
<1>2. CASE Sample \/ Notice \/ Feed \/ Accept(GOOD) \/ Accept(REFUSAL)
           \/ Lagged \/ Send \/ KeepAlive \/ Ends \/ Garble \/ Stalls
  BY <1>1, <1>2, ServerTyped
<1>3. CASE Connect
  <2>1. /\ phase' = "asked" /\ socket' = <<>> /\ body' = <<>> /\ got' = <<>> /\ base' = Len(delivered)
        /\ wire' = <<>> /\ closed' = FALSE /\ garbled' = FALSE /\ cursor' = -1 /\ missed' = FALSE /\ since' = Len(ring)
        /\ UNCHANGED <<server, delivered>>
    BY <1>3 DEF Connect
  <2>2. <<>> \in Seq(Bytes) /\ Len(ring) \in Nat /\ Len(delivered) \in Nat
    BY LenProperties DEF StreamTypes
  <2>3. Len(delivered) \in 0 .. Len(delivered) /\ -1 <= Len(ring) /\ -1 \in Int
    BY <2>2
  <2>6. cursor' \in Int /\ -1 <= cursor' /\ cursor' <= Len(ring') /\ since' \in Nat /\ since' <= Len(ring')
    BY <2>1, <2>2, <2>3 DEF server
  <2>7. base' \in 0 .. Len(delivered')
    BY <2>1, <2>3
  <2>8. /\ made' \in 0 .. MaxEvents /\ chan' \in Seq(Events) /\ ring' \in Seq(Events)
        /\ wire' \in Seq(Bytes) /\ socket' \in Seq(Bytes) /\ body' \in Seq(Bytes) /\ got' \in Seq(Bytes)
        /\ delivered' \in Seq(Int) /\ phase' \in {"down", "asked", "body"}
        /\ missed' \in BOOLEAN /\ closed' \in BOOLEAN /\ garbled' \in BOOLEAN
    BY <2>1, <2>2 DEF StreamTypes, server
  <2>4. StreamTypes'
    BY <2>6, <2>7, <2>8 DEF StreamTypes
  <2>5. CutsHold'
    BY <2>1 DEF CutsHold
  <2> QED BY <2>4, <2>5
<1>4. CASE ReadsEnd
  <2>1. phase' = "down" /\ UNCHANGED <<wire, closed, socket, body, delivered, got, base, server, conn, garbled>>
    BY <1>4 DEF ReadsEnd, HangUp
  <2>2. StreamTypes'
    BY <2>1 DEF StreamTypes, server, conn
  <2>3. CutsHold'
    BY <2>1 DEF CutsHold
  <2> QED BY <2>2, <2>3
<1>5. CASE \E n \in 1 .. Len(wire) : Read(n)
  <2>1. PICK n \in 1 .. Len(wire) : Read(n)
    BY <1>5
  <2> DEFINE all == socket \o SubSeq(wire, 1, n)
  <2>2. all \in Seq(Bytes) /\ Drop(wire, n) \in Seq(Bytes) /\ <<>> \in Seq(Bytes)
    BY ReadTyped
  <2>3. phase \in {"asked", "body"}
    BY <2>1 DEF Read, Listening
  <2>4. \/ wire' = Drop(wire, n) /\ HoldsHead(all)
        \/ wire' = Drop(wire, n) /\ \E held \in AfterHead(all) : Decodes(held, n)
        \/ wire' = <<>> /\ Returns(all)
    BY <2>1 DEF Read
  <2>5. CASE wire' = Drop(wire, n) /\ HoldsHead(all)
    <3>1. /\ phase = "asked" /\ socket' = all
          /\ UNCHANGED <<server, conn, phase, body, delivered, got, base, closed, garbled, faults, stalled>>
      BY <2>5 DEF HoldsHead
    <3> HIDE DEF all
    <3>2. StreamTypes'
      BY <2>2, <2>5, <3>1 DEF StreamTypes, server, conn
    <3>3. CutsHold'
      BY <3>1 DEF CutsHold
    <3> QED BY <3>2, <3>3
  <2>6. CASE wire' = Drop(wire, n) /\ \E held \in AfterHead(all) : Decodes(held, n)
    <3>1. PICK held \in AfterHead(all) : Decodes(held, n)
      BY <2>6
    <3>2. /\ phase' = "body" /\ socket' \in Seq(Bytes) /\ body' \in Seq(Bytes) /\ got' \in Seq(Bytes)
          /\ delivered' \in Seq(Int) /\ base' \in 0 .. Len(delivered')
          /\ Kept(got', socket', body', delivered', base')
      BY <2>3, <3>1, DecodesKeeps
    <3>3. UNCHANGED <<server, conn, closed, garbled, faults, stalled>>
      BY <3>1 DEF Decodes
    <3> HIDE DEF all
    <3>4. StreamTypes'
      BY <2>2, <2>6, <3>2, <3>3 DEF StreamTypes, server, conn
    <3>5. CutsHold'
      BY <3>2, Zenon DEF CutsHold
    <3> QED BY <3>4, <3>5
  <2>7. CASE wire' = <<>> /\ Returns(all)
    <3>1. /\ phase' = "down" /\ socket' = <<>> /\ body' = <<>> /\ got' = <<>> /\ base' = Len(delivered') /\ closed' = TRUE
          /\ delivered' \in Seq(Int) /\ UNCHANGED <<server, conn, garbled, faults, stalled>>
      BY <2>7, ReturnsTyped
    <3>2. base' \in 0 .. Len(delivered')
      BY <3>1, LenProperties
    <3> HIDE DEF all
    <3>3. StreamTypes'
      BY <2>2, <2>7, <3>1, <3>2 DEF StreamTypes, server, conn
    <3>4. CutsHold'
      BY <3>1 DEF CutsHold
    <3> QED BY <3>3, <3>4
  <2> QED BY <2>4, <2>5, <2>6, <2>7
<1>6. CASE UNCHANGED vars
  <2>1. UNCHANGED <<made, chan, ring, cursor, missed, since, wire, socket, body, got, delivered, base, phase, closed, garbled>>
    BY <1>6 DEF vars, server, conn, session
  <2>2. StreamTypes'
    BY <2>1 DEF StreamTypes
  <2>3. CutsHold'
    BY <2>1, Zenon DEF CutsHold
  <2> QED BY <2>2, <2>3
<1> QED BY <1>2, <1>3, <1>4, <1>5, <1>6 DEF Next

(* However the bytes of a body were cut into reads, the session has kept   *)
(* and delivered what one decode of all of them gives (transport.rs,       *)
(* remote.rs: dechunk, split_sse_frames and the loop that calls them).     *)
THEOREM CutsDoNotMatterCorrect == Spec => []CutsDoNotMatter
<1>1. Init => StreamTypes /\ CutsHold
  BY StreamInitTyped
<1>2. StreamTypes /\ CutsHold /\ [Next]_vars => (StreamTypes /\ CutsHold)'
  BY StreamStep
<1>3. CutsHold => CutsDoNotMatter
  BY Zenon DEF CutsHold, CutsDoNotMatter, Kept, Drop
<1> QED BY <1>1, <1>2, <1>3, PTL DEF Spec

-----------------------------------------------------------------------------
(* Bytes that are still to be read. *)

\* b decodes to x, to its last byte.
Says(b, x) == /\ b \in Seq(Bytes) /\ x \in Seq(Bytes)
              /\ Dechunk[b].data = x /\ Dechunk[b].consumed = Len(b) /\ ~Dechunk[b].bad /\ ~Dechunk[b].end

\* The events of the bytes p, after the tail b of the body.
Yield(p, b) == Outcomes[SplitFrames[b \o Dechunk[p].data].frames]
\* Nothing remains of p.
Clean(p, b) == Says(p, Dechunk[p].data) /\ SplitFrames[b \o Dechunk[p].data].rest = <<>>
\* Nothing written after p is ever decoded.
Dead(p) == \A z \in Seq(Bytes) : Dechunk[p \o z].data = Dechunk[p].data

LEMMA DechunkParts ==
  ASSUME NEW b \in Seq(Bytes)
  PROVE  /\ Dechunk[b].data \in Seq(Bytes) /\ Dechunk[b].consumed \in 0 .. Len(b)
         /\ Drop(b, Dechunk[b].consumed) \in Seq(Bytes)
         /\ Len(b) \in Nat
<1>1. /\ Dechunk[b].data \in Seq(Bytes) /\ Dechunk[b].consumed \in Nat
      /\ Dechunk[b].consumed <= Len(b) /\ Len(b) \in Nat
  BY DechunkTyped, LenProperties DEF Decoded
<1>2. Dechunk[b].consumed \in 0 .. Len(b)
  BY <1>1
<1> QED BY <1>1, <1>2, DropFacts

\* A decode goes on with the bytes that come behind one that has not ended.
LEMMA DechunkOn ==
  ASSUME NEW b \in Seq(Bytes), ~Dechunk[b].bad, ~Dechunk[b].end, NEW c \in Seq(Bytes),
         NEW k, k = Drop(b, Dechunk[b].consumed)
  PROVE  /\ Dechunk[b \o c].data = Dechunk[b].data \o Dechunk[k \o c].data
         /\ Dechunk[b \o c].consumed = Dechunk[b].consumed + Dechunk[k \o c].consumed
         /\ Dechunk[b \o c].end = Dechunk[k \o c].end /\ Dechunk[b \o c].bad = Dechunk[k \o c].bad
<1>1. \A x, y \in Seq(Bytes) : Joins(x, y)
  BY DechunkJoin
<1>2. Joins(b, c)
  BY <1>1
<1> QED BY <1>2, Zenon DEF Joins

\* Bytes decoded to the last one do not change what follows them.
LEMMA SaysOn ==
  ASSUME NEW b, NEW x, Says(b, x), NEW c \in Seq(Bytes)
  PROVE  /\ Dechunk[b \o c].data = x \o Dechunk[c].data
         /\ Dechunk[b \o c].consumed = Len(b) + Dechunk[c].consumed
         /\ Dechunk[b \o c].end = Dechunk[c].end /\ Dechunk[b \o c].bad = Dechunk[c].bad
<1>1. PICK p \in Seq(Bytes) : p = b
  BY DEF Says
<1>2. Dechunk[p].data = x /\ Dechunk[p].consumed = Len(p) /\ ~Dechunk[p].bad /\ ~Dechunk[p].end
  BY <1>1 DEF Says
<1>3. Drop(p, Len(p)) = <<>> /\ <<>> \o c = c
  BY DropAll, ConcatEmptySeq
<1> DEFINE k == Drop(p, Dechunk[p].consumed)
<1>4. k \o c = c
  BY <1>2, <1>3
<1> HIDE DEF k
<1>5. /\ Dechunk[p \o c].data = Dechunk[p].data \o Dechunk[k \o c].data
      /\ Dechunk[p \o c].consumed = Dechunk[p].consumed + Dechunk[k \o c].consumed
      /\ Dechunk[p \o c].end = Dechunk[k \o c].end /\ Dechunk[p \o c].bad = Dechunk[k \o c].bad
  BY <1>2, DechunkOn DEF k
<1> QED BY <1>1, <1>2, <1>4, <1>5, Zenon

LEMMA SaysBoth ==
  ASSUME NEW b, NEW x, Says(b, x), NEW c, NEW y, Says(c, y)
  PROVE  Says(b \o c, x \o y)
<1>1. b \in Seq(Bytes) /\ c \in Seq(Bytes) /\ x \in Seq(Bytes) /\ y \in Seq(Bytes)
  BY DEF Says
<1>2. Dechunk[c].data = y /\ Dechunk[c].consumed = Len(c) /\ ~Dechunk[c].bad /\ ~Dechunk[c].end
  BY DEF Says
<1>3. /\ Dechunk[b \o c].data = x \o y /\ Dechunk[b \o c].consumed = Len(b) + Len(c)
      /\ ~Dechunk[b \o c].bad /\ ~Dechunk[b \o c].end
  <2>1. PICK w \in Seq(Bytes) : w = c
    BY <1>1
  <2>2. /\ Dechunk[b \o w].data = x \o Dechunk[w].data
        /\ Dechunk[b \o w].consumed = Len(b) + Dechunk[w].consumed
        /\ Dechunk[b \o w].end = Dechunk[w].end /\ Dechunk[b \o w].bad = Dechunk[w].bad
    BY SaysOn
  <2> QED BY <1>2, <2>1, <2>2, Zenon
<1>4. b \o c \in Seq(Bytes) /\ Len(b \o c) = Len(b) + Len(c) /\ x \o y \in Seq(Bytes)
  BY <1>1, ConcatProperties
<1> QED BY <1>3, <1>4 DEF Says

\* The first bytes of a chunk are its length.
LEMMA ChunkFront ==
  ASSUME NEW n \in 0 .. 9, NEW t \in Seq(Bytes), NEW b, b = <<Digit(n), CR, LF>> \o t
  PROVE  /\ b \in Seq(Bytes) /\ Len(b) = Len(t) + 3 /\ Len(t) \in Nat
         /\ \A i \in 1 .. Len(t) : b[i + 3] = t[i]
         /\ Eol(b) = 2 /\ Size(b) = n
<1> DEFINE h == <<Digit(n), CR, LF>>
<1>1. Digit(n) \in Bytes /\ CR \in Bytes /\ LF \in Bytes /\ Len(t) \in Nat
  BY SomeBytes, LenProperties
<1>2. h \in Seq(Bytes) /\ Len(h) = 3 /\ h[1] = Digit(n) /\ h[2] = CR /\ h[3] = LF
  BY <1>1
<1> HIDE DEF h
<1>3. PICK p \in Seq(Bytes) : p = h
  BY <1>2
<1>4. b = p \o t /\ Len(p) = 3
  BY <1>2, <1>3 DEF h
<1>5. /\ b \in Seq(Bytes) /\ Len(b) = Len(p) + Len(t)
      /\ \A i \in 1 .. Len(p) + Len(t) : b[i] = IF i <= Len(p) THEN p[i] ELSE t[i - Len(p)]
  <2>1. /\ p \o t \in Seq(Bytes) /\ Len(p \o t) = Len(p) + Len(t)
        /\ \A i \in 1 .. Len(p) + Len(t) : (p \o t)[i] = IF i <= Len(p) THEN p[i] ELSE t[i - Len(p)]
    BY ConcatProperties
  <2> QED BY <1>4, <2>1, Zenon
<1>6. Len(b) = Len(t) + 3
  BY <1>1, <1>4, <1>5
<1>7. \A i \in 1 .. Len(t) : b[i + 3] = t[i]
  <2> TAKE i \in 1 .. Len(t)
  <2>1. i + 3 \in 1 .. Len(p) + Len(t) /\ ~(i + 3 <= Len(p)) /\ i + 3 - Len(p) = i
    BY <1>1, <1>4
  <2> QED BY <1>5, <2>1
<1>8. b[1] = Digit(n) /\ b[2] = CR /\ b[3] = LF
  <2>1. \A i \in 1 .. 3 : b[i] = p[i]
    <3> TAKE i \in 1 .. 3
    <3>1. i \in 1 .. Len(p) + Len(t) /\ i <= Len(p)
      BY <1>1, <1>4
    <3> QED BY <1>5, <3>1
  <2>2. 1 \in 1 .. 3 /\ 2 \in 1 .. 3 /\ 3 \in 1 .. 3
    OBVIOUS
  <2> QED BY <1>2, <1>3, <2>1, <2>2
<1>9. Eol(b) = 2
  <2>1. PICK q \in Seq(Bytes) : q = b
    BY <1>5
  <2>2. Pairs(q, CR, LF) # {} => Eol(q) \in Pairs(q, CR, LF) /\ \A j \in Pairs(q, CR, LF) : Eol(q) <= j
    BY <1>1, FindPair DEF Eol
  <2>3. 2 \in Pairs(q, CR, LF)
    <3>1. 2 \in 1 .. Len(q) - 1
      BY <1>1, <1>6, <2>1
    <3>2. q[2] = CR /\ q[2 + 1] = LF
      BY <1>8, <2>1
    <3> QED BY <3>1, <3>2 DEF Pairs
  <2>4. Eol(q) \in Pairs(q, CR, LF) /\ Eol(q) <= 2
    BY <2>2, <2>3
  <2>5. Eol(q) \in 1 .. 2 /\ q[Eol(q)] = CR
    <3>1. Eol(q) \in 1 .. Len(q) - 1 /\ q[Eol(q)] = CR
      BY <2>4 DEF Pairs
    <3>2. Eol(q) \in 1 .. 2
      <4>1. PICK i \in Int : i = Eol(q)
        BY <3>1
      <4>2. i \in 1 .. Len(q) - 1 /\ i <= 2
        BY <2>4, <3>1, <4>1
      <4>3. i \in 1 .. 2
        BY <4>2
      <4> QED BY <4>1, <4>3
    <3> QED BY <3>1, <3>2
  <2>6. Digit(n) # CR
    BY DEF Digit, CR
  <2>7. Eol(q) # 1
    BY <1>8, <2>1, <2>5, <2>6
  <2>8. Eol(q) = 2
    <3>1. PICK i \in 1 .. 2 : i = Eol(q)
      BY <2>5
    <3>2. i # 1
      BY <2>7, <3>1
    <3>3. i = 2
      BY <3>2
    <3> QED BY <3>1, <3>3
  <2> QED BY <2>1, <2>8, Zenon
<1>10. Size(b) = n
  BY <1>8 DEF Size, Digit
<1> QED BY <1>1, <1>5, <1>6, <1>7, <1>9, <1>10

\* A chunk decodes to what was put in it.
LEMMA ChunkSays ==
  ASSUME NEW s \in Seq(Bytes), Len(s) \in 1 .. 9
  PROVE  Says(Chunk(s), s)
<1> DEFINE e == <<CR, LF>>
           t == s \o e
           b == Chunk(s)
           n == Len(s)
<1>1. e \in Seq(Bytes) /\ Len(e) = 2 /\ e[1] = CR /\ e[2] = LF
  BY SomeBytes
<1>2. t \in Seq(Bytes) /\ Len(t) = n + 2
      /\ \A i \in 1 .. n + 2 : t[i] = IF i <= n THEN s[i] ELSE e[i - n]
  <2> HIDE DEF e
  <2>1. PICK f \in Seq(Bytes) : f = e
    BY <1>1
  <2>2. /\ s \o f \in Seq(Bytes) /\ Len(s \o f) = Len(s) + Len(f)
        /\ \A i \in 1 .. Len(s) + Len(f) : (s \o f)[i] = IF i <= Len(s) THEN s[i] ELSE f[i - Len(s)]
    BY ConcatProperties
  <2>3. Len(f) = 2
    BY <1>1, <2>1
  <2> QED BY <2>1, <2>2, <2>3, Zenon
<1>3. b = <<Digit(n), CR, LF>> \o t
  <2>1. PICK h \in Seq(Bytes) : h = <<Digit(n), CR, LF>>
    <3>1. Digit(n) \in Bytes /\ CR \in Bytes /\ LF \in Bytes
      <4>1. n \in 0 .. 9
        OBVIOUS
      <4> QED BY <4>1, SomeBytes
    <3>2. <<Digit(n), CR, LF>> \in Seq(Bytes)
      BY <3>1
    <3> QED BY <3>2, Zenon
  <2>2. PICK f \in Seq(Bytes) : f = e
    BY <1>1, Zenon
  <2>3. (h \o s) \o f = h \o (s \o f)
    <3>1. AssocOn(Bytes)
      BY AssocAll
    <3> QED BY <3>1, Zenon DEF AssocOn
  <2> QED BY <2>1, <2>2, <2>3, Zenon DEF Chunk
<1> HIDE DEF e, t, b
<1>4. /\ b \in Seq(Bytes) /\ Len(b) = Len(t) + 3 /\ \A i \in 1 .. Len(t) : b[i + 3] = t[i]
      /\ Eol(b) = 2 /\ Size(b) = n
  <2>1. PICK m \in 0 .. 9 : m = n
    OBVIOUS
  <2>2. PICK u \in Seq(Bytes) : u = t
    BY <1>2
  <2>3. b = <<Digit(m), CR, LF>> \o u
    BY <1>3, <2>1, <2>2, Zenon
  <2>4. /\ b \in Seq(Bytes) /\ Len(b) = Len(u) + 3 /\ \A i \in 1 .. Len(u) : b[i + 3] = u[i]
        /\ Eol(b) = 2 /\ Size(b) = m
    BY <2>3, ChunkFront, ZenonT(40)
  <2> QED BY <2>1, <2>2, <2>4, Zenon
<1>5. Len(b) = n + 5
  BY <1>2, <1>4
<1> HIDE DEF n
<1>6. n \in 1 .. 9
  BY DEF n
<1>7. b[n + 4] = CR /\ b[n + 5] = LF
  <2>1. n + 1 \in 1 .. n + 2 /\ n + 2 \in 1 .. n + 2 /\ ~(n + 1 <= n) /\ ~(n + 2 <= n) /\ (n + 1) - n = 1 /\ (n + 2) - n = 2
    BY <1>6
  <2>2. t[n + 1] = CR /\ t[n + 2] = LF
    <3>1. t[n + 1] = e[(n + 1) - n] /\ t[n + 2] = e[(n + 2) - n]
      BY <1>2, <2>1
    <3> QED BY <1>1, <2>1, <3>1, Zenon
  <2>3. b[n + 1 + 3] = t[n + 1] /\ b[n + 2 + 3] = t[n + 2]
    BY <1>2, <1>4, <2>1
  <2>4. n + 1 + 3 = n + 4 /\ n + 2 + 3 = n + 5
    BY <1>6
  <2> QED BY <2>2, <2>3, <2>4
<1>8. SubSeq(b, n + 4, n + 5) = <<CR, LF>>
  <2>1. PICK q \in Seq(Bytes) : q = b
    BY <1>4
  <2>2. PICK m \in 1 .. Len(q) - 1 : m = n + 4 /\ m + 1 = n + 5
    BY <1>5, <1>6, <2>1
  <2>3. q[m] = CR /\ q[m + 1] = LF
    BY <1>7, <2>1, <2>2
  <2>4. \A x, y \in Bytes : SubSeq(q, m, m + 1) = <<x, y>> <=> q[m] = x /\ q[m + 1] = y
    BY PairAt
  <2>5. SubSeq(q, m, m + 1) = <<CR, LF>>
    BY <2>3, <2>4, SomeBytes, Zenon
  <2> QED BY <2>1, <2>2, <2>5, Zenon
<1>9. Whole(b)
  <2>1. Size(b) \in 1 .. 9 /\ Size(b) + 5 <= Len(b)
    BY <1>4, <1>5, <1>6
  <2>2. SubSeq(b, Size(b) + 4, Size(b) + 5) = <<CR, LF>>
    BY <1>4, <1>8
  <2> QED BY <1>4, <2>1, <2>2 DEF Whole
<1>10. Drop(b, n + 5) = <<>>
  BY <1>4, <1>5, DropAll
<1>11. SubSeq(b, 4, n + 3) = s
  <2>1. /\ SubSeq(b, 4, Size(b) + 3) \in Seq(Bytes) /\ Len(SubSeq(b, 4, Size(b) + 3)) = Size(b)
        /\ \A i \in 1 .. Size(b) : SubSeq(b, 4, Size(b) + 3)[i] = b[i + 3]
    BY <1>4, <1>9, WholeFacts
  <2>2. PICK x \in Seq(Bytes) : x = SubSeq(b, 4, n + 3)
    BY <1>4, <2>1
  <2>3. Len(x) = n /\ \A i \in 1 .. n : x[i] = b[i + 3]
    BY <1>4, <2>1, <2>2
  <2>4. \A i \in 1 .. n : x[i] = s[i]
    <3> TAKE i \in 1 .. n
    <3>1. i \in 1 .. n + 2 /\ i <= n
      BY <1>6
    <3> QED BY <1>2, <1>4, <2>3, <3>1
  <2>5. x = s
    BY <2>3, <2>4, SeqEqual DEF n
  <2> QED BY <2>2, <2>5
<1>12. /\ Dechunk[b].data = s \o <<>> /\ Dechunk[b].consumed = (n + 5) + 0
       /\ ~Dechunk[b].bad /\ ~Dechunk[b].end
  <2>1. PICK q \in Seq(Bytes) : q = b
    BY <1>4
  <2>2. PICK r : r = Drop(q, Size(q) + 5)
    OBVIOUS
  <2>3. /\ Dechunk[q].data = SubSeq(q, 4, Size(q) + 3) \o Dechunk[r].data
        /\ Dechunk[q].consumed = (Size(q) + 5) + Dechunk[r].consumed
        /\ Dechunk[q].end = Dechunk[r].end /\ Dechunk[q].bad = Dechunk[r].bad
    BY <1>9, <2>1, <2>2, DechunkWhole
  <2>4. r = <<>>
    BY <1>4, <1>10, <2>1, <2>2
  <2> QED BY <1>4, <1>11, <2>1, <2>3, <2>4, NoBytes, Zenon
<1>13. s \o <<>> = s /\ (n + 5) + 0 = Len(b)
  BY <1>5, <1>6, ConcatEmptySeq
<1> QED BY <1>4, <1>12, <1>13, Zenon DEF Says, b

Regroups(x, y, z) == (x \o y) \o z = x \o (y \o z)

\* One instance of associativity.
LEMMA Regroup ==
  ASSUME NEW x \in Seq(Bytes), NEW y \in Seq(Bytes), NEW z \in Seq(Bytes)
  PROVE  Regroups(x, y, z)
<1>1. AssocOn(Bytes)
  BY AssocAll
<1> QED BY <1>1, Zenon DEF AssocOn, Regroups

\* The frames of a body that goes on.
FramesOn(b, x, y) ==
  LET r == SplitFrames[b \o x].rest
  IN /\ r \in Seq(Bytes) /\ SplitFrames[b \o (x \o y)].rest = SplitFrames[r \o y].rest
     /\ Outcomes[SplitFrames[b \o (x \o y)].frames]
          = Outcomes[SplitFrames[b \o x].frames] \o Outcomes[SplitFrames[r \o y].frames]

LEMMA FramesGoOn ==
  ASSUME NEW b \in Seq(Bytes), NEW x \in Seq(Bytes), NEW y \in Seq(Bytes)
  PROVE  FramesOn(b, x, y)
<1> DEFINE r == SplitFrames[b \o x].rest
<1>1. PICK w \in Seq(Bytes) : w = b \o x
  BY ConcatProperties
<1>2. b \o (x \o y) = w \o y
  <2>1. AssocOn(Bytes)
    BY AssocAll
  <2> QED BY <1>1, <2>1, SMTT(40) DEF AssocOn
<1>3. SplitFrames[w \o y].frames = SplitFrames[w].frames \o SplitFrames[r \o y].frames
      /\ SplitFrames[w \o y].rest = SplitFrames[r \o y].rest
  <2>1. \A u, v \in Seq(Bytes) : SplitJoins(u, v)
    BY SplitJoin
  <2>2. SplitJoins(w, y)
    BY <2>1
  <2> QED BY <1>1, <2>2, Zenon DEF SplitJoins, r
<1>4. SplitFrames[w] \in Split
  BY SplitTyped
<1>5. r \in Seq(Bytes)
  BY <1>1, <1>4 DEF Split
<1> HIDE DEF r
<1>6. r \o y \in Seq(Bytes)
  BY <1>5, ConcatProperties
<1>7. SplitFrames[r \o y] \in Split
  BY <1>6, SplitTyped
<1>8. PICK f \in Seq(Frame) : f = SplitFrames[w].frames
  BY <1>4 DEF Split, Frame
<1>9. PICK g \in Seq(Frame) : g = SplitFrames[r \o y].frames
  BY <1>7 DEF Split, Frame
<1>10. Outcomes[f \o g] = Outcomes[f] \o Outcomes[g]
  BY OutcomesJoin
<1> QED BY <1>1, <1>2, <1>3, <1>5, <1>8, <1>9, <1>10, Zenon DEF FramesOn, r

LEMMA YieldTyped ==
  ASSUME NEW p \in Seq(Bytes), NEW b \in Seq(Bytes)
  PROVE  Yield(p, b) \in Seq(Int)
<1>1. PICK x \in Seq(Bytes) : x = Dechunk[p].data
  BY DechunkParts
<1>2. PICK w \in Seq(Bytes) : w = b \o x
  BY ConcatProperties
<1>3. SplitFrames[w] \in Split
  BY SplitTyped
<1>4. PICK f \in Seq(Frame) : f = SplitFrames[w].frames
  BY <1>3 DEF Split, Frame
<1>5. Outcomes[f] \in Seq(Int)
  BY OutcomesTyped
<1> QED BY <1>1, <1>2, <1>4, <1>5, Zenon DEF Yield

\* What is written behind bytes of which nothing remains.
LEMMA YieldOn ==
  ASSUME NEW p \in Seq(Bytes), NEW b \in Seq(Bytes), Clean(p, b), NEW c \in Seq(Bytes)
  PROVE  /\ Yield(p \o c, b) = Yield(p, b) \o Yield(c, <<>>)
         /\ Clean(c, <<>>) => Clean(p \o c, b)
         /\ Dead(c) => Dead(p \o c)
<1>1. PICK x \in Seq(Bytes) : x = Dechunk[p].data
  BY DechunkParts
<1>2. PICK y \in Seq(Bytes) : y = Dechunk[c].data
  BY DechunkParts
<1>3. Says(p, x) /\ SplitFrames[b \o x].rest = <<>>
  BY <1>1, Zenon DEF Clean
<1>4. Dechunk[p \o c].data = x \o y
  BY <1>2, <1>3, SaysOn
<1>5. /\ SplitFrames[b \o (x \o y)].rest = SplitFrames[<<>> \o y].rest
      /\ Outcomes[SplitFrames[b \o (x \o y)].frames]
           = Outcomes[SplitFrames[b \o x].frames] \o Outcomes[SplitFrames[<<>> \o y].frames]
  <2>1. FramesOn(b, x, y)
    BY FramesGoOn
  <2> QED BY <1>3, <2>1, Zenon DEF FramesOn
<1>6. Yield(p \o c, b) = Yield(p, b) \o Yield(c, <<>>)
  BY <1>1, <1>2, <1>4, <1>5, Zenon DEF Yield
<1>7. ASSUME Clean(c, <<>>) PROVE Clean(p \o c, b)
  <2>1. Says(c, y) /\ SplitFrames[<<>> \o y].rest = <<>>
    BY <1>2, <1>7, Zenon DEF Clean
  <2>2. Says(p \o c, x \o y)
    BY <1>3, <2>1, SaysBoth
  <2> QED BY <1>4, <1>5, <2>1, <2>2, Zenon DEF Clean
<1>8. ASSUME Dead(c) PROVE Dead(p \o c)
  <2>1. ASSUME NEW z \in Seq(Bytes) PROVE Dechunk[(p \o c) \o z].data = Dechunk[p \o c].data
    <3>1. Dechunk[c \o z].data = y
      BY <1>2, <1>8, Zenon DEF Dead
    <3>2. PICK w \in Seq(Bytes) : w = c \o z
      BY ConcatProperties
    <3>3. Dechunk[p \o w].data = x \o Dechunk[w].data
      BY <1>3, SaysOn
    <3>4. (p \o c) \o z = p \o (c \o z)
      <4>1. Regroups(p, c, z)
        BY Regroup
      <4> QED BY <4>1, Zenon DEF Regroups
    <3> QED BY <1>4, <3>1, <3>2, <3>3, <3>4, Zenon
  <2> QED BY <2>1, Zenon DEF Dead
<1> QED BY <1>6, <1>7, <1>8

\* Behind bytes that are never decoded nothing counts.
LEMMA YieldDead ==
  ASSUME NEW p \in Seq(Bytes), Dead(p), NEW b, NEW c \in Seq(Bytes)
  PROVE  Yield(p \o c, b) = Yield(p, b) /\ Dead(p \o c)
<1>1. ASSUME NEW z \in Seq(Bytes) PROVE Dechunk[p \o z].data = Dechunk[p].data
  BY <1>1, Zenon DEF Dead
<1>2. Yield(p \o c, b) = Yield(p, b)
  BY <1>1, Zenon DEF Yield
<1>3. ASSUME NEW z \in Seq(Bytes) PROVE Dechunk[(p \o c) \o z].data = Dechunk[p \o c].data
  <2>1. PICK w \in Seq(Bytes) : w = c \o z
    BY ConcatProperties
  <2>2. (p \o c) \o z = p \o (c \o z)
    <3>1. AssocOn(Bytes)
      BY AssocAll
    <3> QED BY <3>1, SMTT(40) DEF AssocOn
  <2> QED BY <1>1, <2>1, <2>2, Zenon
<1> QED BY <1>2, <1>3, Zenon DEF Dead

\* A read that decodes passes on the events it found and keeps the rest of them.
Reads(h, z, b, s, k) ==
  /\ k \in Seq(Bytes) /\ s.rest \in Seq(Bytes)
  /\ Yield(h \o z, b) = Outcomes[s.frames] \o Yield(k \o z, s.rest)
  /\ Clean(h \o z, b) => Clean(k \o z, s.rest)
  /\ Dead(h \o z) => Dead(k \o z)

LEMMA YieldRead ==
  ASSUME NEW h \in Seq(Bytes), NEW z \in Seq(Bytes), NEW b \in Seq(Bytes),
         NEW d, d = Dechunk[h], ~d.bad, ~d.end, NEW s, s = SplitFrames[b \o d.data],
         NEW k, k = Drop(h, d.consumed)
  PROVE  Reads(h, z, b, s, k)
<1>1. PICK x \in Seq(Bytes) : x = d.data
  BY DechunkParts
<1>2. d.consumed \in 0 .. Len(h) /\ Len(h) \in Nat /\ Len(z) \in Nat
  BY DechunkParts, LenProperties
<1>3. k \in Seq(Bytes) /\ Len(k) = Len(h) - d.consumed
  BY <1>2, DropFacts
<1>4. PICK w \in Seq(Bytes) : w = k \o z /\ Len(w) = Len(k) + Len(z)
  <2>1. PICK j \in Seq(Bytes) : j = k
    BY <1>3
  <2>2. j \o z \in Seq(Bytes) /\ Len(j \o z) = Len(j) + Len(z)
    BY ConcatProperties
  <2> QED BY <2>1, <2>2
<1>5. PICK y \in Seq(Bytes) : y = Dechunk[w].data
  BY DechunkParts
<1>6. /\ Dechunk[h \o z].data = x \o y
      /\ Dechunk[h \o z].consumed = d.consumed + Dechunk[w].consumed
      /\ Dechunk[h \o z].end = Dechunk[w].end /\ Dechunk[h \o z].bad = Dechunk[w].bad
  <2>1. Joins(h, z)
    BY DechunkJoin
  <2> QED BY <1>1, <1>4, <1>5, <2>1, Zenon DEF Joins
<1>7. /\ s.rest \in Seq(Bytes) /\ SplitFrames[b \o (x \o y)].rest = SplitFrames[s.rest \o y].rest
      /\ Outcomes[SplitFrames[b \o (x \o y)].frames] = Outcomes[s.frames] \o Outcomes[SplitFrames[s.rest \o y].frames]
  <2>1. FramesOn(b, x, y)
    BY FramesGoOn
  <2> QED BY <1>1, <2>1, Zenon DEF FramesOn
<1>8. Yield(h \o z, b) = Outcomes[s.frames] \o Yield(k \o z, s.rest)
  BY <1>4, <1>5, <1>6, <1>7, Zenon DEF Yield
<1>9. ASSUME Clean(h \o z, b) PROVE Clean(k \o z, s.rest)
  <2>1. /\ Dechunk[h \o z].consumed = Len(h \o z) /\ ~Dechunk[h \o z].bad /\ ~Dechunk[h \o z].end
        /\ SplitFrames[b \o (x \o y)].rest = <<>>
    BY <1>6, <1>9, Zenon DEF Clean, Says
  <2>2. Len(h \o z) = Len(h) + Len(z)
    BY ConcatProperties
  <2>3. Dechunk[w].consumed \in 0 .. Len(w)
    BY DechunkParts
  <2>4. Dechunk[w].consumed = Len(w)
    <3>1. PICK i \in Int : i = d.consumed
      BY <1>2
    <3>2. PICK j \in Int : j = Dechunk[w].consumed
      BY <2>3, <1>4
    <3>3. i + j = Len(h) + Len(z) /\ Len(w) = (Len(h) - i) + Len(z)
      BY <1>3, <1>4, <1>6, <2>1, <2>2, <3>1, <3>2, Zenon
    <3>4. PICK m \in Nat, n \in Nat : m = Len(h) /\ n = Len(z)
      BY <1>2
    <3>5. PICK l \in Int : l = Len(w)
      BY <1>4, LenProperties
    <3>6. i + j = m + n /\ l = (m - i) + n
      BY <3>3, <3>4, <3>5, Zenon
    <3>7. j = l
      BY <3>6
    <3> QED BY <3>2, <3>5, <3>7
  <2>5. ~Dechunk[w].bad /\ ~Dechunk[w].end
    BY <1>6, <2>1, Zenon
  <2>6. Says(w, y)
    BY <1>5, <2>4, <2>5, Zenon DEF Says
  <2> QED BY <1>4, <1>5, <1>7, <2>1, <2>6, Zenon DEF Clean
<1>10. ASSUME Dead(h \o z) PROVE Dead(k \o z)
  <2>1. ASSUME NEW a \in Seq(Bytes) PROVE Dechunk[w \o a].data = y
    <3>1. PICK v \in Seq(Bytes) : v = z \o a
      BY ConcatProperties
    <3>2. (h \o z) \o a = h \o (z \o a) /\ (k \o z) \o a = k \o (z \o a)
      <4>1. Regroups(h, z, a)
        BY Regroup
      <4>2. PICK j \in Seq(Bytes) : j = k
        BY <1>3
      <4>3. Regroups(j, z, a)
        BY Regroup
      <4> QED BY <4>1, <4>2, <4>3, Zenon DEF Regroups
    <3>3. k \o v \in Seq(Bytes)
      BY <1>3, ConcatProperties
    <3>4. PICK t \in Seq(Bytes) : t = Dechunk[k \o v].data
      BY <3>3, DechunkParts
    <3>5. Dechunk[h \o v].data = x \o t
      <4>1. Joins(h, v)
        BY DechunkJoin
      <4> QED BY <1>1, <3>4, <4>1, Zenon DEF Joins
    <3>6. Dechunk[(h \o z) \o a].data = Dechunk[h \o z].data
      BY <1>10, Zenon DEF Dead
    <3>7. x \o t = x \o y
      BY <1>6, <3>1, <3>2, <3>5, <3>6, Zenon
    <3>8. t = y
      BY <3>7, ConcatSimplifications
    <3> QED BY <1>4, <3>1, <3>2, <3>4, <3>8, Zenon
  <2> QED BY <1>4, <1>5, <2>1, Zenon DEF Dead
<1> QED BY <1>3, <1>7, <1>8, <1>9, <1>10, Zenon DEF Reads

\* Behind the last chunk, and behind an error, nothing is decoded.
LEMMA YieldStops ==
  ASSUME NEW h \in Seq(Bytes), NEW d, d = Dechunk[h], d.bad \/ d.end
  PROVE  Dead(h)
<1>1. \A x, y \in Seq(Bytes) : Joins(x, y)
  BY DechunkJoin
<1>2. ASSUME NEW z \in Seq(Bytes) PROVE Dechunk[h \o z].data = Dechunk[h].data
  <2>1. Joins(h, z)
    BY <1>1
  <2> QED BY <2>1, Zenon DEF Joins
<1> QED BY <1>2, Zenon DEF Dead

\* What has been decoded as far as it goes yields nothing more.
LEMMA YieldSettled ==
  ASSUME NEW g \in Seq(Bytes), NEW k, NEW b, NEW v, NEW n, Kept(g, k, b, v, n)
  PROVE  /\ k \in Seq(Bytes) /\ b \in Seq(Bytes) /\ Yield(k, b) = <<>>
         /\ Clean(k, b) => k = <<>> /\ b = <<>>
<1> DEFINE d == Dechunk[g]
           s == SplitFrames[d.data]
<1>1. ~d.bad /\ ~d.end /\ k = Drop(g, d.consumed) /\ b = s.rest
  BY Zenon DEF Kept
<1>2. PICK x \in Seq(Bytes) : x = d.data
  BY DechunkParts
<1>3. k \in Seq(Bytes) /\ Dechunk[k].data = <<>> /\ Dechunk[k].consumed = 0
  BY <1>1, DechunkAgain
<1>4. b \in Seq(Bytes) /\ SplitFrames[b].frames = <<>> /\ SplitFrames[b].rest = b
  BY <1>1, <1>2, SplitAgain
<1>5. b \o <<>> = b
  BY <1>4, ConcatEmptySeq
<1>6. Yield(k, b) = <<>>
  BY <1>3, <1>4, <1>5, NoBytes, Zenon DEF Yield
<1>7. ASSUME Clean(k, b) PROVE k = <<>> /\ b = <<>>
  <2>1. Len(k) = 0
    BY <1>3, <1>7, Zenon DEF Clean, Says
  <2>2. k = <<>>
    BY <1>3, <2>1, EmptySeq
  <2>3. b = <<>>
    BY <1>3, <1>4, <1>5, <1>7, Zenon DEF Clean
  <2> QED BY <2>2, <2>3
<1> QED BY <1>3, <1>4, <1>6, <1>7

\* The one frame of a line, and of a keep-alive.
LEMMA OneFrame ==
  ASSUME NEW s \in Seq(Bytes), NEW n \in 1 .. 2, Len(s) = n + 2,
         \A i \in 1 .. n : s[i] # LF, s[n + 1] = LF, s[n + 2] = LF
  PROVE  SplitFrames[s].frames = <<SubSeq(s, 1, n)>> /\ SplitFrames[s].rest = <<>>
<1>1. Gap(s) = n + 1
  <2>1. n + 1 \in Pairs(s, LF, LF)
    <3>1. n + 1 \in 1 .. Len(s) - 1 /\ (n + 1) + 1 = n + 2
      OBVIOUS
    <3> QED BY <3>1 DEF Pairs
  <2>2. \A j \in Pairs(s, LF, LF) : n + 1 <= j
    <3> SUFFICES ASSUME NEW j \in Pairs(s, LF, LF), ~(n + 1 <= j) PROVE FALSE
      OBVIOUS
    <3>1. j \in 1 .. Len(s) - 1 /\ s[j] = LF
      BY DEF Pairs
    <3>2. j \in 1 .. n
      BY <3>1
    <3> QED BY <3>1, <3>2
  <2>3. Gap(s) \in Pairs(s, LF, LF) /\ \A j \in Pairs(s, LF, LF) : Gap(s) <= j
    BY <2>1, FindPair, SomeBytes DEF Gap
  <2>4. PICK g \in Int : g = Gap(s)
    BY <2>3 DEF Pairs
  <2>5. n + 1 <= g /\ g <= n + 1
    BY <2>1, <2>2, <2>3, <2>4
  <2>6. g = n + 1
    BY <2>5
  <2> QED BY <2>4, <2>6
<1> DEFINE r == Drop(s, Gap(s) + 1)
<1>2. r = <<>>
  <2>1. Gap(s) + 1 = Len(s)
    BY <1>1
  <2> QED BY <2>1, DropAll
<1>3. Gap(s) # 0 /\ Gap(s) - 1 = n
  BY <1>1
<1>4. /\ SplitFrames[s].frames = <<SubSeq(s, 1, Gap(s) - 1)>> \o SplitFrames[r].frames
      /\ SplitFrames[s].rest = SplitFrames[r].rest
  BY <1>3, SplitCases
<1> HIDE DEF r
<1>5. SplitFrames[s].frames = <<SubSeq(s, 1, n)>> \o <<>> /\ SplitFrames[s].rest = <<>>
  BY <1>2, <1>3, <1>4, NoBytes, Zenon
<1>6. n \in 0 .. Len(s)
  OBVIOUS
<1>7. PICK f \in Seq(Bytes) : f = SubSeq(s, 1, n)
  BY <1>6, TakeFacts
<1>8. <<f>> \o <<>> = <<f>>
  <2>1. <<f>> \in Seq(Seq(Bytes))
    OBVIOUS
  <2> QED BY <2>1, ConcatEmptySeq
<1> QED BY <1>5, <1>7, <1>8, Zenon

\* A single frame yields its event, or nothing.
LEMMA OneOutcome ==
  ASSUME NEW f \in Seq(Bytes)
  PROVE  Outcomes[<<f>>] = One(f)
<1>1. PICK g \in Frame : g = f
  BY DEF Frame
<1>2. <<g>> \in Seq(Frame) /\ <<g>> # <<>> /\ Head(<<g>>) = g /\ Tail(<<g>>) = <<>>
  OBVIOUS
<1>3. Outcomes[<<g>>] = One(Head(<<g>>)) \o Outcomes[Tail(<<g>>)]
  BY <1>2, OutcomesCases
<1>4. PICK o \in Seq(Int) : o = One(f)
  BY OneTyped
<1>5. o \o <<>> = o
  BY ConcatEmptySeq
<1> QED BY <1>1, <1>2, <1>3, <1>4, <1>5, NoBytes, Zenon

\* A line is one frame, its event the one broadcast.
LEMMA LineSays ==
  ASSUME NEW e \in Events
  PROVE  /\ SplitFrames[Line(e)].rest = <<>>
         /\ Outcomes[SplitFrames[Line(e)].frames] = <<e>>
<1>1. PICK j \in Bytes : j = JSONBASE + e /\ j > JSONBASE /\ j # LF /\ j # DATA
  <2>1. MaxEvents \in Nat
    BY StreamAssumption
  <2> QED BY <2>1 DEF Events, Bytes, JSONBASE, LF, DATA
<1>2. DATA \in Bytes /\ LF \in Bytes
  BY SomeBytes
<1>3. PICK s \in Seq(Bytes) : s = <<DATA, j, LF, LF>>
  <2>1. <<DATA, j, LF, LF>> \in Seq(Bytes)
    BY <1>2
  <2> QED BY <2>1, Zenon
<1>4. Len(s) = 2 + 2 /\ s[1] = DATA /\ s[2] = j /\ s[2 + 1] = LF /\ s[2 + 2] = LF
  BY <1>3
<1>5. \A i \in 1 .. 2 : s[i] # LF
  <2>1. DATA # LF
    BY DEF DATA, LF
  <2> QED BY <1>1, <1>4, <2>1
<1>6. SplitFrames[s].frames = <<SubSeq(s, 1, 2)>> /\ SplitFrames[s].rest = <<>>
  <2>1. PICK n \in 1 .. 2 : n = 2
    OBVIOUS
  <2>2. SplitFrames[s].frames = <<SubSeq(s, 1, n)>> /\ SplitFrames[s].rest = <<>>
    BY <1>4, <1>5, <2>1, OneFrame
  <2> QED BY <2>1, <2>2
<1>7. PICK f \in Seq(Bytes) : f = SubSeq(s, 1, 2) /\ Len(f) = 2 /\ f[1] = DATA /\ f[2] = j
  <2>1. PICK n \in 0 .. Len(s) : n = 2
    BY <1>4
  <2>2. SubSeq(s, 1, n) \in Seq(Bytes) /\ Len(SubSeq(s, 1, n)) = n /\ \A i \in 1 .. n : SubSeq(s, 1, n)[i] = s[i]
    BY TakeFacts
  <2>3. PICK f \in Seq(Bytes) : f = SubSeq(s, 1, n)
    BY <2>2, Zenon
  <2>4. Len(f) = n /\ \A i \in 1 .. n : f[i] = s[i]
    BY <2>2, <2>3, Zenon
  <2>5. f = SubSeq(s, 1, 2) /\ Len(f) = 2 /\ f[1] = DATA /\ f[2] = j
    BY <1>4, <2>1, <2>3, <2>4
  <2> QED BY <2>5, Zenon
<1>8. DecodeEvent(f) = e
  <2> DEFINE json == {i \in DOMAIN f : f[i] > JSONBASE}
  <2>1. DOMAIN f = 1 .. 2
    BY <1>7
  <2>2. 1 \notin json /\ 2 \in json
    BY <1>1, <1>7, <2>1 DEF DATA, JSONBASE
  <2>3. json = {2}
    BY <2>1, <2>2
  <2>4. DATA \in ToSet(f)
    BY <1>7, <2>1 DEF ToSet
  <2>5. DecodeEvent(f) = IF DATA \notin ToSet(f) \/ json = {} THEN 0
                         ELSE IF \E i, k \in json : i # k THEN -1
                         ELSE f[CHOOSE i \in json : TRUE] - JSONBASE
    BY DEF DecodeEvent
  <2> HIDE DEF json
  <2>6. json # {} /\ ~(\E i, k \in json : i # k) /\ (CHOOSE i \in json : TRUE) = 2
    BY <2>3
  <2>7. DecodeEvent(f) = f[2] - JSONBASE
    BY <2>4, <2>5, <2>6, Zenon
  <2>8. e \in Int /\ JSONBASE \in Int
    BY DEF Events, JSONBASE
  <2>9. j - JSONBASE = e
    BY <1>1, <2>8
  <2> QED BY <1>7, <2>7, <2>9
<1>9. e # 0
  BY DEF Events
<1>10. One(f) = <<e>>
  BY <1>8, <1>9 DEF One
<1>11. Outcomes[<<f>>] = <<e>>
  BY <1>10, OneOutcome
<1>12. s = Line(e)
  BY <1>1, <1>3 DEF Line
<1> QED BY <1>6, <1>7, <1>11, <1>12, Zenon

\* A keep-alive is one frame without an event.
LEMMA CommentSays ==
  /\ Comment \in Seq(Bytes) /\ Len(Comment) = 3
  /\ SplitFrames[Comment].rest = <<>>
  /\ Outcomes[SplitFrames[Comment].frames] = <<>>
<1>1. COLON \in Bytes /\ LF \in Bytes
  BY SomeBytes
<1>2. PICK s \in Seq(Bytes) : s = Comment
  <2>1. <<COLON, LF, LF>> \in Seq(Bytes)
    BY <1>1
  <2> QED BY <2>1, Zenon DEF Comment
<1>3. Len(s) = 1 + 2 /\ s[1] = COLON /\ s[1 + 1] = LF /\ s[1 + 2] = LF
  BY <1>2 DEF Comment
<1>4. COLON # LF /\ COLON # DATA
  BY DEF COLON, LF, DATA
<1>5. SplitFrames[s].frames = <<SubSeq(s, 1, 1)>> /\ SplitFrames[s].rest = <<>>
  <2>1. PICK n \in 1 .. 2 : n = 1
    OBVIOUS
  <2>2. \A i \in 1 .. n : s[i] # LF
    BY <1>3, <1>4, <2>1
  <2>3. SplitFrames[s].frames = <<SubSeq(s, 1, n)>> /\ SplitFrames[s].rest = <<>>
    BY <1>3, <2>1, <2>2, OneFrame
  <2> QED BY <2>1, <2>3
<1>6. PICK f \in Seq(Bytes) : f = SubSeq(s, 1, 1) /\ Len(f) = 1 /\ f[1] = COLON
  <2>1. PICK n \in 0 .. Len(s) : n = 1
    BY <1>3
  <2>2. SubSeq(s, 1, n) \in Seq(Bytes) /\ Len(SubSeq(s, 1, n)) = n /\ \A i \in 1 .. n : SubSeq(s, 1, n)[i] = s[i]
    BY TakeFacts
  <2>3. PICK f \in Seq(Bytes) : f = SubSeq(s, 1, n)
    BY <2>2, Zenon
  <2>4. Len(f) = n /\ \A i \in 1 .. n : f[i] = s[i]
    BY <2>2, <2>3, Zenon
  <2>5. f = SubSeq(s, 1, 1) /\ Len(f) = 1 /\ f[1] = COLON
    BY <1>3, <2>1, <2>3, <2>4
  <2> QED BY <2>5, Zenon
<1>7. DecodeEvent(f) = 0
  <2>1. DATA \notin ToSet(f)
    BY <1>4, <1>6 DEF ToSet
  <2> QED BY <2>1 DEF DecodeEvent
<1>8. One(f) = <<>>
  BY <1>7 DEF One
<1>9. Outcomes[<<f>>] = <<>>
  BY <1>8, OneOutcome
<1>10. Len(Comment) = 3
  BY DEF Comment
<1> QED BY <1>2, <1>5, <1>6, <1>9, <1>10, Zenon

LEMMA SaysClean ==
  ASSUME NEW x, NEW s, Says(x, s), SplitFrames[s].rest = <<>>
  PROVE  x \in Seq(Bytes) /\ Clean(x, <<>>) /\ Yield(x, <<>>) = Outcomes[SplitFrames[s].frames]
<1>1. Dechunk[x].data = s /\ x \in Seq(Bytes)
  BY DEF Says
<1>2. PICK t \in Seq(Bytes) : t = s
  BY DEF Says
<1>3. <<>> \o t = t
  BY ConcatEmptySeq
<1> QED BY <1>1, <1>2, <1>3, Zenon DEF Clean, Yield

\* A line arrives as its event however it is cut, a keep-alive as nothing.
LEMMA CutsSay ==
  ASSUME NEW e \in Events, NEW x \in Cuts(Line(e))
  PROVE  x \in Seq(Bytes) /\ Clean(x, <<>>) /\ Yield(x, <<>>) = <<e>>
<1>1. PICK s \in Seq(Bytes) : s = Line(e) /\ Len(s) = 4
  BY LineTyped
<1>2. Says(x, s)
  <2>1. CASE x = Chunk(s)
    <3>1. Len(s) \in 1 .. 9
      BY <1>1
    <3> QED BY <2>1, <3>1, ChunkSays
  <2>2. CASE x = Chunk(SubSeq(s, 1, Len(s) - 1)) \o Chunk(<<LF>>)
    <3>1. PICK n \in 0 .. Len(s) : n = Len(s) - 1 /\ n = 3
      BY <1>1
    <3>2. PICK t \in Seq(Bytes) : t = SubSeq(s, 1, n) /\ Len(t) = 3
      <4>1. SubSeq(s, 1, n) \in Seq(Bytes) /\ Len(SubSeq(s, 1, n)) = n
        BY TakeFacts
      <4> QED BY <3>1, <4>1, Zenon
    <3>3. PICK u \in Seq(Bytes) : u = <<LF>>
      <4>1. LF \in Bytes
        BY SomeBytes
      <4>2. <<LF>> \in Seq(Bytes)
        BY <4>1
      <4> QED BY <4>2, Zenon
    <3>4. Len(u) \in 1 .. 9 /\ Len(t) \in 1 .. 9
      BY <3>2, <3>3
    <3>5. Says(Chunk(t), t) /\ Says(Chunk(u), u)
      BY <3>4, ChunkSays
    <3>6. Says(Chunk(t) \o Chunk(u), t \o u)
      BY <3>5, SaysBoth
    <3>7. Drop(s, n) = u
      <4>1. PICK d \in Seq(Bytes) : d = Drop(s, n) /\ Len(d) = Len(s) - n /\ \A i \in 1 .. Len(s) - n : d[i] = s[n + i]
        BY DropFacts
      <4>2. Len(d) = 1 /\ Len(u) = 1 /\ u[1] = LF
        BY <1>1, <3>1, <3>3, <4>1
      <4>3. d[1] = s[4]
        BY <1>1, <3>1, <4>1
      <4>4. s[4] = LF
        BY <1>1 DEF Line
      <4>5. \A i \in 1 .. 1 : d[i] = u[i]
        BY <4>2, <4>3, <4>4
      <4>6. d = u
        BY <4>2, <4>5, SeqEqual
      <4> QED BY <4>1, <4>6
    <3>8. SubSeq(s, 1, n) \o Drop(s, n) = s
      BY TakeDrop
    <3> QED BY <2>2, <3>1, <3>2, <3>3, <3>6, <3>7, <3>8, Zenon
  <2>3. x = Chunk(s) \/ x = Chunk(SubSeq(s, 1, Len(s) - 1)) \o Chunk(<<LF>>)
    <3>1. x \in Cuts(s)
      BY <1>1
    <3> QED BY <3>1, Zenon DEF Cuts
  <2> QED BY <2>1, <2>2, <2>3
<1>3. SplitFrames[s].rest = <<>> /\ Outcomes[SplitFrames[s].frames] = <<e>>
  BY <1>1, LineSays
<1> QED BY <1>2, <1>3, SaysClean

LEMMA CommentCut ==
  Chunk(Comment) \in Seq(Bytes) /\ Clean(Chunk(Comment), <<>>) /\ Yield(Chunk(Comment), <<>>) = <<>>
<1>1. PICK s \in Seq(Bytes) : s = Comment /\ Len(s) \in 1 .. 9
  BY CommentSays
<1>2. Says(Chunk(s), s)
  BY <1>1, ChunkSays
<1>3. SplitFrames[s].rest = <<>> /\ Outcomes[SplitFrames[s].frames] = <<>>
  BY <1>1, CommentSays
<1>4. Clean(Chunk(s), <<>>) /\ Yield(Chunk(s), <<>>) = <<>> /\ Chunk(s) \in Seq(Bytes)
  BY <1>2, <1>3, SaysClean
<1> QED BY <1>1, <1>4

\* No event comes out of bytes that decode to nothing.
LEMMA NothingSaid ==
  ASSUME NEW x, Dechunk[x].data = <<>>
  PROVE  Yield(x, <<>>) = <<>>
<1>1. <<>> \in Seq(Bytes)
  OBVIOUS
<1>2. <<>> \o <<>> = <<>>
  OBVIOUS
<1> QED BY <1>2, NoBytes, Zenon DEF Yield

\* The last chunk yields nothing.
LEMMA LastChunkSays == LastChunk \in Seq(Bytes) /\ Yield(LastChunk, <<>>) = <<>>
<1>1. CR \in Bytes /\ LF \in Bytes
  BY SomeBytes
<1>2. PICK t \in Seq(Bytes) : t = <<CR, LF>>
  <2>1. <<CR, LF>> \in Seq(Bytes)
    BY <1>1
  <2> QED BY <2>1, Zenon
<1>3. PICK n \in 0 .. 9 : n = 0
  OBVIOUS
<1>4. LastChunk = <<Digit(n), CR, LF>> \o t
  BY <1>2, <1>3 DEF LastChunk
<1>5. LastChunk \in Seq(Bytes)
  BY OtherTyped
<1>6. Size(LastChunk) = n
  BY <1>4, ChunkFront
<1>7. ~Whole(LastChunk)
  BY <1>3, <1>6 DEF Whole
<1>8. Dechunk[LastChunk].data = <<>>
  BY <1>5, <1>7, DechunkOther
<1> QED BY <1>5, <1>8, NothingSaid

\* A chunk whose length is one off is never decoded: an end of line is where its
\* end should be.
LEMMA GarbledDead ==
  ASSUME NEW e \in Events, NEW g \in Garbled(Line(e))
  PROVE  g \in Seq(Bytes) /\ Dead(g) /\ Yield(g, <<>>) = <<>>
<1>1. PICK s \in Seq(Bytes) : s = Line(e) /\ Len(s) = 4 /\ s[4] = LF
  BY LineTyped DEF Line
<1>2. PICK h \in Seq(Bytes) : h = <<CR, LF>> /\ Len(h) = 2 /\ h[2] = LF
  <2>1. CR \in Bytes /\ LF \in Bytes
    BY SomeBytes
  <2>2. <<CR, LF>> \in Seq(Bytes)
    BY <2>1
  <2>3. Len(<<CR, LF>>) = 2 /\ <<CR, LF>>[2] = LF
    OBVIOUS
  <2> QED BY <2>2, <2>3, Zenon
<1>3. PICK n \in 0 .. 9 : n \in {3, 5} /\ g = <<Digit(n), CR, LF>> \o s \o h
  <2>1. PICK d \in {-1, 1} : g = <<Digit(Len(s) + d), CR, LF>> \o s \o h
    BY <1>1, <1>2 DEF Garbled
  <2>2. Len(s) + d \in 0 .. 9 /\ Len(s) + d \in {3, 5}
    BY <1>1
  <2> QED BY <2>1, <2>2
<1>4. PICK t \in Seq(Bytes) : t = s \o h /\ Len(t) = 6 /\ t[4] = LF /\ t[6] = LF
  <2>1. /\ s \o h \in Seq(Bytes) /\ Len(s \o h) = Len(s) + Len(h)
        /\ \A i \in 1 .. Len(s) + Len(h) : (s \o h)[i] = IF i <= Len(s) THEN s[i] ELSE h[i - Len(s)]
    BY ConcatProperties
  <2>2. \A i \in 1 .. 6 : (s \o h)[i] = IF i <= 4 THEN s[i] ELSE h[i - 4]
    BY <1>1, <1>2, <2>1
  <2>3. (s \o h)[4] = s[4] /\ (s \o h)[6] = h[6 - 4]
    <3>1. PICK i \in 1 .. 6, j \in 1 .. 6 : i = 4 /\ j = 6
      OBVIOUS
    <3>2. (s \o h)[i] = s[i] /\ (s \o h)[j] = h[j - 4]
      <4>1. i <= 4 /\ ~(j <= 4)
        BY <3>1
      <4>2. /\ (s \o h)[i] = IF i <= 4 THEN s[i] ELSE h[i - 4]
            /\ (s \o h)[j] = IF j <= 4 THEN s[j] ELSE h[j - 4]
        BY <2>2, Zenon
      <4> QED BY <4>1, <4>2, Zenon
    <3> QED BY <3>1, <3>2, Zenon
  <2>4. 6 - 4 = 2 /\ Len(s) + Len(h) = 6
    BY <1>1, <1>2
  <2> QED BY <1>1, <1>2, <2>1, <2>3, <2>4, ZenonT(40)
<1>5. g = <<Digit(n), CR, LF>> \o t
  <2>1. Digit(n) \in Bytes /\ CR \in Bytes /\ LF \in Bytes
    BY SomeBytes
  <2>2. <<Digit(n), CR, LF>> \in Seq(Bytes)
    BY <2>1
  <2>3. PICK f \in Seq(Bytes) : f = <<Digit(n), CR, LF>>
    BY <2>2, Zenon
  <2>4. Regroups(f, s, h)
    BY Regroup
  <2> QED BY <1>3, <1>4, <2>3, <2>4, Zenon DEF Regroups
<1>6. /\ g \in Seq(Bytes) /\ Len(g) = Len(t) + 3 /\ \A i \in 1 .. Len(t) : g[i + 3] = t[i]
      /\ Eol(g) = 2 /\ Size(g) = n
  BY <1>5, ChunkFront, ZenonT(40)
<1>7. g[n + 4] = LF /\ n + 4 \in 1 .. Len(g) /\ Len(g) = 9
  <2>1. n + 1 \in 1 .. Len(t) /\ n + 1 \in {4, 6}
    BY <1>3, <1>4
  <2>2. g[n + 1 + 3] = t[n + 1]
    BY <1>6, <2>1
  <2>3. n + 1 + 3 = n + 4 /\ t[n + 1] = LF
    BY <1>4, <2>1
  <2>4. n + 4 \in 1 .. Len(g) /\ Len(g) = 9
    <3>1. PICK l \in Nat : l = Len(t) /\ l = 6
      BY <1>4
    <3>2. Len(g) = l + 3
      BY <1>6, <3>1, Zenon
    <3>3. n + 4 \in 1 .. l + 3 /\ l + 3 = 9
      BY <1>3, <3>1
    <3> QED BY <3>2, <3>3, Zenon
  <2> QED BY <2>2, <2>3, <2>4
<1>8. ASSUME NEW z \in Seq(Bytes) PROVE Dechunk[g \o z].data = <<>>
  <2>1. PICK f \in Seq(Bytes) : f = g
    BY <1>6
  <2>2. Eol(f \o z) = Eol(f) /\ Size(f \o z) = Size(f)
    <3>1. Eol(f) # 0
      BY <1>6, <2>1
    <3> QED BY <3>1, FrontStays
  <2>3. PICK w \in Seq(Bytes) : w = f \o z /\ Len(w) = Len(f) + Len(z) /\ w[n + 4] = LF
    <3>1. /\ f \o z \in Seq(Bytes) /\ Len(f \o z) = Len(f) + Len(z)
          /\ \A i \in 1 .. Len(f) + Len(z) : (f \o z)[i] = IF i <= Len(f) THEN f[i] ELSE z[i - Len(f)]
      BY ConcatProperties
    <3>2. Len(z) \in Nat /\ Len(f) = 9 /\ n + 4 \in 1 .. Len(f)
      BY <1>7, <2>1, LenProperties
    <3>3. n + 4 \in 1 .. Len(f) + Len(z) /\ n + 4 <= Len(f)
      BY <3>2
    <3>4. (f \o z)[n + 4] = f[n + 4]
      BY <3>1, <3>3
    <3> QED BY <1>7, <2>1, <3>1, <3>4
  <2>4. Size(w) = n
    BY <1>6, <2>1, <2>2, <2>3
  <2>5. ~Whole(w)
    <3> SUFFICES ASSUME Whole(w) PROVE FALSE
      OBVIOUS
    <3>1. n + 5 <= Len(w) /\ SubSeq(w, n + 4, n + 5) = <<CR, LF>>
      BY <2>4 DEF Whole
    <3>2. PICK m \in 1 .. Len(w) - 1 : m = n + 4 /\ m + 1 = n + 5
      BY <3>1, LenProperties
    <3>3. \A x, y \in Bytes : SubSeq(w, m, m + 1) = <<x, y>> <=> w[m] = x /\ w[m + 1] = y
      BY PairAt
    <3>4. w[m] = CR
      BY <3>1, <3>2, <3>3, SomeBytes, Zenon
    <3> QED BY <2>3, <3>2, <3>4 DEF CR, LF
  <2>6. Dechunk[w].data = <<>>
    BY <2>5, DechunkOther
  <2> QED BY <2>1, <2>3, <2>6
<1>9. Dechunk[g].data = <<>>
  <2>1. PICK f \in Seq(Bytes) : f = g
    BY <1>6
  <2>2. f \o <<>> = f /\ <<>> \in Seq(Bytes)
    BY ConcatEmptySeq
  <2>3. Dechunk[g \o <<>>].data = <<>>
    BY <1>8, <2>2
  <2> QED BY <2>1, <2>2, <2>3, Zenon
<1>10. Dead(g)
  BY <1>8, <1>9, Zenon DEF Dead
<1> QED BY <1>6, <1>9, <1>10, NothingSaid

-----------------------------------------------------------------------------
(* The head of an answer, as far as it has arrived. *)

Starts(u, h) == \A i \in 1 .. 5 : i <= Len(u) => u[i] = h[i]

EndOfHead == <<CR, LF, CR, LF>>

\* Where the empty line is, for a head that starts with a status.
LEMMA HeadEnd ==
  ASSUME NEW u \in Seq(Bytes), Len(u) >= 1 => u[1] # CR
  PROVE  /\ Len(u) <= 4 => Find(u, EndOfHead) = 0
         /\ Len(u) >= 5 /\ u[2] = CR /\ u[3] = LF /\ u[4] = CR /\ u[5] = LF => Find(u, EndOfHead) = 2
<1> DEFINE at == {i \in 1 .. Len(u) - 3 : SubSeq(u, i, i + 3) = EndOfHead}
<1>1. Len(u) \in Nat /\ EndOfHead \in Seq(Bytes) /\ Len(EndOfHead) = 4
      /\ EndOfHead[1] = CR /\ EndOfHead[2] = LF /\ EndOfHead[3] = CR /\ EndOfHead[4] = LF
  <2>1. CR \in Bytes /\ LF \in Bytes
    BY SomeBytes
  <2>2. EndOfHead \in Seq(Bytes)
    BY <2>1 DEF EndOfHead
  <2>3. Len(EndOfHead) = 4 /\ EndOfHead[1] = CR /\ EndOfHead[2] = LF /\ EndOfHead[3] = CR /\ EndOfHead[4] = LF
    BY DEF EndOfHead
  <2> QED BY <2>2, <2>3, LenProperties
<1>2. Find(u, EndOfHead) = IF at = {} THEN 0 ELSE CHOOSE i \in at : \A j \in at : i <= j
  <2> DEFINE found(S) == IF S = {} THEN 0 ELSE CHOOSE i \in S : \A j \in S : i <= j
             n == Len(EndOfHead)
  <2>1. Find(u, EndOfHead) = found({i \in 1 .. Len(u) - n + 1 : SubSeq(u, i, i + n - 1) = EndOfHead})
    BY DEF Find
  <2>2. n = 4
    BY <1>1
  <2> HIDE DEF n, found
  <2>3. {i \in 1 .. Len(u) - n + 1 : SubSeq(u, i, i + n - 1) = EndOfHead} = at
    <3>1. 1 .. Len(u) - n + 1 = 1 .. Len(u) - 3
      BY <1>1, <2>2
    <3>2. ASSUME NEW i \in 1 .. Len(u) - 3 PROVE SubSeq(u, i, i + n - 1) = SubSeq(u, i, i + 3)
      <4>1. i + n - 1 = i + 3
        BY <2>2
      <4> QED BY <4>1, Zenon
    <3> QED BY <3>1, <3>2, Zenon
  <2>4. Find(u, EndOfHead) = found(at)
    BY <2>1, <2>3
  <2> QED BY <2>4 DEF found
<1>3. 1 \notin at
  <2> SUFFICES ASSUME 1 \in at PROVE FALSE
    OBVIOUS
  <2>1. Len(u) >= 4
    BY <1>1
  <2>2. PICK n \in 0 .. Len(u) : n = 4 /\ n = 1 + 3
    BY <1>1, <2>1
  <2>3. SubSeq(u, 1, n) = EndOfHead
    BY <2>2
  <2>4. Len(SubSeq(u, 1, n)) = n /\ \A i \in 1 .. n : SubSeq(u, 1, n)[i] = u[i]
    BY TakeFacts
  <2>5. 1 \in 1 .. n
    BY <2>2
  <2>6. EndOfHead[1] = u[1]
    BY <2>3, <2>4, <2>5, Zenon
  <2> QED BY <1>1, <2>1, <2>6
<1>4. ASSUME Len(u) <= 4 PROVE at = {}
  <2>1. \A i \in at : i = 1
    BY <1>1, <1>4
  <2> QED BY <1>3, <2>1
<1>5. ASSUME Len(u) >= 5, u[2] = CR, u[3] = LF, u[4] = CR, u[5] = LF PROVE 2 \in at
  <2>1. 2 \in 1 .. Len(u) - 3
    BY <1>1, <1>5
  <2>2. PICK m \in Int, n \in Int : m = 2 /\ n = 2 + 3
    OBVIOUS
  <2>3. \A i \in m .. n : u[i] \in Bytes
    <3>1. \A i \in 1 .. Len(u) : u[i] \in Bytes
      OBVIOUS
    <3>2. \A i \in m .. n : i \in 1 .. Len(u)
      BY <1>1, <1>5, <2>2
    <3> QED BY <3>1, <3>2
  <2>4. /\ SubSeq(u, m, n) \in Seq(Bytes)
        /\ Len(SubSeq(u, m, n)) = IF m <= n THEN n - m + 1 ELSE 0
        /\ \A i \in 1 .. n - m + 1 : SubSeq(u, m, n)[i] = u[m + i - 1]
    BY <2>3, SubSeqProperties
  <2>5. PICK w \in Seq(Bytes) : w = SubSeq(u, m, n)
    BY <2>4, Zenon
  <2>6. n - m + 1 = 4 /\ m <= n
    BY <2>2
  <2>7. Len(w) = 4 /\ \A i \in 1 .. 4 : w[i] = u[m + i - 1]
    BY <2>4, <2>5, <2>6, Zenon
  <2>8. w[1] = u[2] /\ w[2] = u[3] /\ w[3] = u[4] /\ w[4] = u[5]
    <3>1. \A i \in 1 .. 4 : w[i] = u[i + 1]
      BY <2>2, <2>7
    <3> QED BY <3>1
  <2>9. w = EndOfHead
    <3>1. \A i \in 1 .. 4 : w[i] = EndOfHead[i]
      BY <1>1, <1>5, <2>8
    <3>2. PICK q \in Seq(Bytes) : q = EndOfHead
      BY <1>1
    <3>3. Len(w) = Len(q) /\ \A i \in 1 .. Len(w) : w[i] = q[i]
      BY <1>1, <2>7, <3>1, <3>2
    <3>4. w = q
      BY <3>3, SeqEqual
    <3> QED BY <3>2, <3>4
  <2> QED BY <2>1, <2>2, <2>5, <2>9
<1>6. at \in SUBSET Nat /\ \A i \in at : i >= 1
  BY <1>1
<1> HIDE DEF at
<1>7. ASSUME 2 \in at PROVE Find(u, EndOfHead) = 2
  <2>1. \E i \in at : \A j \in at : i <= j
    BY <1>6, <1>7, FirstOf
  <2>2. PICK f : f = CHOOSE i \in at : \A j \in at : i <= j
    OBVIOUS
  <2>3. f \in at /\ \A j \in at : f <= j
    BY <2>1, <2>2
  <2>4. f \in Nat /\ f <= 2 /\ f >= 1 /\ f # 1
    BY <1>3, <1>6, <1>7, <2>3
  <2>5. f = 2
    BY <2>4
  <2> QED BY <1>2, <1>7, <2>2, <2>5
<1> QED BY <1>2, <1>4, <1>5, <1>7

\* split_head waits for the empty line, then takes five bytes or refuses.
LEMMA HeadSplits ==
  ASSUME NEW u \in Seq(Bytes), NEW status \in {GOOD, REFUSAL}, Starts(u, HeadOf(status))
  PROVE  /\ Len(u) <= 4 => SplitHead(u).tag = "partial"
         /\ Len(u) >= 5 /\ status = GOOD => SplitHead(u).tag = "ok" /\ SplitHead(u).used = 5
         /\ Len(u) >= 5 /\ status = REFUSAL => SplitHead(u).tag = "refused"
<1>1. Len(u) \in Nat
  BY LenProperties
<1>2. HeadOf(status)[1] = status /\ HeadOf(status)[2] = CR /\ HeadOf(status)[3] = LF
      /\ HeadOf(status)[4] = CR /\ HeadOf(status)[5] = LF
  BY DEF HeadOf
<1>3. \A i \in 1 .. 5 : i <= Len(u) => u[i] = HeadOf(status)[i]
  BY DEF Starts
<1>4. Len(u) >= 1 => u[1] = status
  BY <1>1, <1>2, <1>3
<1>5. status # CR /\ GOOD # REFUSAL
  BY DEF GOOD, REFUSAL, CR
<1>6. Len(u) >= 5 => u[2] = CR /\ u[3] = LF /\ u[4] = CR /\ u[5] = LF
  BY <1>1, <1>2, <1>3
<1> DEFINE k == Find(u, <<CR, LF, CR, LF>>)
<1>7. k = Find(u, EndOfHead)
  BY DEF EndOfHead
<1>8. (Len(u) <= 4 => k = 0) /\ (Len(u) >= 5 => k = 2)
  BY <1>4, <1>5, <1>6, <1>7, HeadEnd
<1>9. SplitHead(u) = IF k = 0 THEN [tag |-> "partial", used |-> 0]
                     ELSE IF u[1] = GOOD THEN [tag |-> "ok", used |-> k + 3]
                     ELSE [tag |-> "refused", used |-> 0]
  BY DEF SplitHead
<1> HIDE DEF k
<1>10. Len(u) >= 5 => u[1] = status /\ k # 0 /\ k + 3 = 5
  BY <1>1, <1>4, <1>8
<1> QED BY <1>5, <1>8, <1>9, <1>10

\* A head seen in all of the bytes is seen in the first, and stays when more come.
LEMMA StartsTake ==
  ASSUME NEW u \in Seq(Bytes), NEW v \in Seq(Bytes), NEW h, Starts(u \o v, h)
  PROVE  Starts(u, h)
<1>1. Len(u) \in Nat /\ Len(v) \in Nat
  BY LenProperties
<1>2. /\ Len(u \o v) = Len(u) + Len(v)
      /\ \A i \in 1 .. Len(u) + Len(v) : (u \o v)[i] = IF i <= Len(u) THEN u[i] ELSE v[i - Len(u)]
  BY ConcatProperties
<1> SUFFICES ASSUME NEW i \in 1 .. 5, i <= Len(u) PROVE u[i] = h[i]
  BY DEF Starts
<1>3. i \in 1 .. Len(u) + Len(v) /\ i <= Len(u) + Len(v)
  BY <1>1
<1>4. (u \o v)[i] = u[i]
  BY <1>2, <1>3
<1>5. (u \o v)[i] = h[i]
  BY <1>2, <1>3 DEF Starts
<1> QED BY <1>4, <1>5

LEMMA StartsMore ==
  ASSUME NEW u \in Seq(Bytes), NEW v \in Seq(Bytes), NEW h, Starts(u, h), 5 <= Len(u)
  PROVE  Starts(u \o v, h)
<1>1. Len(u) \in Nat /\ Len(v) \in Nat
  BY LenProperties
<1>2. \A i \in 1 .. Len(u) + Len(v) : (u \o v)[i] = IF i <= Len(u) THEN u[i] ELSE v[i - Len(u)]
  BY ConcatProperties
<1> SUFFICES ASSUME NEW i \in 1 .. 5 PROVE (u \o v)[i] = h[i]
  BY DEF Starts
<1>3. i \in 1 .. Len(u) + Len(v) /\ i <= Len(u)
  BY <1>1
<1>4. (u \o v)[i] = u[i] /\ u[i] = h[i]
  BY <1>2, <1>3 DEF Starts
<1> QED BY <1>4

LEMMA HeadStarts ==
  ASSUME NEW status \in {GOOD, REFUSAL}
  PROVE  /\ HeadOf(status) \in Seq(Bytes) /\ Len(HeadOf(status)) = 5
         /\ Starts(HeadOf(status), HeadOf(status)) /\ Drop(HeadOf(status), 5) = <<>>
<1>1. PICK h \in Seq(Bytes) : h = HeadOf(status)
  BY OtherTyped
<1>2. Len(HeadOf(status)) = 5
  BY DEF HeadOf
<1>3. Drop(h, Len(h)) = <<>>
  BY DropAll
<1> QED BY <1>1, <1>2, <1>3 DEF Starts

-----------------------------------------------------------------------------
(* The order in which the server broadcasts. *)

ServerOrder ==
  /\ Increasing(ring) /\ Increasing(chan)
  /\ \A i \in DOMAIN ring, j \in DOMAIN chan : ring[i] < chan[j]
  /\ \A j \in DOMAIN chan : chan[j] <= made
  /\ \A i \in DOMAIN ring : ring[i] <= made

LEMMA Appended ==
  ASSUME NEW s \in Seq(Int), NEW x \in Int
  PROVE  /\ Append(s, x) \in Seq(Int) /\ Len(Append(s, x)) = Len(s) + 1
         /\ DOMAIN Append(s, x) = DOMAIN s \cup {Len(s) + 1} /\ Append(s, x)[Len(s) + 1] = x
         /\ \A i \in DOMAIN s : Append(s, x)[i] = s[i] /\ i < Len(s) + 1
         /\ Len(s) \in Nat /\ DOMAIN s = 1 .. Len(s)
<1>1. Len(s) \in Nat /\ DOMAIN s = 1 .. Len(s)
  BY LenProperties
<1>2. /\ Append(s, x) \in Seq(Int) /\ Len(Append(s, x)) = Len(s) + 1
      /\ \A i \in 1 .. Len(s) : Append(s, x)[i] = s[i]
      /\ Append(s, x)[Len(s) + 1] = x
  BY AppendProperties
<1>3. DOMAIN Append(s, x) = 1 .. Len(s) + 1
  BY <1>2, LenProperties
<1>4. 1 .. Len(s) + 1 = 1 .. Len(s) \cup {Len(s) + 1}
  BY <1>1
<1>5. \A i \in DOMAIN s : i < Len(s) + 1
  BY <1>1
<1> QED BY <1>1, <1>2, <1>3, <1>4, <1>5, Zenon

\* An order goes on with something larger.
LEMMA IncreasingAppend ==
  ASSUME NEW s \in Seq(Int), NEW x \in Int, Increasing(s), \A i \in DOMAIN s : s[i] < x
  PROVE  Increasing(Append(s, x))
<1> DEFINE t == Append(s, x)
           n == Len(s) + 1
<1>1. /\ DOMAIN t = DOMAIN s \cup {n} /\ t[n] = x /\ n \in Nat
      /\ \A i \in DOMAIN s : t[i] = s[i] /\ i < n /\ i \in Nat
  BY Appended
<1> HIDE DEF t, n
<1>2. ASSUME NEW i \in DOMAIN t, NEW j \in DOMAIN t, i < j PROVE t[i] < t[j]
  <2>1. i \in DOMAIN s
    BY <1>1, <1>2
  <2>2. CASE j \in DOMAIN s
    <3>1. s[i] < s[j]
      BY <1>2, <2>1, <2>2 DEF Increasing
    <3> QED BY <1>1, <2>1, <2>2, <3>1
  <2>3. CASE j = n
    BY <1>1, <2>1, <2>3
  <2> QED BY <1>1, <2>2, <2>3
<1> QED BY <1>2 DEF Increasing, t

LEMMA EventsAreInts == ASSUME NEW s \in Seq(Events) PROVE s \in Seq(Int)
<1>1. Events \subseteq Int
  BY DEF Events
<1>2. /\ \A i \in 1 .. Len(s) : s[i] \in Int
      /\ Len(s) \in Nat /\ s = [i \in 1 .. Len(s) |-> s[i]]
  BY <1>1
<1> QED BY <1>2

\* The channel and the ring together are in the order of making.
LEMMA OrderStep == StreamTypes /\ ServerOrder /\ [Next]_vars => ServerOrder'
<1> SUFFICES ASSUME StreamTypes, ServerOrder, [Next]_vars PROVE ServerOrder'
  OBVIOUS
<1>1. PICK r \in Seq(Int) : r = ring
  BY EventsAreInts DEF StreamTypes
<1>2. PICK c \in Seq(Int) : c = chan
  BY EventsAreInts DEF StreamTypes
<1>3. PICK m \in Nat : m = made
  BY StreamAssumption DEF StreamTypes
<1>4. /\ Increasing(r) /\ Increasing(c)
      /\ \A i \in DOMAIN r, j \in DOMAIN c : r[i] < c[j]
      /\ \A j \in DOMAIN c : c[j] <= m
      /\ \A i \in DOMAIN r : r[i] <= m
  BY <1>1, <1>2, <1>3 DEF ServerOrder
<1>5. (\A i \in DOMAIN r : r[i] \in Int /\ i \in Nat) /\ (\A i \in DOMAIN c : c[i] \in Int /\ i \in Nat)
  OBVIOUS
<1>6. CASE Sample \/ Notice
  <2>1. made' = m + 1 /\ (chan' = c \/ chan' = Append(c, m + 1)) /\ ring' = r
    BY <1>1, <1>2, <1>3, <1>6 DEF Sample, Notice
  <2>2. m + 1 \in Int /\ \A i \in Int : i <= m => i < m + 1 /\ i <= m + 1
    OBVIOUS
  <2>3. CASE chan' = c
    <3>1. (\A j \in DOMAIN c : c[j] <= m + 1) /\ (\A i \in DOMAIN r : r[i] <= m + 1)
      BY <1>4, <1>5
    <3> QED BY <1>4, <2>1, <2>3, <3>1, Zenon DEF ServerOrder
  <2>4. CASE chan' = Append(c, m + 1)
    <3> DEFINE d == Append(c, m + 1)
               n == Len(c) + 1
    <3>1. /\ DOMAIN d = DOMAIN c \cup {n} /\ d[n] = m + 1
          /\ \A i \in DOMAIN c : d[i] = c[i]
      BY Appended
    <3>2. Increasing(d)
      BY <1>4, <1>5, IncreasingAppend
    <3> HIDE DEF d, n
    <3>3. \A i \in DOMAIN r, j \in DOMAIN d : r[i] < d[j]
      BY <1>4, <1>5, <3>1
    <3>4. (\A j \in DOMAIN d : d[j] <= m + 1) /\ (\A i \in DOMAIN r : r[i] <= m + 1)
      BY <1>4, <1>5, <3>1
    <3>5. chan' = d
      BY <2>4 DEF d
    <3> QED BY <1>4, <2>1, <3>2, <3>3, <3>4, <3>5, Zenon DEF ServerOrder
  <2> QED BY <2>1, <2>3, <2>4
<1>7. CASE Feed
  <2>1. c # <<>> /\ ring' = Append(r, Head(c)) /\ chan' = Tail(c) /\ made' = m
    BY <1>1, <1>2, <1>3, <1>7 DEF Feed
  <2>2. /\ Head(c) \in Int /\ Head(c) = c[1] /\ Tail(c) \in Seq(Int) /\ Len(Tail(c)) = Len(c) - 1
        /\ \A i \in 1 .. Len(Tail(c)) : Tail(c)[i] = c[i + 1]
    BY <2>1, HeadTailProperties
  <2>3. DOMAIN c = 1 .. Len(c) /\ Len(c) \in Nat /\ Len(c) # 0
    BY <2>1, LenProperties, EmptySeq
  <2> DEFINE x == Head(c)
             t == Tail(c)
             q == Append(r, x)
             n == Len(r) + 1
  <2>4. 1 \in DOMAIN c /\ x = c[1] /\ x \in Int /\ \A i \in DOMAIN t : t[i] = c[i + 1] /\ i + 1 \in DOMAIN c /\ i >= 1 /\ i \in Nat
    <3>1. DOMAIN t = 1 .. Len(t) /\ Len(t) = Len(c) - 1
      BY <2>2, LenProperties
    <3> QED BY <2>2, <2>3, <3>1
  <2>5. /\ DOMAIN q = DOMAIN r \cup {n} /\ q[n] = x
        /\ \A i \in DOMAIN r : q[i] = r[i]
    BY <2>2, Appended
  <2>6. Increasing(q)
    BY <1>4, <2>4, IncreasingAppend
  <2> HIDE DEF x, t, q, n
  <2>7. Increasing(t)
    <3>1. ASSUME NEW i \in DOMAIN t, NEW j \in DOMAIN t, i < j PROVE t[i] < t[j]
      <4>1. i + 1 < j + 1 /\ i + 1 \in DOMAIN c /\ j + 1 \in DOMAIN c
        BY <2>4, <3>1
      <4>2. c[i + 1] < c[j + 1]
        BY <1>4, <4>1 DEF Increasing
      <4> QED BY <2>4, <4>2
    <3> QED BY <3>1 DEF Increasing
  <2>8. \A i \in DOMAIN q, j \in DOMAIN t : q[i] < t[j]
    <3> TAKE i \in DOMAIN q, j \in DOMAIN t
    <3>1. t[j] = c[j + 1] /\ j + 1 \in DOMAIN c /\ 1 < j + 1
      BY <2>4
    <3>2. CASE i \in DOMAIN r
      <4>1. r[i] < c[j + 1]
        BY <1>4, <3>1, <3>2
      <4> QED BY <2>5, <3>1, <3>2, <4>1
    <3>3. CASE i = n
      <4>1. c[1] < c[j + 1]
        BY <1>4, <2>4, <3>1 DEF Increasing
      <4> QED BY <2>4, <2>5, <3>1, <3>3, <4>1
    <3> QED BY <2>5, <3>2, <3>3
  <2>9. \A j \in DOMAIN t : t[j] <= m
    BY <1>4, <2>4
  <2>10. \A i \in DOMAIN q : q[i] <= m
    BY <1>4, <2>4, <2>5
  <2>11. ring' = q /\ chan' = t /\ made' = m
    BY <2>1 DEF q, t, x
  <2> QED BY <2>6, <2>7, <2>8, <2>9, <2>10, <2>11, Zenon DEF ServerOrder
<1>8. CASE UNCHANGED server
  BY <1>8 DEF server, ServerOrder
<1>9. Sample \/ Notice \/ Feed \/ UNCHANGED server
  <2>1. Accept(GOOD) \/ Accept(REFUSAL) => UNCHANGED server
    BY DEF Accept
  <2>2. Lagged \/ Send \/ KeepAlive \/ Ends \/ Garble => UNCHANGED server
    BY DEF Lagged, Send, KeepAlive, Ends, Garble
  <2>3. Connect \/ ReadsEnd \/ Stalls => UNCHANGED server
    BY DEF Connect, ReadsEnd, HangUp, Stalls
  <2>4. ASSUME NEW n \in 1 .. Len(wire), Read(n) PROVE UNCHANGED server
    BY <2>4 DEF Read, HoldsHead, Decodes, Returns, HangUp
  <2>5. UNCHANGED vars => UNCHANGED server
    BY DEF vars
  <2> QED BY <2>1, <2>2, <2>3, <2>4, <2>5 DEF Next
<1> QED BY <1>6, <1>7, <1>8, <1>9

-----------------------------------------------------------------------------
(* What a session that waits for its head has before it. *)

Rest == socket \o wire

HeadInv ==
  phase = "asked" =>
    /\ Len(socket) <= 4
    /\ cursor = -1 => /\ ~garbled
                      /\ IF closed THEN Starts(Rest, HeadOf(REFUSAL)) ELSE socket = <<>> /\ wire = <<>>
    /\ cursor # -1 => Starts(Rest, HeadOf(GOOD)) /\ (~closed => 5 <= Len(Rest))

Served == phase = "body" => cursor # -1

LEMMA RestTyped ==
  ASSUME StreamTypes
  PROVE  /\ Rest \in Seq(Bytes) /\ Len(Rest) = Len(socket) + Len(wire)
         /\ Len(socket) \in Nat /\ Len(wire) \in Nat
BY ConcatProperties, LenProperties DEF StreamTypes, Rest

LEMMA RestRead ==
  ASSUME StreamTypes, NEW n \in 1 .. Len(wire)
  PROVE  /\ (socket \o SubSeq(wire, 1, n)) \o Drop(wire, n) = Rest
         /\ socket \o SubSeq(wire, 1, n) \in Seq(Bytes) /\ Drop(wire, n) \in Seq(Bytes)
<1>1. PICK w \in Seq(Bytes) : w = wire
  BY DEF StreamTypes
<1>2. PICK u \in Seq(Bytes) : u = socket
  BY DEF StreamTypes
<1>3. n \in 0 .. Len(w)
  BY <1>1, LenProperties
<1>4. SubSeq(w, 1, n) \o Drop(w, n) = w
  BY <1>3, TakeDrop
<1>5. PICK x \in Seq(Bytes) : x = SubSeq(w, 1, n)
  BY <1>3, TakeFacts
<1>6. PICK y \in Seq(Bytes) : y = Drop(w, n)
  BY <1>3, DropFacts
<1>7. Regroups(u, x, y)
  BY Regroup
<1>8. u \o x \in Seq(Bytes)
  BY ConcatProperties
<1> QED BY <1>1, <1>2, <1>4, <1>5, <1>6, <1>7, <1>8, Zenon DEF Regroups, Rest

\* A read before the head is complete.
LEMMA HeadRead ==
  ASSUME StreamTypes, HeadInv, phase = "asked", NEW n \in 1 .. Len(wire),
         NEW all, all = socket \o SubSeq(wire, 1, n)
  PROVE  /\ SplitHead(all).tag = "partial" => Len(all) <= 4
         /\ \A held \in Held(all) : cursor # -1 /\ 5 <= Len(all) /\ held = Drop(all, 5)
<1>1. all \in Seq(Bytes) /\ all \o Drop(wire, n) = Rest /\ Drop(wire, n) \in Seq(Bytes)
  BY RestRead
<1>2. wire # <<>>
  BY RestTyped DEF StreamTypes
<1>3. PICK status \in {GOOD, REFUSAL} : Starts(Rest, HeadOf(status)) /\ (status = GOOD => cursor # -1)
  <2>1. CASE cursor = -1
    <3>1. Starts(Rest, HeadOf(REFUSAL))
      BY <1>2, <2>1 DEF HeadInv
    <3>2. REFUSAL # GOOD
      BY DEF REFUSAL, GOOD
    <3> QED BY <3>1, <3>2
  <2>2. CASE cursor # -1
    BY <2>2 DEF HeadInv
  <2> QED BY <2>1, <2>2
<1>4. Starts(all, HeadOf(status))
  <2>1. PICK u \in Seq(Bytes), v \in Seq(Bytes) : u = all /\ v = Drop(wire, n)
    BY <1>1
  <2>2. Starts(u \o v, HeadOf(status))
    BY <1>1, <1>3, <2>1, Zenon
  <2>3. Starts(u, HeadOf(status))
    BY <2>2, StartsTake
  <2> QED BY <2>1, <2>3
<1>5. /\ Len(all) <= 4 => SplitHead(all).tag = "partial"
      /\ Len(all) >= 5 /\ status = GOOD => SplitHead(all).tag = "ok" /\ SplitHead(all).used = 5
      /\ Len(all) >= 5 /\ status = REFUSAL => SplitHead(all).tag = "refused"
  BY <1>1, <1>4, HeadSplits
<1>6. Len(all) <= 4 \/ Len(all) >= 5
  <2>1. Len(all) \in Nat
    BY <1>1, LenProperties
  <2> QED BY <2>1
<1>7. SplitHead(all).tag = "partial" => Len(all) <= 4
  BY <1>3, <1>5, <1>6
<1>8. ASSUME NEW held \in Held(all) PROVE cursor # -1 /\ 5 <= Len(all) /\ held = Drop(all, 5)
  <2>1. SplitHead(all).tag = "ok" /\ held = Drop(all, SplitHead(all).used)
    BY DEF Held
  <2>2. Len(all) >= 5 /\ status = GOOD
    BY <1>5, <1>6, <2>1
  <2> QED BY <1>3, <1>5, <2>1, <2>2
<1> QED BY <1>7, <1>8

\* What the server writes to a subscriber comes behind what is there.
LEMMA RestMore ==
  ASSUME StreamTypes, NEW x \in Seq(Bytes), UNCHANGED socket, wire' = wire \o x
  PROVE  Rest' = Rest \o x /\ Len(Rest \o x) = Len(Rest) + Len(x) /\ Len(x) \in Nat
<1>1. PICK u \in Seq(Bytes), v \in Seq(Bytes) : u = socket /\ v = wire
  BY DEF StreamTypes
<1>2. Regroups(u, v, x)
  BY Regroup
<1>3. Rest' = Rest \o x
  BY <1>1, <1>2, Zenon DEF Regroups, Rest
<1>4. PICK r \in Seq(Bytes) : r = Rest
  BY RestTyped
<1>5. Len(r \o x) = Len(r) + Len(x) /\ Len(x) \in Nat
  BY ConcatProperties, LenProperties
<1> QED BY <1>3, <1>4, <1>5

\* Writing to a subscriber keeps what its session will find at the head.
LEMMA HeadKept ==
  ASSUME StreamTypes, HeadInv, Served, cursor # -1, ~closed, UNCHANGED session, cursor' # -1,
         NEW x \in Seq(Bytes), wire' = wire \o x
  PROVE  (HeadInv /\ Served)'
<1>1. UNCHANGED <<phase, socket>>
  BY DEF session
<1>2. Rest' = Rest \o x /\ Len(Rest \o x) = Len(Rest) + Len(x) /\ Len(x) \in Nat /\ Len(Rest) \in Nat
  <2>1. Rest \in Seq(Bytes)
    BY RestTyped
  <2>2. Len(Rest) \in Nat
    BY <2>1, LenProperties
  <2>3. Rest' = Rest \o x /\ Len(Rest \o x) = Len(Rest) + Len(x) /\ Len(x) \in Nat
    BY <1>1, RestMore
  <2> QED BY <2>2, <2>3
<1>3. ASSUME phase = "asked" PROVE HeadInv'
  <2>1. Len(socket) <= 4 /\ Starts(Rest, HeadOf(GOOD)) /\ 5 <= Len(Rest)
    BY <1>3 DEF HeadInv
  <2>2. PICK r \in Seq(Bytes) : r = Rest
    BY RestTyped
  <2>3. Starts(r \o x, HeadOf(GOOD))
    BY <2>1, <2>2, StartsMore
  <2>4. Starts(Rest', HeadOf(GOOD)) /\ 5 <= Len(Rest')
    BY <1>2, <2>1, <2>2, <2>3
  <2> QED BY <1>1, <2>1, <2>4 DEF HeadInv
<1> QED BY <1>1, <1>3 DEF HeadInv, Served

\* A session that waits meets the head its server wrote, and one that decodes has a subscription.
LEMMA HeadStep == StreamTypes /\ HeadInv /\ Served /\ [Next]_vars => (HeadInv /\ Served)'
<1> SUFFICES ASSUME StreamTypes, HeadInv, Served, [Next]_vars PROVE (HeadInv /\ Served)'
  OBVIOUS
<1>1. CASE UNCHANGED <<session, wire, closed, garbled>> /\ (cursor' = cursor \/ (cursor # -1 /\ cursor' # -1))
  <2>1. UNCHANGED <<phase, socket, wire, closed, garbled>>
    BY <1>1 DEF session
  <2>2. Rest' = Rest
    BY <2>1 DEF Rest
  <2> QED BY <1>1, <2>1, <2>2 DEF HeadInv, Served
<1>2. CASE Sample \/ Notice \/ Feed \/ Lagged \/ Stalls \/ UNCHANGED vars
  <2>1. Sample \/ Notice \/ Feed \/ Stalls \/ UNCHANGED vars => UNCHANGED <<session, wire, closed, garbled, cursor>>
    BY DEF Sample, Notice, Feed, Stalls, vars, conn
  <2>2. Lagged => UNCHANGED <<session, wire, closed, garbled>> /\ cursor # -1 /\ cursor' # -1
    <3>1. Oldest # -1
      BY OldestFacts
    <3> QED BY <3>1 DEF Lagged, Subscribed
  <2> QED BY <1>1, <1>2, <2>1, <2>2
<1>3. CASE \E status \in {GOOD, REFUSAL} : Accept(status)
  <2>1. PICK status \in {GOOD, REFUSAL} : Accept(status)
    BY <1>3
  <2>2. phase = "asked" /\ cursor = -1 /\ ~closed /\ wire' = HeadOf(status) /\ UNCHANGED <<phase, socket, garbled>>
    BY <2>1 DEF Accept, session
  <2>3. socket = <<>> /\ wire = <<>> /\ ~garbled
    BY <2>2 DEF HeadInv
  <2>4. Rest' = HeadOf(status)
    <3>1. PICK h \in Seq(Bytes) : h = HeadOf(status)
      BY HeadStarts
    <3>2. <<>> \o h = h
      BY ConcatEmptySeq
    <3> QED BY <2>2, <2>3, <3>1, <3>2, Zenon DEF Rest
  <2>5. Starts(Rest', HeadOf(status)) /\ Len(Rest') = 5 /\ Len(socket') = 0
    <3>1. Len(<<>>) = 0
      OBVIOUS
    <3> QED BY <2>2, <2>3, <2>4, <3>1, HeadStarts
  <2>6. CASE status = GOOD
    <3>1. cursor' = Len(ring) /\ cursor' # -1 /\ 5 <= Len(Rest') /\ Len(socket') <= 4
      BY <2>1, <2>5, <2>6, OldestFacts DEF Accept
    <3> QED BY <2>2, <2>5, <2>6, <3>1 DEF HeadInv, Served
  <2>7. CASE status # GOOD
    <3>1. cursor' = -1 /\ closed' = TRUE /\ status = REFUSAL /\ Len(socket') <= 4
      BY <2>1, <2>2, <2>5, <2>7 DEF Accept
    <3> QED BY <2>2, <2>3, <2>5, <3>1 DEF HeadInv, Served
  <2> QED BY <2>6, <2>7
<1>4. CASE Send \/ Garble
  <2>1. /\ cursor # -1 /\ ~closed /\ cursor \in Oldest .. Len(ring) - 1 /\ cursor' = cursor + 1 /\ UNCHANGED session
        /\ \E bytes \in Cuts(Line(ring[cursor + 1])) \cup Garbled(Line(ring[cursor + 1])) : wire' = wire \o bytes
    BY <1>4 DEF Send, Garble, Subscribed
  <2>2. PICK bytes \in Cuts(Line(ring[cursor + 1])) \cup Garbled(Line(ring[cursor + 1])) : wire' = wire \o bytes
    BY <2>1
  <2>3. cursor + 1 \in 1 .. Len(ring) /\ cursor' # -1
    BY <2>1, OldestFacts
  <2>4. ring[cursor + 1] \in Events
    BY <2>3, ElementOfSeq DEF StreamTypes
  <2>5. bytes \in Seq(Bytes)
    BY <2>4, SentTyped
  <2> QED BY <2>1, <2>2, <2>3, <2>5, HeadKept
<1>5. CASE KeepAlive
  <2>1. cursor # -1 /\ ~closed /\ wire = <<>> /\ wire' = Chunk(Comment) /\ UNCHANGED <<session, cursor>>
    BY <1>5 DEF KeepAlive, Subscribed, conn
  <2>2. PICK x \in Seq(Bytes) : x = Chunk(Comment)
    BY OtherTyped
  <2>3. <<>> \o x = x
    BY ConcatEmptySeq
  <2>4. wire' = wire \o x
    BY <2>1, <2>2, <2>3, Zenon
  <2> QED BY <2>1, <2>4, HeadKept
<1>6. CASE Ends
  <2>1. /\ cursor # -1 /\ ~closed /\ closed' = TRUE /\ UNCHANGED <<session, cursor, garbled>>
        /\ wire' = wire \o LastChunk \/ wire' = wire \/ wire' = <<>>
    BY <1>6 DEF Ends, Subscribed, conn
  <2>2. CASE wire' = wire \o LastChunk
    BY <2>1, <2>2, OtherTyped, HeadKept
  <2>3. CASE wire' = wire \/ wire' = <<>>
    <3>1. UNCHANGED <<phase, socket>>
      BY <2>1 DEF session
    <3>2. ASSUME phase = "asked" PROVE HeadInv'
      <4>1. Len(socket) <= 4 /\ Starts(Rest, HeadOf(GOOD))
        BY <2>1, <3>2 DEF HeadInv
      <4>2. PICK u \in Seq(Bytes), v \in Seq(Bytes) : u = socket /\ v = wire
        BY DEF StreamTypes
      <4>3. Starts(u, HeadOf(GOOD))
        <5>1. Starts(u \o v, HeadOf(GOOD))
          BY <4>1, <4>2, Zenon DEF Rest
        <5> QED BY <5>1, StartsTake
      <4>4. u \o <<>> = u
        BY ConcatEmptySeq
      <4>5. Rest' = Rest \/ Rest' = u
        BY <2>3, <3>1, <4>2, <4>4, Zenon DEF Rest
      <4>6. Starts(Rest', HeadOf(GOOD))
        BY <4>1, <4>3, <4>5
      <4> QED BY <2>1, <3>1, <4>1, <4>6 DEF HeadInv
    <3> QED BY <2>1, <3>1, <3>2 DEF HeadInv, Served
  <2> QED BY <2>1, <2>2, <2>3
<1>7. CASE Connect
  <2>1. phase' = "asked" /\ socket' = <<>> /\ wire' = <<>> /\ cursor' = -1 /\ closed' = FALSE /\ garbled' = FALSE
    BY <1>7 DEF Connect
  <2>2. Len(<<>>) <= 4
    OBVIOUS
  <2> QED BY <2>1, <2>2 DEF HeadInv, Served
<1>8. CASE ReadsEnd
  <2>1. phase' = "down"
    BY <1>8 DEF ReadsEnd, HangUp
  <2> QED BY <2>1 DEF HeadInv, Served
<1>9. CASE \E n \in 1 .. Len(wire) : Read(n)
  <2>1. PICK n \in 1 .. Len(wire) : Read(n)
    BY <1>9
  <2>2. PICK all : all = socket \o SubSeq(wire, 1, n)
    OBVIOUS
  <2>3. \/ wire' = Drop(wire, n) /\ HoldsHead(all)
        \/ \E held \in AfterHead(all) : Decodes(held, n)
        \/ Returns(all)
    BY <2>1, <2>2 DEF Read
  <2>4. CASE wire' = Drop(wire, n) /\ HoldsHead(all)
    <3>1. /\ phase = "asked" /\ phase' = "asked" /\ socket' = all /\ SplitHead(all).tag = "partial"
          /\ UNCHANGED <<cursor, closed, garbled>>
      BY <2>4 DEF HoldsHead, conn
    <3>2. Len(all) <= 4
      BY <2>2, <3>1, HeadRead
    <3>3. Rest' = Rest
      BY <2>2, <2>4, <3>1, RestRead DEF Rest
    <3>4. wire # <<>>
      BY RestTyped DEF StreamTypes
    <3> QED BY <3>1, <3>2, <3>3, <3>4 DEF HeadInv, Served
  <2>5. CASE \E held \in AfterHead(all) : Decodes(held, n)
    <3>1. PICK held \in AfterHead(all) : Decodes(held, n)
      BY <2>5
    <3>2. phase' = "body" /\ UNCHANGED cursor
      BY <3>1 DEF Decodes, conn
    <3>3. phase \in {"asked", "body"}
      BY <2>1 DEF Read, Listening
    <3>4. cursor # -1
      BY <2>2, <3>1, <3>3, HeadRead DEF AfterHead, Served
    <3> QED BY <3>2, <3>4 DEF HeadInv, Served
  <2>6. CASE Returns(all)
    <3>1. phase' = "down"
      BY <2>6 DEF Returns, HangUp
    <3> QED BY <3>1 DEF HeadInv, Served
  <2> QED BY <2>3, <2>4, <2>5, <2>6
<1> QED BY <1>2, <1>3, <1>4, <1>5, <1>6, <1>7, <1>8, <1>9 DEF Next

-----------------------------------------------------------------------------
(* What the window is told: the events delivered, then those of the bytes  *)
(* that the session has yet to decode.                                     *)

Live == phase = "body" \/ (phase = "asked" /\ cursor # -1 /\ 5 <= Len(Rest))
Pend == IF phase = "body" THEN Rest ELSE Drop(Rest, 5)
Told == IF Live THEN delivered \o Yield(Pend, body) ELSE delivered

Orderly(s, r) == Increasing(s) /\ ToSet(s) \subseteq ToSet(r)

ToldInv == Orderly(Told, ring)

OpenInv ==
  Live /\ ~closed =>
    /\ \A x \in ToSet(Told) : \E i \in 1 .. cursor : x = ring[i]
    /\ IF garbled THEN Dead(Pend) ELSE Clean(Pend, body)
    /\ ~garbled /\ ~missed => \A i \in since + 1 .. cursor : ring[i] \in ToSet(Told)

LEMMA RegroupEvents ==
  ASSUME NEW x \in Seq(Int), NEW y \in Seq(Int), NEW z \in Seq(Int)
  PROVE  Regroups(x, y, z)
<1>1. AssocOn(Int)
  BY AssocAll
<1> QED BY <1>1, Zenon DEF AssocOn, Regroups

\* What a longer sequence holds.
LEMMA AppendSet ==
  ASSUME NEW s \in Seq(Int), NEW x \in Int
  PROVE  ToSet(Append(s, x)) = ToSet(s) \cup {x}
<1>1. /\ DOMAIN Append(s, x) = DOMAIN s \cup {Len(s) + 1} /\ Append(s, x)[Len(s) + 1] = x
      /\ \A i \in DOMAIN s : Append(s, x)[i] = s[i]
  BY Appended
<1> DEFINE t == Append(s, x)
           n == Len(s) + 1
<1> HIDE DEF t, n
<1>2. DOMAIN t = DOMAIN s \cup {n} /\ t[n] = x /\ \A i \in DOMAIN s : t[i] = s[i]
  BY <1>1 DEF t, n
<1>3. ToSet(t) = ToSet(s) \cup {x}
  BY <1>2 DEF ToSet
<1> QED BY <1>3 DEF t

\* The front of an orderly sequence is orderly.
LEMMA OrderlyFront ==
  ASSUME NEW s \in Seq(Int), NEW t \in Seq(Int), NEW r, Orderly(s \o t, r)
  PROVE  Orderly(s, r)
<1> DEFINE u == s \o t
<1>1. /\ u \in Seq(Int) /\ Len(u) = Len(s) + Len(t) /\ Len(s) \in Nat /\ Len(t) \in Nat
      /\ \A i \in 1 .. Len(s) + Len(t) : u[i] = IF i <= Len(s) THEN s[i] ELSE t[i - Len(s)]
  BY ConcatProperties, LenProperties
<1>2. DOMAIN u = 1 .. Len(s) + Len(t) /\ DOMAIN s = 1 .. Len(s)
  <2>1. DOMAIN u = 1 .. Len(u)
    BY <1>1, LenProperties
  <2> QED BY <1>1, <2>1, LenProperties
<1>3. Increasing(u) /\ ToSet(u) \subseteq ToSet(r)
  BY DEF Orderly
<1> HIDE DEF u
<1>4. \A i \in DOMAIN s : i \in DOMAIN u /\ u[i] = s[i]
  BY <1>1, <1>2
<1>5. Increasing(s)
  BY <1>3, <1>4 DEF Increasing
<1>6. ToSet(s) \subseteq ToSet(u)
  BY <1>4 DEF ToSet
<1> QED BY <1>3, <1>5, <1>6 DEF Orderly

\* The pending bytes and what they yield are typed.
LEMMA PendTyped ==
  ASSUME StreamTypes
  PROVE  /\ Live => Pend \in Seq(Bytes) /\ Yield(Pend, body) \in Seq(Int)
         /\ Told \in Seq(Int) /\ body \in Seq(Bytes) /\ delivered \in Seq(Int)
<1>1. Rest \in Seq(Bytes) /\ body \in Seq(Bytes) /\ delivered \in Seq(Int)
  BY RestTyped DEF StreamTypes
<1>2. ASSUME Live PROVE Pend \in Seq(Bytes) /\ Yield(Pend, body) \in Seq(Int)
  <2>1. Pend \in Seq(Bytes)
    <3>1. CASE phase = "body"
      BY <1>1, <3>1 DEF Pend
    <3>2. CASE phase # "body"
      <4>1. PICK n \in 0 .. Len(Rest) : n = 5
        BY <1>1, <1>2, <3>2, LenProperties DEF Live
      <4>2. Drop(Rest, n) \in Seq(Bytes)
        BY <1>1, DropFacts
      <4> QED BY <3>2, <4>1, <4>2 DEF Pend
    <3> QED BY <3>1, <3>2
  <2>2. PICK p \in Seq(Bytes), b \in Seq(Bytes) : p = Pend /\ b = body
    BY <1>1, <2>1
  <2>3. Yield(p, b) \in Seq(Int)
    BY YieldTyped
  <2> QED BY <2>1, <2>2, <2>3
<1>3. Told \in Seq(Int)
  <2>1. CASE Live
    <3>1. delivered \o Yield(Pend, body) \in Seq(Int)
      BY <1>1, <1>2, <2>1, ConcatProperties
    <3> QED BY <2>1, <3>1, Zenon DEF Told
  <2>2. CASE ~Live
    BY <1>1, <2>2, Zenon DEF Told
  <2> QED BY <2>1, <2>2
<1> QED BY <1>1, <1>2, <1>3

\* What was delivered is in order when all of what is told is.
LEMMA DeliveredOrderly ==
  ASSUME StreamTypes, ToldInv
  PROVE  Orderly(delivered, ring)
<1>1. CASE Live
  <2>1. PICK s \in Seq(Int), t \in Seq(Int) : s = delivered /\ t = Yield(Pend, body)
    BY <1>1, PendTyped
  <2>2. Orderly(s \o t, ring)
    BY <1>1, <2>1, Zenon DEF ToldInv, Told
  <2> QED BY <2>1, <2>2, OrderlyFront
<1>2. CASE ~Live
  BY <1>2, Zenon DEF ToldInv, Told
<1> QED BY <1>1, <1>2

\* A session that is over, or has not begun, leaves what it delivered.
LEMMA Parted ==
  ASSUME StreamTypes, ToldInv, ~Live', UNCHANGED ring, delivered' = delivered
  PROVE  (ToldInv /\ OpenInv)'
<1>1. Orderly(delivered, ring)
  BY DeliveredOrderly
<1>2. Told' = delivered
  BY Zenon DEF Told
<1> QED BY <1>1, <1>2, Zenon DEF ToldInv, OpenInv

\* Where wire and session stay, so does all that is told.
LEMMA Untouched ==
  ASSUME UNCHANGED <<session, wire>>, cursor' = cursor \/ (cursor # -1 /\ cursor' # -1)
  PROVE  Live' = Live /\ Pend' = Pend /\ Told' = Told /\ body' = body /\ delivered' = delivered
<1>1. UNCHANGED <<phase, socket, wire, body, delivered>>
  BY DEF session
<1>2. Rest' = Rest
  BY <1>1 DEF Rest
<1>3. Live' = Live
  BY <1>1, <1>2 DEF Live
<1>4. Pend' = Pend
  BY <1>1, <1>2 DEF Pend
<1>5. Told' = Told
  BY <1>1, <1>3, <1>4, Zenon DEF Told
<1> QED BY <1>1, <1>3, <1>4, <1>5

\* What the server writes comes behind what is pending.
LEMMA PendMore ==
  ASSUME StreamTypes, Live, UNCHANGED session, cursor' # -1, NEW x \in Seq(Bytes), wire' = wire \o x
  PROVE  Live' /\ Pend' = Pend \o x /\ Told' = delivered \o Yield(Pend \o x, body) /\ body' = body
<1>1. UNCHANGED <<phase, socket, body, delivered>>
  BY DEF session
<1>2. Rest' = Rest \o x /\ Len(Rest \o x) = Len(Rest) + Len(x) /\ Len(x) \in Nat
  BY <1>1, RestMore
<1>3. PICK r \in Seq(Bytes) : r = Rest /\ Len(r) \in Nat
  BY RestTyped, LenProperties
<1>4. Live'
  BY <1>1, <1>2, <1>3 DEF Live
<1>5. Pend' = Pend \o x
  <2>1. CASE phase = "body"
    BY <1>1, <1>2, <2>1 DEF Pend
  <2>2. CASE phase # "body"
    <3>1. PICK n \in 0 .. Len(r) : n = 5
      BY <1>3, <2>2 DEF Live
    <3>2. Drop(r \o x, n) = Drop(r, n) \o x
      BY DropConcat
    <3>3. Pend = Drop(r, n) /\ Pend' = Drop(r \o x, n)
      BY <1>1, <1>2, <1>3, <2>2, <3>1 DEF Pend
    <3> QED BY <3>2, <3>3
  <2> QED BY <2>1, <2>2
<1>6. Told' = delivered \o Yield(Pend \o x, body)
  BY <1>1, <1>4, <1>5, Zenon DEF Told
<1> QED BY <1>1, <1>4, <1>5, <1>6

\* Steps that touch neither the session nor the wire.
LEMMA QuietTells ==
  ASSUME StreamTypes, ToldInv, OpenInv,
         Sample \/ Notice \/ Feed \/ Lagged \/ Stalls \/ UNCHANGED vars
  PROVE  (ToldInv /\ OpenInv)'
<1>1. CASE Sample \/ Notice \/ Stalls \/ UNCHANGED vars
  <2>1. UNCHANGED <<session, wire, cursor, ring, closed, garbled, missed, since>>
    BY <1>1 DEF Sample, Notice, Stalls, vars, conn, server
  <2>2. Live' = Live /\ Pend' = Pend /\ Told' = Told /\ body' = body
    BY <2>1, Untouched
  <2> QED BY <2>1, <2>2, Zenon DEF ToldInv, OpenInv
<1>2. CASE Feed
  <2>1. /\ chan # <<>> /\ ring' = Append(ring, Head(chan))
        /\ UNCHANGED <<session, wire, cursor, closed, garbled, missed, since>>
    BY <1>2 DEF Feed, conn
  <2>2. Live' = Live /\ Pend' = Pend /\ Told' = Told /\ body' = body
    BY <2>1, Untouched
  <2>3. PICK r \in Seq(Int) : r = ring
    BY EventsAreInts DEF StreamTypes
  <2>4. PICK x \in Int : x = Head(chan)
    <3>1. Head(chan) \in Events
      BY <2>1, HeadTailProperties DEF StreamTypes
    <3> QED BY <3>1 DEF Events
  <2>5. ToSet(ring') = ToSet(ring) \cup {x}
    BY <2>1, <2>3, <2>4, AppendSet
  <2>6. \A i \in 1 .. cursor : ring'[i] = ring[i]
    <3>1. \A i \in DOMAIN r : Append(r, x)[i] = r[i]
      BY Appended
    <3>2. \A i \in 1 .. cursor : i \in DOMAIN r
      BY <2>3, LenProperties DEF StreamTypes
    <3> QED BY <2>1, <2>3, <2>4, <3>1, <3>2
  <2>7. ToldInv'
    BY <2>2, <2>5 DEF ToldInv, Orderly
  <2>8. ASSUME Live, ~closed PROVE OpenInv'
    <3>1. /\ \A y \in ToSet(Told) : \E i \in 1 .. cursor : y = ring[i]
          /\ IF garbled THEN Dead(Pend) ELSE Clean(Pend, body)
          /\ ~garbled /\ ~missed => \A i \in since + 1 .. cursor : ring[i] \in ToSet(Told)
      BY <2>8, Zenon DEF OpenInv
    <3>2. \A y \in ToSet(Told) : \E i \in 1 .. cursor : y = ring'[i]
      BY <2>6, <3>1
    <3>3. \A i \in since + 1 .. cursor : i \in 1 .. cursor
      BY DEF StreamTypes
    <3>4. ~garbled /\ ~missed => \A i \in since + 1 .. cursor : ring'[i] \in ToSet(Told)
      BY <2>6, <3>1, <3>3
    <3> QED BY <2>1, <2>2, <3>1, <3>2, <3>4, Zenon DEF OpenInv
  <2>9. ~Live \/ closed => OpenInv'
    BY <2>1, <2>2, Zenon DEF OpenInv
  <2> QED BY <2>7, <2>8, <2>9
<1>3. CASE Lagged
  <2>1. /\ cursor # -1 /\ cursor < Oldest /\ cursor' = Oldest /\ missed' = TRUE
        /\ UNCHANGED <<session, wire, ring, closed, garbled>>
    BY <1>3 DEF Lagged, Subscribed, server
  <2>2. cursor \in Int /\ cursor' \in Int /\ cursor <= cursor' /\ cursor' # -1
    BY <2>1, OldestFacts DEF StreamTypes
  <2>3. Live' = Live /\ Pend' = Pend /\ Told' = Told /\ body' = body
    BY <2>1, <2>2, Untouched
  <2>4. ASSUME Live, ~closed PROVE OpenInv'
    <3>1. /\ \A y \in ToSet(Told) : \E i \in 1 .. cursor : y = ring[i]
          /\ IF garbled THEN Dead(Pend) ELSE Clean(Pend, body)
      BY <2>4, Zenon DEF OpenInv
    <3>2. \A i \in 1 .. cursor : i \in 1 .. cursor'
      BY <2>2
    <3>3. \A y \in ToSet(Told) : \E i \in 1 .. cursor' : y = ring[i]
      BY <3>1, <3>2
    <3> QED BY <2>1, <2>3, <3>1, <3>3, Zenon DEF OpenInv
  <2>5. ~Live \/ closed => OpenInv'
    BY <2>1, <2>3, Zenon DEF OpenInv
  <2>6. ToldInv'
    BY <2>1, <2>3, Zenon DEF ToldInv
  <2> QED BY <2>4, <2>5, <2>6
<1> QED BY <1>1, <1>2, <1>3

\* A new subscriber: nothing is pending.
LEMMA AcceptTells ==
  ASSUME StreamTypes, CutsHold, HeadInv, ToldInv, NEW status \in {GOOD, REFUSAL}, Accept(status)
  PROVE  (ToldInv /\ OpenInv)'
<1>1. phase = "asked" /\ cursor = -1 /\ ~closed /\ wire' = HeadOf(status) /\ UNCHANGED <<session, ring, garbled>>
  BY DEF Accept, server
<1>2. UNCHANGED <<phase, socket, body, delivered>>
  BY <1>1 DEF session
<1>3. socket = <<>> /\ wire = <<>> /\ ~garbled /\ body = <<>>
  BY <1>1 DEF HeadInv, CutsHold
<1>4. CASE status # GOOD
  <2>1. cursor' = -1
    BY <1>1, <1>4 DEF Accept
  <2>2. ~Live'
    BY <1>1, <1>2, <2>1 DEF Live
  <2> QED BY <1>1, <1>2, <2>2, Parted
<1>5. CASE status = GOOD
  <2>1. cursor' = Len(ring) /\ since' = Len(ring)
    BY <1>5 DEF Accept
  <2>2. Rest' = HeadOf(status)
    <3>1. PICK h \in Seq(Bytes) : h = HeadOf(status)
      BY HeadStarts
    <3>2. <<>> \o h = h
      BY ConcatEmptySeq
    <3> QED BY <1>1, <1>2, <1>3, <3>1, <3>2, Zenon DEF Rest
  <2>3. Len(Rest') = 5 /\ Drop(Rest', 5) = <<>>
    BY <2>2, HeadStarts
  <2>4. Live' /\ Pend' = <<>> /\ body' = <<>> /\ delivered' = delivered
    <3>1. Len(ring) \in Nat
      BY OldestFacts
    <3>2. cursor' # -1
      BY <2>1, <3>1
    <3> QED BY <1>1, <1>2, <1>3, <2>3, <3>2 DEF Live, Pend
  <2>5. Yield(<<>>, <<>>) = <<>>
    BY NoBytes, NothingSaid
  <2>6. Told' = delivered
    <3>1. PICK s \in Seq(Int) : s = delivered
      BY DEF StreamTypes
    <3>2. s \o <<>> = s
      BY ConcatEmptySeq
    <3> QED BY <2>4, <2>5, <3>1, <3>2, Zenon DEF Told
  <2>7. Orderly(delivered, ring)
    BY DeliveredOrderly
  <2>8. ToldInv'
    BY <1>1, <2>6, <2>7, Zenon DEF ToldInv
  <2>9. \A x \in ToSet(Told') : \E i \in 1 .. cursor' : x = ring'[i]
    <3>1. ToSet(delivered) \subseteq ToSet(ring)
      BY <2>7 DEF Orderly
    <3>2. DOMAIN ring = 1 .. cursor'
      BY <2>1, LenProperties DEF StreamTypes
    <3>3. \A x \in ToSet(ring) : \E i \in 1 .. cursor' : x = ring[i]
      BY <3>2 DEF ToSet
    <3> QED BY <1>1, <2>6, <3>1, <3>3
  <2>10. Clean(Pend', body')
    <3>1. <<>> \in Seq(Bytes) /\ Len(<<>>) = 0 /\ <<>> \o <<>> = <<>>
      OBVIOUS
    <3>2. Says(<<>>, <<>>)
      BY <3>1, NoBytes, Zenon DEF Says
    <3>3. Clean(<<>>, <<>>)
      BY <3>1, <3>2, NoBytes, Zenon DEF Clean
    <3> QED BY <2>4, <3>3
  <2>11. \A i \in since' + 1 .. cursor' : ring'[i] \in ToSet(Told')
    <3>1. Len(ring) \in Nat
      BY OldestFacts
    <3> QED BY <2>1, <3>1
  <2> QED BY <1>1, <1>3, <2>8, <2>9, <2>10, <2>11, Zenon DEF OpenInv
<1> QED BY <1>4, <1>5

\* What a subscriber is sent, and the session it is sent to.
LEMMA Subscriber ==
  ASSUME StreamTypes, HeadInv, Subscribed, phase \in {"asked", "body"}
  PROVE  Live /\ ~closed /\ cursor # -1
BY DEF HeadInv, Subscribed, Live

\* A line sent is told next, behind all before it.
LEMMA SendTells ==
  ASSUME StreamTypes, ServerOrder, HeadInv, ToldInv, OpenInv, Live, ~closed,
         cursor \in Oldest .. Len(ring) - 1, cursor' = cursor + 1,
         UNCHANGED <<session, ring, closed, garbled, missed, since>>,
         NEW x \in Cuts(Line(ring[cursor + 1])), wire' = wire \o x
  PROVE  (ToldInv /\ OpenInv)'
<1> DEFINE e == ring[cursor + 1]
<1>1. cursor + 1 \in 1 .. Len(ring) /\ cursor' # -1 /\ cursor \in Nat
  BY OldestFacts
<1>2. DOMAIN ring = 1 .. Len(ring) /\ e \in Events /\ e \in Int
  <2>1. e \in Events
    BY <1>1, ElementOfSeq DEF StreamTypes
  <2> QED BY <2>1, LenProperties DEF StreamTypes, Events
<1>3. x \in Seq(Bytes) /\ Clean(x, <<>>) /\ Yield(x, <<>>) = <<e>>
  BY <1>2, CutsSay
<1>4. Live' /\ Pend' = Pend \o x /\ Told' = delivered \o Yield(Pend \o x, body) /\ body' = body
  BY <1>1, <1>3, PendMore
<1>5. PICK p \in Seq(Bytes), b \in Seq(Bytes), s \in Seq(Int), y \in Seq(Int), t \in Seq(Int) :
        p = Pend /\ b = body /\ s = delivered /\ y = Yield(p, b) /\ t = Told
  BY PendTyped
<1>6. t = s \o y
  BY <1>5, Zenon DEF Told
<1>7. /\ \A z \in ToSet(t) : \E i \in 1 .. cursor : z = ring[i]
      /\ IF garbled THEN Dead(p) ELSE Clean(p, b)
      /\ ~garbled /\ ~missed => \A i \in since + 1 .. cursor : ring[i] \in ToSet(t)
  BY <1>5, Zenon DEF OpenInv
<1> HIDE DEF e
<1>8. CASE garbled
  <2>1. PICK c \in Seq(Bytes) : c = x
    BY <1>3
  <2>2. Yield(p \o c, b) = Yield(p, b) /\ Dead(p \o c)
    BY <1>7, <1>8, YieldDead
  <2>3. Told' = t /\ Dead(Pend')
    BY <1>4, <1>5, <1>6, <2>1, <2>2, Zenon
  <2>4. \A i \in 1 .. cursor : i \in 1 .. cursor'
    BY <1>1
  <2>5. \A z \in ToSet(t) : \E i \in 1 .. cursor' : z = ring[i]
    BY <1>7, <2>4
  <2>6. ToldInv'
    BY <1>5, <2>3, Zenon DEF ToldInv
  <2> QED BY <1>8, <2>3, <2>5, <2>6, Zenon DEF OpenInv
<1>9. CASE ~garbled
  <2>1. PICK c \in Seq(Bytes) : c = x
    BY <1>3
  <2>2. Clean(p, b) /\ Clean(c, <<>>)
    BY <1>3, <1>7, <1>9, <2>1
  <2>3. Yield(p \o c, b) = Yield(p, b) \o Yield(c, <<>>) /\ Clean(p \o c, b)
    BY <2>2, YieldOn
  <2>4. <<e>> \in Seq(Int) /\ t \o <<e>> = Append(t, e)
    <3>1. PICK o \in Int : o = e
      BY <1>2
    <3>2. <<o>> \in Seq(Int) /\ t \o <<o>> = Append(t, o)
      OBVIOUS
    <3> QED BY <3>1, <3>2
  <2>5. Told' = Append(t, e)
    <3>1. PICK f \in Seq(Int) : f = <<e>>
      BY <2>4, Zenon
    <3>2. Regroups(s, y, f)
      BY RegroupEvents
    <3>3. s \o (y \o f) = t \o f
      BY <1>6, <3>2, Zenon DEF Regroups
    <3> QED BY <1>3, <1>4, <1>5, <2>1, <2>3, <2>4, <3>1, <3>3, Zenon
  <2>6. \A z \in ToSet(t) : z < e
    <3> SUFFICES ASSUME NEW z \in ToSet(t) PROVE z < e
      OBVIOUS
    <3>1. PICK i \in 1 .. cursor : z = ring[i]
      BY <1>7
    <3>2. i \in DOMAIN ring /\ cursor + 1 \in DOMAIN ring /\ i < cursor + 1
      BY <1>1, <1>2, <3>1
    <3>3. ring[i] < ring[cursor + 1]
      BY <3>2 DEF ServerOrder, Increasing
    <3> QED BY <3>1, <3>3 DEF e
  <2>7. PICK o \in Int : o = e
    BY <1>2
  <2>8. ToSet(Append(t, o)) = ToSet(t) \cup {o}
    BY AppendSet
  <2>9. Increasing(t) /\ ToSet(t) \subseteq ToSet(ring)
    BY <1>5, Zenon DEF ToldInv, Orderly
  <2>10. Increasing(Append(t, o))
    <3>1. \A i \in DOMAIN t : t[i] < o
      BY <2>6, <2>7 DEF ToSet
    <3> QED BY <2>9, <3>1, IncreasingAppend
  <2>11. o \in ToSet(ring)
    BY <1>1, <1>2, <2>7 DEF ToSet, e
  <2>12. ToldInv'
    <3>1. ToSet(Append(t, o)) \subseteq ToSet(ring)
      BY <2>8, <2>9, <2>11
    <3>2. Told' = Append(t, o) /\ ring' = ring
      BY <2>5, <2>7
    <3> QED BY <2>10, <3>1, <3>2, Zenon DEF ToldInv, Orderly
  <2>13. \A z \in ToSet(Told') : \E i \in 1 .. cursor' : z = ring[i]
    <3> SUFFICES ASSUME NEW z \in ToSet(Append(t, o)) PROVE \E i \in 1 .. cursor' : z = ring[i]
      BY <2>5, <2>7
    <3>1. CASE z \in ToSet(t)
      <4>1. PICK i \in 1 .. cursor : z = ring[i]
        BY <1>7, <3>1
      <4>2. i \in 1 .. cursor'
        BY <1>1
      <4> QED BY <4>1, <4>2
    <3>2. CASE z = o
      <4>1. cursor + 1 \in 1 .. cursor' /\ z = ring[cursor + 1]
        BY <1>1, <2>7, <3>2 DEF e
      <4> QED BY <4>1
    <3> QED BY <2>8, <3>1, <3>2
  <2>14. ~missed => \A i \in since + 1 .. cursor' : ring[i] \in ToSet(Told')
    <3> SUFFICES ASSUME ~missed, NEW i \in since + 1 .. cursor' PROVE ring[i] \in ToSet(Append(t, o))
      BY <2>5, <2>7
    <3>1. since \in Nat
      BY DEF StreamTypes
    <3>2. i \in since + 1 .. cursor \/ i = cursor + 1
      BY <1>1, <3>1
    <3>3. CASE i \in since + 1 .. cursor
      BY <1>7, <1>9, <2>8, <3>3
    <3>4. CASE i = cursor + 1
      BY <2>7, <2>8, <3>4 DEF e
    <3> QED BY <3>2, <3>3, <3>4
  <2>15. Clean(Pend', body')
    BY <1>4, <1>5, <2>1, <2>3, Zenon
  <2> QED BY <1>9, <2>12, <2>13, <2>14, <2>15, Zenon DEF OpenInv
<1> QED BY <1>8, <1>9

\* Bytes of which nothing is ever told: the invariants of the bytes before them stay.
LEMMA SilentTells ==
  ASSUME StreamTypes, ToldInv, OpenInv, Live, ~closed, cursor' # -1, UNCHANGED <<session, ring>>,
         NEW x \in Seq(Bytes), wire' = wire \o x, Yield(x, <<>>) = <<>>
  PROVE  /\ ToldInv' /\ Live' /\ Told' = Told
         /\ garbled => Dead(Pend')
         /\ ~garbled /\ Clean(x, <<>>) => Clean(Pend', body')
         /\ ~garbled /\ Dead(x) => Dead(Pend')
<1>1. Live' /\ Pend' = Pend \o x /\ Told' = delivered \o Yield(Pend \o x, body) /\ body' = body
  BY PendMore
<1>2. PICK p \in Seq(Bytes), b \in Seq(Bytes), s \in Seq(Int), y \in Seq(Int) :
        p = Pend /\ b = body /\ s = delivered /\ y = Yield(p, b)
  BY PendTyped
<1>3. Told = s \o y
  BY <1>2, Zenon DEF Told
<1>4. IF garbled THEN Dead(p) ELSE Clean(p, b)
  BY <1>2, Zenon DEF OpenInv
<1>5. CASE garbled
  <2>1. Yield(p \o x, b) = y /\ Dead(p \o x)
    BY <1>2, <1>4, <1>5, YieldDead
  <2>2. Told' = Told /\ Dead(Pend')
    BY <1>1, <1>2, <1>3, <2>1, Zenon
  <2> QED BY <1>1, <1>5, <2>2, Zenon DEF ToldInv
<1>6. CASE ~garbled
  <2>1. Clean(p, b)
    BY <1>4, <1>6
  <2>2. /\ Yield(p \o x, b) = y \o <<>>
        /\ Clean(x, <<>>) => Clean(p \o x, b)
        /\ Dead(x) => Dead(p \o x)
    <3>1. /\ Yield(p \o x, b) = Yield(p, b) \o Yield(x, <<>>)
          /\ Clean(x, <<>>) => Clean(p \o x, b)
          /\ Dead(x) => Dead(p \o x)
      BY <2>1, YieldOn
    <3> QED BY <1>2, <3>1, Zenon
  <2>3. y \o <<>> = y
    BY ConcatEmptySeq
  <2>4. Told' = Told
    BY <1>1, <1>2, <1>3, <2>2, <2>3, Zenon
  <2>5. /\ Clean(x, <<>>) => Clean(Pend', body')
        /\ Dead(x) => Dead(Pend')
    BY <1>1, <1>2, <2>2, Zenon
  <2> QED BY <1>1, <1>6, <2>4, <2>5, Zenon DEF ToldInv
<1> QED BY <1>5, <1>6

\* The steps of the server that write, for a session that listens.
LEMMA WriteTells ==
  ASSUME StreamTypes, CutsHold, ServerOrder, HeadInv, Served, ToldInv, OpenInv,
         Send \/ Garble \/ KeepAlive \/ Ends
  PROVE  (ToldInv /\ OpenInv)'
<1>1. /\ cursor # -1 /\ ~closed /\ UNCHANGED <<session, ring>>
      /\ cursor' = cursor \/ (cursor \in Oldest .. Len(ring) - 1 /\ cursor' = cursor + 1)
  BY DEF Send, Garble, KeepAlive, Ends, Subscribed, conn, server
<1>2. cursor' # -1 /\ cursor \in Int /\ cursor <= cursor' /\ -1 <= cursor
  BY <1>1, OldestFacts DEF StreamTypes
<1>3. UNCHANGED <<phase, socket, body, delivered>>
  BY <1>1 DEF session
<1>4. CASE phase = "down"
  <2>1. ~Live'
    BY <1>3, <1>4 DEF Live
  <2> QED BY <1>1, <1>3, <2>1, Parted
<1>5. CASE phase # "down"
  <2>1. Live
    <3>1. phase \in {"asked", "body"}
      BY <1>5 DEF StreamTypes
    <3> QED BY <1>1, <3>1, Subscriber DEF Subscribed
  <2>2. CASE Send
    <3>1. cursor \in Oldest .. Len(ring) - 1 /\ cursor' = cursor + 1
          /\ UNCHANGED <<session, ring, closed, garbled, missed, since>>
      BY <2>2 DEF Send, server
    <3>2. PICK x \in Cuts(Line(ring[cursor + 1])) : wire' = wire \o x
      BY <2>2 DEF Send
    <3> QED BY <1>1, <2>1, <3>1, <3>2, SendTells
  <2>3. CASE Garble
    <3>1. /\ ~garbled /\ garbled' = TRUE /\ cursor \in Oldest .. Len(ring) - 1 /\ cursor' = cursor + 1
          /\ UNCHANGED <<session, ring, closed, missed, since>>
      BY <2>3 DEF Garble, server
    <3>2. PICK x \in Garbled(Line(ring[cursor + 1])) : wire' = wire \o x
      BY <2>3 DEF Garble
    <3>3. ring[cursor + 1] \in Events
      <4>1. cursor + 1 \in 1 .. Len(ring)
        BY <3>1, OldestFacts
      <4> QED BY <4>1, ElementOfSeq DEF StreamTypes
    <3>4. x \in Seq(Bytes) /\ Dead(x) /\ Yield(x, <<>>) = <<>>
      BY <3>3, GarbledDead
    <3>5. ToldInv' /\ Told' = Told /\ Dead(Pend')
      BY <1>1, <1>2, <2>1, <3>1, <3>2, <3>4, SilentTells
    <3>6. \A y \in ToSet(Told) : \E i \in 1 .. cursor' : y = ring[i]
      <4>1. \A y \in ToSet(Told) : \E i \in 1 .. cursor : y = ring[i]
        BY <1>1, <2>1, Zenon DEF OpenInv
      <4>2. \A i \in 1 .. cursor : i \in 1 .. cursor'
        BY <3>1, <1>2
      <4> QED BY <4>1, <4>2
    <3> QED BY <3>1, <3>5, <3>6, Zenon DEF OpenInv
  <2>4. CASE KeepAlive
    <3>1. /\ wire = <<>> /\ wire' = Chunk(Comment)
          /\ UNCHANGED <<session, ring, cursor, closed, garbled, missed, since>>
      BY <2>4 DEF KeepAlive, conn, server
    <3>2. PICK x \in Seq(Bytes) : x = Chunk(Comment) /\ Clean(x, <<>>) /\ Yield(x, <<>>) = <<>>
      BY CommentCut
    <3>3. <<>> \o x = x
      BY ConcatEmptySeq
    <3>4. wire' = wire \o x
      BY <3>1, <3>2, <3>3, Zenon
    <3>5. /\ ToldInv' /\ Told' = Told
          /\ garbled => Dead(Pend')
          /\ ~garbled => Clean(Pend', body')
      BY <1>1, <1>2, <2>1, <3>2, <3>4, SilentTells
    <3> QED BY <1>1, <2>1, <3>1, <3>5, Zenon DEF OpenInv
  <2>5. CASE Ends
    <3>1. /\ closed' = TRUE /\ UNCHANGED <<session, ring, cursor>>
          /\ wire' = wire \o LastChunk \/ wire' = wire \/ wire' = <<>>
      BY <2>5 DEF Ends, conn, server
    <3>2. OpenInv'
      BY <3>1, Zenon DEF OpenInv
    <3>3. CASE wire' = wire \o LastChunk
      <4>1. PICK x \in Seq(Bytes) : x = LastChunk /\ Yield(x, <<>>) = <<>>
        BY LastChunkSays
      <4> QED BY <1>1, <1>2, <2>1, <3>2, <3>3, <4>1, SilentTells
    <3>4. CASE wire' = wire
      <4>1. Told' = Told
        BY <3>1, <3>4, Untouched
      <4> QED BY <3>1, <3>2, <4>1, Zenon DEF ToldInv
    <3>5. CASE wire' = <<>>
      <4>1. Rest' = socket
        <5>1. PICK u \in Seq(Bytes) : u = socket
          BY DEF StreamTypes
        <5>2. u \o <<>> = u
          BY ConcatEmptySeq
        <5> QED BY <1>3, <3>5, <5>1, <5>2, Zenon DEF Rest
      <4>2. CASE phase = "asked"
        <5>1. Len(socket) <= 4 /\ Len(socket) \in Nat
          BY <4>2, RestTyped DEF HeadInv
        <5>2. ~Live'
          BY <1>3, <4>1, <4>2, <5>1 DEF Live
        <5> QED BY <1>1, <1>3, <5>2, Parted
      <4>3. CASE phase = "body"
        <5>1. Kept(got, socket, body, delivered, base)
          BY <4>3, Zenon DEF CutsHold
        <5>2. PICK g \in Seq(Bytes) : g = got
          BY DEF StreamTypes
        <5>3. Yield(socket, body) = <<>>
          BY <5>1, <5>2, YieldSettled
        <5>4. Pend' = socket /\ Live'
          BY <1>3, <4>1, <4>3 DEF Pend, Live
        <5>5. PICK s \in Seq(Int) : s = delivered
          BY DEF StreamTypes
        <5>6. s \o <<>> = s
          BY ConcatEmptySeq
        <5>7. Told' = delivered
          BY <1>3, <5>3, <5>4, <5>5, <5>6, Zenon DEF Told
        <5>8. Orderly(delivered, ring)
          BY DeliveredOrderly
        <5> QED BY <1>1, <3>2, <5>7, <5>8, Zenon DEF ToldInv
      <4> QED BY <1>5, <4>2, <4>3 DEF StreamTypes
    <3> QED BY <3>1, <3>3, <3>4, <3>5
  <2> QED BY <2>2, <2>3, <2>4, <2>5
<1> QED BY <1>4, <1>5

\* What a read finds in front of what is pending.
LEMMA PendRead ==
  ASSUME StreamTypes, HeadInv, phase \in {"asked", "body"}, NEW n \in 1 .. Len(wire),
         NEW held \in AfterHead(socket \o SubSeq(wire, 1, n))
  PROVE  Live /\ held \in Seq(Bytes) /\ Drop(wire, n) \in Seq(Bytes) /\ Pend = held \o Drop(wire, n)
<1>1. PICK all \in Seq(Bytes) : all = socket \o SubSeq(wire, 1, n)
  BY RestRead
<1>2. PICK z \in Seq(Bytes) : z = Drop(wire, n)
  BY RestRead
<1>3. all \o z = Rest
  BY <1>1, <1>2, RestRead
<1>4. CASE phase = "body"
  <2>1. held = all
    BY <1>1, <1>4 DEF AfterHead
  <2> QED BY <1>2, <1>3, <1>4, <2>1 DEF Live, Pend
<1>5. CASE phase = "asked"
  <2>1. held \in Held(all)
    BY <1>1, <1>5 DEF AfterHead
  <2>2. cursor # -1 /\ 5 <= Len(all) /\ held = Drop(all, 5)
    BY <1>1, <1>5, <2>1, HeadRead
  <2>3. PICK k \in 0 .. Len(all) : k = 5
    BY <2>2, LenProperties
  <2>4. Drop(all \o z, k) = Drop(all, k) \o z /\ Drop(all, k) \in Seq(Bytes)
    BY DropConcat, DropFacts
  <2>5. Len(all \o z) = Len(all) + Len(z) /\ Len(all) \in Nat /\ Len(z) \in Nat
    BY ConcatProperties, LenProperties
  <2>6. 5 <= Len(Rest)
    BY <1>3, <2>2, <2>5
  <2>7. Live
    BY <1>5, <2>2, <2>6 DEF Live
  <2>8. Pend = Drop(Rest, 5)
    BY <1>5 DEF Pend
  <2> QED BY <1>2, <1>3, <2>2, <2>3, <2>4, <2>7, <2>8
<1> QED BY <1>4, <1>5

\* A read that decodes moves events from the pending bytes to the delivered ones.
LEMMA DecodesTells ==
  ASSUME StreamTypes, HeadInv, ToldInv, OpenInv, phase \in {"asked", "body"}, NEW n \in 1 .. Len(wire),
         NEW held \in AfterHead(socket \o SubSeq(wire, 1, n)), Decodes(held, n), wire' = Drop(wire, n)
  PROVE  (ToldInv /\ OpenInv)'
<1>1. Live /\ held \in Seq(Bytes) /\ Drop(wire, n) \in Seq(Bytes) /\ Pend = held \o Drop(wire, n)
  BY PendRead
<1>2. PICK h \in Seq(Bytes), z \in Seq(Bytes), b \in Seq(Bytes), v \in Seq(Int) :
        h = held /\ z = Drop(wire, n) /\ b = body /\ v = delivered
  BY <1>1 DEF StreamTypes
<1>3. /\ ~Digest(held, body).bad /\ ~Digest(held, body).end /\ phase' = "body"
      /\ socket' = Digest(held, body).socket /\ body' = Digest(held, body).body
      /\ delivered' = delivered \o Digest(held, body).events
      /\ UNCHANGED <<server, conn, closed, garbled>>
  BY DEF Decodes
<1>4. PICK out : out = Digest(h, b)
  OBVIOUS
<1>19. PICK d : d = Dechunk[h]
  OBVIOUS
<1>20. PICK s : s = SplitFrames[b \o d.data]
  OBVIOUS
<1>21. PICK k : k = Drop(h, d.consumed)
  OBVIOUS
<1>5. out.bad = d.bad /\ out.end = d.end /\ out.socket = k /\ out.body = s.rest /\ out.events = Outcomes[s.frames]
      /\ out.events \in Seq(Int)
  BY <1>4, <1>19, <1>20, <1>21, DigestTyped
<1>6. ~d.bad /\ ~d.end /\ socket' = k /\ body' = s.rest /\ delivered' = v \o Outcomes[s.frames]
  BY <1>2, <1>3, <1>4, <1>5, Zenon
<1>7. /\ k \in Seq(Bytes) /\ s.rest \in Seq(Bytes)
      /\ Yield(h \o z, b) = Outcomes[s.frames] \o Yield(k \o z, s.rest)
      /\ Clean(h \o z, b) => Clean(k \o z, s.rest)
      /\ Dead(h \o z) => Dead(k \o z)
  <2>1. ~d.bad /\ ~d.end
    BY <1>6
  <2>2. Reads(h, z, b, s, k)
    BY <1>19, <1>20, <1>21, <2>1, YieldRead
  <2> QED BY <2>2, Zenon DEF Reads
<1>8. PICK o \in Seq(Int) : o = Outcomes[s.frames]
  BY <1>5
<1>9. Live' /\ Pend' = k \o z
  BY <1>2, <1>3, <1>6 DEF Live, Pend, Rest
<1>10. PICK y \in Seq(Int) : y = Yield(k \o z, s.rest)
  <2>1. PICK p \in Seq(Bytes) : p = k \o z
    <3>1. PICK l \in Seq(Bytes) : l = k
      BY <1>7
    <3>2. l \o z \in Seq(Bytes)
      BY ConcatProperties
    <3> QED BY <3>1, <3>2
  <2>2. PICK r \in Seq(Bytes) : r = s.rest
    BY <1>7
  <2>3. Yield(p, r) \in Seq(Int)
    BY YieldTyped
  <2> QED BY <2>1, <2>2, <2>3
<1>11. Told = v \o (o \o y)
  BY <1>1, <1>2, <1>7, <1>8, <1>10, Zenon DEF Told
<1>12. Told' = (v \o o) \o y
  BY <1>6, <1>8, <1>9, <1>10, Zenon DEF Told
<1>13. Told' = Told
  <2>1. Regroups(v, o, y)
    BY RegroupEvents
  <2> QED BY <1>11, <1>12, <2>1, Zenon DEF Regroups
<1>14. UNCHANGED <<ring, cursor, since, missed>>
  BY <1>3 DEF server, conn
<1>15. ToldInv'
  BY <1>13, <1>14, Zenon DEF ToldInv
<1>16. Pend = h \o z /\ b = body
  BY <1>1, <1>2, Zenon
<1>17. ASSUME ~closed PROVE IF garbled THEN Dead(Pend') ELSE Clean(Pend', body')
  <2>1. IF garbled THEN Dead(h \o z) ELSE Clean(h \o z, b)
    BY <1>1, <1>16, <1>17, Zenon DEF OpenInv
  <2> QED BY <1>6, <1>7, <1>9, <2>1, Zenon
<1>18. OpenInv'
  BY <1>1, <1>3, <1>13, <1>14, <1>17, Zenon DEF OpenInv
<1> QED BY <1>15, <1>18

\* A session that returns at the last chunk has delivered all it was told.
LEMMA ReturnsTells ==
  ASSUME StreamTypes, HeadInv, ToldInv, phase \in {"asked", "body"}, NEW n \in 1 .. Len(wire),
         Returns(socket \o SubSeq(wire, 1, n))
  PROVE  (ToldInv /\ OpenInv)'
<1> DEFINE all == socket \o SubSeq(wire, 1, n)
<1>1. phase' = "down" /\ UNCHANGED ring
  BY ReturnsTyped DEF server
<1>2. ~Live'
  BY <1>1 DEF Live
<1>3. \/ delivered' = delivered
      \/ \E held \in AfterHead(all) : /\ Digest(held, body).end
                                      /\ delivered' = delivered \o Digest(held, body).events
  BY DEF Returns
<1>4. CASE delivered' = delivered
  BY <1>1, <1>2, <1>4, Parted
<1>5. CASE \E held \in AfterHead(all) : /\ Digest(held, body).end
                                        /\ delivered' = delivered \o Digest(held, body).events
  <2>1. PICK held \in AfterHead(all) : /\ Digest(held, body).end
                                       /\ delivered' = delivered \o Digest(held, body).events
    BY <1>5
  <2>2. Live /\ held \in Seq(Bytes) /\ Drop(wire, n) \in Seq(Bytes) /\ Pend = held \o Drop(wire, n)
    BY <2>1, PendRead
  <2>3. PICK h \in Seq(Bytes), z \in Seq(Bytes), b \in Seq(Bytes), v \in Seq(Int) :
          h = held /\ z = Drop(wire, n) /\ b = body /\ v = delivered
    BY <2>2 DEF StreamTypes
  <2>4. PICK out : out = Digest(h, b)
    OBVIOUS
  <2>5. out.end = Dechunk[h].end /\ out.events = Outcomes[SplitFrames[b \o Dechunk[h].data].frames]
    BY <2>4, DigestTyped
  <2>6. out.end /\ delivered' = v \o out.events
    BY <2>1, <2>3, <2>4, Zenon
  <2>7. Dead(h)
    BY <2>5, <2>6, YieldStops
  <2>8. Dechunk[h \o z].data = Dechunk[h].data
    BY <2>7, Zenon DEF Dead
  <2>9. Yield(h \o z, b) = out.events
    BY <2>5, <2>8, Zenon DEF Yield
  <2>10. delivered' = Told
    BY <2>2, <2>3, <2>6, <2>9, Zenon DEF Told
  <2>11. Told' = Told
    BY <1>2, <2>10, Zenon DEF Told
  <2> QED BY <1>1, <1>2, <2>11, Zenon DEF ToldInv, OpenInv
<1> QED BY <1>3, <1>4, <1>5

LEMMA ReadTells ==
  ASSUME StreamTypes, HeadInv, ToldInv, OpenInv, NEW n \in 1 .. Len(wire), Read(n)
  PROVE  (ToldInv /\ OpenInv)'
<1>1. PICK all : all = socket \o SubSeq(wire, 1, n)
  OBVIOUS
<1>2. phase \in {"asked", "body"}
  BY DEF Read, Listening
<1>3. \/ wire' = Drop(wire, n) /\ HoldsHead(all)
      \/ wire' = Drop(wire, n) /\ \E held \in AfterHead(all) : Decodes(held, n)
      \/ Returns(all)
  BY <1>1 DEF Read
<1>4. CASE wire' = Drop(wire, n) /\ HoldsHead(all)
  <2>1. socket' = all /\ UNCHANGED <<server, conn, phase, body, delivered, closed, garbled>>
    BY <1>4 DEF HoldsHead
  <2>2. Rest' = Rest
    BY <1>1, <1>4, <2>1, RestRead DEF Rest
  <2>3. UNCHANGED <<ring, cursor, since, missed, phase, body, delivered, closed, garbled>>
    BY <2>1 DEF server, conn
  <2>4. Live' = Live /\ Pend' = Pend
    BY <2>2, <2>3 DEF Live, Pend
  <2>5. Told' = Told
    BY <2>3, <2>4, Zenon DEF Told
  <2> QED BY <2>3, <2>4, <2>5, Zenon DEF ToldInv, OpenInv
<1>5. CASE wire' = Drop(wire, n) /\ \E held \in AfterHead(all) : Decodes(held, n)
  BY <1>1, <1>2, <1>5, DecodesTells
<1>6. CASE Returns(all)
  BY <1>1, <1>2, <1>6, ReturnsTells
<1> QED BY <1>3, <1>4, <1>5, <1>6

-----------------------------------------------------------------------------
(* The inductive invariant. *)

WindowInv == StreamTypes /\ CutsHold /\ ServerOrder /\ HeadInv /\ Served /\ ToldInv /\ OpenInv

LEMMA WindowInit == Init => WindowInv
<1> SUFFICES ASSUME Init PROVE WindowInv
  OBVIOUS
<1>1. StreamTypes /\ CutsHold
  BY StreamInitTyped
<1>2. phase = "down" /\ chan = <<>> /\ ring = <<>> /\ delivered = <<>>
  BY DEF Init
<1>3. ServerOrder
  BY <1>2 DEF ServerOrder, Increasing
<1>4. HeadInv /\ Served
  BY <1>2 DEF HeadInv, Served
<1>5. ~Live
  BY <1>2 DEF Live
<1>6. Told = <<>>
  BY <1>2, <1>5 DEF Told
<1>7. ToldInv
  BY <1>2, <1>6 DEF ToldInv, Orderly, Increasing, ToSet
<1> QED BY <1>1, <1>3, <1>4, <1>5, <1>7 DEF WindowInv, OpenInv

\* WindowInv is inductive.
LEMMA WindowStep == WindowInv /\ [Next]_vars => WindowInv'
<1> SUFFICES ASSUME WindowInv, [Next]_vars PROVE WindowInv'
  OBVIOUS
<1>1. StreamTypes /\ CutsHold /\ ServerOrder /\ HeadInv /\ Served /\ ToldInv /\ OpenInv
  BY DEF WindowInv
<1>2. (StreamTypes /\ CutsHold)'
  BY <1>1, StreamStep
<1>3. ServerOrder'
  BY <1>1, OrderStep
<1>4. (HeadInv /\ Served)'
  BY <1>1, HeadStep
<1>5. (ToldInv /\ OpenInv)'
  <2>1. CASE Sample \/ Notice \/ Feed \/ Lagged \/ Stalls \/ UNCHANGED vars
    BY <1>1, <2>1, QuietTells
  <2>2. CASE \E status \in {GOOD, REFUSAL} : Accept(status)
    BY <1>1, <2>2, AcceptTells
  <2>3. CASE Send \/ Garble \/ KeepAlive \/ Ends
    BY <1>1, <2>3, WriteTells
  <2>4. CASE Connect \/ ReadsEnd
    <3>1. phase' \in {"down", "asked"} /\ (phase' = "asked" => cursor' = -1) /\ delivered' = delivered /\ UNCHANGED ring
      BY <2>4 DEF Connect, ReadsEnd, HangUp, server
    <3>2. ~Live'
      BY <3>1 DEF Live
    <3> QED BY <1>1, <3>1, <3>2, Parted
  <2>5. CASE \E n \in 1 .. Len(wire) : Read(n)
    BY <1>1, <2>5, ReadTells
  <2> QED BY <2>1, <2>2, <2>3, <2>4, <2>5 DEF Next
<1> QED BY <1>2, <1>3, <1>4, <1>5 DEF WindowInv

LEMMA WindowAlways == Spec => []WindowInv
BY WindowInit, WindowStep, PTL DEF Spec

(* The window gets the events in the order of their broadcast, each at     *)
(* most once and nothing else, over every chunk, read, lag, garbled length *)
(* and broken connection (transport.rs, remote.rs and main.rs together).   *)
THEOREM InOrderOnceCorrect == Spec => []InOrderOnce
<1>1. WindowInv => InOrderOnce
  <2> SUFFICES ASSUME WindowInv PROVE InOrderOnce
    OBVIOUS
  <2>1. Orderly(delivered, ring)
    BY DeliveredOrderly DEF WindowInv
  <2> QED BY <2>1 DEF Orderly, InOrderOnce
<1> QED BY <1>1, WindowAlways, PTL

(* Once all that was written is read, the session keeps no remains, and    *)
(* what a subscriber that did not lag was due has been delivered: between  *)
(* events_task and the remote loop only a lag loses an event.              *)
THEOREM NothingLostBetweenCorrect == Spec => []NothingLostBetween
<1>1. WindowInv => NothingLostBetween
  <2> SUFFICES ASSUME WindowInv, phase = "body", wire = <<>>, ~closed, ~garbled
               PROVE  /\ socket = <<>> /\ body = <<>>
                      /\ ~missed => ToSet(SubSeq(ring, since + 1, cursor)) \subseteq ToSet(delivered)
    BY DEF NothingLostBetween
  <2>1. PICK s \in Seq(Bytes), g \in Seq(Bytes), v \in Seq(Int) : s = socket /\ g = got /\ v = delivered
    BY DEF WindowInv, StreamTypes
  <2>2. s \o <<>> = s
    BY ConcatEmptySeq
  <2>3. Live /\ Pend = s
    BY <2>1, <2>2 DEF Live, Pend, Rest
  <2>4. Clean(s, body) /\ (~missed => \A i \in since + 1 .. cursor : ring[i] \in ToSet(Told))
    BY <2>3 DEF WindowInv, OpenInv
  <2>5. Kept(g, s, body, delivered, base)
    BY <2>1 DEF WindowInv, CutsHold
  <2>6. s = <<>> /\ body = <<>> /\ Yield(s, body) = <<>>
    BY <2>4, <2>5, YieldSettled
  <2>7. Told = delivered
    <3>1. v \o <<>> = v
      BY ConcatEmptySeq
    <3> QED BY <2>1, <2>3, <2>6, <3>1, Zenon DEF Told
  <2>8. ASSUME ~missed PROVE ToSet(SubSeq(ring, since + 1, cursor)) \subseteq ToSet(delivered)
    <3>1. PICK m \in Int, n \in Int : m = since + 1 /\ n = cursor /\ m >= 1 /\ n <= Len(ring)
      BY DEF WindowInv, StreamTypes
    <3>2. \A i \in m .. n : ring[i] \in ToSet(delivered)
      BY <2>4, <2>7, <2>8, <3>1
    <3>3. /\ SubSeq(ring, m, n) \in Seq(ToSet(delivered))
          /\ Len(SubSeq(ring, m, n)) = IF m <= n THEN n - m + 1 ELSE 0
          /\ \A i \in 1 .. n - m + 1 : SubSeq(ring, m, n)[i] = ring[m + i - 1]
      BY <3>2, SubSeqProperties
    <3>4. PICK q \in Seq(ToSet(delivered)) : q = SubSeq(ring, m, n)
      BY <3>3, Zenon
    <3>5. \A i \in DOMAIN q : q[i] \in ToSet(delivered)
      OBVIOUS
    <3>6. ToSet(q) \subseteq ToSet(delivered)
      BY <3>5 DEF ToSet
    <3> QED BY <3>1, <3>4, <3>6
  <2> QED BY <2>1, <2>6, <2>8
<1> QED BY <1>1, WindowAlways, PTL

=============================================================================
