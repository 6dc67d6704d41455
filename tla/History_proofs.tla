--------------------------- MODULE History_proofs ---------------------------
(***************************************************************************)
(* The rings of History keep what they are given, at the time it was given *)
(* - for any cascade: every number of tiers, interval and length - and a   *)
(* query averages no extreme away.                                         *)
(***************************************************************************)
EXTENDS History, FiniteSetTheorems, SequenceTheorems, NaturalsInduction,
        WellFoundedInduction, TLAPS

\* The position of the bucket that is back places behind the newest one.
Pos(i, T, back) == Wrap(i, T.head + Tiers[i].cap - 1 - back)
InBucket(i, S, b) == {s \in S : Bucket(i, s.t) = b}

\* A ring that holds exactly the samples S, as far as it reaches back.
Holds(i, T, S) ==
  /\ T.len = 0 => S = {}
  /\ \A back \in 0..(T.len - 1) : T.slot[Pos(i, T, back)] = InBucket(i, S, T.newest - back)
  /\ \A s \in S : /\ Bucket(i, s.t) <= T.newest
                  /\ T.len = Tiers[i].cap \/ Bucket(i, s.t) > T.newest - T.len

\* ... beside the bucket it is filling: L is what was recorded, until second m.
TierHolds(i, T, L, m) ==
  /\ Holds(i, T, L \ T.acc)
  /\ T.acc \subseteq L /\ \A s \in T.acc : Bucket(i, s.t) = T.bucket
  /\ T.acc # {} => ~Raw(i) /\ (T.len > 0 => T.newest = T.bucket - 1)
  /\ IF L = {} THEN T.len = 0
     ELSE /\ T.bucket = Bucket(i, m)
          /\ IF Raw(i) THEN T.len > 0 /\ T.newest = T.bucket ELSE T.acc # {}

Inv ==
  /\ TypeOK
  /\ IsFiniteSet(log)
  /\ \A s \in log : s.t <= last
  /\ log # {} => \E s \in log : s.t = last
  /\ \A i \in Trusted : TierHolds(i, tiers[i], log, last)

-----------------------------------------------------------------------------
(* Arithmetic. *)

LEMMA BucketMonotone ==
  ASSUME NEW i \in Levels, NEW t \in Nat, NEW u \in Nat, t <= u
  PROVE  Bucket(i, t) \in Nat /\ Bucket(i, u) \in Nat /\ Bucket(i, t) <= Bucket(i, u)
<1>1. Tiers[i].interval \in Nat \ {0} BY TierShape
<1> QED BY <1>1 DEF Bucket

LEMMA SecondsAreBuckets ==
  ASSUME NEW t \in Nat PROVE 1 \in Levels /\ Bucket(1, t) = t
BY TierShape DEF Bucket, Levels

LEMMA ScaleCancels ==
  ASSUME NEW a \in Int, NEW b \in Int, NEW n \in Nat \ {0}, a * n = b * n
  PROVE  a = b
BY SMTT(30)

LEMMA CapIsPositive == ASSUME NEW i \in Levels PROVE \E c \in Nat : c > 0 /\ c = Tiers[i].cap
BY TierShape

LEMMA WrapStays ==
  ASSUME NEW i \in Levels, NEW T, T.head \in 0..(Tiers[i].cap - 1), NEW n \in 1..Tiers[i].cap
  PROVE  Wrap(i, T.head + n) \in 0..(Tiers[i].cap - 1)
<1>c. PICK c \in Nat : c > 0 /\ c = Tiers[i].cap BY CapIsPositive
<1>h. PICK h \in 0..(c - 1) : h = T.head BY <1>c
<1> QED BY <1>c, <1>h DEF Wrap

\* A ring after n more buckets: where the bucket back places behind the newest
\* one is, and that only those n have been overwritten.
LEMMA RingTurns ==
  ASSUME NEW i \in Levels, NEW n \in 1..Tiers[i].cap, NEW back \in 0..(Tiers[i].cap - 1),
         NEW T, T.head \in 0..(Tiers[i].cap - 1), NEW U, U.head = Wrap(i, T.head + n)
  PROVE  /\ Pos(i, U, back) \in 0..(Tiers[i].cap - 1)
         /\ back < n <=> \/ T.head <= Pos(i, U, back) /\ Pos(i, U, back) < T.head + n
                         \/ Pos(i, U, back) + Tiers[i].cap < T.head + n
         /\ back >= n => Pos(i, U, back) = Pos(i, T, back - n)
<1>c. PICK c \in Nat : c > 0 /\ c = Tiers[i].cap BY CapIsPositive
<1>h. PICK h \in 0..(c - 1) : h = T.head BY <1>c
<1>g. PICK g \in 0..(c - 1) : g = U.head BY <1>c, WrapStays
<1>q. PICK q : q = Pos(i, U, back) OBVIOUS
<1>n. n \in 1..c /\ back \in 0..(c - 1) BY <1>c
<1>1. g = IF h + n < c THEN h + n ELSE h + n - c BY <1>c, <1>h, <1>g DEF Wrap
<1>2. q = IF g + c - 1 - back < c THEN g + c - 1 - back ELSE g - 1 - back
  BY <1>c, <1>n, <1>g, <1>q DEF Wrap, Pos
<1>3. back >= n => Pos(i, T, back - n) =
        IF h + c - 1 - (back - n) < c THEN h + c - 1 - (back - n) ELSE h - 1 - (back - n)
  BY <1>c, <1>n, <1>h DEF Wrap, Pos
<1>4. /\ q \in 0..(c - 1)
      /\ back < n <=> (h <= q /\ q < h + n) \/ q + c < h + n
      /\ back >= n => q = Pos(i, T, back - n)
  BY <1>1, <1>2, <1>3, <1>c, <1>n
<1> QED BY <1>4, <1>c, <1>h, <1>q

LEMMA HeldBounds ==
  ASSUME NEW i \in Levels, NEW n \in Nat
  PROVE  /\ Held(i, n) \in 0..Tiers[i].cap /\ Held(i, n) <= n
         /\ Held(i, n) = n \/ Held(i, n) = Tiers[i].cap
<1>c. PICK c \in Nat : c > 0 /\ c = Tiers[i].cap BY CapIsPositive
<1> QED BY <1>c DEF Held

LEMMA BucketOfSample ==
  ASSUME NEW i \in Levels, NEW s \in Sample PROVE s.t \in Nat /\ Bucket(i, s.t) \in Nat
<1>1. s.t \in Nat BY Bounds DEF Sample
<1> QED BY <1>1, BucketMonotone

LEMMA TierFields ==
  ASSUME NEW i \in Levels, NEW c \in Nat, c = Tiers[i].cap, NEW T \in Tier(i)
  PROVE  /\ T.slot \in [0..(c - 1) -> SUBSET Sample] /\ T.head \in 0..(c - 1) /\ T.len \in 0..c
         /\ T.newest \in Nat /\ T.bucket \in Nat /\ T.acc \in SUBSET Sample
BY DEF Tier, Ring

LEMMA TierOfFields ==
  ASSUME NEW i \in Levels, NEW c \in Nat, c = Tiers[i].cap, NEW U,
         U = [slot |-> U.slot, head |-> U.head, len |-> U.len, newest |-> U.newest,
              bucket |-> U.bucket, acc |-> U.acc],
         U.slot \in [0..(c - 1) -> SUBSET Sample], U.head \in 0..(c - 1), U.len \in 0..c,
         U.newest \in Nat, U.bucket \in Nat, U.acc \in SUBSET Sample
  PROVE  U \in Tier(i)
BY DEF Tier, Ring

-----------------------------------------------------------------------------
(* Whatever arrives, a ring stays a ring. *)

LEMMA FlushType ==
  ASSUME NEW i \in Levels, NEW T \in Tier(i), NEW U, U = Flush(i, T)
  PROVE  U \in Tier(i)
<1>c. PICK c \in Nat : c > 0 /\ c = Tiers[i].cap BY CapIsPositive
<1>t. /\ T.slot \in [0..(c - 1) -> SUBSET Sample] /\ T.head \in 0..(c - 1) /\ T.len \in 0..c
      /\ T.newest \in Nat /\ T.bucket \in Nat /\ T.acc \in SUBSET Sample
  BY TierFields, <1>c
<1>n. PICK n \in Nat : n = 1 /\ n \in 1..c BY <1>c
<1>1. CASE T.acc = {} BY <1>1 DEF Flush
<1>2. CASE T.acc # {}
  <2>1. U.slot = [T.slot EXCEPT ![T.head] = T.acc] BY <1>2 DEF Flush, Tier
  <2>2. U.head = Wrap(i, T.head + n) /\ U.len = Held(i, T.len + 1) BY <1>2, <1>n DEF Flush, Tier
  <2>3. U.newest = T.bucket /\ U.bucket = T.bucket /\ U.acc = {} BY <1>2 DEF Flush, Tier
  <2>4. U = [slot |-> U.slot, head |-> U.head, len |-> U.len, newest |-> U.newest,
             bucket |-> U.bucket, acc |-> U.acc]
    BY <1>2 DEF Flush, Tier
  <2>5. U.slot \in [0..(c - 1) -> SUBSET Sample] BY <2>1, <1>t
  <2>6. U.head \in 0..(c - 1)
    <3>1. T.head \in 0..(c - 1) BY <1>t
    <3> QED BY <3>1, <2>2, <1>n, <1>c, WrapStays
  <2>7. U.len \in 0..c
    <3>1. T.len + 1 \in Nat BY <1>t
    <3> QED BY <3>1, <2>2, <1>c, HeldBounds
  <2>8. U.newest \in Nat /\ U.bucket \in Nat /\ U.acc \in SUBSET Sample BY <2>3, <1>t
  <2> QED BY <2>4, <2>5, <2>6, <2>7, <2>8, <1>c, TierOfFields
<1> QED BY <1>1, <1>2

LEMMA FillGapType ==
  ASSUME NEW i \in Levels, NEW T \in Tier(i), NEW upto \in Nat, NEW U, U = FillGap(i, T, upto)
  PROVE  U \in Tier(i)
<1>c. PICK c \in Nat : c > 0 /\ c = Tiers[i].cap BY CapIsPositive
<1>t. /\ T.slot \in [0..(c - 1) -> SUBSET Sample] /\ T.head \in 0..(c - 1) /\ T.len \in 0..c
      /\ T.newest \in Nat /\ T.bucket \in Nat /\ T.acc \in SUBSET Sample
  BY TierFields, <1>c
<1>m. PICK missed \in Int : missed = upto - T.newest - 1 BY <1>t
<1>1. CASE T.len = 0 \/ missed <= 0 BY <1>1, <1>m DEF FillGap
<1>2. CASE T.len > 0 /\ missed > 0
  <2>n. PICK n \in Nat : n = Held(i, missed) /\ n \in 1..c
    <3>1. missed \in Nat BY <1>2
    <3>2. Held(i, missed) \in 0..c /\ (Held(i, missed) = missed \/ Held(i, missed) = c)
      BY <3>1, <1>c, HeldBounds
    <3> QED BY <3>2, <1>2, <1>c
  <2>v. U = [T EXCEPT !.slot = [j \in Ring(i) |-> IF j \in NextSlots(i, T.head, n)
                                                  THEN {} ELSE T.slot[j]],
                      !.head = Wrap(i, T.head + n), !.len = Held(i, T.len + n),
                      !.newest = upto - 1]
    <3>1. ~(T.len = 0 \/ missed <= 0) BY <1>2, <1>t
    <3> QED BY <3>1, <1>m, <2>n DEF FillGap
  <2>1. U.slot \in [0..(c - 1) -> SUBSET Sample] BY <2>v, <1>t, <1>c DEF Ring, Tier
  <2>2. U.head \in 0..(c - 1)
    <3>1. U.head = Wrap(i, T.head + n) BY <2>v DEF Tier
    <3> QED BY <3>1, <2>n, <1>t, <1>c, WrapStays
  <2>3. U.len \in 0..c
    <3>1. U.len = Held(i, T.len + n) BY <2>v DEF Tier
    <3>2. T.len + n \in Nat BY <1>t
    <3> QED BY <3>1, <3>2, <1>c, HeldBounds
  <2>4. U.newest \in Nat /\ U.bucket \in Nat /\ U.acc \in SUBSET Sample
    <3>1. U.newest = upto - 1 /\ U.bucket = T.bucket /\ U.acc = T.acc BY <2>v DEF Tier
    <3> QED BY <3>1, <1>2, <1>m, <1>t
  <2>5. U = [slot |-> U.slot, head |-> U.head, len |-> U.len, newest |-> U.newest,
             bucket |-> U.bucket, acc |-> U.acc]
    BY <2>v DEF Tier
  <2> QED BY <2>1, <2>2, <2>3, <2>4, <2>5, <1>c, TierOfFields
<1> QED BY <1>1, <1>2, <1>t

LEMMA PushType ==
  ASSUME NEW i \in Levels, NEW T \in Tier(i), NEW s \in Sample
  PROVE  Push(i, T, s) \in Tier(i)
<1>b. PICK b \in Nat : b = Bucket(i, s.t) BY BucketOfSample
<1>1. PICK closed \in Tier(i) : closed = IF b # T.bucket THEN Flush(i, T) ELSE T
  BY FlushType
<1>2. PICK gap \in Tier(i) : gap = FillGap(i, closed, b) BY FillGapType
<1>3. [gap EXCEPT !.bucket = b] \in Tier(i) BY DEF Tier
<1>4. PICK open \in Tier(i) :
         open = IF closed.acc = {} THEN [gap EXCEPT !.bucket = b] ELSE closed
  BY <1>3
<1>5. PICK added \in Tier(i) : added = [open EXCEPT !.acc = @ \cup {s}] BY DEF Tier
<1>6. Push(i, T, s) = IF Raw(i) THEN Flush(i, added) ELSE added
  BY <1>b, <1>1, <1>2, <1>4, <1>5 DEF Push
<1> QED BY <1>6, FlushType

-----------------------------------------------------------------------------
(* The steps of Tier::push, on one ring T that holds S. *)

LEMMA FlushHolds ==
  ASSUME NEW i \in Levels, NEW T \in Tier(i), NEW S \in SUBSET Sample, Holds(i, T, S),
         T.acc # {}, \A s \in T.acc : Bucket(i, s.t) = T.bucket,
         T.len > 0 => T.newest = T.bucket - 1,
         NEW U, U = Flush(i, T)
  PROVE  /\ U \in Tier(i) /\ Holds(i, U, S \cup T.acc)
         /\ U.acc = {} /\ U.len > 0 /\ U.newest = T.bucket /\ U.bucket = T.bucket
<1>c. PICK c \in Nat : c > 0 /\ c = Tiers[i].cap BY CapIsPositive
<1>t. /\ T.slot \in [0..(c - 1) -> SUBSET Sample] /\ T.head \in 0..(c - 1) /\ T.len \in 0..c
      /\ T.newest \in Nat /\ T.bucket \in Nat /\ T.acc \in SUBSET Sample
  BY TierFields, <1>c
<1>b. \A s \in Sample : Bucket(i, s.t) \in Nat BY BucketOfSample
<1>n. PICK n \in Nat : n = 1 /\ n \in 1..c BY <1>c
<1>s. U.slot = [T.slot EXCEPT ![T.head] = T.acc] BY DEF Flush, Tier
<1>u. /\ U.head = Wrap(i, T.head + 1)
      /\ U.len = Held(i, T.len + 1) /\ U.newest = T.bucket /\ U.bucket = T.bucket /\ U.acc = {}
  BY DEF Flush, Tier
<1>1. U.head \in 0..(c - 1) /\ U.len \in 1..c /\ U.len <= T.len + 1
      /\ (U.len = T.len + 1 \/ U.len = c)
  <2>1. U.head \in 0..(c - 1)
    <3>1. U.head = Wrap(i, T.head + n) BY <1>u, <1>n
    <3> QED BY <3>1, <1>n, <1>t, <1>c, WrapStays
  <2>2. T.len + 1 \in Nat BY <1>t
  <2>3. U.len \in 0..c /\ U.len <= T.len + 1 /\ (U.len = T.len + 1 \/ U.len = c)
    BY <2>2, <1>u, <1>c, HeldBounds
  <2> QED BY <2>1, <2>3, <1>t, <1>c
<1>2. U \in Tier(i) BY FlushType
<1>3. ASSUME NEW back \in 0..(U.len - 1)
      PROVE  U.slot[Pos(i, U, back)] = InBucket(i, S \cup T.acc, U.newest - back)
  <2> DEFINE q == Pos(i, U, back)
  <2>b. back \in 0..(c - 1) BY <1>1, <1>c
  <2>r. /\ q \in 0..(c - 1)
        /\ back < 1 <=> (T.head <= q /\ q < T.head + 1) \/ q + c < T.head + 1
        /\ back >= 1 => q = Pos(i, T, back - 1)
    <3>1. T.head \in 0..(c - 1) /\ U.head = Wrap(i, T.head + n) BY <1>u, <1>n, <1>t
    <3>2. /\ q \in 0..(c - 1)
          /\ back < n <=> (T.head <= q /\ q < T.head + n) \/ q + c < T.head + n
          /\ back >= n => q = Pos(i, T, back - n)
      BY <3>1, <2>b, <1>n, <1>c, RingTurns
    <3> QED BY <3>2, <1>n
  <2> HIDE DEF q
  <2>1. CASE back = 0
    <3>1. q = T.head BY <2>1, <2>r, <1>t, <1>c
    <3>2. \A s \in S : Bucket(i, s.t) < T.bucket
      <4> SUFFICES ASSUME NEW s \in S PROVE Bucket(i, s.t) < T.bucket OBVIOUS
      <4>1. Bucket(i, s.t) <= T.newest /\ T.len # 0 BY DEF Holds
      <4> QED BY <4>1, <1>t, <1>b
    <3>3. InBucket(i, S \cup T.acc, T.bucket) = T.acc
      <4>1. T.bucket \in Nat /\ \A r \in S : Bucket(i, r.t) # T.bucket BY <3>2, <1>b, <1>t
      <4> QED BY <4>1 DEF InBucket
    <3>4. U.newest - back = T.bucket BY <2>1, <1>u, <1>t
    <3>5. U.slot[T.head] = T.acc BY <1>s, <1>t
    <3> QED BY <3>1, <3>3, <3>4, <3>5 DEF q
  <2>2. CASE back > 0
    <3>1. back - 1 \in 0..(T.len - 1) /\ T.len > 0
      <4>1. T.len \in Nat /\ U.len \in Nat /\ back \in Nat BY <1>1, <1>t, <2>b
      <4> QED BY <4>1, <2>2, <1>1
    <3>2. q # T.head /\ q = Pos(i, T, back - 1) BY <2>2, <2>r, <2>b, <1>t, <1>c
    <3>3. T.slot[Pos(i, T, back - 1)] = InBucket(i, S, T.newest - (back - 1))
      BY <3>1 DEF Holds
    <3>4. InBucket(i, S \cup T.acc, T.bucket - back) = InBucket(i, S, T.bucket - back)
      <4>1. T.bucket - back # T.bucket BY <2>2, <2>b, <1>t
      <4> QED BY <4>1 DEF InBucket
    <3>5. T.newest - (back - 1) = U.newest - back BY <3>1, <2>b, <1>u, <1>t
    <3>6. U.slot[q] = T.slot[q] BY <3>2, <2>r, <1>s, <1>t
    <3> QED BY <3>2, <3>3, <3>4, <3>5, <3>6, <1>u DEF q
  <2> QED BY <2>1, <2>2, <2>b
<1>4. ASSUME NEW s \in S \cup T.acc
      PROVE  /\ Bucket(i, s.t) <= U.newest
             /\ U.len = c \/ Bucket(i, s.t) > U.newest - U.len
  <2>1. CASE s \in S
    <3>1. T.len # 0 /\ Bucket(i, s.t) <= T.newest /\ (T.len = c \/ Bucket(i, s.t) > T.newest - T.len)
      BY <2>1, <1>c DEF Holds
    <3>2. Bucket(i, s.t) \in Nat BY <2>1, <1>b
    <3>3. T.newest = T.bucket - 1 /\ U.newest = T.newest + 1 BY <3>1, <1>t, <1>u
    <3>4. T.newest \in Nat /\ T.len \in 0..c /\ U.len \in Nat BY <1>1, <1>t, <1>c
    <3> QED BY <3>1, <3>2, <3>3, <3>4, <1>1, <1>c
  <2>2. CASE s \in T.acc BY <2>2, <1>u, <1>t, <1>1, <1>c
  <2> QED BY <2>1, <2>2
<1>5. Holds(i, U, S \cup T.acc)
  <2>1. U.len # 0 BY <1>1
  <2> QED BY <2>1, <1>3, <1>4, <1>c DEF Holds
<1> QED BY <1>1, <1>2, <1>5, <1>u

LEMMA FillGapHolds ==
  ASSUME NEW i \in Levels, NEW T \in Tier(i), NEW S \in SUBSET Sample, Holds(i, T, S),
         T.acc = {}, NEW upto \in Nat, T.len > 0 => T.newest < upto,
         NEW U, U = FillGap(i, T, upto)
  PROVE  /\ U \in Tier(i) /\ Holds(i, U, S) /\ U.acc = {}
         /\ U.len > 0 => U.newest = upto - 1
         /\ U.len = 0 => T.len = 0
<1>c. PICK c \in Nat : c > 0 /\ c = Tiers[i].cap BY CapIsPositive
<1>t. /\ T.slot \in [0..(c - 1) -> SUBSET Sample] /\ T.head \in 0..(c - 1) /\ T.len \in 0..c
      /\ T.newest \in Nat /\ T.bucket \in Nat /\ T.acc \in SUBSET Sample
  BY TierFields, <1>c
<1>b. \A s \in Sample : Bucket(i, s.t) \in Nat BY BucketOfSample
<1>m. PICK missed \in Int : missed = upto - T.newest - 1 BY <1>t
<1>1. CASE T.len = 0 \/ missed <= 0
  <2>1. U = T BY <1>1, <1>m DEF FillGap
  <2>2. T.len > 0 => T.newest = upto - 1 BY <1>1, <1>m, <1>t
  <2> QED BY <2>1, <2>2
<1>2. CASE T.len > 0 /\ missed > 0
  <2>n. PICK n \in Nat : n = Held(i, missed) /\ n \in 1..c /\ n <= missed /\ (n = missed \/ n = c)
    <3>1. missed \in Nat BY <1>2
    <3>2. Held(i, missed) \in 0..c /\ Held(i, missed) <= missed
          /\ (Held(i, missed) = missed \/ Held(i, missed) = c)
      BY <3>1, <1>c, HeldBounds
    <3> QED BY <3>2, <1>2, <1>c
  <2>v. U = [T EXCEPT !.slot = [j \in Ring(i) |-> IF j \in NextSlots(i, T.head, n)
                                                  THEN {} ELSE T.slot[j]],
                      !.head = Wrap(i, T.head + n), !.len = Held(i, T.len + n),
                      !.newest = upto - 1]
    <3>1. ~(T.len = 0 \/ missed <= 0) BY <1>2, <1>t
    <3> QED BY <3>1, <1>m, <2>n DEF FillGap
  <2>s. U.slot = [j \in Ring(i) |-> IF j \in NextSlots(i, T.head, n) THEN {} ELSE T.slot[j]]
    BY <2>v DEF Tier
  <2>u. /\ U.head = Wrap(i, T.head + n) /\ U.len = Held(i, T.len + n)
        /\ U.newest = upto - 1 /\ U.bucket = T.bucket /\ U.acc = {}
    BY <2>v DEF Tier
  <2>1. U.head \in 0..(c - 1) /\ U.len \in 1..c /\ U.len <= T.len + n
        /\ (U.len = T.len + n \/ U.len = c)
    <3>1. U.head \in 0..(c - 1) BY <2>u, <2>n, <1>t, <1>c, WrapStays
    <3>2. PICK m \in Nat : m = T.len + n BY <1>t
    <3>3. U.len \in 0..c /\ U.len <= m /\ (U.len = m \/ U.len = c)
      <4>1. U.len = Held(i, m) BY <3>2, <2>u
      <4> QED BY <4>1, <1>c, HeldBounds
    <3> QED BY <3>1, <3>2, <3>3, <2>n, <1>t, <1>c
  <2>2. U \in Tier(i) BY FillGapType
  <2>3. ASSUME NEW back \in 0..(U.len - 1)
        PROVE  U.slot[Pos(i, U, back)] = InBucket(i, S, U.newest - back)
    <3> DEFINE q == Pos(i, U, back)
    <3>b. back \in 0..(c - 1) BY <2>1, <1>c
    <3>r. /\ q \in 0..(c - 1)
          /\ back < n <=> (T.head <= q /\ q < T.head + n) \/ q + c < T.head + n
          /\ back >= n => q = Pos(i, T, back - n)
      <4>1. T.head \in 0..(c - 1) /\ U.head = Wrap(i, T.head + n) BY <2>u, <1>t
      <4> QED BY <4>1, <3>b, <2>n, <1>c, RingTurns
    <3>q. q \in Ring(i) /\ (q \in NextSlots(i, T.head, n) <=> back < n)
      <4> HIDE DEF q
      <4> QED BY <3>r, <1>c DEF Ring, NextSlots
    <3> HIDE DEF q
    <3>2. CASE back < n
      <4>1. ASSUME NEW s \in S PROVE Bucket(i, s.t) # U.newest - back
        <5>1. Bucket(i, s.t) <= T.newest /\ Bucket(i, s.t) \in Nat BY <1>b DEF Holds
        <5> QED BY <5>1, <3>2, <3>b, <2>n, <2>u, <1>m, <1>t
      <4>2. InBucket(i, S, U.newest - back) = {} BY <4>1 DEF InBucket
      <4> QED BY <4>2, <3>2, <3>q, <2>s DEF q
    <3>3. CASE back >= n
      <4>1. n = missed /\ n < c BY <3>3, <3>b, <2>n, <1>c
      <4>2. back - n \in 0..(T.len - 1)
        <5>1. T.len \in Nat /\ U.len \in Nat BY <2>1, <1>t
        <5>2. back \in Int /\ back < T.len + n BY <5>1, <2>1, <2>n
        <5> QED BY <5>1, <5>2, <3>3, <2>n
      <4>3. T.newest - (back - n) = U.newest - back
        <5>1. U.newest = T.newest + n /\ T.newest \in Nat BY <4>1, <2>u, <1>m, <1>t
        <5> QED BY <5>1, <3>b
      <4>4. T.slot[Pos(i, T, back - n)] = InBucket(i, S, T.newest - (back - n))
        BY <4>2 DEF Holds
      <4>5. q \notin NextSlots(i, T.head, n) BY <3>3, <3>q, <3>b, <2>n
      <4> QED BY <4>3, <4>4, <4>5, <3>3, <3>r, <3>q, <2>s DEF q
    <3> QED BY <3>2, <3>3, <2>n, <3>b
  <2>4. ASSUME NEW s \in S
        PROVE  /\ Bucket(i, s.t) <= U.newest
               /\ U.len = c \/ Bucket(i, s.t) > U.newest - U.len
    <3>1. Bucket(i, s.t) <= T.newest /\ (T.len = c \/ Bucket(i, s.t) > T.newest - T.len)
      BY <1>c DEF Holds
    <3>2. Bucket(i, s.t) \in Nat BY <1>b
    <3>3. U.newest = T.newest + missed BY <2>u, <1>m, <1>t
    <3>4. T.newest \in Nat /\ T.len \in Nat /\ U.len \in Nat BY <2>1, <1>t
    <3> QED BY <3>1, <3>2, <3>3, <3>4, <2>1, <2>n, <1>2
  <2>5. Holds(i, U, S)
    <3>1. U.len # 0 BY <2>1
    <3> QED BY <3>1, <2>3, <2>4, <1>c DEF Holds
  <2> QED BY <2>1, <2>2, <2>5, <2>u, <1>2
<1> QED BY <1>1, <1>2, <1>t
LEMMA HoldsSame ==
  ASSUME NEW i, NEW T, NEW U, NEW S, Holds(i, T, S),
         U.slot = T.slot, U.head = T.head, U.len = T.len, U.newest = T.newest
  PROVE  Holds(i, U, S)
BY DEF Holds, Pos

\* Tier::push, given a sample that is not older than the latest one, and for
\* the raw tier newer.
LEMMA PushHolds ==
  ASSUME NEW i \in Levels, NEW T \in Tier(i), NEW L \in SUBSET Sample, NEW m \in Nat,
         NEW s \in Sample, TierHolds(i, T, L, m),
         L # {} => m <= s.t /\ (Raw(i) => m < s.t)
  PROVE  TierHolds(i, Push(i, T, s), L \cup {s}, s.t)
<1>b. PICK b \in Nat : b = Bucket(i, s.t) BY BucketOfSample
<1>l. L # {} => /\ Bucket(i, m) \in Nat /\ Bucket(i, m) <= b
                /\ Raw(i) => Bucket(i, m) < b
  <2>1. s.t \in Nat BY BucketOfSample
  <2>2. L # {} => Bucket(i, m) \in Nat /\ Bucket(i, m) <= b BY <2>1, <1>b, BucketMonotone
  <2>3. Raw(i) => Bucket(i, m) = m /\ b = s.t BY <2>1, <1>b, SecondsAreBuckets DEF Raw
  <2> QED BY <2>2, <2>3
<1>t. T.len \in Nat /\ T.newest \in Nat /\ T.bucket \in Nat /\ T.acc \in SUBSET Sample
  <2>1. PICK c \in Nat : c = Tiers[i].cap BY CapIsPositive
  <2> QED BY <2>1, TierFields
<1>h. /\ Holds(i, T, L \ T.acc)
      /\ T.acc \subseteq L /\ \A r \in T.acc : Bucket(i, r.t) = T.bucket
      /\ T.acc # {} => ~Raw(i) /\ (T.len > 0 => T.newest = T.bucket - 1)
      /\ L = {} => T.len = 0
      /\ L # {} => T.bucket = Bucket(i, m)
      /\ L # {} /\ Raw(i) => T.len > 0 /\ T.newest = T.bucket
      /\ L # {} /\ ~Raw(i) => T.acc # {}
  BY DEF TierHolds
<1>1. CASE T.acc # {} /\ b = T.bucket
  <2>1. PICK U : U = [T EXCEPT !.acc = @ \cup {s}] OBVIOUS
  <2>2. Push(i, T, s) = U BY <1>1, <1>b, <1>h, <2>1 DEF Push
  <2>3. U.slot = T.slot /\ U.head = T.head /\ U.len = T.len /\ U.newest = T.newest
        /\ U.bucket = T.bucket /\ U.acc = T.acc \cup {s}
    BY <2>1 DEF Tier
  <2>4. s \notin L \ T.acc
    <3>1. ASSUME NEW r \in L \ T.acc PROVE Bucket(i, r.t) # T.bucket
      <4>1. T.len # 0 /\ Bucket(i, r.t) <= T.newest BY <1>h DEF Holds
      <4>2. Bucket(i, r.t) \in Nat BY BucketOfSample
      <4>3. T.newest = T.bucket - 1 BY <4>1, <1>h, <1>1, <1>t
      <4> QED BY <4>1, <4>2, <4>3, <1>t
    <3> QED BY <3>1, <1>1, <1>b
  <2>5. (L \cup {s}) \ U.acc = L \ T.acc BY <2>3, <2>4
  <2>6. Holds(i, U, (L \cup {s}) \ U.acc) BY <2>3, <2>5, <1>h, HoldsSame
  <2>7. U.acc # {} /\ U.acc \subseteq L \cup {s} /\ \A r \in U.acc : Bucket(i, r.t) = U.bucket
    BY <2>3, <1>h, <1>1, <1>b
  <2> QED BY <2>2, <2>3, <2>6, <2>7, <1>h, <1>1, <1>b DEF TierHolds
<1>2. CASE ~(T.acc # {} /\ b = T.bucket)
  <2>1. PICK closed \in Tier(i) : closed = IF b # T.bucket THEN Flush(i, T) ELSE T BY FlushType
  <2>2. closed.acc = {} /\ Holds(i, closed, L) /\ (closed.len > 0 => closed.newest < b)
    <3>1. CASE T.acc = {}
      <4>1. closed = T BY <2>1, <3>1 DEF Flush
      <4>2. L \ T.acc = L BY <3>1
      <4>3. ASSUME T.len > 0 PROVE T.newest < b
        <5>1. L # {} BY <4>3, <1>h
        <5>2. i = 1 BY <5>1, <3>1, <1>h DEF Raw
        <5>3. T.newest = Bucket(i, m) BY <5>1, <5>2, <1>h DEF Raw
        <5> QED BY <5>1, <5>2, <5>3, <1>l DEF Raw
      <4> QED BY <4>1, <4>2, <4>3, <3>1, <1>h
    <3>2. CASE T.acc # {}
      <4>1. closed = Flush(i, T) BY <1>2, <3>2, <2>1
      <4>2. (L \ T.acc) \cup T.acc = L BY <1>h
      <4>3. Holds(i, closed, L) /\ closed.acc = {} /\ closed.newest = T.bucket
        <5>1. PICK S \in SUBSET Sample : S = L \ T.acc OBVIOUS
        <5>2. Holds(i, T, S) /\ \A r \in T.acc : Bucket(i, r.t) = T.bucket BY <5>1, <1>h
        <5>3. T.len > 0 => T.newest = T.bucket - 1 BY <3>2, <1>h
        <5>4. Holds(i, closed, S \cup T.acc) /\ closed.acc = {} /\ closed.newest = T.bucket
          BY <5>2, <5>3, <4>1, <3>2, FlushHolds, ZenonT(40)
        <5> QED BY <5>1, <5>4, <4>2
      <4>4. T.bucket < b BY <1>2, <3>2, <1>h, <1>l, <1>t
      <4> QED BY <4>3, <4>4
    <3> QED BY <3>1, <3>2
  <2>3. PICK gap \in Tier(i) : gap = FillGap(i, closed, b) BY FillGapType
  <2>4. Holds(i, gap, L) /\ gap.acc = {} /\ (gap.len > 0 => gap.newest = b - 1)
    BY <2>2, <2>3, FillGapHolds
  <2>5. PICK added \in Tier(i) : added = [gap EXCEPT !.bucket = b, !.acc = {s}] BY DEF Tier
  <2>6. added.slot = gap.slot /\ added.head = gap.head /\ added.len = gap.len
        /\ added.newest = gap.newest /\ added.bucket = b /\ added.acc = {s}
    BY <2>5 DEF Tier
  <2>7. Push(i, T, s) = IF Raw(i) THEN Flush(i, added) ELSE added
    <3>1. added = [[gap EXCEPT !.bucket = b] EXCEPT !.acc = @ \cup {s}]
      BY <2>4, <2>5 DEF Tier
    <3> QED BY <3>1, <1>b, <2>1, <2>2, <2>3 DEF Push
  <2>8. Holds(i, added, L) BY <2>4, <2>6, HoldsSame
  <2>9. s \notin L
    <3>1. ASSUME NEW r \in L PROVE Bucket(i, r.t) # b
      <4>1. gap.len # 0 /\ Bucket(i, r.t) <= gap.newest BY <2>4 DEF Holds
      <4>2. Bucket(i, r.t) \in Nat BY BucketOfSample
      <4>3. gap.len \in Nat
        <5>1. PICK c \in Nat : c = Tiers[i].cap BY CapIsPositive
        <5> QED BY <5>1, TierFields
      <4> QED BY <4>1, <4>2, <4>3, <2>4
    <3> QED BY <3>1, <1>b
  <2>10. CASE ~Raw(i)
    <3>1. (L \cup {s}) \ added.acc = L BY <2>6, <2>9
    <3> QED BY <3>1, <2>10, <2>4, <2>6, <2>7, <2>8, <1>b DEF TierHolds
  <2>11. CASE Raw(i)
    <3>1. PICK U : U = Flush(i, added) OBVIOUS
    <3>2. Holds(i, U, L \cup {s}) /\ U.acc = {} /\ U.len > 0 /\ U.newest = b /\ U.bucket = b
      <4>1. added.len > 0 => added.newest = added.bucket - 1 BY <2>4, <2>6
      <4> QED BY <4>1, <3>1, <2>6, <2>8, <1>b, FlushHolds, ZenonT(60)
    <3>3. (L \cup {s}) \ U.acc = L \cup {s} BY <3>2
    <3> QED BY <3>1, <3>2, <3>3, <2>11, <2>7, <1>b DEF TierHolds
  <2> QED BY <2>10, <2>11
<1> QED BY <1>1, <1>2
-----------------------------------------------------------------------------
(* The store. *)

LEMMA NewTierType ==
  ASSUME NEW i \in Levels PROVE NewTier(i) \in Tier(i)
<1>1. PICK c \in Nat : c > 0 /\ c = Tiers[i].cap BY CapIsPositive
<1>2. PICK U : U = NewTier(i) OBVIOUS
<1>3. /\ U.slot \in [0..(c - 1) -> SUBSET Sample] /\ U.head \in 0..(c - 1) /\ U.len \in 0..c
      /\ U.newest \in Nat /\ U.bucket \in Nat /\ U.acc \in SUBSET Sample
      /\ U = [slot |-> U.slot, head |-> U.head, len |-> U.len, newest |-> U.newest,
              bucket |-> U.bucket, acc |-> U.acc]
  BY <1>1, <1>2 DEF NewTier, Ring
<1> QED BY <1>1, <1>2, <1>3, TierOfFields

LEMMA InitInv == Init => Inv
<1> SUFFICES ASSUME Init PROVE Inv OBVIOUS
<1>2. 1 \in Levels BY TierShape DEF Levels
<1>3. TypeOK BY <1>2, NewTierType, Bounds DEF Init, TypeOK
<1>4. ASSUME NEW i \in Levels PROVE TierHolds(i, tiers[i], log, last)
  <2>1. /\ tiers[i] = NewTier(i) /\ log = {}
        /\ tiers[i].len = 0 /\ tiers[i].acc = {}
    BY DEF Init, NewTier
  <2> QED BY <2>1 DEF TierHolds, Holds
<1>5. IsFiniteSet(log) BY FS_EmptySet DEF Init
<1>6. Trusted \subseteq Levels
  BY <1>3 DEF Trusted, TypeOK, Levels, Last
<1> QED BY <1>3, <1>4, <1>5, <1>6 DEF Inv, Init

LEMMA TrustedLevels == TypeOK => Trusted \subseteq Levels
BY TierShape DEF Trusted, TypeOK, Levels, Last

LEMMA RecordPreserves ==
  ASSUME Inv, NEW t \in Start..Horizon, NEW v \in Values, Record(t, v)
  PROVE  Inv'
<1> DEFINE s == [t |-> t, k |-> Cardinality({r \in log : r.t = t}), v |-> v]
<1>1. /\ t >= last /\ s \in Sample /\ log' = log \cup {s} /\ last' = t /\ floor' = floor
      /\ tiers' = [i \in Levels |-> IF i < floor THEN tiers[i] ELSE Push(i, tiers[i], s)]
  BY DEF Record
<1>s. s.t = t /\ s.k = Cardinality({r \in log : r.t = t}) OBVIOUS
<1> HIDE DEF s
<1>2. /\ \A i \in Levels : tiers[i] \in Tier(i)
      /\ floor \in Levels /\ log \subseteq Sample /\ last \in Start..Horizon
      /\ IsFiniteSet(log) /\ \A r \in log : r.t <= last
  BY DEF Inv, TypeOK
<1>3. TypeOK'
  <2>1. ASSUME NEW i \in Levels PROVE tiers'[i] \in Tier(i)
    BY <1>1, <1>2, PushType
  <2> QED BY <2>1, <1>1, <1>2 DEF TypeOK
<1>4. IsFiniteSet(log') BY <1>1, <1>2, FS_AddElement
<1>5. \A r \in log' : r.t <= last'
  <2>1. ASSUME NEW r \in log PROVE r.t <= t
    <3>1. r.t \in Nat /\ last \in Nat /\ t \in Nat BY <1>2, Bounds, BucketOfSample DEF Sample
    <3> QED BY <3>1, <1>1, <1>2
  <2>2. s.t <= t BY <1>s, Bounds
  <2> QED BY <2>1, <2>2, <1>1
<1>6. ASSUME NEW i \in Trusted' PROVE TierHolds(i, tiers'[i], log', last')
  <2>1. i \in Levels /\ i \in floor..Last /\ (Raw(i) => \A r \in log' : r.k = 0)
    BY <1>1, <1>2, TierShape DEF Trusted, Levels, Last, OneASecond
  <2>2. i \in Trusted BY <2>1, <1>1 DEF Trusted, OneASecond
  <2>3. TierHolds(i, tiers[i], log, last) BY <2>2 DEF Inv
  <2>4. ~(i < floor) BY <2>1, <1>2 DEF Levels
  <2>5. Raw(i) => \A r \in log : r.t # t
    <3> SUFFICES ASSUME Raw(i) PROVE \A r \in log : r.t # t OBVIOUS
    <3>1. Cardinality({r \in log : r.t = t}) = 0 BY <2>1, <1>1, <1>s
    <3>2. IsFiniteSet({r \in log : r.t = t}) BY <1>2, FS_Subset
    <3>3. {r \in log : r.t = t} = {} BY <3>1, <3>2, FS_EmptySet
    <3> QED BY <3>3
  <2>6. log # {} => last <= s.t /\ (Raw(i) => last < s.t)
    <3>1. last \in Nat /\ t \in Nat BY <1>2, Bounds
    <3>2. last <= s.t BY <1>1, <1>s, <3>1
    <3>3. CASE ~Raw(i) BY <3>2, <3>3
    <3>4. CASE Raw(i) /\ log # {}
      <4>1. \E r \in log : r.t = last BY <3>4 DEF Inv
      <4> QED BY <4>1, <2>5, <3>1, <3>2, <3>4, <1>s
    <3> QED BY <3>3, <3>4
  <2>7. TierHolds(i, Push(i, tiers[i], s), log \cup {s}, s.t)
    <3>1. tiers[i] \in Tier(i) /\ log \in SUBSET Sample /\ last \in Nat BY <2>1, <1>2, Bounds
    <3> QED BY <3>1, <2>1, <2>3, <2>6, <1>1, PushHolds
  <2> QED BY <2>1, <2>4, <2>7, <1>1, <1>s
<1>7. \E r \in log' : r.t = last' BY <1>1, <1>s
<1> QED BY <1>3, <1>4, <1>5, <1>6, <1>7 DEF Inv

LEMMA ShedPreserves == ASSUME Inv, Shed PROVE Inv'
<1>1. /\ floor < Last /\ floor' = floor + 1 /\ log' = log /\ last' = last
      /\ tiers' = [tiers EXCEPT ![floor] = NewTier(floor)]
  BY DEF Shed
<1>2. /\ tiers = [i \in Levels |-> tiers[i]] /\ \A i \in Levels : tiers[i] \in Tier(i)
      /\ floor \in Levels /\ log \subseteq Sample /\ last \in Start..Horizon
  BY DEF Inv, TypeOK
<1>3. \A i \in Levels : i # floor => tiers'[i] = tiers[i] BY <1>1, <1>2
<1>4. TypeOK'
  <2>1. tiers'[floor] \in Tier(floor) BY <1>1, <1>2, NewTierType
  <2>2. \A i \in Levels : tiers'[i] \in Tier(i) BY <2>1, <1>2, <1>3
  <2>3. tiers' = [i \in Levels |-> tiers'[i]] BY <1>1, <1>2
  <2>4. floor' \in Levels BY <1>1, <1>2, TierShape DEF Levels, Last
  <2> QED BY <2>2, <2>3, <2>4, <1>1, <1>2 DEF TypeOK
<1>5. ASSUME NEW i \in Trusted' PROVE TierHolds(i, tiers'[i], log', last')
  <2>1. i \in Trusted /\ i # floor
    BY <1>1, <1>2, TierShape DEF Trusted, OneASecond, Levels, Last
  <2>2. i \in Levels BY <2>1, TrustedLevels DEF Inv
  <2>3. TierHolds(i, tiers[i], log, last) BY <2>1 DEF Inv
  <2> QED BY <2>1, <2>2, <2>3, <1>1, <1>3
<1> QED BY <1>1, <1>4, <1>5 DEF Inv

LEMMA InvCorrect == Spec => []Inv
<1>1. Inv /\ [Next]_vars => Inv'
  <2> SUFFICES ASSUME Inv, [Next]_vars PROVE Inv' OBVIOUS
  <2>1. CASE Next BY <2>1, RecordPreserves, ShedPreserves DEF Next
  <2>2. CASE UNCHANGED vars
    <3>1. TypeOK' BY <2>2 DEF Inv, TypeOK, vars
    <3>2. Trusted' = Trusted BY <2>2 DEF Trusted, OneASecond, vars
    <3> QED BY <3>1, <3>2, <2>2 DEF Inv, vars
  <2> QED BY <2>1, <2>2
<1> QED BY <1>1, InitInv, PTL DEF Spec

\* Every ring stays within its buffers, whatever arrives and however long it
\* runs: no position reaches past the end (Tier::push, fill_gap, flush).
THEOREM HistoryTypeCorrect == Spec => []TypeOK
<1>1. Inv => TypeOK BY DEF Inv
<1> QED BY <1>1, InvCorrect, PTL

\* The time a point is given by its position is the time of its samples, for
\* every cascade and however long the host was away (Tier::range, fill_gap).
THEOREM PointsAreTrueCorrect == Spec => []PointsAreTrue
<1>1. Inv => PointsAreTrue
  <2> SUFFICES ASSUME Inv, NEW i \in Trusted, NEW p \in Points(i)
               PROVE  p.of = {s \in log : Bucket(i, s.t) * Tiers[i].interval = p.t}
    BY DEF PointsAreTrue
  <2>1. i \in Levels /\ TierHolds(i, tiers[i], log, last) /\ log \in SUBSET Sample
        /\ tiers[i] \in Tier(i)
    BY TrustedLevels DEF Inv, TypeOK
  <2>2. PICK c \in Nat : c > 0 /\ c = Tiers[i].cap BY <2>1, CapIsPositive
  <2>3. tiers[i].len \in 0..c /\ tiers[i].newest \in Nat /\ tiers[i].bucket \in Nat
    BY <2>1, <2>2, TierFields
  <2>4. PICK back \in 0..(tiers[i].len - 1) : p = At(i, tiers[i], back) BY DEF Points
  <2>5. PICK b \in Int : b = tiers[i].newest - back BY <2>3
  <2>6. PICK n \in Nat \ {0} : n = Tiers[i].interval BY <2>1, TierShape
  <2>7. p.t = b * n /\ p.of = tiers[i].slot[Pos(i, tiers[i], back)]
    BY <2>4, <2>5, <2>6 DEF At, Pos
  <2>8. p.of = InBucket(i, log \ tiers[i].acc, b)
    BY <2>1, <2>4, <2>5, <2>7 DEF TierHolds, Holds
  <2>9. ASSUME NEW s \in tiers[i].acc PROVE Bucket(i, s.t) # b
    <3>1. Bucket(i, s.t) = tiers[i].bucket /\ tiers[i].len > 0
      BY <2>1, <2>3, <2>4 DEF TierHolds
    <3>2. tiers[i].newest = tiers[i].bucket - 1 BY <3>1, <2>1 DEF TierHolds
    <3> QED BY <3>1, <3>2, <2>3, <2>4, <2>5
  <2>10. p.of = {s \in log : Bucket(i, s.t) = b} BY <2>8, <2>9 DEF InBucket
  <2>11. ASSUME NEW s \in log PROVE Bucket(i, s.t) = b <=> Bucket(i, s.t) * n = p.t
    <3>1. Bucket(i, s.t) \in Int BY <2>1, BucketOfSample
    <3> QED BY <3>1, <2>7, ScaleCancels
  <2> QED BY <2>6, <2>10, <2>11
<1> QED BY <1>1, InvCorrect, PTL

\* A ring forgets nothing within its span (flush, fill_gap, shed_finest).
THEOREM NothingLostCorrect == Spec => []NothingLost
<1>1. Inv => NothingLost
  <2> SUFFICES ASSUME Inv, NEW i \in Trusted, NEW s \in log \ tiers[i].acc,
                      Bucket(i, s.t) > tiers[i].newest - Tiers[i].cap
               PROVE  \E p \in Points(i) : s \in p.of
    BY DEF NothingLost
  <2>1. i \in Levels /\ TierHolds(i, tiers[i], log, last) /\ log \in SUBSET Sample
        /\ tiers[i] \in Tier(i)
    BY TrustedLevels DEF Inv, TypeOK
  <2>2. PICK c \in Nat : c > 0 /\ c = Tiers[i].cap BY <2>1, CapIsPositive
  <2>3. PICK len \in 0..c : len = tiers[i].len BY <2>1, <2>2, TierFields
  <2>4. PICK newest \in Nat : newest = tiers[i].newest BY <2>1, <2>2, TierFields
  <2>5. PICK b \in Nat : b = Bucket(i, s.t) BY <2>1, BucketOfSample
  <2>6. len # 0 /\ b <= newest /\ (len = c \/ b > newest - len)
    BY <2>1, <2>2, <2>3, <2>4, <2>5 DEF TierHolds, Holds
  <2>7. PICK back \in 0..(len - 1) : newest - back = b
    <3>1. newest - b \in 0..(len - 1) /\ newest - (newest - b) = b
      BY <2>2, <2>4, <2>5, <2>6
    <3> QED BY <3>1
  <2>8. PICK p : p = At(i, tiers[i], back) OBVIOUS
  <2>9. p.of = InBucket(i, log \ tiers[i].acc, b)
    <3>1. p.of = tiers[i].slot[Pos(i, tiers[i], back)] BY <2>8 DEF At, Pos
    <3> QED BY <3>1, <2>1, <2>3, <2>4, <2>7 DEF TierHolds, Holds
  <2>10. s \in p.of BY <2>5, <2>9 DEF InBucket
  <2> QED BY <2>3, <2>8, <2>10 DEF Points
<1> QED BY <1>1, InvCorrect, PTL

-----------------------------------------------------------------------------
(* Extremes. *)

LEMMA MinOfNats ==
  ASSUME NEW T \in SUBSET Nat, T # {}
  PROVE  Min(T) \in T /\ \A y \in T : Min(T) <= y
<1>1. PICK m \in T : \A y \in T : ~(<<y, m>> \in OpToRel(<, Nat))
  BY NatLessThanWellFounded, WFMin
<1>2. \A y \in T : m <= y
  <2> SUFFICES ASSUME NEW y \in T PROVE m <= y OBVIOUS
  <2>1. ~(y < m) BY <1>1 DEF OpToRel
  <2> QED BY <2>1
<1> QED BY <1>2 DEF Min

LEMMA MaxOfNats ==
  ASSUME NEW T \in SUBSET Nat, IsFiniteSet(T), T # {}
  PROVE  Max(T) \in T /\ \A y \in T : y <= Max(T)
<1> DEFINE Has(S) == \E m \in S : \A y \in S : y <= m
           Without == {S \in SUBSET T : S # {} /\ ~Has(S)}
<1>1. SUFFICES Has(T)
  <2>1. \E m \in T : \A y \in T : m >= y
    <3>1. PICK m \in T : \A y \in T : y <= m OBVIOUS
    <3>2. \A y \in T : m >= y BY <3>1
    <3> QED BY <3>2
  <2>2. Max(T) \in T /\ \A y \in T : Max(T) >= y BY <2>1 DEF Max
  <2> QED BY <2>2
<1>2. Without \subseteq FiniteSubsetsOf(T) BY FS_Subset DEF FiniteSubsetsOf
<1> HIDE DEF Has
<1>3. SUFFICES ASSUME Without # {} PROVE FALSE OBVIOUS
<1>4. PICK B \in Without : \A C \in Without : ~(<<C, B>> \in StrictSubsetOrdering(T))
  <2>1. IsWellFoundedOn(StrictSubsetOrdering(T), FiniteSubsetsOf(T))
    BY FS_StrictSubsetOrderingWellFounded
  <2> HIDE DEF Without
  <2> QED BY <1>2, <1>3, <2>1, WFMin
<1>5. PICK x \in B : TRUE OBVIOUS
<1>6. B \ {x} \notin Without
  <2>1. <<B \ {x}, B>> \in StrictSubsetOrdering(T) BY <1>5 DEF StrictSubsetOrdering
  <2> QED BY <1>4, <2>1
<1>7. CASE B = {x}
  <2>1. Has({x})
    <3>1. \A y \in {x} : y <= x BY <1>5
    <3> QED BY <3>1 DEF Has
  <2> QED BY <1>7, <2>1
<1>8. CASE B # {x}
  <2>1. Has(B \ {x}) BY <1>5, <1>6, <1>8
  <2>2. PICK m \in B \ {x} : \A y \in B \ {x} : y <= m BY <2>1 DEF Has
  <2>3. x \in Nat /\ m \in Nat BY <1>5, <2>2
  <2>4. CASE x <= m
    <3>1. \A y \in B : y <= m BY <2>2, <2>4
    <3> QED BY <3>1, <2>2 DEF Has
  <2>5. CASE m <= x
    <3>1. \A y \in B : y <= x
      <4> SUFFICES ASSUME NEW y \in B PROVE y <= x OBVIOUS
      <4>1. CASE y = x BY <4>1, <2>3
      <4>2. CASE y # x
        <5>1. y <= m /\ y \in Nat BY <4>2, <2>2
        <5> QED BY <5>1, <2>3, <2>5
      <4> QED BY <4>1, <4>2
    <3> QED BY <3>1, <1>5 DEF Has
  <2> QED BY <2>3, <2>4, <2>5
<1> QED BY <1>7, <1>8

LEMMA ValuesAreFew ==
  ASSUME NEW S \in SUBSET Sample, IsFiniteSet(S)
  PROVE  {s.v : s \in S} \in SUBSET Nat /\ IsFiniteSet({s.v : s \in S})
<1> DEFINE T == {s.v : s \in S}
           g == [s \in S |-> s.v]
<1>1. T \subseteq Nat BY Bounds DEF Sample
<1>2. g \in Surjection(S, T) BY DEF Surjection
<1> HIDE DEF T, g
<1>3. IsFiniteSet(T) BY <1>2, FS_Surjection
<1> QED BY <1>1, <1>3 DEF T

Point == [t : Int, min : Nat, max : Nat]
Covers(p, q) == p.min <= q.min /\ q.max <= p.max

\* What a point of a chart says of the bucket it stands for.
LEMMA ExtremesGive ==
  ASSUME NEW p, p.t \in Int, p.of \in SUBSET Sample, IsFiniteSet(p.of), p.of # {}
  PROVE  /\ Extremes(p) \in Point /\ Extremes(p).t = p.t
         /\ \A s \in p.of : Extremes(p).min <= s.v /\ s.v <= Extremes(p).max
<1> DEFINE values == {s.v : s \in p.of}
<1>1. values \in SUBSET Nat /\ IsFiniteSet(values) BY ValuesAreFew
<1>2. values # {} /\ \A s \in p.of : s.v \in values OBVIOUS
<1>3. Extremes(p) = [t |-> p.t, min |-> Min(values), max |-> Max(values)] BY DEF Extremes
<1> HIDE DEF values
<1>4. Min(values) \in Nat /\ \A y \in values : Min(values) <= y BY <1>1, <1>2, MinOfNats
<1>5. Max(values) \in Nat /\ \A y \in values : y <= Max(values) BY <1>1, <1>2, MaxOfNats
<1> QED BY <1>2, <1>3, <1>4, <1>5 DEF Point

-----------------------------------------------------------------------------
(* Tier::range and downsample. *)

\* Numbers from 0 to N are reached one by one.
LEMMA UpTo ==
  ASSUME NEW N \in Nat, NEW T \in SUBSET (0..N), 0 \in T, \A n \in T : n < N => n + 1 \in T
  PROVE  N \in T
<1>1. SUFFICES ASSUME (0..N) \ T # {} PROVE FALSE OBVIOUS
<1>2. PICK m \in (0..N) \ T : \A k \in (0..N) \ T : ~(<<k, m>> \in OpToRel(<, Nat))
  <2>1. (0..N) \ T \in SUBSET Nat OBVIOUS
  <2> QED BY <1>1, <2>1, NatLessThanWellFounded, WFMin
<1>3. m # 0 /\ m - 1 \in 0..N /\ m - 1 < m OBVIOUS
<1>4. m - 1 \in T
  <2>1. <<m - 1, m>> \in OpToRel(<, Nat) BY <1>3 DEF OpToRel
  <2> QED BY <1>2, <1>3, <2>1
<1>5. m - 1 < N /\ m - 1 + 1 = m OBVIOUS
<1> QED BY <1>4, <1>5

\* r goes through the points X, in order, and keeps those in W.
Keeps(r, N, X, W) ==
  /\ r[0] = <<>>
  /\ \A n \in 0..N : n < N =>
       r[n + 1] = IF n + 1 \in W THEN Append(r[n], X[n + 1]) ELSE r[n]
Ascending(q) == \A k, l \in 1..Len(q) : k <= l => q[k].t <= q[l].t

\* What is kept of the first n points, as a sequence q.
KeptOf(q, n, X, W) ==
  /\ q \in Seq(Point) /\ Ascending(q)
  /\ \A k \in 1..Len(q) : \E j \in 1..n : j \in W /\ q[k] = X[j]
  /\ \A j \in 1..n : j \in W => \E k \in 1..Len(q) : q[k] = X[j]

LEMMA KeepsStep ==
  ASSUME NEW N \in Nat, NEW W \in SUBSET (1..N), NEW X, \A j \in W : X[j] \in Point,
         \A j, k \in W : j <= k => X[j].t <= X[k].t,
         NEW n \in 0..N, n < N, NEW q, KeptOf(q, n, X, W), n + 1 \in W
  PROVE  KeptOf(Append(q, X[n + 1]), n + 1, X, W)
<1>1. PICK p \in Point : p = X[n + 1] OBVIOUS
<1>2. q \in Seq(Point) /\ Ascending(q) BY DEF KeptOf
<1>3. PICK u \in Seq(Point) : u = Append(q, p) BY <1>2, AppendProperties
<1>4. Len(q) \in Nat /\ Len(u) = Len(q) + 1 /\ u[Len(q) + 1] = p /\ \A k \in 1..Len(q) : u[k] = q[k]
  BY <1>2, <1>3, AppendProperties, LenProperties
<1>5. PICK m \in Nat : m = Len(q) BY <1>4
<1>6. \A k \in 1..m : \E j \in 1..n : j \in W /\ q[k] = X[j] BY <1>5 DEF KeptOf
<1>7. \A j \in 1..n : j \in W => \E k \in 1..m : q[k] = X[j] BY <1>5 DEF KeptOf
<1>8. ASSUME NEW k \in 1..m PROVE q[k].t <= p.t
  <2>1. PICK j \in 1..n : j \in W /\ q[k] = X[j] BY <1>6
  <2>2. j <= n + 1 OBVIOUS
  <2> QED BY <2>1, <2>2, <1>1
<1>9. ASSUME NEW k \in 1..(m + 1), NEW l \in 1..(m + 1), k <= l PROVE u[k].t <= u[l].t
  <2>1. p.t <= p.t BY <1>1 DEF Point
  <2>2. CASE l \in 1..m
    <3>1. k \in 1..m BY <1>9, <2>2
    <3>2. q[k].t <= q[l].t BY <1>2, <1>5, <1>9, <2>2, <3>1 DEF Ascending
    <3> QED BY <1>4, <1>5, <2>2, <3>1, <3>2
  <2>3. CASE l = m + 1 /\ k \in 1..m BY <1>4, <1>5, <1>8, <2>3
  <2>4. CASE l = m + 1 /\ k = m + 1 BY <1>4, <1>5, <2>1, <2>4
  <2> QED BY <2>2, <2>3, <2>4
<1>10. ASSUME NEW k \in 1..(m + 1) PROVE \E j \in 1..(n + 1) : j \in W /\ u[k] = X[j]
  <2>1. CASE k \in 1..m
    <3>1. PICK j \in 1..n : j \in W /\ q[k] = X[j] BY <1>6, <2>1
    <3>2. j \in 1..(n + 1) OBVIOUS
    <3> QED BY <1>4, <1>5, <2>1, <3>1, <3>2
  <2>2. CASE k = m + 1
    <3>1. n + 1 \in 1..(n + 1) OBVIOUS
    <3> QED BY <1>1, <1>4, <1>5, <2>2, <3>1
  <2> QED BY <2>1, <2>2
<1>11. ASSUME NEW j \in 1..(n + 1), j \in W PROVE \E k \in 1..(m + 1) : u[k] = X[j]
  <2>1. CASE j \in 1..n
    <3>1. PICK k \in 1..m : q[k] = X[j] BY <1>7, <1>11, <2>1
    <3>2. k \in 1..(m + 1) OBVIOUS
    <3> QED BY <1>4, <1>5, <3>1, <3>2
  <2>2. CASE j = n + 1
    <3>1. m + 1 \in 1..(m + 1) OBVIOUS
    <3> QED BY <1>1, <1>4, <1>5, <2>2, <3>1
  <2> QED BY <2>1, <2>2
<1>12. Len(u) = m + 1 BY <1>4, <1>5
<1>13. Ascending(u) BY <1>9, <1>12 DEF Ascending
<1> QED BY <1>1, <1>3, <1>10, <1>11, <1>12, <1>13 DEF KeptOf

LEMMA KeepsAll ==
  ASSUME NEW N \in Nat, NEW W \in SUBSET (1..N), NEW X, \A j \in W : X[j] \in Point,
         \A j, k \in W : j <= k => X[j].t <= X[k].t,
         NEW r, Keeps(r, N, X, W)
  PROVE  KeptOf(r[N], N, X, W)
<1> DEFINE T == {n \in 0..N : KeptOf(r[n], n, X, W)}
<1>1. 0 \in T
  <2>1. PICK e \in Seq(Point) : e = <<>> BY EmptySeq
  <2>2. Len(e) = 0 BY <2>1
  <2>3. 1..0 = {} OBVIOUS
  <2>4. KeptOf(e, 0, X, W) BY <2>2, <2>3 DEF KeptOf, Ascending
  <2>5. r[0] = e BY <2>1 DEF Keeps
  <2> QED BY <2>4, <2>5
<1>2. ASSUME NEW n \in T, n < N PROVE n + 1 \in T
  <2>1. n \in 0..N /\ n + 1 \in 0..N BY <1>2
  <2>2. r[n + 1] = IF n + 1 \in W THEN Append(r[n], X[n + 1]) ELSE r[n] BY <1>2, <2>1 DEF Keeps
  <2>3. CASE n + 1 \in W
    <3>1. KeptOf(Append(r[n], X[n + 1]), n + 1, X, W) BY <1>2, <2>1, <2>3, KeepsStep
    <3> QED BY <2>1, <2>2, <2>3, <3>1
  <2>4. CASE n + 1 \notin W
    <3>1. KeptOf(r[n], n, X, W) BY <1>2
    <3>2. \A j \in 1..n : j \in 1..(n + 1) BY <2>1
    <3>3. \A j \in 1..(n + 1) : j \in W => j \in 1..n
      <4> SUFFICES ASSUME NEW j \in 1..(n + 1), j # n + 1 PROVE j \in 1..n BY <2>4
      <4> QED BY <2>1
    <3>4. KeptOf(r[n], n + 1, X, W) BY <3>1, <3>2, <3>3, Zenon DEF KeptOf
    <3> QED BY <2>1, <2>2, <2>4, <3>4
  <2> QED BY <2>3, <2>4
<1>3. T \in SUBSET (0..N) OBVIOUS
<1> HIDE DEF T
<1>4. N \in T BY <1>1, <1>2, <1>3, UpTo
<1> QED BY <1>4 DEF T

\* The pass over the ring, as a function of how many points it has seen.
PassStep(r, j, X, W) ==
  IF j = 0 THEN <<>> ELSE IF j \in W THEN Append(r[j - 1], X[j]) ELSE r[j - 1]
IsPass(r, N, X, W) == r = [j \in 0..N |-> PassStep(r, j, X, W)]

LEMMA PassExists ==
  ASSUME NEW N \in Nat, NEW X, NEW W
  PROVE  \E r : IsPass(r, N, X, W)
<1> DEFINE T == {n \in 0..N : \E r : r = [j \in 0..n |-> PassStep(r, j, X, W)]}
<1>1. 0 \in T
  <2> DEFINE r == [j \in 0..0 |-> <<>>]
  <2>1. \A j \in 0..0 : PassStep(r, j, X, W) = <<>> BY DEF PassStep
  <2>2. r = [j \in 0..0 |-> PassStep(r, j, X, W)] BY <2>1
  <2> QED BY <2>2
<1>2. ASSUME NEW n \in T, n < N PROVE n + 1 \in T
  <2>1. n \in 0..N /\ n + 1 \in 0..N BY <1>2
  <2>2. PICK r : r = [j \in 0..n |-> PassStep(r, j, X, W)] OBVIOUS
  <2> DEFINE u == [j \in 0..(n + 1) |-> IF j = n + 1 THEN PassStep(r, j, X, W) ELSE r[j]]
  <2>3. ASSUME NEW j \in 0..(n + 1) PROVE u[j] = PassStep(u, j, X, W)
    <3>1. j # 0 => u[j - 1] = r[j - 1]
      <4>1. j # 0 => j - 1 \in 0..(n + 1) /\ j - 1 # n + 1 BY <2>1
      <4> QED BY <4>1
    <3>2. PassStep(u, j, X, W) = PassStep(r, j, X, W) BY <3>1 DEF PassStep
    <3>3. CASE j = n + 1 BY <3>2, <3>3
    <3>4. CASE j # n + 1
      <4>1. j \in 0..n BY <2>1, <3>4
      <4>2. r[j] = PassStep(r, j, X, W)
        <5> DEFINE V(k) == PassStep(r, k, X, W)
        <5>1. r = [k \in 0..n |-> V(k)] BY <2>2
        <5> HIDE DEF V
        <5>2. r[j] = V(j) BY <4>1, <5>1
        <5> QED BY <5>2 DEF V
      <4> QED BY <3>2, <3>4, <4>2
    <3> QED BY <3>3, <3>4
  <2>4. u = [j \in 0..(n + 1) |-> u[j]] OBVIOUS
  <2> HIDE DEF u
  <2>5. u = [j \in 0..(n + 1) |-> PassStep(u, j, X, W)] BY <2>3, <2>4
  <2> QED BY <2>1, <2>5
<1>3. T \in SUBSET (0..N) OBVIOUS
<1> HIDE DEF T
<1>4. N \in T BY <1>1, <1>2, <1>3, UpTo
<1> QED BY <1>4 DEF T, IsPass

\* The buckets of a ring from the oldest one, and those a window wants.
Nth(i, j) == At(i, tiers[i], tiers[i].len - j)
Charted(i) == [j \in 1..tiers[i].len |-> Extremes(Nth(i, j))]
Wanted(i, from, to) ==
  {j \in 1..tiers[i].len : from <= Nth(i, j).t /\ Nth(i, j).t <= to /\ Nth(i, j).of # {}}

LEMMA PointsWithinIsAPass ==
  ASSUME NEW i, tiers[i].len \in Nat, NEW from, NEW to
  PROVE  \E r : /\ Keeps(r, tiers[i].len, Charted(i), Wanted(i, from, to))
                /\ PointsWithin(i, from, to) = r[tiers[i].len]
<1> DEFINE N == tiers[i].len
           X == Charted(i)
           W == Wanted(i, from, to)
           Body(r, j) ==
             IF j = 0 THEN <<>>
             ELSE IF from <= Nth(i, j).t /\ Nth(i, j).t <= to /\ Nth(i, j).of # {}
                  THEN Append(r[j - 1], Extremes(Nth(i, j)))
                  ELSE r[j - 1]
           r == CHOOSE g : g = [j \in 0..N |-> Body(g, j)]
<1>1. PointsWithin(i, from, to) = r[N] BY DEF PointsWithin, Nth
<1>2. ASSUME NEW g, NEW j \in 0..N PROVE Body(g, j) = PassStep(g, j, X, W)
  <2>1. CASE j = 0 BY <2>1 DEF PassStep
  <2>2. CASE j # 0
    <3>1. j \in 1..N BY <2>2
    <3>2. X[j] = Extremes(Nth(i, j)) BY <3>1 DEF Charted
    <3>3. j \in W <=> from <= Nth(i, j).t /\ Nth(i, j).t <= to /\ Nth(i, j).of # {}
      BY <3>1 DEF Wanted
    <3> HIDE DEF X, W
    <3> QED BY <2>2, <3>2, <3>3 DEF PassStep
  <2> QED BY <2>1, <2>2
<1> HIDE DEF Body, X, W, N
<1>3. N \in Nat BY DEF N
<1>4. \E g : g = [j \in 0..N |-> Body(g, j)]
  <2>1. PICK g : g = [j \in 0..N |-> PassStep(g, j, X, W)]
    <3>1. \E g : IsPass(g, N, X, W) BY <1>3, PassExists
    <3> QED BY <3>1 DEF IsPass
  <2>2. g = [j \in 0..N |-> Body(g, j)] BY <1>2, <2>1
  <2> QED BY <2>2
<1>5. r = [j \in 0..N |-> Body(r, j)] BY <1>4
<1> HIDE DEF r
<1>6. ASSUME NEW j \in 0..N PROVE r[j] = PassStep(r, j, X, W)
  <2> DEFINE V(k) == Body(r, k)
  <2>1. r = [k \in 0..N |-> V(k)] BY <1>5
  <2> HIDE DEF V
  <2>2. r[j] = V(j) BY <2>1
  <2> QED BY <1>2, <2>2 DEF V
<1>7. r[0] = <<>> BY <1>3, <1>6 DEF PassStep
<1>8. ASSUME NEW n \in 0..N, n < N
      PROVE  r[n + 1] = IF n + 1 \in W THEN Append(r[n], X[n + 1]) ELSE r[n]
  <2>1. n + 1 \in 0..N /\ n + 1 # 0 /\ n + 1 - 1 = n BY <1>3, <1>8
  <2> QED BY <1>6, <2>1 DEF PassStep
<1>9. Keeps(r, N, X, W) BY <1>7, <1>8 DEF Keeps
<1> QED BY <1>1, <1>9 DEF N, X, W

LEMMA Divided ==
  ASSUME NEW n \in Nat, NEW d \in Nat \ {0}
  PROVE  n \div d \in Nat /\ d * (n \div d) <= n /\ n < d * (n \div d) + d
BY SMT

\* A product grows with its second factor.
LEMMA TimesMonotone ==
  ASSUME NEW m \in Nat, NEW x \in Int, NEW y \in Int, x <= y
  PROVE  m * x <= m * y
<1>1. PICK d \in Nat : y = x + d
  <2>1. y - x \in Nat /\ y = x + (y - x) OBVIOUS
  <2> QED BY <2>1
<1>2. m * d >= 0 OBVIOUS
<1>3. m * y = m * x + m * d BY <1>1
<1> QED BY <1>2, <1>3

\* Chunks of equal length: which one has the j-th of n, and how many there are.
LEMMA Chunks ==
  ASSUME NEW n \in Nat, NEW max \in Nat, 0 < max, max < n,
         NEW chunk, chunk = (n + max - 1) \div max,
         NEW count, count = (n + chunk - 1) \div chunk
  PROVE  /\ chunk \in Nat \ {0} /\ count \in Nat /\ count <= max
         /\ \A j \in 1..n : \E c \in 1..count : (c - 1) * chunk < j /\ j <= c * chunk
<1>1. chunk \in Nat /\ n <= max * chunk
  <2>1. n + max - 1 \in Nat OBVIOUS
  <2>2. chunk \in Nat /\ n + max - 1 < max * chunk + max BY <2>1, Divided
  <2>3. PICK z \in Nat : z = max * chunk BY <2>2
  <2> QED BY <2>2, <2>3
<1>2. chunk # 0
  <2> SUFFICES ASSUME chunk = 0 PROVE FALSE OBVIOUS
  <2>1. max * chunk = 0 OBVIOUS
  <2> QED BY <1>1, <2>1
<1>3. n + chunk - 1 \in Nat BY <1>1
<1>4. count \in Nat /\ chunk * count <= n + chunk - 1 /\ n + chunk - 1 < chunk * count + chunk
  BY <1>1, <1>2, <1>3, Divided
<1>5. PICK z \in Nat : z = chunk * count BY <1>1, <1>4
<1>6. count <= max
  <2> SUFFICES ASSUME max + 1 <= count PROVE FALSE BY <1>4
  <2>1. chunk * (max + 1) <= chunk * count BY <1>1, <1>4, TimesMonotone
  <2>2. chunk * (max + 1) = max * chunk + chunk BY <1>1
  <2>3. PICK y \in Nat : y = max * chunk BY <1>1
  <2> QED BY <1>1, <1>4, <1>5, <2>1, <2>2, <2>3
<1>7. ASSUME NEW j \in 1..n PROVE \E c \in 1..count : (c - 1) * chunk < j /\ j <= c * chunk
  <2>1. j - 1 \in Nat OBVIOUS
  <2>2. PICK q : q = (j - 1) \div chunk OBVIOUS
  <2>3. q \in Nat /\ chunk * q <= j - 1 /\ j - 1 < chunk * q + chunk
    BY <1>1, <1>2, <2>1, <2>2, Divided
  <2>4. (q + 1 - 1) * chunk = chunk * q /\ (q + 1) * chunk = chunk * q + chunk BY <1>1, <2>3
  <2>5. PICK y \in Nat : y = chunk * q BY <1>1, <2>3
  <2>6. (q + 1 - 1) * chunk < j /\ j <= (q + 1) * chunk BY <1>1, <2>3, <2>4, <2>5
  <2>7. q + 1 <= count
    <3> SUFFICES ASSUME count <= q PROVE FALSE BY <1>4, <2>3
    <3>1. chunk * count <= chunk * q BY <1>1, <1>4, <2>3, TimesMonotone
    <3> QED BY <1>1, <1>3, <1>4, <1>5, <2>3, <2>5, <3>1
  <2> QED BY <2>3, <2>6, <2>7
<1> QED BY <1>1, <1>2, <1>4, <1>6, <1>7

\* Whatever a chunk has, its point covers; and it bears the first one's time.
LEMMA DownsampleCovers ==
  ASSUME NEW pts \in Seq(Point), Ascending(pts), NEW max \in Nat, NEW D, D = Downsample(pts, max)
  PROVE  /\ max > 0 => Len(D) <= max
         /\ \A j \in 1..Len(pts) : \E c \in 1..Len(D) :
              D[c].min \in Nat /\ D[c].max \in Nat /\ D[c].t <= pts[j].t /\ Covers(D[c], pts[j])
<1> DEFINE n == Len(pts)
<1>1. n \in Nat BY LenProperties
<1>2. \A k \in 1..n : pts[k] \in Point BY ElementOfSeq
<1>3. CASE max = 0 \/ n <= max
  <2>1. D = pts BY <1>1, <1>3 DEF Downsample
  <2>2. ASSUME NEW j \in 1..n PROVE  /\ pts[j].min \in Nat /\ pts[j].max \in Nat
               /\ pts[j].t <= pts[j].t /\ Covers(pts[j], pts[j])
    BY <1>2 DEF Covers, Point
  <2> QED BY <1>1, <1>3, <2>1, <2>2
<1>4. CASE 0 < max /\ max < n
  <2> DEFINE chunk == (n + max - 1) \div max
             count == (n + chunk - 1) \div chunk
             within(c) == {k \in 1..n : (c - 1) * chunk < k /\ k <= c * chunk}
             P(c) == [t |-> pts[(c - 1) * chunk + 1].t,
                      min |-> Min({pts[k].min : k \in within(c)}),
                      max |-> Max({pts[k].max : k \in within(c)})]
  <2>1. D = [c \in 1..count |-> P(c)]
    <3>1. ~(max = 0 \/ Len(pts) <= max) BY <1>1, <1>4
    <3> QED BY <3>1 DEF Downsample
  <2>2. /\ chunk \in Nat \ {0} /\ count \in Nat /\ count <= max
        /\ \A j \in 1..n : \E c \in 1..count : (c - 1) * chunk < j /\ j <= c * chunk
    <3> HIDE DEF n
    <3>1. PICK x : x = (n + max - 1) \div max OBVIOUS
    <3>2. PICK y : y = (n + x - 1) \div x OBVIOUS
    <3>3. /\ x \in Nat \ {0} /\ y \in Nat /\ y <= max
          /\ \A j \in 1..n : \E c \in 1..y : (c - 1) * x < j /\ j <= c * x
      BY <1>1, <1>4, <3>1, <3>2, Chunks, ZenonT(40)
    <3> QED BY <3>1, <3>2, <3>3
  <2> HIDE DEF chunk, count, P
  <2>3. Len(D) = count BY <2>1, <2>2
  <2>4. ASSUME NEW j \in 1..n
        PROVE  \E c \in 1..count :
                 D[c].min \in Nat /\ D[c].max \in Nat /\ D[c].t <= pts[j].t /\ Covers(D[c], pts[j])
    <3>1. PICK c \in 1..count : (c - 1) * chunk < j /\ j <= c * chunk BY <2>2
    <3>2. D[c] = P(c) BY <2>1
    <3>3. j \in within(c) BY <3>1
    <3> DEFINE mins == {pts[k].min : k \in within(c)}
               maxs == {pts[k].max : k \in within(c)}
    <3>4. mins \in SUBSET Nat /\ pts[j].min \in mins BY <1>2, <3>3 DEF Point
    <3>5. maxs \in SUBSET Nat /\ pts[j].max \in maxs BY <1>2, <3>3 DEF Point
    <3>6. IsFiniteSet(maxs)
      <4> DEFINE S == within(c)
                 g == [k \in S |-> pts[k].max]
      <4>1. S \subseteq 1..n OBVIOUS
      <4> HIDE DEF within
      <4>2. g \in Surjection(S, maxs) BY DEF Surjection
      <4> HIDE DEF S, g, maxs
      <4>3. IsFiniteSet(1..n) BY FS_Interval
      <4>4. IsFiniteSet(S) BY <4>1, <4>3, FS_Subset
      <4> QED BY <4>2, <4>4, FS_Surjection
    <3> HIDE DEF mins, maxs
    <3>7. Min(mins) \in Nat /\ Min(mins) <= pts[j].min BY <3>4, MinOfNats
    <3>8. Max(maxs) \in Nat /\ pts[j].max <= Max(maxs) BY <3>5, <3>6, MaxOfNats
    <3>9. P(c).min \in Nat /\ P(c).max \in Nat /\ Covers(P(c), pts[j]) BY <3>7, <3>8 DEF Covers, P, mins, maxs
    <3>10. P(c).t <= pts[j].t
      <4>1. PICK x \in Nat : x = (c - 1) * chunk
        <5>1. c - 1 \in Nat BY <2>2
        <5> QED BY <2>2, <5>1
      <4>2. x + 1 \in 1..n /\ x + 1 <= j BY <3>1, <4>1
      <4>3. pts[x + 1].t <= pts[j].t BY <1>1, <4>2 DEF Ascending
      <4> QED BY <4>1, <4>3 DEF P
    <3> QED BY <3>2, <3>9, <3>10
  <2> QED BY <1>1, <1>4, <2>2, <2>3, <2>4
<1> QED BY <1>1, <1>3, <1>4

-----------------------------------------------------------------------------
(* What is in the rings was recorded. *)

Recorded(i, T, L) == (\A k \in Ring(i) : T.slot[k] \subseteq L) /\ T.acc \subseteq L

LEMMA RecordedFlush ==
  ASSUME NEW i \in Levels, NEW T \in Tier(i), NEW L, Recorded(i, T, L)
  PROVE  Recorded(i, Flush(i, T), L)
<1>1. CASE T.acc = {} BY <1>1 DEF Flush
<1>2. CASE T.acc # {}
  <2>1. PICK U : U = Flush(i, T) OBVIOUS
  <2>2. U.slot = [T.slot EXCEPT ![T.head] = T.acc] /\ U.acc = {} BY <1>2, <2>1 DEF Flush, Tier
  <2>3. T.slot \in [Ring(i) -> SUBSET Sample] BY DEF Tier
  <2>4. \A k \in Ring(i) : U.slot[k] = T.slot[k] \/ U.slot[k] = T.acc BY <2>2, <2>3
  <2> QED BY <2>1, <2>2, <2>4 DEF Recorded
<1> QED BY <1>1, <1>2

LEMMA RecordedGap ==
  ASSUME NEW i \in Levels, NEW T \in Tier(i), NEW L, Recorded(i, T, L), NEW upto
  PROVE  Recorded(i, FillGap(i, T, upto), L)
<1> DEFINE missed == upto - T.newest - 1
           n == Held(i, missed)
           gone == NextSlots(i, T.head, n)
<1>1. CASE T.len = 0 \/ missed <= 0
  <2>1. FillGap(i, T, upto) = T BY <1>1 DEF FillGap
  <2> QED BY <2>1
<1>2. CASE ~(T.len = 0 \/ missed <= 0)
  <2>1. PICK U : U = FillGap(i, T, upto) OBVIOUS
  <2>2. U = [T EXCEPT !.slot = [j \in Ring(i) |-> IF j \in gone THEN {} ELSE T.slot[j]],
                      !.head = Wrap(i, T.head + n), !.len = Held(i, T.len + n),
                      !.newest = upto - 1]
    BY <1>2, <2>1 DEF FillGap
  <2> HIDE DEF n, gone
  <2>3. U.slot = [j \in Ring(i) |-> IF j \in gone THEN {} ELSE T.slot[j]] /\ U.acc = T.acc
    BY <2>2 DEF Tier
  <2>4. \A k \in Ring(i) : U.slot[k] = {} \/ U.slot[k] = T.slot[k] BY <2>3
  <2> QED BY <2>1, <2>3, <2>4 DEF Recorded
<1> QED BY <1>1, <1>2

LEMMA RecordedPush ==
  ASSUME NEW i \in Levels, NEW T \in Tier(i), NEW L, Recorded(i, T, L), NEW s \in Sample
  PROVE  Recorded(i, Push(i, T, s), L \cup {s})
<1>b. PICK b \in Nat : b = Bucket(i, s.t) BY BucketOfSample
<1>1. PICK closed \in Tier(i) : closed = IF b # T.bucket THEN Flush(i, T) ELSE T
  BY FlushType
<1>2. Recorded(i, closed, L) BY <1>1, RecordedFlush
<1>3. PICK gap \in Tier(i) : gap = FillGap(i, closed, b) BY FillGapType
<1>4. Recorded(i, gap, L) BY <1>2, <1>3, RecordedGap
<1>5. [gap EXCEPT !.bucket = b] \in Tier(i) BY DEF Tier
<1>6. PICK open \in Tier(i) :
         open = IF closed.acc = {} THEN [gap EXCEPT !.bucket = b] ELSE closed
  BY <1>5
<1>7. Recorded(i, open, L)
  <2>1. [gap EXCEPT !.bucket = b].slot = gap.slot /\ [gap EXCEPT !.bucket = b].acc = gap.acc
    BY DEF Tier
  <2>2. Recorded(i, [gap EXCEPT !.bucket = b], L) BY <1>4, <2>1 DEF Recorded
  <2> QED BY <1>2, <1>6, <2>2
<1>8. PICK added \in Tier(i) : added = [open EXCEPT !.acc = @ \cup {s}] BY DEF Tier
<1>9. added.slot = open.slot /\ added.acc = open.acc \cup {s} BY <1>8 DEF Tier
<1>10. Recorded(i, added, L \cup {s}) BY <1>7, <1>9 DEF Recorded
<1>11. Push(i, T, s) = IF Raw(i) THEN Flush(i, added) ELSE added
  BY <1>b, <1>1, <1>3, <1>6, <1>8 DEF Push
<1> QED BY <1>10, <1>11, RecordedFlush

AllRecorded == \A i \in Levels : Recorded(i, tiers[i], log)

LEMMA NewTierRecorded ==
  ASSUME NEW i, NEW L PROVE Recorded(i, NewTier(i), L)
<1>1. PICK U : U = NewTier(i) OBVIOUS
<1>2. U.acc = {} /\ \A k \in Ring(i) : U.slot[k] = {} BY <1>1 DEF NewTier
<1> QED BY <1>1, <1>2 DEF Recorded

LEMMA AllRecordedCorrect == Spec => []AllRecorded
<1>1. Init => AllRecorded
  <2> SUFFICES ASSUME Init, NEW i \in Levels PROVE Recorded(i, tiers[i], log) BY DEF AllRecorded
  <2>1. tiers[i] = NewTier(i) BY DEF Init
  <2> QED BY <2>1, NewTierRecorded
<1>2. Inv /\ AllRecorded /\ [Next]_vars => AllRecorded'
  <2> SUFFICES ASSUME Inv, AllRecorded, [Next]_vars, NEW i \in Levels
               PROVE  Recorded(i, tiers'[i], log')
    BY DEF AllRecorded
  <2>1. tiers[i] \in Tier(i) /\ Recorded(i, tiers[i], log) BY DEF Inv, TypeOK, AllRecorded
  <2>2. ASSUME NEW t \in Start..Horizon, NEW v \in Values, Record(t, v)
        PROVE  Recorded(i, tiers'[i], log')
    <3>1. PICK s \in Sample : /\ log' = log \cup {s}
                              /\ tiers' = [k \in Levels |-> IF k < floor THEN tiers[k]
                                                            ELSE Push(k, tiers[k], s)]
      BY <2>2 DEF Record
    <3>2. tiers'[i] = IF i < floor THEN tiers[i] ELSE Push(i, tiers[i], s) BY <3>1
    <3>3. Recorded(i, tiers[i], log \cup {s}) BY <2>1 DEF Recorded
    <3>4. Recorded(i, Push(i, tiers[i], s), log \cup {s}) BY <2>1, RecordedPush
    <3> QED BY <3>1, <3>2, <3>3, <3>4
  <2>3. CASE Shed
    <3>1. log' = log /\ tiers' = [tiers EXCEPT ![floor] = NewTier(floor)] BY <2>3 DEF Shed
    <3>2. tiers = [k \in Levels |-> tiers[k]] BY DEF Inv, TypeOK
    <3>3. tiers'[i] = IF i = floor THEN NewTier(i) ELSE tiers[i] BY <3>1, <3>2
    <3> QED BY <2>1, <3>1, <3>3, NewTierRecorded
  <2>4. CASE UNCHANGED vars BY <2>1, <2>4 DEF vars
  <2> QED BY <2>2, <2>3, <2>4 DEF Next
<1> QED BY <1>1, <1>2, InvCorrect, PTL DEF Spec

LEMMA PosInRing ==
  ASSUME NEW i \in Levels, NEW T \in Tier(i), NEW back \in 0..(Tiers[i].cap - 1)
  PROVE  Pos(i, T, back) \in Ring(i)
<1>c. PICK c \in Nat : c > 0 /\ c = Tiers[i].cap BY CapIsPositive
<1>h. PICK h \in 0..(c - 1) : h = T.head BY <1>c, TierFields
<1> QED BY <1>c, <1>h DEF Pos, Wrap, Ring

LEMMA AnswersAreLevels ==
  ASSUME TypeOK, NEW from PROVE Answering(from) \in Levels
<1> DEFINE spanning == {i \in floor..Last : tiers[i].len > 0 /\ Oldest(i) <= from}
<1>1. floor \in Levels /\ Len(Tiers) \in Nat \ {0} BY TierShape DEF TypeOK
<1>2. floor..Last \subseteq Levels /\ Last \in Levels BY <1>1 DEF Levels, Last
<1>3. spanning \subseteq Levels BY <1>2
<1>4. Answering(from) = IF spanning = {} THEN Last ELSE Min(spanning) BY DEF Answering
<1> HIDE DEF spanning
<1>5. spanning # {} => Min(spanning) \in spanning
  <2>1. spanning \in SUBSET Nat BY <1>3 DEF Levels
  <2> QED BY <2>1, MinOfNats
<1> QED BY <1>2, <1>3, <1>4, <1>5

\* The buckets of a ring, oldest first: each has a time, and they ascend.
LEMMA RingAscends ==
  ASSUME Inv, AllRecorded, NEW i \in Levels, NEW N, N = tiers[i].len
  PROVE  /\ N \in Nat
         /\ \A j \in 1..N : /\ Nth(i, j).t \in Int /\ Nth(i, j).of \in SUBSET Sample
                            /\ IsFiniteSet(Nth(i, j).of)
         /\ \A j, k \in 1..N : j <= k => Nth(i, j).t <= Nth(i, k).t
<1>1. tiers[i] \in Tier(i) /\ Recorded(i, tiers[i], log) /\ log \in SUBSET Sample /\ IsFiniteSet(log)
  BY DEF Inv, TypeOK, AllRecorded
<1>2. PICK c \in Nat : c > 0 /\ c = Tiers[i].cap BY CapIsPositive
<1>3. N \in 0..c BY <1>1, <1>2, TierFields
<1>4. PICK newest \in Nat : newest = tiers[i].newest BY <1>1, <1>2, TierFields
<1>5. PICK n \in Nat : n = Tiers[i].interval BY TierShape
<1>6. \A j \in 1..N : Nth(i, j).t = (newest - (N - j)) * n BY <1>4, <1>5 DEF Nth, At
<1>7. ASSUME NEW j \in 1..N PROVE Nth(i, j).of \in SUBSET log
  <2>1. N - j \in 0..(c - 1) BY <1>3
  <2>2. Nth(i, j).of = tiers[i].slot[Pos(i, tiers[i], N - j)] BY DEF Nth, At, Pos
  <2>3. Pos(i, tiers[i], N - j) \in Ring(i) BY <1>1, <1>2, <2>1, PosInRing
  <2> QED BY <1>1, <2>2, <2>3 DEF Recorded
<1>8. \A j \in 1..N : IsFiniteSet(Nth(i, j).of) BY <1>1, <1>7, FS_Subset
<1>9. ASSUME NEW j \in 1..N, NEW k \in 1..N, j <= k PROVE Nth(i, j).t <= Nth(i, k).t
  <2>1. PICK x \in Int : x = newest - (N - j) BY <1>3
  <2>2. PICK y \in Int : y = newest - (N - k) BY <1>3
  <2>3. x <= y BY <1>3, <1>9, <2>1, <2>2
  <2>4. n * x <= n * y BY <2>3, TimesMonotone
  <2>5. n * x = x * n /\ n * y = y * n OBVIOUS
  <2> QED BY <1>6, <2>1, <2>2, <2>4, <2>5
<1>10. \A j \in 1..N : Nth(i, j).t \in Int BY <1>3, <1>6
<1> QED BY <1>1, <1>3, <1>7, <1>8, <1>9, <1>10

\* A chart of any window, with any number of points, shows every extreme that
\* the answering tier still holds, and no more points than it asked for
\* (Tier::range, downsample, Series::query).
THEOREM SpikesSurviveCorrect == Spec => []SpikesSurvive
<1>1. Inv /\ AllRecorded => SpikesSurvive
  <2> SUFFICES ASSUME Inv, AllRecorded, NEW from \in Start..Horizon, NEW to \in Start..Horizon,
                      NEW max \in Budgets
      PROVE  LET i == Answering(from)
                 answer == Query(from, to, max)
             IN /\ max > 0 => Len(answer) <= max
                /\ \A p \in Points(i) : from <= p.t /\ p.t <= to =>
                     \A s \in p.of : \E c \in 1..Len(answer) :
                       answer[c].t <= p.t /\ answer[c].min <= s.v /\ s.v <= answer[c].max
    BY DEF SpikesSurvive
  <2>1. PICK i \in Levels : i = Answering(from) BY AnswersAreLevels DEF Inv
  <2>2. PICK N \in Nat : N = tiers[i].len BY RingAscends
  <2>3. \A j \in 1..N : /\ Nth(i, j).t \in Int /\ Nth(i, j).of \in SUBSET Sample
                        /\ IsFiniteSet(Nth(i, j).of)
    BY <2>2, RingAscends
  <2>4. \A j, k \in 1..N : j <= k => Nth(i, j).t <= Nth(i, k).t BY <2>2, RingAscends
  <2>5. PICK W : W = Wanted(i, from, to) OBVIOUS
  <2>6. PICK X : X = Charted(i) OBVIOUS
  <2>7. \A j \in 1..N : j \in W <=> from <= Nth(i, j).t /\ Nth(i, j).t <= to /\ Nth(i, j).of # {}
    BY <2>2, <2>5 DEF Wanted
  <2>8. W \in SUBSET (1..N) BY <2>2, <2>5 DEF Wanted
  <2>9. \A j \in 1..N : X[j] = Extremes(Nth(i, j)) BY <2>2, <2>6 DEF Charted
  <2>10. ASSUME NEW j \in W
         PROVE  /\ X[j] \in Point /\ X[j].t = Nth(i, j).t
                /\ \A s \in Nth(i, j).of : X[j].min <= s.v /\ s.v <= X[j].max
    <3>1. j \in 1..N BY <2>8
    <3>2. PICK p : p = Nth(i, j) OBVIOUS
    <3>3. p.t \in Int /\ p.of \in SUBSET Sample /\ IsFiniteSet(p.of) /\ p.of # {}
      BY <2>3, <2>7, <3>1, <3>2
    <3> QED BY <2>9, <3>1, <3>2, <3>3, ExtremesGive
  <2>11. \A j, k \in W : j <= k => X[j].t <= X[k].t BY <2>4, <2>8, <2>10
  <2>12. PICK r : Keeps(r, N, X, W) /\ PointsWithin(i, from, to) = r[N]
    BY <2>2, <2>5, <2>6, PointsWithinIsAPass
  <2>13. PICK pts : pts = r[N] OBVIOUS
  <2>14. KeptOf(pts, N, X, W) BY <2>8, <2>10, <2>11, <2>12, <2>13, KeepsAll
  <2>15. pts \in Seq(Point) /\ Ascending(pts) BY <2>14 DEF KeptOf
  <2>16. max \in Nat BY Bounds
  <2>17. PICK D : D = Query(from, to, max) OBVIOUS
  <2>18. D = Downsample(pts, max) BY <2>1, <2>12, <2>13, <2>17 DEF Query
  <2>19. /\ max > 0 => Len(D) <= max
         /\ \A j \in 1..Len(pts) : \E c \in 1..Len(D) :
              D[c].min \in Nat /\ D[c].max \in Nat /\ D[c].t <= pts[j].t /\ Covers(D[c], pts[j])
    BY <2>15, <2>16, <2>18, DownsampleCovers
  <2>20. ASSUME NEW p \in Points(i), from <= p.t, p.t <= to, NEW s \in p.of
         PROVE  \E c \in 1..Len(D) : D[c].t <= p.t /\ D[c].min <= s.v /\ s.v <= D[c].max
    <3>1. PICK back \in 0..(N - 1) : p = At(i, tiers[i], back) /\ p.of # {} BY <2>2 DEF Points
    <3>2. PICK j \in 1..N : N - j = back
      <4>1. N - back \in 1..N /\ N - (N - back) = back OBVIOUS
      <4> QED BY <4>1
    <3>3. p = Nth(i, j) BY <2>2, <3>1, <3>2 DEF Nth
    <3>4. j \in W BY <2>7, <2>20, <3>1, <3>3
    <3>5. PICK k \in 1..Len(pts) : pts[k] = X[j] BY <2>14, <3>4 DEF KeptOf
    <3>6. PICK c \in 1..Len(D) :
            D[c].min \in Nat /\ D[c].max \in Nat /\ D[c].t <= X[j].t /\ Covers(D[c], X[j])
      BY <2>19, <3>5
    <3>7. X[j].t = p.t /\ X[j].min <= s.v /\ s.v <= X[j].max BY <2>10, <2>20, <3>3, <3>4
    <3>8. X[j].min \in Nat /\ X[j].max \in Nat BY <2>10, <3>4 DEF Point
    <3>9. s.v \in Nat BY <2>3, <2>20, <3>2, <3>3, Bounds DEF Sample
    <3>10. D[c].min <= s.v /\ s.v <= D[c].max BY <3>6, <3>7, <3>8, <3>9, SMTT(40) DEF Covers
    <3> QED BY <3>6, <3>7, <3>10
  <2> QED BY <2>1, <2>17, <2>19, <2>20
<1> QED BY <1>1, InvCorrect, AllRecordedCorrect, PTL

=============================================================================
