------------------------------ MODULE History ------------------------------
(***************************************************************************)
(* One series of the history store (history.rs): a cascade of rings, each  *)
(* coarser and longer than the one before, fed with the same samples.      *)
(*                                                                         *)
(* A ring keeps no times.  The time of a bucket follows from how far it is *)
(* behind the newest one, so every bucket has to be written, those nobody  *)
(* sampled in included.                                                    *)
(*                                                                         *)
(* Abstracted: a bucket holds the set of samples it summarises instead of  *)
(* their least, mean and greatest value; the empty set is NaN, a hole.     *)
(* Inside a ring, time counts buckets, not seconds.  The clock does not    *)
(* step back, and seconds are large enough that no subtraction underflows. *)
(*                                                                         *)
(* FAULT marks a definition that is not part of the model, see Fleet.      *)
(***************************************************************************)
EXTENDS Integers, Sequences, FiniteSetsExt

CONSTANTS
  Tiers,          \* TIERS: a sequence of [interval, cap], cap = span / interval
  Values,         \* what a metric may read
  Start, Horizon, \* the seconds that are modelled
  MaxPerSecond,   \* samples a host may send in one second
  MaxSamples,     \* bound on the samples of a behaviour
  Budgets         \* max_points a chart may ask for

Levels == 1..Len(Tiers)
Last == Len(Tiers)
Sample == [t : Start..Horizon, k : 0..(MaxPerSecond - 1), v : Values]
Ring(i) == 0..(Tiers[i].cap - 1)

ASSUME TierShape ==
  /\ Len(Tiers) \in Nat \ {0} /\ Tiers[1].interval = 1
  /\ \A i \in Levels : Tiers[i].interval \in Nat \ {0} /\ Tiers[i].cap \in Nat \ {0}
ASSUME Bounds ==
  /\ Start \in Nat /\ Horizon \in Nat /\ Start <= Horizon /\ Values \subseteq Nat
  /\ MaxPerSecond \in Nat \ {0} /\ MaxSamples \in Nat /\ Budgets \subseteq Nat

VARIABLES
  tiers,   \* Series.tiers
  floor,   \* Series.floor: the finest tier still held
  log,     \* every sample recorded so far
  last     \* the second of the latest one

vars == <<tiers, floor, log, last>>

\* Tier: the ring, how much of it is filled, and the bucket being filled.
Tier(i) == [slot: [Ring(i) -> SUBSET Sample], head: Ring(i), len: 0..Tiers[i].cap,
            newest: Nat, bucket: Nat, acc: SUBSET Sample]

TypeOK ==
  /\ tiers = [i \in Levels |-> tiers[i]]
  /\ \A i \in Levels : tiers[i] \in Tier(i)
  /\ floor \in Levels
  /\ log \subseteq Sample
  /\ last \in Start..Horizon

\* Tier::new, which is also what is left of a tier that was shed.
NewTier(i) == [slot |-> [j \in Ring(i) |-> {}], head |-> 0, len |-> 0,
               newest |-> 0, bucket |-> 0, acc |-> {}]

Raw(i) == i = 1
Bucket(i, t) == t \div Tiers[i].interval

\* Positions go round: j % cap for the j that occur.
Wrap(i, j) == IF j < Tiers[i].cap THEN j ELSE j - Tiers[i].cap

\* min(cap), for the number of buckets held.
Held(i, n) == IF n < Tiers[i].cap THEN n ELSE Tiers[i].cap

\* The positions of the next n buckets to be written.
NextSlots(i, head, n) ==
  {j \in Ring(i) : (head <= j /\ j < head + n) \/ j + Tiers[i].cap < head + n}

\* fill_gap: a hole for every bucket nobody sampled in, one ring full at most.
\* FAULT: the gap is skipped.
SkipGap(i, tier, upto) == tier
FillGap(i, tier, upto) ==
  LET missed == upto - tier.newest - 1
      n == Held(i, missed)
  IN IF tier.len = 0 \/ missed <= 0 THEN tier
     ELSE [tier EXCEPT
             !.slot = [j \in Ring(i) |-> IF j \in NextSlots(i, tier.head, n)
                                         THEN {} ELSE tier.slot[j]],
             !.head = Wrap(i, tier.head + n),
             !.len = Held(i, tier.len + n),
             !.newest = upto - 1]

\* flush: write the bucket that was being filled.
Flush(i, tier) ==
  IF tier.acc = {} THEN tier
  ELSE [tier EXCEPT !.slot[tier.head] = tier.acc,
                    !.head = Wrap(i, tier.head + 1),
                    !.len = Held(i, tier.len + 1),
                    !.newest = tier.bucket,
                    !.acc = {}]

\* Tier::push: a sample of another bucket closes the open one; the raw tier
\* closes its own at once.
Push(i, tier, s) ==
  LET b == Bucket(i, s.t)
      closed == IF b # tier.bucket THEN Flush(i, tier) ELSE tier
      open == IF closed.acc = {} THEN [FillGap(i, closed, b) EXCEPT !.bucket = b]
              ELSE closed
      added == [open EXCEPT !.acc = @ \cup {s}]
  IN IF Raw(i) THEN Flush(i, added) ELSE added

-----------------------------------------------------------------------------
(* Reading. *)

\* The bucket that is back places behind the newest one.
At(i, tier, back) ==
  [t |-> (tier.newest - back) * Tiers[i].interval,
   of |-> tier.slot[Wrap(i, tier.head + Tiers[i].cap - 1 - back)]]

\* Everything a tier holds that is not a hole.
Points(i) ==
  {p \in {At(i, tiers[i], back) : back \in 0..(tiers[i].len - 1)} : p.of # {}}

\* Tier::oldest.
Oldest(i) ==
  (tiers[i].newest - (IF tiers[i].len = 0 THEN 0 ELSE tiers[i].len - 1)) * Tiers[i].interval

\* A point of a chart: the time of a bucket and its extremes.
Extremes(p) ==
  LET values == {s.v : s \in p.of} IN [t |-> p.t, min |-> Min(values), max |-> Max(values)]

\* Tier::range: oldest first, holes left out.
PointsWithin(i, from, to) ==
  LET tier == tiers[i]
      range[j \in 0..tier.len] ==
        LET p == At(i, tier, tier.len - j)
        IN IF j = 0 THEN <<>>
           ELSE IF from <= p.t /\ p.t <= to /\ p.of # {} THEN Append(range[j - 1], Extremes(p))
           ELSE range[j - 1]
  IN range[tier.len]

\* downsample: chunks of equal length, each with the extremes of its points.
\* FAULT: every chunk is represented by its first point.
FirstOfEach(pts, max) ==
  IF max = 0 \/ Len(pts) <= max THEN pts
  ELSE LET chunk == (Len(pts) + max - 1) \div max
       IN [c \in 1..((Len(pts) + chunk - 1) \div chunk) |-> pts[(c - 1) * chunk + 1]]
Downsample(pts, max) ==
  IF max = 0 \/ Len(pts) <= max THEN pts
  ELSE LET chunk == (Len(pts) + max - 1) \div max
           within(c) == {j \in 1..Len(pts) : (c - 1) * chunk < j /\ j <= c * chunk}
       IN [c \in 1..((Len(pts) + chunk - 1) \div chunk) |->
             [t |-> pts[(c - 1) * chunk + 1].t,
              min |-> Min({pts[j].min : j \in within(c)}),
              max |-> Max({pts[j].max : j \in within(c)})]]

\* The finest tier that reaches back to from; the last one if none does.
Answering(from) ==
  LET spanning == {i \in floor..Last : tiers[i].len > 0 /\ Oldest(i) <= from}
  IN IF spanning = {} THEN Last ELSE Min(spanning)

\* Series::query.
Query(from, to, max) == Downsample(PointsWithin(Answering(from), from, to), max)

-----------------------------------------------------------------------------
Init ==
  /\ tiers = [i \in Levels |-> NewTier(i)]
  /\ floor = 1
  /\ log = {}
  /\ last = Start

\* Series::push, of the tiers that are held, with the second of the wall clock.
Record(t, v) ==
  LET s == [t |-> t, k |-> Cardinality({r \in log : r.t = t}), v |-> v]
  IN /\ t >= last /\ s \in Sample /\ Cardinality(log) < MaxSamples
     /\ tiers' = [i \in Levels |-> IF i < floor THEN tiers[i] ELSE Push(i, tiers[i], s)]
     /\ log' = log \cup {s}
     /\ last' = t
     /\ UNCHANGED floor

\* Series::shed_finest: never the last tier.
\* FAULT: the coarsest tier is emptied instead.
ShedCoarsest ==
  /\ floor < Last
  /\ tiers' = [tiers EXCEPT ![Last] = NewTier(Last)]
  /\ floor' = floor + 1
  /\ UNCHANGED <<log, last>>
Shed ==
  /\ floor < Last
  /\ tiers' = [tiers EXCEPT ![floor] = NewTier(floor)]
  /\ floor' = floor + 1
  /\ UNCHANGED <<log, last>>

Next ==
  \/ \E t \in Start..Horizon, v \in Values : Record(t, v)
  \/ Shed

Spec == Init /\ [][Next]_vars

-----------------------------------------------------------------------------
(***************************************************************************)
(* The raw tier has room for one sample a second (history.rs:138), and is  *)
(* right as long as no second has had two.  The coarser tiers are right    *)
(* whatever arrives.                                                       *)
(***************************************************************************)
OneASecond == \A s \in log : s.k = 0
Trusted == {i \in floor..Last : Raw(i) => OneASecond}

\* A point has the time of the samples it summarises, and summarises all of
\* them: no gap redates an earlier point, no bucket loses a spike or takes one
\* from its neighbour (fill_gap, flush, Tier::push).
PointsAreTrue ==
  \A i \in Trusted : \A p \in Points(i) :
    p.of = {s \in log : Bucket(i, s.t) * Tiers[i].interval = p.t}

\* A bucket that is not older than the span of its tier and no longer being
\* filled is still there: the ring overwrites nothing too early.
NothingLost ==
  \A i \in Trusted : \A s \in log \ tiers[i].acc :
    Bucket(i, s.t) > tiers[i].newest - Tiers[i].cap =>
      \E p \in Points(i) : s \in p.of

\* Whatever the window and however few points a chart asks for, no extreme of
\* what the answering tier holds is averaged away, and the chart gets no more
\* points than it asked for (query, downsample).
SpikesSurvive ==
  \A from, to \in Start..Horizon, max \in Budgets :
    LET i == Answering(from)
        answer == Query(from, to, max)
    IN /\ max > 0 => Len(answer) <= max
       /\ \A p \in Points(i) : from <= p.t /\ p.t <= to =>
            \A s \in p.of : \E c \in 1..Len(answer) :
              answer[c].t <= p.t /\ answer[c].min <= s.v /\ s.v <= answer[c].max

=============================================================================
