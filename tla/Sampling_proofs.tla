-------------------------- MODULE Sampling_proofs --------------------------
(***************************************************************************)
(* The loops that run on the monitored hosts, at every sample interval and *)
(* for every choice of the periods: the process view's window is never     *)
(* shorter than its floor, the extras keep their pace, and no loop on a    *)
(* Windows host outlives its client for long.                              *)
(*                                                                         *)
(* The argument is one count: how many intervals ago something was last    *)
(* done that is done every m iterations.                                   *)
(*                                                                         *)
(* And of the stream they write: that each frame reaches one parser whole, *)
(* and that all the samples of a connection add up.  Here the argument is  *)
(* what is in flight: the lines read and not yet cut with those not yet    *)
(* read are whole frames, and every counter goes on through them, from the *)
(* pump's last reading to what the host has now.                           *)
(***************************************************************************)
EXTENDS Sampling, SequenceTheorems, NaturalsInduction, WellFoundedInduction, TLAPS

-----------------------------------------------------------------------------
(* Integer division. *)

LEMMA TimesMonotone ==
  ASSUME NEW m \in Nat, NEW x \in Int, NEW y \in Int, x <= y
  PROVE  m * x <= m * y
<1>1. PICK d \in Nat : y = x + d
  <2>1. y - x \in Nat /\ y = x + (y - x)
    OBVIOUS
  <2> QED BY <2>1
<1>2. m * d >= 0
  OBVIOUS
<1>3. m * y = m * x + m * d
  BY <1>1
<1> QED BY <1>2, <1>3

\* A division with remainder has one remainder.
LEMMA QuotientUnique ==
  ASSUME NEW m \in Nat \ {0}, NEW p \in Int, NEW q \in Int, NEW a \in 0..(m - 1), NEW b \in 0..(m - 1),
         m * p + a = m * q + b
  PROVE  a = b
<1>1. CASE p = q
  BY <1>1
<1>2. CASE p + 1 <= q
  <2>1. m * (p + 1) <= m * q
    BY <1>2, TimesMonotone
  <2>2. m * (p + 1) = m * p + m
    OBVIOUS
  <2> QED BY <2>1, <2>2
<1>3. CASE q + 1 <= p
  <2>1. m * (q + 1) <= m * p
    BY <1>3, TimesMonotone
  <2>2. m * (q + 1) = m * q + m
    OBVIOUS
  <2> QED BY <2>1, <2>2
<1> QED BY <1>1, <1>2, <1>3

\* The remainder of a counter that goes up.
LEMMA ModStep ==
  ASSUME NEW n \in Nat, NEW m \in Nat \ {0}
  PROVE  (n + 1) % m = IF n % m = m - 1 THEN 0 ELSE (n % m) + 1
<1> DEFINE q == n \div m
           r == n % m
<1>1. n = m * q + r /\ r \in 0..(m-1) /\ q \in Int
  BY SMT
<1>2. (n+1) = m * ((n+1) \div m) + ((n+1) % m) /\ (n+1) % m \in 0..(m-1) /\ ((n+1) \div m) \in Int
  BY SMT
<1> HIDE DEF q, r
<1>3. CASE r = m - 1
  <2>1. m * (q+1) = m * q + m
    BY <1>1
  <2>2. m * (q+1) + 0 = m * ((n+1) \div m) + ((n+1) % m)
     BY <1>1, <1>2, <1>3, <2>1
  <2>3. 0 \in 0..(m-1) /\ q + 1 \in Int
    BY <1>1
  <2> QED BY <1>2, <1>3, <2>2, <2>3, QuotientUnique DEF r
<1>4. CASE r # m - 1
  <2>1. r + 1 \in 0..(m-1)
    BY <1>1, <1>4
  <2>2. m * q + (r + 1) = m * ((n+1) \div m) + ((n+1) % m)
     BY <1>1, <1>2
  <2>3. r + 1 = (n+1) % m
     BY <1>1, <1>2, <2>1, <2>2, QuotientUnique
  <2> QED BY <1>4, <2>3 DEF r
<1> QED BY <1>3, <1>4

LEMMA ModRange ==
  ASSUME NEW n \in Nat, NEW m \in Nat \ {0}
  PROVE  n % m \in 0..(m-1)
OBVIOUS

LEMMA DivLow ==
  ASSUME NEW n \in Nat, NEW m \in Nat \ {0}
  PROVE  n \div m \in Nat /\ m * (n \div m) <= n /\ n < m * (n \div m + 1)
OBVIOUS

LEMMA ModZero ==
  ASSUME NEW m \in Nat \ {0}
  PROVE  0 % m = 0
OBVIOUS

-----------------------------------------------------------------------------
(* The schedule. *)

\* At every interval a process frame comes every two iterations at least, and
\* its window is at least one of them and not all (proc_schedule).
LEMMA ProcSchedule ==
  ASSUME NEW m \in Nat \ {0}
  PROVE  EmitEvery(m) \in Nat \ {0, 1} /\ WinBack(m) \in 1..(EmitEvery(m) - 1)
<1>1. EmitEveryMs \in Nat \ {0} /\ WindowMs \in Nat \ {0}
  BY SamplingAssumption
<1>2. EmitEveryMs \div m \in Nat /\ (WindowMs + m - 1) \div m \in Nat
  <2>1. WindowMs + m - 1 \in Nat
    BY <1>1
  <2> QED BY <1>1, <2>1, DivLow
<1>3. EmitEvery(m) \in Nat \ {0, 1}
  BY <1>2 DEF EmitEvery, AtLeast
<1>4. AtLeast((WindowMs + m - 1) \div m, 1) \in Nat \ {0}
  BY <1>2 DEF AtLeast
<1> QED BY <1>3, <1>4 DEF WinBack, AtMost

\* What is done every Every(p, m) iterations is done hardly more often than
\* every p milliseconds (sampler_command).
LEMMA EverySchedule ==
  ASSUME NEW p \in Nat \ {0}, NEW m \in Nat \ {0}
  PROVE  Every(p, m) \in Nat \ {0} /\ Every(p, m) * m > p - m
<1>1. p \div m \in Nat /\ p < m * (p \div m + 1)
  BY DivLow
<1>2. m * (p \div m + 1) = m * (p \div m) + m
  BY <1>1
<1>3. CASE p \div m >= 1
  <2>1. Every(p, m) = p \div m
    BY <1>1, <1>3 DEF Every, AtLeast
  <2>2. (p \div m) * m = m * (p \div m)
    BY <1>1
  <2> QED BY <1>1, <1>2, <1>3, <2>1, <2>2
<1>4. CASE p \div m = 0
  <2>1. Every(p, m) = 1
    BY <1>4 DEF Every, AtLeast
  <2>2. p < m
    BY <1>1, <1>4
  <2> QED BY <2>1, <2>2
<1> QED BY <1>1, <1>3, <1>4

LEMMA ExtrasSchedule ==
  ASSUME NEW x \in Extras, NEW m \in Nat \ {0}
  PROVE  Period[x] \in Nat \ {0} /\ Every(Period[x], m) \in Nat \ {0}
<1>1. Period[x] \in Nat \ {0}
  BY SamplingAssumption DEF Extras, Period
<1> QED BY <1>1, EverySchedule

\* How many intervals ago a thing was done that is done every m iterations,
\* when n have begun: seen before the n-th, and in the sleep before it.
Ago(n, m) == IF n % m = 0 THEN m ELSE n % m
Distance(n, m, working) == IF working THEN Ago(n, m) ELSE Ago(n, m) - 1

LEMMA AgoRange ==
  ASSUME NEW n \in Nat, NEW m \in Nat \ {0}
  PROVE  Ago(n, m) \in 1..m
BY ModRange DEF Ago

LEMMA DistanceAfterWork ==
  ASSUME NEW n \in Nat, NEW m \in Nat \ {0}
  PROVE  Distance(n + 1, m, FALSE) = IF n % m = 0 THEN 0 ELSE Distance(n, m, TRUE)
<1>1. (n + 1) % m = IF n % m = m - 1 THEN 0 ELSE (n % m) + 1
  BY ModStep
<1>2. n % m \in 0..(m - 1)
  BY ModRange
<1> QED BY <1>1, <1>2 DEF Distance, Ago

-----------------------------------------------------------------------------
(* The invariant. *)

\* The lines a loop writes: a process frame has a denominator.
TrueLines ==
  [tag : {"facts", "stat", "metric", "proc"}]
  \cup [tag : {"bytes", "unit"}, n : Int, ever : Int]
  \cup [tag : {"group"}, usec : Int, ever : Int]
  \cup {l \in [tag : {"procs"}, total : Int] : l.total > 0}

\* n iterations of m milliseconds, and s of the next, each with a pass at most.
Within(gap, n, s, m) == n * m + s <= gap /\ gap <= n * (m + MaxPass) + s

\* What WindowIsAFloor asks of a process frame, on a host of this system and rate.
Floor(m) == AtMost(WindowMs, (EmitEvery(m) - 1) * m)
Between(s, m) == IF s = "unix" THEN WinBack(m) ELSE EmitEvery(m)
FairLines(s, m) ==
  {l \in TrueLines : l.tag = "procs" => Floor(m) <= l.total /\ Within(l.total, Between(s, m), 0, m)}

Counts == [net : Int, usec : Int, nrestarts : Int]
Times == Nat \cup {None}

TypeOK ==
  /\ os \in {"unix", "windows"} /\ interval \in Nat \ {0}
  /\ now \in Nat /\ net \in Int /\ usec \in Int /\ nrestarts \in Int /\ ever \in Counts
  /\ alive \in BOOLEAN /\ at \in {"work", "sleep", "step"} /\ i \in Nat /\ j \in Nat
  /\ slept \in Nat /\ slept <= interval
  /\ open \in Times /\ ran \in [Extras -> Times]
  /\ goneAt \in [client : Times, session : Times]
  /\ wire \in Seq(TrueLines)

\* t is as many intervals ago as something done every m iterations can be, a pass
\* longer at most for each.
Slept == IF at = "work" THEN 0 ELSE slept
Behind(t, m) == t # None => Within(now - t, Distance(i, m, at = "work"), Slept, interval)

Placed ==
  /\ Behind(open, EmitEvery(interval))
  /\ os = "unix" => \A x \in Extras : Behind(ran[x], Every(Period[x], interval))

Opened == i > 0 => open # None

\* On unix a sleep is one step; on Windows one begins with some of it left.
Stepping ==
  /\ os = "unix" => slept = 0 /\ at # "step"
  /\ at = "step" => slept < interval

FairWire == wire \in Seq(FairLines(os, interval))

\* How far the loop may get before its next look at the watchdog: a step, when the
\* sleep is not over, and the next pass.
Ahead == IF at = "step" THEN 0 ELSE IF at = "sleep" /\ slept = interval THEN StepMs ELSE StepMs + MaxPass

Watched ==
  os = "windows" /\ alive =>
    /\ now <= CapMs + Ahead
    /\ watching /\ ~session => goneAt.session \in Nat /\ now <= goneAt.session + Ahead

IInv == TypeOK /\ Placed /\ Opened /\ Stepping /\ FairWire /\ Watched

-----------------------------------------------------------------------------
(* What an iteration writes. *)

\* Sequences of more special elements.
LEMMA SeqWider ==
  ASSUME NEW S, NEW T, S \subseteq T, NEW s \in Seq(S)
  PROVE  s \in Seq(T)
OBVIOUS

LEMMA FairIsTrue ==
  ASSUME NEW s, NEW m
  PROVE  FairLines(s, m) \subseteq TrueLines
BY DEF FairLines

LEMMA PlainIsFair ==
  ASSUME NEW s, NEW m, NEW l \in TrueLines, l.tag # "procs"
  PROVE  l \in FairLines(s, m)
BY DEF FairLines

LEMMA MetricIsFair ==
  ASSUME TypeOK, NEW got
  PROVE  Metric(got) \in Seq(FairLines(os, interval))
<1> DEFINE facts == [tag |-> "facts"]
           stat == [tag |-> "stat"]
           bytes == [tag |-> "bytes", n |-> net, ever |-> ever.net]
           L == FairLines(os, interval)
<1>1. End("metric") \in TrueLines /\ facts \in TrueLines /\ stat \in TrueLines /\ bytes \in TrueLines
  BY DEF TrueLines, End, TypeOK, Counts
<1>2. /\ End("metric").tag # "procs" /\ facts.tag # "procs" /\ stat.tag # "procs" /\ bytes.tag # "procs"
  BY DEF End
<1>3. End("metric") \in L /\ facts \in L /\ stat \in L /\ bytes \in L
  <2> HIDE DEF facts, stat, bytes
  <2> QED BY <1>1, <1>2, PlainIsFair
<1> HIDE DEF facts, stat, bytes, L
<1>4. <<End("metric")>> \in Seq(L) /\ <<facts>> \in Seq(L) /\ <<stat>> \in Seq(L) /\ <<bytes>> \in Seq(L)
      /\ <<>> \in Seq(L)
  BY <1>3
<1>5. /\ (IF i = 0 THEN <<facts>> ELSE <<>>) \in Seq(L)
      /\ (IF "stat" \in got THEN <<stat>> ELSE <<>>) \o (IF "bytes" \in got THEN <<bytes>> ELSE <<>>) \in Seq(L)
  BY <1>4
<1>6. Metric(got) = (IF i = 0 THEN <<facts>> ELSE <<>>)
        \o ((IF "stat" \in got THEN <<stat>> ELSE <<>>) \o (IF "bytes" \in got THEN <<bytes>> ELSE <<>>))
        \o <<End("metric")>>
  BY DEF Metric, Counters, Facts, facts, stat, bytes
<1>7. Metric(got) \in Seq(L)
  BY <1>4, <1>5, <1>6
<1> QED BY <1>7 DEF L

\* A process frame's floor is below what its schedule puts between its snapshots.
LEMMA FloorIsBelow ==
  ASSUME NEW m \in Nat \ {0}, NEW s
  PROVE  /\ Floor(m) <= Between(s, m) * m /\ Floor(m) \in Int
         /\ Between(s, m) \in Nat \ {0} /\ Between(s, m) * m > 0 /\ Between(s, m) * m \in Int
<1>1. /\ EmitEvery(m) \in Nat \ {0, 1} /\ WinBack(m) \in 1..(EmitEvery(m) - 1)
  BY ProcSchedule
<1>2. WindowMs \in Nat \ {0}
  BY SamplingAssumption
<1>3. Between(s, m) \in Nat \ {0} /\ WinBack(m) <= Between(s, m)
  BY <1>1 DEF Between
<1>4. WinBack(m) * m <= Between(s, m) * m /\ Between(s, m) * m > 0 /\ Between(s, m) * m \in Int
  <2>1. m * WinBack(m) <= m * Between(s, m)
    BY <1>1, <1>3, TimesMonotone
  <2>2. m * WinBack(m) = WinBack(m) * m /\ m * Between(s, m) = Between(s, m) * m
    BY <1>1, <1>3
  <2>3. Between(s, m) * m \in Int /\ Between(s, m) * m > 0
    BY <1>3
  <2> QED BY <2>1, <2>2, <2>3
<1>5. (EmitEvery(m) - 1) * m \in Int
  BY <1>1
<1>6. Floor(m) <= WindowMs /\ Floor(m) <= (EmitEvery(m) - 1) * m /\ Floor(m) \in Int
  BY <1>2, <1>5 DEF Floor, AtMost
<1>7. Floor(m) <= WinBack(m) * m
  <2> DEFINE q == (WindowMs + m - 1) \div m
  <2>1. q \in Nat /\ WindowMs + m - 1 < m * (q + 1)
    <3>1. WindowMs + m - 1 \in Nat
      BY <1>2
    <3> QED BY <3>1, DivLow
  <2> HIDE DEF q
  <2>2. m * (q + 1) = m * q + m
    BY <2>1
  <2>3. WindowMs <= m * q
    <3>1. m * q \in Int
      BY <2>1
    <3> QED BY <1>2, <2>1, <2>2, <3>1
  <2>4. q >= 1
    <3>1. CASE q = 0
      BY <1>2, <2>3, <3>1
    <3> QED BY <2>1, <3>1
  <2>5. WinBack(m) = q \/ WinBack(m) = EmitEvery(m) - 1
    <3>1. AtLeast(q, 1) = q
      BY <2>1, <2>4 DEF AtLeast
    <3> QED BY <3>1 DEF WinBack, AtMost, q
  <2>6. m * q = q * m
    BY <2>1
  <2>7. CASE WinBack(m) = q
    <3>1. WinBack(m) * m = m * q /\ m * q \in Int
      BY <2>1, <2>6, <2>7
    <3> QED BY <1>2, <1>6, <2>3, <3>1
  <2>8. CASE WinBack(m) = EmitEvery(m) - 1
    BY <1>6, <2>8
  <2> QED BY <2>5, <2>7, <2>8
<1>8. WinBack(m) * m \in Int
  BY <1>1
<1> QED BY <1>3, <1>4, <1>6, <1>7, <1>8

\* The window's first snapshot was taken as many iterations ago as the schedule
\* says, on either system.
LEMMA WindowIsFair ==
  ASSUME IInv, at = "work", Emits
  PROVE  /\ now - Since \in Int
         /\ Within(now - Since, Between(os, interval), 0, interval)
<1> USE DEF IInv
<1>1. EmitEvery(interval) \in Nat \ {0, 1} /\ WinBack(interval) \in 1..(EmitEvery(interval) - 1)
  BY ProcSchedule DEF TypeOK
<1>2. open # None => Within(now - open, Ago(i, EmitEvery(interval)), 0, interval)
  BY DEF Placed, Behind, Slept, Distance
<1>3. CASE os = "unix"
  <2>1. i % EmitEvery(interval) = WinBack(interval)
    BY <1>3 DEF Emits
  <2>2. i % EmitEvery(interval) # 0
    BY <1>1, <2>1
  <2>3. Since = open
    BY <2>2 DEF Since, Opens
  <2>4. i > 0
    <3>1. 0 % EmitEvery(interval) = 0
      BY <1>1, ModZero
    <3> QED BY <2>2, <3>1 DEF TypeOK
  <2>5. open # None /\ open \in Nat
    BY <2>4 DEF Opened, TypeOK, Times
  <2>6. Ago(i, EmitEvery(interval)) = Between(os, interval)
    BY <1>3, <2>1, <2>2 DEF Ago, Between
  <2>7. now - open \in Int
    BY <2>5 DEF TypeOK
  <2> QED BY <1>2, <2>3, <2>5, <2>6, <2>7
<1>4. CASE os # "unix"
  <2>1. open # None /\ Since = open /\ Opens
    BY <1>4 DEF Emits, Since
  <2>2. open \in Nat
    BY <2>1 DEF TypeOK, Times
  <2>3. Ago(i, EmitEvery(interval)) = Between(os, interval)
    BY <1>4, <2>1 DEF Ago, Between, Opens
  <2>4. now - open \in Int
    BY <2>2 DEF TypeOK
  <2> QED BY <1>2, <2>1, <2>3, <2>4
<1> QED BY <1>3, <1>4

\* And so its denominator is not nothing.
LEMMA WindowIsOpen ==
  ASSUME IInv, at = "work", Emits
  PROVE  now - Since \in Int /\ now - Since > 0
<1>1. interval \in Nat \ {0}
  BY DEF IInv, TypeOK
<1>2. Between(os, interval) * interval > 0 /\ Between(os, interval) * interval \in Int
  BY <1>1, FloorIsBelow
<1>3. now - Since \in Int /\ Between(os, interval) * interval + 0 <= now - Since
  BY WindowIsFair DEF Within
<1> QED BY <1>2, <1>3

LEMMA ProcIsFair ==
  ASSUME IInv, at = "work", Emits
  PROVE  Proc \in Seq(FairLines(os, interval))
<1> DEFINE procs == [tag |-> "procs", total |-> now - Since]
           line == [tag |-> "bytes", n |-> Boot, ever |-> 0]
           group == [tag |-> "group", usec |-> usec, ever |-> ever.usec]
           unit == [tag |-> "unit", n |-> nrestarts, ever |-> ever.nrestarts]
           L == FairLines(os, interval)
<1>1. now - Since \in Int /\ now - Since > 0 /\ Within(now - Since, Between(os, interval), 0, interval)
  BY WindowIsFair, WindowIsOpen
<1>2. Floor(interval) <= now - Since
  <2>1. interval \in Nat \ {0}
    BY DEF IInv, TypeOK
  <2>2. /\ Floor(interval) <= Between(os, interval) * interval /\ Floor(interval) \in Int
        /\ Between(os, interval) * interval \in Int
    BY <2>1, FloorIsBelow
  <2>3. Between(os, interval) * interval + 0 <= now - Since
    BY <1>1 DEF Within
  <2> QED BY <1>1, <2>2, <2>3
<1>3. procs \in L
  <2>1. PICK gap \in Int : gap = now - Since
    BY <1>1
  <2>2. procs = [tag |-> "procs", total |-> gap] /\ gap > 0
    BY <1>1, <2>1
  <2>3. procs \in TrueLines
    BY <2>2 DEF TrueLines
  <2>4. procs.total = gap
    BY <2>2
  <2>5. Floor(interval) <= procs.total /\ Within(procs.total, Between(os, interval), 0, interval)
    BY <1>1, <1>2, <2>1, <2>4
  <2> HIDE DEF procs
  <2> QED BY <2>3, <2>5 DEF FairLines
<1>4. line \in L /\ group \in L /\ unit \in L /\ End("proc") \in L
  <2>1. line \in TrueLines /\ group \in TrueLines /\ unit \in TrueLines /\ End("proc") \in TrueLines
    BY SamplingAssumption DEF TrueLines, IInv, TypeOK, Counts, End
  <2>2. line.tag # "procs" /\ group.tag # "procs" /\ unit.tag # "procs" /\ End("proc").tag # "procs"
    BY DEF End
  <2> HIDE DEF line, group, unit
  <2> QED BY <2>1, <2>2, PlainIsFair
<1> HIDE DEF procs, line, group, unit, L
<1>5. /\ <<procs, line>> \in Seq(L)
      /\ (IF os = "unix" THEN <<group>> ELSE <<>>) \in Seq(L)
      /\ (IF Sweeps /\ nrestarts > 0 THEN <<unit>> ELSE <<>>) \in Seq(L)
      /\ <<End("proc")>> \in Seq(L)
  BY <1>3, <1>4
<1>6. <<procs, line>> \o (IF os = "unix" THEN <<group>> ELSE <<>>)
        \o (IF Sweeps /\ nrestarts > 0 THEN <<unit>> ELSE <<>>) \o <<End("proc")>> \in Seq(L)
  BY <1>5
<1> QED BY <1>6 DEF Proc, procs, line, group, unit, L

-----------------------------------------------------------------------------
(* The steps. *)

LEMMA InitEstablishes == Init => IInv
<1> SUFFICES ASSUME Init PROVE IInv
  OBVIOUS
<1>1. TypeOK
  BY SamplingAssumption DEF Init, TypeOK, Counts, Times
<1>2. Placed /\ Opened /\ Stepping /\ FairWire
  BY DEF Init, Placed, Opened, Behind, Stepping, FairWire
<1>3. Watched
  BY SamplingAssumption DEF Init, Watched, Ahead
<1> QED BY <1>1, <1>2, <1>3 DEF IInv

\* What is done now is no iteration ago.
LEMMA DoneNow ==
  ASSUME NEW m \in Nat \ {0}, NEW t \in Nat
  PROVE  Within(t - t, 0, 0, m)
<1>1. m + MaxPass \in Nat
  BY SamplingAssumption
<1> QED BY <1>1 DEF Within

LEMMA WorkPreserves ==
  ASSUME IInv, NEW got, Work(got)
  PROVE  IInv'
<1> USE DEF IInv
<1>1. /\ at = "work" /\ at' = "sleep" /\ i' = i + 1 /\ slept' = 0
      /\ open' = IF Opens THEN now ELSE open
      /\ ran' = [x \in Extras |-> IF os = "unix" /\ i % Every(Period[x], interval) = 0 THEN now ELSE ran[x]]
      /\ UNCHANGED <<os, interval, now, net, usec, nrestarts, ever, alive, watching, session, goneAt>>
  BY DEF Work, dog
<1>2. interval \in Nat \ {0} /\ i \in Nat /\ now \in Nat
  BY DEF TypeOK
<1>3. EmitEvery(interval) \in Nat \ {0, 1}
  BY <1>2, ProcSchedule
<1>4. wire' \in Seq(FairLines(os, interval))
  <2>1. Metric(got) \in Seq(FairLines(os, interval))
    BY MetricIsFair
  <2>2. (IF Emits THEN Proc ELSE <<>>) \in Seq(FairLines(os, interval))
    BY <1>1, ProcIsFair
  <2>3. wire \o Metric(got) \o (IF Emits THEN Proc ELSE <<>>) \in Seq(FairLines(os, interval))
    BY <2>1, <2>2 DEF FairWire
  <2>4. wire' = IF reading THEN wire \o Metric(got) \o (IF Emits THEN Proc ELSE <<>>) ELSE <<>>
    BY DEF Work
  <2> QED BY <2>3, <2>4
<1>5. TypeOK' /\ FairWire' /\ Stepping'
  <2>1. j' \in Nat
    BY DEF Work, TypeOK
  <2>2. open' \in Times /\ ran' \in [Extras -> Times]
    BY <1>1 DEF TypeOK, Times
  <2>3. wire' \in Seq(TrueLines)
    BY <1>4, FairIsTrue, SeqWider
  <2>4. TypeOK'
    BY <1>1, <1>2, <2>1, <2>2, <2>3 DEF TypeOK
  <2>5. FairWire' /\ Stepping'
    BY <1>1, <1>2, <1>4 DEF FairWire, Stepping
  <2> QED BY <2>4, <2>5
<1>6. ASSUME NEW m \in Nat \ {0}, NEW t, t # None => Within(now - t, Distance(i, m, TRUE), 0, interval),
             NEW u, u = IF i % m = 0 THEN now ELSE t
      PROVE  u # None => Within(now - u, Distance(i + 1, m, FALSE), 0, interval)
  <2>1. Distance(i + 1, m, FALSE) = IF i % m = 0 THEN 0 ELSE Distance(i, m, TRUE)
    BY <1>2, DistanceAfterWork
  <2>2. CASE i % m = 0
    <3>1. u = now /\ Distance(i + 1, m, FALSE) = 0
      BY <1>6, <2>1, <2>2
    <3> QED BY <1>2, <3>1, DoneNow
  <2>3. CASE i % m # 0
    <3>1. u = t /\ Distance(i + 1, m, FALSE) = Distance(i, m, TRUE)
      BY <1>6, <2>1, <2>3
    <3> QED BY <1>6, <3>1
  <2> QED BY <2>2, <2>3
<1>7. Placed'
  <2> SUFFICES /\ open' # None => Within(now - open', Distance(i + 1, EmitEvery(interval), FALSE), 0, interval)
               /\ os = "unix" => \A x \in Extras : ran'[x] # None =>
                    Within(now - ran'[x], Distance(i + 1, Every(Period[x], interval), FALSE), 0, interval)
    BY <1>1 DEF Placed, Behind, Slept
  <2>1. open # None => Within(now - open, Distance(i, EmitEvery(interval), TRUE), 0, interval)
    BY <1>1 DEF Placed, Behind, Slept
  <2>2. open' # None => Within(now - open', Distance(i + 1, EmitEvery(interval), FALSE), 0, interval)
    <3>1. EmitEvery(interval) \in Nat \ {0}
      BY <1>3
    <3>2. open' = IF i % EmitEvery(interval) = 0 THEN now ELSE open
      BY <1>1 DEF Opens
    <3> QED BY <1>6, <2>1, <3>1, <3>2
  <2>3. ASSUME os = "unix", NEW x \in Extras
        PROVE  ran'[x] # None =>
                 Within(now - ran'[x], Distance(i + 1, Every(Period[x], interval), FALSE), 0, interval)
    <3>1. Every(Period[x], interval) \in Nat \ {0}
      BY <1>2, ExtrasSchedule
    <3>2. ran[x] # None => Within(now - ran[x], Distance(i, Every(Period[x], interval), TRUE), 0, interval)
      BY <1>1, <2>3 DEF Placed, Behind, Slept
    <3>3. ran'[x] = IF i % Every(Period[x], interval) = 0 THEN now ELSE ran[x]
      BY <1>1, <2>3
    <3> QED BY <1>6, <3>1, <3>2, <3>3
  <2> QED BY <2>2, <2>3
<1>8. Opened'
  <2>1. now # None
    BY <1>2, SamplingAssumption
  <2>2. i = 0 => Opens
    <3>1. 0 % EmitEvery(interval) = 0
      BY <1>3, ModZero
    <3> QED BY <3>1 DEF Opens
  <2> QED BY <1>1, <1>2, <2>1, <2>2 DEF Opened
<1>9. Watched'
  <2>1. Ahead = StepMs + MaxPass /\ Ahead' = StepMs + MaxPass
    BY <1>1, <1>2 DEF Ahead
  <2> QED BY <1>1, <2>1 DEF Watched
<1> QED BY <1>5, <1>7, <1>8, <1>9

LEMMA CountsGoOn ==
  ASSUME NEW e \in Counts, NEW d \in Int
  PROVE  [net |-> e.net + d, usec |-> e.usec + d, nrestarts |-> e.nrestarts] \in Counts
BY DEF Counts

LEMMA OneLess ==
  ASSUME NEW a \in Nat, NEW q \in Nat
  PROVE  (a - 1) * q = a * q - q /\ a * q \in Int
OBVIOUS

\* When an interval is over and the pass after it, what was done in it is one
\* iteration further away.
LEMMA OneIterationOn ==
  ASSUME NEW k \in Nat, NEW m \in Nat \ {0}, NEW p \in Nat \ {0}, NEW t \in Nat, NEW u \in Nat,
         NEW s \in 0..p, NEW e \in Nat, s + e >= p, s + e <= p + MaxPass,
         Within(t - u, Distance(k, m, FALSE), s, p)
  PROVE  Within((t + e) - u, Distance(k, m, TRUE), 0, p)
<1>1. Ago(k, m) \in Nat
  BY AgoRange
<1>2. Distance(k, m, TRUE) = Ago(k, m) /\ Distance(k, m, FALSE) = Ago(k, m) - 1
  BY DEF Distance
<1>3. PICK q \in Nat : q = p + MaxPass
  BY SamplingAssumption
<1>4. /\ (Ago(k, m) - 1) * p = Ago(k, m) * p - p /\ Ago(k, m) * p \in Int
      /\ (Ago(k, m) - 1) * q = Ago(k, m) * q - q /\ Ago(k, m) * q \in Int
  BY <1>1, <1>3, OneLess
<1>5. /\ Ago(k, m) * p - p + s <= t - u /\ t - u <= Ago(k, m) * q - q + s
  BY <1>2, <1>3, <1>4 DEF Within
<1>6. Ago(k, m) * p + 0 <= (t + e) - u /\ (t + e) - u <= Ago(k, m) * q + 0
  BY <1>3, <1>4, <1>5
<1> QED BY <1>2, <1>3, <1>6 DEF Within

\* The sleep of the shell, or the last of the watched sleep: e milliseconds pass.
LEMMA WorkIsNext ==
  ASSUME IInv, NEW e \in Nat, at = "sleep", at' = "work", now' = now + e,
         slept + e >= interval, slept + e <= interval + MaxPass,
         UNCHANGED <<os, interval, i, open, ran>>
  PROVE  Placed'
<1> USE DEF IInv
<1>1. interval \in Nat \ {0} /\ i \in Nat /\ now \in Nat /\ slept \in 0..interval
  BY DEF TypeOK
<1>2. ASSUME NEW m \in Nat \ {0}, NEW t \in Times, t # None => Within(now - t, Distance(i, m, FALSE), slept, interval)
      PROVE  t # None => Within(now' - t, Distance(i, m, TRUE), 0, interval)
  <2> SUFFICES ASSUME t # None PROVE Within(now' - t, Distance(i, m, TRUE), 0, interval)
    OBVIOUS
  <2>1. t \in Nat
    BY DEF Times
  <2> QED BY <1>1, <1>2, <2>1, OneIterationOn
<1>3. open' # None => Within(now' - open', Distance(i, EmitEvery(interval), TRUE), 0, interval)
  <2>1. EmitEvery(interval) \in Nat \ {0}
    BY <1>1, ProcSchedule
  <2>2. open # None => Within(now - open, Distance(i, EmitEvery(interval), FALSE), slept, interval)
    BY DEF Placed, Behind, Slept
  <2>3. open \in Times
    BY DEF TypeOK
  <2> QED BY <1>2, <2>1, <2>2, <2>3
<1>4. ASSUME os = "unix", NEW x \in Extras
      PROVE  ran'[x] # None => Within(now' - ran'[x], Distance(i, Every(Period[x], interval), TRUE), 0, interval)
  <2>1. Every(Period[x], interval) \in Nat \ {0}
    BY <1>1, ExtrasSchedule
  <2>2. ran[x] # None => Within(now - ran[x], Distance(i, Every(Period[x], interval), FALSE), slept, interval)
    BY <1>4 DEF Placed, Behind, Slept
  <2>3. ran[x] \in Times
    BY DEF TypeOK
  <2>4. ran[x] # None => Within(now' - ran[x], Distance(i, Every(Period[x], interval), TRUE), 0, interval)
    BY <1>2, <2>1, <2>2, <2>3
  <2> QED BY <2>4
<1> QED BY <1>3, <1>4 DEF Placed, Behind, Slept

LEMMA SleepPreserves ==
  ASSUME IInv, Sleep
  PROVE  IInv'
<1> USE DEF IInv
<1>0. PICK d \in 0..MaxPass : Passes(interval + d)
  BY DEF Sleep
<1>1. /\ os = "unix" /\ at = "sleep" /\ at' = "work" /\ now' = now + (interval + d)
      /\ net' = net + (interval + d) /\ usec' = usec + (interval + d)
      /\ ever' = [net |-> ever.net + (interval + d), usec |-> ever.usec + (interval + d),
                  nrestarts |-> ever.nrestarts]
      /\ UNCHANGED <<os, interval, nrestarts, alive, i, j, slept, open, ran,
                     watching, session, goneAt, wire>>
  BY <1>0 DEF Sleep, Passes, dog
<1>2. interval \in Nat \ {0} /\ i \in Nat /\ now \in Nat /\ slept = 0 /\ MaxPass \in Nat
  BY <1>1, SamplingAssumption DEF TypeOK, Stepping
<1>3. PICK e \in Nat : e = interval + d
  BY <1>2
<1>4. TypeOK'
  <2>1. ever' \in Counts
    BY <1>1, <1>3, CountsGoOn DEF TypeOK
  <2>2. now' \in Nat /\ net' \in Int /\ usec' \in Int
    BY <1>1, <1>2, <1>3 DEF TypeOK
  <2> QED BY <1>1, <2>1, <2>2 DEF TypeOK
<1>5. Placed'
  <2>1. slept + e >= interval /\ slept + e <= interval + MaxPass
    BY <1>2, <1>3
  <2> QED BY <1>1, <1>3, <2>1, WorkIsNext
<1>6. Opened' /\ Watched' /\ Stepping' /\ FairWire'
  BY <1>1 DEF Opened, Watched, Stepping, FairWire
<1> QED BY <1>4, <1>5, <1>6

\* A step of the watched sleep: the look before it found neither the cap passed nor
\* the session ended, and it is no longer than StepMs.
LEMMA SleepStepPreserves ==
  ASSUME IInv, SleepStep
  PROVE  IInv'
<1> USE DEF IInv
<1>1. /\ os = "windows" /\ alive /\ at = "step" /\ at' = "sleep" /\ now' = now + Step /\ slept' = slept + Step
      /\ net' = net + Step /\ usec' = usec + Step
      /\ ever' = [net |-> ever.net + Step, usec |-> ever.usec + Step, nrestarts |-> ever.nrestarts]
      /\ UNCHANGED <<os, interval, nrestarts, alive, i, j, open, ran, watching, session, goneAt, wire>>
  BY DEF SleepStep, Passes, dog
<1>2. interval \in Nat \ {0} /\ slept \in Nat /\ slept < interval /\ now \in Nat
      /\ StepMs \in Nat \ {0} /\ CapMs \in Nat /\ MaxPass \in Nat
  BY <1>1, SamplingAssumption DEF TypeOK, Stepping
<1>3. PICK d \in Nat : d = Step /\ d <= StepMs /\ slept + d <= interval
  BY <1>2 DEF Step, AtMost
<1> HIDE DEF Step
<1>4. TypeOK'
  <2>1. ever' \in Counts
    BY <1>1, <1>3, CountsGoOn DEF TypeOK
  <2>2. now' \in Nat /\ net' \in Int /\ usec' \in Int /\ slept' \in Nat /\ slept' <= interval
    BY <1>1, <1>2, <1>3 DEF TypeOK
  <2> QED BY <1>1, <2>1, <2>2 DEF TypeOK
<1>5. Opened' /\ Stepping' /\ FairWire'
  BY <1>1 DEF Opened, Stepping, FairWire
<1>6. Placed'
  <2>1. EmitEvery(interval) \in Nat \ {0}
    BY <1>2, ProcSchedule
  <2>2. PICK n \in Int : n = Distance(i, EmitEvery(interval), FALSE)
    <3>1. Ago(i, EmitEvery(interval)) \in Int
      BY <2>1, AgoRange DEF TypeOK
    <3> QED BY <3>1 DEF Distance
  <2>3. open # None => Within(now - open, n, slept, interval) /\ open \in Nat
    BY <1>1, <2>2 DEF Placed, Behind, Slept, TypeOK, Times
  <2>4. open # None => Within((now + d) - open, n, slept + d, interval)
    <3>1. n * interval \in Int /\ n * (interval + MaxPass) \in Int
      BY <1>2
    <3> QED BY <1>2, <2>3, <3>1 DEF Within
  <2> QED BY <1>1, <1>3, <2>2, <2>4 DEF Placed, Behind, Slept
<1>7. Watched'
  <2>1. now <= CapMs /\ (watching /\ ~session => goneAt.session \in Nat /\ now <= goneAt.session)
    BY <1>1, <1>2 DEF Watched, Ahead
  <2>2. Ahead' \in Nat /\ Ahead' >= StepMs
    BY <1>1, <1>2 DEF Ahead
  <2>3. now' <= CapMs + Ahead' /\ (watching /\ ~session => now' <= goneAt.session + Ahead')
    <3>1. PICK a \in Nat : a = Ahead' /\ a >= StepMs
      BY <2>2
    <3>2. now' = now + d
      BY <1>1, <1>3
    <3>3. now' <= CapMs + a
      <4>1. now \in Nat /\ CapMs \in Nat /\ d <= a /\ now <= CapMs
        <5>1. now \in Nat /\ CapMs \in Nat /\ StepMs \in Nat /\ d <= StepMs /\ a >= StepMs
          BY <1>2, <1>3, <3>1
        <5>2. now <= CapMs
          BY <2>1, Zenon
        <5> QED BY <5>1, <5>2
      <4> HIDE DEF IInv
      <4> QED BY <3>2, <4>1
    <3>4. CASE watching /\ ~session
      <4>0. goneAt.session \in Nat /\ now <= goneAt.session
        BY <2>1, <3>4, Zenon
      <4>1. PICK g \in Nat : g = goneAt.session /\ now <= g
        BY <4>0
      <4>2. now' <= g + a
        BY <1>2, <1>3, <3>1, <3>2, <4>1
      <4> QED BY <3>1, <3>3, <4>1, <4>2
    <3> QED BY <3>1, <3>3, <3>4
  <2> QED BY <1>1, <2>1, <2>3 DEF Watched
<1> QED BY <1>4, <1>5, <1>6, <1>7

LEMMA WatchedSleepPreserves ==
  ASSUME IInv, WatchedSleep
  PROVE  IInv'
<1> USE DEF IInv
<1>0. /\ os = "windows" /\ alive /\ at = "sleep" /\ interval \in Nat \ {0} /\ slept \in 0..interval
      /\ UNCHANGED <<os, interval, i, j, slept, open, ran, watching, session, goneAt, wire>>
  BY DEF WatchedSleep, dog, TypeOK
<1>1. CASE slept < interval /\ MustExit
  <2>0. ~(slept >= interval)
    BY <1>0, <1>1
  <2>1. /\ alive' = FALSE /\ UNCHANGED <<now, net, usec, nrestarts, ever, at>>
    BY <1>1, <2>0 DEF WatchedSleep, host
  <2> QED BY <1>0, <2>1 DEF TypeOK, Counts, Placed, Opened, Stepping, FairWire, Watched, Behind, Slept
<1>2. CASE slept < interval /\ ~MustExit
  <2>0. ~(slept >= interval)
    BY <1>0, <1>2
  <2>1. /\ at' = "step" /\ UNCHANGED <<now, net, usec, nrestarts, ever, alive>>
    BY <1>2, <2>0 DEF WatchedSleep, host
  <2>2. TypeOK' /\ Opened' /\ Stepping' /\ FairWire'
    BY <1>0, <1>2, <2>1 DEF TypeOK, Counts, Opened, Stepping, FairWire
  <2>3. Placed'
    BY <1>0, <2>1 DEF Placed, Behind, Slept
  <2>4. Watched'
    <3>1. now <= CapMs /\ ~(watching /\ ~session) /\ CapMs \in Nat
      BY <1>2, SamplingAssumption DEF MustExit, TypeOK
    <3>2. Ahead' = 0
      BY <2>1 DEF Ahead
    <3> QED BY <1>0, <2>1, <3>1, <3>2 DEF Watched
  <2> QED BY <2>2, <2>3, <2>4
<1>3. CASE ~(slept < interval)
  <2>0. PICK d \in 0..MaxPass : Passes(d)
    BY <1>3 DEF WatchedSleep
  <2>1. /\ at' = "work" /\ now' = now + d /\ net' = net + d /\ usec' = usec + d
        /\ ever' = [net |-> ever.net + d, usec |-> ever.usec + d, nrestarts |-> ever.nrestarts]
        /\ UNCHANGED <<nrestarts, alive>>
    BY <1>3, <2>0 DEF WatchedSleep, Passes
  <2>2. d \in Nat /\ d <= MaxPass /\ MaxPass \in Nat /\ StepMs \in Nat /\ CapMs \in Nat /\ now \in Nat
    BY SamplingAssumption DEF TypeOK
  <2>3. TypeOK'
    <3>1. ever' \in Counts
      BY <2>1, <2>2, CountsGoOn DEF TypeOK
    <3>2. now' \in Nat /\ net' \in Int /\ usec' \in Int
      BY <2>1, <2>2 DEF TypeOK
    <3> QED BY <1>0, <2>1, <3>1, <3>2 DEF TypeOK
  <2>4. Placed'
    <3>1. slept + d >= interval /\ slept + d <= interval + MaxPass
      BY <1>0, <1>3, <2>2
    <3> QED BY <1>0, <2>1, <2>2, <3>1, WorkIsNext
  <2>5. Opened' /\ Stepping' /\ FairWire'
    BY <1>0, <2>1 DEF Opened, Stepping, FairWire
  <2>6. Watched'
    <3>1. slept = interval
      BY <1>0, <1>3
    <3>2. Ahead = StepMs /\ Ahead' = StepMs + MaxPass
      BY <1>0, <2>1, <3>1 DEF Ahead
    <3>3. now <= CapMs + StepMs /\ (watching /\ ~session => goneAt.session \in Nat /\ now <= goneAt.session + StepMs)
      BY <1>0, <3>2 DEF Watched
    <3>4. /\ now' <= CapMs + (StepMs + MaxPass)
          /\ watching /\ ~session => goneAt.session \in Nat /\ now' <= goneAt.session + (StepMs + MaxPass)
      BY <2>1, <2>2, <3>3
    <3> QED BY <1>0, <2>1, <3>2, <3>4 DEF Watched
  <2> QED BY <2>3, <2>4, <2>5, <2>6
<1> QED BY <1>1, <1>2, <1>3

LEMMA HappensPreserves ==
  ASSUME IInv, Happens
  PROVE  IInv'
<1> USE DEF IInv
<1>1. UNCHANGED <<os, interval, now, alive, at, i, j, slept, open, ran, watching, session, goneAt, wire>>
  BY DEF Happens, loop, dog
<1>2. net' \in Int /\ usec' \in Int /\ nrestarts' \in Int /\ ever' \in Counts
  <2>1. net \in Int /\ usec \in Int /\ nrestarts \in Int /\ ever \in Counts
    BY DEF TypeOK
  <2>2. [ever EXCEPT !.nrestarts = @ + 1] \in Counts
    BY <2>1 DEF Counts
  <2> QED BY <2>1, <2>2 DEF Happens
<1>3. TypeOK'
  BY <1>1, <1>2 DEF TypeOK
<1>4. Placed' /\ Opened' /\ Stepping' /\ FairWire'
  BY <1>1 DEF Placed, Opened, Stepping, FairWire, Behind, Slept
<1>5. Watched'
  BY <1>1 DEF Watched, Ahead
<1> QED BY <1>3, <1>4, <1>5

LEMMA LeavesPreserves ==
  ASSUME IInv, Leaves
  PROVE  IInv'
<1> USE DEF IInv
<1>1. /\ alive' = (alive /\ os = "windows") /\ goneAt' = [goneAt EXCEPT !.client = now] /\ wire' = <<>>
      /\ UNCHANGED <<os, interval, now, net, usec, nrestarts, ever, at, i, j, slept, open, ran, watching, session>>
  BY DEF Leaves, host
<1>2. goneAt' \in [client : Times, session : Times] /\ goneAt'.session = goneAt.session
  BY <1>1 DEF TypeOK, Times
<1>3. alive' \in BOOLEAN /\ (alive' => alive)
  BY <1>1
<1>4. TypeOK'
  BY <1>1, <1>2, <1>3 DEF TypeOK
<1>5. Placed' /\ Opened' /\ Stepping' /\ FairWire'
  BY <1>1 DEF Placed, Opened, Stepping, FairWire, Behind, Slept
<1>6. Watched'
  <2>1. Ahead' = Ahead
    BY <1>1 DEF Ahead
  <2> QED BY <1>1, <1>2, <1>3, <2>1 DEF Watched
<1> QED BY <1>4, <1>5, <1>6

LEMMA SessionEndsPreserves ==
  ASSUME IInv, SessionEnds
  PROVE  IInv'
<1> USE DEF IInv
<1>1. /\ goneAt' = [goneAt EXCEPT !.session = now]
      /\ UNCHANGED <<os, interval, now, net, usec, nrestarts, ever, alive, at, i, j, slept, open, ran, watching, wire>>
  BY DEF SessionEnds, host, loop
<1>2. goneAt' \in [client : Times, session : Times] /\ goneAt'.session = now
  BY <1>1 DEF TypeOK, Times
<1>3. TypeOK'
  BY <1>1, <1>2 DEF TypeOK
<1>4. Placed' /\ Opened' /\ Stepping' /\ FairWire'
  BY <1>1 DEF Placed, Opened, Stepping, FairWire, Behind, Slept
<1>5. Watched'
  <2>1. now \in Nat /\ StepMs \in Nat /\ MaxPass \in Nat
    BY SamplingAssumption DEF TypeOK
  <2>2. Ahead' = Ahead /\ Ahead \in Nat
    BY <1>1, <2>1 DEF Ahead
  <2>3. now <= now + Ahead
    BY <2>1, <2>2
  <2> QED BY <1>1, <1>2, <2>1, <2>2, <2>3 DEF Watched
<1> QED BY <1>3, <1>4, <1>5

LEMMA ReadPreserves ==
  ASSUME IInv, NEW n \in 1..Len(wire), Read(n)
  PROVE  IInv'
<1> USE DEF IInv
<1>1. /\ wire' = SubSeq(wire, n + 1, Len(wire))
      /\ UNCHANGED <<os, interval, now, net, usec, nrestarts, ever, alive, at, i, j, slept, open, ran,
                     watching, session, goneAt>>
  BY DEF Read, host, loop, dog
<1>2. ASSUME NEW L, wire \in Seq(L) PROVE wire' \in Seq(L)
  BY <1>1, <1>2
<1>3. wire' \in Seq(TrueLines) /\ wire' \in Seq(FairLines(os, interval))
  <2> HIDE DEF TrueLines, FairLines
  <2> QED BY <1>2 DEF TypeOK, FairWire
<1>4. TypeOK'
  BY <1>1, <1>3 DEF TypeOK
<1>5. Placed' /\ Opened' /\ Stepping' /\ FairWire'
  BY <1>1, <1>3 DEF Placed, Opened, Stepping, FairWire, Behind, Slept
<1>6. Watched'
  BY <1>1 DEF Watched, Ahead
<1> QED BY <1>4, <1>5, <1>6

LEMMA StepKeeps == IInv /\ [Next]_vars => IInv'
<1> SUFFICES ASSUME IInv, [Next]_vars PROVE IInv'
  OBVIOUS
<1>1. CASE \E got \in Answers : Work(got)
  BY <1>1, WorkPreserves
<1>2. CASE Sleep
  BY <1>2, SleepPreserves
<1>3. CASE WatchedSleep
  BY <1>3, WatchedSleepPreserves
<1>4. CASE SleepStep
  BY <1>4, SleepStepPreserves
<1>5. CASE Happens
  BY <1>5, HappensPreserves
<1>6. CASE Leaves
  BY <1>6, LeavesPreserves
<1>7. CASE SessionEnds
  BY <1>7, SessionEndsPreserves
<1>8. CASE \E n \in 1..Len(wire) : Read(n)
  BY <1>8, ReadPreserves
<1>9. CASE UNCHANGED vars
  BY <1>9 DEF vars, host, loop, dog, IInv, TypeOK, Placed, Opened, Stepping, FairWire, Watched, Ahead,
              Behind, Slept
<1> QED BY <1>1, <1>2, <1>3, <1>4, <1>5, <1>6, <1>7, <1>8, <1>9 DEF Next

-----------------------------------------------------------------------------
(* The theorems. *)

(* The count holds in every reachable state: what a loop last opened and   *)
(* last ran, it did as many iterations ago as its schedule says.           *)
THEOREM LoopInvariant == Spec => []IInv
<1>1. Init => IInv
  BY InitEstablishes
<1>2. IInv /\ [Next]_vars => IInv'
  BY StepKeeps
<1> QED BY <1>1, <1>2, PTL DEF Spec

(* At every sample interval, for every choice of the periods and however   *)
(* long each pass takes, the two snapshots of a process frame are at least *)
(* the window's floor apart and further apart than the schedule puts them  *)
(* only by the passes in between (proc_schedule, win_script).              *)
THEOREM WindowIsAFloorCorrect == Spec => []WindowIsAFloor
<1>1. IInv => WindowIsAFloor
  <2> SUFFICES ASSUME IInv, NEW l \in Range(wire), l.tag = "procs"
               PROVE  /\ l.total >= AtMost(WindowMs, (EmitEvery(interval) - 1) * interval)
                      /\ Apart * interval <= l.total /\ l.total <= Apart * (interval + MaxPass)
    BY DEF WindowIsAFloor
  <2>1. PICK k \in DOMAIN wire : l = wire[k]
    BY DEF Range
  <2>2. wire \in Seq(FairLines(os, interval))
    BY DEF IInv, FairWire
  <2>3. l \in FairLines(os, interval)
    <3> HIDE DEF FairLines
    <3> QED BY <2>1, <2>2
  <2>4. l.total \in Int /\ Floor(interval) <= l.total /\ Within(l.total, Between(os, interval), 0, interval)
    BY <2>3 DEF FairLines, TrueLines
  <2>5. /\ interval \in Nat \ {0} /\ MaxPass \in Nat /\ Between(os, interval) \in Nat
        /\ Floor(interval) \in Int /\ Between(os, interval) = Apart
    BY FloorIsBelow, SamplingAssumption DEF IInv, TypeOK, Between, Apart
  <2>6. Apart * interval \in Int /\ Apart * (interval + MaxPass) \in Int
    BY <2>5
  <2>7. Apart * interval <= l.total /\ l.total <= Apart * (interval + MaxPass)
    BY <2>4, <2>5, <2>6 DEF Within
  <2>8. l.total >= Floor(interval)
    BY <2>4, <2>5
  <2> QED BY <2>7, <2>8 DEF Floor
<1> QED BY <1>1, LoopInvariant, PTL

(* No loop on a Windows host outlives its cap by more than one step of its *)
(* sleep and one pass, nor, when it found the session it came with, that   *)
(* session's end.                                                          *)
THEOREM NoLoopRunsForeverCorrect == Spec => []NoLoopRunsForever
<1>1. IInv => NoLoopRunsForever
  <2> SUFFICES ASSUME IInv, os = "windows", alive
               PROVE  /\ now <= CapMs + StepMs + MaxPass
                      /\ watching /\ ~session => now <= goneAt.session + StepMs + MaxPass
    BY DEF NoLoopRunsForever
  <2>1. now \in Nat /\ CapMs \in Nat /\ StepMs \in Nat /\ MaxPass \in Nat
    BY SamplingAssumption DEF IInv, TypeOK
  <2>2. Ahead \in Nat /\ Ahead <= StepMs + MaxPass
    BY <2>1 DEF Ahead
  <2>3. now <= CapMs + Ahead /\ (watching /\ ~session => goneAt.session \in Nat /\ now <= goneAt.session + Ahead)
    BY DEF IInv, Watched
  <2> QED BY <2>1, <2>2, <2>3
<1> QED BY <1>1, LoopInvariant, PTL

(* The temperatures and df never run an iteration or more ahead of their   *)
(* wall-clock period, whatever the interval (sampler_command).             *)
THEOREM ExtrasKeepTheirPaceCorrect == Spec => ExtrasKeepTheirPace
<1>1. ASSUME IInv, NEW got, Work(got), NEW x \in Extras, ran[x] # None, ran'[x] # ran[x]
      PROVE  ran'[x] - ran[x] > Period[x] - interval
  <2>1. /\ at = "work" /\ os = "unix" /\ i % Every(Period[x], interval) = 0 /\ ran'[x] = now
    BY <1>1 DEF Work
  <2>2. /\ interval \in Nat \ {0} /\ Period[x] \in Nat \ {0} /\ i \in Nat /\ now \in Nat
        /\ ran[x] \in Nat
    BY <1>1, SamplingAssumption DEF IInv, TypeOK, Extras, Period, Times
  <2>3. Every(Period[x], interval) \in Nat \ {0} /\ Every(Period[x], interval) * interval > Period[x] - interval
    BY <2>2, EverySchedule
  <2>4. Within(now - ran[x], Distance(i, Every(Period[x], interval), TRUE), 0, interval)
    BY <1>1, <2>1 DEF IInv, Placed, Behind, Slept
  <2>5. Distance(i, Every(Period[x], interval), TRUE) = Every(Period[x], interval)
    BY <2>1 DEF Distance, Ago
  <2>6. Every(Period[x], interval) * interval \in Int
    BY <2>2, <2>3
  <2>7. Every(Period[x], interval) * interval + 0 <= now - ran[x]
    BY <2>4, <2>5 DEF Within
  <2> QED BY <2>1, <2>2, <2>3, <2>6, <2>7
<1>2. ASSUME IInv, [Next]_vars
      PROVE  [\A x \in Extras : ran[x] # None /\ ran'[x] # ran[x] =>
                ran'[x] - ran[x] > Period[x] - interval]_vars
  <2>1. CASE \E got \in Answers : Work(got)
    BY <1>1, <1>2, <2>1
  <2>2. CASE Sleep \/ WatchedSleep \/ SleepStep \/ Happens \/ Leaves \/ SessionEnds
             \/ \E n \in 1..Len(wire) : Read(n)
    <3>1. ran' = ran
      BY <2>2 DEF Sleep, WatchedSleep, SleepStep, Happens, Leaves, SessionEnds, Read, loop
    <3> QED BY <3>1
  <2>3. CASE UNCHANGED vars
    BY <2>3
  <2> QED BY <1>2, <2>1, <2>2, <2>3 DEF Next
<1> QED BY <1>2, LoopInvariant, PTL DEF Spec, ExtrasKeepTheirPace

-----------------------------------------------------------------------------
(* Sequences. *)

\* To join and then append is to append and then join.
LEMMA AppendJoins ==
  ASSUME NEW S, NEW s \in Seq(S), NEW t \in Seq(S), NEW e \in S
  PROVE  s \o Append(t, e) = Append(s \o t, e)
<1>1. Append(t, e) = t \o <<e>> /\ <<e>> \in Seq(S)
  <2>1. Append(t, e) = t \o <<e>>
    BY AppendIsConcat
  <2> QED BY <2>1
<1>2. s \o t \in Seq(S)
  OBVIOUS
<1>3. Append(s \o t, e) = (s \o t) \o <<e>>
  BY <1>2, AppendIsConcat
<1> QED BY <1>1, <1>3, ConcatAssociative

\* A sequence built by appending has its prefix before the last element.
LEMMA OneMore ==
  ASSUME NEW S, NEW s \in Seq(S), NEW n \in 0..Len(s), n < Len(s)
  PROVE  SubSeq(s, 1, n + 1) = Append(SubSeq(s, 1, n), s[n + 1]) /\ SubSeq(s, 1, n) \in Seq(S)
<1>1. n \in Nat /\ Len(s) \in Nat /\ \A k \in 1..Len(s) : s[k] \in S
  OBVIOUS
<1>2. SubSeq(s, 1, n) \in Seq(S) /\ Len(SubSeq(s, 1, n)) = n /\ \A k \in 1..n : SubSeq(s, 1, n)[k] = s[k]
  OBVIOUS
<1>3. /\ SubSeq(s, 1, n + 1) \in Seq(S) /\ Len(SubSeq(s, 1, n + 1)) = n + 1
      /\ \A k \in 1..(n + 1) : SubSeq(s, 1, n + 1)[k] = s[k]
  OBVIOUS
<1>4. PICK q \in Seq(S) : q = SubSeq(s, 1, n)
  BY <1>2
<1>5. s[n + 1] \in S
  OBVIOUS
<1>6. /\ Append(q, s[n + 1]) \in Seq(S) /\ Len(Append(q, s[n + 1])) = n + 1
      /\ \A k \in 1..(n + 1) : Append(q, s[n + 1])[k] = s[k]
  BY <1>2, <1>4, <1>5
<1>7. SubSeq(s, 1, n + 1) = Append(q, s[n + 1])
  BY <1>3, <1>6, SeqEqual
<1> QED BY <1>2, <1>4, <1>7

\* Three sequences joined either way.
Rejoins(x, y, z, L) ==
  x \o (y \o z) = (x \o y) \o z /\ x \o y \in Seq(L) /\ (x \o y) \o <<>> = x \o y

LEMMA Rejoin ==
  ASSUME NEW L, NEW x \in Seq(L), NEW y \in Seq(L), NEW z \in Seq(L)
  PROVE  Rejoins(x, y, z, L)
<1>1. (x \o y) \o z = x \o (y \o z)
  BY ConcatAssociative
<1>2. x \o y \in Seq(L)
  OBVIOUS
<1>3. (x \o y) \o <<>> = x \o y
  BY <1>2, ConcatEmptySeq
<1> QED BY <1>1, <1>2, <1>3 DEF Rejoins

\* A sequence cut in two, with another one before it.
InTwo(x, w, n, L) ==
  /\ x \o SubSeq(w, 1, n) \in Seq(L) /\ SubSeq(w, n + 1, Len(w)) \in Seq(L)
  /\ x \o w = (x \o SubSeq(w, 1, n)) \o SubSeq(w, n + 1, Len(w))

LEMMA CutInTwo ==
  ASSUME NEW L, NEW x \in Seq(L), NEW w \in Seq(L), NEW n \in 1..Len(w)
  PROVE  InTwo(x, w, n, L)
<1>1. SubSeq(w, 1, n) \in Seq(L) /\ SubSeq(w, n + 1, Len(w)) \in Seq(L)
  OBVIOUS
<1>2. PICK y, z : y = SubSeq(w, 1, n) /\ z = SubSeq(w, n + 1, Len(w))
  OBVIOUS
<1>3. y \in Seq(L) /\ z \in Seq(L)
  BY <1>1, <1>2
<1>4. y \o z = w
  <2>1. y \o z \in Seq(L) /\ Len(y) = n /\ Len(z) = Len(w) - n /\ Len(y \o z) = Len(w)
    BY <1>2, <1>3
  <2>2. \A k \in 1..Len(w) : (y \o z)[k] = w[k]
    BY <1>2, <1>3
  <2> QED BY <2>1, <2>2, SeqEqual
<1>5. x \o (y \o z) = (x \o y) \o z /\ x \o y \in Seq(L)
  <2>1. Rejoins(x, y, z, L)
    BY <1>3, Rejoin
  <2> QED BY <2>1 DEF Rejoins
<1> QED BY <1>2, <1>3, <1>4, <1>5 DEF InTwo

-----------------------------------------------------------------------------
(* Recursion on the length of a sequence. *)

\* Numbers from 0 to N are reached one by one.
LEMMA UpTo ==
  ASSUME NEW N \in Nat, NEW T \in SUBSET (0..N), 0 \in T, \A n \in T : n < N => n + 1 \in T
  PROVE  T = 0..N
<1>1. SUFFICES ASSUME (0..N) \ T # {} PROVE FALSE
  OBVIOUS
<1>2. PICK m \in (0..N) \ T : \A k \in (0..N) \ T : ~(<<k, m>> \in OpToRel(<, Nat))
  <2>1. (0..N) \ T \in SUBSET Nat
    OBVIOUS
  <2> QED BY <1>1, <2>1, NatLessThanWellFounded, WFMin
<1>3. m # 0 /\ m - 1 \in 0..N /\ m - 1 < m
  OBVIOUS
<1>4. m - 1 \in T
  <2>1. <<m - 1, m>> \in OpToRel(<, Nat)
    BY <1>3 DEF OpToRel
  <2> QED BY <1>2, <1>3, <2>1
<1>5. m - 1 < N /\ m - 1 + 1 = m
  OBVIOUS
<1> QED BY <1>4, <1>5

\* f goes from a by the steps F, N times.
FoldsTo(f, N, a, F) ==
  /\ DOMAIN f = 0..N /\ f[0] = a
  /\ \A n \in 1..N : f[n] = F[<<f[n - 1], n>>]

\* There is such a function: the recursion has a solution.
LEMMA FoldExists ==
  ASSUME NEW N \in Nat, NEW V, NEW a \in V, NEW F \in [V \X (1..N) -> V]
  PROVE  \E f \in [0..N -> V] : FoldsTo(f, N, a, F)
<1> DEFINE Upto(f, k) == f[0] = a /\ \A n \in 1..k : f[n] = F[<<f[n - 1], n>>]
           T == {k \in 0..N : \E f \in [0..N -> V] : Upto(f, k)}
<1>1. 0 \in T
  <2> DEFINE f == [n \in 0..N |-> a]
  <2>1. f \in [0..N -> V] /\ Upto(f, 0)
    OBVIOUS
  <2> HIDE DEF f, Upto
  <2> QED BY <2>1
<1>2. ASSUME NEW k \in T, k < N PROVE k + 1 \in T
  <2>1. k \in 0..N /\ k + 1 \in 1..N /\ k + 1 \in 0..N /\ k + 1 - 1 = k
    BY <1>2
  <2>2. PICK f \in [0..N -> V] : Upto(f, k)
    OBVIOUS
  <2>3. PICK v \in V : v = F[<<f[k], k + 1>>]
    <3>1. f[k] \in V
      BY <2>1
    <3>2. <<f[k], k + 1>> \in V \X (1..N)
      BY <2>1, <3>1
    <3> QED BY <3>2
  <2> DEFINE g == [n \in 0..N |-> IF n = k + 1 THEN v ELSE f[n]]
  <2>4. g \in [0..N -> V]
    OBVIOUS
  <2>5. g[0] = a
    BY <2>1, <2>2
  <2>6. ASSUME NEW n \in 1..(k + 1) PROVE g[n] = F[<<g[n - 1], n>>]
    <3>1. n \in 0..N /\ n - 1 \in 0..N /\ n - 1 # k + 1
      BY <2>1
    <3>2. g[n - 1] = f[n - 1]
      BY <3>1
    <3>3. CASE n = k + 1
      BY <2>1, <2>3, <3>1, <3>2, <3>3
    <3>4. CASE n # k + 1
      <4>1. n \in 1..k
        BY <2>1, <3>4
      <4>2. f[n] = F[<<f[n - 1], n>>]
        BY <2>2, <4>1
      <4> QED BY <3>1, <3>2, <3>4, <4>2
    <3> QED BY <3>3, <3>4
  <2> HIDE DEF g
  <2>7. Upto(g, k + 1)
    BY <2>5, <2>6
  <2> HIDE DEF Upto
  <2> QED BY <2>1, <2>4, <2>7
<1>3. N \in T
  <2> HIDE DEF T
  <2>1. T \in SUBSET (0..N)
    BY DEF T
  <2>2. T = 0..N
    BY <1>1, <1>2, <2>1, UpTo
  <2> QED BY <2>2
<1>4. PICK f \in [0..N -> V] : Upto(f, N)
  BY <1>3
<1>5. FoldsTo(f, N, a, F)
  BY <1>4 DEF FoldsTo
<1> QED BY <1>5

SameSteps(f, N, F, G) == \A n \in 1..N : F[<<f[n - 1], n>>] = G[<<f[n - 1], n>>]
Agree(f, g, N) == \A n \in 0..N : g[n] = f[n]

\* Two folds whose steps agree, agree.
LEMMA FoldsAgree ==
  ASSUME NEW N \in Nat, NEW M \in Nat, N <= M, NEW a, NEW F, NEW G, NEW f, NEW g,
         FoldsTo(f, N, a, F), FoldsTo(g, M, a, G),
         SameSteps(f, N, F, G)
  PROVE  Agree(f, g, N)
<1> USE DEF SameSteps, Agree
<1> DEFINE T == {n \in 0..N : g[n] = f[n]}
<1>1. 0 \in T
  BY DEF FoldsTo
<1>2. ASSUME NEW k \in T, k < N PROVE k + 1 \in T
  <2>1. k + 1 \in 1..N /\ k + 1 \in 1..M /\ k + 1 \in 0..N /\ k + 1 - 1 = k
    BY <1>2
  <2>2. f[k + 1] = F[<<f[k], k + 1>>]
    BY <2>1 DEF FoldsTo
  <2>3. g[k + 1] = G[<<g[k], k + 1>>]
    BY <2>1 DEF FoldsTo
  <2>4. F[<<f[k], k + 1>>] = G[<<f[k], k + 1>>]
    BY <2>1
  <2> QED BY <2>1, <2>2, <2>3, <2>4
<1>3. T = 0..N
  <2> HIDE DEF T
  <2>1. T \in SUBSET (0..N)
    BY DEF T
  <2> QED BY <1>1, <1>2, <2>1, UpTo
<1> QED BY <1>3

-----------------------------------------------------------------------------
(* The cut, line by line. *)

Frames(L, D) == [kind : D, lines : Seq(L)]
Cuts(L, D) == [frames : Seq(Frames(L, D)), rest : Seq(L)]
Uncut == [frames |-> <<>>, rest |-> <<>>]

\* What one more line makes of a cut.
Line(cut, l, D) ==
  IF l.tag \in D
  THEN [frames |-> Append(cut.frames, [kind |-> l.tag, lines |-> cut.rest]), rest |-> <<>>]
  ELSE [frames |-> cut.frames, rest |-> Append(cut.rest, l)]

LEMMA LineIsACut ==
  ASSUME NEW L, NEW D, NEW cut \in Cuts(L, D), NEW l \in L
  PROVE  Line(cut, l, D) \in Cuts(L, D)
<1>1. cut.frames \in Seq(Frames(L, D)) /\ cut.rest \in Seq(L)
  BY DEF Cuts
<1>2. CASE l.tag \in D
  <2> DEFINE f == [kind |-> l.tag, lines |-> cut.rest]
  <2>1. f \in Frames(L, D)
    BY <1>1, <1>2 DEF Frames
  <2> HIDE DEF f
  <2>2. Append(cut.frames, f) \in Seq(Frames(L, D)) /\ <<>> \in Seq(L)
    BY <1>1, <2>1
  <2>3. Line(cut, l, D) = [frames |-> Append(cut.frames, f), rest |-> <<>>]
    BY <1>2 DEF Line, f
  <2> QED BY <2>2, <2>3 DEF Cuts
<1>3. CASE l.tag \notin D
  <2>1. Append(cut.rest, l) \in Seq(L)
    BY <1>1
  <2>2. Line(cut, l, D) = [frames |-> cut.frames, rest |-> Append(cut.rest, l)]
    BY <1>3 DEF Line
  <2> QED BY <1>1, <2>1, <2>2 DEF Cuts
<1> QED BY <1>2, <1>3

\* The steps of the cut of b, as a function.
Liner(b, L, D) == [s \in Cuts(L, D) \X (1..Len(b)) |-> Line(s[1], b[s[2]], D)]

\* CutAt is the recursion over its lines.
LEMMA CutAtIsAFold ==
  ASSUME NEW L, NEW D, NEW b \in Seq(L)
  PROVE  \E u \in [0..Len(b) -> Cuts(L, D)] :
           FoldsTo(u, Len(b), Uncut, Liner(b, L, D)) /\ CutAt(b, D) = u[Len(b)]
<1> DEFINE N == Len(b)
           V == Cuts(L, D)
           F == Liner(b, L, D)
           Body(r, n) ==
             LET cut == r[n - 1]
             IN IF n = 0 THEN [frames |-> <<>>, rest |-> <<>>]
                ELSE IF b[n].tag \in D
                THEN [frames |-> Append(cut.frames, [kind |-> b[n].tag, lines |-> cut.rest]), rest |-> <<>>]
                ELSE [frames |-> cut.frames, rest |-> Append(cut.rest, b[n])]
           r == CHOOSE g : g = [n \in 0..N |-> Body(g, n)]
<1>1. CutAt(b, D) = r[N]
  BY DEF CutAt
<1>2. N \in Nat /\ \A n \in 1..N : b[n] \in L
  OBVIOUS
<1>3. Uncut \in V
  BY DEF Uncut, Cuts
<1>4. \A n \in 1..N : \A c \in V : F[<<c, n>>] = Line(c, b[n], D)
  BY DEF Liner
<1>5. F \in [V \X (1..N) -> V]
  <2>1. \A n \in 1..N : \A c \in V : Line(c, b[n], D) \in V
    BY <1>2, LineIsACut
  <2>2. \A s \in V \X (1..N) : Line(s[1], b[s[2]], D) \in V
    <3> HIDE DEF V, N
    <3> QED BY <2>1
  <2> QED BY <2>2 DEF Liner
<1>6. ASSUME NEW g PROVE Body(g, 0) = Uncut /\ \A n \in 1..N : Body(g, n) = Line(g[n - 1], b[n], D)
  BY <1>2 DEF Uncut, Line
<1> HIDE DEF Body, V, F, N
<1>7. PICK u \in [0..N -> V] : FoldsTo(u, N, Uncut, F)
  BY <1>2, <1>3, <1>5, FoldExists
<1>8. ASSUME NEW n \in 1..N, NEW g \in [0..N -> V] PROVE F[<<g[n - 1], n>>] = Line(g[n - 1], b[n], D)
  <2>1. g[n - 1] \in V
    BY <1>2
  <2> QED BY <1>4, <2>1
<1>9. u = [n \in 0..N |-> Body(u, n)]
  <2>1. ASSUME NEW n \in 0..N PROVE u[n] = Body(u, n)
    <3>1. CASE n = 0
      BY <1>6, <1>7, <3>1 DEF FoldsTo
    <3>2. CASE n # 0
      <4>1. n \in 1..N
        BY <1>2, <3>2
      <4>2. u[n] = F[<<u[n - 1], n>>]
        BY <1>7, <4>1 DEF FoldsTo
      <4> QED BY <1>6, <1>8, <4>1, <4>2
    <3> QED BY <3>1, <3>2
  <2> QED BY <2>1
<1>10. r = [n \in 0..N |-> Body(r, n)]
  BY <1>9
<1> HIDE DEF r
<1>11. ASSUME NEW n \in 0..N PROVE r[n] = Body(r, n)
  <2> DEFINE W(k) == Body(r, k)
  <2>1. r = [k \in 0..N |-> W(k)]
    BY <1>10
  <2> HIDE DEF W
  <2>2. r[n] = W(n)
    BY <2>1
  <2> QED BY <2>2 DEF W
<1>12. \A n \in 0..N : r[n] = u[n]
  <2> DEFINE T == {n \in 0..N : r[n] = u[n]}
  <2>1. 0 \in T
    BY <1>2, <1>6, <1>7, <1>11 DEF FoldsTo
  <2>2. ASSUME NEW k \in T, k < N PROVE k + 1 \in T
    <3>1. k + 1 \in 1..N /\ k + 1 \in 0..N /\ k + 1 - 1 = k
      BY <1>2, <2>2
    <3>2. r[k + 1] = Line(r[k], b[k + 1], D)
      BY <1>6, <1>11, <3>1
    <3>3. u[k + 1] = Line(u[k], b[k + 1], D)
      <4>1. u[k + 1] = F[<<u[k], k + 1>>]
        BY <1>7, <3>1 DEF FoldsTo
      <4>2. u[k] \in V
        BY <1>2
      <4>3. F[<<u[k], k + 1>>] = Line(u[k], b[k + 1], D)
        BY <1>4, <3>1, <4>2
      <4> QED BY <4>1, <4>3
    <3> QED BY <3>1, <3>2, <3>3
  <2>3. T \in SUBSET (0..N)
    OBVIOUS
  <2>4. T = 0..N
    <3> HIDE DEF T
    <3> QED BY <1>2, <2>1, <2>2, <2>3, UpTo
  <2> QED BY <2>4
<1>13. CutAt(b, D) = u[N]
  BY <1>1, <1>2, <1>12
<1> QED BY <1>7, <1>13 DEF N, V, F

\* Of no lines there is nothing to cut.
LEMMA CutNothing ==
  ASSUME NEW D
  PROVE  CutAt(<<>>, D) = Uncut
<1>1. <<>> \in Seq({}) /\ Len(<<>>) = 0
  OBVIOUS
<1>2. PICK u : FoldsTo(u, 0, Uncut, Liner(<<>>, {}, D)) /\ CutAt(<<>>, D) = u[0]
  BY <1>1, CutAtIsAFold
<1> QED BY <1>2 DEF FoldsTo

\* A cut of typed lines is typed.
LEMMA CutTyped ==
  ASSUME NEW L, NEW D, NEW b \in Seq(L)
  PROVE  CutAt(b, D) \in Cuts(L, D)
<1>1. PICK u \in [0..Len(b) -> Cuts(L, D)] : CutAt(b, D) = u[Len(b)]
  BY CutAtIsAFold
<1>2. Len(b) \in 0..Len(b)
  OBVIOUS
<1> QED BY <1>1, <1>2

\* The cut of one line more is what that line makes of the cut.
LEMMA CutOneMore ==
  ASSUME NEW L, NEW D, NEW b \in Seq(L), NEW l \in L
  PROVE  CutAt(Append(b, l), D) = Line(CutAt(b, D), l, D)
<1> DEFINE N == Len(b)
           c == Append(b, l)
           F == Liner(b, L, D)
           G == Liner(c, L, D)
<1>0. PICK M \in Nat : M = N + 1
  OBVIOUS
<1>1. /\ c \in Seq(L) /\ Len(c) = M /\ N \in Nat /\ c[M] = l /\ \A n \in 1..N : c[n] = b[n]
      /\ M \in 1..M /\ M - 1 = N /\ N \in 0..M /\ N <= M /\ \A n \in 1..N : n \in 1..M
  BY <1>0
<1>2. PICK u \in [0..N -> Cuts(L, D)] : FoldsTo(u, N, Uncut, F) /\ CutAt(b, D) = u[N]
  BY CutAtIsAFold
<1>3. PICK w \in [0..M -> Cuts(L, D)] : FoldsTo(w, M, Uncut, G) /\ CutAt(c, D) = w[M]
  <2> HIDE DEF c
  <2> QED BY <1>1, CutAtIsAFold
<1> HIDE DEF c
<1>4. \A n \in 1..N : \A k \in Cuts(L, D) : F[<<k, n>>] = Line(k, b[n], D)
  BY DEF Liner
<1>5. \A n \in 1..M : \A k \in Cuts(L, D) : G[<<k, n>>] = Line(k, c[n], D)
  BY <1>1 DEF Liner
<1> HIDE DEF F, G
<1>6. ASSUME NEW n \in 1..N PROVE F[<<u[n - 1], n>>] = G[<<u[n - 1], n>>]
  <2>1. u[n - 1] \in Cuts(L, D) /\ n \in 1..M
    BY <1>1
  <2>2. F[<<u[n - 1], n>>] = Line(u[n - 1], b[n], D)
    BY <1>4, <2>1
  <2>3. G[<<u[n - 1], n>>] = Line(u[n - 1], c[n], D)
    BY <1>5, <2>1
  <2> QED BY <1>1, <2>2, <2>3
<1>7. Agree(u, w, N)
  <2> HIDE DEF N
  <2>1. SameSteps(u, N, F, G)
    BY <1>6 DEF SameSteps
  <2>2. N \in Nat /\ N <= M /\ FoldsTo(u, N, Uncut, F) /\ FoldsTo(w, M, Uncut, G)
    BY <1>1, <1>2, <1>3
  <2> QED BY <2>1, <2>2, FoldsAgree
<1>8. w[M] = Line(w[N], l, D)
  <2>1. w[N] \in Cuts(L, D)
    BY <1>1
  <2>2. w[M] = G[<<w[N], M>>]
    <3>1. w[M] = G[<<w[M - 1], M>>]
      BY <1>1, <1>3 DEF FoldsTo
    <3> QED BY <1>1, <3>1
  <2>3. G[<<w[N], M>>] = Line(w[N], c[M], D)
    BY <1>1, <1>5, <2>1
  <2> QED BY <1>1, <2>2, <2>3
<1>9. w[N] = u[N]
  BY <1>1, <1>7 DEF Agree
<1> QED BY <1>2, <1>3, <1>8, <1>9 DEF c

\* Every sequence is built by appending.
LEMMA ByAppending ==
  ASSUME NEW S, NEW P \in SUBSET Seq(S), <<>> \in P, \A s \in P : \A e \in S : Append(s, e) \in P
  PROVE  P = Seq(S)
<1> SUFFICES ASSUME NEW s \in Seq(S) PROVE s \in P
  OBVIOUS
<1> DEFINE T == {n \in 0..Len(s) : SubSeq(s, 1, n) \in P}
<1>1. 0 \in T
  <2>1. SubSeq(s, 1, 0) = <<>> /\ 0 \in 0..Len(s)
    OBVIOUS
  <2> QED BY <2>1
<1>2. ASSUME NEW n \in T, n < Len(s) PROVE n + 1 \in T
  <2>1. n + 1 \in 1..Len(s) /\ n \in 0..Len(s) /\ n + 1 \in 0..Len(s)
    BY <1>2
  <2>2. s[n + 1] \in S
    BY <2>1
  <2>3. SubSeq(s, 1, n + 1) = Append(SubSeq(s, 1, n), s[n + 1])
    BY <1>2, <2>1, OneMore
  <2>4. Append(SubSeq(s, 1, n), s[n + 1]) \in P
    BY <2>2
  <2> QED BY <2>1, <2>3, <2>4
<1>3. T = 0..Len(s)
  <2>1. T \in SUBSET (0..Len(s)) /\ Len(s) \in Nat
    OBVIOUS
  <2> HIDE DEF T
  <2> QED BY <1>1, <1>2, <2>1, UpTo
<1>4. SubSeq(s, 1, Len(s)) = s
  OBVIOUS
<1>5. Len(s) \in 0..Len(s)
  OBVIOUS
<1>6. SubSeq(s, 1, Len(s)) \in P
  BY <1>3, <1>5
<1> QED BY <1>4, <1>6

\* What is kept for the next read has no delimiter in it.
LEMMA RestIsUncut ==
  ASSUME NEW L, NEW D, NEW b \in Seq(L)
  PROVE  CutAt(CutAt(b, D).rest, D) = [frames |-> <<>>, rest |-> CutAt(b, D).rest]
<1> DEFINE Plainly(r) == CutAt(r, D) = [frames |-> <<>>, rest |-> r]
           P == {s \in Seq(L) : Plainly(CutAt(s, D).rest)}
<1>0. Plainly(<<>>)
  BY CutNothing DEF Uncut
<1>1. <<>> \in P
  <2>1. CutAt(<<>>, D).rest = <<>> /\ <<>> \in Seq(L)
    BY CutNothing DEF Uncut
  <2> QED BY <1>0, <2>1
<1>2. ASSUME NEW s \in P, NEW l \in L PROVE Append(s, l) \in P
  <2>1. PICK c \in Cuts(L, D) : c = CutAt(s, D)
    BY CutTyped
  <2>2. PICK r \in Seq(L) : r = c.rest
    BY DEF Cuts
  <2>3. CutAt(Append(s, l), D) = Line(c, l, D)
    BY <2>1, CutOneMore
  <2>4. Append(s, l) \in Seq(L)
    OBVIOUS
  <2>5. CutAt(r, D) = [frames |-> <<>>, rest |-> r]
    BY <2>1, <2>2
  <2>6. CutAt(Append(r, l), D) = Line([frames |-> <<>>, rest |-> r], l, D)
    BY <2>5, CutOneMore
  <2>7. CASE l.tag \in D
    <3>1. CutAt(Append(s, l), D).rest = <<>>
      BY <2>3, <2>7 DEF Line
    <3> QED BY <1>0, <2>4, <3>1
  <2>8. CASE l.tag \notin D
    <3>1. CutAt(Append(s, l), D).rest = Append(r, l)
      BY <2>2, <2>3, <2>8 DEF Line
    <3>2. Plainly(Append(r, l))
      BY <2>6, <2>8 DEF Line
    <3> QED BY <2>4, <3>1, <3>2
  <2> QED BY <2>7, <2>8
<1>3. P = Seq(L)
  <2>1. P \in SUBSET Seq(L)
    OBVIOUS
  <2> HIDE DEF P
  <2> QED BY <1>1, <1>2, <2>1, ByAppending
<1> QED BY <1>3

\* A stream cut in two reads is cut into the same frames.
LEMMA CutsJoin ==
  ASSUME NEW L, NEW D, NEW x \in Seq(L), NEW y \in Seq(L)
  PROVE  LET t == CutAt(CutAt(x, D).rest \o y, D)
         IN CutAt(x \o y, D) = [frames |-> CutAt(x, D).frames \o t.frames, rest |-> t.rest]
<1>1. PICK c \in Cuts(L, D) : c = CutAt(x, D)
  BY CutTyped
<1>2. PICK r \in Seq(L) : r = c.rest
  BY DEF Cuts
<1>3. PICK g \in Seq(Frames(L, D)) : g = c.frames
  BY DEF Cuts
<1>4. c = [frames |-> g, rest |-> r]
  BY <1>2, <1>3 DEF Cuts
<1> DEFINE Joined(s) == CutAt(x \o s, D) = [frames |-> g \o CutAt(r \o s, D).frames, rest |-> CutAt(r \o s, D).rest]
           P == {s \in Seq(L) : Joined(s)}
<1>5. <<>> \in P
  <2>1. x \o <<>> = x /\ r \o <<>> = r /\ g \o <<>> = g /\ <<>> \in Seq(L)
    OBVIOUS
  <2>2. CutAt(r, D) = [frames |-> <<>>, rest |-> r]
    BY <1>1, <1>2, RestIsUncut
  <2>3. CutAt(x, D) = [frames |-> g \o <<>>, rest |-> r]
    BY <1>1, <1>4, <2>1
  <2>4. Joined(<<>>)
    BY <2>1, <2>2, <2>3
  <2> HIDE DEF Joined
  <2> QED BY <2>1, <2>4
<1>6. ASSUME NEW s \in P, NEW l \in L PROVE Append(s, l) \in P
  <2>1. /\ x \o Append(s, l) = Append(x \o s, l) /\ r \o Append(s, l) = Append(r \o s, l)
        /\ x \o s \in Seq(L) /\ r \o s \in Seq(L) /\ Append(s, l) \in Seq(L)
    <3>1. s \in Seq(L)
      OBVIOUS
    <3> HIDE DEF P
    <3>2. x \o Append(s, l) = Append(x \o s, l)
      BY <3>1, AppendJoins
    <3>3. r \o Append(s, l) = Append(r \o s, l)
      BY <3>1, AppendJoins
    <3>4. x \o s \in Seq(L) /\ r \o s \in Seq(L) /\ Append(s, l) \in Seq(L)
      BY <3>1
    <3> QED BY <3>2, <3>3, <3>4
  <2>2. PICK t \in Cuts(L, D) : t = CutAt(r \o s, D)
    BY <2>1, CutTyped
  <2>3. PICK h \in Seq(Frames(L, D)) : h = t.frames
    BY DEF Cuts
  <2>4. CutAt(r \o Append(s, l), D) = Line(t, l, D)
    BY <2>1, <2>2, CutOneMore
  <2>5. CutAt(x \o Append(s, l), D) = Line([frames |-> g \o h, rest |-> t.rest], l, D)
    <3>1. CutAt(x \o s, D) = [frames |-> g \o h, rest |-> t.rest]
      BY <2>2, <2>3
    <3>2. CutAt(Append(x \o s, l), D) = Line(CutAt(x \o s, D), l, D)
      BY <2>1, CutOneMore
    <3> QED BY <2>1, <3>1, <3>2
  <2>6. Joined(Append(s, l))
    <3>1. CASE l.tag \in D
      <4> DEFINE f == [kind |-> l.tag, lines |-> t.rest]
      <4>1. f \in Frames(L, D)
        BY <3>1 DEF Cuts, Frames
      <4>2. Line(t, l, D) = [frames |-> Append(h, f), rest |-> <<>>]
        BY <2>3, <3>1 DEF Line
      <4>3. Line([frames |-> g \o h, rest |-> t.rest], l, D) = [frames |-> Append(g \o h, f), rest |-> <<>>]
        BY <3>1 DEF Line
      <4> HIDE DEF f
      <4>4. Append(g \o h, f) = g \o Append(h, f)
        <5> PICK S : S = Frames(L, D)
          OBVIOUS
        <5>1. g \in Seq(S) /\ h \in Seq(S) /\ f \in S
          BY <4>1
        <5>2. g \o Append(h, f) = Append(g \o h, f)
          BY <5>1, AppendJoins, SMTT(30)
        <5> QED BY <5>2
      <4>5. CutAt(x \o Append(s, l), D) = [frames |-> g \o Append(h, f), rest |-> <<>>]
        BY <2>5, <4>3, <4>4
      <4>6. CutAt(r \o Append(s, l), D) = [frames |-> Append(h, f), rest |-> <<>>]
        BY <2>4, <4>2
      <4> QED BY <4>5, <4>6
    <3>2. CASE l.tag \notin D
      <4>1. Line(t, l, D) = [frames |-> h, rest |-> Append(t.rest, l)]
        BY <2>3, <3>2 DEF Line
      <4>2. Line([frames |-> g \o h, rest |-> t.rest], l, D) = [frames |-> g \o h, rest |-> Append(t.rest, l)]
        BY <3>2 DEF Line
      <4> QED BY <2>4, <2>5, <4>1, <4>2
    <3> QED BY <3>1, <3>2
  <2> QED BY <2>1, <2>6
<1>7. P = Seq(L)
  <2>1. P \in SUBSET Seq(L)
    OBVIOUS
  <2> HIDE DEF P
  <2> QED BY <1>5, <1>6, <2>1, ByAppending
<1> QED BY <1>1, <1>2, <1>3, <1>7

\* Lines without a delimiter are all rest.
LEMMA CutBody ==
  ASSUME NEW L, NEW D, NEW b \in Seq(L), \A n \in 1..Len(b) : b[n].tag \notin D
  PROVE  CutAt(b, D) = [frames |-> <<>>, rest |-> b]
<1> DEFINE Plainly(s) == (\A n \in 1..Len(s) : s[n].tag \notin D) => CutAt(s, D) = [frames |-> <<>>, rest |-> s]
           P == {s \in Seq(L) : Plainly(s)}
<1>1. <<>> \in P
  <2>1. CutAt(<<>>, D) = [frames |-> <<>>, rest |-> <<>>]
    BY CutNothing DEF Uncut
  <2>2. Plainly(<<>>) /\ <<>> \in Seq(L)
    BY <2>1
  <2> HIDE DEF Plainly
  <2> QED BY <2>2
<1>2. ASSUME NEW s \in P, NEW l \in L PROVE Append(s, l) \in P
  <2>0. s \in Seq(L) /\ Plainly(s)
    OBVIOUS
  <2>7. Append(s, l) \in Seq(L)
    BY <2>0
  <2>8. SUFFICES Plainly(Append(s, l))
    <3> HIDE DEF Plainly
    <3> QED BY <2>7
  <2> HIDE DEF P
  <2>1. SUFFICES ASSUME \A n \in 1..Len(Append(s, l)) : Append(s, l)[n].tag \notin D
                 PROVE  CutAt(Append(s, l), D) = [frames |-> <<>>, rest |-> Append(s, l)]
    OBVIOUS
  <2>2. /\ Len(Append(s, l)) = Len(s) + 1 /\ Append(s, l)[Len(s) + 1] = l /\ Len(s) \in Nat
        /\ \A n \in 1..Len(s) : Append(s, l)[n] = s[n]
    BY <2>0
  <2>3. \A n \in 1..Len(s) : s[n].tag \notin D
    <3> TAKE n \in 1..Len(s)
    <3>1. n \in 1..Len(Append(s, l))
      BY <2>2
    <3> QED BY <2>1, <2>2, <3>1
  <2>4. l.tag \notin D
    <3>1. Len(s) + 1 \in 1..Len(Append(s, l))
      BY <2>2
    <3> QED BY <2>1, <2>2, <3>1
  <2>5. CutAt(s, D) = [frames |-> <<>>, rest |-> s]
    BY <2>0, <2>3
  <2>6. CutAt(Append(s, l), D) = Line([frames |-> <<>>, rest |-> s], l, D)
    BY <2>0, <2>5, CutOneMore
  <2> QED BY <2>4, <2>6 DEF Line
<1>3. P = Seq(L)
  <2>1. P \in SUBSET Seq(L)
    OBVIOUS
  <2> HIDE DEF P
  <2> QED BY <1>1, <1>2, <2>1, ByAppending
<1> QED BY <1>3

\* A frame written to a stream of whole frames is the last of them.
LEMMA CutOneFrameMore ==
  ASSUME NEW L, NEW D, NEW x \in Seq(L), CutAt(x, D).rest = <<>>,
         NEW b \in Seq(L), \A n \in 1..Len(b) : b[n].tag \notin D, NEW e \in L, e.tag \in D
  PROVE  CutAt(x \o Append(b, e), D) =
           [frames |-> Append(CutAt(x, D).frames, [kind |-> e.tag, lines |-> b]), rest |-> <<>>]
<1> DEFINE f == [kind |-> e.tag, lines |-> b]
<1>1. Append(b, e) \in Seq(L) /\ <<>> \o Append(b, e) = Append(b, e)
  OBVIOUS
<1>2. CutAt(Append(b, e), D) = Line([frames |-> <<>>, rest |-> b], e, D)
  <2>1. CutAt(b, D) = [frames |-> <<>>, rest |-> b]
    BY CutBody
  <2>2. CutAt(Append(b, e), D) = Line(CutAt(b, D), e, D)
    BY CutOneMore
  <2> QED BY <2>1, <2>2
<1>3. Line([frames |-> <<>>, rest |-> b], e, D) = [frames |-> <<f>>, rest |-> <<>>]
  BY DEF Line
<1>4. CutAt(x \o Append(b, e), D) = [frames |-> CutAt(x, D).frames \o <<f>>, rest |-> <<>>]
  <2>1. PICK y \in Seq(L) : y = Append(b, e)
    BY <1>1
  <2>2. CutAt(<<>> \o y, D) = [frames |-> <<f>>, rest |-> <<>>]
    BY <1>1, <1>2, <1>3, <2>1
  <2>3. CutAt(CutAt(x, D).rest \o y, D) = [frames |-> <<f>>, rest |-> <<>>]
    BY <2>2
  <2> HIDE DEF f
  <2> PICK t : t = CutAt(CutAt(x, D).rest \o y, D)
    OBVIOUS
  <2>4. CutAt(x \o y, D) = [frames |-> CutAt(x, D).frames \o t.frames, rest |-> t.rest]
    BY CutsJoin
  <2>5. t.frames = <<f>> /\ t.rest = <<>>
    BY <2>3
  <2> QED BY <2>1, <2>4, <2>5
<1>5. f \in Frames(L, D)
  BY DEF Frames
<1>6. CutAt(x, D).frames \in Seq(Frames(L, D))
  BY CutTyped DEF Cuts
<1>7. CutAt(x, D).frames \o <<f>> = Append(CutAt(x, D).frames, f)
  <2> HIDE DEF f
  <2> PICK S : S = Frames(L, D)
    OBVIOUS
  <2> PICK g : g = CutAt(x, D).frames
    OBVIOUS
  <2>1. g \in Seq(S) /\ f \in S
    BY <1>5, <1>6
  <2>2. Append(g, f) = g \o <<f>>
    BY <2>1, AppendIsConcat
  <2> QED BY <2>2
<1> QED BY <1>4, <1>7

-----------------------------------------------------------------------------
(* What a parser finds. *)

\* Total is the recursion over its lines.
LEMMA TotalSums ==
  ASSUME NEW s \in Seq(TrueLines)
  PROVE  \E f \in [0..Len(s) -> Int] :
           /\ f[0] = 0 /\ Total(s) = f[Len(s)]
           /\ \A n \in 1..Len(s) : f[n] = f[n - 1] + (IF s[n].tag = "bytes" THEN s[n].n ELSE 0)
<1> DEFINE N == Len(s)
           Add(n) == IF s[n].tag = "bytes" THEN s[n].n ELSE 0
           F == [x \in Int \X (1..N) |-> x[1] + Add(x[2])]
           Body(r, n) == IF n = 0 THEN 0 ELSE r[n - 1] + (IF s[n].tag = "bytes" THEN s[n].n ELSE 0)
           r == CHOOSE g : g = [n \in 0..N |-> Body(g, n)]
<1>1. Total(s) = r[N]
  BY DEF Total
<1>2. \A n \in 1..N : Add(n) \in Int
  <2> TAKE n \in 1..N
  <2>1. s[n] \in TrueLines
    <3> HIDE DEF TrueLines
    <3> QED OBVIOUS
  <2> QED BY <2>1 DEF TrueLines
<1>3. N \in Nat
  OBVIOUS
<1>4. ASSUME NEW g, NEW n \in 0..N PROVE Body(g, n) = IF n = 0 THEN 0 ELSE g[n - 1] + Add(n)
  OBVIOUS
<1> HIDE DEF N, Add, Body
<1>5. F \in [Int \X (1..N) -> Int]
  BY <1>2
<1>6. \A x \in Int : \A n \in 1..N : F[<<x, n>>] = x + Add(n)
  OBVIOUS
<1> HIDE DEF F
<1>7. PICK f \in [0..N -> Int] : FoldsTo(f, N, 0, F)
  <2>1. 0 \in Int
    OBVIOUS
  <2> HIDE DEF r
  <2> QED BY <1>3, <1>5, <2>1, FoldExists, Zenon
<1>8. f[0] = 0 /\ \A n \in 1..N : f[n] = f[n - 1] + Add(n)
  <2>1. ASSUME NEW n \in 1..N PROVE f[n] = f[n - 1] + Add(n)
    <3>1. n - 1 \in 0..N
      BY <1>3
    <3>2. f[n - 1] \in Int
      BY <3>1
    <3>3. f[n] = F[<<f[n - 1], n>>]
      BY <1>7 DEF FoldsTo
    <3> QED BY <1>6, <3>2, <3>3
  <2> QED BY <1>7, <2>1 DEF FoldsTo
<1>9. f = [n \in 0..N |-> Body(f, n)]
  <2>1. ASSUME NEW n \in 0..N PROVE f[n] = Body(f, n)
    <3>1. n # 0 => n \in 1..N
      BY <1>3
    <3> QED BY <1>4, <1>8, <3>1
  <2> QED BY <2>1
<1>10. r = [n \in 0..N |-> Body(r, n)]
  BY <1>9
<1> HIDE DEF r
<1>11. ASSUME NEW n \in 0..N PROVE r[n] = Body(r, n)
  <2> DEFINE W(k) == Body(r, k)
  <2>1. r = [k \in 0..N |-> W(k)]
    BY <1>10
  <2> HIDE DEF W
  <2>2. r[n] = W(n)
    BY <2>1
  <2> QED BY <2>2 DEF W
<1> DEFINE T == {n \in 0..N : r[n] = f[n]}
<1>12. 0 \in T
  BY <1>3, <1>4, <1>8, <1>11
<1>13. ASSUME NEW k \in T, k < N PROVE k + 1 \in T
  <2>1. k + 1 \in 1..N /\ k + 1 \in 0..N /\ k + 1 - 1 = k /\ k + 1 # 0
    BY <1>3, <1>13
  <2>2. r[k + 1] = r[k] + Add(k + 1)
    BY <1>4, <1>11, <2>1
  <2>3. f[k + 1] = f[k] + Add(k + 1)
    BY <1>8, <2>1
  <2> QED BY <2>1, <2>2, <2>3
<1>14. T = 0..N
  <2>1. T \in SUBSET (0..N)
    OBVIOUS
  <2> HIDE DEF T
  <2> QED BY <1>3, <1>12, <1>13, <2>1, UpTo
<1>15. r[N] = f[N]
  <2>1. N \in 0..N
    BY <1>3
  <2> QED BY <1>14, <2>1
<1> QED BY <1>1, <1>8, <1>15 DEF N, Add

LEMMA TwoInARow ==
  ASSUME NEW S, NEW x \in S, NEW y \in S
  PROVE  <<x>> \o <<y>> = <<x, y>>
<1>1. <<x>> \in Seq(S) /\ <<x, y>> = Append(<<x>>, y)
  OBVIOUS
<1> QED BY <1>1, AppendIsConcat

LEMMA ThreeInARow ==
  ASSUME NEW S, NEW x \in S, NEW y \in S, NEW z \in S
  PROVE  <<x>> \o <<y, z>> = <<x, y, z>>
<1>1. <<x>> \in Seq(S) /\ <<y>> \in Seq(S)
  OBVIOUS
<1>2. <<y, z>> = Append(<<y>>, z) /\ <<x, y, z>> = Append(<<x, y>>, z) /\ <<x, y>> = Append(<<x>>, y)
  OBVIOUS
<1>3. <<x>> \o <<y, z>> = Append(<<x>> \o <<y>>, z)
  BY <1>1, <1>2, AppendJoins
<1>4. <<x>> \o <<y>> = <<x, y>>
  BY <1>1, <1>2, AppendIsConcat
<1> QED BY <1>2, <1>3, <1>4

\* A tag that one line has is first there.
LEMMA OnlyOne ==
  ASSUME NEW lines, NEW tag, NEW k \in Int, With(lines, tag) = {k}
  PROVE  Has(lines, tag) /\ First(lines, tag) = lines[k]
BY DEF Has, First, Min

\* A frame before its delimiter.
MetricBody(got) == (IF i = 0 THEN Facts ELSE <<>>) \o Counters(got)

Bytes == [tag |-> "bytes", n |-> net, ever |-> ever.net]

\* The metric frame of this iteration, line by line.
BodyOf(got, facts, stat, bytes) ==
  IF i = 0
  THEN IF "stat" \in got THEN IF "bytes" \in got THEN <<facts, stat, bytes>> ELSE <<facts, stat>>
                         ELSE IF "bytes" \in got THEN <<facts, bytes>> ELSE <<facts>>
  ELSE IF "stat" \in got THEN IF "bytes" \in got THEN <<stat, bytes>> ELSE <<stat>>
                         ELSE IF "bytes" \in got THEN <<bytes>> ELSE <<>>

LEMMA MetricBodyIs ==
  ASSUME TypeOK, NEW got
  PROVE  /\ MetricBody(got) = BodyOf(got, [tag |-> "facts"], [tag |-> "stat"], Bytes)
         /\ MetricBody(got) \in Seq(TrueLines)
         /\ Metric(got) = Append(MetricBody(got), End("metric")) /\ End("metric") \in TrueLines
<1>1. End("metric") \in TrueLines /\ [tag |-> "facts"] \in TrueLines /\ [tag |-> "stat"] \in TrueLines
  BY DEF TrueLines, End
<1>2. Bytes \in TrueLines
  BY DEF TrueLines, TypeOK, Counts, Bytes
<1>3. PICK facts, stat, bytes, end : /\ facts = [tag |-> "facts"] /\ stat = [tag |-> "stat"] /\ bytes = Bytes
                                     /\ end = End("metric")
  OBVIOUS
<1>4. facts \in TrueLines /\ stat \in TrueLines /\ bytes \in TrueLines /\ end \in TrueLines
  BY <1>1, <1>2, <1>3
<1> HIDE DEF TrueLines
<1>5. Facts = <<facts>>
      /\ Counters(got) = (IF "stat" \in got THEN <<stat>> ELSE <<>>) \o (IF "bytes" \in got THEN <<bytes>> ELSE <<>>)
  BY <1>3 DEF Facts, Counters, Bytes
<1>6. /\ <<stat>> \o <<bytes>> = <<stat, bytes>> /\ <<facts>> \o <<stat>> = <<facts, stat>>
      /\ <<facts>> \o <<bytes>> = <<facts, bytes>> /\ <<facts>> \o <<stat, bytes>> = <<facts, stat, bytes>>
  BY <1>4, TwoInARow, ThreeInARow
<1>7. /\ <<facts, stat, bytes>> \in Seq(TrueLines) /\ <<facts, stat>> \in Seq(TrueLines)
      /\ <<facts, bytes>> \in Seq(TrueLines) /\ <<facts>> \in Seq(TrueLines)
      /\ <<stat, bytes>> \in Seq(TrueLines) /\ <<stat>> \in Seq(TrueLines) /\ <<bytes>> \in Seq(TrueLines)
      /\ <<>> \in Seq(TrueLines)
  BY <1>4
<1>8. ASSUME NEW x \in Seq(TrueLines) PROVE <<>> \o x = x /\ x \o <<>> = x
  BY ConcatEmptySeq
<1>9. Counters(got) = IF "stat" \in got THEN IF "bytes" \in got THEN <<stat, bytes>> ELSE <<stat>>
                                        ELSE IF "bytes" \in got THEN <<bytes>> ELSE <<>>
  BY <1>5, <1>6, <1>7, <1>8
<1>10. MetricBody(got) = BodyOf(got, facts, stat, bytes)
  <2>1. CASE i = 0
    BY <1>5, <1>6, <1>7, <1>8, <1>9, <2>1 DEF MetricBody, BodyOf
  <2>2. CASE i # 0
    BY <1>7, <1>8, <1>9, <2>2 DEF MetricBody, BodyOf
  <2> QED BY <2>1, <2>2
<1>11. MetricBody(got) \in Seq(TrueLines)
  BY <1>7, <1>10 DEF BodyOf
<1>12. Metric(got) = Append(MetricBody(got), End("metric"))
  <2>1. Metric(got) = MetricBody(got) \o <<End("metric")>>
    BY DEF Metric, MetricBody
  <2> QED BY <1>1, <1>11, <2>1, AppendIsConcat
<1> QED BY <1>1, <1>3, <1>10, <1>11, <1>12

\* Of a few lines whose last one may count bytes.
LEMMA LastCounts ==
  ASSUME NEW b \in Seq(TrueLines), Len(b) \in 0..3, \A n \in 1..(Len(b) - 1) : b[n].tag # "bytes",
         NEW last, last <=> Len(b) > 0 /\ b[Len(b)].tag = "bytes"
  PROVE  /\ Has(b, "bytes") <=> last
         /\ last => Total(b) = b[Len(b)].n /\ First(b, "bytes") = b[Len(b)] /\ b[Len(b)].n \in Int
         /\ ~last => Total(b) = 0
<1>1. PICK f \in [0..Len(b) -> Int] :
        /\ f[0] = 0 /\ Total(b) = f[Len(b)]
        /\ \A n \in 1..Len(b) : f[n] = f[n - 1] + (IF b[n].tag = "bytes" THEN b[n].n ELSE 0)
  <2> HIDE DEF TrueLines
  <2> QED BY TotalSums
<1>2. PICK N \in 0..3 : N = Len(b)
  OBVIOUS
<1>3. DOMAIN b = 1..N
  <2> HIDE DEF TrueLines
  <2> QED BY <1>2
<1>4. ASSUME NEW n \in 1..N PROVE b[n] \in TrueLines
  <2> HIDE DEF TrueLines
  <2> QED BY <1>2, <1>4
<1>5. \A n \in 1..(N - 1) : f[n] = f[n - 1]
  <2>1. ASSUME NEW n \in 1..(N - 1) PROVE f[n] = f[n - 1]
    <3>1. n \in 1..Len(b) /\ b[n].tag # "bytes" /\ n - 1 \in 0..Len(b)
      BY <1>2
    <3>2. f[n - 1] \in Int
      BY <3>1
    <3>3. f[n] = f[n - 1] + 0
      BY <1>1, <3>1
    <3> QED BY <3>2, <3>3
  <2> QED BY <2>1
<1>6. N > 0 => f[N - 1] = 0
  BY <1>1, <1>2, <1>5
<1>7. CASE last
  <2>1. N > 0 /\ N \in 1..N /\ b[N].tag = "bytes"
    BY <1>2, <1>7
  <2>2. b[N].n \in Int
    <3>1. b[N] \in TrueLines
      BY <1>4, <2>1
    <3> QED BY <2>1, <3>1 DEF TrueLines
  <2>3. f[N] = 0 + b[N].n
    BY <1>1, <1>2, <1>6, <2>1
  <2>4. With(b, "bytes") = {N}
    BY <1>2, <1>3, <2>1 DEF With
  <2> HIDE DEF TrueLines
  <2> QED BY <1>1, <1>2, <1>7, <2>2, <2>3, <2>4, OnlyOne
<1>8. CASE ~last
  <2>1. N > 0 => b[N].tag # "bytes"
    BY <1>2, <1>8
  <2>2. Total(b) = 0
    <3>1. CASE N = 0
      BY <1>1, <1>2, <3>1
    <3>2. CASE N > 0
      <4>1. f[N] = f[N - 1] + 0
        BY <1>1, <1>2, <2>1, <3>2
      <4> QED BY <1>1, <1>2, <1>6, <3>2, <4>1
    <3> QED BY <3>1, <3>2
  <2>3. With(b, "bytes") = {}
    BY <1>2, <1>3, <2>1 DEF With
  <2> QED BY <1>8, <2>2, <2>3 DEF Has
<1> QED BY <1>7, <1>8

\* What a parser reads in the metric frame of this iteration.
LEMMA MetricReads ==
  ASSUME TypeOK, NEW got, NEW b, b = MetricBody(got)
  PROVE  /\ Parse(b) = IF "bytes" \in got THEN [bytes |-> net, ever |-> ever.net] ELSE [bytes |-> 0, ever |-> 0]
         /\ Has(b, "stat") <=> "stat" \in got
         /\ Has(b, "bytes") <=> "bytes" \in got
         /\ \A n \in 1..Len(b) : b[n].tag \in {"facts", "stat", "bytes"}
<1>1. PICK facts, stat, bytes : facts = [tag |-> "facts"] /\ stat = [tag |-> "stat"] /\ bytes = Bytes
  OBVIOUS
<1>2. /\ facts.tag = "facts" /\ stat.tag = "stat"
      /\ bytes.tag = "bytes" /\ bytes.n = net /\ bytes.ever = ever.net /\ net \in Int
  BY <1>1 DEF Bytes, TypeOK
<1>3. b \in Seq(TrueLines) /\ b = BodyOf(got, facts, stat, bytes)
  BY <1>1, MetricBodyIs
<1>4. /\ Len(b) \in 0..3 /\ DOMAIN b = 1..Len(b) /\ \A n \in 1..(Len(b) - 1) : b[n].tag # "bytes"
      /\ "bytes" \in got <=> Len(b) > 0 /\ b[Len(b)].tag = "bytes"
      /\ "bytes" \in got => b[Len(b)] = bytes
      /\ \A n \in 1..Len(b) : b[n].tag \in {"facts", "stat", "bytes"}
      /\ "stat" \in got <=> \E n \in 1..Len(b) : b[n].tag = "stat"
  <2>1. CASE "bytes" \in got
    <3>1. \/ b = <<facts, stat, bytes>> /\ "stat" \in got
          \/ b = <<facts, bytes>> /\ "stat" \notin got
          \/ b = <<stat, bytes>> /\ "stat" \in got
          \/ b = <<bytes>> /\ "stat" \notin got
      BY <1>3, <2>1 DEF BodyOf
    <3>2. CASE b = <<facts, stat, bytes>> /\ "stat" \in got
      <4>1. Len(b) = 3 /\ DOMAIN b = 1..3 /\ b[1] = facts /\ b[2] = stat /\ b[3] = bytes
        BY <3>2
      <4> QED BY <1>2, <2>1, <3>2, <4>1
    <3>3. CASE b = <<facts, bytes>> /\ "stat" \notin got
      <4>1. Len(b) = 2 /\ DOMAIN b = 1..2 /\ b[1] = facts /\ b[2] = bytes
        BY <3>3
      <4> QED BY <1>2, <2>1, <3>3, <4>1
    <3>4. CASE b = <<stat, bytes>> /\ "stat" \in got
      <4>1. Len(b) = 2 /\ DOMAIN b = 1..2 /\ b[1] = stat /\ b[2] = bytes
        BY <3>4
      <4> QED BY <1>2, <2>1, <3>4, <4>1
    <3>5. CASE b = <<bytes>> /\ "stat" \notin got
      <4>1. Len(b) = 1 /\ DOMAIN b = 1..1 /\ b[1] = bytes
        BY <3>5
      <4> QED BY <1>2, <2>1, <3>5, <4>1
    <3> QED BY <3>1, <3>2, <3>3, <3>4, <3>5
  <2>2. CASE "bytes" \notin got
    <3>1. \/ b = <<facts, stat>> /\ "stat" \in got
          \/ b = <<facts>> /\ "stat" \notin got
          \/ b = <<stat>> /\ "stat" \in got
          \/ b = <<>> /\ "stat" \notin got
      BY <1>3, <2>2 DEF BodyOf
    <3>2. CASE b = <<facts, stat>> /\ "stat" \in got
      <4>1. Len(b) = 2 /\ DOMAIN b = 1..2 /\ b[1] = facts /\ b[2] = stat
        BY <3>2
      <4> QED BY <1>2, <2>2, <3>2, <4>1
    <3>3. CASE b = <<facts>> /\ "stat" \notin got
      <4>1. Len(b) = 1 /\ DOMAIN b = 1..1 /\ b[1] = facts
        BY <3>3
      <4> QED BY <1>2, <2>2, <3>3, <4>1
    <3>4. CASE b = <<stat>> /\ "stat" \in got
      <4>1. Len(b) = 1 /\ DOMAIN b = 1..1 /\ b[1] = stat
        BY <3>4
      <4> QED BY <1>2, <2>2, <3>4, <4>1
    <3>5. CASE b = <<>> /\ "stat" \notin got
      <4>1. Len(b) = 0 /\ DOMAIN b = 1..0
        BY <3>5
      <4> QED BY <2>2, <3>5, <4>1
    <3> QED BY <3>1, <3>2, <3>3, <3>4, <3>5
  <2> QED BY <2>1, <2>2
<1>5. Has(b, "stat") <=> "stat" \in got
  BY <1>4 DEF Has, With
<1>6. /\ Has(b, "bytes") <=> "bytes" \in got
      /\ "bytes" \in got => Total(b) = bytes.n /\ First(b, "bytes") = bytes
      /\ ~("bytes" \in got) => Total(b) = 0
  <2>1. PICK last \in BOOLEAN : last <=> "bytes" \in got
    OBVIOUS
  <2> HIDE DEF TrueLines
  <2>2. /\ Has(b, "bytes") <=> last
        /\ last => Total(b) = b[Len(b)].n /\ First(b, "bytes") = b[Len(b)]
        /\ ~last => Total(b) = 0
    BY <1>3, <1>4, <2>1, LastCounts
  <2> QED BY <1>4, <2>1, <2>2
<1>7. Parse(b) = IF "bytes" \in got THEN [bytes |-> net, ever |-> ever.net] ELSE [bytes |-> 0, ever |-> 0]
  <2>1. CASE "bytes" \in got
    BY <1>2, <1>6, <2>1 DEF Parse
  <2>2. CASE ~("bytes" \in got)
    BY <1>6, <2>2 DEF Parse
  <2> QED BY <2>1, <2>2
<1> QED BY <1>4, <1>5, <1>6, <1>7

LEMMA FourInARow ==
  ASSUME NEW S, NEW x \in S, NEW y \in S, NEW z \in S, NEW w \in S
  PROVE  /\ <<x, y>> \in Seq(S) /\ <<x, y, z>> \in Seq(S) /\ <<x, y, z, w>> \in Seq(S)
         /\ <<x, y>> \o <<z>> = <<x, y, z>> /\ <<x, y, z>> \o <<w>> = <<x, y, z, w>>
<1>1. <<x, y>> \in Seq(S) /\ <<x, y, z>> \in Seq(S) /\ <<x, y, z, w>> \in Seq(S)
  OBVIOUS
<1>2. <<x, y, z>> = Append(<<x, y>>, z) /\ <<x, y, z, w>> = Append(<<x, y, z>>, w)
  OBVIOUS
<1> QED BY <1>1, <1>2, AppendIsConcat

ProcLine == [tag |-> "procs", total |-> now - Since]
CommandLine == [tag |-> "bytes", n |-> Boot, ever |-> 0]
GroupLine == [tag |-> "group", usec |-> usec, ever |-> ever.usec]
UnitLine == [tag |-> "unit", n |-> nrestarts, ever |-> ever.nrestarts]
Reports == Sweeps /\ nrestarts > 0
ProcBody ==
  <<ProcLine, CommandLine>> \o (IF os = "unix" THEN <<GroupLine>> ELSE <<>>)
    \o (IF Reports THEN <<UnitLine>> ELSE <<>>)

\* The process frame of this iteration, line by line.
LEMMA ProcBodyIs ==
  ASSUME IInv, at = "work", Emits
  PROVE  /\ ProcBody = IF os = "unix"
                       THEN IF Reports THEN <<ProcLine, CommandLine, GroupLine, UnitLine>>
                                       ELSE <<ProcLine, CommandLine, GroupLine>>
                       ELSE <<ProcLine, CommandLine>>
         /\ ProcBody \in Seq(TrueLines)
         /\ Proc = Append(ProcBody, End("proc")) /\ End("proc") \in TrueLines
<1>1. ProcLine \in TrueLines
  <2>1. PICK gap \in Int : gap = now - Since /\ gap > 0
    BY WindowIsOpen
  <2>2. [tag |-> "procs", total |-> gap] \in TrueLines
    BY <2>1 DEF TrueLines
  <2> QED BY <2>1, <2>2 DEF ProcLine
<1>2. CommandLine \in TrueLines /\ GroupLine \in TrueLines /\ UnitLine \in TrueLines /\ End("proc") \in TrueLines
  BY SamplingAssumption DEF TrueLines, IInv, TypeOK, Counts, End, CommandLine, GroupLine, UnitLine
<1> HIDE DEF TrueLines
<1>3. PICK p, c, g, u : p = ProcLine /\ c = CommandLine /\ g = GroupLine /\ u = UnitLine
  OBVIOUS
<1>4. p \in TrueLines /\ c \in TrueLines /\ g \in TrueLines /\ u \in TrueLines
  BY <1>1, <1>2, <1>3
<1>5. /\ <<p, c>> \in Seq(TrueLines) /\ <<p, c, g>> \in Seq(TrueLines) /\ <<p, c, g, u>> \in Seq(TrueLines)
      /\ <<p, c>> \o <<g>> = <<p, c, g>> /\ <<p, c, g>> \o <<u>> = <<p, c, g, u>>
  BY <1>4, FourInARow
<1>8. Reports => os = "unix"
  BY DEF Reports, Sweeps
<1>9. <<p, c>> \o <<>> = <<p, c>> /\ <<p, c, g>> \o <<>> = <<p, c, g>>
  BY <1>5, ConcatEmptySeq
<1>10. ProcBody = IF os = "unix" THEN IF Reports THEN <<p, c, g, u>> ELSE <<p, c, g>> ELSE <<p, c>>
  <2>1. ProcBody = <<p, c>> \o (IF os = "unix" THEN <<g>> ELSE <<>>) \o (IF Reports THEN <<u>> ELSE <<>>)
    BY <1>3 DEF ProcBody
  <2>2. CASE os # "unix"
    BY <1>8, <1>9, <2>1, <2>2
  <2>3. CASE os = "unix" /\ Reports
    BY <1>5, <2>1, <2>3
  <2>4. CASE os = "unix" /\ ~Reports
    BY <1>5, <1>9, <2>1, <2>4
  <2> QED BY <2>2, <2>3, <2>4
<1>11. ProcBody \in Seq(TrueLines)
  BY <1>5, <1>10
<1>12. Proc = Append(ProcBody, End("proc"))
  <2>1. Proc = ProcBody \o <<End("proc")>>
    BY DEF Proc, ProcBody, ProcLine, CommandLine, GroupLine, UnitLine, Reports
  <2> QED BY <1>2, <1>11, <2>1, AppendIsConcat
<1> QED BY <1>2, <1>3, <1>10, <1>11, <1>12

\* What a parser reads in the process frame of this iteration.
LEMMA ProcReads ==
  ASSUME IInv, at = "work", Emits, NEW b, b = ProcBody
  PROVE  /\ Has(b, "procs") /\ First(b, "procs") = ProcLine
         /\ Has(b, "group") => First(b, "group") = GroupLine
         /\ Has(b, "unit") => First(b, "unit") = UnitLine
         /\ \A n \in 1..Len(b) : b[n].tag \in {"procs", "bytes", "group", "unit"}
<1>1. PICK p, c, g, u : p = ProcLine /\ c = CommandLine /\ g = GroupLine /\ u = UnitLine
  OBVIOUS
<1>2. p.tag = "procs" /\ c.tag = "bytes" /\ g.tag = "group" /\ u.tag = "unit"
  BY <1>1 DEF ProcLine, CommandLine, GroupLine, UnitLine
<1>3. CASE os # "unix"
  <2>1. b = <<p, c>>
    BY <1>1, <1>3, ProcBodyIs
  <2>2. Len(b) = 2 /\ b[1] = p /\ b[2] = c /\ DOMAIN b = 1..2
    BY <2>1
  <2>3. With(b, "procs") = {1} /\ With(b, "group") = {} /\ With(b, "unit") = {}
    BY <1>2, <2>2 DEF With
  <2>4. Has(b, "procs") /\ First(b, "procs") = p
    BY <2>2, <2>3, OnlyOne
  <2>5. \A n \in 1..Len(b) : b[n].tag \in {"procs", "bytes", "group", "unit"}
    BY <1>2, <2>2
  <2> QED BY <1>1, <2>3, <2>4, <2>5 DEF Has
<1>4. CASE os = "unix" /\ ~Reports
  <2>1. b = <<p, c, g>>
    BY <1>1, <1>4, ProcBodyIs
  <2>2. Len(b) = 3 /\ b[1] = p /\ b[2] = c /\ b[3] = g /\ DOMAIN b = 1..3
    BY <2>1
  <2>3. With(b, "procs") = {1} /\ With(b, "group") = {3} /\ With(b, "unit") = {}
    BY <1>2, <2>2 DEF With
  <2>4. Has(b, "procs") /\ First(b, "procs") = p /\ First(b, "group") = g
    BY <2>2, <2>3, OnlyOne
  <2>5. \A n \in 1..Len(b) : b[n].tag \in {"procs", "bytes", "group", "unit"}
    BY <1>2, <2>2
  <2> QED BY <1>1, <2>3, <2>4, <2>5 DEF Has
<1>5. CASE os = "unix" /\ Reports
  <2>1. b = <<p, c, g, u>>
    BY <1>1, <1>5, ProcBodyIs
  <2>2. Len(b) = 4 /\ b[1] = p /\ b[2] = c /\ b[3] = g /\ b[4] = u /\ DOMAIN b = 1..4
    BY <2>1
  <2>3. With(b, "procs") = {1} /\ With(b, "group") = {3} /\ With(b, "unit") = {4}
    BY <1>2, <2>2 DEF With
  <2>4. Has(b, "procs") /\ First(b, "procs") = p /\ First(b, "group") = g /\ First(b, "unit") = u
    BY <2>2, <2>3, OnlyOne
  <2>5. \A n \in 1..Len(b) : b[n].tag \in {"procs", "bytes", "group", "unit"}
    BY <1>2, <2>2
  <2> QED BY <1>1, <2>4, <2>5
<1> QED BY <1>3, <1>4, <1>5

-----------------------------------------------------------------------------
(* The pump takes a frame. *)

Readings == [bytes : Int, ever : Int]
GroupLines == [tag : {"group"}, usec : Int, ever : Int]
UnitLines == [tag : {"unit"}, n : Int, ever : Int]
Samples == [bytes : Int, over : Int]
Outs == Samples \cup [fault : {"no cpu rows"}]
Claims == [used : Int, mostUsed : Int, since : Int, mostSince : Int]
Pumps ==
  [buf : Seq(TrueLines), prev : Readings \cup {None}, last : Int,
   groups : GroupLines \cup {None}, first : UnitLines \cup {None}, facts : BOOLEAN,
   out : Seq(Outs), pout : Seq(Claims),
   taken : Seq(Frames(TrueLines, Delimiters)), bytes : Int, base : Int \cup {None}, holes : Nat]

\* Each frame reaches one parser, whole.
Whole(f) ==
  LET tags == {l.tag : l \in Range(f.lines)} IN
  IF f.kind = "proc"
  THEN tags \subseteq {"procs", "bytes", "group", "unit"} /\ "procs" \in tags
  ELSE /\ tags \subseteq {"facts", "stat", "bytes"}
       /\ os = "unix" => ("stat" \in tags <=> "bytes" \in tags)

LEMMA WholeStays ==
  ASSUME NEW f, Whole(f), os' = os
  PROVE  Whole(f)'
BY DEF Whole

\* What a parser finds in a frame of this loop.
Readable(f) ==
  IF f.kind = "proc"
  THEN /\ First(f.lines, "procs").total \in Int /\ First(f.lines, "procs").total > 0
       /\ Has(f.lines, "group") => First(f.lines, "group") \in GroupLines
       /\ Has(f.lines, "unit") => First(f.lines, "unit") \in UnitLines
  ELSE Parse(f.lines) \in Readings

\* What the frames of one plane leave alone of the other's.
SameStream(p, q) == q.buf = p.buf /\ q.taken = p.taken
SameMetric(p, q) == q.prev = p.prev /\ q.base = p.base /\ q.bytes = p.bytes /\ q.holes = p.holes
SameProc(p, q) == q.groups = p.groups /\ q.first = p.first /\ q.pout = p.pout

\* A frame without byte counters leaves a hole in the readings.
Hole(lines) == IF Has(lines, "bytes") THEN 0 ELSE 1

\* A metric frame was measured.
Measured(p, q, lines) ==
  LET new == Parse(lines) IN
  /\ q.prev = new /\ q.base = (IF p.base = None THEN new.ever ELSE p.base)
  /\ q.bytes = p.bytes + (IF p.prev = None THEN 0 ELSE Minus(new.bytes, p.prev.bytes))
  /\ q.holes = p.holes + Hole(lines)

\* The fields of a pump are typed.
LEMMA PumpTyped ==
  ASSUME NEW p \in Pumps
  PROVE  /\ p.prev \in Readings \cup {None} /\ p.groups \in GroupLines \cup {None} /\ p.first \in UnitLines \cup {None}
         /\ p.last \in Int /\ p.bytes \in Int /\ p.holes \in Nat /\ p.base \in Int \cup {None}
         /\ p.out \in Seq(Outs) /\ p.pout \in Seq(Claims) /\ p.buf \in Seq(TrueLines)
         /\ p.taken \in Seq(Frames(TrueLines, Delimiters))
BY DEF Pumps

\* What is kept of a frame that was measured.
LEMMA KeptIs ==
  ASSUME TypeOK, NEW p \in Pumps, NEW lines, Parse(lines) \in Readings
  PROVE  LET q == Kept(p, lines) IN
         /\ q \in Pumps /\ SameStream(p, q) /\ SameProc(p, q)
         /\ q.prev = Parse(lines) /\ q.base = (IF p.base = None THEN Parse(lines).ever ELSE p.base)
         /\ q.bytes = p.bytes /\ q.holes = p.holes + Hole(lines)
<1>1. PICK new \in Readings : new = Parse(lines)
  OBVIOUS
<1>2. new.ever \in Int /\ now \in Int
  BY DEF Readings, TypeOK
<1>3. PICK h \in Nat : h = p.holes + Hole(lines)
  BY PumpTyped DEF Hole
<1>4. Kept(p, lines) = [p EXCEPT !.prev = new, !.last = now, !.base = IF p.base = None THEN new.ever ELSE p.base,
                                 !.holes = h]
  BY <1>1, <1>3 DEF Kept, Pumps, Hole
<1>5. Kept(p, lines) \in Pumps
  <2> HIDE DEF TrueLines, Readings
  <2> QED BY <1>2, <1>4 DEF Pumps
<1> HIDE DEF TrueLines, Readings
<1> QED BY <1>1, <1>3, <1>4, <1>5 DEF Pumps, SameStream, SameProc

\* What is emitted adds its bytes.
LEMMA EmitIs ==
  ASSUME NEW p \in Pumps, NEW s \in Samples
  PROVE  LET q == Emit(p, s) IN
         /\ q \in Pumps /\ SameStream(p, q) /\ SameProc(p, q)
         /\ q.prev = p.prev /\ q.base = p.base /\ q.bytes = p.bytes + s.bytes /\ q.holes = p.holes
<1>1. s.bytes \in Int
  BY DEF Samples
<1>2. Emit(p, s) \in Pumps
  <2>1. Append(p.out, s) \in Seq(Outs)
    <3>1. s \in Outs /\ p.out \in Seq(Outs)
      BY PumpTyped DEF Outs
    <3> QED BY <3>1, AppendProperties
  <2>2. p.bytes + s.bytes \in Int
    <3>1. p.bytes \in Int
      BY PumpTyped
    <3> QED BY <1>1, <3>1
  <2> QED BY <2>1, <2>2 DEF Emit, Pumps
<1> QED BY <1>2 DEF Emit, Pumps, SameStream, SameProc

\* The bytes of a sample.
LEMMA RatesAre ==
  ASSUME TypeOK, NEW old \in Readings, NEW new \in Readings, NEW since \in Int
  PROVE  /\ Rates(old, new, since) \in Samples
         /\ Rates(old, new, since).bytes = Minus(new.bytes, old.bytes)
         /\ Minus(new.bytes, old.bytes) \in Int /\ Minus(new.bytes, new.bytes) = 0
<1>1. Minus(new.bytes, old.bytes) \in Int /\ Minus(new.bytes, new.bytes) = 0
  BY DEF Minus, Readings
<1>2. now - since \in Int
  BY DEF TypeOK
<1> QED BY <1>1, <1>2 DEF Rates, Samples

\* pump: a frame with counters is measured.
LEMMA TakeMetricIs ==
  ASSUME TypeOK, NEW p \in Pumps, NEW lines, Parse(lines) \in Readings
  PROVE  LET q == TakeMetric(p, lines) IN
         /\ q \in Pumps /\ SameStream(p, q) /\ SameProc(p, q)
         /\ Has(lines, "stat") => Measured(p, q, lines)
         /\ q.holes = p.holes + Hole(lines)
<1>1. PICK new \in Readings : new = Parse(lines)
  OBVIOUS
<1>2. PICK k \in Pumps : k = Kept(p, lines)
  BY KeptIs
<1>3. SameStream(p, k) /\ SameProc(p, k) /\ k.prev = new /\ k.bytes = p.bytes /\ k.holes = p.holes + Hole(lines)
      /\ k.base = (IF p.base = None THEN new.ever ELSE p.base)
  BY <1>1, <1>2, KeptIs
<1>4. p.last \in Int /\ (p.prev # None => p.prev \in Readings) /\ p.bytes \in Int
  BY PumpTyped
<1>5. CASE ~Has(lines, "stat")
  <2>1. TakeMetric(p, lines) = [k EXCEPT !.out = Append(@, [fault |-> "no cpu rows"])]
    BY <1>1, <1>2, <1>5 DEF TakeMetric
  <2>2. Append(k.out, [fault |-> "no cpu rows"]) \in Seq(Outs)
    <3>1. [fault |-> "no cpu rows"] \in Outs /\ k.out \in Seq(Outs)
      BY PumpTyped DEF Outs
    <3> QED BY <3>1, AppendProperties
  <2>3. TakeMetric(p, lines) \in Pumps
    BY <2>1, <2>2 DEF Pumps
  <2>4. /\ SameStream(p, TakeMetric(p, lines)) /\ SameProc(p, TakeMetric(p, lines))
        /\ TakeMetric(p, lines).holes = p.holes + Hole(lines)
    BY <1>3, <2>1 DEF Pumps, SameStream, SameProc
  <2> QED BY <1>5, <2>3, <2>4
<1>6. CASE Has(lines, "stat") /\ p.prev = None
  <2>1. PICK s \in Samples : s = Rates(new, new, p.last)
    BY <1>4, RatesAre
  <2>2. s.bytes = 0
    BY <1>4, <2>1, RatesAre
  <2>3. TakeMetric(p, lines) = Emit(k, s)
    BY <1>1, <1>2, <1>6, <2>1 DEF TakeMetric
  <2>4. PICK q \in Pumps : q = Emit(k, s)
    BY EmitIs
  <2>5. SameStream(k, q) /\ SameProc(k, q) /\ q.prev = k.prev /\ q.base = k.base /\ q.bytes = k.bytes + s.bytes
        /\ q.holes = k.holes
    BY <2>4, EmitIs
  <2>6. q.bytes = p.bytes + 0
    BY <1>3, <1>4, <2>2, <2>5
  <2> QED BY <1>1, <1>3, <1>6, <2>3, <2>4, <2>5, <2>6 DEF SameStream, SameProc, Measured
<1>7. CASE Has(lines, "stat") /\ p.prev # None
  <2>1. PICK s \in Samples : s = Rates(p.prev, new, p.last)
    BY <1>4, <1>7, RatesAre
  <2>2. s.bytes = Minus(new.bytes, p.prev.bytes)
    BY <1>4, <1>7, <2>1, RatesAre
  <2>3. TakeMetric(p, lines) = Emit(k, s)
    BY <1>1, <1>2, <1>7, <2>1 DEF TakeMetric
  <2>4. PICK q \in Pumps : q = Emit(k, s)
    BY EmitIs
  <2>5. SameStream(k, q) /\ SameProc(k, q) /\ q.prev = k.prev /\ q.base = k.base /\ q.bytes = k.bytes + s.bytes
        /\ q.holes = k.holes
    BY <2>4, EmitIs
  <2> QED BY <1>1, <1>3, <1>7, <2>2, <2>3, <2>4, <2>5 DEF SameStream, SameProc, Measured
<1> QED BY <1>5, <1>6, <1>7

\* win_pump: a frame with counters is measured, another one leaves all as it was.
LEMMA TakeWinMetricIs ==
  ASSUME TypeOK, NEW p \in Pumps, NEW lines, Parse(lines) \in Readings
  PROVE  LET q == TakeWinMetric(p, lines) IN
         /\ q \in Pumps /\ SameStream(p, q) /\ SameProc(p, q)
         /\ IF Has(lines, "stat") THEN Measured(p, q, lines) ELSE SameMetric(p, q)
<1>1. PICK new \in Readings : new = Parse(lines)
  OBVIOUS
<1>2. PICK told : told = [p EXCEPT !.facts = @ \/ Has(lines, "facts")]
  OBVIOUS
<1>3. told \in Pumps /\ SameStream(p, told) /\ SameProc(p, told) /\ SameMetric(p, told) /\ told.last = p.last
  <2>1. PICK b \in BOOLEAN : b = (p.facts \/ Has(lines, "facts"))
    OBVIOUS
  <2>2. told = [p EXCEPT !.facts = b]
    BY <1>2, <2>1
  <2> QED BY <2>2 DEF Pumps, SameStream, SameProc, SameMetric
<1>4. PICK k \in Pumps : k = Kept(told, lines)
  BY <1>3, KeptIs
<1>5. SameStream(told, k) /\ SameProc(told, k) /\ k.prev = new /\ k.bytes = told.bytes
      /\ k.holes = told.holes + Hole(lines)
      /\ k.base = (IF told.base = None THEN new.ever ELSE told.base)
  BY <1>1, <1>3, <1>4, KeptIs
<1>6. p.last \in Int /\ (p.prev # None => p.prev \in Readings) /\ p.bytes \in Int
  BY PumpTyped
<1>7. CASE ~Has(lines, "stat")
  <2>1. TakeWinMetric(p, lines) = told
    BY <1>2, <1>7 DEF TakeWinMetric
  <2> QED BY <1>3, <1>7, <2>1
<1>8. CASE Has(lines, "stat") /\ p.prev = None
  <2>1. TakeWinMetric(p, lines) = k
    BY <1>1, <1>2, <1>4, <1>8 DEF TakeWinMetric
  <2>2. k.bytes = p.bytes + 0
    BY <1>3, <1>5, <1>6 DEF SameMetric
  <2> QED BY <1>1, <1>3, <1>5, <1>8, <2>1, <2>2 DEF SameStream, SameProc, SameMetric, Measured
<1>9. CASE Has(lines, "stat") /\ p.prev # None
  <2>1. PICK s \in Samples : s = Rates(p.prev, new, p.last)
    BY <1>6, <1>9, RatesAre
  <2>2. s.bytes = Minus(new.bytes, p.prev.bytes)
    BY <1>6, <1>9, <2>1, RatesAre
  <2>3. TakeWinMetric(p, lines) = Emit(k, s)
    BY <1>1, <1>2, <1>4, <1>9, <2>1 DEF TakeWinMetric
  <2>4. PICK q \in Pumps : q = Emit(k, s)
    BY EmitIs
  <2>5. SameStream(k, q) /\ SameProc(k, q) /\ q.prev = k.prev /\ q.base = k.base /\ q.bytes = k.bytes + s.bytes
        /\ q.holes = k.holes
    BY <2>4, EmitIs
  <2> QED BY <1>1, <1>3, <1>5, <1>9, <2>2, <2>3, <2>4, <2>5 DEF SameStream, SameProc, SameMetric, Measured
<1> QED BY <1>7, <1>8, <1>9

\* What a process frame adds, to what was reported and to what is kept.
NextFirst(p, lines) == IF Has(lines, "unit") THEN Baseline(p.first, First(lines, "unit")) ELSE p.first
NextGroups(lines) == IF Has(lines, "group") THEN First(lines, "group") ELSE None
Claim(p, lines) ==
  [used     |-> IF Has(lines, "group") THEN Used(p.groups, First(lines, "group")) ELSE 0,
   mostUsed |-> IF p.groups = None \/ ~Has(lines, "group") THEN 0
                ELSE First(lines, "group").ever - p.groups.ever,
   since    |-> IF Has(lines, "unit") THEN Minus(First(lines, "unit").n, NextFirst(p, lines).n) ELSE 0,
   mostSince |-> IF Has(lines, "unit") THEN First(lines, "unit").ever - NextFirst(p, lines).ever ELSE 0]

\* A process frame is one more claim, and the readings it brought are kept.
LEMMA TakeProcIs ==
  ASSUME TypeOK, NEW p \in Pumps, NEW f, f.kind = "proc", Readable(f)
  PROVE  LET q == TakeProc(p, f.lines) IN
         /\ q \in Pumps /\ SameStream(p, q) /\ SameMetric(p, q)
         /\ q.first = NextFirst(p, f.lines) /\ q.groups = NextGroups(f.lines)
         /\ q.pout = Append(p.pout, Claim(p, f.lines)) /\ Claim(p, f.lines) \in Claims
<1>1. PICK lines : lines = f.lines
  OBVIOUS
<1>2. PICK c : c = Claim(p, lines)
  OBVIOUS
<1>3. /\ First(lines, "procs").total # 0
      /\ Has(lines, "group") => First(lines, "group") \in GroupLines
      /\ Has(lines, "unit") => First(lines, "unit") \in UnitLines
  BY <1>1 DEF Readable
<1>4. p.groups \in GroupLines \cup {None} /\ p.first \in UnitLines \cup {None}
  BY PumpTyped
<1>5. NextFirst(p, lines) \in UnitLines \cup {None} /\ (Has(lines, "unit") => NextFirst(p, lines) \in UnitLines)
  BY <1>3, <1>4 DEF NextFirst, Baseline
<1>6. NextGroups(lines) \in GroupLines \cup {None}
  BY <1>3 DEF NextGroups
<1>7. c \in Claims
  <2>1. (IF Has(lines, "group") THEN Used(p.groups, First(lines, "group")) ELSE 0) \in Int
    BY <1>3, <1>4 DEF Used, Minus, GroupLines
  <2>2. (IF p.groups = None \/ ~Has(lines, "group") THEN 0 ELSE First(lines, "group").ever - p.groups.ever) \in Int
    BY <1>3, <1>4 DEF GroupLines
  <2>3. (IF Has(lines, "unit") THEN Minus(First(lines, "unit").n, NextFirst(p, lines).n) ELSE 0) \in Int
    BY <1>3, <1>5 DEF Minus, UnitLines
  <2>4. (IF Has(lines, "unit") THEN First(lines, "unit").ever - NextFirst(p, lines).ever ELSE 0) \in Int
    BY <1>3, <1>5 DEF UnitLines
  <2> QED BY <1>2, <2>1, <2>2, <2>3, <2>4 DEF Claim, Claims
<1>8. PICK first, groups, pout : /\ first = NextFirst(p, lines) /\ groups = NextGroups(lines)
                                 /\ pout = Append(p.pout, c)
  OBVIOUS
<1>9. TakeProc(p, lines) = [p EXCEPT !.pout = pout, !.first = first, !.groups = groups]
  BY <1>2, <1>3, <1>8 DEF TakeProc, Claim, NextFirst, NextGroups
<1>10. pout \in Seq(Claims)
  <2>1. p.pout \in Seq(Claims)
    BY PumpTyped
  <2> QED BY <1>7, <1>8, <2>1, AppendProperties
<1>11. TakeProc(p, lines) \in Pumps
  BY <1>5, <1>6, <1>8, <1>9, <1>10 DEF Pumps
<1>12. LET q == TakeProc(p, lines) IN
       /\ SameStream(p, q) /\ SameMetric(p, q) /\ q.first = first /\ q.groups = groups /\ q.pout = pout
  BY <1>9 DEF Pumps, SameStream, SameMetric
<1> QED BY <1>1, <1>2, <1>7, <1>8, <1>11, <1>12

-----------------------------------------------------------------------------
(* What has been read of each counter, and what it would be without resets. *)

Mark(of, n, most) == [of |-> of, n |-> n, ever |-> most]

FrameMarks(f) ==
  IF f.kind = "proc"
  THEN (IF Has(f.lines, "group")
        THEN {Mark("usec", First(f.lines, "group").usec, First(f.lines, "group").ever)} ELSE {})
       \cup (IF Has(f.lines, "unit")
             THEN {Mark("nrestarts", First(f.lines, "unit").n, First(f.lines, "unit").ever)} ELSE {})
  ELSE IF Has(f.lines, "bytes") THEN {Mark("net", Parse(f.lines).bytes, Parse(f.lines).ever)} ELSE {}

\* A frame measured without byte counters spoils the interface's.
PumpMarks(p) ==
  (IF p.prev # None /\ p.holes = 0 THEN {Mark("net", p.prev.bytes, p.prev.ever)} ELSE {})
  \cup (IF p.groups # None THEN {Mark("usec", p.groups.usec, p.groups.ever)} ELSE {})
  \cup (IF p.first # None THEN {Mark("nrestarts", p.first.n, p.first.ever)} ELSE {})

HostMarks ==
  {Mark("net", net, ever.net), Mark("usec", usec, ever.usec), Mark("nrestarts", nrestarts, ever.nrestarts)}

Honest(U) ==
  \A u \in U : u.n \in Nat /\ u.ever \in Int /\ u.n <= u.ever /\ (events = 0 => u.n = u.ever)

\* Neither what the counter would be nor what its resets took from it decreases.
Ord(u, v) == u.ever <= v.ever /\ u.ever - u.n <= v.ever - v.n
Before(U, V) == \A u \in U : \A v \in V : u.of = v.of => Ord(u, v)

Fit(f) == f.kind \in Delimiters /\ Whole(f) /\ Readable(f) /\ DOMAIN f.lines = 1..Len(f.lines)

Sums(p) ==
  p.holes = 0 =>
    IF p.prev = None THEN p.base = None /\ p.bytes = 0
    ELSE /\ p.base \in Int /\ p.bytes <= p.prev.ever - p.base
         /\ events = 0 => p.bytes = p.prev.ever - p.base

Claimed(p) == \A c \in Range(p.pout) : c.used <= c.mostUsed /\ c.since <= c.mostSince

\* A tag is among those of some lines when one of them has it.
LEMMA TagsAre ==
  ASSUME NEW lines, DOMAIN lines = 1..Len(lines), NEW tag
  PROVE  tag \in {l.tag : l \in Range(lines)} <=> Has(lines, tag)
BY DEF Range, Has, With

LEMMA TagsWithin ==
  ASSUME NEW lines, DOMAIN lines = 1..Len(lines), NEW T, \A n \in 1..Len(lines) : lines[n].tag \in T
  PROVE  {l.tag : l \in Range(lines)} \subseteq T
BY DEF Range

\* Both pumps, and both planes.
LEMMA TakeIs ==
  ASSUME TypeOK, NEW p \in Pumps, NEW f, Fit(f)
  PROVE  LET q == Take(p, f) IN
         /\ q \in Pumps /\ SameStream(p, q)
         /\ IF f.kind = "proc"
            THEN /\ SameMetric(p, q)
                 /\ q.first = NextFirst(p, f.lines) /\ q.groups = NextGroups(f.lines)
                 /\ q.pout = Append(p.pout, Claim(p, f.lines)) /\ Claim(p, f.lines) \in Claims
            ELSE /\ SameProc(p, q) /\ Parse(f.lines) \in Readings
                 /\ SameMetric(p, q) \/ Measured(p, q, f.lines) \/ q.holes > 0
<1>1. CASE f.kind = "proc"
  <2>1. Take(p, f) = TakeProc(p, f.lines)
    BY <1>1 DEF Take
  <2>2. Readable(f)
    BY DEF Fit
  <2> QED BY <1>1, <2>1, <2>2, TakeProcIs
<1>2. CASE f.kind # "proc"
  <2>1. Parse(f.lines) \in Readings
    BY <1>2 DEF Fit, Readable
  <2>2. CASE os = "unix"
    <3>1. Take(p, f) = TakeMetric(p, f.lines)
      BY <1>2, <2>2 DEF Take
    <3>2. PICK q : q = TakeMetric(p, f.lines)
      OBVIOUS
    <3>3. /\ q \in Pumps /\ SameStream(p, q) /\ SameProc(p, q) /\ q.holes = p.holes + Hole(f.lines)
          /\ Has(f.lines, "stat") => Measured(p, q, f.lines)
      BY <2>1, <3>2, TakeMetricIs
    <3>4. CASE Has(f.lines, "stat")
      BY <1>2, <2>1, <3>1, <3>2, <3>3, <3>4
    <3>5. CASE ~Has(f.lines, "stat")
      <4>1. ~Has(f.lines, "bytes")
        <5>1. "stat" \in {l.tag : l \in Range(f.lines)} <=> "bytes" \in {l.tag : l \in Range(f.lines)}
          BY <1>2, <2>2 DEF Fit, Whole
        <5>2. DOMAIN f.lines = 1..Len(f.lines)
          BY DEF Fit
        <5>3. \A tag : tag \in {l.tag : l \in Range(f.lines)} <=> Has(f.lines, tag)
          BY <5>2, TagsAre
        <5> QED BY <3>5, <5>1, <5>3
      <4>2. q.holes = p.holes + 1 /\ p.holes \in Nat
        BY <3>3, <4>1, PumpTyped DEF Hole
      <4> QED BY <1>2, <2>1, <3>1, <3>2, <3>3, <4>2
    <3> QED BY <3>4, <3>5
  <2>3. CASE os # "unix"
    <3>1. Take(p, f) = TakeWinMetric(p, f.lines)
      BY <1>2, <2>3 DEF Take
    <3> QED BY <1>2, <2>1, <3>1, TakeWinMetricIs
  <2> QED BY <2>2, <2>3
<1> QED BY <1>1, <1>2

\* The pump knows what it knew, or what the frame told.
LEMMA TakeMarks ==
  ASSUME TypeOK, NEW p \in Pumps, NEW f, Fit(f)
  PROVE  PumpMarks(Take(p, f)) \subseteq PumpMarks(p) \cup FrameMarks(f)
<1>1. PICK q : q = Take(p, f)
  OBVIOUS
<1>2. CASE f.kind = "proc"
  <2>1. SameMetric(p, q) /\ q.first = NextFirst(p, f.lines) /\ q.groups = NextGroups(f.lines)
    BY <1>1, <1>2, TakeIs
  <2>2. q.prev = p.prev /\ q.holes = p.holes
    BY <2>1 DEF SameMetric
  <2>3. q.first = p.first \/ (Has(f.lines, "unit") /\ q.first = First(f.lines, "unit"))
    BY <2>1 DEF NextFirst, Baseline
  <2>4. q.groups = None \/ (Has(f.lines, "group") /\ q.groups = First(f.lines, "group"))
    BY <2>1 DEF NextGroups
  <2> QED BY <1>1, <1>2, <2>2, <2>3, <2>4 DEF PumpMarks, FrameMarks
<1>3. CASE f.kind # "proc"
  <2>1. SameProc(p, q) /\ (SameMetric(p, q) \/ Measured(p, q, f.lines) \/ q.holes > 0)
    BY <1>1, <1>3, TakeIs
  <2>2. q.groups = p.groups /\ q.first = p.first
    BY <2>1 DEF SameProc
  <2>3. CASE SameMetric(p, q)
    BY <1>1, <2>2, <2>3 DEF SameMetric, PumpMarks
  <2>4. CASE Measured(p, q, f.lines) /\ q.holes = 0
    <3>1. q.prev = Parse(f.lines) /\ Has(f.lines, "bytes")
      BY <2>4, PumpTyped DEF Measured, Hole
    <3> QED BY <1>1, <1>3, <2>2, <3>1 DEF PumpMarks, FrameMarks
  <2>5. CASE q.holes # 0
    BY <1>1, <2>2, <2>5 DEF PumpMarks
  <2> QED BY <2>1, <2>3, <2>4, <2>5
<1> QED BY <1>2, <1>3

\* What a pump with readings knows of a counter comes before what the frame tells.
LEMMA MarksOrdered ==
  ASSUME NEW U, NEW V, Honest(U), Honest(V), Before(U, V), NEW of, NEW a, NEW b, NEW c, NEW d,
         Mark(of, a, b) \in U, Mark(of, c, d) \in V
  PROVE  /\ a \in Nat /\ b \in Int /\ c \in Nat /\ d \in Int
         /\ b <= d /\ b - a <= d - c /\ Minus(c, a) <= d - b
<1>1. Mark(of, a, b).of = of /\ Mark(of, a, b).n = a /\ Mark(of, a, b).ever = b
      /\ Mark(of, c, d).of = of /\ Mark(of, c, d).n = c /\ Mark(of, c, d).ever = d
  BY DEF Mark
<1>2. a \in Nat /\ b \in Int /\ (events = 0 => a = b)
  BY <1>1 DEF Honest
<1>3. c \in Nat /\ d \in Int /\ (events = 0 => c = d)
  BY <1>1 DEF Honest
<1>4. b <= d /\ b - a <= d - c
  BY <1>1 DEF Before, Ord
<1> QED BY <1>2, <1>3, <1>4 DEF Minus

\* Without resets a reading is the counter itself.
LEMMA MarksExact ==
  ASSUME NEW U, NEW V, Honest(U), Honest(V), Before(U, V), NEW of, NEW a, NEW b, NEW c, NEW d,
         Mark(of, a, b) \in U, Mark(of, c, d) \in V, events = 0
  PROVE  Minus(c, a) = d - b
<1>1. Mark(of, a, b).of = of /\ Mark(of, a, b).n = a /\ Mark(of, a, b).ever = b
      /\ Mark(of, c, d).of = of /\ Mark(of, c, d).n = c /\ Mark(of, c, d).ever = d
  BY DEF Mark
<1>2. a \in Nat /\ b \in Int /\ a = b
  BY <1>1 DEF Honest
<1>3. c \in Nat /\ d \in Int /\ c = d
  BY <1>1 DEF Honest
<1>4. b <= d
  BY <1>1 DEF Before, Ord
<1> QED BY <1>2, <1>3, <1>4 DEF Minus

\* No reading is None.
LEMMA NoneIsNone == None \notin Readings /\ None \notin GroupLines /\ None \notin UnitLines /\ None \notin Int
BY SamplingAssumption DEF Readings, GroupLines, UnitLines

\* The samples go on summing up to what the counter moved.
LEMMA TakeSums ==
  ASSUME TypeOK, NEW p \in Pumps, NEW f, Fit(f), Sums(p),
         Honest(PumpMarks(p)), Honest(FrameMarks(f)), Before(PumpMarks(p), FrameMarks(f))
  PROVE  Sums(Take(p, f))
<1>1. PICK q \in Pumps : q = Take(p, f)
  BY TakeIs
<1>2. CASE SameMetric(p, q)
  BY <1>1, <1>2 DEF SameMetric, Sums
<1>3. CASE q.holes # 0
  BY <1>1, <1>3 DEF Sums
<1>4. CASE f.kind # "proc" /\ Measured(p, q, f.lines) /\ q.holes = 0
  <2>1. PICK new \in Readings : new = Parse(f.lines)
    BY <1>4, TakeIs
  <2>2. Has(f.lines, "bytes") /\ p.holes = 0
    BY <1>4, PumpTyped DEF Measured, Hole
  <2>3. new # None /\ new.ever \in Int /\ new.bytes \in Int
    BY NoneIsNone DEF Readings
  <2>4. q.prev = new /\ q.base = (IF p.base = None THEN new.ever ELSE p.base)
        /\ q.bytes = p.bytes + (IF p.prev = None THEN 0 ELSE Minus(new.bytes, p.prev.bytes))
    BY <1>4, <2>1 DEF Measured
  <2>5. CASE p.prev = None
    <3>1. p.base = None /\ p.bytes = 0
      BY <2>2, <2>5 DEF Sums
    <3>2. q.base = new.ever /\ q.bytes = 0
      BY <2>4, <2>5, <3>1
    <3> QED BY <1>1, <2>3, <2>4, <3>2 DEF Sums
  <2>6. CASE p.prev # None
    <3>1. p.base \in Int /\ p.bytes <= p.prev.ever - p.base /\ (events = 0 => p.bytes = p.prev.ever - p.base)
      BY <2>2, <2>6 DEF Sums
    <3>2. p.base # None
      BY <3>1, NoneIsNone
    <3>3. Mark("net", p.prev.bytes, p.prev.ever) \in PumpMarks(p)
      BY <2>2, <2>6 DEF PumpMarks
    <3>4. Mark("net", new.bytes, new.ever) \in FrameMarks(f)
      BY <1>4, <2>1, <2>2 DEF FrameMarks
    <3>5. /\ p.prev.ever \in Int
          /\ Minus(new.bytes, p.prev.bytes) <= new.ever - p.prev.ever
          /\ events = 0 => Minus(new.bytes, p.prev.bytes) = new.ever - p.prev.ever
      <4>1. p.prev.ever \in Int
        BY <2>6, PumpTyped DEF Readings
      <4>2. Minus(new.bytes, p.prev.bytes) <= new.ever - p.prev.ever
        BY <3>3, <3>4, MarksOrdered
      <4>3. ASSUME events = 0 PROVE Minus(new.bytes, p.prev.bytes) = new.ever - p.prev.ever
        BY <3>3, <3>4, <4>3, MarksExact
      <4> QED BY <4>1, <4>2, <4>3
    <3>6. p.prev.bytes \in Int
      BY <2>6, PumpTyped DEF Readings
    <3>7. PICK d \in Int : d = Minus(new.bytes, p.prev.bytes)
      BY <2>3, <3>6 DEF Minus
    <3>8. p.bytes \in Int
      BY PumpTyped
    <3>9. q.bytes = p.bytes + d /\ q.base = p.base
      BY <2>4, <2>6, <3>2, <3>7
    <3> QED BY <1>1, <2>3, <2>4, <3>1, <3>5, <3>7, <3>8, <3>9 DEF Sums
  <2> QED BY <2>5, <2>6
<1>5. SameMetric(p, q) \/ (f.kind # "proc" /\ Measured(p, q, f.lines)) \/ q.holes # 0
  <2>1. q.holes > 0 => q.holes # 0
    OBVIOUS
  <2> QED BY <1>1, <2>1, TakeIs
<1> QED BY <1>2, <1>3, <1>4, <1>5

\* No claim is more than what happened since the frame before.
LEMMA TakeClaims ==
  ASSUME TypeOK, NEW p \in Pumps, NEW f, Fit(f), Claimed(p),
         Honest(PumpMarks(p)), Honest(FrameMarks(f)), Before(PumpMarks(p), FrameMarks(f))
  PROVE  Claimed(Take(p, f))
<1>1. PICK q \in Pumps : q = Take(p, f)
  BY TakeIs
<1>2. CASE f.kind # "proc"
  <2>1. q.pout = p.pout
    BY <1>1, <1>2, TakeIs DEF SameProc
  <2> QED BY <1>1, <2>1 DEF Claimed
<1>3. CASE f.kind = "proc"
  <2>1. PICK lines : lines = f.lines
    OBVIOUS
  <2>2. PICK c \in Claims : c = Claim(p, lines) /\ q.pout = Append(p.pout, c)
    BY <1>1, <1>3, <2>1, TakeIs
  <2>3. p.groups \in GroupLines \cup {None} /\ p.first \in UnitLines \cup {None} /\ p.pout \in Seq(Claims)
    BY PumpTyped
  <2>4. c.used <= c.mostUsed
    <3>1. CASE p.groups = None \/ ~Has(lines, "group")
      BY <2>2, <3>1 DEF Claim, Used
    <3>2. CASE p.groups # None /\ Has(lines, "group")
      <4>1. Mark("usec", p.groups.usec, p.groups.ever) \in PumpMarks(p)
        BY <3>2 DEF PumpMarks
      <4>2. Mark("usec", First(lines, "group").usec, First(lines, "group").ever) \in FrameMarks(f)
        BY <1>3, <2>1, <3>2 DEF FrameMarks
      <4>3. Minus(First(lines, "group").usec, p.groups.usec) <= First(lines, "group").ever - p.groups.ever
        BY <4>1, <4>2, MarksOrdered
      <4> QED BY <2>2, <3>2, <4>3 DEF Claim, Used
    <3> QED BY <3>1, <3>2
  <2>5. c.since <= c.mostSince
    <3>1. CASE ~Has(lines, "unit")
      BY <2>2, <3>1 DEF Claim
    <3>2. CASE Has(lines, "unit") /\ p.first = None
      <4>1. PICK u \in UnitLines : u = First(lines, "unit")
        BY <1>3, <2>1, <3>2 DEF Fit, Readable
      <4>2. NextFirst(p, lines) = u
        BY <3>2, <4>1 DEF NextFirst, Baseline
      <4>3. c.since = Minus(u.n, u.n) /\ c.mostSince = u.ever - u.ever
        BY <2>2, <3>2, <4>1, <4>2 DEF Claim
      <4> QED BY <4>3 DEF Minus, UnitLines
    <3>3. CASE Has(lines, "unit") /\ p.first # None
      <4>1. NextFirst(p, lines) = p.first
        BY <3>3 DEF NextFirst, Baseline
      <4>2. Mark("nrestarts", p.first.n, p.first.ever) \in PumpMarks(p)
        BY <3>3 DEF PumpMarks
      <4>3. Mark("nrestarts", First(lines, "unit").n, First(lines, "unit").ever) \in FrameMarks(f)
        BY <1>3, <2>1, <3>3 DEF FrameMarks
      <4>4. Minus(First(lines, "unit").n, p.first.n) <= First(lines, "unit").ever - p.first.ever
        BY <4>2, <4>3, MarksOrdered
      <4> QED BY <2>2, <3>3, <4>1, <4>4 DEF Claim
    <3> QED BY <3>1, <3>2, <3>3
  <2>6. ASSUME NEW d \in Range(q.pout) PROVE d.used <= d.mostUsed /\ d.since <= d.mostSince
    <3>1. PICK n \in DOMAIN q.pout : d = q.pout[n]
      BY DEF Range
    <3>2. d = c \/ d \in Range(p.pout)
      BY <2>2, <2>3, <3>1 DEF Range
    <3> QED BY <2>4, <2>5, <3>2 DEF Claimed
  <2> QED BY <1>1, <2>6 DEF Claimed
<1> QED BY <1>2, <1>3

LEMMA BeforeUnion ==
  ASSUME NEW U, NEW A, NEW B, NEW V, U \subseteq A \cup B, Before(A, V), Before(B, V)
  PROVE  Before(U, V)
BY DEF Before

LEMMA HonestUnion ==
  ASSUME NEW U, NEW A, NEW B, U \subseteq A \cup B, Honest(A), Honest(B)
  PROVE  Honest(U)
BY DEF Honest

-----------------------------------------------------------------------------
(* A stream of frames, and a pump that takes them. *)

\* From the k-th on, the frames S that come tell a pump what it can make sense of,
\* each counter going on from one to the next and up to what the host has now.
Coming(S, k, p, m) ==
  /\ Fit(S[m]) /\ Honest(FrameMarks(S[m]))
  /\ Before(PumpMarks(p), FrameMarks(S[m])) /\ Before(FrameMarks(S[m]), HostMarks)
  /\ \A l \in DOMAIN S : m < l => Before(FrameMarks(S[m]), FrameMarks(S[l]))
Flowing(S, k, p) ==
  /\ \A m \in DOMAIN S : m > k => Coming(S, k, p, m)
  /\ Before(PumpMarks(p), HostMarks) /\ Honest(PumpMarks(p))

\* A pump that takes the next frame of a stream that flows has one that flows.
LEMMA TakeFlows ==
  ASSUME TypeOK, NEW p \in Pumps, NEW S, NEW k \in Nat, k + 1 \in DOMAIN S, DOMAIN S \subseteq Nat,
         Flowing(S, k, p), Sums(p), Claimed(p)
  PROVE  LET q == Take(p, S[k + 1]) IN Flowing(S, k + 1, q) /\ Sums(q) /\ Claimed(q)
<1>1. PICK f : f = S[k + 1]
  OBVIOUS
<1>2. PICK q : q = Take(p, f)
  OBVIOUS
<1>3. Coming(S, k, p, k + 1)
  BY DEF Flowing
<1>4. /\ Fit(f) /\ Honest(FrameMarks(f)) /\ Before(PumpMarks(p), FrameMarks(f)) /\ Before(FrameMarks(f), HostMarks)
      /\ \A l \in DOMAIN S : k + 1 < l => Before(FrameMarks(f), FrameMarks(S[l]))
  BY <1>1, <1>3 DEF Coming
<1>5. Before(PumpMarks(p), HostMarks) /\ Honest(PumpMarks(p))
  BY DEF Flowing
<1>6. PumpMarks(q) \subseteq PumpMarks(p) \cup FrameMarks(f)
  BY <1>2, <1>4, TakeMarks
<1>7. Sums(q) /\ Claimed(q)
  BY <1>2, <1>4, <1>5, TakeSums, TakeClaims
<1>8. Before(PumpMarks(q), HostMarks) /\ Honest(PumpMarks(q))
  BY <1>4, <1>5, <1>6, BeforeUnion, HonestUnion
<1>9. ASSUME NEW m \in DOMAIN S, m > k + 1 PROVE Coming(S, k + 1, q, m)
  <2>1. m > k /\ k + 1 < m
    BY <1>9
  <2>2. Coming(S, k, p, m)
    BY <2>1 DEF Flowing
  <2>3. Before(PumpMarks(p), FrameMarks(S[m])) /\ Before(FrameMarks(f), FrameMarks(S[m]))
    BY <1>4, <2>1, <2>2 DEF Coming
  <2>4. Before(PumpMarks(q), FrameMarks(S[m]))
    BY <1>6, <2>3, BeforeUnion
  <2> QED BY <2>2, <2>4 DEF Coming
<1> QED BY <1>1, <1>2, <1>7, <1>8, <1>9 DEF Flowing

\* u goes from p by taking the frames F, and so does TakeAll.
Takes(u, p, N, F) ==
  /\ u \in [0..N -> Pumps] /\ u[0] = p /\ TakeAll(p, F) = u[N]
  /\ \A n \in 1..N : u[n] = Take(u[n - 1], F[n])
AllFit(N, F) == \A n \in 1..N : Fit(F[n])

\* TakeAll is the recursion over its frames.
LEMMA TakeAllIsAFold ==
  ASSUME TypeOK, NEW p \in Pumps, NEW N \in Nat, NEW F, Len(F) = N, AllFit(N, F)
  PROVE  \E u : Takes(u, p, N, F)
<1> USE DEF AllFit
<1> DEFINE G == [x \in Pumps \X (1..N) |-> Take(x[1], F[x[2]])]
           Body(r, n) == IF n = 0 THEN p ELSE Take(r[n - 1], F[n])
           r == CHOOSE g : g = [n \in 0..N |-> Body(g, n)]
<1>1. TakeAll(p, F) = r[N]
  BY DEF TakeAll
<1>2. ASSUME NEW g, NEW n \in 0..N PROVE Body(g, n) = IF n = 0 THEN p ELSE Take(g[n - 1], F[n])
  OBVIOUS
<1> HIDE DEF Body
<1>3. \A x \in Pumps : \A n \in 1..N : Take(x, F[n]) \in Pumps
  BY TakeIs
<1>4. G \in [Pumps \X (1..N) -> Pumps] /\ \A x \in Pumps : \A n \in 1..N : G[<<x, n>>] = Take(x, F[n])
  BY <1>3
<1> HIDE DEF G
<1>5. PICK u \in [0..N -> Pumps] : FoldsTo(u, N, p, G)
  <2> HIDE DEF r
  <2> QED BY <1>4, FoldExists, Zenon
<1>6. u[0] = p /\ \A n \in 1..N : u[n] = Take(u[n - 1], F[n])
  <2>1. ASSUME NEW n \in 1..N PROVE u[n] = Take(u[n - 1], F[n])
    <3>1. n - 1 \in 0..N
      OBVIOUS
    <3>2. u[n - 1] \in Pumps
      BY <3>1
    <3>3. u[n] = G[<<u[n - 1], n>>]
      BY <1>5 DEF FoldsTo
    <3> QED BY <1>4, <3>2, <3>3
  <2> QED BY <1>5, <2>1 DEF FoldsTo
<1>7. u = [n \in 0..N |-> Body(u, n)]
  <2>1. ASSUME NEW n \in 0..N PROVE u[n] = Body(u, n)
    <3>1. n # 0 => n \in 1..N
      OBVIOUS
    <3> QED BY <1>2, <1>6, <3>1
  <2> QED BY <2>1
<1>8. r = [n \in 0..N |-> Body(r, n)]
  BY <1>7
<1> HIDE DEF r
<1>9. ASSUME NEW n \in 0..N PROVE r[n] = Body(r, n)
  <2> DEFINE W(k) == Body(r, k)
  <2>1. r = [k \in 0..N |-> W(k)]
    BY <1>8
  <2> HIDE DEF W
  <2>2. r[n] = W(n)
    BY <2>1
  <2> QED BY <2>2 DEF W
<1> DEFINE T == {n \in 0..N : r[n] = u[n]}
<1>10. 0 \in T
  BY <1>2, <1>6, <1>9
<1>11. ASSUME NEW k \in T, k < N PROVE k + 1 \in T
  <2>1. k + 1 \in 1..N /\ k + 1 \in 0..N /\ k + 1 - 1 = k /\ k + 1 # 0
    BY <1>11
  <2>2. r[k + 1] = Take(r[k], F[k + 1])
    BY <1>2, <1>9, <2>1
  <2>3. u[k + 1] = Take(u[k], F[k + 1])
    BY <1>6, <2>1
  <2> QED BY <2>1, <2>2, <2>3
<1>12. T = 0..N
  <2>1. T \in SUBSET (0..N)
    OBVIOUS
  <2> HIDE DEF T
  <2> QED BY <1>10, <1>11, <2>1, UpTo
<1>13. r[N] = u[N]
  <2>1. N \in 0..N
    OBVIOUS
  <2> QED BY <1>12, <2>1
<1> QED BY <1>1, <1>5, <1>6, <1>13 DEF Takes

\* So has one that takes the next N.
LEMMA TakeAllFlows ==
  ASSUME TypeOK, NEW p \in Pumps, NEW N \in Nat, NEW F, Len(F) = N, NEW S, 1..N \subseteq DOMAIN S, DOMAIN S \subseteq Nat,
         \A n \in 1..N : F[n] = S[n], Flowing(S, 0, p), Sums(p), Claimed(p)
  PROVE  LET q == TakeAll(p, F) IN
         q \in Pumps /\ SameStream(p, q) /\ Flowing(S, N, q) /\ Sums(q) /\ Claimed(q)
<1>1. \A n \in 1..N : Fit(F[n])
  <2> TAKE n \in 1..N
  <2>1. n \in DOMAIN S /\ n > 0
    OBVIOUS
  <2>2. Coming(S, 0, p, n)
    BY <2>1 DEF Flowing
  <2> QED BY <2>2 DEF Coming
<1>2. PICK u \in [0..N -> Pumps] :
        u[0] = p /\ TakeAll(p, F) = u[N] /\ \A n \in 1..N : u[n] = Take(u[n - 1], F[n])
  <2>1. AllFit(N, F)
    BY <1>1 DEF AllFit
  <2>2. PICK u : Takes(u, p, N, F)
    BY <2>1, TakeAllIsAFold
  <2> QED BY <2>2 DEF Takes
<1> DEFINE T == {n \in 0..N : SameStream(p, u[n]) /\ Flowing(S, n, u[n]) /\ Sums(u[n]) /\ Claimed(u[n])}
<1>3. 0 \in T
  BY <1>2 DEF SameStream
<1>4. ASSUME NEW n \in T, n < N PROVE n + 1 \in T
  <2>1. n \in 0..N /\ n \in Nat /\ n + 1 \in 1..N /\ n + 1 \in 0..N /\ n + 1 - 1 = n /\ n + 1 \in DOMAIN S
    BY <1>4
  <2>2. PICK x \in Pumps : x = u[n]
    BY <2>1
  <2>3. SameStream(p, x) /\ Flowing(S, n, x) /\ Sums(x) /\ Claimed(x)
    BY <2>2
  <2>4. PICK y : y = Take(x, S[n + 1])
    OBVIOUS
  <2>5. u[n + 1] = y
    BY <1>2, <2>1, <2>2, <2>4
  <2>6. Flowing(S, n + 1, y) /\ Sums(y) /\ Claimed(y)
    BY <2>1, <2>3, <2>4, TakeFlows
  <2>7. SameStream(x, y)
    <3>1. Fit(S[n + 1])
      BY <1>1, <2>1
    <3> QED BY <2>4, <3>1, TakeIs
  <2> QED BY <2>1, <2>3, <2>5, <2>6, <2>7 DEF SameStream
<1>5. T = 0..N
  <2>1. T \in SUBSET (0..N)
    OBVIOUS
  <2> HIDE DEF T
  <2> QED BY <1>3, <1>4, <2>1, UpTo
<1>6. N \in T /\ u[N] \in Pumps
  <2>1. N \in 0..N
    OBVIOUS
  <2> QED BY <1>5, <2>1
<1> QED BY <1>2, <1>6

-----------------------------------------------------------------------------
(* The stream, from the host through the wire to the pump. *)

\* What the pump would make of all that was written, and the invariant: whole frames,
\* each counter going on through them from the pump to the host.
InFlight == SplitFrames(pump.buf \o wire)

Stream ==
  /\ events \in Nat /\ glitches \in Nat /\ pump \in Pumps /\ Honest(HostMarks)
  /\ InFlight.rest = <<>> /\ Flowing(InFlight.frames, 0, pump)
  /\ Sums(pump) /\ Claimed(pump)
  /\ \A f \in Range(pump.taken) : Whole(f)
  /\ ~reading => pump.buf = <<>>

LEMMA NothingInFlight == SplitFrames(<<>> \o <<>>) = Uncut
<1>1. <<>> \o <<>> = <<>>
  BY ConcatEmptySeq, EmptySeq
<1> QED BY <1>1, CutNothing DEF SplitFrames

\* A pump that knows nothing of a stream with nothing in it.
LEMMA NewPumpFlows ==
  /\ NewPump \in Pumps /\ PumpMarks(NewPump) = {} /\ Sums(NewPump) /\ Claimed(NewPump)
  /\ NewPump.buf = <<>> /\ Range(NewPump.taken) = {}
<1>1. NewPump \in Pumps
  BY DEF NewPump, Pumps
<1>2. PumpMarks(NewPump) = {}
  BY DEF NewPump, PumpMarks
<1>3. Sums(NewPump)
  BY DEF NewPump, Sums
<1>4. Claimed(NewPump) /\ NewPump.buf = <<>> /\ Range(NewPump.taken) = {}
  BY DEF NewPump, Claimed, Range
<1> QED BY <1>1, <1>2, <1>3, <1>4

LEMMA InitStreams ==
  ASSUME Init
  PROVE  Stream
<1>1. events = 0 /\ glitches = 0 /\ pump = NewPump /\ wire = <<>> /\ reading = TRUE
      /\ net = Boot /\ usec = Boot /\ nrestarts = 1 /\ ever = [net |-> Boot, usec |-> Boot, nrestarts |-> 1]
  BY DEF Init
<1>2. Honest(HostMarks)
  BY <1>1, SamplingAssumption DEF HostMarks, Honest, Mark
<1>3. InFlight = Uncut
  BY <1>1, NewPumpFlows, NothingInFlight DEF InFlight
<1>4. InFlight.rest = <<>> /\ InFlight.frames = <<>>
  BY <1>3 DEF Uncut
<1>5. Flowing(InFlight.frames, 0, pump)
  <2>1. Before(PumpMarks(pump), HostMarks) /\ Honest(PumpMarks(pump))
    BY <1>1, NewPumpFlows DEF Before, Honest
  <2>2. DOMAIN InFlight.frames = {}
    BY <1>4
  <2> QED BY <2>1, <2>2 DEF Flowing
<1>6. Sums(pump) /\ Claimed(pump) /\ pump \in Pumps /\ \A f \in Range(pump.taken) : Whole(f)
  BY <1>1, NewPumpFlows
<1> QED BY <1>1, <1>2, <1>4, <1>5, <1>6 DEF Stream

\* A new connection begins with nothing in flight.
LEMMA LeavesStreams ==
  ASSUME IInv, Stream, Leaves
  PROVE  Stream'
<1>1. pump' = NewPump /\ wire' = <<>> /\ UNCHANGED <<os, events, glitches, net, usec, nrestarts, ever>>
  BY DEF Leaves, host
<1>2. events' \in Nat /\ glitches' \in Nat /\ Honest(HostMarks)'
  BY <1>1 DEF Stream, Honest, HostMarks
<1>3. InFlight' = Uncut
  BY <1>1, NewPumpFlows, NothingInFlight DEF InFlight
<1>4. InFlight'.rest = <<>> /\ InFlight'.frames = <<>>
  BY <1>3 DEF Uncut
<1>5. PumpMarks(pump)' = {}
  BY <1>1 DEF NewPump, PumpMarks
<1>6. Flowing(InFlight.frames, 0, pump)'
  <2>1. Before(PumpMarks(pump)', HostMarks') /\ Honest(PumpMarks(pump))'
    BY <1>5 DEF Before, Honest
  <2>2. DOMAIN InFlight'.frames = {}
    BY <1>4
  <2> QED BY <2>1, <2>2 DEF Flowing
<1>7. Sums(pump)' /\ Claimed(pump)' /\ pump' \in Pumps /\ (\A f \in Range(pump.taken) : Whole(f))'
  <2>1. Sums(pump)'
    BY <1>1 DEF NewPump, Sums
  <2> QED BY <1>1, <2>1, NewPumpFlows DEF Claimed
<1>8. pump'.buf = <<>>
  BY <1>1, NewPumpFlows
<1> QED BY <1>2, <1>4, <1>6, <1>7, <1>8 DEF Stream

\* The order of marks is transitive.
LEMMA BeforeTrans ==
  ASSUME NEW U, NEW A, NEW B, Honest(U), Honest(A), \A b \in B : b.n \in Nat /\ b.ever \in Int,
         Before(U, A), Before(A, B), \A b \in B : \E a \in A : a.of = b.of
  PROVE  Before(U, B)
<1> SUFFICES ASSUME NEW u \in U, NEW b \in B, u.of = b.of PROVE Ord(u, b)
  BY DEF Before
<1>1. PICK a \in A : a.of = b.of
  OBVIOUS
<1>2. Ord(u, a) /\ Ord(a, b)
  BY <1>1 DEF Before
<1>3. u.n \in Nat /\ u.ever \in Int /\ a.n \in Nat /\ a.ever \in Int /\ b.n \in Nat /\ b.ever \in Int
  BY DEF Honest
<1> QED BY <1>2, <1>3 DEF Ord

\* Whatever the host does between two writes, its counters go on from all that was
\* read of them.
LEMMA HostGoesOn ==
  ASSUME Stream, UNCHANGED <<os, glitches, pump, wire, reading>>, events' \in Nat, events' = 0 => events = 0,
         Honest(HostMarks)', Before(HostMarks, HostMarks')
  PROVE  Stream'
<1>1. PICK A : A = HostMarks
  OBVIOUS
<1>2. PICK B : B = HostMarks'
  OBVIOUS
<1>3. /\ Honest(A) /\ Before(A, B) /\ \A b \in B : b.n \in Nat /\ b.ever \in Int
      /\ \A b \in B : \E a \in A : a.of = b.of
  <2>1. \A b \in B : \E a \in A : a.of = b.of
    BY <1>1, <1>2 DEF HostMarks, Mark
  <2>2. \A b \in B : b.n \in Nat /\ b.ever \in Int
    BY <1>2 DEF Honest
  <2> QED BY <1>1, <1>2, <2>1, <2>2 DEF Stream
<1>4. ASSUME NEW U, Honest(U), Before(U, A) PROVE Before(U, B)
  BY <1>3, <1>4, BeforeTrans
<1>5. ASSUME NEW U, Honest(U) PROVE Honest(U)'
  BY <1>5 DEF Honest
<1>6. PumpMarks(pump)' = PumpMarks(pump) /\ InFlight' = InFlight
  BY DEF PumpMarks, InFlight
<1>7. PICK S : S = InFlight.frames
  OBVIOUS
<1>8. PICK P : P = PumpMarks(pump)
  OBVIOUS
<1>9. Flowing(S, 0, pump)
  BY <1>7 DEF Stream
<1>10. Before(P, B) /\ Honest(P)'
  BY <1>1, <1>4, <1>5, <1>8, <1>9 DEF Flowing
<1>11. ASSUME NEW m \in DOMAIN S, m > 0 PROVE Coming(S, 0, pump, m)'
  <2>1. Coming(S, 0, pump, m)
    BY <1>9, <1>11 DEF Flowing
  <2>2. PICK f : f = S[m]
    OBVIOUS
  <2>3. PICK F : F = FrameMarks(f)
    OBVIOUS
  <2>4. Fit(f) /\ Honest(F) /\ Before(P, F) /\ Before(F, A) /\ \A l \in DOMAIN S : m < l => Before(F, FrameMarks(S[l]))
    BY <1>1, <1>8, <2>1, <2>2, <2>3 DEF Coming
  <2>5. Before(F, B) /\ Honest(F)'
    BY <1>4, <1>5, <2>4
  <2>6. Fit(f)'
    BY <2>4, WholeStays DEF Fit
  <2> QED BY <1>2, <1>6, <1>8, <2>2, <2>3, <2>4, <2>5, <2>6 DEF Coming
<1>12. Flowing(InFlight.frames, 0, pump)'
  BY <1>2, <1>6, <1>7, <1>8, <1>10, <1>11 DEF Flowing
<1>13. Sums(pump)'
  BY DEF Stream, Sums
<1>14. (\A f \in Range(pump.taken) : Whole(f))'
  BY WholeStays DEF Stream
<1> QED BY <1>6, <1>12, <1>13, <1>14 DEF Stream, Claimed

\* The host goes on when each of its three counters does.
LEMMA HostMarksOrdered ==
  ASSUME Ord(Mark("net", net, ever.net), Mark("net", net, ever.net)'),
         Ord(Mark("usec", usec, ever.usec), Mark("usec", usec, ever.usec)'),
         Ord(Mark("nrestarts", nrestarts, ever.nrestarts), Mark("nrestarts", nrestarts, ever.nrestarts)')
  PROVE  Before(HostMarks, HostMarks')
<1> PICK a, b, c, x, y, z :
      /\ a = Mark("net", net, ever.net) /\ b = Mark("usec", usec, ever.usec)
      /\ c = Mark("nrestarts", nrestarts, ever.nrestarts)
      /\ x = Mark("net", net, ever.net)' /\ y = Mark("usec", usec, ever.usec)'
      /\ z = Mark("nrestarts", nrestarts, ever.nrestarts)'
  OBVIOUS
<1>1. HostMarks = {a, b, c} /\ HostMarks' = {x, y, z}
  BY DEF HostMarks
<1>2. a.of = "net" /\ x.of = "net" /\ b.of = "usec" /\ y.of = "usec" /\ c.of = "nrestarts" /\ z.of = "nrestarts"
  BY DEF Mark
<1>3. Ord(a, x) /\ Ord(b, y) /\ Ord(c, z)
  OBVIOUS
<1> QED BY <1>1, <1>2, <1>3 DEF Before

\* The three counters of an honest host.
LEMMA HostIs ==
  ASSUME Stream
  PROVE  /\ net \in Nat /\ ever.net \in Int /\ net <= ever.net /\ (events = 0 => net = ever.net)
         /\ usec \in Nat /\ ever.usec \in Int /\ usec <= ever.usec /\ (events = 0 => usec = ever.usec)
         /\ nrestarts \in Nat /\ ever.nrestarts \in Int /\ nrestarts <= ever.nrestarts
         /\ events = 0 => nrestarts = ever.nrestarts
BY DEF Stream, Honest, HostMarks, Mark

\* Time that passes moves the counters as they would have moved.
LEMMA PassesStreams ==
  ASSUME Stream, NEW d \in Nat, Passes(d), UNCHANGED <<os, pump, wire, reading>>
  PROVE  Stream'
<1>1. /\ net' = net + d /\ usec' = usec + d /\ UNCHANGED <<nrestarts, events, glitches>>
      /\ ever' = [net |-> ever.net + d, usec |-> ever.usec + d, nrestarts |-> ever.nrestarts]
  BY DEF Passes
<1>2. ever'.net = ever.net + d /\ ever'.usec = ever.usec + d /\ ever'.nrestarts = ever.nrestarts
  BY <1>1
<1>3. Honest(HostMarks)'
  BY <1>1, <1>2, HostIs DEF Honest, HostMarks, Mark
<1>4. Before(HostMarks, HostMarks')
  <2>1. Ord(Mark("net", net, ever.net), Mark("net", net, ever.net)')
    BY <1>1, <1>2, HostIs DEF Ord, Mark
  <2>2. Ord(Mark("usec", usec, ever.usec), Mark("usec", usec, ever.usec)')
    BY <1>1, <1>2, HostIs DEF Ord, Mark
  <2>3. Ord(Mark("nrestarts", nrestarts, ever.nrestarts), Mark("nrestarts", nrestarts, ever.nrestarts)')
    BY <1>1, <1>2, HostIs DEF Ord, Mark
  <2> QED BY <2>1, <2>2, <2>3, HostMarksOrdered
<1> QED BY <1>1, <1>3, <1>4, HostGoesOn DEF Stream

\* A reset takes from a counter what it would have been.
LEMMA HappensStreams ==
  ASSUME IInv, Stream, Happens
  PROVE  Stream'
<1>1. UNCHANGED <<os, glitches, pump, wire, reading>> /\ events' = events + 1
  BY DEF Happens
<1>2. events' \in Nat /\ events' # 0
  BY <1>1 DEF Stream
<1>3. ever \in Counts
  BY DEF IInv, TypeOK
<1>4. /\ ever'.net = ever.net /\ ever'.usec = ever.usec
      /\ \/ usec' = 0 /\ net' = net /\ nrestarts' = nrestarts + 1 /\ ever'.nrestarts = ever.nrestarts + 1
         \/ usec' = 0 /\ net' = net /\ nrestarts' = 0 /\ ever'.nrestarts = ever.nrestarts
         \/ usec' = usec /\ net' = 0 /\ nrestarts' = nrestarts /\ ever'.nrestarts = ever.nrestarts
  BY <1>3 DEF Happens, Counts
<1>5. Honest(HostMarks)'
  BY <1>2, <1>4, HostIs DEF Honest, HostMarks, Mark
<1>6. Before(HostMarks, HostMarks')
  <2>1. Ord(Mark("net", net, ever.net), Mark("net", net, ever.net)')
    BY <1>4, HostIs DEF Ord, Mark
  <2>2. Ord(Mark("usec", usec, ever.usec), Mark("usec", usec, ever.usec)')
    BY <1>4, HostIs DEF Ord, Mark
  <2>3. Ord(Mark("nrestarts", nrestarts, ever.nrestarts), Mark("nrestarts", nrestarts, ever.nrestarts)')
    BY <1>4, HostIs DEF Ord, Mark
  <2> QED BY <2>1, <2>2, <2>3, HostMarksOrdered
<1> QED BY <1>1, <1>2, <1>5, <1>6, HostGoesOn

\* What is told now was the host's when it was told.
LEMMA HostOrder ==
  ASSUME Stream
  PROVE  Before(HostMarks, HostMarks)
<1>1. Ord(Mark("net", net, ever.net), Mark("net", net, ever.net))
  BY HostIs DEF Ord, Mark
<1>2. Ord(Mark("usec", usec, ever.usec), Mark("usec", usec, ever.usec))
  BY HostIs DEF Ord, Mark
<1>3. Ord(Mark("nrestarts", nrestarts, ever.nrestarts), Mark("nrestarts", nrestarts, ever.nrestarts))
  BY HostIs DEF Ord, Mark
<1>4. PICK a, b, c : a = Mark("net", net, ever.net) /\ b = Mark("usec", usec, ever.usec)
                     /\ c = Mark("nrestarts", nrestarts, ever.nrestarts)
  OBVIOUS
<1>5. HostMarks = {a, b, c} /\ a.of = "net" /\ b.of = "usec" /\ c.of = "nrestarts"
  BY <1>4 DEF HostMarks, Mark
<1>6. Ord(a, a) /\ Ord(b, b) /\ Ord(c, c)
  BY <1>1, <1>2, <1>3, <1>4
<1> QED BY <1>5, <1>6 DEF Before

\* What does not touch the stream keeps it.
LEMMA NothingHappens ==
  ASSUME Stream, UNCHANGED <<os, net, usec, nrestarts, ever, events, glitches, pump, wire, reading>>
  PROVE  Stream'
<1>1. HostMarks' = HostMarks
  BY DEF HostMarks
<1>2. Honest(HostMarks)'
  <2>1. Honest(HostMarks)
    BY DEF Stream
  <2> QED BY <1>1, <2>1 DEF Honest
<1>3. Before(HostMarks, HostMarks')
  <2>1. Before(HostMarks, HostMarks)
    BY HostOrder
  <2> QED BY <1>1, <2>1
<1>4. events' \in Nat
  BY DEF Stream
<1> QED BY <1>2, <1>3, <1>4, HostGoesOn

\* What a read of n of the lines w makes of them, behind the lines x that are kept.
ReadsAs(x, w, n, L, D) ==
  LET s == CutAt(x \o SubSeq(w, 1, n), D)
      t == CutAt(s.rest \o SubSeq(w, n + 1, Len(w)), D) IN
  s \in Cuts(L, D) /\ t \in Cuts(L, D) /\ CutAt(x \o w, D) = [frames |-> s.frames \o t.frames, rest |-> t.rest]

LEMMA ReadJoins ==
  ASSUME NEW L, NEW D, NEW x \in Seq(L), NEW w \in Seq(L), NEW n \in 1..Len(w)
  PROVE  ReadsAs(x, w, n, L, D)
<1>1. PICK z : z = SubSeq(w, n + 1, Len(w))
  OBVIOUS
<1>2. PICK b : b = x \o SubSeq(w, 1, n)
  OBVIOUS
<1>3. b \in Seq(L) /\ z \in Seq(L) /\ x \o w = b \o z
  <2>1. InTwo(x, w, n, L)
    BY CutInTwo
  <2> QED BY <1>1, <1>2, <2>1 DEF InTwo
<1>4. PICK s : s = CutAt(b, D)
  OBVIOUS
<1>5. s \in Cuts(L, D) /\ s.rest \in Seq(L)
  <2>1. s \in Cuts(L, D)
    BY <1>3, <1>4, CutTyped
  <2> QED BY <2>1 DEF Cuts
<1>6. s.rest \o z \in Seq(L)
  <2>1. Rejoins(s.rest, z, z, L)
    BY <1>3, <1>5, Rejoin
  <2> QED BY <2>1 DEF Rejoins
<1>7. PICK t : t = CutAt(s.rest \o z, D)
  OBVIOUS
<1>8. t \in Cuts(L, D)
  BY <1>6, <1>7, CutTyped
<1>9. CutAt(b \o z, D) = [frames |-> s.frames \o t.frames, rest |-> t.rest]
  BY <1>3, <1>4, <1>7, CutsJoin
<1> QED BY <1>1, <1>2, <1>3, <1>4, <1>5, <1>7, <1>8, <1>9 DEF ReadsAs

\* A read takes the whole frames there are, and leaves the others in flight.
LEMMA ReadCuts ==
  ASSUME TypeOK, Stream, NEW n \in 1..Len(wire), NEW b, b = pump.buf \o SubSeq(wire, 1, n)
  PROVE  LET s == SplitFrames(b)
             t == SplitFrames(s.rest \o SubSeq(wire, n + 1, Len(wire))) IN
         /\ s \in Cuts(TrueLines, Delimiters) /\ t \in Cuts(TrueLines, Delimiters)
         /\ InFlight.frames = s.frames \o t.frames /\ t.rest = <<>>
<1>1. PICK L : L = TrueLines
  OBVIOUS
<1>2. pump.buf \in Seq(L) /\ wire \in Seq(L)
  BY <1>1, PumpTyped DEF TypeOK, Stream
<1>3. ReadsAs(pump.buf, wire, n, L, Delimiters)
  BY <1>2, ReadJoins
<1>4. PICK s : s = CutAt(b, Delimiters)
  OBVIOUS
<1>5. PICK t : t = CutAt(s.rest \o SubSeq(wire, n + 1, Len(wire)), Delimiters)
  OBVIOUS
<1>6. /\ s \in Cuts(L, Delimiters) /\ t \in Cuts(L, Delimiters)
      /\ InFlight = [frames |-> s.frames \o t.frames, rest |-> t.rest]
  BY <1>3, <1>4, <1>5 DEF ReadsAs, InFlight, SplitFrames
<1>7. InFlight.rest = <<>>
  BY DEF Stream
<1> QED BY <1>1, <1>4, <1>5, <1>6, <1>7 DEF SplitFrames

\* A read takes frames from the front of the stream.
LEMMA ReadStreams ==
  ASSUME IInv, Stream, NEW n \in 1..Len(wire), Read(n)
  PROVE  Stream'
<1> USE DEF IInv
<1>1. /\ wire' = SubSeq(wire, n + 1, Len(wire)) /\ reading
      /\ UNCHANGED <<os, net, usec, nrestarts, ever, events, glitches, reading>>
  BY DEF Read, host
<1>2. PICK s : s = SplitFrames(pump.buf \o SubSeq(wire, 1, n))
  OBVIOUS
<1>3. PICK p : p = [pump EXCEPT !.buf = s.rest, !.out = <<>>, !.pout = <<>>, !.taken = s.frames]
  OBVIOUS
<1>4. PICK q : q = TakeAll(p, s.frames)
  OBVIOUS
<1>5. pump' = q
  BY <1>2, <1>3, <1>4 DEF Read
<1>6. PICK t : t = SplitFrames(s.rest \o wire')
  OBVIOUS
<1>7. PICK Fr : Fr = Frames(TrueLines, Delimiters)
  OBVIOUS
<1>8. PICK S : S = InFlight.frames
  OBVIOUS
<1>9. /\ s \in Cuts(TrueLines, Delimiters) /\ t \in Cuts(TrueLines, Delimiters)
      /\ S = s.frames \o t.frames /\ t.rest = <<>>
  BY <1>1, <1>2, <1>6, <1>8, ReadCuts
<1>10. s.frames \in Seq(Fr) /\ t.frames \in Seq(Fr) /\ s.rest \in Seq(TrueLines)
  BY <1>7, <1>9 DEF Cuts
<1>11. PICK F \in Seq(Fr) : F = s.frames
  BY <1>10
<1>12. PICK G \in Seq(Fr) : G = t.frames
  BY <1>10
<1>13. PICK N \in Nat : N = Len(F)
  OBVIOUS
<1>14. /\ S \in Seq(Fr) /\ 1..N \subseteq DOMAIN S /\ DOMAIN S \subseteq Nat
       /\ \A k \in 1..N : F[k] = S[k]
       /\ \A k \in DOMAIN G : N + k \in DOMAIN S /\ S[N + k] = G[k] /\ k \in Nat /\ k > 0
  <2>1. S = F \o G
    BY <1>9, <1>11, <1>12
  <2>2. S \in Seq(Fr) /\ Len(S) = N + Len(G) /\ DOMAIN S = 1..(N + Len(G))
    BY <1>13, <2>1
  <2>3. \A k \in 1..N : F[k] = S[k]
    BY <1>13, <2>1
  <2>4. \A k \in 1..Len(G) : S[N + k] = G[k]
    BY <1>13, <2>1
  <2>5. DOMAIN G = 1..Len(G) /\ Len(G) \in Nat
    OBVIOUS
  <2>6. ASSUME NEW k \in DOMAIN G PROVE N + k \in DOMAIN S /\ S[N + k] = G[k] /\ k \in Nat /\ k > 0
    BY <2>2, <2>4, <2>5
  <2> QED BY <2>2, <2>3, <2>6
<1>15. pump \in Pumps
  BY DEF Stream
<1>16. p \in Pumps
  <2>1. s.frames \in Seq(Frames(TrueLines, Delimiters))
    BY <1>7, <1>10
  <2>2. <<>> \in Seq(Outs) /\ <<>> \in Seq(Claims)
    BY EmptySeq
  <2> QED BY <1>3, <1>10, <1>15, <2>1, <2>2 DEF Pumps
<1>17. p.buf = s.rest /\ p.taken = s.frames /\ p.pout = <<>> /\ SameMetric(p, pump)
       /\ p.groups = pump.groups /\ p.first = pump.first
  BY <1>3, <1>15 DEF Pumps, SameMetric
<1>18. PumpMarks(p) = PumpMarks(pump)
  BY <1>17 DEF PumpMarks, SameMetric
<1>19. Flowing(S, 0, p)
  BY <1>8, <1>18 DEF Stream, Flowing, Coming
<1>20. Sums(p) /\ Claimed(p)
  <2>1. Sums(p)
    BY <1>17 DEF Stream, Sums, SameMetric
  <2>2. Claimed(p)
    BY <1>17 DEF Claimed, Range
  <2> QED BY <2>1, <2>2
<1>21. q \in Pumps /\ SameStream(p, q) /\ Flowing(S, N, q) /\ Sums(q) /\ Claimed(q)
  BY <1>4, <1>11, <1>13, <1>14, <1>16, <1>19, <1>20, TakeAllFlows
<1>22. q.buf = s.rest /\ q.taken = F
  BY <1>11, <1>17, <1>21 DEF SameStream
<1>23. InFlight' = t
  BY <1>5, <1>6, <1>22 DEF InFlight
<1>24. Flowing(G, 0, q)
  <2>1. Before(PumpMarks(q), HostMarks) /\ Honest(PumpMarks(q))
    BY <1>21 DEF Flowing
  <2>2. ASSUME NEW m \in DOMAIN G, m > 0 PROVE Coming(G, 0, q, m)
    <3>1. N + m \in DOMAIN S /\ S[N + m] = G[m] /\ m \in Nat
      BY <1>14
    <3>2. N + m > N
      BY <2>2, <3>1
    <3>3. Coming(S, N, q, N + m)
      BY <1>21, <3>1, <3>2 DEF Flowing
    <3>4. ASSUME NEW l \in DOMAIN G, m < l PROVE Before(FrameMarks(G[m]), FrameMarks(G[l]))
      <4>1. N + l \in DOMAIN S /\ S[N + l] = G[l] /\ l \in Nat
        BY <1>14
      <4>2. N + m < N + l
        BY <3>1, <3>4, <4>1
      <4> QED BY <3>1, <3>3, <4>1, <4>2 DEF Coming
    <3> QED BY <3>1, <3>3, <3>4 DEF Coming
  <2> QED BY <2>1, <2>2 DEF Flowing
<1>25. \A f \in Range(q.taken) : Whole(f)
  <2> SUFFICES ASSUME NEW f \in Range(q.taken) PROVE Whole(f)
    OBVIOUS
  <2>1. PICK k \in 1..N : f = F[k]
    BY <1>13, <1>22 DEF Range
  <2>2. k \in DOMAIN S /\ k > 0 /\ f = S[k]
    BY <1>14, <2>1
  <2>3. Coming(S, 0, p, k)
    BY <1>19, <2>2 DEF Flowing
  <2> QED BY <2>2, <2>3 DEF Coming, Fit
<1>26. Flowing(InFlight.frames, 0, pump)'
  <2>1. InFlight'.frames = G
    BY <1>12, <1>23
  <2>2. Before(PumpMarks(q), HostMarks) /\ Honest(PumpMarks(q))
    BY <1>24 DEF Flowing
  <2>3. PumpMarks(q)' = PumpMarks(q) /\ HostMarks' = HostMarks
    BY <1>1 DEF PumpMarks, HostMarks
  <2>4. ASSUME NEW U, Honest(U) PROVE Honest(U)'
    BY <1>1, <2>4 DEF Honest
  <2>5. ASSUME NEW m \in DOMAIN G, m > 0 PROVE Coming(G, 0, q, m)'
    <3>1. Coming(G, 0, q, m)
      BY <1>24, <2>5 DEF Flowing
    <3>2. PICK F1 : F1 = FrameMarks(G[m])
      OBVIOUS
    <3>3. Fit(G[m]) /\ Honest(F1) /\ Before(PumpMarks(q), F1) /\ Before(F1, HostMarks)
          /\ \A l \in DOMAIN G : m < l => Before(F1, FrameMarks(G[l]))
      BY <3>1, <3>2 DEF Coming
    <3>4. Fit(G[m])' /\ Honest(F1)'
      BY <1>1, <2>4, <3>3, WholeStays DEF Fit
    <3> QED BY <2>3, <3>2, <3>3, <3>4 DEF Coming
  <2>6. Before(PumpMarks(q)', HostMarks') /\ Honest(PumpMarks(q))'
    BY <1>1, <2>2, <2>3 DEF Honest
  <2>7. Flowing(G, 0, q)'
    BY <2>5, <2>6 DEF Flowing
  <2>8. pump' = q
    BY <1>5
  <2> QED BY <2>1, <2>7, <2>8 DEF Flowing, Coming
<1>27. Sums(pump)' /\ Claimed(pump)'
  BY <1>1, <1>5, <1>21 DEF Sums, Claimed
<1>28. events' \in Nat /\ glitches' \in Nat /\ Honest(HostMarks)'
  BY <1>1 DEF Stream, Honest, HostMarks
<1>29. (\A f \in Range(pump.taken) : Whole(f))'
  BY <1>1, <1>5, <1>25, WholeStays
<1> QED BY <1>1, <1>5, <1>9, <1>21, <1>23, <1>26, <1>27, <1>28, <1>29 DEF Stream

-----------------------------------------------------------------------------
(* What an iteration adds to the stream. *)

\* The metric frame of this iteration is one the pump can take, and tells the truth.
LEMMA MetricFits ==
  ASSUME IInv, Stream, NEW got \in Answers, NEW f, f = [kind |-> "metric", lines |-> MetricBody(got)]
  PROVE  Fit(f) /\ FrameMarks(f) \subseteq HostMarks
<1>1. PICK b : b = MetricBody(got)
  OBVIOUS
<1>2. f.lines = b /\ f.kind = "metric"
  BY <1>1
<1>3. TypeOK
  BY DEF IInv
<1>4. b \in Seq(TrueLines)
  BY <1>1, <1>3, MetricBodyIs
<1>5. DOMAIN b = 1..Len(b)
  <2> HIDE DEF TrueLines
  <2> QED BY <1>4
<1>6. /\ Parse(b) = IF "bytes" \in got THEN [bytes |-> net, ever |-> ever.net] ELSE [bytes |-> 0, ever |-> 0]
      /\ Has(b, "stat") <=> "stat" \in got
      /\ Has(b, "bytes") <=> "bytes" \in got
      /\ \A n \in 1..Len(b) : b[n].tag \in {"facts", "stat", "bytes"}
  BY <1>1, <1>3, MetricReads
<1>7. Whole(f)
  <2>1. PICK tags : tags = {l.tag : l \in Range(b)}
    OBVIOUS
  <2>2. tags \subseteq {"facts", "stat", "bytes"}
    BY <1>5, <1>6, <2>1, TagsWithin
  <2>3. ("stat" \in tags <=> "stat" \in got) /\ ("bytes" \in tags <=> "bytes" \in got)
    BY <1>5, <1>6, <2>1, TagsAre
  <2>4. os = "unix" => ("stat" \in got <=> "bytes" \in got)
    BY DEF Answers, Everything
  <2> QED BY <1>2, <2>1, <2>2, <2>3, <2>4 DEF Whole
<1>8. Readable(f)
  <2>1. net \in Int /\ ever.net \in Int
    BY HostIs
  <2> QED BY <1>2, <1>6, <2>1 DEF Readable, Readings
<1>9. FrameMarks(f) \subseteq HostMarks
  <2>1. CASE "bytes" \in got
    <3>1. f.kind # "proc" /\ Has(f.lines, "bytes")
      BY <1>2, <1>6, <2>1
    <3>2. PICK r : r = Parse(f.lines)
      OBVIOUS
    <3>3. r.bytes = net /\ r.ever = ever.net
      BY <1>2, <1>6, <2>1, <3>2
    <3>4. FrameMarks(f) = {Mark("net", r.bytes, r.ever)}
      BY <3>1, <3>2 DEF FrameMarks
    <3>5. FrameMarks(f) = {Mark("net", net, ever.net)}
      BY <3>3, <3>4
    <3> QED BY <3>5 DEF HostMarks
  <2>2. CASE "bytes" \notin got
    BY <1>2, <1>6, <2>2 DEF FrameMarks
  <2> QED BY <2>1, <2>2
<1> QED BY <1>2, <1>5, <1>7, <1>8, <1>9 DEF Fit, Delimiters

\* So is, and does, its process frame.
LEMMA ProcFits ==
  ASSUME IInv, Stream, at = "work", Emits, NEW f, f = [kind |-> "proc", lines |-> ProcBody]
  PROVE  Fit(f) /\ FrameMarks(f) \subseteq HostMarks
<1>1. PICK b : b = ProcBody
  OBVIOUS
<1>2. f.lines = b /\ f.kind = "proc"
  BY <1>1
<1>3. b \in Seq(TrueLines)
  BY <1>1, ProcBodyIs
<1>4. DOMAIN b = 1..Len(b)
  <2> HIDE DEF TrueLines
  <2> QED BY <1>3
<1>5. /\ Has(b, "procs") /\ First(b, "procs") = ProcLine
      /\ Has(b, "group") => First(b, "group") = GroupLine
      /\ Has(b, "unit") => First(b, "unit") = UnitLine
      /\ \A n \in 1..Len(b) : b[n].tag \in {"procs", "bytes", "group", "unit"}
  BY <1>1, ProcReads
<1>6. Whole(f)
  <2>1. PICK tags : tags = {l.tag : l \in Range(b)}
    OBVIOUS
  <2>2. tags \subseteq {"procs", "bytes", "group", "unit"}
    BY <1>4, <1>5, <2>1, TagsWithin
  <2>3. "procs" \in tags
    BY <1>4, <1>5, <2>1, TagsAre
  <2> QED BY <1>2, <2>1, <2>2, <2>3 DEF Whole
<1>7. Readable(f)
  <2>1. ProcLine.total \in Int /\ ProcLine.total > 0
    BY WindowIsOpen DEF ProcLine
  <2>2. GroupLine \in GroupLines /\ UnitLine \in UnitLines
    BY HostIs DEF GroupLine, GroupLines, UnitLine, UnitLines
  <2> QED BY <1>2, <1>5, <2>1, <2>2 DEF Readable
<1>8. FrameMarks(f) \subseteq HostMarks
  <2>1. GroupLine.usec = usec /\ GroupLine.ever = ever.usec /\ UnitLine.n = nrestarts /\ UnitLine.ever = ever.nrestarts
    BY DEF GroupLine, UnitLine
  <2> QED BY <1>2, <1>5, <2>1 DEF FrameMarks, HostMarks
<1> QED BY <1>2, <1>4, <1>6, <1>7, <1>8 DEF Fit, Delimiters

\* The bodies hold no delimiter.
LEMMA BodiesUncut ==
  ASSUME TypeOK, NEW got
  PROVE  \A n \in 1..Len(MetricBody(got)) : MetricBody(got)[n].tag \notin Delimiters
<1>1. \A n \in 1..Len(MetricBody(got)) : MetricBody(got)[n].tag \in {"facts", "stat", "bytes"}
  BY MetricReads
<1> QED BY <1>1 DEF Delimiters

LEMMA ProcBodyUncut ==
  ASSUME IInv, at = "work", Emits
  PROVE  \A n \in 1..Len(ProcBody) : ProcBody[n].tag \notin Delimiters
<1>1. \A n \in 1..Len(ProcBody) : ProcBody[n].tag \in {"procs", "bytes", "group", "unit"}
  BY ProcReads
<1> QED BY <1>1 DEF Delimiters

\* A frame's lines hold no delimiter, x ends with one, and c with one frame more.
Plain(b, D) == \A n \in 1..Len(b) : b[n].tag \notin D
Ended(x, D) == CutAt(x, D).rest = <<>>
More(c, b, e) == [frames |-> Append(c.frames, [kind |-> e.tag, lines |-> b]), rest |-> <<>>]

LEMMA FrameSent ==
  ASSUME NEW L, NEW D, NEW x \in Seq(L), Ended(x, D), NEW b \in Seq(L), Plain(b, D), NEW e \in L, e.tag \in D
  PROVE  CutAt(x \o Append(b, e), D) = More(CutAt(x, D), b, e)
BY CutOneFrameMore DEF Plain, Ended, More

LEMMA AppendTyped ==
  ASSUME NEW L, NEW b \in Seq(L), NEW e \in L
  PROVE  Append(b, e) \in Seq(L)
OBVIOUS

\* One frame, or two, sent behind what is in flight.
LEMMA OneSent ==
  ASSUME NEW L, NEW D, NEW buf \in Seq(L), NEW w \in Seq(L), Ended(buf \o w, D),
         NEW b \in Seq(L), Plain(b, D), NEW e \in L, e.tag \in D
  PROVE  CutAt(buf \o ((w \o Append(b, e)) \o <<>>), D) = More(CutAt(buf \o w, D), b, e)
<1>1. PICK y \in Seq(L) : y = Append(b, e)
  BY AppendTyped
<1>2. PICK x \in Seq(L) : x = buf \o w
  <2>1. Rejoins(buf, w, w, L)
    BY Rejoin
  <2> QED BY <2>1 DEF Rejoins
<1>3. CutAt(x \o Append(b, e), D) = More(CutAt(x, D), b, e)
  <2>1. Ended(x, D)
    BY <1>2
  <2> QED BY <2>1, FrameSent
<1>4. buf \o (w \o y) = x \o y /\ (w \o y) \o <<>> = w \o y
  <2>1. Rejoins(buf, w, y, L) /\ Rejoins(w, y, y, L)
    BY Rejoin
  <2> QED BY <1>2, <2>1 DEF Rejoins
<1> QED BY <1>1, <1>2, <1>3, <1>4

IsFrame(b, e, L, D) == b \in Seq(L) /\ Plain(b, D) /\ e \in L /\ e.tag \in D

LEMMA TwoSent ==
  ASSUME NEW L, NEW D, NEW buf \in Seq(L), NEW w \in Seq(L), Ended(buf \o w, D),
         NEW b, NEW e, IsFrame(b, e, L, D), NEW d, NEW z, IsFrame(d, z, L, D)
  PROVE  CutAt(buf \o ((w \o Append(b, e)) \o Append(d, z)), D) = More(More(CutAt(buf \o w, D), b, e), d, z)
<1>1. PICK y : y = Append(b, e)
  OBVIOUS
<1>2. PICK v : v = Append(d, z)
  OBVIOUS
<1>3. y \in Seq(L) /\ v \in Seq(L)
  BY <1>1, <1>2, AppendTyped DEF IsFrame
<1>4. PICK u : u = w \o y
  OBVIOUS
<1>5. u \in Seq(L) /\ u = (w \o y) \o <<>>
  <2>1. Rejoins(w, y, y, L)
    BY <1>3, Rejoin
  <2> QED BY <1>4, <2>1 DEF Rejoins
<1>6. PICK x : x = buf \o u
  OBVIOUS
<1>7. x \in Seq(L) /\ buf \o (u \o v) = x \o v
  <2>1. Rejoins(buf, u, v, L)
    BY <1>3, <1>5, Rejoin
  <2> QED BY <1>6, <2>1 DEF Rejoins
<1>8. CutAt(x, D) = More(CutAt(buf \o w, D), b, e)
  <2>1. CutAt(buf \o ((w \o Append(b, e)) \o <<>>), D) = More(CutAt(buf \o w, D), b, e)
    BY OneSent DEF IsFrame
  <2> QED BY <1>1, <1>5, <1>6, <2>1
<1>9. Ended(x, D)
  BY <1>8 DEF Ended, More
<1>10. CutAt(x \o Append(d, z), D) = More(CutAt(x, D), d, z)
  BY <1>7, <1>9, FrameSent DEF IsFrame
<1> QED BY <1>1, <1>2, <1>4, <1>7, <1>8, <1>10

LEMMA FrameTyped ==
  ASSUME NEW L, NEW D, NEW b \in Seq(L), NEW k \in D
  PROVE  [kind |-> k, lines |-> b] \in Frames(L, D)
BY DEF Frames

\* What is in flight is typed, and all of it whole frames.
LEMMA FlightTyped ==
  ASSUME TypeOK, Stream
  PROVE  /\ pump.buf \in Seq(TrueLines) /\ wire \in Seq(TrueLines)
         /\ InFlight = CutAt(pump.buf \o wire, Delimiters) /\ InFlight.rest = <<>>
         /\ InFlight.frames \in Seq(Frames(TrueLines, Delimiters))
<1>1. PICK L : L = TrueLines
  OBVIOUS
<1>2. pump.buf \in Seq(L) /\ wire \in Seq(L)
  BY <1>1, PumpTyped DEF Stream, TypeOK
<1>3. pump.buf \o wire \in Seq(L)
  BY <1>2, ConcatProperties
<1>4. InFlight = CutAt(pump.buf \o wire, Delimiters)
  BY DEF InFlight, SplitFrames
<1>5. InFlight \in Cuts(L, Delimiters)
  BY <1>3, <1>4, CutTyped
<1> QED BY <1>1, <1>2, <1>4, <1>5 DEF Stream, Cuts

\* An iteration puts its frames behind those in flight.
LEMMA WorkSends ==
  ASSUME IInv, Stream, NEW got \in Answers, Work(got), reading,
         NEW f, f = [kind |-> "metric", lines |-> MetricBody(got)],
         NEW g, g = [kind |-> "proc", lines |-> ProcBody]
  PROVE  InFlight' = [frames |-> IF Emits THEN Append(Append(InFlight.frames, f), g) ELSE Append(InFlight.frames, f),
                      rest |-> <<>>]
<1>1. PICK L, D : L = TrueLines /\ D = Delimiters
  OBVIOUS
<1>2. TypeOK /\ at = "work" /\ pump' = pump /\ wire' = wire \o Metric(got) \o (IF Emits THEN Proc ELSE <<>>)
  BY DEF IInv, Work
<1>3. PICK b, e : b = MetricBody(got) /\ e = End("metric")
  OBVIOUS
<1>4. b \in Seq(L) /\ e \in L /\ e.tag = "metric" /\ e.tag \in D /\ Metric(got) = Append(b, e) /\ Plain(b, D)
  <2>1. b \in Seq(L) /\ e \in L /\ Metric(got) = Append(b, e)
    BY <1>1, <1>2, <1>3, MetricBodyIs
  <2>2. e.tag = "metric" /\ e.tag \in D
    BY <1>1, <1>3 DEF End, Delimiters
  <2>3. Plain(b, D)
    BY <1>1, <1>2, <1>3, BodiesUncut DEF Plain
  <2> QED BY <2>1, <2>2, <2>3
<1>5. PICK buf, w, c : buf = pump.buf /\ w = wire /\ c = InFlight
  OBVIOUS
<1>6. buf \in Seq(L) /\ w \in Seq(L) /\ CutAt(buf \o w, D) = c /\ Ended(buf \o w, D)
  BY <1>1, <1>2, <1>5, FlightTyped DEF Ended
<1>7. InFlight' = CutAt(buf \o wire', D)
  BY <1>1, <1>2, <1>5 DEF InFlight, SplitFrames
<1>8. f = [kind |-> e.tag, lines |-> b]
  BY <1>3, <1>4
<1>9. CASE ~Emits
  <2>1. wire' = (w \o Append(b, e)) \o <<>>
    BY <1>2, <1>4, <1>5, <1>9
  <2>2. CutAt(buf \o ((w \o Append(b, e)) \o <<>>), D) = More(CutAt(buf \o w, D), b, e)
    BY <1>4, <1>6, OneSent
  <2>3. InFlight' = More(c, b, e)
    BY <1>6, <1>7, <2>1, <2>2
  <2> QED BY <1>5, <1>8, <1>9, <2>3 DEF More
<1>10. CASE Emits
  <2>1. PICK d, z : d = ProcBody /\ z = End("proc")
    OBVIOUS
  <2>2. d \in Seq(L) /\ z \in L /\ z.tag = "proc" /\ z.tag \in D /\ Proc = Append(d, z) /\ Plain(d, D)
    <3>1. d \in Seq(L) /\ z \in L /\ Proc = Append(d, z)
      BY <1>1, <1>2, <1>10, <2>1, ProcBodyIs
    <3>2. z.tag = "proc" /\ z.tag \in D
      BY <1>1, <2>1 DEF End, Delimiters
    <3>3. Plain(d, D)
      BY <1>1, <1>2, <1>10, <2>1, ProcBodyUncut DEF Plain
    <3> QED BY <3>1, <3>2, <3>3
  <2>3. g = [kind |-> z.tag, lines |-> d]
    BY <2>1, <2>2
  <2>4. wire' = (w \o Append(b, e)) \o Append(d, z)
    BY <1>2, <1>4, <1>5, <1>10, <2>2
  <2>5. CutAt(buf \o ((w \o Append(b, e)) \o Append(d, z)), D) = More(More(CutAt(buf \o w, D), b, e), d, z)
    <3>1. IsFrame(b, e, L, D) /\ IsFrame(d, z, L, D)
      BY <1>4, <2>2 DEF IsFrame
    <3> QED BY <1>6, <3>1, TwoSent
  <2>6. InFlight' = More(More(c, b, e), d, z)
    BY <1>6, <1>7, <2>4, <2>5
  <2> QED BY <1>5, <1>8, <1>10, <2>3, <2>6 DEF More
<1> QED BY <1>9, <1>10

\* An iteration touches neither the host nor the pump.
LEMMA WorkHost ==
  ASSUME NEW got \in Answers, Work(got), Stream
  PROVE  /\ UNCHANGED <<os, net, usec, nrestarts, ever, events, pump, reading>> /\ at = "work"
         /\ glitches' \in Nat /\ HostMarks' = HostMarks
<1>1. UNCHANGED <<os, net, usec, nrestarts, ever, events, pump, reading>> /\ at = "work"
      /\ glitches' = glitches + (IF got = Everything THEN 0 ELSE 1) /\ glitches \in Nat
  BY DEF Work, Stream
<1>2. glitches' \in Nat
  BY <1>1
<1>3. HostMarks' = HostMarks
  BY <1>1 DEF HostMarks
<1> QED BY <1>1, <1>2, <1>3

\* A stream that flows goes on with a frame that was born at its end.
Born(f) == Fit(f) /\ FrameMarks(f) \subseteq HostMarks

LEMMA FlowsOn ==
  ASSUME NEW T, NEW S \in Seq(T), NEW f \in T, NEW p, Flowing(S, 0, p)', Born(f)',
         Honest(HostMarks)', Before(HostMarks', HostMarks')
  PROVE  Flowing(Append(S, f), 0, p)' /\ Append(S, f) \in Seq(T)
<1>1. PICK H : H = HostMarks'
  OBVIOUS
<1>2. PICK P : P = PumpMarks(p)'
  OBVIOUS
<1>3. PICK F : F = FrameMarks(f)
  OBVIOUS
<1>4. PICK R : R = Append(S, f)
  OBVIOUS
<1>5. PICK n \in Nat : n = Len(S)
  OBVIOUS
<1>6. R \in Seq(T) /\ DOMAIN R = 1..(n + 1) /\ DOMAIN S = 1..n /\ R[n + 1] = f /\ \A m \in 1..n : R[m] = S[m]
  BY <1>4, <1>5
<1>7. F \subseteq H /\ Fit(f)' /\ Honest(H)' /\ Before(H, H) /\ Before(P, H) /\ Honest(P)'
  BY <1>1, <1>2, <1>3 DEF Born, Flowing, Honest
<1>8. Honest(F)' /\ Before(F, H) /\ Before(P, F)
  BY <1>7 DEF Honest, Before
<1>9. ASSUME NEW m \in DOMAIN R, m > 0 PROVE Coming(R, 0, p, m)'
  <2>1. CASE m = n + 1
    <3>1. R[m] = f /\ \A l \in DOMAIN R : ~(m < l)
      BY <1>6, <2>1
    <3> QED BY <1>1, <1>2, <1>3, <1>7, <1>8, <3>1 DEF Coming
  <2>2. CASE m # n + 1
    <3>1. m \in DOMAIN S /\ R[m] = S[m] /\ m \in 1..n
      BY <1>6, <2>2
    <3>2. Coming(S, 0, p, m)'
      BY <1>9, <3>1 DEF Flowing
    <3>3. PICK E : E = FrameMarks(S[m])
      OBVIOUS
    <3>4. /\ Fit(S[m])' /\ Honest(E)' /\ Before(P, E) /\ Before(E, H)
          /\ \A l \in DOMAIN S : m < l => Before(E, FrameMarks(S[l]))
      BY <1>1, <1>2, <3>2, <3>3 DEF Coming
    <3>5. Before(E, F)
      BY <1>7, <3>4 DEF Before
    <3>6. ASSUME NEW l \in DOMAIN R, m < l PROVE Before(E, FrameMarks(R[l]))
      <4>1. CASE l = n + 1
        BY <1>3, <1>6, <3>5, <4>1
      <4>2. CASE l # n + 1
        <5>1. l \in DOMAIN S /\ R[l] = S[l]
          BY <1>6, <4>2
        <5> QED BY <3>4, <3>6, <5>1
      <4> QED BY <4>1, <4>2
    <3> QED BY <1>1, <1>2, <3>1, <3>3, <3>4, <3>6 DEF Coming
  <2> QED BY <2>1, <2>2
<1>10. Flowing(R, 0, p)'
  BY <1>1, <1>2, <1>7, <1>9 DEF Flowing
<1> QED BY <1>4, <1>6, <1>10

\* An iteration changes nothing of a stream that flows.
LEMMA WorkKeepsFlowing ==
  ASSUME NEW got \in Answers, Work(got), Stream, NEW S, NEW p, Flowing(S, 0, p)
  PROVE  Flowing(S, 0, p)'
<1>1. os' = os /\ events' = events /\ HostMarks' = HostMarks
  BY WorkHost
<1>2. PumpMarks(p)' = PumpMarks(p)
  BY DEF PumpMarks
<1>3. ASSUME NEW U, Honest(U) PROVE Honest(U)'
  BY <1>1, <1>3 DEF Honest
<1>4. Honest(PumpMarks(p))' /\ Before(PumpMarks(p), HostMarks)'
  <2>1. PICK P : P = PumpMarks(p)
    OBVIOUS
  <2>2. Honest(P)' /\ Before(P, HostMarks)
    BY <1>3, <2>1 DEF Flowing
  <2> QED BY <1>1, <1>2, <2>1, <2>2 DEF Honest
<1>5. ASSUME NEW m \in DOMAIN S, m > 0 PROVE Coming(S, 0, p, m)'
  <2>1. Coming(S, 0, p, m)
    BY <1>5 DEF Flowing
  <2>2. PICK U : U = FrameMarks(S[m])
    OBVIOUS
  <2>3. Fit(S[m]) /\ Honest(U) /\ Before(PumpMarks(p), U) /\ Before(U, HostMarks)
        /\ \A l \in DOMAIN S : m < l => Before(U, FrameMarks(S[l]))
    BY <2>1, <2>2 DEF Coming
  <2>4. Honest(U)'
    BY <1>3, <2>3
  <2>5. Fit(S[m])'
    BY <1>1, <2>3, WholeStays DEF Fit
  <2> QED BY <1>1, <1>2, <2>2, <2>3, <2>4, <2>5 DEF Coming
<1> QED BY <1>1, <1>2, <1>4, <1>5 DEF Flowing

\* An iteration adds frames at the end of the stream.
LEMMA WorkStreams ==
  ASSUME IInv, Stream, NEW got \in Answers, Work(got)
  PROVE  Stream'
<1>1. /\ UNCHANGED <<os, net, usec, nrestarts, ever, events, pump, reading>> /\ at = "work"
      /\ glitches' \in Nat /\ HostMarks' = HostMarks
  BY WorkHost
<1>2. events' \in Nat /\ pump' \in Pumps /\ (\A f \in Range(pump.taken) : Whole(f))'
  BY <1>1, WholeStays DEF Stream
<1>3. Honest(HostMarks)' /\ Before(HostMarks', HostMarks')
  <2>1. Before(HostMarks, HostMarks)
    BY HostOrder
  <2>2. PICK U : U = HostMarks
    OBVIOUS
  <2>3. Honest(U)
    BY <2>2 DEF Stream
  <2>4. Honest(U)'
    BY <1>1, <2>3 DEF Honest
  <2> QED BY <1>1, <2>1, <2>2, <2>4 DEF Honest
<1>4. Sums(pump)' /\ Claimed(pump)'
  BY <1>1 DEF Stream, Sums, Claimed
<1>5. PICK p : p = pump
  OBVIOUS
<1>6. PICK S : S = InFlight.frames
  OBVIOUS
<1>7. Flowing(S, 0, p)'
  <2>1. Flowing(S, 0, p)
    BY <1>5, <1>6 DEF Stream
  <2> QED BY <2>1, WorkKeepsFlowing
<1>8. CASE ~reading
  <2>1. pump'.buf = <<>> /\ wire' = <<>>
    BY <1>1, <1>8 DEF Stream, Work
  <2>2. InFlight' = Uncut
    BY <2>1, NothingInFlight DEF InFlight
  <2>3. InFlight'.rest = <<>> /\ InFlight'.frames = <<>>
    BY <2>2 DEF Uncut
  <2>4. Flowing(InFlight.frames, 0, pump)'
    <3>1. DOMAIN InFlight'.frames = {}
      BY <2>3
    <3>2. Before(PumpMarks(pump)', HostMarks') /\ Honest(PumpMarks(pump))'
      BY <1>1, <1>5, <1>7 DEF Flowing
    <3> QED BY <3>1, <3>2 DEF Flowing
  <2> QED BY <1>2, <1>3, <1>4, <2>1, <2>3, <2>4, <1>1 DEF Stream
<1>9. CASE reading
  <2>1. PICK f, g : f = [kind |-> "metric", lines |-> MetricBody(got)] /\ g = [kind |-> "proc", lines |-> ProcBody]
    OBVIOUS
  <2>2. PICK T : T = Frames(TrueLines, Delimiters)
    OBVIOUS
  <2>3. S \in Seq(T)
    BY <1>6, <2>2, FlightTyped DEF IInv
  <2>4. f \in T /\ Born(f)'
    <3>1. MetricBody(got) \in Seq(TrueLines) /\ "metric" \in Delimiters
      BY MetricBodyIs DEF IInv, Delimiters
    <3>2. f \in T
      BY <2>1, <2>2, <3>1, FrameTyped
    <3>3. Fit(f) /\ FrameMarks(f) \subseteq HostMarks
      BY <2>1, MetricFits
    <3>4. Born(f)'
      BY <1>1, <3>3, WholeStays DEF Born, Fit
    <3> QED BY <3>2, <3>4
  <2>5. PICK R : R = Append(S, f)
    OBVIOUS
  <2>6. Flowing(R, 0, p)' /\ R \in Seq(T)
    BY <1>3, <1>7, <2>3, <2>4, <2>5, FlowsOn
  <2>7. InFlight' = [frames |-> IF Emits THEN Append(R, g) ELSE R, rest |-> <<>>]
    BY <1>6, <1>9, <2>1, <2>5, WorkSends
  <2>8. PICK Z : Z = InFlight'.frames
    OBVIOUS
  <2>9. Flowing(Z, 0, p)'
    <3>1. CASE Emits
      <4>1. g \in T /\ Born(g)'
        <5>1. ProcBody \in Seq(TrueLines) /\ "proc" \in Delimiters
          BY <1>1, <3>1, ProcBodyIs DEF Delimiters
        <5>2. g \in T
          BY <2>1, <2>2, <5>1, FrameTyped
        <5>3. Fit(g) /\ FrameMarks(g) \subseteq HostMarks
          BY <1>1, <2>1, <3>1, ProcFits
        <5>4. Born(g)'
          BY <1>1, <5>3, WholeStays DEF Born, Fit
        <5> QED BY <5>2, <5>4
      <4>2. Flowing(Append(R, g), 0, p)'
        BY <1>3, <2>6, <4>1, FlowsOn
      <4>3. Z = Append(R, g)
        BY <2>7, <2>8, <3>1
      <4> QED BY <4>2, <4>3
    <3>2. CASE ~Emits
      <4>1. Z = R
        BY <2>7, <2>8, <3>2
      <4> QED BY <2>6, <4>1
    <3> QED BY <3>1, <3>2
  <2>10. InFlight'.rest = <<>>
    BY <2>7
  <2>11. Flowing(InFlight.frames, 0, pump)'
    <3>1. pump' = p
      BY <1>1, <1>5
    <3> QED BY <2>8, <2>9, <3>1 DEF Flowing, Coming
  <2> QED BY <1>1, <1>2, <1>3, <1>4, <1>9, <2>10, <2>11 DEF Stream
<1> QED BY <1>8, <1>9

\* Every step keeps the stream flowing.
LEMMA StreamStep ==
  ASSUME IInv, Stream, [Next]_vars
  PROVE  Stream'
<1>1. ASSUME NEW got \in Answers, Work(got) PROVE Stream'
  BY <1>1, WorkStreams
<1>2. CASE Sleep
  <2>1. PICK d \in 0..MaxPass : Passes(interval + d)
    BY <1>2 DEF Sleep
  <2>2. UNCHANGED <<os, pump, wire, reading>>
    BY <1>2 DEF Sleep
  <2>3. interval + d \in Nat
    BY SamplingAssumption DEF IInv, TypeOK
  <2> QED BY <2>1, <2>2, <2>3, PassesStreams
<1>3. CASE WatchedSleep
  <2>1. UNCHANGED <<os, pump, wire, reading>>
    BY <1>3 DEF WatchedSleep
  <2>2. CASE UNCHANGED host
    BY <2>1, <2>2, NothingHappens DEF host
  <2>3. CASE \E d \in 0..MaxPass : Passes(d)
    <3>1. PICK d \in 0..MaxPass : Passes(d)
      BY <2>3
    <3>2. d \in Nat
      BY SamplingAssumption
    <3> QED BY <2>1, <3>1, <3>2, PassesStreams
  <2> QED BY <1>3, <2>2, <2>3 DEF WatchedSleep
<1>9. CASE SleepStep
  <2>1. Passes(Step) /\ UNCHANGED <<os, pump, wire, reading>>
    BY <1>9 DEF SleepStep
  <2>2. Step \in Nat
    BY <1>9, SamplingAssumption DEF IInv, TypeOK, Stepping, SleepStep, Step, AtMost
  <2> QED BY <2>1, <2>2, PassesStreams
<1>4. CASE Happens
  BY <1>4, HappensStreams
<1>5. CASE Leaves
  BY <1>5, LeavesStreams
<1>6. CASE SessionEnds
  <2>1. UNCHANGED <<os, net, usec, nrestarts, ever, events, glitches, pump, wire, reading>>
    BY <1>6 DEF SessionEnds, host
  <2> QED BY <2>1, NothingHappens
<1>7. ASSUME NEW n \in 1..Len(wire), Read(n) PROVE Stream'
  BY <1>7, ReadStreams
<1>8. CASE UNCHANGED vars
  <2>1. UNCHANGED <<os, net, usec, nrestarts, ever, events, glitches, pump, wire, reading>>
    BY <1>8 DEF vars, host
  <2> QED BY <2>1, NothingHappens
<1> QED BY <1>1, <1>2, <1>3, <1>4, <1>5, <1>6, <1>7, <1>8, <1>9 DEF Next

-----------------------------------------------------------------------------
(* The theorems of the stream. *)

(* In every reachable state what is in flight is whole frames, and each    *)
(* counter goes on through them, from the pump's last reading to the host. *)
THEOREM StreamInvariant == Spec => []Stream
<1>1. Init => Stream
  BY InitStreams
<1>2. IInv /\ Stream /\ [Next]_vars => Stream'
  BY StreamStep
<1> QED BY <1>1, <1>2, LoopInvariant, PTL DEF Spec

(* Each frame reaches one parser, whole: no line of the other plane is     *)
(* among its own, however the stream was cut into reads (split_frames,     *)
(* sampler.rs:19).                                                         *)
THEOREM EveryFrameWholeCorrect == Spec => []EveryFrameWhole
<1>1. Stream => EveryFrameWhole
  BY DEF Stream, Whole, EveryFrameWhole
<1> QED BY <1>1, StreamInvariant, PTL

(* All the samples of a connection together report no byte twice and none  *)
(* the host did not move, and every byte when no counter was reset, as     *)
(* long as each frame that was measured came with its byte counters; a     *)
(* process frame claims no more CPU and no more restarts than there were   *)
(* (RateTracker, CgroupRates, RestartTracker).                             *)
THEOREM RatesAreTrueCorrect == Spec => []RatesAreTrue
<1>1. ASSUME Stream PROVE RatesAreTrue
  <2>1. Sums(pump) /\ Claimed(pump)
    BY <1>1 DEF Stream
  <2>2. pump.holes = 0 /\ pump.prev # None =>
          /\ pump.bytes <= pump.prev.ever - pump.base
          /\ events = 0 => pump.bytes = pump.prev.ever - pump.base
    BY <2>1 DEF Sums
  <2>3. \A f \in Range(pump.pout) : f.used <= f.mostUsed /\ f.since <= f.mostSince
    BY <2>1 DEF Claimed
  <2> QED BY <2>2, <2>3 DEF RatesAreTrue
<1> QED BY <1>1, StreamInvariant, PTL
=============================================================================
