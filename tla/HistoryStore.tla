---------------------------- MODULE HistoryStore ----------------------------
(***************************************************************************)
(* The history store (history_store.rs) and the map of series it locks     *)
(* (history.rs, History): which series a sample feeds, and how the memory  *)
(* limit sheds resolution.  What one series holds is module History; here  *)
(* a series is the finest tier it still has.                               *)
(*                                                                         *)
(* Recording, enforcing and clearing each hold the lock for their whole    *)
(* length and are one step.  set_cap_mb and clear also write an atomic     *)
(* outside the lock, and samplers record in between.                       *)
(*                                                                         *)
(* Abstracted: readings (module History) and time.  Every reading is       *)
(* finite.  FAULT marks a definition that is not part of the model.        *)
(***************************************************************************)
EXTENDS Integers, Sequences, FiniteSetsExt

CONSTANTS
  Hosts,       \* host names
  Frames,      \* what a sample may carry
  TierBytes,   \* TIERS: the bytes of each ring, finest first
  Limits,      \* values of cap_bytes; 0 is unset
  CheckEvery,  \* CAP_CHECK_EVERY
  None

Last == Len(TierBytes)
Levels == 1..Last

(***************************************************************************)
(* Sample, as far as record tells samples apart: which readings are there. *)
(* A sensor is known by its driver and its label.                          *)
(***************************************************************************)
Sensor == [driver : STRING, label : STRING]
Optional == {"mem", "swap", "fs", "temp", "gpu", "gpumem"}
Frame == [has : SUBSET Optional, temps : Seq(Sensor), cores : Nat]

ASSUME StoreShape ==
  /\ Last \in Nat \ {0} /\ \A i \in Levels : TierBytes[i] \in Nat \ {0}
  /\ Limits \subseteq Nat /\ CheckEvery \in Nat \ {0}
  /\ IsFiniteSet(Hosts) /\ Frames \subseteq Frame
  /\ None # <<"enforce">> /\ \A i \in Levels : None # <<"finest", i>>

VARIABLES
  floor,   \* History.series: the finest tier of each series there is
  cap,     \* cap_bytes
  finest,  \* finest_secs, as the tier with that interval
  writes,  \* writes, modulo CheckEvery
  cmd,     \* where set_cap_mb or clear is
  fresh    \* series that have appeared since the limit was last enforced

vars == <<floor, cap, finest, writes, cmd, fresh>>

Series == DOMAIN floor

\* full_series_bytes and Series::bytes: rings are allocated when a series
\* appears, and freed when their tier is shed.
SeriesBytes(level) == MapThenSumSet(LAMBDA i : TierBytes[i], level..Last)
Bytes(f) == MapThenSumSet(LAMBDA k : SeriesBytes(f[k]), DOMAIN f)

\* History::finest_interval.
FinestOf(f) == IF DOMAIN f = {} THEN 1 ELSE Min({f[k] : k \in DOMAIN f})

-----------------------------------------------------------------------------
(* Which series a sample feeds. *)

\* sensor_key: the position counts within the driver, labels of the others
\* included; a label names the sensor without it.
SensorKey(temps, j) ==
  LET before == {i \in 1..(j - 1) : temps[i].driver = temps[j].driver}
  IN IF temps[j].label = "" THEN <<"temp", temps[j].driver, "", Cardinality(before)>>
     ELSE <<"temp", temps[j].driver, temps[j].label>>

SensorKeys(frame) == {SensorKey(frame.temps, j) : j \in DOMAIN frame.temps}

\* HistoryStore::record: what is absent records nothing rather than zero.
Metrics(frame) ==
  {<<m>> : m \in {"cpu", "disk", "net", "load"} \cup frame.has}
    \cup SensorKeys(frame) \cup {<<"core", "", i>> : i \in 0..(frame.cores - 1)}

Keys(h, frame) == {<<h, m>> : m \in Metrics(frame)}

-----------------------------------------------------------------------------
(* The limit. *)

\* shed_finest, n times on every series; the last tier is never shed.
Shed(f, n) == [k \in DOMAIN f |-> Min({f[k] + n, Last})]

\* enforce_cap: one tier from every series at a time, until it fits or there
\* is nothing left to give.
\* FAULT: it gives up one tier, whether that is enough or not.
OnePass(f, limit) == IF Bytes(f) <= limit THEN f ELSE Shed(f, 1)
\* FAULT: one series at a time, until it fits.
OneSeries(f, limit) ==
  IF Bytes(f) <= limit \/ \A k \in DOMAIN f : f[k] = Last THEN f
  ELSE [f EXCEPT ![CHOOSE k \in DOMAIN f : f[k] < Last] = @ + 1]
Enforced(f, limit) ==
  Shed(f, Min({n \in 0..Last : n = Last \/ Bytes(Shed(f, n)) <= limit}))

\* FAULT: a limit that is not set is a limit of nothing.
AlwaysDue == writes = 0
CheckIsDue == cap > 0 /\ writes = 0

\* What enforcing on f leaves, and what it returns.
Enforce(f) ==
  /\ floor' = Enforced(f, cap)
  /\ finest' = FinestOf(Enforced(f, cap))
  /\ fresh' = {}

-----------------------------------------------------------------------------
Init ==
  /\ floor = [k \in {} |-> 1]
  /\ cap = 0 /\ finest = 1 /\ writes = 0 /\ cmd = None
  /\ fresh = {}

\* record: push, then the check, under one lock.  A series that is not there
\* yet appears with every tier, however coarse the others have become.
Record(h, frame) ==
  LET keys == Keys(h, frame)
      new == keys \ Series
      grown == [k \in Series \cup keys |-> IF k \in Series THEN floor[k] ELSE 1]
  IN /\ IF CheckIsDue THEN Enforce(grown)
        ELSE floor' = grown /\ fresh' = fresh \cup new /\ UNCHANGED finest
     /\ writes' = IF cap > 0 THEN (writes + 1) % CheckEvery ELSE writes
     /\ UNCHANGED <<cap, cmd>>

\* set_cap_mb: the limit first, then under the lock what it asks for, then the
\* resolution that left.
SetCap(limit) ==
  /\ cmd = None
  /\ cap' = limit
  /\ cmd' = IF limit > 0 THEN <<"enforce">> ELSE None
  /\ UNCHANGED <<floor, finest, writes, fresh>>

EnforceNow ==
  /\ cmd = <<"enforce">>
  /\ floor' = Enforced(floor, cap)
  /\ fresh' = {}
  /\ cmd' = <<"finest", FinestOf(Enforced(floor, cap))>>
  /\ UNCHANGED <<cap, finest, writes>>

Report ==
  /\ cmd # None /\ cmd[1] = "finest"
  /\ finest' = cmd[2]
  /\ cmd' = None
  /\ UNCHANGED <<floor, cap, writes, fresh>>

\* What is left when only the series in kept stay.
Keep(kept) ==
  /\ floor' = [k \in kept |-> floor[k]]
  /\ fresh' = fresh \cap kept

\* clear, and then the resolution goes back to 1.
Clear ==
  /\ cmd = None
  /\ Keep({})
  /\ cmd' = <<"finest", 1>>
  /\ UNCHANGED <<cap, finest, writes>>

ForgetHost(h) ==
  /\ cmd = None
  /\ Keep({k \in Series : k[1] # h})
  /\ UNCHANGED <<cap, finest, writes, cmd>>

Next ==
  \/ \E h \in Hosts, frame \in Frames : Record(h, frame)
  \/ \E limit \in Limits : SetCap(limit)
  \/ EnforceNow \/ Report \/ Clear
  \/ \E h \in Hosts : ForgetHost(h)

Spec == Init /\ [][Next]_vars

-----------------------------------------------------------------------------
TypeOK ==
  /\ floor \in [Series -> Levels]
  /\ cap \in Limits \cup {0} /\ finest \in Levels /\ writes \in 0..(CheckEvery - 1)
  /\ cmd \in {None, <<"enforce">>} \cup {<<"finest", i>> : i \in Levels}
  /\ fresh \subseteq Series

\* A limit that is set is exceeded, while there is resolution left to give up,
\* only by series that have appeared since it was last enforced: enforcing goes
\* on until it fits, takes series of every age, and is done before set_cap_mb
\* returns (enforce_cap).
OverIsRecent ==
  cap > 0 /\ Bytes(floor) > cap /\ (\E k \in Series : floor[k] < Last) =>
    cmd = <<"enforce">> \/ fresh # {}

\* Resolution is given up only to get under a limit that is set and exceeded:
\* "a cap that has not been read from disk yet must not throw history away"
\* (history_store.rs:26), and a sample that brings nothing new costs nothing.
ShedsOnlyWhenOver ==
  [][(\E k \in Series \cap DOMAIN floor' : floor'[k] > floor[k]) =>
       cap > 0 /\ ~(Bytes([k \in DOMAIN floor' |-> IF k \in Series THEN floor[k] ELSE 1]) <= cap)]_vars

\* "Resolution is degraded uniformly; coverage never is" (history.rs:394): no
\* shedding makes a series coarser than one it was not coarser than before, and
\* a host loses a series only when it is forgotten with all its series, or when
\* everything is cleared.  It says nothing of a series that appears after a
\* shedding, which starts with every tier.
DegradesUniformly ==
  [][/\ \A j, k \in Series \cap DOMAIN floor' :
          floor[j] <= floor[k] => floor'[j] <= floor'[k]
     /\ \A k \in Series \ DOMAIN floor' :
          \/ DOMAIN floor' = {}
          \/ DOMAIN floor' = {j \in Series : j[1] # k[1]}]_vars

=============================================================================
