------------------------------ MODULE Sampling ------------------------------
(***************************************************************************)
(* One connection to one host, from the loop that runs on the host to the  *)
(* samples and process frames its pump emits: sampler_command and          *)
(* win_script on the far side, pump and win_pump on this one.  Both planes *)
(* share one byte stream, told apart by the delimiter that ends a frame.   *)
(*                                                                         *)
(* Time is in milliseconds; the code's periods are constants, so that a    *)
(* model can scale them down.  A frame is a few lines, a line a record.    *)
(* The host is one interface with a byte counter, one CPU, one cgroup and  *)
(* one unit that restarts; its counters have been running since long       *)
(* before the connection.                                                  *)
(***************************************************************************)
EXTENDS Integers, SequencesExt

CONSTANTS OSes,         \* "unix" and "windows"
          Intervals,    \* sample intervals, in ms
          EmitEveryMs, WindowMs, DfEveryMs, SlowEveryMs,
          RestartEvery, \* RESTART_EVERY_N_CYCLES
          StepMs,       \* the longest sleep between two looks of the watchdog
          CapMs,        \* REMOTE_LOOP_MAX_MS
          Boot,         \* what the counters had reached when the loop began
          WireCap,      \* lines in flight before the loop's writes wait
          MaxTime,      \* bound: milliseconds
          MaxPass,      \* bound: milliseconds an iteration takes besides its sleep
          MaxEvents,    \* bound: things that happen on the host
          MaxGlitches,  \* bound: frames the host could not fill
          None

ASSUME SamplingAssumption ==
  /\ Intervals \subseteq Nat \ {0} /\ OSes \subseteq {"unix", "windows"}
  /\ {EmitEveryMs, WindowMs, DfEveryMs, SlowEveryMs, RestartEvery, StepMs, CapMs} \subseteq Nat \ {0}
  /\ {Boot, WireCap, MaxTime, MaxPass, MaxEvents, MaxGlitches} \subseteq Nat
  \* None is neither a time nor a reading.
  /\ None \notin Int \cup [bytes : Int, ever : Int]
                     \cup [tag : {"group"}, usec : Int, ever : Int]
                     \cup [tag : {"unit"}, n : Int, ever : Int]

AtLeast(n, low) == IF n < low THEN low ELSE n
AtMost(n, high) == IF n > high THEN high ELSE n
Minus(a, b) == IF a > b THEN a - b ELSE 0          \* saturating_sub

----------------------------------------------------------------------------
(* The schedule, in iterations of the loop. *)

\* FAULT: the expensive extras run every so many frames whatever the rate.
EveryFrames(target, interval) == 1

Every(target, interval) == AtLeast(target \div interval, 1)

\* FAULT: the window is rounded down to whole iterations.
WinBackFloor(interval) == WindowMs \div interval

EmitEvery(interval) == AtLeast(EmitEveryMs \div interval, 2)
WinBack(interval) ==
  AtMost(AtLeast((WindowMs + interval - 1) \div interval, 1), EmitEvery(interval) - 1)

----------------------------------------------------------------------------
VARIABLES
  os, interval,      \* of this connection, fixed
  \* the host
  now,               \* its clock, 0 when the loop started
  net, usec, nrestarts, \* the interface's bytes, the cgroup's CPU, the unit's NRestarts
  ever,              \* history: what each of the three would be without resets
  events, glitches,
  \* the loop
  alive, at,         \* at "work", at "sleep" or, on Windows, in a "step" of its sleep
  i, j, slept,       \* iterations, process cycles, milliseconds of this sleep
  open,              \* when the open ranking window began, or None
  ran,               \* history: when the temperatures and df last ran
  watching, session, \* the watchdog found its sshd; that sshd is alive
  goneAt,            \* history: when the client left, and when its sshd ended
  wire,              \* written and not yet read
  \* the client
  reading,           \* it is there
  pump               \* the state of its pump, a record

host == <<now, net, usec, nrestarts, ever, events, glitches>>
loop == <<alive, at, i, j, slept, open, ran>>
dog  == <<watching, session, goneAt>>
vars == <<os, interval, host, loop, dog, wire, reading, pump>>

Extras == {"temps", "df"}
Period == [temps |-> SlowEveryMs, df |-> DfEveryMs]

NewPump ==
  [buf |-> <<>>, prev |-> None, last |-> 0, groups |-> None,
   first |-> None, facts |-> FALSE,
   out |-> <<>>, pout |-> <<>>,             \* emitted by the last read
   \* history; holes: the frames it measured that came without byte counters
   taken |-> <<>>, bytes |-> 0, base |-> None, holes |-> 0]

Init ==
  /\ os \in OSes /\ interval \in Intervals
  /\ now = 0 /\ net = Boot /\ usec = Boot /\ nrestarts = 1
  /\ ever = [net |-> Boot, usec |-> Boot, nrestarts |-> 1]
  /\ events = 0 /\ glitches = 0
  /\ alive = TRUE /\ at = "work" /\ i = 0 /\ j = 0 /\ slept = 0 /\ open = None
  /\ ran = [x \in Extras |-> None]
  /\ watching \in (IF os = "windows" THEN BOOLEAN ELSE {FALSE})
  /\ session = TRUE /\ goneAt = [client |-> None, session |-> None]
  /\ wire = <<>> /\ reading = TRUE /\ pump = NewPump

----------------------------------------------------------------------------
(* The host: time passes between the snapshots of two iterations, in the   *)
(* sleep and in the passes themselves, and things happen in it.            *)

\* d milliseconds of a busy host: every counter moves with the time.
Passes(d) ==
  /\ now' = now + d /\ net' = net + d /\ usec' = usec + d
  /\ ever' = [net |-> ever.net + d, usec |-> ever.usec + d, nrestarts |-> ever.nrestarts]
  /\ UNCHANGED <<nrestarts, events, glitches>>

\* The unit crashes and is restarted, or is started by hand: its cgroup is a new
\* one.  Or the interface is recreated.
Happens ==
  /\ alive /\ at # "work" /\ events < MaxEvents /\ events' = events + 1
  /\ \/ usec' = 0 /\ nrestarts' = nrestarts + 1
        /\ ever' = [ever EXCEPT !.nrestarts = @ + 1] /\ UNCHANGED net
     \/ usec' = 0 /\ nrestarts' = 0 /\ UNCHANGED <<net, ever>>
     \/ net' = 0 /\ UNCHANGED <<usec, nrestarts, ever>>
  /\ UNCHANGED <<os, interval, now, glitches, loop, dog, wire, reading, pump>>

----------------------------------------------------------------------------
(* The loop. *)

Delimiters == {"metric", "proc"}
End(kind) == [tag |-> kind]

Facts == <<[tag |-> "facts"]>>

\* What one pass can get of the CPU's rows and of the byte counters.  One cat
\* prints both, or could not be forked; on Windows each class is a query of its
\* own, and any of them may be refused.
Everything == {"stat", "bytes"}
Answers == IF os = "windows" THEN SUBSET Everything ELSE {{}, Everything}

Counters(got) ==
  (IF "stat" \in got THEN <<[tag |-> "stat"]>> ELSE <<>>)
  \o (IF "bytes" \in got THEN <<[tag |-> "bytes", n |-> net, ever |-> ever.net]>> ELSE <<>>)

\* The metric frame of this iteration.
Metric(got) ==
  (IF i = 0 THEN Facts ELSE <<>>) \o Counters(got) \o <<End("metric")>>

Opens == i % EmitEvery(interval) = 0
Emits ==
  IF os = "unix" THEN i % EmitEvery(interval) = WinBack(interval) ELSE Opens /\ open # None
Sweeps == os = "unix" /\ j % RestartEvery = 0

\* The snapshot this iteration's ranking is measured from: the shell opens a
\* window before it looks whether to close one, PowerShell closes it first.
Since == IF os = "unix" /\ Opens THEN now ELSE open

\* The process frame: the ranking's denominator (the window it also names is the
\* schedule's, and nobody reads it), a command line (which read as
\* /proc/diskstats would be a disk), on unix the cgroup, and the unit when it is
\* swept.
Proc ==
  <<[tag |-> "procs", total |-> now - Since],
    [tag |-> "bytes", n |-> Boot, ever |-> 0]>>
  \o (IF os = "unix" THEN <<[tag |-> "group", usec |-> usec, ever |-> ever.usec]>> ELSE <<>>)
  \o (IF Sweeps /\ nrestarts > 0
      THEN <<[tag |-> "unit", n |-> nrestarts, ever |-> ever.nrestarts]>> ELSE <<>>)
  \o <<End("proc")>>

\* One iteration up to its sleep.  Once the client has left, what is written goes
\* nowhere, and the write succeeds all the same.
Work(got) ==
  /\ alive /\ at = "work" /\ Len(wire) < WireCap
  /\ got = Everything \/ glitches < MaxGlitches
  /\ glitches' = glitches + (IF got = Everything THEN 0 ELSE 1)
  /\ wire' = IF reading THEN wire \o Metric(got) \o (IF Emits THEN Proc ELSE <<>>) ELSE <<>>
  /\ open' = IF Opens THEN now ELSE open
  /\ j' = IF Emits THEN j + 1 ELSE j
  /\ ran' = [x \in Extras |-> IF os = "unix" /\ i % Every(Period[x], interval) = 0
                              THEN now ELSE ran[x]]
  /\ i' = i + 1 /\ at' = "sleep" /\ slept' = 0
  /\ UNCHANGED <<os, interval, now, net, usec, nrestarts, ever, events,
                 alive, dog, reading, pump>>

\* sleep, on unix, and what the commands of an iteration take besides.
Sleep ==
  /\ alive /\ at = "sleep" /\ os = "unix"
  /\ \E d \in 0 .. MaxPass : now + interval + d <= MaxTime /\ Passes(interval + d)
  /\ at' = "work"
  /\ UNCHANGED <<os, interval, alive, i, j, slept, open, ran, dog, wire, reading, pump>>

\* FAULT: the lifetime cap applies only to a loop that has no session to watch.
MustExitUnwatched == IF watching THEN ~session ELSE now > CapMs

\* The two exits of watchdog_sleep, in the order it looks at them.
MustExit == now > CapMs \/ (watching /\ ~session)

\* A sleep between two looks.
Step == AtMost(StepMs, interval - slept)

\* watchdog_sleep: a look and a step, until the interval has been slept; then
\* the queries of the next iteration, which take their time too.
WatchedSleep ==
  /\ alive /\ at = "sleep" /\ os = "windows"
  /\ \/ /\ slept < interval /\ MustExit
        /\ alive' = FALSE
        /\ UNCHANGED <<host, at>>
     \/ /\ slept < interval /\ ~MustExit
        /\ at' = "step"
        /\ UNCHANGED <<host, alive>>
     \/ /\ slept >= interval
        /\ \E d \in 0 .. MaxPass : now + d <= MaxTime /\ Passes(d)
        /\ at' = "work" /\ UNCHANGED alive
  /\ UNCHANGED <<os, interval, i, j, slept, open, ran, dog, wire, reading, pump>>

SleepStep ==
  /\ alive /\ at = "step" /\ os = "windows"
  /\ now + Step <= MaxTime /\ Passes(Step)
  /\ slept' = slept + Step /\ at' = "sleep"
  /\ UNCHANGED <<os, interval, alive, i, j, open, ran, dog, wire, reading, pump>>

----------------------------------------------------------------------------
(* The ends. *)

\* The client is gone.  On unix the shell gets SIGHUP; on Windows the loop goes on,
\* and its sshd session ends, now or later, or lives on under an orphaned ssh.
Leaves ==
  /\ reading /\ reading' = FALSE
  /\ alive' = (alive /\ os = "windows")
  /\ goneAt' = [goneAt EXCEPT !.client = now]
  /\ wire' = <<>> /\ pump' = NewPump
  /\ UNCHANGED <<os, interval, host, at, i, j, slept, open, ran, watching, session>>

SessionEnds ==
  /\ ~reading /\ session /\ os = "windows" /\ alive
  /\ session' = FALSE
  /\ goneAt' = [goneAt EXCEPT !.session = now]
  /\ UNCHANGED <<os, interval, host, loop, watching, wire, reading, pump>>

----------------------------------------------------------------------------
(* The pump. *)

\* Line by line: a delimiter ends a frame, of its own kind, and what no delimiter
\* has ended yet is the rest.
CutAt(b, delimiters) ==
  LET upto[n \in 0 .. Len(b)] ==
        LET cut == upto[n - 1]
        IN IF n = 0 THEN [frames |-> <<>>, rest |-> <<>>]
           ELSE IF b[n].tag \in delimiters
           THEN [frames |-> Append(cut.frames, [kind |-> b[n].tag, lines |-> cut.rest]), rest |-> <<>>]
           ELSE [frames |-> cut.frames, rest |-> Append(cut.rest, b[n])]
  IN upto[Len(b)]

\* FAULT: the stream is split at the metric delimiters only.
SplitAtMetric(b) == CutAt(b, {"metric"})

\* split_frames: the complete frames, each ended by whichever delimiter comes
\* first, and the tail that is kept.
SplitFrames(b) == CutAt(b, Delimiters)

With(lines, tag) == {n \in DOMAIN lines : lines[n].tag = tag}
Has(lines, tag) == With(lines, tag) # {}
First(lines, tag) == lines[Min(With(lines, tag))]
Total(lines) ==
  LET sum[n \in 0 .. Len(lines)] ==
        IF n = 0 THEN 0 ELSE sum[n - 1] + (IF lines[n].tag = "bytes" THEN lines[n].n ELSE 0)
  IN sum[Len(lines)]

\* parse_frame and parse_win_frame: what is not there is zero.
Parse(lines) ==
  [bytes |-> Total(lines),
   ever  |-> IF Has(lines, "bytes") THEN First(lines, "bytes").ever ELSE 0]

\* RateTracker: the bytes between two frames, over the time between their arrivals.
Rates(old, new, since) == [bytes |-> Minus(new.bytes, old.bytes), over |-> now - since]

\* What both pumps keep of a metric frame they measured.
Kept(p, lines) ==
  [p EXCEPT !.prev = Parse(lines), !.last = now,
            !.base = IF @ = None THEN Parse(lines).ever ELSE @,
            !.holes = @ + (IF Has(lines, "bytes") THEN 0 ELSE 1)]

Emit(p, sample) == [p EXCEPT !.out = Append(@, sample), !.bytes = @ + sample.bytes]

\* FAULT: the tracker keeps the first frame it got.
TakeMetricFirstKept(p, lines) ==
  LET new == Parse(lines) IN
  IF p.prev = None THEN Kept(p, lines) ELSE Emit(p, Rates(p.prev, new, p.last))

\* pump: the tracker takes every frame; the first one yields zero rates, and one
\* without CPU rows is reported as a fault.
TakeMetric(p, lines) ==
  LET new == Parse(lines) IN
  IF ~Has(lines, "stat") THEN [Kept(p, lines) EXCEPT !.out = Append(@, [fault |-> "no cpu rows"])]
  ELSE IF p.prev = None THEN Emit(Kept(p, lines), Rates(new, new, p.last))
  ELSE Emit(Kept(p, lines), Rates(p.prev, new, p.last))

\* win_pump: facts are carried forward, a frame without processor rows is no
\* measurement, and the first that is one is only a baseline.  Nothing is asked
\* of the byte counters: rows that did not come add up to zero.
TakeWinMetric(p, lines) ==
  LET new  == Parse(lines)
      told == [p EXCEPT !.facts = @ \/ Has(lines, "facts")]
  IN IF ~Has(lines, "stat") THEN told
     ELSE IF p.prev = None THEN Kept(told, lines)
     ELSE Emit(Kept(told, lines), Rates(p.prev, new, p.last))

\* RestartTracker: the count a unit had when it was first reported.
Baseline(first, unit) == IF first = None THEN unit ELSE first

\* CgroupRates: a cgroup seen for the first time, or recreated, used nothing.
Used(groups, group) == IF groups = None THEN 0 ELSE Minus(group.usec, groups.usec)

\* A process frame.  Without a denominator nothing of it is used.
TakeProc(p, lines) ==
  LET group  == First(lines, "group")
      unit   == First(lines, "unit")
      first  == IF Has(lines, "unit") THEN Baseline(p.first, unit) ELSE p.first
      frame  ==
        [used     |-> IF Has(lines, "group") THEN Used(p.groups, group) ELSE 0,
         mostUsed |-> IF p.groups = None \/ ~Has(lines, "group") THEN 0
                      ELSE group.ever - p.groups.ever,
         since    |-> IF Has(lines, "unit") THEN Minus(unit.n, first.n) ELSE 0,
         mostSince |-> IF Has(lines, "unit") THEN unit.ever - first.ever ELSE 0]
  IN IF First(lines, "procs").total = 0 THEN p
     ELSE [p EXCEPT !.pout = Append(@, frame), !.first = first,
                    !.groups = IF Has(lines, "group") THEN group ELSE None]

Take(p, frame) ==
  IF frame.kind = "proc" THEN TakeProc(p, frame.lines)
  ELSE IF os = "unix" THEN TakeMetric(p, frame.lines)
  ELSE TakeWinMetric(p, frame.lines)

TakeAll(p, frames) ==
  LET took[n \in 0 .. Len(frames)] == IF n = 0 THEN p ELSE Take(took[n - 1], frames[n])
  IN took[Len(frames)]

\* One read of n lines, and every frame they complete.
Read(n) ==
  /\ reading /\ n \in 1 .. Len(wire)
  /\ wire' = SubSeq(wire, n + 1, Len(wire))
  /\ \E split \in {SplitFrames(pump.buf \o SubSeq(wire, 1, n))} :
       pump' = TakeAll([pump EXCEPT !.buf = split.rest, !.out = <<>>,
                                    !.pout = <<>>, !.taken = split.frames], split.frames)
  /\ UNCHANGED <<os, interval, host, loop, dog, reading>>

Next ==
  \/ \E got \in Answers : Work(got)
  \/ Sleep \/ WatchedSleep \/ SleepStep \/ Happens \/ Leaves \/ SessionEnds
  \/ \E n \in 1 .. Len(wire) : Read(n)

Spec == Init /\ [][Next]_vars

----------------------------------------------------------------------------
(* Properties *)

(* Each frame reaches one parser, whole: its kind is that of its own lines *)
(* and no line of the other plane is among them, however the stream was    *)
(* cut into reads.  A process line read as a disk would be a disk reading  *)
(* nobody made (sampler.rs:19).                                            *)
EveryFrameWhole ==
  \A f \in Range(pump.taken) :
    LET tags == {l.tag : l \in Range(f.lines)} IN
    IF f.kind = "proc"
    THEN tags \subseteq {"procs", "bytes", "group", "unit"} /\ "procs" \in tags
    ELSE /\ tags \subseteq {"facts", "stat", "bytes"}
         /\ os = "unix" => ("stat" \in tags <=> "bytes" \in tags)

\* How many iterations lie between the two snapshots of a process frame.
Apart == IF os = "unix" THEN WinBack(interval) ELSE EmitEvery(interval)

(* WINDOW_MS is a floor (procs.rs:418): the two snapshots of a process     *)
(* frame are never closer than it, or than a cycle less one iteration      *)
(* where that is shorter, so the process view goes blank at no sample      *)
(* interval; and only what the iterations between them took besides their  *)
(* sleeps sets them further apart than the schedule does (proc_schedule).  *)
WindowIsAFloor ==
  \A l \in Range(wire) : l.tag = "procs" =>
    /\ l.total >= AtMost(WindowMs, (EmitEvery(interval) - 1) * interval)
    /\ Apart * interval <= l.total /\ l.total <= Apart * (interval + MaxPass)

(* All the samples of a connection together report no byte twice and none  *)
(* the host did not move since the first frame, and every byte when no     *)
(* counter was reset, as long as each frame that was measured came with    *)
(* its byte counters: either pump takes one without them for a reading of  *)
(* zero.  A process frame never claims more CPU for a cgroup than it used  *)
(* since the frame before, nor more restarts of a unit than happened since *)
(* it was first reported, also when either counter was reset.              *)
RatesAreTrue ==
  /\ pump.holes = 0 /\ pump.prev # None =>
       /\ pump.bytes <= pump.prev.ever - pump.base
       /\ events = 0 => pump.bytes = pump.prev.ever - pump.base
  /\ \A f \in Range(pump.pout) : f.used <= f.mostUsed /\ f.since <= f.mostSince

(* df and the temperatures keep their wall-clock pace at every sample      *)
(* rate: they never run an iteration or more ahead of it.                  *)
ExtrasKeepTheirPace ==
  [][\A x \in Extras : ran[x] # None /\ ran'[x] # ran[x] =>
       ran'[x] - ran[x] > Period[x] - interval]_vars

(* No loop runs for ever on a host nobody watches any more: not past its   *)
(* lifetime cap, and past the end of its session by one step of its sleep  *)
(* and one pass at most when it found the session (windows.rs:34).         *)
NoLoopRunsForever ==
  os = "windows" /\ alive =>
    /\ now <= CapMs + StepMs + MaxPass
    /\ watching /\ ~session => now <= goneAt.session + StepMs + MaxPass

(* elapsed_secs is how long actually passed, so that a stalled network     *)
(* read does not overstate the rate (sampler.rs:635): no sample reports    *)
(* more than the host moves, which here is one byte a millisecond.         *)
RatesAreNotOverstated ==
  \A s \in Range(pump.out) : "fault" \notin DOMAIN s => s.bytes <= s.over
=============================================================================
