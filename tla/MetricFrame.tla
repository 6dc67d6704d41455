---------------------------- MODULE MetricFrame ----------------------------
(***************************************************************************)
(* What a metric frame of a Linux host is read as: the sensors, the GPU,   *)
(* the counters of /proc, the filesystems of df and the identity lines.    *)
(*                                                                         *)
(* A frame is a sequence of lines and a line a record whose tag says which *)
(* command printed it; a line that is cut short has ok = FALSE, a field    *)
(* that is no number is NaN.  Names are records of the parts of a name     *)
(* that the code looks at.                                                 *)
(***************************************************************************)
EXTENDS Integers, FiniteSets, SequencesExt

CONSTANTS NaN, Nothing

AtMost(n, high) == IF n > high THEN high ELSE n
AtLeast(n, low) == IF n < low THEN low ELSE n
Minus(a, b) == IF a > b THEN a - b ELSE 0          \* saturating_sub
OrZero(field) == IF field = NaN THEN 0 ELSE field  \* parse().unwrap_or(0)

\* The elements of a sequence that are in a set, in their order.
Those(s, set) ==
  LET those[n \in 0 .. Len(s)] ==
        IF n = 0 THEN <<>>
        ELSE IF s[n] \in set THEN Append(those[n - 1], s[n]) ELSE those[n - 1]
  IN those[Len(s)]

Sum(numbers) ==
  LET sum[n \in 0 .. Len(numbers)] == IF n = 0 THEN 0 ELSE sum[n - 1] + numbers[n]
  IN sum[Len(numbers)]

\* Two places in a sequence.
TwoOf(s) == (DOMAIN s) \X (DOMAIN s)

\* The place that is left when the places 1 .. n are passed one by one and each is
\* given up for the next, unless it stays before that one.  None is 0.
Left(n, stays) ==
  LET left[k \in 0 .. n] ==
        IF k = 0 THEN 0 ELSE IF <<left[k - 1], k>> \in stays THEN left[k - 1] ELSE k
  IN left[n]

\* FAULT: a line that is cut short is read as far as it goes.
OfEven(lines, tag) == {l \in Range(lines) : l.tag = tag}

\* The lines that one command printed and that are not cut short.
Of(lines, tag) == {l \in Range(lines) : l.tag = tag /\ l.ok}

----------------------------------------------------------------------------
(* hwmon *)

Plausible(reading) == reading.celsius # NaN /\ reading.celsius \in 5 .. 150

SensorKindOf(driver) ==
  CASE driver \in {"coretemp", "k10temp", "zenpower", "cpu_thermal", "soc_thermal"} -> "cpu"
    [] driver \in {"nvme", "drivetemp"}  -> "drive"
    [] driver \in {"iwlwifi", "mt79"}    -> "wireless"
    [] driver \in {"acpitz", "gigabyte_wmi", "nct6775", "it87"} -> "board"
    [] OTHER -> "other"

\* parse_temps: every plausible reading, in the order the host reported them.
ParseTemps(lines) == Those(lines, {l \in Of(lines, "TXT") : Plausible(l)})

\* TempSensor::name: an unlabelled sensor is numbered within its driver.
SensorName(t, index) == <<t.driver, IF t.label # "" THEN t.label ELSE index>>

\* How many sensors before the n-th share its driver.
IndexWithinDriver(temps, n) ==
  Cardinality({m \in 1 .. n - 1 : temps[m].driver = temps[n].driver})

\* hottest
Hottest(temps) ==
  LET best == Left(Len(temps), {p \in TwoOf(temps) :
                                  temps[p[1]].celsius >= temps[p[2]].celsius})
  IN IF best = 0 THEN Nothing
     ELSE [name    |-> SensorName(temps[best], IndexWithinDriver(temps, best)),
           celsius |-> temps[best].celsius]

\* parse_cpu_temp: which drivers and labels are the CPU's, the best first.
CpuRank(t) ==
  CASE t.driver = "coretemp" /\ t.label = "Package" -> 0
    [] t.driver \in {"k10temp", "zenpower"} /\ t.label = "Tdie" -> 0
    [] t.driver \in {"k10temp", "zenpower"} /\ t.label = "Tctl" -> 1
    [] t.driver = "coretemp" /\ t.label = "Core" -> 2
    [] t.driver = "k10temp" /\ t.label = "Tccd" -> 2
    [] t.driver \in {"cpu_thermal", "soc_thermal"} -> 3
    [] OTHER -> NaN

\* FAULT: the first reading of the best rank is kept, not the hottest.
StaysFirst(best, next) == CpuRank(best) <= CpuRank(next)

Stays(best, next) ==
  CpuRank(best) < CpuRank(next) \/ (CpuRank(best) = CpuRank(next) /\ best.celsius >= next.celsius)

ParseCpuTemp(lines) ==
  LET cpu  == Those(lines, {l \in Of(lines, "TXT") : Plausible(l) /\ CpuRank(l) # NaN})
      best == Left(Len(cpu), {p \in TwoOf(cpu) : Stays(cpu[p[1]], cpu[p[2]])})
  IN IF best = 0 THEN Nothing ELSE cpu[best].celsius

\* parse_gpu: the first line whose utilisation and memory are numbers.
ParseGpu(lines) ==
  LET read == Those(lines, {l \in Of(lines, "TXG") : NaN \notin {l.util, l.used, l.total}})
  IN IF read = <<>> THEN Nothing
     ELSE [util |-> AtMost(AtLeast(read[1].util, 0), 100), used |-> read[1].used,
           total |-> read[1].total, power |-> OrZero(read[1].power)]

----------------------------------------------------------------------------
(* /proc/net/dev and /proc/diskstats *)

VirtualLinks == {"lo", "veth", "docker", "br-", "virbr"}

\* parse_net_dev
ParseNetDev(lines) ==
  LET real == Those(lines, {l \in Of(lines, "net") : l.iface.start \notin VirtualLinks})
  IN <<Sum([n \in DOMAIN real |-> OrZero(real[n].rx)]),
       Sum([n \in DOMAIN real |-> OrZero(real[n].tx)])>>

\* is_whole_disk: a name by how it starts, whether it has a p further on, and
\* whether it ends in a digit.
IsWholeDisk(name) ==
  /\ name.start \notin {"loop", "ram", "dm-", "md", "zram", "sr"}
  /\ IF name.start \in {"nvme", "mmcblk"} THEN ~name.p ELSE ~name.digit

SectorBytes == 512

\* parse_diskstats
ParseDiskstats(lines) ==
  LET whole == Those(lines, {l \in Of(lines, "disk") : IsWholeDisk(l.name)})
  IN <<SectorBytes * Sum([n \in DOMAIN whole |-> OrZero(whole[n].read)]),
       SectorBytes * Sum([n \in DOMAIN whole |-> OrZero(whole[n].written)])>>

----------------------------------------------------------------------------
(* /proc/stat and /proc/meminfo *)

Times == {"user", "nice", "system", "idle", "iowait", "irq", "softirq", "steal"}

\* parse_stat: a row that is cut short, or a field that is no number, is zero there.
ParseStat(lines) ==
  LET rows    == {l \in Range(lines) : l.tag = "cpu"}
      times(l) == [t \in Times |-> OrZero(l.times[t])]
      all     == Those(lines, {l \in rows : l.label = "cpu"})
      cores   == Those(lines, {l \in rows : l.label # "cpu"})
  IN [aggregate |-> IF all = <<>> THEN [t \in Times |-> 0] ELSE times(Last(all)),
      cores     |-> [n \in DOMAIN cores |-> times(cores[n])]]

IdleJiffies(t) == t.idle + t.iowait
TotalJiffies(t) == t.user + t.nice + t.system + t.idle + t.iowait + t.irq + t.softirq + t.steal

\* busy_pct, as <<busy, total>> jiffies; a percentage of them is theirs, and of
\* <<0, 0>> it is zero.
BusyPct(prev, cur) ==
  LET total == Minus(TotalJiffies(cur), TotalJiffies(prev))
  IN <<Minus(total, Minus(IdleJiffies(cur), IdleJiffies(prev))), total>>

\* FAULT: nice time is forgotten.
PartsWithoutNice(t) ==
  [user |-> t.user, system |-> t.system + t.irq + t.softirq, iowait |-> t.iowait,
   steal |-> t.steal, idle |-> t.idle]

Parts(t) ==
  [user |-> t.user + t.nice, system |-> t.system + t.irq + t.softirq, iowait |-> t.iowait,
   steal |-> t.steal, idle |-> t.idle]

\* breakdown, in jiffies of the total, each clamped to it.
Breakdown(prev, cur) ==
  LET total == Minus(TotalJiffies(cur), TotalJiffies(prev))
  IN [p \in DOMAIN Parts(cur) |-> AtMost(Minus(Parts(cur)[p], Parts(prev)[p]), total)]

\* core_pcts: by position, as far as both lists go.
CorePcts(prev, cur) ==
  [n \in 1 .. AtMost(Len(prev.cores), Len(cur.cores)) |-> BusyPct(prev.cores[n], cur.cores[n])]

MemKeys == {"MemTotal", "MemAvailable", "SwapTotal", "SwapFree"}

\* parse_meminfo: the last readable value of each key.
ParseMeminfo(lines) ==
  [k \in MemKeys |->
     LET read == Those(lines, {l \in Of(lines, "mem") : l.key = k /\ l.kb # NaN})
     IN IF read = <<>> THEN 0 ELSE Last(read).kb]

\* parse_loadavg: the first readable line of that shape.
ParseLoadavg(lines) ==
  LET read == Those(lines, {l \in Of(lines, "load") : NaN \notin Range(l.load)})
  IN IF read = <<>> THEN <<0, 0, 0>> ELSE read[1].load

----------------------------------------------------------------------------
(* df and the identity of the host *)

\* is_pseudo: a source by its class.
IsPseudo(source) == source \in {"tmpfs", "udev", "overlay", "/dev/loop", "gvfsd", "portal"}

\* FAULT: the first name of a filesystem is kept.
ShorterNever(mount, seen) == FALSE

\* A mount point is a path and its length in bytes.
Shorter(mount, seen) == mount.len < seen.len

\* What parse_filesystems does with one line: a mount point that is listed is
\* skipped, a filesystem that is listed may take the shorter name.
ListFilesystem(out, l) ==
  LET of(source) == {n \in DOMAIN out : out[n].source = source} IN
  IF \E n \in DOMAIN out : out[n].mount = l.mount THEN out
  ELSE IF of(l.source) = {}
       THEN Append(out, [source |-> l.source, mount |-> l.mount, total |-> l.total, used |-> l.used])
       ELSE [n \in DOMAIN out |-> IF n \in of(l.source) /\ Shorter(l.mount, out[n].mount)
                                  THEN [out[n] EXCEPT !.mount = l.mount] ELSE out[n]]

\* parse_filesystems
ParseFilesystems(lines) ==
  LET real == Those(lines, {l \in Of(lines, "TXF") : /\ ~IsPseudo(l.source)
                                                     /\ NaN \notin {l.total, l.used} /\ l.total # 0})
      out[n \in 0 .. Len(real)] == IF n = 0 THEN <<>> ELSE ListFilesystem(out[n - 1], real[n])
  IN out[Len(real)]

Fuller(a, b) == a.used * b.total > b.used * a.total

\* fullest: the last of those that none is fuller than.
Fullest(all) ==
  LET best == Left(Len(all), {p \in TwoOf(all) : Fuller(all[p[1]], all[p[2]])})
  IN IF best = 0 THEN Nothing ELSE all[best]

FactKeys == {"kernel", "os", "cpu", "arch", "virt", "virtkind"}

\* parse_facts: the last value of each key that is not blank.
ParseFacts(lines) ==
  [k \in FactKeys |->
     LET told == Those(lines, {l \in Of(lines, "TXI") : l.key = k /\ l.value # ""})
     IN IF told = <<>> THEN "" ELSE Last(told).value]

\* parse_uptime: the first such line, if it can be read.
ParseUptime(lines) ==
  LET told == Those(lines, {l \in Range(lines) : l.tag = "TXU"}) IN
  IF told = <<>> \/ told[1].secs = NaN \/ told[1].secs < 0 THEN Nothing ELSE told[1].secs

\* parse_frame
ParseFrame(lines) ==
  [stat |-> ParseStat(lines), mem |-> ParseMeminfo(lines), net |-> ParseNetDev(lines),
   disk |-> ParseDiskstats(lines), load |-> ParseLoadavg(lines),
   cpuTemp |-> ParseCpuTemp(lines), temps |-> ParseTemps(lines), gpu |-> ParseGpu(lines),
   uptime |-> ParseUptime(lines), facts |-> ParseFacts(lines),
   filesystems |-> ParseFilesystems(lines)]
=============================================================================
