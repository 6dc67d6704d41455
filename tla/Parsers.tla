------------------------------ MODULE Parsers ------------------------------
(***************************************************************************)
(* The parsers of the frames, over every frame that can be made of a set   *)
(* of lines, and over every two frames that follow each other.  Nothing    *)
(* here is concurrent: the steps only build the inputs, line by line, and  *)
(* the properties compare what the parsers make of them with what the      *)
(* lines say.                                                              *)
(***************************************************************************)
EXTENDS ProcessFrame

CONSTANTS LinesOf,   \* for each plane, the lines its frames are made of
          MaxLines,  \* bound, by plane: lines in a frame
          Pairs,     \* the planes whose frames are compared with the one before
          TopN       \* TOP_N

ASSUME ParsersAssumption == Pairs \subseteq DOMAIN LinesOf /\ TopN \in Nat \ {0}

ASSUME NoNumber == NaN \notin Int

Unread == {NaN} \cup Int

\* The fields that are numbers, or no number when they cannot be read: counters
\* and sizes are unsigned.
HasNumbers(l) ==
  /\ l.tag = "TXT"  => l.celsius \in Unread
  /\ l.tag = "TXF"  => {l.total, l.used} \subseteq {NaN} \cup Nat /\ l.mount.len \in Nat
  /\ l.tag = "cpu"  => \A t \in Times : l.times[t] \in {NaN} \cup Nat
  /\ l.tag = "disk" => {l.read, l.written} \subseteq {NaN} \cup Nat
  /\ l.tag = "net"  => {l.rx, l.tx} \subseteq {NaN} \cup Nat
  /\ l.tag = "TXPT" => l.total \in {NaN} \cup Nat
  /\ l.tag = "TXP"  => l.delta \in {NaN} \cup Nat /\ l.rss \in {NaN} \cup Nat
  /\ l.tag = "TXWC" => {l.a, l.b} \subseteq Unread
  /\ l.tag = "pid"  => {l.pid, l.start, l.jiffies, l.rss} \subseteq Nat

\* A command line or a cgroup is printed when there is one (procs.rs:396, 398); a
\* command line of blanks is "".
SaysSomething(l) == l.tag \in {"TXC", "TXO"} => l.value # Nothing

\* Names in /proc/diskstats and /proc/net/dev, by what they stand for, whatever the
\* parsers make of them.  Disks: whole ones (mmcblk0boot0 is a device of its own and
\* named like mmcblk0), partitions, those whose own name ends in a number, and devices
\* that are made of others or of none.  Links: the host's own (a tunnel is one,
\* sampler.rs:818), what is inside the host, and what stands in front of other links
\* or of guests: bridges, taps and bonds.
BlockNames ==
  LET name(starts, p, digit) == [start: starts, p: p, digit: digit] IN
  [whole     |-> name({"sd", "vd", "hd", "xvd"}, BOOLEAN, {FALSE}) \cup
                 name({"nvme", "mmcblk"}, {FALSE}, {TRUE}),
   partition |-> name({"sd", "vd", "hd", "xvd"}, BOOLEAN, {TRUE}) \cup
                 name({"nvme", "mmcblk"}, {TRUE}, {TRUE}),
   numbered  |-> name({"rbd", "nbd", "pmem"}, BOOLEAN, {TRUE}),
   other     |-> name({"loop", "dm-", "md", "zram", "ram", "sr", "zd", "bcache"}, BOOLEAN, {TRUE})]
LinkNames ==
  [own     |-> {"enp", "eth", "wlan", "tailscale"},
   inside  |-> {"lo", "veth", "docker", "br-", "virbr"},
   stacked |-> {"br0", "vmbr", "cni", "vnet", "tap", "lxdbr", "bond"}]

NamedByTheKernel(l) ==
  /\ l.tag = "disk" => l.kind \in DOMAIN BlockNames /\ l.name \in BlockNames[l.kind]
  /\ l.tag = "net"  => l.kind \in DOMAIN LinkNames /\ l.iface.start \in LinkNames[l.kind]

\* The snapshots hold what /proc says of a process, and nothing else.
ASSUME LineTypes ==
  \A p \in DOMAIN LinesOf : \A l \in LinesOf[p] :
    HasNumbers(l) /\ NamedByTheKernel(l) /\ SaysSomething(l) /\ (p = "snapshot" => l.tag = "pid")

VARIABLES plane, lines, \* the frame so far
          before        \* the frame before it, none yet if it is empty
vars == <<plane, lines, before>>

Init == plane \in DOMAIN LinesOf /\ lines = <<>> /\ before = <<>>

\* A snapshot of /proc lists each pid once, in order.
Fits(l) == plane = "snapshot" => \A n \in DOMAIN lines : lines[n].pid < l.pid

AddLine ==
  /\ Len(lines) < MaxLines[plane]
  /\ \E l \in LinesOf[plane] : Fits(l) /\ lines' = Append(lines, l)
  /\ UNCHANGED <<plane, before>>

EndFrame ==
  /\ plane \in Pairs /\ lines # <<>> /\ before = <<>>
  /\ before' = lines /\ lines' = <<>>
  /\ UNCHANGED plane

Next == AddLine \/ EndFrame
Spec == Init /\ [][Next]_vars

----------------------------------------------------------------------------
(* Properties *)

Two == plane \in Pairs /\ before # <<>>

\* A line that does not say what it is there to say.
Empty(l) ==
  CASE l.tag = "TXF"   -> NaN \in {l.total, l.used}
    [] l.tag = "TXG"   -> NaN \in {l.util, l.used, l.total}
    [] l.tag = "mem"   -> l.kb = NaN
    [] l.tag = "load"  -> NaN \in Range(l.load)
    [] l.tag = "TXI"   -> l.value = ""
    [] l.tag = "TXP"   -> NaN \in {l.pid, l.delta}
    [] l.tag = "TXGrp" -> l.usec = NaN
    [] l.tag = "TXR"   -> l.count = NaN \/ l.unit = ""
    [] l.tag \in {"TXWC", "TXWM", "TXWN", "TXWD"} -> NaN \in {l.a, l.b}
    [] l.tag = "TXWP"  -> NaN \in {l.pid, l.delta}
    [] OTHER -> FALSE

\* Of these there is one in a frame, and it is read as far as it goes.
Headings == {"cpu", "TXU", "TXPT", "TXGT", "TXWU"}

Noise(l) == l.tag \notin Headings /\ (~l.ok \/ Empty(l))

(* A line that is cut short, a reading that is no number, or a warning     *)
(* between the lines costs the frame nothing else and adds nothing to it,  *)
(* a zero least of all (windows.rs:345, sampler.rs:282).                   *)
NoiseCostsNothing ==
  LET clean == Those(lines, {l \in Range(lines) : ~Noise(l)}) IN
  CASE plane \in {"sensors", "disks", "df", "host"} -> ParseFrame(lines) = ParseFrame(clean)
    [] plane = "process" -> ParseProcesses(lines) = ParseProcesses(clean)
    [] plane = "units"   -> /\ ParseRestarts(lines) = ParseRestarts(clean)
                            /\ ParseCgroups(lines) = ParseCgroups(clean)
    [] plane = "windows" -> /\ ParseWinFrame(lines) = ParseWinFrame(clean)
                            /\ ParseWinProcesses(lines) = ParseWinProcesses(clean)
    [] OTHER -> TRUE

(* Every reading is of the device it is reported for: the CPU's            *)
(* temperature is one of the CPU, of the most truthful sensor it has and   *)
(* the hottest of those, in whatever order they come; what is called       *)
(* hottest is, under the driver it came from; and each processor of a      *)
(* Windows host is compared with itself, over a time that passed.          *)
ReadingsKeepTheirDevice ==
  /\ plane = "sensors" =>
       LET temps   == ParseTemps(lines)
           cpu     == {t \in Range(temps) : SensorKindOf(t.driver) = "cpu" /\ CpuRank(t) # NaN}
           best    == {t \in cpu : \A u \in cpu : CpuRank(t) <= CpuRank(u)}
           hottest == Hottest(temps)
       IN /\ IF cpu = {} THEN ParseCpuTemp(lines) = Nothing
             ELSE \E t \in best : /\ ParseCpuTemp(lines) = t.celsius
                                  /\ \A u \in best : u.celsius <= t.celsius
          /\ temps # <<>> =>
               /\ \A t \in Range(temps) : t.celsius <= hottest.celsius
               /\ \E t \in Range(temps) : /\ t.celsius = hottest.celsius
                                           /\ t.driver = hottest.name[1]
  /\ plane = "windows" /\ Two =>
       LET a == ParseWinFrame(before) b == ParseWinFrame(lines) IN
       \A n \in DOMAIN b.cores :
         LET busy == WinCpu(a, b).cores[n] IN
         busy # Nothing =>
           /\ busy[2] > 0 /\ busy[1] \in 0 .. busy[2]
           /\ \E c \in Range(a.cores) : c.name = b.cores[n].name /\ busy[2] = b.cores[n].b - c.b

\* What the parsers count: a name is all they have to go by.  Disks with a number for
\* a name are not among it, bridges, taps and bonds are, beside the links behind them.
Counted == {"whole", "own", "stacked"}

(* What a host has moved is what the lines of these say, each once: no     *)
(* partition, no device made of disks and no link inside the host that is  *)
(* named as parse_net_dev expects adds to it, and no unreadable counter    *)
(* takes from it.  A filesystem that is mounted twice is one entry, under  *)
(* the shortest of its names, and none is lost that has a name of its own; *)
(* no entry is fuller than the fullest.                                    *)
DisksCountedOnce ==
  plane = "disks" =>
    LET says(l, tag, field) ==
          IF l.tag = tag /\ l.ok /\ l.kind \in Counted /\ l[field] # NaN THEN l[field] ELSE 0
        moved(tag, field) == Sum([n \in DOMAIN lines |-> says(lines[n], tag, field)])
    IN /\ ParseDiskstats(lines) = <<512 * moved("disk", "read"), 512 * moved("disk", "written")>>
       /\ ParseNetDev(lines) = <<moved("net", "rx"), moved("net", "tx")>>

FilesystemsCountedOnce ==
  plane = "df" =>
    LET out  == ParseFilesystems(lines)
        real == {l \in Of(lines, "TXF") : ~IsPseudo(l.source) /\ NaN \notin {l.total, l.used} /\ l.total # 0}
        own  == {l \in real : \A k \in real : k.mount = l.mount => k.source = l.source}
    IN /\ \A m, n \in DOMAIN out : m # n => /\ out[m].source # out[n].source
                                            /\ out[m].mount # out[n].mount
       /\ \A e \in Range(out) : \E l \in real : l.source = e.source /\ l.mount = e.mount
       /\ \A l \in own : \E e \in Range(out) : /\ e.source = l.source
                                                /\ e.mount.len <= l.mount.len
       /\ \A e \in Range(out) : ~Fuller(e, Fullest(out))

DevicesCountedOnce == DisksCountedOnce /\ FilesystemsCountedOnce

(* Every percentage is one, whatever the counters of two frames are to     *)
(* each other, and when none went back the parts of the CPU's time add up  *)
(* to all of it and what is not idle or waiting is busy.                   *)
PercentagesAddUp ==
  plane = "stat" /\ Two =>
    LET a == ParseStat(before) b == ParseStat(lines)
        d == Breakdown(a.aggregate, b.aggregate)
        busy == BusyPct(a.aggregate, b.aggregate)
    IN /\ \A p \in {busy} \cup Range(CorePcts(a, b)) : p[1] \in 0 .. p[2]
       /\ \A part \in Range(d) : part \in 0 .. busy[2]
       /\ (\A t \in Times : b.aggregate[t] >= a.aggregate[t]) =>
            /\ d.user + d.system + d.iowait + d.steal + d.idle = busy[2]
            /\ busy[1] = d.user + d.system + d.steal

(* A row's command line and owner are those that were printed for its pid, *)
(* never a neighbour's, and nothing but blanks that was printed for a      *)
(* listed pid is lost; with a denominator every process is a row, busiest  *)
(* first and then largest first.                                           *)
RowsKeepTheirOwn ==
  plane = "process" =>
    LET out == ParseProcesses(lines)
        said(pid, tag) == {l.value : l \in {k \in Of(lines, tag) : k.pid = pid}}
    IN /\ \A r \in Range(out) : r.cpu \in 0 .. Denominator(lines)
       /\ Len(out) = IF Denominator(lines) = 0 THEN 0 ELSE Len(Rows(lines))
       /\ \A r \in Range(out) :
            /\ r.cmd # "" => r.cmd \in said(r.pid, "TXC")
            /\ r.owner # NoOwner => r.owner \in {ParseOwner(p) : p \in said(r.pid, "TXO")}
            /\ said(r.pid, "TXC") # {} /\ "" \notin said(r.pid, "TXC") =>
                 \E s \in Range(out) : s.pid = r.pid /\ s.cmd # ""
       /\ \A m, n \in DOMAIN out : m < n => ~Before(out[n], out[m])

Snapshot(rows) == [p \in {l.pid : l \in Range(rows)} |->
                     CHOOSE l \in Range(rows) : l.pid = p]

(* The ranking charges each process what it used itself, also when its pid *)
(* belonged to another one at the start of the window; nobody who is left  *)
(* out was busier than all who are in, nor larger, and a quiet host still  *)
(* has its largest processes listed (procs.rs:374).                        *)
RankingIsTrue ==
  plane = "snapshot" /\ Two =>
    LET a == Snapshot(before) b == Snapshot(lines)
        out  == Ranked(a, b, TopN)
        in   == {r[1] : r \in out}
        used(p) == IF p \in DOMAIN a /\ a[p].start = b[p].start
                   THEN Minus(b[p].jiffies, a[p].jiffies) ELSE 0
    IN /\ \A r, s \in out : r[1] = s[1] => r = s
       /\ \A r \in out : r[2] \in {0, used(r[1])}
       /\ \A p \in DOMAIN b \ in : /\ Cardinality({r \in out : r[2] >= used(p)}) >= TopN
                                   /\ Cardinality({q \in in : b[q].rss >= b[p].rss}) >= TopN
=============================================================================
