----------------------------- MODULE MCParsers -----------------------------
(***************************************************************************)
(* The lines the parsers are given: of each kind a few that differ in what *)
(* the code looks at, one that is cut short and one with a field that is   *)
(* no number.                                                              *)
(***************************************************************************)
EXTENDS Parsers

Sensor(driver, label, celsius) ==
  [tag |-> "TXT", ok |-> TRUE, driver |-> driver, label |-> label, celsius |-> celsius]
Sensors ==
  {Sensor("k10temp", "Tctl", c) : c \in {40, 62}} \cup {Sensor("k10temp", "Tdie", 45)}
  \cup {Sensor("coretemp", "Core", c) : c \in {50, 55, 200}}
  \cup {Sensor("coretemp", "", 70), Sensor("nvme", "Composite", 80), Sensor("acpitz", "", 0)}
  \cup {[Sensor("coretemp", "Package", 90) EXCEPT !.ok = FALSE]}

Disk(kind, start, p, digit) ==
  [tag |-> "disk", ok |-> TRUE, kind |-> kind, name |-> [start |-> start, p |-> p, digit |-> digit],
   read |-> 3, written |-> 2]
Link(kind, start, rx) ==
  [tag |-> "net", ok |-> TRUE, kind |-> kind, iface |-> [start |-> start], rx |-> rx, tx |-> 1]
Disks ==
  {Disk("whole", "sd", FALSE, FALSE), Disk("partition", "sd", FALSE, TRUE),
   Disk("whole", "nvme", FALSE, TRUE), Disk("partition", "nvme", TRUE, TRUE),
   Disk("whole", "mmcblk", FALSE, TRUE), Disk("other", "dm-", FALSE, TRUE),
   Disk("other", "zd", FALSE, TRUE), Disk("numbered", "rbd", FALSE, TRUE),
   [Disk("whole", "vd", FALSE, FALSE) EXCEPT !.ok = FALSE],
   [Disk("whole", "hd", TRUE, FALSE) EXCEPT !.read = NaN]}
  \cup {Link("own", "eth", 5), Link("own", "tailscale", 7), Link("inside", "lo", 9),
        Link("inside", "veth", 5), Link("own", "wlan", NaN), Link("stacked", "br0", 5),
        Link("stacked", "bond", 4)}

Fs(source, mount, total, used) ==
  [tag |-> "TXF", ok |-> TRUE, source |-> source, mount |-> mount, total |-> total, used |-> used]
Mount(path, len) == [path |-> path, len |-> len]
Df ==
  {Fs("sda1", Mount("/", 1), 8, 2), Fs("sda1", Mount("/mnt/root", 9), 8, 2),
   Fs("sda1", Mount("/old", 4), 8, 2), Fs("sdb1", Mount("/d/e", 4), 4, 3),
   Fs("sdb1", Mount("/drivers", 8), 4, 3), Fs("sdb1", Mount("/old", 4), 4, 3),
   Fs("tmpfs", Mount("/tmp", 4), 2, 1), Fs("sdc1", Mount("/mnt/c", 6), 0, 0),
   Fs("pool", Mount("/tank", 5), NaN, 1), [Fs("sdd1", Mount("/e", 2), 8, 8) EXCEPT !.ok = FALSE]}

\* A row of /proc/stat, from user, idle, iowait and the rest.
Cpu(label, user, nice, idle, iowait) ==
  [tag |-> "cpu", ok |-> TRUE, label |-> label,
   times |-> [user |-> user, nice |-> nice, system |-> 1, idle |-> idle, iowait |-> iowait,
              irq |-> user, softirq |-> 0, steal |-> idle]]
Stat ==
  {Cpu("cpu", u, n, i, w) : u \in {0, 2}, n \in {0, 1}, i \in {1, 4}, w \in {0, 2}}
  \cup {Cpu("cpu0", 1, 0, 1, 0), Cpu("cpu0", 2, 0, 4, 1), [Cpu("cpu1", 2, 0, 4, 1) EXCEPT !.times.user = NaN]}

Row(pid, delta, rss) ==
  [tag |-> "TXP", ok |-> TRUE, pid |-> pid, delta |-> delta, rss |-> rss,
   comm |-> IF rss = 0 THEN "kworker" ELSE "java"]
Path(start, end, user) == [start |-> start, end |-> end, id |-> "a", userSlice |-> user]
Keyed(tag, pid, value) == [tag |-> tag, ok |-> TRUE, pid |-> pid, value |-> value]
Processes ==
  {[tag |-> "TXPT", ok |-> TRUE, total |-> t] : t \in {NaN, 10}}
  \cup {Row(1, 5, 1), Row(1, 0, 2), Row(2, 12, 0), Row(2, 0, NaN), Row(3, NaN, 1)}
  \cup {Keyed("TXC", 1, "run"), Keyed("TXC", 1, ""), Keyed("TXC", 2, "stop"),
        Keyed("TXO", 1, Path("unit", ".service", FALSE)), Keyed("TXO", 2, Path("docker-", ".scope", TRUE))}
  \cup {[Row(2, 1, 1) EXCEPT !.ok = FALSE]}

Gpu(util, used, power) ==
  [tag |-> "TXG", ok |-> TRUE, util |-> util, used |-> used, total |-> 8, power |-> power]
Mem(key, kb) == [tag |-> "mem", ok |-> TRUE, key |-> key, kb |-> kb]
Group(usec) == [tag |-> "TXGrp", ok |-> TRUE, usec |-> usec]
Unit(unit, count) == [tag |-> "TXR", ok |-> TRUE, unit |-> unit, count |-> count]
Fact(key, value) == [tag |-> "TXI", ok |-> TRUE, key |-> key, value |-> value]
Host ==
  {Gpu(120, 4, NaN), Gpu(NaN, 4, 30), Gpu(10, NaN, 30), Mem("MemTotal", 8),
   Mem("MemAvailable", 9), Mem("MemTotal", NaN), Mem("Buffers", 1), Fact("os", "debian"),
   Fact("os", ""), [tag |-> "TXU", ok |-> TRUE, secs |-> 7],
   [tag |-> "load", ok |-> TRUE, load |-> <<1, 2, 3>>],
   [tag |-> "load", ok |-> TRUE, load |-> <<1, NaN, 3>>]}
Units ==
  {[tag |-> "TXGT", ok |-> TRUE, ncpu |-> 4], Group(6), Group(NaN), Unit("sshd", 2),
   Unit("", 2), Unit("cron", NaN)}

Snapshots ==
  {[tag |-> "pid", ok |-> TRUE, pid |-> p, start |-> s[1], jiffies |-> s[2], rss |-> s[3]] :
     p \in 1 .. 4, s \in {<<1, 2, 3>>, <<1, 5, 1>>, <<2, 9, 2>>}}

Counter(tag, name, a, b) == [tag |-> tag, ok |-> TRUE, name |-> name, a |-> a, b |-> b]
WinRow(pid, delta, service) ==
  [tag |-> "TXWP", ok |-> TRUE, pid |-> pid, delta |-> delta, rss |-> 1, service |-> service]
Windows ==
  {Counter("TXWC", name, n[1], n[2]) : name \in {"0", "1"}, n \in {<<1, 2>>, <<4, 9>>}}
  \cup {Counter("TXWC", "_Total", 3, 5), Counter("TXWD", "_Total", 3, 5), Counter("TXWD", "0", 3, 5),
        Counter("TXWM", "", NaN, 1), Counter("TXWM", "", 8, 1)}
  \cup {[tag |-> "TXWPT", ok |-> TRUE, ncpu |-> 2, window |-> 5], WinRow(4, -3, ""), WinRow(5, 7, "svc")}
  \cup {[Counter("TXWC", "2", 1, 2) EXCEPT !.ok = FALSE], [tag |-> "warning", ok |-> FALSE]}

AllLines ==
  [sensors |-> Sensors, disks |-> Disks, df |-> Df, stat |-> Stat, process |-> Processes,
   host |-> Host, units |-> Units,
   snapshot |-> Snapshots, windows |-> Windows]
Longest ==
  [sensors |-> 3, disks |-> 3, df |-> 4, stat |-> 2, process |-> 4, host |-> 3, units |-> 3,
   snapshot |-> 4, windows |-> 2]
=============================================================================
