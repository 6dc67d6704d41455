---------------------------- MODULE ProcessFrame ----------------------------
(***************************************************************************)
(* The process plane of a Linux host, from the two snapshots its shell     *)
(* ranks (proc_emit) to the rows that the client makes of the frame        *)
(* (parse_processes, parse_cgroups, parse_restarts), and both frames of a  *)
(* Windows host.  Lines are records as in MetricFrame.                     *)
(***************************************************************************)
EXTENDS MetricFrame

----------------------------------------------------------------------------
(* proc_emit.  A snapshot is a function from pids to what /proc/[pid]/stat  *)
(* says: start time, jiffies and resident pages.                           *)

Above(p, q) == p[1] > q[1] \/ (p[1] = q[1] /\ p[2] > q[2])

\* Of a set of <<key, pid>>, the n with the largest keys.
TopOf(pairs, n) == {p \in pairs : Cardinality({q \in pairs : Above(q, p)}) < n}

\* FAULT: a pid is enough to know a process by.
SamePid(a, b, p) == p \in DOMAIN a

SameProcess(a, b, p) == p \in DOMAIN a /\ a[p].start = b[p].start

\* The ranking: pid and jiffies of the n busiest, and of the n largest that are
\* not among them, with none.
Ranked(a, b, n) ==
  LET busy    == {q \in DOMAIN b : SameProcess(a, b, q) /\ b[q].jiffies > a[q].jiffies}
      CPU     == TopOf({<<b[q].jiffies - a[q].jiffies, q>> : q \in busy}, n)
      MEM     == TopOf({<<b[q].rss, q>> : q \in DOMAIN b}, n)
      charged == {p[2] : p \in CPU}
  IN {<<p[2], p[1]>> : p \in CPU} \cup {<<p[2], 0>> : p \in {m \in MEM : m[2] \notin charged}}

----------------------------------------------------------------------------
(* parse_processes *)

\* parse_owner: a cgroup path by its last component, as how that starts and ends
\* and what identifies it, and whether the path runs through user.slice.
ParseOwner(path) ==
  IF path.start \in {"", "init.scope", "-.slice"} THEN <<"", "none">>
  ELSE IF path.start \in {"docker-", "crio-", "libpod-", "containerd-"} THEN <<path.id, "container">>
  ELSE IF path.start \in {"session-", "user-"} \/ path.userSlice THEN <<"login session", "session">>
  ELSE IF path.start = "unit" /\ path.end \in {".service", ".scope", ".slice"} THEN <<path.id, "service">>
  ELSE <<"", "none">>

NoOwner == <<"", "none">>

\* TXPT: the last one, zero when it cannot be read.
Denominator(lines) ==
  LET told == Those(lines, {l \in Range(lines) : l.tag = "TXPT"})
  IN IF told = <<>> THEN 0 ELSE OrZero(Last(told).total)

Rows(lines) == Those(lines, {l \in Of(lines, "TXP") : NaN \notin {l.pid, l.delta}})

\* FAULT: what a row collects is what arrived with it, at its place.
ByPosition(lines, tag, rows, n) ==
  LET told == Those(lines, Of(lines, tag)) IN IF n \in DOMAIN told THEN told[n].value ELSE Nothing

\* What the lines of a tag say of the n-th row: the last one that names its pid,
\* unless an earlier row of that pid has taken it.
Collected(lines, tag, rows, n) ==
  LET told == Those(lines, {l \in Of(lines, tag) : l.pid = rows[n].pid})
  IN IF told = <<>> \/ \E m \in 1 .. n - 1 : rows[m].pid = rows[n].pid THEN Nothing
     ELSE Last(told).value

\* CPU descending, memory as the tiebreak.
Before(a, b) == a.cpu > b.cpu \/ (a.cpu = b.cpu /\ a.rss > b.rss)

\* The stable sort of a sequence: the n-th has n - 1 others ahead of it.
Sorted(rows) ==
  LET ahead(m, n) == Before(rows[m], rows[n]) \/ (~Before(rows[n], rows[m]) /\ m < n)
      at(n) == CHOOSE m \in DOMAIN rows : Cardinality({k \in DOMAIN rows : ahead(k, m)}) = n - 1
  IN [n \in DOMAIN rows |-> rows[at(n)]]

KernelNames == {"kworker", "jbd2"}

\* cpu is a share of the denominator, clamped to it.
ParseProcesses(lines) ==
  LET rows  == Rows(lines)
      total == Denominator(lines)
      row(n) ==
        LET path == Collected(lines, "TXO", rows, n)
            cmd  == Collected(lines, "TXC", rows, n)
        IN [pid |-> rows[n].pid, cpu |-> AtMost(rows[n].delta, total), rss |-> OrZero(rows[n].rss),
            kernel |-> OrZero(rows[n].rss) = 0 /\ rows[n].comm \in KernelNames,
            cmd |-> IF cmd = Nothing THEN "" ELSE cmd,
            owner |-> IF path = Nothing THEN NoOwner ELSE ParseOwner(path)]
  IN IF total = 0 THEN <<>> ELSE Sorted([n \in DOMAIN rows |-> row(n)])

\* parse_cgroups: the processors of the host and its cgroups.
ParseCgroups(lines) ==
  LET told == Those(lines, {l \in Range(lines) : l.tag = "TXGT"})
  IN [ncpu |-> IF told = <<>> THEN 0 ELSE OrZero(Last(told).ncpu),
      groups |-> Those(lines, {l \in Of(lines, "TXGrp") : l.usec # NaN})]

\* parse_restarts
ParseRestarts(lines) ==
  LET told == Those(lines, {l \in Of(lines, "TXR") : l.count # NaN /\ l.unit # ""})
  IN [n \in DOMAIN told |-> <<told[n].unit, told[n].count>>]

----------------------------------------------------------------------------
(* Windows *)

\* parse_win_frame: _Total is kept apart from the processors, and not added to the
\* disks a second time.
ParseWinFrame(lines) ==
  LET numbers(tag) == {l \in Of(lines, tag) : NaN \notin {l.a, l.b}}
      totals == Those(lines, {l \in numbers("TXWC") : l.name = "_Total"})
      mems   == Those(lines, numbers("TXWM"))
      ups    == Those(lines, {l \in Range(lines) : l.tag = "TXWU"})
  IN [cores  |-> Those(lines, {l \in numbers("TXWC") : l.name # "_Total"}),
      total  |-> IF totals = <<>> THEN Nothing ELSE Last(totals),
      nets   |-> Those(lines, numbers("TXWN")),
      disks  |-> Those(lines, {l \in numbers("TXWD") : l.name # "_Total"}),
      mem    |-> IF mems = <<>> THEN <<0, 0>> ELSE <<Last(mems).a, Last(mems).b>>,
      uptime |-> IF ups = <<>> THEN Nothing ELSE Last(ups).a]

\* windows::busy_pct of <<idle, time>> counters, as <<busy, total>>.
WinBusy(prev, now) ==
  IF now.a < prev.a \/ now.b <= prev.b THEN Nothing
  ELSE <<Minus(now.b - prev.b, now.a - prev.a), now.b - prev.b>>

\* win_pump: the percentage of one processor, paired by name.
WinCore(prev, cores, n) ==
  LET before == Those(prev, {c \in Range(prev) : c.name = cores[n].name})
  IN IF before = <<>> THEN Nothing ELSE WinBusy(before[1], cores[n])

\* The CPU of a Windows host: its own _Total, or the mean of its processors.
WinCpu(prev, f) ==
  LET cores == [n \in DOMAIN f.cores |-> WinCore(prev.cores, f.cores, n)]
  IN [cores |-> cores,
      total |-> IF prev.total # Nothing /\ f.total # Nothing THEN WinBusy(prev.total, f.total)
                ELSE IF cores = <<>> THEN Nothing ELSE cores]

\* parse_win_processes: a process that is new in the window used nothing yet.
ParseWinProcesses(lines) ==
  LET told == Those(lines, Of(lines, "TXWPT"))
      rows == Those(lines, {l \in Of(lines, "TXWP") : NaN \notin {l.pid, l.delta}})
      span == IF told = <<>> THEN 0 ELSE OrZero(Last(told).ncpu) * OrZero(Last(told).window)
  IN IF span = 0 THEN <<>>
     ELSE [n \in DOMAIN rows |->
             [pid |-> rows[n].pid, cpu |-> AtMost(AtLeast(rows[n].delta, 0), span),
              rss |-> OrZero(rows[n].rss), cmd |-> "", kernel |-> FALSE,
              owner |-> IF rows[n].service = "" THEN NoOwner ELSE <<rows[n].service, "service">>]]
=============================================================================
