# TLA+ specifications of tuxtop

tuxtop watches a fleet of machines over `ssh`. One long-lived `ssh` process per
host runs a remote loop that prints frames; the program parses them, keeps a
bounded history and shows cards and charts in a window. The same core runs in
three programs: the desktop shell (`src-tauri`), the HTTP server
(`crates/tuxtop-serve`) and two command-line tools. A desktop window may also
*view* the fleet of a server instead of sampling one itself.

The modules here model the parts of that program where several tasks, files
and machines meet, and the parsers between the two kinds of host and the
readings on a card. Paths below are relative to the repository.

## 1. Inventory

| Component | State | Operations | Hard behaviour |
|---|---|---|---|
| **Service** `crates/tuxtop-core/src/service.rs` | none of its own: reads and writes `hosts.toml`, drives the supervisor and the history store | `start_all`, twelve commands, the read-only queries | a command is many steps with no lock across them; refusals in remote mode; crash between steps |
| **Supervisor** `supervisor.rs` | `tasks`, `traffic`, `intervals`, `latest`, `cgroups`, `restarts`, one mutex each | `start`, `stop`, `stop_all`, `forget`, `record_procs` | `abort` is a request, not an event; six maps that must agree |
| **hosts.toml** `config.rs` | one file | `load_file`, `save_file`, `save` | read-modify-write by several clients; truncation before the write |
| **Host list, settings** `hostlist.rs`, `model.rs` | values inside the file | `add`, `remove`, `set_group`, `reorder`, endpoints, `effective_interval_ms`, `migrate` | values from hand-edited files; order |
| **Watching a host** `fleet.rs` | one loop per host | connect, receive, forward, back off | four tasks, three bounded channels; dropped at any await |
| **ssh sampler, pump** `transport.rs`, `windows.rs` | one child process, one reading task | read, split, rate, emit, explain the end | chunks end anywhere; ends of three kinds |
| **Frames and rates** `sampler.rs`, `proc.rs`, `facts.rs` | the tail of the buffer, the previous frame | `split_frames`, `RateTracker::push`, parsers | two delimiters on one stream; counters that go back |
| **Process plane** `procs.rs` | baselines per connection | `RestartTracker`, `CgroupRates`, `proc_schedule` | baselines that outlive what they measured |
| **History** `history.rs`, `history_store.rs` | rings of buckets per host and metric | `push`, `query`, `enforce_cap`, `clear`, `forget_host` | time implied by position; gaps, clock steps, shedding |
| **Traffic meter** `traffic.rs` | three counters per host | `add_bytes`, `add_frame`, `snapshot` | torn reads, tolerated |
| **Remote protocol** `remote.rs` | buffers | `parse_endpoint`, `split_head`, `dechunk`, `split_sse_frames`, `decode_event`, the reconnect table | chunk boundaries inside everything |
| **Shell** `src-tauri/src/main.rs` | managed state | Tauri commands: some run on the main thread, some on workers; fleet reads proxied in remote mode | reads answered by one machine, writes by another |
| **Read loop** `src-tauri/src/remote.rs` | at most one reader task | `start`, `stop`, `session`, `post` | an aborted reader that still records |
| **Server** `crates/tuxtop-serve` | broadcast channel | event fan-out, command gate | slow clients lose events |
| **Frontend** `src/*.js` | cards, caches, timers | paint, settings round trip | stale cards, settings of two machines in one object |

What makes each one correct:

* Service, Supervisor and hosts.toml: between commands the samplers are exactly
  those the file asks for; no task escapes its handle; nothing is sampled
  locally in remote mode; a removed host is forgotten; an edit never reverts
  another; a crash inside a command leaves a file the next start agrees with.
* Watching a host: a card is told readings, then at most one fault, the right
  one, and never nothing of a connection that brought nothing; the host is picked
  up again; nothing is left running.
* History: a query returns what was recorded, at the time it was recorded, or a
  hole; coverage is never given up for memory; fleets never mix.
* Sampling: every frame reaches one parser, whole; windows are no shorter and
  extras no more frequent than they are meant to be, at any rate; no rate comes from a counter that was reset; no
  loop is left running on a host.
* Parsers: a reading stays with its device; nothing is counted twice; a line
  that is cut short costs nothing but itself; a recycled pid is a new process.
* Event stream: events arrive in order and once, however the bytes are cut; a
  slow viewer holds nobody up and catches up.
* Remote view: one data plane, the one the file names; a server that restarts
  is picked up; the history is of the fleet on show; a settings form belongs to
  the fleet it was read from.

## 2. Modules

```
FleetContract  <== MeetsContract ==  OneWindow --EXTENDS--> Fleet <--EXTENDS-- TwoClients
                                        |                                          |
                          MCOneWindow, OneWindow_proofs                       MCTwoClients

WatchContract  <== TellsTheCard ==  WatchHost <-- WatchHost_proofs

Sampling     <-- MCSampling, Sampling_proofs
MetricFrame  <-- ProcessFrame <-- Parsers <-- MCParsers, Parsers_proofs
History      <-- MCHistory, History_proofs
HistoryStore <-- MCHistoryStore, HistoryStore_proofs
EventStream  <-- MCEventStream, EventStream_proofs
Viewer       <-- Viewer_proofs
```

(An arrow without a label points from the module that EXTENDS to the one it
extends.)

| Module | What it is |
|---|---|
| `Fleet` | Service + Supervisor + hosts.toml for any set of clients. One action per step of a command between which another client, a task or a crash can run. |
| `FleetContract` | The command plane with every command atomic: a file, the one edit each command is named for, and the samplers the file asks for. Dying may cost the whole file and nothing less. |
| `OneWindow` | `Fleet` with one client: the refinement mapping to `FleetContract` and the properties that need commands to take turns. |
| `TwoClients` | Properties stated of several clients at once. |
| `WatchHost` | One `watch_host` loop with its `ssh`, pump, forwarder and channels. |
| `WatchContract` | What a card may be told, connection by connection. |
| `Sampling` | One connection: the loop on the host (shell or PowerShell), its schedule, its watchdog, the stream, and the pump with its trackers. |
| `MetricFrame`, `ProcessFrame` | The parsers of both planes and both kinds of host, the ranking of processes and the rates between two frames, as operators. |
| `Parsers` | Every frame, and every pair of frames, of a few lines: the inputs on which the parsers are compared with what the lines say. |
| `History` | One series of the history store: a cascade of rings, recording, shedding and queries. |
| `HistoryStore` | All series of all hosts under one memory limit. |
| `EventStream` | A server's events from the supervisor's channel to the window of a viewer, byte by byte. |
| `Viewer` | One window that switches between its own fleet and servers: the shell's commands and the reader. |
| `*_proofs` | Theorems, checked by TLAPS. |
| `MC*` | Initial files, command sets, inputs and symmetry for TLC. |

A definition whose comment begins with `FAULT:` is not part of a model. It is
the definition after it with a plausible bug; put in its place, it breaks the
property that guards against that bug. They are kept so that every property can
be seen to fail.

### Fleet

`disk` is `hosts.toml`; a host not in the list maps to `None`. Each client has a
program counter `pc`, the command `op`, the `HostsFile` it holds in memory
(`file`), the hosts it still has to hand to `Supervisor::start` (`todo`) and the
one it is working on (`cur`). `tasks` holds the registered handles, `detached`
the tasks whose handle was dropped without an abort, `dying` the tasks that were
aborted but are still inside a poll. `meters`, `counters`, `procs`, `history`
and `cap` stand for `intervals`, `traffic`, the three ranking maps, the hosts
that have history, and the memory limit in force. `tardy`, which only properties
read, are the hosts an aborted task has recorded since they were last forgotten.

| Code | Actions |
|---|---|
| each `Service` command up to its save | `AddHost` ... `RemoveEndpoint` |
| `refuse_if_remote`, `Config::save`, `save_file` | `RefuseIfRemote`, `Reload`, `Truncate`, `Write` |
| `Supervisor::start`, lock by lock | `StartStops`, `StartSpawns`, `StartRegisters` |
| `stop_all`, `stop`, `forget`, `forget_host`, `clear` | `StopAll`, `RemoveStops`, `Forget`, `ForgetHistory`, `ClearHistory` |
| a task recording a sample or a ranking | `RecordSample`, `RecordProcs` |
| the runtime dropping an aborted task | `Die` |
| a crash and the next launch | `Restart`, then `StartAll` |

Left out: the order of the host list, addresses and ports, error texts, I/O
errors (which end a command), the notices sent with `try_send` (they are in
`EventStream`), and what samples contain. `always_on_top` and `update_check` are
one value.

### WatchHost

`phase` is where `watch_host` waits. `tx` is the channel from the pump with its
contents, `ptx` and `out` are lengths. `heard` records what the current
connection has put into `out`; it is the variable the contract is about. `Drop`
is `abort` or the `select!` in `supervisor.rs`; `Close` is a consumer that goes
away (which the command-line tools do). A pump that is still blocked on a full
channel when the loop moves on is counted in `orphans`. Reconnect delays are a
step; the table is the counter `attempt`, saturated where the table is. An
aborted forwarder is taken to stop at once: the poll it may finish is then a send
that came before the abort.

### Sampling

Time is in milliseconds. `Work` is one pass of the loop: the metric frame, and in
the iterations that `proc_schedule` or the PowerShell counter names the process
frame, written in one piece. What a pass takes (`cat`, `df`, `nvidia-smi`, the
queries), up to `MaxPass`, passes after it, with the sleep: between the snapshots
of two iterations, where it counts, it is the same. `Sleep` is the shell's
`sleep`, `WatchedSleep` a look of `watchdog_sleep` and `SleepStep` the step that
follows it, so the session may end between the two.
`Happens` is what happens on a host: a unit restarts and its cgroup is a new
one, a unit is started by hand, an interface is recreated. `Work(got)` is a pass
that got only some of the counters (`Answers`): on Linux one `cat` prints them all
or was not forked, on Windows each class is a query of its own and any of them may
be refused (`windows.rs:164`). `Leaves` and `SessionEnds` are the two ends, and
that the first need not bring the second is why the watchdog exists. `Read(n)`
takes any number of the lines in flight, splits them (`SplitFrames`) and passes
every complete frame through the trackers (`TakeAll`). The cut inside a line or a delimiter
is the same as a cut before it, since the tail is kept until its delimiter is
whole; lines are therefore the unit. `ever` is what the counters would have
reached without resets, `taken`, `base`, `holes` (the measured frames that came
without byte counters), `ran` and `goneAt` are history; only properties read them.

### MetricFrame, ProcessFrame, Parsers

A line is a record: the command that printed it (`tag`), whether it is whole
(`ok`), and its fields, `NaN` where a field is no number. A name is a record of
what the code looks at: how a device's name begins, whether it ends in a digit,
whether a path is below `/system.slice`. The operators have the names of the Rust
functions. `ParseWinFrame` and `ParseWinProcesses` are the
Windows halves. Percentages are pairs of a part and a whole. The loops over lines
are `Those` (filter), `Left` (max_by and its like) and `Sum`, functions that recur
on the length of the sequence, and sorting is by rank; `Noise` says of a line that
it is cut short or does not say what it is there to say, field by field.
A mount point is a path and its length in bytes, which is what the code compares.

What a name stands for is written down apart from the parsers: `BlockNames` and
`LinkNames` list, by kind, names that hosts really have, also those the code's own
lists do not foresee, and each line carries its `kind` beside its name, which the
parsers never look at. `Counted` then says which kinds are summed. A tunnel is a
link of its own and is counted (`sampler.rs:818`). So are bridges that are not
called `br-` or `virbr`, taps and bonds, beside the links behind them
(`stacked`); disks whose own name ends in a number, `rbd0` for one, are taken for
partitions and are not (`numbered`). Both are among the disagreements below.

### History and HistoryStore

`tiers` is `Series.tiers`, each a record with the fields of `Tier` except that a
slot holds the *set* of samples of its bucket, where the code holds their mean
and extremes; `{}` is NaN, a hole. Inside a ring time counts buckets. `log`,
everything ever recorded, and `last`, the latest second, exist only for the
properties. `Push` is `Tier::push` with the two steps it makes, `Flush` and
`FillGap`; `Record` pushes into every tier that is held and `Shed` is
`shed_finest`, at any moment, whether or not there is a reason for it. `Query`
is evaluated by the invariants, for every window and every `max_points`.

`HistoryStore` has the reasons. `floor` maps each series there is to the finest
tier it still has, which is all that memory depends on. `Record`, `EnforceNow`
and `Clear` each hold the lock and are one step; the two atomics written outside
it (`cap_bytes`, `finest_secs`) are steps of their own (`SetCap`, `Report`).
Which series a sample feeds (`SensorKey`, `Metrics`) is modelled as the code
derives it from drivers and labels.

### EventStream

A byte is a number: CR, LF, the colon and the digits are themselves, `data: ` is
one byte and so is an event's JSON. `Sample` and `Notice` fill the supervisor's
channel (the second with `try_send`), `Feed` moves it into the broadcast ring,
`Accept`, `Send`, `Lagged`, `KeepAlive` and `Ends` are one subscriber's
connection, `Garble` a chunk whose announced length is wrong, `Read(n)` a read of
`n` bytes with everything `session` does with them: `split_head`, `dechunk`,
`split_sse_frames`, `decode_event`, each as a function on sequences of bytes.
`Stalls` is a viewer that stops reading and keeps its connection.

### Viewer

`server` and `rate` are the file, `local` whether the samplers run (`Fleet` has
them one by one), `reader` the `ReadLoop`'s task and where in its loop it is,
`late` the fleets for which an aborted task still finishes a poll, `pc` the step
of a switch. The order of a switch is that of the two functions named
`use_endpoint`: `StopAll`, `Clear`, `Save` in core, `StartLocal` there or `Swap`
in the shell, then `Probe` and the window's `Refresh`. `ServerStops`,
`ServerStarts`, `ConnectFails`, `Refuses` and `LinkIsLost` are what can happen to
a connection; the last, a connection that dies without a word before the head of
the answer or after it, is a state of its own (`hung`), because the code has no
timeout in either place. `Relaunch` is a crash or a quit and the next launch. The
settings form is not here: its round trip is one of the disagreements below.

## 3. Runs

| Run | Instance | Shows |
|---|---|---|
| `one_window` | 1 host, every command with every kind of data: rates and limits below, at and above the bounds, a group, 2 operating systems, a saved endpoint, 1 server; the program may die at any step | every command is one atomic edit of `FleetContract`, where dying may lose the file but never half an edit; types and bounds; no stray sampler; samplers, meter, counters, history and limit follow the file that is left, also after any crash; a switch to a server ends with no local sampler |
| `watch_host` | channels of length 1, reads of at most one frame, both kinds of host | the card's contract, a reason for every connection that brought nothing, one `ssh` at a time, clean shutdown, recovery |
| `sampling` | intervals of 1 and 3 ms against periods of 2 and 4, passes of 0 and 1, 8 ms, both kinds of host, one event and one frame with queries refused | frames stay whole; the window is never shorter than its floor; rates are true across resets; the extras keep their pace; no loop runs for ever |
| `parsers` | frames of up to 2, 3 or 4 lines from 9 families, and pairs of them | readings keep their device, nothing is counted twice, noise costs nothing, percentages add up, rows and the ranking are of one process |
| `history` | rings of 3, 3 and 2 buckets of 1, 2 and 4 seconds; 4 samples within 10 seconds, 2 a second at most | points keep their time and their samples across gaps; nothing within a ring's span is lost; no extreme is averaged away |
| `history_store` | 2 hosts, 2 kinds of sample, rings of 4, 6 and 3 bytes, limits of 40, 70 and 100 bytes and none; the check on every 4th sample | the limit is exceeded by new series only; resolution is given up alike and only when it must be; coverage never |
| `stream` | 3 events through a channel of 1 and a ring of 1, 6 bytes in flight, one broken connection or garbled chunk | in order and once; the cuts do not matter; nothing is lost but by a lag; the samplers go on; a viewer catches up |
| `viewer` | 2 servers, an endpoint that does not parse | one data plane and the right name on it; a restarted server is picked up |
| `two_starts` | 2 clients, 1 host | **violated**: two concurrent starts leave a task nobody can stop |
| `fleets_mix` | as `viewer` | **violated**: a sample of the server just left is recorded into the cleared history |
| `burst` | as `sampling`, but nothing happens on the host and passes take no time | **violated**: frames that arrive in one read overstate the rate |
| `cry_wolf` | as `watch_host` | **violated**: a connection that delivered readings and dropped is announced as a fault |

Why the bounds are enough.

* `Fleet`: with one host the other data can be complete. Two are what it takes
  for a command that restarts several of them to be interrupted between two, and
  to see that a command leaves the other hosts alone; that is what the theorems
  of section 5 are for, which hold for any set of hosts: every safety property
  and step property of the run is among them. Two clients make every race of two
  commands. `Rates` and `Caps` are the sets the
  `.cfg` names; no data is bounded otherwise.
* `WatchHost`: a channel of length 1 is full and empty as often as it can be,
  and the theorems hold for any length. `MaxFrames`, `MaxAttempt` and `MaxPumps`
  bound the frames of a read, the retry counter (which the table saturates) and
  the pumps of earlier connections that have not returned yet.
* `Sampling`: the periods are scaled so that both branches of every `max` and
  `min` in the schedule are taken: an interval that divides them and one that
  does not, one below and one above the window. Eight milliseconds hold two
  cycles of the ranking and go past the lifetime cap, four. `WireCap`, two lines
  in flight before the loop waits, lets a frame of either plane be read in pieces
  that end anywhere. A pass of no time and one of 1 ms put the snapshots exactly
  as far apart as planned, and further. The theorems cover every interval, period
  and time, passes of any length, and streams, resets and refused queries without
  bound.
* `Parsers`: a sensor's rank, a mount's length or a pid's successor matters
  between two or three lines; the families have such lines in every order and
  one line of noise each. Two frames are what rates are made of. The
  theorems cover frames of any length.
* `History`: four samples can fill a ring of three, overwrite one, leave a gap
  of every length up to three rings and come before and after a tier is shed;
  the theorems hold for any cascade and any number of samples. `Start` is large
  enough that no ring reaches below zero, as with real seconds.
* `HistoryStore`: no bound on the behaviour; the limits are met by one shedding,
  by two, by none at all and without any. The second kind of sample shifts the
  position of a sensor, which creates and orphans series.
* `EventStream`: with one slot everywhere every send finds its buffer full and
  every pause makes a lag; three events are what a viewer needs to lag and be
  sent another. Six bytes are less than a chunk with its frame.
* `Viewer`: two servers make the switch between servers; a third is no new case.
  No bound on the number of switches, crashes or edits.

Deadlock is not checked for `WatchHost` because a watch that is dropped stops,
for `History`, where nothing obliges a host to send, for `Sampling` and
`EventStream`, which stop at their bounds or at the end of a loop, and for
`Parsers`, which builds an input and stops.

### What the violations mean

* `two_starts`: `Supervisor::start` stops under one lock and inserts under
  another (`supervisor.rs:100` and `:137`). Two requests that restart the same
  host can both stop, both spawn, and both insert; the second insert drops the
  first `JoinHandle`, which detaches the task. It samples until the process
  ends. The server runs commands concurrently; the desktop's `use_endpoint` is
  asynchronous beside its synchronous commands.
* `fleets_mix`: the shell replaces the reader only after core's `use_endpoint`
  has returned, and core clears the history before it writes the file. A sample
  the old reader delivers in between is recorded and stays. Two fleets with a
  host of the same name then share a chart, which is what the clearing is for.
* `burst`: `pump` measures the time between two frames when it parses them. The
  frames that queue up while the network stalls come out of one read, moments
  apart, and each but the first reports an interval's bytes over no time at all:
  the spike the comment at `sampler.rs:635` says is avoided. `win_pump` does the
  same.

* `cry_wolf`: `closing_fault` says nothing of a connection that delivered
  readings, because its reconnect is the whole story (`fleet.rs:58`; its test,
  `:199`, calls the alternative crying wolf). But both pumps send a fault at the
  end of every stream, whatever it delivered (`transport.rs:434`), and the loop
  forwards it before it comes to `closing_fault`; a host whose `ssh` is recycled
  is a fault on the card until the next reading. The outages recorded in
  `docs/evidence/host-isolation.md` look like that. The channel never ends under
  the loop (`NeverUntold`, proved), so neither the silence nor the generic fault
  is ever reached; only a pump that panics, which is not modelled, would leave
  `closing_fault` something to say. `TellsTheCard` allows for one fault after
  readings, and `EmptyEndsAreExplained` asks for a reason only where nothing was
  delivered.

### Disagreements without a run

These came up in the models too; each is a place where the code and what is said
about it differ, or where a step has an effect nobody would expect. No run is
spent on them.

* `remove_host` aborts, then forgets (`service.rs:325`). A task that a worker is
  polling at that moment still records; `latest`, `cgroups` or the history then
  keep a host that no file lists, against the test at `supervisor.rs:437`.
  `RecordProcs` and `RecordSample` of a task in `dying` are that step, `tardy` is
  its mark, and `RemovedHostIsForgotten` allows for it and for nothing else.
* `set_host_interval` and its siblings (`service.rs:418`) save the whole file
  they loaded, settings included, where `Config::save` re-reads it
  (`config.rs:69`): with two requests in flight one may write the other's
  setting back, against the test at `config.rs:109`. The read and the write are
  separate steps of `Fleet`.
* The refusal in remote mode and the write it guards are two reads of the file
  (`service.rs:281`); a switch in between lets the edit through.
* The raw tier closes a bucket on every sample (`history.rs:140`), against
  `docs/specs/history-plane.md:109`, and a ring knows its newest time and its
  positions, nothing else. Each sample beyond the first of a second moves every
  earlier point one second into the past. The interval may be as short as
  250 ms. The properties of `History` therefore speak of the raw tier only as
  long as no second has had two samples (`Trusted`); the coarser tiers are right
  regardless.
* If no tier reaches back to the start of a window, `query` takes the last one
  (`history.rs:310`), whose first bucket takes five minutes to close; a chart of
  a host added a minute ago is empty (compare the test at `history.rs:520`).
* Two sensors of one driver with the same label feed one series
  (`history_store.rs:217`); position tells apart only those without a label
  (`:109`).
* The settings form is read from one machine and saved to another: in remote mode
  `get_settings` is answered by the server while `set_settings` goes to the local
  file (`main.rs:231`, `:238`), and every save path of the window sends all fields
  back (`app.js:3082`, `:3246`, `:3885`). Where the two fleets' settings differ the
  whole save is refused, the window's own half with it, against `service.rs:347`
  and the comment at `:371`. And a form read from a server and saved after the
  switch back to the own fleet writes the server's interval and limit into the own
  file, which nothing refuses. A model of this would be those two calls and show
  nothing a reader of them does not see, so none is kept.
* A metric frame without CPU rows is pushed into the `RateTracker` before `pump`
  looks for the rows (`transport.rs:354`); the frame after it is measured from
  counters of zero.
* On Windows a frame is a measurement when it has processor rows
  (`transport.rs:565`), but each class is a query of its own whose failure is
  silent (`windows.rs:164`). A frame with rows and without the network's or the
  disk's becomes the previous sample with sums of zero, and the next one reports
  everything since boot as moved in one interval. `RatesAreTrue` says nothing of a
  connection's bytes once it measured such a frame, of either kind of host
  (`holes`); without that condition the run finds both.
* `parse_net_dev` says virtual bridges are skipped (`sampler.rs:489`), and looks
  for `br-` and `virbr`: `br0`, `vmbr0`, `cni0`, taps and bonds are added to the
  links behind them. `is_whole_disk` takes a digit at the end for a partition
  (`:579`), so `rbd0`, `nbd0` and `pmem0` are never counted. `DevicesCountedOnce`
  says what is counted, name by name.
* `proc_emit` calls `window_ms` how far apart the iterations put the two snapshots
  (`procs.rs:361`); it is the number of iterations times the interval, and the
  passes between them come on top. Nothing reads it: the ranking is divided by the
  jiffies that passed. `WindowIsAFloor` is about these.
* `core_pcts` pairs the cores of two frames by position; when one goes offline
  those after it are compared with another's counters. `PercentagesAddUp` holds
  all the same: each stays a percentage.
* `RestartTracker` says it re-baselines a counter that went back
  (`procs.rs:63`), and keeps the old baseline: restarts up to it are not shown.
* The first restart of a unit that is first reported with a count of one is its
  baseline and never shown: a unit with no restart is not reported at all.
* A `hosts-changed` notice is sent with `try_send` and skipped by a viewer that
  lags (`service.rs:294`, `api.rs:82`); it is not repeated. The next sample is,
  which is why `CatchesUp` is stated of the newest event.

## 4. Fairness

* `Fleet`: weak fairness of every command in progress (`Continue`) and of the
  runtime dropping an aborted task (`Die`): a synchronous command runs to its
  end, and an aborted task is dropped after the poll it is in. No client has to
  issue a command, no host has to answer, the program need not die.
* `WatchHost`: weak fairness of each task (the runtime polls what is ready), of
  a killed child ending, of the consumer taking what it was sent, and of a live
  child writing; a child that stays silent is ended by `ServerAliveInterval` (15
  seconds). Strong fairness of reading a frame that holds readings: a remote
  loop prints one every interval, so a live connection does not send empty or
  half frames for ever. `Recovers` further assumes that from some point on the
  link holds and the consumer stays.
* `EventStream`: weak fairness of the feed task, of the server's send, lag,
  keep-alive and accept, and of the viewer's connect and reads. Nothing is
  assumed of `Sample` and `Notice`, of breaks, or of how much a read returns;
  the viewer's own fairness is void once it `Stalls`. `SamplersGoOn` then rests
  on `Feed` alone.
* `Viewer`: weak fairness of a command in progress, of the reader's task with
  its timers, and of dropping aborted tasks. Servers and users do as they like.
  `ComesBack` assumes that the server stays up from some point on and that the
  reader is not waiting on a connection that died without a word, a state only a
  switch or a relaunch ends.
* `History`, `HistoryStore`, `Sampling` and `Parsers` state no liveness and
  assume no fairness.

## 5. Proofs

* `OneWindow_proofs`, first part: `TypeCorrect` and `HandsOverCorrect` of
  `Fleet`, for any number of hosts, clients and files (nothing here uses
  `OneClient`). The two are one inductive invariant: what a start
  writes into `meters` and `tasks` is well typed because the host is listed in
  the caller's file, and that in turn rests on which commands reach which
  stages. Assumptions: the bounds are ordered and are themselves admissible
  values, and `None` is no value of any other kind.
* `OneWindow_proofs`, second part: for one window, with or without crashes,
  `SamplersMatchFileCorrect`, `NoStraySamplerCorrect`, `MeterTellsTheTruthCorrect`,
  `RemovedHostIsForgottenCorrect`, `CapIsAppliedCorrect` and
  `HistoryOutlivesEditsCorrect`. None of them is inductive: in the middle of a
  command the samplers match neither the old file nor the new one. `OneInv` says
  what holds instead, stage by stage: a command that may still be refused has
  drafted a file that differs from the one on disk only where its hosts are
  concerned (`Drafted`); one that has passed the check has every host it is *done
  with* sampled as the file it aims at asks (`Followed`) and metered accordingly
  (`Metered`); nothing is started where something still runs (`Stopped`); there is
  a limit before anything samples (`Capped`). What is recorded of a host needs an
  invariant of its own (`Kept`): outside the end of `remove_host` it is recorded
  of hosts that are listed or by tasks that were being aborted. It rests on `TypeCorrect`, and on
  `OneClient`: with two clients `NoStraySampler` is false (run `two_starts`).
* `OneWindow_proofs`, last part: `ContractImplemented`, the command plane
  implements `FleetContract`, whether or not the program may die. The mapping lets
  a command take effect when `save_file` opens the file, since a crash before that
  leaves the old file and a crash after it the new one or an empty one; a host
  still to be restarted counts as restarted then, and one that `use_endpoint` has
  stopped before it counts as running. That needs three facts more, inductive
  together with `OneInv` (`Faithful`): what the command holds in memory is, until
  the file is opened, the very edit its first step meant to the file on disk
  (`Intended`, with `HostCommandsMean` and `SettingsMean` for what the clamps let
  through); the fleet is untouched until then but by `use_endpoint` (`Untouched`);
  and a file open for writing is empty (`Emptied`). With two clients `Intended` is
  false (section 3, the disagreement about `service.rs:418`).
* `WatchHost_proofs`: `TellsTheCardCorrect` (the loop implements
  `WatchContract`), `OneProcessCorrect`, `EmptyEndsAreExplainedCorrect` and
  `NeverUntold`. The invariant (`Inv`) says, phase by phase, how `got_data`,
  `reported` and the item in hand relate to what the card was told. Nothing about
  the channels' contents is needed for the first two beyond the one item the
  loop takes from `tx`. The last two need the pump: it holds a fault when it is
  about to send its last word, and once it has let go of `tx` while the loop still
  receives, a fault is in `tx` (`Speaks`); taking a sample from the front leaves
  it there (`FaultStays`). So the loop leaves a connection only with a fault in
  hand (`Explained`), for channels of any size.
* `History_proofs`: `HistoryTypeCorrect`, `PointsAreTrueCorrect` and
  `NothingLostCorrect`, for any number of tiers, any intervals and lengths and
  any stretch of time, and `SpikesSurviveCorrect`. The invariant (`TierHolds`) says of a ring that it holds
  exactly the samples of each bucket it reaches back to, beside the bucket that
  is open; it is preserved by `Flush` (`FlushHolds`) and by `FillGap`
  (`FillGapHolds`), which both rest on one fact of arithmetic about a ring that
  has turned by some buckets (`RingTurns`). `SpikesSurviveCorrect` needs less of the
  rings, only that they hold nothing that was not recorded (`AllRecorded`), and
  more of the query: what one pass over a ring keeps, in which order
  (`KeepsAll`), and that chunks of equal length have every point in one of them
  and are no more than asked for (`Chunks`).
* `HistoryStore_proofs`: `StoreTypeCorrect`, `DegradesUniformlyCorrect` and
  `ShedsOnlyWhenOverCorrect`, for any hosts, samples, rings and limits. The key lemma (`EnforcedGives`) is that enforcing is some
  number of sheddings of every series alike, and no shedding when the limit is
  met; for these three what a series weighs is not opened. `OverIsRecentCorrect`
  does open it: the bytes of a store are a sum over its series, and a sum over a
  finite set exists, takes one element out and grows with the set (`SumsExist`,
  `SumTakesOut`, `SumOfSubset`). `OldFit` is then inductive: the series that were
  there when the limit was last enforced fit into it or are as coarse as they
  get, and shedding or recording changes neither.
* `Sampling_proofs`: `WindowIsAFloorCorrect`, `ExtrasKeepTheirPaceCorrect`
  and `NoLoopRunsForeverCorrect`, for every interval, every choice of the periods,
  passes of any length and any length of time. The invariant counts: what is done
  every *m* iterations was last done at least as many intervals ago as the
  iteration counter's remainder by *m* says, and at most so many intervals and
  passes (`Behind`, `Within`, `Ago`), which is preserved because the remainder goes up by one
  or back to zero (`ModStep`, from the uniqueness of quotients). `ProcSchedule`
  and `EverySchedule` are the facts about the divisions themselves: the window is
  never nothing and never the whole cycle; the extras are never an interval early.
  For the watchdog the invariant is how far past the cap, or past the end of the
  session, the loop can be at each place it can be at (`Ahead`).
  `EveryFrameWholeCorrect` and `RatesAreTrueCorrect` are about the other half of
  the module, the stream. Neither property is inductive, since what a read takes
  was written several iterations before. The invariant (`Stream`) looks at what
  is in flight: the lines the pump has not cut yet followed by those it has not
  read. Cut together they are whole frames and nothing besides (`InFlight`), and
  each counter goes on through them: of the pump's last reading, the frames in
  order and what the host has now, none is ahead of a later one in what the
  counter would be without resets, nor in what its resets took from it
  (`Flowing`, `Before`, `Ord`). So the difference of two readings is never more
  than what the host moved between them, whichever frames come in one read.
  Where the reads end does not matter because cutting a part, keeping its rest
  and cutting that with what follows cuts the whole (`CutsJoin`), by induction on
  the lines appended. A measured frame without byte counters is taken for a
  reading of zero; the invariant, like the property, then says nothing more of the
  interface's bytes (`holes`) and goes on holding of the other two counters. The only
  assumption beyond those on the periods is that `None` is no reading.
* `Viewer_proofs`: `ViewerTypeCorrect`, `OneDataPlaneCorrect` and
  `ChromeIsTrueCorrect`, for any servers. In the middle of a switch neither the plane nor the name is right;
  `AtStage` says step by step which half already is. Assumptions: an endpoint
  that does not parse is no server, and a task is not the absence of one.

* `EventStream_proofs`: `CutsDoNotMatterCorrect`, `InOrderOnceCorrect` and
  `NothingLostBetweenCorrect`, for every size of the channel, the ring, the
  connection and its reads, and any number of events and breaks. `dechunk`,
  `split_sse_frames` and `decode_event` recur on what is left of the bytes. That
  such a function exists is `RecursionExists`; how it goes on when more bytes
  arrive is proved by induction on the length of what is already there
  (`DechunkJoin`, `SplitJoin`, `OutcomesJoin`): decoding a first part, keeping
  its remains, and decoding those with the rest gives what the whole gives. From
  the three follows what one read of any number of bytes does, and with it
  `CutsHold`. The invariant for the other two (`WindowInv`) is about bytes not
  read yet: what was delivered, followed by what everything under way *will*
  decode to, is in order, was broadcast and, without a lag, is everything since
  the subscriber came (`Served`, `ToldInv`); after a garbled chunk the pending
  bytes decode to what came before it and to nothing more (`GarbledDead`). That
  only whole chunks, or a garbled one at the very end, are pending is itself
  part of it, and so is what a head cut anywhere leaves (`HeadInv`).
* `Parsers_proofs`: `NoiseCostsNothingCorrect`, `ReadingsKeepTheirDeviceCorrect`,
  `PercentagesAddUpCorrect`, `RowsKeepTheirOwnCorrect`, `RankingIsTrueCorrect` and
  `DevicesCountedOnceCorrect`, for lines of any kind, frames of any length and
  any `TopN`. The steps of `Parsers` only build inputs, so the invariant is that
  the frames are made of the plane's lines, and the work is in the operators. Every
  list a parser makes is `Those(s, S)`, the elements of `s` that are in `S`:
  `ThoseAre` says which these are, `ThoseOfThose` that selecting twice is
  selecting once. With that a frame without its noise is read like the frame,
  selection by selection (`...TheSame`). What is hottest, fullest or of the best
  rank is what `Left` leaves: if staying means being no worse, and being no worse
  is transitive, the last one left is no worse than anyone (`LeftIs`); for the
  fullest that is the transitivity of fractions (`FractionsTransitive`). Sorted
  rows and the n busiest are told by rank, the number of those ahead: in a finite
  set with a strict order each rank is reached by exactly one element
  (`RanksReach`), so the sort is a permutation in order (`SortedIs`) and a process
  that is left out has n ahead of it (`FirstOnes`). The list of filesystems is a
  fold whose invariant (`Good`) is the property itself, line by line
  (`ListHolds`). What a host has moved is a sum over the lines that were kept; that
  it is the sum over all lines of what each says, nothing for those that were not
  kept, is an induction over the two folds at once (`SumOfThose`), and that the
  kept ones are the whole devices goes by cases on their names (`WholeByName`).
  Assumption: `LineTypes`, which fields of a line are numbers, or `NaN`, that
  counters and sizes are not negative (`u64` in the code), and that a disk or a link
  has a name from the tables, under the kind it is there for (`NamedByTheKernel`).

How induction over data is done: the library's induction theorems take an
operator as a parameter and cannot be used by the installed provers, so the
induction is on a *set* of numbers (`NatsByInduction` and `UpTo`, from the
well-founded order of the naturals), the set of lengths for which the claim holds,
or on a set of sequences (`ByAppending`).

Only model-checked: everything under fairness (`RemoteFallsSilent`, `ShutsDown`,
`Recovers`, `SamplersGoOn`, `CatchesUp`, `ComesBack`), which the prover does not
reach.

## 6. Not modelled

* The traffic meter: three relaxed counters, added to by the pump and read by
  one command. No step depends on them, and a torn read is tolerated by design.
* The frontend's drawing, filtering and formatting. Of the state the back end
  reads, the endpoint is in `Viewer`, and what a settings form does is
  `SetSettings` of `Fleet`; that a form may be another fleet's is told above.
* The command-line tools, build scripts and repository scripts.
* Of the server: static files, argument parsing, the list of mutating routes and
  the HTTP request parser, which are pure functions of one request.
* `parse_endpoint`, `ssh_args`, and the phrases `classify_ssh_error` looks for:
  text in, text out. That each end of a connection is *some* fault is modelled.
* The Windows job object, window handling and the update check: the operating
  system's behaviour, with no state of the program in them.
* Of the host list: its order and grouping names. Of machine facts: how
  virtualisation is told from a string.
* Of the history: means (sums of floating-point numbers) and a wall clock that
  steps back: `Tier::push` then closes a bucket that is older than the newest
  one (`history.rs:119`), which redates the ring, and no test or document says
  what should happen.
