------------------------------- MODULE Fleet -------------------------------
(***************************************************************************)
(* The command plane of tuxtop: Service (service.rs), the hosts.toml file  *)
(* it reads and writes (config.rs), and the Supervisor that owns one       *)
(* sampling task per host (supervisor.rs).                                 *)
(*                                                                         *)
(* A command is not atomic in the code.  It loads the file, checks the     *)
(* refusal, writes the file and then drives the supervisor one lock at a   *)
(* time, and nothing holds a lock across those steps.  Here each of them   *)
(* is an action of the client that runs the command, so commands of        *)
(* different clients interleave exactly where the code lets them.          *)
(*                                                                         *)
(* Abstracted: the order of the host list, addresses and ports, error      *)
(* texts, the HostsChanged / SettingsChanged notices, and the contents of  *)
(* samples (only whose they are).                                          *)
(*                                                                         *)
(* A definition marked FAULT is not part of the model: it is the definition *)
(* right after it with a plausible bug, and a property of some run breaks   *)
(* when it takes that definition's place.                                  *)
(***************************************************************************)
EXTENDS Naturals, FiniteSets

CONSTANTS
  Hosts,          \* host names
  Clients,        \* threads that run commands: one window, or HTTP requests
  Offered,        \* Offered[c]: the commands client c issues
  Servers,        \* endpoints a viewer can be pointed at
  Groups,         \* group labels
  OSes,           \* values of HostConfig.os
  Rates,          \* intervals a file or a request may name
  MinRate,        \* MIN_INTERVAL_MS
  MaxRate,        \* MAX_INTERVAL_MS
  DefaultRate,    \* default_interval_ms()
  Caps,           \* history limits a file or a request may name
  MinCap,         \* MIN_CAP_MB
  MaxCap,         \* MAX_CAP_MB
  DefaultCap,     \* default_history_mb()
  Endpoints,      \* names of saved endpoints
  Prefs,          \* always_on_top and update_check, as one value
  DefaultPrefs,
  FirstFiles,     \* what hosts.toml may hold when the program first starts
  Crashes,        \* whether the program may die and be started again
  None            \* Rust's Option::None

\* Ord::clamp.
\* FAULT: a request out of bounds is taken as it is.
Unclamped(v, lo, hi) == v
Clamp(v, lo, hi) == IF v < lo THEN lo ELSE IF v > hi THEN hi ELSE v

Commands == {"add_host", "remove_host", "reorder_hosts", "set_settings",
             "set_host_interval", "set_host_group", "set_host_os",
             "set_host_paused", "use_endpoint", "add_endpoint", "update_endpoint",
             "remove_endpoint"}

(***************************************************************************)
(* HostConfig, Settings and HostsFile, without what no property tells      *)
(* apart.  A host absent from the list maps to None: add refuses a         *)
(* duplicate name, so a list is a partial function of the name.            *)
(***************************************************************************)
HostConfig == [paused: BOOLEAN, rate: Rates \cup {None}, os: OSes,
               group: Groups \cup {None}]

HostsFile == [hosts: [Hosts -> HostConfig \cup {None}], rate: Rates,
              cap: Caps, server: Servers \cup {None},
              saved: SUBSET Endpoints, prefs: Prefs]

\* A sampling task: the command it runs remotely and how often it reports.
Sampler == [os: OSes, rate: MinRate..MaxRate]

\* HostsFile::default(), which is also how an empty file reads.
BlankFile == [hosts |-> [h \in Hosts |-> None], rate |-> DefaultRate,
              cap |-> DefaultCap, server |-> None, saved |-> {},
              prefs |-> DefaultPrefs]

ASSUME RateBounds ==
  /\ Rates \subseteq Nat /\ {MinRate, MaxRate, DefaultRate} \subseteq Rates
  /\ MinRate <= MaxRate
ASSUME CapBounds ==
  /\ Caps \subseteq Nat /\ {MinCap, MaxCap, DefaultCap} \subseteq Caps
  /\ MinCap <= MaxCap
ASSUME NoneIsNoValue ==
  /\ None \notin Hosts \cup Servers \cup Groups \cup Rates \cup Caps
  /\ None \notin Commands \cup {"start_all"}
  /\ None \notin HostConfig /\ None \notin Sampler
ASSUME Environment ==
  /\ Clients # {} /\ Offered \in [Clients -> SUBSET Commands]
  /\ FirstFiles \subseteq HostsFile /\ FirstFiles # {}
  /\ DefaultPrefs \in Prefs /\ Crashes \in BOOLEAN

VARIABLES
  disk,       \* the contents of hosts.toml
  tasks,      \* Supervisor.tasks: the sampler each registered handle runs
  detached,   \* <<host, sampler>> of tasks whose handle was dropped unaborted
  dying,      \* hosts with an aborted task still inside the poll it was in
  meters,     \* Supervisor.intervals
  counters,   \* hosts with a TrafficCounter: Supervisor.traffic
  procs,      \* hosts with an entry in latest, cgroups or restarts
  history,    \* hosts with local samples in the HistoryStore
  tardy,      \* hosts an aborted task has recorded since they were last forgotten;
              \* history, that only properties read
  cap,        \* the HistoryStore's cap
  pc,         \* where each client is in its command
  op,         \* the command it runs
  file,       \* the HostsFile it has in memory
  todo,       \* hosts it has still to hand to Supervisor::start
  cur         \* the host it is starting, stopping or forgetting

store == <<procs, history, tardy>>
supervisor == <<tasks, detached, dying, meters, counters>>
client == <<pc, op, file, todo, cur>>
vars == <<disk, supervisor, store, cap, client>>

Stages == {"idle", "load", "refuse", "reload", "stopAll", "clear", "truncate",
           "write", "settings", "cap", "start", "meter", "register", "stop",
           "forget", "drop"}

TypeOK ==
  /\ disk \in HostsFile
  /\ tasks \in [Hosts -> Sampler \cup {None}]
  /\ detached \subseteq Hosts \X Sampler
  /\ dying \subseteq Hosts
  /\ meters \in [Hosts -> (MinRate..MaxRate) \cup {None}]
  /\ counters \subseteq Hosts
  /\ procs \subseteq Hosts
  /\ history \subseteq Hosts /\ tardy \subseteq Hosts
  /\ cap \in Caps \cup {None}
  /\ pc \in [Clients -> Stages]
  /\ op \in [Clients -> Commands \cup {"start_all", None}]
  /\ file \in [Clients -> HostsFile]
  /\ todo \in [Clients -> SUBSET Hosts]
  /\ cur \in [Clients -> Hosts \cup {None}]

(***************************************************************************)
(* effective_interval_ms: a host's override wins over the global rate.     *)
(***************************************************************************)
EffectiveRate(f, h) ==
  Clamp(IF f.hosts[h].rate = None THEN f.rate ELSE f.hosts[h].rate,
        MinRate, MaxRate)

SamplerFor(f, h) == [os |-> f.hosts[h].os, rate |-> EffectiveRate(f, h)]

Listed(f) == {h \in Hosts : f.hosts[h] # None}

\* What Supervisor.intervals says of a host it has been asked to start.
\* FAULT: the interval of a paused host is kept.
MeterForPausedToo(f, h) == EffectiveRate(f, h)
MeterFor(f, h) == IF f.hosts[h].paused THEN None ELSE EffectiveRate(f, h)

\* start_all leaves the fleet alone when a server is named.
\* FAULT: it does not ask.
StartedEvenIfRemote(f) == Listed(f)
StartedAtLaunch(f) == IF f.server = None THEN Listed(f) ELSE {}

\* set_settings restarts the hosts whose effective interval changes.
Restarted(f, before) ==
  {h \in Listed(f) : EffectiveRate(f, h) # EffectiveRate(before, h)}

\* Every live task of host h: registered, spawned but not yet registered,
\* detached, or aborted and not yet dropped by the runtime.
Sampling(h) ==
  \/ tasks[h] # None \/ h \in dying
  \/ \E s \in Sampler : <<h, s>> \in detached
  \/ \E c \in Clients : pc[c] = "register" /\ cur[c] = h

-----------------------------------------------------------------------------
Init ==
  /\ disk \in FirstFiles
  /\ tasks = [h \in Hosts |-> None]
  /\ detached = {} /\ dying = {}
  /\ meters = [h \in Hosts |-> None]
  /\ counters = {} /\ procs = {} /\ history = {} /\ tardy = {} /\ cap = None
  /\ \E c \in Clients :
       /\ pc = [d \in Clients |-> IF d = c THEN "load" ELSE "idle"]
       /\ op = [d \in Clients |-> IF d = c THEN "start_all" ELSE None]
  /\ file = [c \in Clients |-> BlankFile]
  /\ todo = [c \in Clients |-> {}]
  /\ cur = [c \in Clients |-> None]

(***************************************************************************)
(* The first step of a command: read the file, check what can be refused   *)
(* without asking anyone, edit the copy in memory.  No command arrives     *)
(* before start_all has returned.                                          *)
(***************************************************************************)
Ready(c, o) ==
  /\ pc[c] = "idle" /\ o \in Offered[c]
  /\ \A d \in Clients : op[d] # "start_all"

Begin(c, o, f, stage, hosts, h) ==
  /\ pc' = [pc EXCEPT ![c] = stage]
  /\ op' = [op EXCEPT ![c] = o]
  /\ file' = [file EXCEPT ![c] = f]
  /\ todo' = [todo EXCEPT ![c] = hosts]
  /\ cur' = [cur EXCEPT ![c] = h]
  /\ UNCHANGED <<disk, supervisor, store, cap>>

\* Commands that edit one listed host and then hand it to Supervisor::start.
Edited(h, cfg) == [disk EXCEPT !.hosts[h] = cfg]

AddHost(c, h, cfg) ==
  /\ Ready(c, "add_host") /\ disk.hosts[h] = None
  /\ Begin(c, "add_host", Edited(h, cfg), "refuse", {h}, None)

RemoveHost(c, h) ==
  /\ Ready(c, "remove_host")
  /\ Begin(c, "remove_host", Edited(h, None), "refuse", {}, h)

ReorderHosts(c) ==
  /\ Ready(c, "reorder_hosts")
  /\ Begin(c, "reorder_hosts", disk, "refuse", {}, None)

SetHostInterval(c, h, r) ==
  /\ Ready(c, "set_host_interval") /\ disk.hosts[h] # None
  /\ LET rate == IF r = None THEN None ELSE Clamp(r, MinRate, MaxRate)
     IN Begin(c, "set_host_interval",
              Edited(h, [disk.hosts[h] EXCEPT !.rate = rate]), "refuse", {h}, None)

SetHostGroup(c, h, g) ==
  /\ Ready(c, "set_host_group") /\ disk.hosts[h] # None
  /\ Begin(c, "set_host_group",
           Edited(h, [disk.hosts[h] EXCEPT !.group = g]), "refuse", {}, None)

SetHostOs(c, h, os) ==
  /\ Ready(c, "set_host_os") /\ disk.hosts[h] # None
  /\ Begin(c, "set_host_os",
           Edited(h, [disk.hosts[h] EXCEPT !.os = os]), "refuse", {h}, None)

SetHostPaused(c, h, p) ==
  /\ Ready(c, "set_host_paused") /\ disk.hosts[h] # None
  /\ Begin(c, "set_host_paused",
           Edited(h, [disk.hosts[h] EXCEPT !.paused = p]), "refuse", {h}, None)

\* The fleet half is refused in remote mode, and only when it changes; the
\* server always comes from disk.
SetSettings(c, r, m, p) ==
  LET rate == Clamp(r, MinRate, MaxRate)
      limit == Clamp(m, MinCap, MaxCap)
      f == [disk EXCEPT !.rate = rate, !.cap = limit, !.prefs = p]
      same == rate = disk.rate /\ limit = disk.cap
  IN /\ Ready(c, "set_settings")
     /\ Begin(c, "set_settings", f, IF same THEN "truncate" ELSE "refuse",
              Restarted(f, disk), None)

\* A refused address never gets here; choosing the current endpoint again
\* returns at once.
UseEndpoint(c, s) ==
  /\ Ready(c, "use_endpoint") /\ disk.server # s
  /\ LET f == [disk EXCEPT !.server = s]
     IN Begin(c, "use_endpoint", f, "stopAll",
              IF s = None THEN Listed(f) ELSE {}, None)

\* Saved endpoints are this machine's notes: none of the three is refused in
\* remote mode.  A rename onto a name another entry holds is an error.
AddEndpoint(c, e) ==
  /\ Ready(c, "add_endpoint") /\ e \notin disk.saved
  /\ Begin(c, "add_endpoint", [disk EXCEPT !.saved = @ \cup {e}], "truncate", {}, None)

UpdateEndpoint(c, e, name) ==
  /\ Ready(c, "update_endpoint")
  /\ e \in disk.saved /\ name \notin disk.saved \ {e}
  /\ Begin(c, "update_endpoint", [disk EXCEPT !.saved = (@ \ {e}) \cup {name}],
           "truncate", {}, None)

RemoveEndpoint(c, e) ==
  /\ Ready(c, "remove_endpoint") /\ e \in disk.saved
  /\ Begin(c, "remove_endpoint", [disk EXCEPT !.saved = @ \ {e}], "truncate", {}, None)

-----------------------------------------------------------------------------
(***************************************************************************)
(* The later steps.  Go(c, stage) moves client c on.                       *)
(***************************************************************************)
Go(c, stage) == pc' = [pc EXCEPT ![c] = stage]

Return(c) ==
  /\ Go(c, "idle")
  /\ op' = [op EXCEPT ![c] = None]
  /\ file' = [file EXCEPT ![c] = BlankFile]
  /\ todo' = [todo EXCEPT ![c] = {}]
  /\ cur' = [cur EXCEPT ![c] = None]

\* start_all reads the file; it starts the fleet only if no server is named.
StartAll(c) ==
  /\ pc[c] = "load"
  /\ file' = [file EXCEPT ![c] = disk]
  /\ todo' = [todo EXCEPT ![c] = StartedAtLaunch(disk)]
  /\ Go(c, "cap")
  /\ UNCHANGED <<disk, supervisor, store, cap, op, cur>>

\* refuse_if_remote reads the file again.  Commands that save only the host
\* list go through Config::save, the others through save_file.
SavesHostList == {"add_host", "remove_host", "reorder_hosts"}

Refused(c) == disk.server # None

RefuseIfRemote(c) ==
  /\ pc[c] = "refuse"
  /\ IF Refused(c)
     THEN Return(c)
     ELSE /\ Go(c, IF op[c] \in SavesHostList THEN "reload" ELSE "truncate")
          /\ UNCHANGED <<op, file, todo, cur>>
  /\ UNCHANGED <<disk, supervisor, store, cap>>

\* Config::save re-reads the file and replaces the hosts in it.
\* FAULT: it writes the hosts alone.
ReloadHostsAlone(c) ==
  /\ pc[c] = "reload"
  /\ file' = [file EXCEPT ![c] = [BlankFile EXCEPT !.hosts = file[c].hosts]]
  /\ Go(c, "truncate")
  /\ UNCHANGED <<disk, supervisor, store, cap, op, todo, cur>>
Reload(c) ==
  /\ pc[c] = "reload"
  /\ file' = [file EXCEPT ![c] = [disk EXCEPT !.hosts = file[c].hosts]]
  /\ Go(c, "truncate")
  /\ UNCHANGED <<disk, supervisor, store, cap, op, todo, cur>>

\* std::fs::write opens with truncation, then writes.
Truncate(c) ==
  /\ pc[c] = "truncate"
  /\ disk' = BlankFile
  /\ Go(c, "write")
  /\ UNCHANGED <<supervisor, store, cap, op, file, todo, cur>>

\* What a command does once the file is written.
\* FAULT: remove_host only forgets the history.
AfterWriteNoStop(o) ==
  CASE o = "add_host" -> "settings"
    [] o = "remove_host" -> "drop"
    [] o = "set_settings" -> "cap"
    [] OTHER -> "start"
\* FAULT: set_settings does not apply the limit.
AfterWriteNoCap(o) ==
  CASE o = "add_host" -> "settings"
    [] o = "remove_host" -> "stop"
    [] OTHER -> "start"
AfterWrite(o) ==
  CASE o = "add_host" -> "settings"
    [] o = "remove_host" -> "stop"
    [] o = "set_settings" -> "cap"
    [] OTHER -> "start"

Write(c) ==
  /\ pc[c] = "write"
  /\ disk' = file[c]
  /\ Go(c, AfterWrite(op[c]))
  /\ UNCHANGED <<supervisor, store, cap, op, file, todo, cur>>

\* add_host reads the settings again before it computes the interval.
ReadSettings(c) ==
  /\ pc[c] = "settings"
  /\ file' = [file EXCEPT ![c].rate = disk.rate]
  /\ Go(c, "start")
  /\ UNCHANGED <<disk, supervisor, store, cap, op, todo, cur>>

SetCap(c) ==
  /\ pc[c] = "cap"
  /\ cap' = file[c].cap
  /\ Go(c, "start")
  /\ UNCHANGED <<disk, supervisor, store, op, file, todo, cur>>

(***************************************************************************)
(* Supervisor.  abort() is a request: a task that another worker thread is *)
(* polling finishes that poll first, so its host may stay in dying.        *)
(***************************************************************************)
\* FAULT: the handle is looked up but not aborted.
AbortNothing(hosts) == UNCHANGED <<tasks, dying>>
Abort(hosts) ==
  /\ tasks' = [h \in Hosts |-> IF h \in hosts THEN None ELSE tasks[h]]
  /\ \E late \in SUBSET {h \in hosts : tasks[h] # None} : dying' = dying \cup late

StopAll(c) ==
  /\ pc[c] = "stopAll"
  /\ Abort(Hosts)
  /\ Go(c, "clear")
  /\ UNCHANGED <<disk, detached, meters, counters, store, cap, op, file, todo, cur>>

ClearHistory(c) ==
  /\ pc[c] = "clear"
  /\ history' = {}
  /\ Go(c, "truncate")
  /\ UNCHANGED <<disk, supervisor, procs, tardy, cap, op, file, todo, cur>>

\* Supervisor::start, first lock: stop the previous task of the next host.
StartStops(c, h) ==
  /\ pc[c] = "start" /\ h \in todo[c]
  /\ Abort({h})
  /\ todo' = [todo EXCEPT ![c] = @ \ {h}]
  /\ cur' = [cur EXCEPT ![c] = h]
  /\ Go(c, "meter")
  /\ UNCHANGED <<disk, detached, meters, counters, store, cap, op, file>>

\* ... a paused host goes no further; otherwise the meter, then the spawn.
\* FAULT: a paused host is forgotten.
StartForgetsPaused(c) ==
  /\ pc[c] = "meter"
  /\ meters' = [meters EXCEPT ![cur[c]] = MeterFor(file[c], cur[c])]
  /\ IF file[c].hosts[cur[c]].paused
     THEN /\ Go(c, "start") /\ cur' = [cur EXCEPT ![c] = None]
          /\ history' = history \ {cur[c]} /\ UNCHANGED counters
     ELSE /\ Go(c, "register") /\ counters' = counters \cup {cur[c]}
          /\ UNCHANGED <<cur, history>>
  /\ UNCHANGED <<disk, tasks, detached, dying, procs, tardy, cap, op, file, todo>>
StartSpawns(c) ==
  /\ pc[c] = "meter"
  /\ meters' = [meters EXCEPT ![cur[c]] = MeterFor(file[c], cur[c])]
  /\ IF file[c].hosts[cur[c]].paused
     THEN /\ Go(c, "start") /\ cur' = [cur EXCEPT ![c] = None]
          /\ UNCHANGED counters
     ELSE /\ Go(c, "register") /\ counters' = counters \cup {cur[c]}
          /\ UNCHANGED cur
  /\ UNCHANGED <<disk, tasks, detached, dying, store, cap, op, file, todo>>

\* ... and last the insert: a handle it overwrites is dropped, not aborted.
StartRegisters(c) ==
  /\ pc[c] = "register"
  /\ LET h == cur[c]
     IN /\ tasks' = [tasks EXCEPT ![h] = SamplerFor(file[c], h)]
        /\ detached' = IF tasks[h] = None THEN detached
                       ELSE detached \cup {<<h, tasks[h]>>}
  /\ Go(c, "start") /\ cur' = [cur EXCEPT ![c] = None]
  /\ UNCHANGED <<disk, dying, meters, counters, store, cap, op, file, todo>>

\* The command returns once nothing is left to start.
Finish(c) ==
  /\ pc[c] = "start" /\ todo[c] = {}
  /\ Return(c)
  /\ UNCHANGED <<disk, supervisor, store, cap>>

\* remove_host: stop, forget, forget_host.
RemoveStops(c) ==
  /\ pc[c] = "stop"
  /\ Abort({cur[c]})
  /\ Go(c, "forget")
  /\ UNCHANGED <<disk, detached, meters, counters, store, cap, op, file, todo, cur>>

Forget(c) ==
  /\ pc[c] = "forget"
  /\ counters' = counters \ {cur[c]}
  /\ meters' = [meters EXCEPT ![cur[c]] = None]
  /\ procs' = procs \ {cur[c]} /\ tardy' = tardy \ {cur[c]}
  /\ Go(c, "drop")
  /\ UNCHANGED <<disk, tasks, detached, dying, history, cap, op, file, todo, cur>>

ForgetHistory(c) ==
  /\ pc[c] = "drop"
  /\ history' = history \ {cur[c]}
  /\ Return(c)
  /\ UNCHANGED <<disk, supervisor, procs, tardy, cap>>

-----------------------------------------------------------------------------
(***************************************************************************)
(* The tasks.  watch records a sample, or a process frame, before it       *)
(* announces it.  So does one that is aborted meanwhile: nothing asks      *)
(* whether its host is still there.                                        *)
(***************************************************************************)
Marked(h) == tardy' = IF h \in dying THEN tardy \cup {h} ELSE tardy

RecordSample(h) ==
  /\ Sampling(h)
  /\ history' = history \cup {h} /\ Marked(h)
  /\ UNCHANGED <<disk, supervisor, procs, cap, client>>

RecordProcs(h) ==
  /\ Sampling(h)
  /\ procs' = procs \cup {h} /\ Marked(h)
  /\ UNCHANGED <<disk, supervisor, history, cap, client>>

\* The runtime drops the aborted task, and with it the ssh process.
Die(h) ==
  /\ h \in dying
  /\ dying' = dying \ {h}
  /\ UNCHANGED <<disk, tasks, detached, meters, counters, store, cap, client>>

\* The program dies at any point and is started again: only the file stays.
Restart ==
  /\ Crashes
  /\ tasks' = [h \in Hosts |-> None]
  /\ detached' = {} /\ dying' = {}
  /\ meters' = [h \in Hosts |-> None]
  /\ counters' = {} /\ procs' = {} /\ history' = {} /\ tardy' = {} /\ cap' = None
  /\ \E c \in Clients :
       /\ pc' = [d \in Clients |-> IF d = c THEN "load" ELSE "idle"]
       /\ op' = [d \in Clients |-> IF d = c THEN "start_all" ELSE None]
  /\ file' = [c \in Clients |-> BlankFile]
  /\ todo' = [c \in Clients |-> {}]
  /\ cur' = [c \in Clients |-> None]
  /\ UNCHANGED disk

Request(c) ==
  \/ \E h \in Hosts, cfg \in HostConfig : AddHost(c, h, cfg)
  \/ \E h \in Hosts : RemoveHost(c, h)
  \/ ReorderHosts(c)
  \/ \E r \in Rates, m \in Caps, p \in Prefs : SetSettings(c, r, m, p)
  \/ \E h \in Hosts, r \in Rates \cup {None} : SetHostInterval(c, h, r)
  \/ \E h \in Hosts, g \in Groups \cup {None} : SetHostGroup(c, h, g)
  \/ \E h \in Hosts, os \in OSes : SetHostOs(c, h, os)
  \/ \E h \in Hosts, p \in BOOLEAN : SetHostPaused(c, h, p)
  \/ \E s \in Servers \cup {None} : UseEndpoint(c, s)
  \/ \E e \in Endpoints : AddEndpoint(c, e) \/ RemoveEndpoint(c, e)
  \/ \E e, name \in Endpoints : UpdateEndpoint(c, e, name)

Continue(c) ==
  \/ StartAll(c) \/ RefuseIfRemote(c) \/ Reload(c) \/ Truncate(c) \/ Write(c)
  \/ ReadSettings(c) \/ SetCap(c) \/ StopAll(c) \/ ClearHistory(c)
  \/ \E h \in Hosts : StartStops(c, h)
  \/ StartSpawns(c) \/ StartRegisters(c) \/ Finish(c)
  \/ RemoveStops(c) \/ Forget(c) \/ ForgetHistory(c)

Next ==
  \/ \E c \in Clients : Request(c) \/ Continue(c)
  \/ \E h \in Hosts : RecordSample(h) \/ RecordProcs(h) \/ Die(h)
  \/ Restart

\* A command runs to its end and the runtime drops what was aborted; nobody
\* has to issue a command, no host has to answer, and the program may die.
Fairness ==
  /\ \A c \in Clients : WF_vars(Continue(c))
  /\ \A h \in Hosts : WF_vars(Die(h))

Spec == Init /\ [][Next]_vars /\ Fairness

-----------------------------------------------------------------------------
\* Supervisor::start, stop and forget are only ever called with a host: one
\* that the file in the caller's hand lists when it is to be watched.  The
\* loops over f.hosts in start_all, use_endpoint and set_settings, and the
\* lookups by name of the other commands, are what this rests on.
HandsOverListedHosts ==
  \A c \in Clients :
    /\ todo[c] \subseteq Listed(file[c])
    /\ pc[c] \in {"meter", "register"} => cur[c] \in Listed(file[c])
    /\ pc[c] \in {"stop", "forget", "drop"} => op[c] = "remove_host"
    /\ op[c] = "remove_host" =>
         /\ pc[c] \in {"refuse", "reload", "truncate", "write", "stop", "forget", "drop"}
         /\ cur[c] \in Hosts
=============================================================================
