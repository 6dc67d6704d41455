-------------------------- MODULE OneWindow_proofs --------------------------
(***************************************************************************)
(* What Fleet and OneWindow say, for every fleet, every file and every     *)
(* bound.                                                                  *)
(*                                                                         *)
(* The first part is about Fleet and does not use OneClient: that every    *)
(* variable keeps its type and that the supervisor is only handed hosts    *)
(* the caller's file lists, however many clients there are.  The two are   *)
(* one inductive invariant: what a start writes into the meters and the    *)
(* tasks is well typed because the host it starts is listed.               *)
(*                                                                         *)
(* The second part is about a single window: the invariants its runs       *)
(* check, and that the command plane implements FleetContract.  None of    *)
(* them is inductive alone.  OneInv adds what each stage of a command      *)
(* relies on: which hosts it has still to restart, how the file in its     *)
(* memory relates to the one on disk, and what has been stopped.           *)
(***************************************************************************)
EXTENDS OneWindow, TLAPS

Inv == TypeOK /\ HandsOverListedHosts

USE RateBounds, CapBounds, NoneIsNoValue, Environment

-----------------------------------------------------------------------------
(* What the helpers return. *)

\* Clamp lands between its bounds, on a bound or on the value itself.
LEMMA ClampBounds ==
  ASSUME NEW v \in Nat, NEW lo \in Nat, NEW hi \in Nat, lo <= hi
  PROVE  Clamp(v, lo, hi) \in lo..hi /\ Clamp(v, lo, hi) \in {v, lo, hi}
BY DEF Clamp

\* A clamped request is a value a file may hold.
LEMMA ClampedRequest ==
  /\ \A r \in Rates : Clamp(r, MinRate, MaxRate) \in Rates
  /\ \A m \in Caps : Clamp(m, MinCap, MaxCap) \in Caps
<1>1. ASSUME NEW r \in Rates PROVE Clamp(r, MinRate, MaxRate) \in Rates
  BY RateBounds DEF Clamp
<1>2. ASSUME NEW m \in Caps PROVE Clamp(m, MinCap, MaxCap) \in Caps
  BY CapBounds DEF Clamp
<1>3. QED BY <1>1, <1>2

LEMMA BlankFileType == BlankFile \in HostsFile
BY DEF BlankFile, HostsFile

\* Whatever a file says, the interval a host is sampled at is within bounds.
LEMMA EffectiveRateBounds ==
  ASSUME NEW f \in HostsFile, NEW h \in Listed(f)
  PROVE  /\ f.hosts[h] \in HostConfig
         /\ EffectiveRate(f, h) \in MinRate..MaxRate
<1>1. f.hosts[h] \in HostConfig
  BY DEF HostsFile, Listed
<1>2. f.rate \in Nat /\ (f.hosts[h].rate # None => f.hosts[h].rate \in Nat)
  BY <1>1 DEF HostsFile, HostConfig
<1>3. QED
  BY <1>1, <1>2, ClampBounds DEF EffectiveRate

LEMMA SamplerForType ==
  ASSUME NEW f \in HostsFile, NEW h \in Listed(f)
  PROVE  SamplerFor(f, h) \in Sampler
BY EffectiveRateBounds DEF SamplerFor, Sampler, HostConfig

LEMMA MeterForType ==
  ASSUME NEW f \in HostsFile, NEW h \in Listed(f)
  PROVE  MeterFor(f, h) \in (MinRate..MaxRate) \cup {None}
BY EffectiveRateBounds DEF MeterFor

LEMMA EditedType ==
  ASSUME disk \in HostsFile, NEW h \in Hosts, NEW cfg \in HostConfig \cup {None}
  PROVE  /\ Edited(h, cfg) \in HostsFile
         /\ Edited(h, cfg).hosts[h] = cfg
BY DEF Edited, HostsFile

\* Editing one field of a listed host leaves a host configuration.
LEMMA HostEditType ==
  ASSUME disk \in HostsFile, NEW h \in Hosts, disk.hosts[h] # None
  PROVE  /\ \A r \in Rates \cup {None} : [disk.hosts[h] EXCEPT !.rate = r] \in HostConfig
         /\ \A g \in Groups \cup {None} : [disk.hosts[h] EXCEPT !.group = g] \in HostConfig
         /\ \A os \in OSes : [disk.hosts[h] EXCEPT !.os = os] \in HostConfig
         /\ \A p \in BOOLEAN : [disk.hosts[h] EXCEPT !.paused = p] \in HostConfig
<1>1. disk.hosts[h] \in HostConfig
  BY DEF HostsFile
<1>2. QED BY <1>1 DEF HostConfig

-----------------------------------------------------------------------------
(* Begin, shared by every command's first step. *)
LEMMA BeginPreserves ==
  ASSUME Inv, NEW c \in Clients, NEW o \in Commands, NEW f \in HostsFile,
         NEW stage \in {"refuse", "truncate", "stopAll"},
         NEW hosts \in SUBSET Listed(f), NEW h \in Hosts \cup {None},
         o = "remove_host" => stage = "refuse" /\ h \in Hosts,
         Begin(c, o, f, stage, hosts, h)
  PROVE  Inv'
<1> USE DEF Inv, TypeOK, Begin, supervisor, store
<1>1. TypeOK'
  BY DEF Stages, Listed
<1>2. HandsOverListedHosts'
  BY DEF HandsOverListedHosts, Listed
<1>3. QED BY <1>1, <1>2

LEMMA RequestPreserves ==
  ASSUME Inv, NEW c \in Clients, Request(c)
  PROVE  Inv'
<1> USE DEF Inv, TypeOK
<1>1. ASSUME NEW h \in Hosts, NEW cfg \in HostConfig, AddHost(c, h, cfg)
      PROVE  Inv'
  <2>1. Edited(h, cfg) \in HostsFile /\ h \in Listed(Edited(h, cfg))
    BY EditedType DEF Listed
  <2>2. QED BY <1>1, <2>1, BeginPreserves, ZenonT(60) DEF AddHost, Commands
<1>2. ASSUME NEW h \in Hosts, RemoveHost(c, h) PROVE Inv'
  BY <1>2, EditedType, BeginPreserves DEF RemoveHost, Commands
<1>3. ASSUME ReorderHosts(c) PROVE Inv'
  BY <1>3, BeginPreserves DEF ReorderHosts, Commands
<1>4. ASSUME NEW r \in Rates, NEW m \in Caps, NEW p \in Prefs, SetSettings(c, r, m, p)
      PROVE  Inv'
  <2> DEFINE f == [disk EXCEPT !.rate = Clamp(r, MinRate, MaxRate),
                               !.cap = Clamp(m, MinCap, MaxCap), !.prefs = p]
             hosts == Restarted(f, disk)
  <2>1. Clamp(r, MinRate, MaxRate) \in Rates /\ Clamp(m, MinCap, MaxCap) \in Caps
    BY ClampedRequest
  <2>2. f \in HostsFile /\ hosts \in SUBSET Listed(f)
    BY <2>1 DEF HostsFile, Restarted
  <2>3. \/ Begin(c, "set_settings", f, "truncate", hosts, None)
        \/ Begin(c, "set_settings", f, "refuse", hosts, None)
    BY <1>4 DEF SetSettings
  <2>4. "set_settings" \in Commands
    BY DEF Commands
  <2> HIDE DEF f, hosts, TypeOK, Inv
  <2>5. QED BY <2>2, <2>3, <2>4, BeginPreserves
<1>5. ASSUME NEW h \in Hosts, NEW r \in Rates \cup {None}, SetHostInterval(c, h, r)
      PROVE  Inv'
  <2> DEFINE rate == IF r = None THEN None ELSE Clamp(r, MinRate, MaxRate)
             cfg == [disk.hosts[h] EXCEPT !.rate = rate]
  <2>1. rate \in Rates \cup {None}
    BY ClampedRequest
  <2>2. cfg \in HostConfig
    BY <1>5, <2>1, HostEditType DEF SetHostInterval
  <2>3. Edited(h, cfg) \in HostsFile /\ h \in Listed(Edited(h, cfg))
    BY <2>2, EditedType DEF Listed
  <2>4. Begin(c, "set_host_interval", Edited(h, cfg), "refuse", {h}, None)
    BY <1>5 DEF SetHostInterval
  <2>5. QED BY <2>3, <2>4, BeginPreserves, ZenonT(60) DEF Commands
<1>6. ASSUME NEW h \in Hosts, NEW g \in Groups \cup {None}, SetHostGroup(c, h, g)
      PROVE  Inv'
  <2> DEFINE cfg == [disk.hosts[h] EXCEPT !.group = g]
  <2>1. cfg \in HostConfig
    BY <1>6, HostEditType DEF SetHostGroup
  <2>2. Begin(c, "set_host_group", Edited(h, cfg), "refuse", {}, None)
    BY <1>6 DEF SetHostGroup
  <2>3. Edited(h, cfg) \in HostsFile
    BY <2>1, EditedType
  <2> HIDE DEF cfg
  <2>4. QED BY <2>2, <2>3, BeginPreserves, ZenonT(60) DEF Commands
<1>7. ASSUME NEW h \in Hosts, NEW os \in OSes, SetHostOs(c, h, os) PROVE Inv'
  <2> DEFINE cfg == [disk.hosts[h] EXCEPT !.os = os]
  <2>1. cfg \in HostConfig
    BY <1>7, HostEditType DEF SetHostOs
  <2>2. Edited(h, cfg) \in HostsFile /\ h \in Listed(Edited(h, cfg))
    BY <2>1, EditedType DEF Listed
  <2>3. QED BY <1>7, <2>2, BeginPreserves, ZenonT(60) DEF SetHostOs, Commands
<1>8. ASSUME NEW h \in Hosts, NEW p \in BOOLEAN, SetHostPaused(c, h, p) PROVE Inv'
  <2> DEFINE cfg == [disk.hosts[h] EXCEPT !.paused = p]
  <2>1. cfg \in HostConfig
    BY <1>8, HostEditType DEF SetHostPaused
  <2>2. Edited(h, cfg) \in HostsFile /\ h \in Listed(Edited(h, cfg))
    BY <2>1, EditedType DEF Listed
  <2>3. QED BY <1>8, <2>2, BeginPreserves DEF SetHostPaused, Commands
<1>9. ASSUME NEW s \in Servers \cup {None}, UseEndpoint(c, s) PROVE Inv'
  <2> DEFINE f == [disk EXCEPT !.server = s]
  <2>1. f \in HostsFile
    BY DEF HostsFile
  <2>2. \E hosts \in SUBSET Listed(f) :
          Begin(c, "use_endpoint", f, "stopAll", hosts, None)
    BY <1>9 DEF UseEndpoint
  <2>3. QED BY <2>1, <2>2, BeginPreserves DEF Commands
<1>10. ASSUME NEW e \in Endpoints, AddEndpoint(c, e) \/ RemoveEndpoint(c, e) PROVE Inv'
  <2>1. \A saved \in SUBSET Endpoints : [disk EXCEPT !.saved = saved] \in HostsFile
    BY DEF HostsFile
  <2>2. disk.saved \cup {e} \in SUBSET Endpoints /\ disk.saved \ {e} \in SUBSET Endpoints
    BY DEF HostsFile
  <2>3. QED BY <1>10, <2>1, <2>2, BeginPreserves DEF AddEndpoint, RemoveEndpoint, Commands
<1>11. ASSUME NEW e \in Endpoints, NEW name \in Endpoints, UpdateEndpoint(c, e, name)
       PROVE Inv'
  <2>1. [disk EXCEPT !.saved = (@ \ {e}) \cup {name}] \in HostsFile
    BY DEF HostsFile
  <2>2. QED BY <1>11, <2>1, BeginPreserves DEF UpdateEndpoint, Commands
<1>12. QED
  BY <1>1, <1>2, <1>3, <1>4, <1>5, <1>6, <1>7, <1>8, <1>9, <1>10, <1>11 DEF Request

-----------------------------------------------------------------------------
(* The later steps of a command. *)
LEMMA ReturnPreserves ==
  ASSUME Inv, NEW c \in Clients, Return(c)
  PROVE  /\ pc' \in [Clients -> Stages]
         /\ op' \in [Clients -> Commands \cup {"start_all", None}]
         /\ file' \in [Clients -> HostsFile]
         /\ todo' \in [Clients -> SUBSET Hosts]
         /\ cur' \in [Clients -> Hosts \cup {None}]
         /\ HandsOverListedHosts'
<1> USE DEF Inv, TypeOK, Return, Go
<1>1. HandsOverListedHosts'
  BY BlankFileType DEF HandsOverListedHosts, Listed, Commands
<1>2. QED BY <1>1, BlankFileType DEF Stages

LEMMA ContinuePreserves ==
  ASSUME Inv, NEW c \in Clients, Continue(c)
  PROVE  Inv'
<1> USE DEF Inv, TypeOK, Go, supervisor, store, Stages
<1>1. ASSUME StartAll(c) PROVE Inv'
  <2>1. StartedAtLaunch(disk) \subseteq Listed(disk) /\ Listed(disk) \subseteq Hosts
    BY DEF StartedAtLaunch, Listed
  <2>2. TypeOK'
    BY <1>1, <2>1 DEF StartAll
  <2>3. HandsOverListedHosts'
    BY <1>1, <2>1 DEF StartAll, HandsOverListedHosts
  <2>4. QED BY <2>2, <2>3
<1>2. ASSUME RefuseIfRemote(c) PROVE Inv'
  <2>1. CASE Refused(c)
    BY <1>2, <2>1, ReturnPreserves DEF RefuseIfRemote
  <2>2. CASE ~Refused(c)
    BY <1>2, <2>2 DEF RefuseIfRemote, HandsOverListedHosts
  <2>3. QED BY <2>1, <2>2
<1>3. ASSUME Reload(c) PROVE Inv'
  <2> DEFINE f == [disk EXCEPT !.hosts = file[c].hosts]
  <2>1. f \in HostsFile /\ Listed(f) = Listed(file[c])
    BY DEF HostsFile, Listed
  <2>2. file' = [file EXCEPT ![c] = f]
    BY <1>3 DEF Reload
  <2> HIDE DEF f
  <2>3. TypeOK'
    BY <1>3, <2>1, <2>2 DEF Reload
  <2>4. HandsOverListedHosts'
    BY <1>3, <2>1, <2>2 DEF Reload, HandsOverListedHosts
  <2>5. QED BY <2>3, <2>4
<1>4. ASSUME Truncate(c) PROVE Inv'
  BY <1>4, BlankFileType DEF Truncate, HandsOverListedHosts
<1>5. ASSUME Write(c) PROVE Inv'
  <2>1. AfterWrite(op[c]) \in {"settings", "stop", "cap", "start"}
    BY DEF AfterWrite
  <2>2. TypeOK'
    BY <1>5, <2>1 DEF Write
  <2>3. AfterWrite(op[c]) = "stop" <=> op[c] = "remove_host"
    BY DEF AfterWrite
  <2>4. QED BY <1>5, <2>1, <2>2, <2>3 DEF Write, HandsOverListedHosts
<1>6. ASSUME ReadSettings(c) PROVE Inv'
  <2> DEFINE f == [file[c] EXCEPT !.rate = disk.rate]
  <2>1. f \in HostsFile /\ Listed(f) = Listed(file[c])
    BY DEF HostsFile, Listed
  <2>2. file' = [file EXCEPT ![c] = f]
    BY <1>6 DEF ReadSettings
  <2> HIDE DEF f
  <2>3. TypeOK'
    BY <1>6, <2>1, <2>2 DEF ReadSettings
  <2>4. HandsOverListedHosts'
    BY <1>6, <2>1, <2>2 DEF ReadSettings, HandsOverListedHosts
  <2>5. QED BY <2>3, <2>4
<1>7. ASSUME SetCap(c) PROVE Inv'
  BY <1>7 DEF SetCap, HandsOverListedHosts, HostsFile
<1>8. ASSUME StopAll(c) PROVE Inv'
  BY <1>8 DEF StopAll, Abort, HandsOverListedHosts
<1>9. ASSUME ClearHistory(c) PROVE Inv'
  BY <1>9 DEF ClearHistory, HandsOverListedHosts
<1>10. ASSUME NEW h \in Hosts, StartStops(c, h) PROVE Inv'
  BY <1>10 DEF StartStops, Abort, HandsOverListedHosts
<1>11. ASSUME StartSpawns(c) PROVE Inv'
  <2>1. cur[c] \in Listed(file[c]) /\ cur[c] \in Hosts
    BY <1>11 DEF StartSpawns, HandsOverListedHosts, Listed
  <2>2. MeterFor(file[c], cur[c]) \in (MinRate..MaxRate) \cup {None}
    BY <2>1, MeterForType
  <2>3. TypeOK'
    BY <1>11, <2>1, <2>2 DEF StartSpawns
  <2>4. HandsOverListedHosts'
    BY <1>11 DEF StartSpawns, HandsOverListedHosts
  <2>5. QED BY <2>3, <2>4
<1>12. ASSUME StartRegisters(c) PROVE Inv'
  <2>1. cur[c] \in Listed(file[c]) /\ cur[c] \in Hosts
    BY <1>12 DEF StartRegisters, HandsOverListedHosts, Listed
  <2>2. SamplerFor(file[c], cur[c]) \in Sampler
    BY <2>1, SamplerForType
  <2>3. TypeOK'
    BY <1>12, <2>1, <2>2 DEF StartRegisters
  <2>4. HandsOverListedHosts'
    BY <1>12 DEF StartRegisters, HandsOverListedHosts
  <2>5. QED BY <2>3, <2>4
<1>13. ASSUME Finish(c) PROVE Inv'
  BY <1>13, ReturnPreserves DEF Finish
<1>14. ASSUME RemoveStops(c) PROVE Inv'
  BY <1>14 DEF RemoveStops, Abort, HandsOverListedHosts
<1>15. ASSUME Forget(c) PROVE Inv'
  BY <1>15 DEF Forget, HandsOverListedHosts
<1>16. ASSUME ForgetHistory(c) PROVE Inv'
  BY <1>16, ReturnPreserves DEF ForgetHistory
<1>17. QED
  BY <1>1, <1>2, <1>3, <1>4, <1>5, <1>6, <1>7, <1>8, <1>9, <1>10, <1>11, <1>12,
     <1>13, <1>14, <1>15, <1>16 DEF Continue

-----------------------------------------------------------------------------
(* Launching the program, the first time or again. *)
LEMMA InitInv == Init => Inv
<1> SUFFICES ASSUME Init PROVE Inv
  OBVIOUS
<1>1. PICK w \in Clients :
        /\ pc = [d \in Clients |-> IF d = w THEN "load" ELSE "idle"]
        /\ op = [d \in Clients |-> IF d = w THEN "start_all" ELSE None]
  BY DEF Init
<1>2. TypeOK
  BY <1>1, BlankFileType DEF Init, TypeOK, Stages
<1>3. HandsOverListedHosts
  BY <1>1 DEF Init, HandsOverListedHosts, Commands
<1>4. QED BY <1>2, <1>3 DEF Inv

LEMMA RestartPreserves == Inv /\ Restart => Inv'
<1> SUFFICES ASSUME Inv, Restart PROVE Inv'
  OBVIOUS
<1>1. PICK w \in Clients :
        /\ pc' = [d \in Clients |-> IF d = w THEN "load" ELSE "idle"]
        /\ op' = [d \in Clients |-> IF d = w THEN "start_all" ELSE None]
  BY DEF Restart
<1>2. TypeOK'
  BY <1>1, BlankFileType DEF Restart, Inv, TypeOK, Stages
<1>3. HandsOverListedHosts'
  BY <1>1 DEF Restart, HandsOverListedHosts, Commands
<1>4. QED BY <1>2, <1>3 DEF Inv

LEMMA NextPreserves == Inv /\ [Next]_vars => Inv'
<1> SUFFICES ASSUME Inv, [Next]_vars PROVE Inv'
  OBVIOUS
<1>1. ASSUME NEW c \in Clients, Request(c) \/ Continue(c) PROVE Inv'
  BY <1>1, RequestPreserves, ContinuePreserves
<1>2. ASSUME NEW h \in Hosts, RecordSample(h) \/ RecordProcs(h) \/ Die(h) PROVE Inv'
  BY <1>2 DEF Inv, TypeOK, HandsOverListedHosts, RecordSample, RecordProcs, Marked, Die,
              client, supervisor, store
<1>3. CASE Restart
  BY <1>3, RestartPreserves
<1>4. CASE UNCHANGED vars
  BY <1>4 DEF Inv, TypeOK, HandsOverListedHosts, vars, client, supervisor, store
<1>5. QED BY <1>1, <1>2, <1>3, <1>4 DEF Next

-----------------------------------------------------------------------------
\* The two together are inductive, for any set of clients and commands and
\* with or without crashes.
LEMMA Invariant == Spec => []Inv
BY InitInv, NextPreserves, PTL DEF Spec

\* Every variable keeps its type in every behaviour: in particular no meter
\* and no task ever carries an interval outside MIN..MAX_INTERVAL_MS, however
\* a hand edit or an older build filled the file (effective_interval_ms).
THEOREM TypeCorrect == Spec => []TypeOK
BY Invariant, PTL DEF Inv

\* Supervisor::start is only called on hosts the caller's file lists, however
\* many commands interleave (the lookups and loops of service.rs).
THEOREM HandsOverCorrect == Spec => []HandsOverListedHosts
BY Invariant, PTL DEF Inv

-----------------------------------------------------------------------------
(* The command plane as one window drives it. *)

At(stages) == pc[Window] \in stages
Mem == file[Window]
Rest == todo[Window]
Now == cur[Window]

\* The file has been written and nobody else writes it.
Saved == {"settings", "cap", "start", "meter", "register", "stop", "forget", "drop"}

\* From the refusal check on a command carries on to its end: the file it aims
\* at, and the hosts it has still to bring there.
Decided == pc[Window] \notin {"idle", "load", "refuse"}
Aim == IF Decided THEN file[Window] ELSE disk
Owed(h) ==
  \/ pc[Window] \in {"load", "stopAll"}
  \/ Decided /\ (h \in todo[Window] \/ h = cur[Window])

\* A command works on one host at a time, and remove_host on one in all.
Steps ==
  /\ ~At({"meter", "register"}) /\ op[Window] # "remove_host" => Now = None
  /\ op[Window] = "remove_host" => Rest = {} /\ Mem.hosts[Now] = None
  /\ At({"stopAll"}) /\ Mem.server = None => Rest = Listed(Mem)
  /\ At({"stopAll", "clear"}) => op[Window] = "use_endpoint"
  /\ At({"idle"}) => op[Window] = None
  /\ At({"load"}) => op[Window] = "start_all"
  /\ At({"settings"}) => op[Window] = "add_host"

\* What a command that may still be refused would change, and what it no
\* longer can: only the hosts it names, never the server.
Drafted ==
  /\ At({"refuse"}) =>
       /\ Mem.server = disk.server /\ Mem.saved = disk.saved
       /\ op[Window] # "set_settings" => Mem.cap = disk.cap
       /\ op[Window] \in SavesHostList => Mem = [disk EXCEPT !.hosts = Mem.hosts]
       /\ \A h \in Hosts \ (Rest \cup {Now}) : Asked(Mem, h) = Asked(disk, h)
       /\ Listed(disk) \subseteq Listed(Mem) \cup {Now}
  /\ At({"reload"}) => Mem = [disk EXCEPT !.hosts = Mem.hosts] /\ op[Window] \in SavesHostList
  /\ At(Saved) => Mem = disk
  /\ Decided /\ (Rest # {} \/ Now # None) => Mem.server = None

\* What has been stopped before something is started in its place.
Stopped ==
  /\ detached = {}
  /\ At({"load"}) => \A h \in Hosts : ~Sampling(h)
  /\ At({"meter", "register", "forget", "drop"}) => tasks[Now] = None
  /\ At({"register"}) => ~Mem.hosts[Now].paused

\* Every host a command is done with is sampled the way the file asks.
Followed == \A h \in Hosts : ~Owed(h) => tasks[h] = Asked(Aim, h)

\* The meter and the counters follow the tasks and the host list.
Metered ==
  /\ Aim.server = None =>
       \A h \in Hosts : ~Owed(h) =>
         meters[h] = IF tasks[h] = None THEN None ELSE tasks[h].rate
  /\ \A h \in Hosts \ Listed(Aim) :
       \/ Decided /\ h = Now /\ ~At({"drop"})
       \/ h \notin counters /\ meters[h] = None
  /\ At({"register"}) => meters[Now] = EffectiveRate(Mem, Now)

\* The limit is the file's, and nothing samples before there is one.
Capped ==
  /\ \/ At({"load", "cap"})
     \/ At({"truncate", "write"}) /\ op[Window] = "set_settings"
     \/ cap = Aim.cap
  /\ cap = None => At({"load", "cap"}) /\ \A h \in Hosts : ~Sampling(h)

Held == Steps /\ Drafted /\ Stopped /\ Followed /\ Metered /\ Capped

OneInv == Inv /\ Held

USE OneClient

-----------------------------------------------------------------------------
(* What a file asks of a host. *)

LEMMA AskedType ==
  ASSUME NEW f \in HostsFile, NEW h \in Hosts
  PROVE  Asked(f, h) \in Sampler \cup {None}
BY SamplerForType DEF Asked

\* Files that differ in another host, in the server only or in this window's
\* notes ask the same of a host.
LEMMA AskedOfSame ==
  ASSUME NEW f \in HostsFile, NEW g \in HostsFile, NEW h \in Hosts,
         f.server = g.server, f.rate = g.rate, f.hosts[h] = g.hosts[h]
  PROVE  Asked(f, h) = Asked(g, h)
BY DEF Asked, Listed, SamplerFor, EffectiveRate

\* set_settings restarts every host the new interval matters to.
LEMMA AskedOfNotRestarted ==
  ASSUME NEW f \in HostsFile, NEW g \in HostsFile, NEW h \in Hosts,
         f.server = g.server, f.hosts = g.hosts, h \notin Restarted(f, g)
  PROVE  Asked(f, h) = Asked(g, h)
BY DEF Asked, Listed, SamplerFor, Restarted

LEMMA SamplingOne ==
  ASSUME NEW h \in Hosts
  PROVE  Sampling(h) <=> \/ tasks[h] # None \/ h \in dying
                         \/ \E s \in Sampler : <<h, s>> \in detached
                         \/ At({"register"}) /\ Now = h
BY DEF Sampling, At, Now

-----------------------------------------------------------------------------
(* The first step of a command. *)

\* The common case: the command may still be refused.
LEMMA DraftPreserves ==
  ASSUME OneInv, At({"idle"}), NEW o \in Commands, NEW f \in HostsFile,
         NEW hosts \in SUBSET Listed(f), NEW h \in Hosts \cup {None},
         Begin(Window, o, f, "refuse", hosts, h),
         IF o = "remove_host" THEN hosts = {} /\ h \in Hosts /\ f.hosts[h] = None
                              ELSE h = None,
         f.server = disk.server, f.saved = disk.saved,
         o # "set_settings" => f.cap = disk.cap,
         o \in SavesHostList => f = [disk EXCEPT !.hosts = f.hosts],
         \A k \in Hosts \ (hosts \cup {h}) : Asked(f, k) = Asked(disk, k),
         Listed(disk) \subseteq Listed(f) \cup {h}
  PROVE  Held'
<1>1. /\ pc'[Window] = "refuse" /\ op'[Window] = o /\ file'[Window] = f
      /\ todo'[Window] = hosts /\ cur'[Window] = h
      /\ disk' = disk /\ tasks' = tasks /\ detached' = detached /\ dying' = dying
      /\ meters' = meters /\ counters' = counters /\ cap' = cap
  BY DEF Begin, OneInv, Inv, TypeOK, supervisor
<1>2. Steps'
  BY <1>1 DEF Steps, At, Mem, Rest, Now, Commands
<1>3. Drafted'
  BY <1>1 DEF Drafted, At, Mem, Rest, Now, Saved, Decided, Asked, Listed, SamplerFor, EffectiveRate
<1>4. Stopped'
  BY <1>1 DEF OneInv, Held, Stopped, At
<1>5. Followed'
  BY <1>1 DEF OneInv, Held, Followed, Owed, Aim, Decided, At, Asked, Listed, SamplerFor, EffectiveRate
<1>6. Metered'
  BY <1>1 DEF OneInv, Held, Metered, Owed, Aim, Decided, At, Now, Listed
<1>7. Capped'
  BY <1>1 DEF OneInv, Held, Capped, Aim, Decided, At
<1>8. QED BY <1>2, <1>3, <1>4, <1>5, <1>6, <1>7 DEF Held

\* Saved endpoints, window preferences and an unchanged fleet half: nothing
\* the samplers follow differs, and nobody is asked.
LEMMA NotePreserves ==
  ASSUME OneInv, At({"idle"}), NEW o \in Commands, o # "remove_host",
         NEW f \in HostsFile, Begin(Window, o, f, "truncate", {}, None),
         f.hosts = disk.hosts, f.rate = disk.rate, f.cap = disk.cap,
         f.server = disk.server
  PROVE  Held'
<1>1. /\ pc'[Window] = "truncate" /\ op'[Window] = o /\ file'[Window] = f
      /\ todo'[Window] = {} /\ cur'[Window] = None
      /\ disk' = disk /\ tasks' = tasks /\ detached' = detached /\ dying' = dying
      /\ meters' = meters /\ counters' = counters /\ cap' = cap
  BY DEF Begin, OneInv, Inv, TypeOK, supervisor
<1>2. \A h \in Hosts : Asked(f, h) = Asked(disk, h)
  BY AskedOfSame DEF OneInv, Inv, TypeOK
<1>3. Steps'
  BY <1>1 DEF Steps, At, Mem, Rest, Now
<1>4. Drafted'
  BY <1>1 DEF Drafted, At, Mem, Rest, Now, Saved, Decided
<1>5. Stopped'
  BY <1>1 DEF OneInv, Held, Stopped, At
<1>6. Followed'
  BY <1>1, <1>2 DEF OneInv, Held, Followed, Owed, Aim, Decided, At, Asked, Listed, SamplerFor, EffectiveRate
<1>7. Metered'
  BY <1>1 DEF OneInv, Held, Metered, Owed, Aim, Decided, At, Now, Listed
<1>8. Capped'
  BY <1>1 DEF OneInv, Held, Capped, Aim, Decided, At
<1>9. QED BY <1>3, <1>4, <1>5, <1>6, <1>7, <1>8 DEF Held

\* use_endpoint takes effect at once: every host counts as restarted.
LEMMA SwitchPreserves ==
  ASSUME OneInv, NEW s \in Servers \cup {None}, UseEndpoint(Window, s)
  PROVE  Held'
<1> DEFINE f == [disk EXCEPT !.server = s]
<1>1. /\ f \in HostsFile /\ f.server = s /\ f.hosts = disk.hosts /\ f.cap = disk.cap
  BY DEF OneInv, Inv, TypeOK, HostsFile
<1>2. /\ pc[Window] = "idle"
      /\ Begin(Window, "use_endpoint", f, "stopAll", IF s = None THEN Listed(f) ELSE {}, None)
  BY DEF UseEndpoint, Ready
<1> HIDE DEF f
<1>3. /\ pc'[Window] = "stopAll" /\ op'[Window] = "use_endpoint" /\ file'[Window] = f
      /\ todo'[Window] = (IF s = None THEN Listed(f) ELSE {}) /\ cur'[Window] = None
      /\ disk' = disk /\ tasks' = tasks /\ detached' = detached /\ dying' = dying
      /\ meters' = meters /\ counters' = counters /\ cap' = cap
  BY <1>2 DEF Begin, OneInv, Inv, TypeOK, supervisor, Listed
<1>4. Steps'
  BY <1>1, <1>3 DEF Steps, At, Mem, Rest, Now, Listed
<1>5. Drafted'
  BY <1>1, <1>3 DEF Drafted, At, Mem, Rest, Now, Saved, Decided
<1>6. Stopped'
  BY <1>3 DEF OneInv, Held, Stopped, At
<1>7. Followed'
  BY <1>3 DEF Followed, Owed
<1>8. Metered'
  BY <1>1, <1>2, <1>3 DEF OneInv, Held, Metered, Owed, Aim, Decided, At, Now, Listed
<1>9. Capped'
  BY <1>1, <1>2, <1>3 DEF OneInv, Held, Capped, Aim, Decided, At
<1>10. QED BY <1>4, <1>5, <1>6, <1>7, <1>8, <1>9 DEF Held

\* A command that edits one host asks nothing new of the others.
LEMMA EditDrafts ==
  ASSUME Inv, NEW h \in Hosts, NEW cfg \in HostConfig \cup {None}
  PROVE  LET f == Edited(h, cfg)
         IN /\ f \in HostsFile /\ f.hosts[h] = cfg
            /\ f = [disk EXCEPT !.hosts = f.hosts]
            /\ f.server = disk.server /\ f.saved = disk.saved /\ f.cap = disk.cap
            /\ \A k \in Hosts \ {h} : Asked(f, k) = Asked(disk, k)
            /\ Listed(disk) \subseteq Listed(f) \cup {h}
            /\ cfg # None => h \in Listed(f) /\ Listed(disk) \subseteq Listed(f)
<1> DEFINE f == Edited(h, cfg)
<1>1. /\ f \in HostsFile /\ f.hosts = [disk.hosts EXCEPT ![h] = cfg]
      /\ disk \in HostsFile /\ f.hosts[h] = cfg
      /\ f.server = disk.server /\ f.saved = disk.saved /\ f.cap = disk.cap
      /\ f.rate = disk.rate
  <2>1. disk \in HostsFile /\ f \in HostsFile
    BY EditedType DEF Inv, TypeOK
  <2>2. f = [disk EXCEPT !.hosts = [disk.hosts EXCEPT ![h] = cfg]]
    BY DEF Edited
  <2> HIDE DEF f
  <2> QED BY <2>1, <2>2 DEF HostsFile
<1>2. f = [disk EXCEPT !.hosts = f.hosts]
  <2> DEFINE hosts == [disk.hosts EXCEPT ![h] = cfg]
  <2>1. f = [disk EXCEPT !.hosts = hosts]
    BY DEF Edited
  <2>2. f.hosts = hosts
    BY <1>1
  <2> HIDE DEF f, hosts
  <2> QED BY <2>1, <2>2
<1> HIDE DEF f
<1>3. \A k \in Hosts \ {h} : f.hosts[k] = disk.hosts[k]
  BY <1>1 DEF HostsFile
<1>4. \A k \in Hosts \ {h} : Asked(f, k) = Asked(disk, k)
  <2> TAKE k \in Hosts \ {h}
  <2>1. f.hosts[k] = disk.hosts[k]
    BY <1>3
  <2>2. f \in HostsFile /\ disk \in HostsFile /\ f.server = disk.server /\ f.rate = disk.rate
    BY <1>1
  <2> QED BY <2>1, <2>2, AskedOfSame
<1>5. Listed(disk) \subseteq Listed(f) \cup {h}
  BY <1>3 DEF Listed
<1>6. cfg # None => h \in Listed(f) /\ Listed(disk) \subseteq Listed(f)
  BY <1>1, <1>3 DEF Listed
<1>7. QED BY <1>1, <1>2, <1>4, <1>5, <1>6 DEF f

LEMMA RequestHeld ==
  ASSUME OneInv, Request(Window)
  PROVE  Held'
<1>0. Inv /\ disk \in HostsFile
  BY DEF OneInv, Inv, TypeOK
<1>1. ASSUME NEW h \in Hosts, NEW cfg \in HostConfig, AddHost(Window, h, cfg)
      PROVE  Held'
  <2>1. cfg # None
    BY NoneIsNoValue
  <2> DEFINE f == Edited(h, cfg)
  <2>2. Begin(Window, "add_host", f, "refuse", {h}, None) /\ At({"idle"})
    BY <1>1 DEF AddHost, Ready, At
  <2> HIDE DEF f
  <2>3. QED BY <1>0, <2>1, <2>2, EditDrafts, DraftPreserves DEF f, Commands
<1>2. ASSUME NEW h \in Hosts, RemoveHost(Window, h) PROVE Held'
  BY <1>0, <1>2, EditDrafts, DraftPreserves DEF RemoveHost, Ready, At, Commands
<1>3. ASSUME ReorderHosts(Window) PROVE Held'
  BY <1>0, <1>3, DraftPreserves DEF ReorderHosts, Ready, At, Commands, HostsFile
<1>4. ASSUME NEW h \in Hosts, NEW r \in Rates \cup {None}, SetHostInterval(Window, h, r)
      PROVE  Held'
  <2> DEFINE rate == IF r = None THEN None ELSE Clamp(r, MinRate, MaxRate)
             cfg == [disk.hosts[h] EXCEPT !.rate = rate]
  <2>1. cfg \in HostConfig /\ cfg # None
    BY <1>0, <1>4, ClampedRequest, HostEditType, NoneIsNoValue DEF SetHostInterval
  <2>2. Begin(Window, "set_host_interval", Edited(h, cfg), "refuse", {h}, None) /\ At({"idle"})
    BY <1>4 DEF SetHostInterval, Ready, At
  <2> HIDE DEF cfg
  <2>3. QED BY <1>0, <2>1, <2>2, EditDrafts, DraftPreserves DEF Commands, SavesHostList
<1>5. ASSUME NEW h \in Hosts, NEW g \in Groups \cup {None}, SetHostGroup(Window, h, g)
      PROVE  Held'
  <2> DEFINE cfg == [disk.hosts[h] EXCEPT !.group = g]
  <2>1. cfg \in HostConfig /\ cfg # None
    BY <1>0, <1>5, HostEditType, NoneIsNoValue DEF SetHostGroup
  <2>2. Begin(Window, "set_host_group", Edited(h, cfg), "refuse", {}, None) /\ At({"idle"})
    BY <1>5 DEF SetHostGroup, Ready, At
  <2>3. disk.hosts[h] \in HostConfig /\ disk.hosts[h] # None
    BY <1>0, <1>5 DEF SetHostGroup, HostsFile
  <2>4. /\ cfg.paused = disk.hosts[h].paused /\ cfg.os = disk.hosts[h].os
        /\ cfg.rate = disk.hosts[h].rate
    BY <2>3 DEF HostConfig
  <2> HIDE DEF cfg
  <2>5. /\ Edited(h, cfg).hosts[h] = cfg /\ Edited(h, cfg).rate = disk.rate
        /\ Edited(h, cfg).server = disk.server
    BY <1>0, <2>1 DEF Edited, HostsFile
  <2>6. Asked(Edited(h, cfg), h) = Asked(disk, h)
    BY <2>1, <2>3, <2>4, <2>5 DEF Asked, Listed, SamplerFor, EffectiveRate
  <2>7. QED BY <1>0, <2>1, <2>2, <2>6, EditDrafts, DraftPreserves DEF Commands, SavesHostList
<1>6. ASSUME NEW h \in Hosts, NEW os \in OSes, SetHostOs(Window, h, os) PROVE Held'
  <2> DEFINE cfg == [disk.hosts[h] EXCEPT !.os = os]
  <2>1. cfg \in HostConfig /\ cfg # None
    BY <1>0, <1>6, HostEditType, NoneIsNoValue DEF SetHostOs
  <2>2. Begin(Window, "set_host_os", Edited(h, cfg), "refuse", {h}, None) /\ At({"idle"})
    BY <1>6 DEF SetHostOs, Ready, At
  <2> HIDE DEF cfg
  <2>3. QED BY <1>0, <2>1, <2>2, EditDrafts, DraftPreserves DEF Commands, SavesHostList
<1>7. ASSUME NEW h \in Hosts, NEW p \in BOOLEAN, SetHostPaused(Window, h, p) PROVE Held'
  <2> DEFINE cfg == [disk.hosts[h] EXCEPT !.paused = p]
  <2>1. cfg \in HostConfig /\ cfg # None
    BY <1>0, <1>7, HostEditType, NoneIsNoValue DEF SetHostPaused
  <2>2. Begin(Window, "set_host_paused", Edited(h, cfg), "refuse", {h}, None) /\ At({"idle"})
    BY <1>7 DEF SetHostPaused, Ready, At
  <2> HIDE DEF cfg
  <2>3. QED BY <1>0, <2>1, <2>2, EditDrafts, DraftPreserves DEF Commands, SavesHostList
<1>8. ASSUME NEW s \in Servers \cup {None}, UseEndpoint(Window, s) PROVE Held'
  BY <1>8, SwitchPreserves
<1>9. ASSUME NEW e \in Endpoints, AddEndpoint(Window, e) \/ RemoveEndpoint(Window, e)
       PROVE  Held'
  <2>1. \A saved \in SUBSET Endpoints :
          LET f == [disk EXCEPT !.saved = saved]
          IN /\ f \in HostsFile /\ f.hosts = disk.hosts /\ f.rate = disk.rate
             /\ f.cap = disk.cap /\ f.server = disk.server
    BY <1>0 DEF HostsFile
  <2>2. disk.saved \cup {e} \in SUBSET Endpoints /\ disk.saved \ {e} \in SUBSET Endpoints
    BY <1>0 DEF HostsFile
  <2>3. QED BY <1>9, <2>1, <2>2, NotePreserves
            DEF AddEndpoint, RemoveEndpoint, Ready, At, Commands
<1>10. ASSUME NEW e \in Endpoints, NEW name \in Endpoints, UpdateEndpoint(Window, e, name)
       PROVE  Held'
  <2> DEFINE f == [disk EXCEPT !.saved = (@ \ {e}) \cup {name}]
  <2>1. /\ f \in HostsFile /\ f.hosts = disk.hosts /\ f.rate = disk.rate
        /\ f.cap = disk.cap /\ f.server = disk.server
    BY <1>0 DEF HostsFile
  <2>2. Begin(Window, "update_endpoint", f, "truncate", {}, None) /\ At({"idle"})
    BY <1>10 DEF UpdateEndpoint, Ready, At
  <2> HIDE DEF f
  <2>3. QED BY <2>1, <2>2, NotePreserves DEF Commands
<1>11. ASSUME NEW r \in Rates, NEW m \in Caps, NEW p \in Prefs,
              SetSettings(Window, r, m, p)
       PROVE  Held'
  <2> DEFINE f == [disk EXCEPT !.rate = Clamp(r, MinRate, MaxRate),
                               !.cap = Clamp(m, MinCap, MaxCap), !.prefs = p]
  <2>1. /\ f \in HostsFile /\ f.hosts = disk.hosts /\ f.server = disk.server
        /\ f.saved = disk.saved
        /\ f.rate = Clamp(r, MinRate, MaxRate) /\ f.cap = Clamp(m, MinCap, MaxCap)
    BY <1>0, ClampedRequest DEF HostsFile
  <2>2. /\ At({"idle"})
        /\ \/ /\ f.rate = disk.rate /\ f.cap = disk.cap
              /\ Begin(Window, "set_settings", f, "truncate", Restarted(f, disk), None)
           \/ Begin(Window, "set_settings", f, "refuse", Restarted(f, disk), None)
    BY <1>11, <2>1 DEF SetSettings, Ready, At
  <2> HIDE DEF f
  <2>3. /\ Restarted(f, disk) \subseteq Listed(f) /\ Listed(f) = Listed(disk)
        /\ \A k \in Hosts \ Restarted(f, disk) : Asked(f, k) = Asked(disk, k)
    BY <1>0, <2>1, AskedOfNotRestarted DEF Restarted, Listed
  <2>4. f.rate = disk.rate => Restarted(f, disk) = {}
    BY <2>1 DEF Restarted, EffectiveRate
  <2>5. CASE Begin(Window, "set_settings", f, "refuse", Restarted(f, disk), None)
    BY <1>0, <2>1, <2>2, <2>3, <2>5, DraftPreserves DEF Commands, SavesHostList
  <2>6. CASE /\ f.rate = disk.rate /\ f.cap = disk.cap
             /\ Begin(Window, "set_settings", f, "truncate", Restarted(f, disk), None)
    BY <2>1, <2>2, <2>4, <2>6, NotePreserves DEF Commands
  <2>7. QED BY <2>2, <2>5, <2>6
<1>12. QED
  BY <1>1, <1>2, <1>3, <1>4, <1>5, <1>6, <1>7, <1>8, <1>9, <1>10, <1>11 DEF Request

-----------------------------------------------------------------------------
(* The later steps. *)

\* A command that returns is done with every host, whichever way it ends.
LEMMA ReturnHeld ==
  ASSUME OneInv, Return(Window), cap' = cap, Aim = disk, disk' = disk,
         tasks' = tasks, detached' = detached, dying' = dying,
         meters' = meters, counters' = counters,
         \A h \in Hosts : tasks[h] = Asked(disk, h),
         disk.server = None => \A h \in Hosts :
           meters[h] = IF tasks[h] = None THEN None ELSE tasks[h].rate,
         \A h \in Hosts \ Listed(disk) : h \notin counters /\ meters[h] = None,
         ~At({"load", "cap", "write", "truncate"})
  PROVE  Held'
<1>1. /\ pc'[Window] = "idle" /\ op'[Window] = None /\ cur'[Window] = None
      /\ todo'[Window] = {}
  BY DEF Return, Go, OneInv, Inv, TypeOK
<1>2. Steps'
  BY <1>1, NoneIsNoValue DEF Steps, At, Now, Commands
<1>3. Drafted'
  BY <1>1 DEF Drafted, At, Saved, Decided
<1>4. Stopped'
  BY <1>1 DEF OneInv, Held, Stopped, At
<1>5. Followed'
  BY <1>1 DEF Followed, Aim, Decided, Asked, Listed, SamplerFor, EffectiveRate
<1>6. Metered'
  BY <1>1 DEF Metered, Aim, Decided, At, Listed
<1>7. Capped'
  BY <1>1 DEF OneInv, Held, Capped, Aim, Decided, At
<1>8. QED BY <1>2, <1>3, <1>4, <1>5, <1>6, <1>7 DEF Held

LEMMA StartAllHeld == ASSUME OneInv, StartAll(Window) PROVE Held'
<1>1. /\ pc[Window] = "load" /\ pc'[Window] = "cap" /\ file'[Window] = disk
      /\ todo'[Window] = StartedAtLaunch(disk)
      /\ disk' = disk /\ tasks' = tasks /\ detached' = detached /\ dying' = dying
      /\ meters' = meters /\ counters' = counters /\ cap' = cap /\ op' = op /\ cur' = cur
  BY DEF StartAll, Go, OneInv, Inv, TypeOK, supervisor
<1>2. op[Window] = "start_all" /\ cur[Window] = None
  BY <1>1 DEF OneInv, Held, Steps, At, Now
<1>3. \A h \in Hosts : tasks[h] = None /\ h \notin dying
  BY <1>1 DEF OneInv, Held, Stopped, At, Sampling
<1>4. Steps'
  BY <1>1, <1>2 DEF Steps, At, Now
<1>5. Drafted'
  BY <1>1, <1>2 DEF Drafted, At, Saved, Decided, Mem, Rest, Now, StartedAtLaunch
<1>6. Stopped'
  BY <1>1 DEF OneInv, Held, Stopped, At
<1>7. Followed'
  BY <1>1, <1>3 DEF Followed, Owed, Aim, Decided, StartedAtLaunch, Asked, Listed
<1>8. Metered'
  BY <1>1, <1>2, <1>3 DEF OneInv, Held, Metered, Owed, Aim, Decided, At, Now, Listed, StartedAtLaunch
<1>9. Capped'
  BY <1>1, <1>3 DEF OneInv, Held, Stopped, Capped, At, Sampling
<1>10. QED BY <1>4, <1>5, <1>6, <1>7, <1>8, <1>9 DEF Held

LEMMA RefuseHeld == ASSUME OneInv, RefuseIfRemote(Window) PROVE Held'
<1>1. /\ pc[Window] = "refuse" /\ disk' = disk /\ tasks' = tasks
      /\ detached' = detached /\ dying' = dying
      /\ meters' = meters /\ counters' = counters /\ cap' = cap
  BY DEF RefuseIfRemote, supervisor
<1>2. CASE Refused(Window)
  BY <1>1, <1>2, ReturnHeld
     DEF RefuseIfRemote, OneInv, Held, Followed, Metered, Owed, Aim, Decided, At
<1>3. CASE ~Refused(Window)
  <2>1. /\ pc'[Window] = (IF op[Window] \in SavesHostList THEN "reload" ELSE "truncate")
        /\ op' = op /\ file' = file /\ todo' = todo /\ cur' = cur
        /\ disk.server = None
    BY <1>1, <1>3 DEF RefuseIfRemote, Refused, Go, OneInv, Inv, TypeOK
  <2>2. Steps'
    BY <1>1, <2>1 DEF OneInv, Held, Steps, At, Now, Mem, Rest
  <2>3. Drafted'
    BY <1>1, <2>1 DEF OneInv, Held, Drafted, At, Now, Mem, Rest, Saved, Decided, Listed
  <2>4. Stopped'
    BY <1>1, <2>1 DEF OneInv, Held, Stopped, At
  <2>5. Followed'
    <3>1. \A h \in Hosts \ (todo[Window] \cup {cur[Window]}) : tasks[h] = Asked(file[Window], h)
      BY <1>1 DEF OneInv, Held, Followed, Drafted, Owed, Aim, Decided, At, Now, Mem, Rest
    <3>2. \A h \in Hosts : Asked(Aim, h)' = Asked(file[Window], h)
      BY <2>1 DEF Aim, Decided, Asked, Listed, SamplerFor, EffectiveRate
    <3>3. QED
      BY <1>1, <2>1, <3>1, <3>2 DEF Followed, Owed, Decided
  <2>6. Metered'
    BY <1>1, <2>1 DEF OneInv, Held, Metered, Drafted, Owed, Aim, Decided, At, Now, Mem, Rest, Listed
  <2>7. Capped'
    BY <1>1, <2>1 DEF OneInv, Held, Capped, Drafted, Aim, Decided, At, Mem, SavesHostList
  <2>8. QED BY <2>2, <2>3, <2>4, <2>5, <2>6, <2>7 DEF Held
<1>4. QED BY <1>2, <1>3

\* Steps of a committed command that leave the file in its hand, the hosts it
\* has to restart and the tasks alone.
LEMMA FileStepHeld ==
  ASSUME OneInv, Decided, ~At({"load"}), NEW stage \in Stages,
         pc' = [pc EXCEPT ![Window] = stage],
         stage = "settings" => op[Window] = "add_host",
         stage \notin {"idle", "load", "refuse", "reload", "stopAll", "clear", "meter", "register", "forget", "drop"},
         ~At({"stopAll", "meter", "register", "drop"}),
         stage \in Saved => disk' = file[Window],
         op' = op, file' = file, todo' = todo, cur' = cur,
         tasks' = tasks, detached' = detached, dying' = dying,
         meters' = meters, counters' = counters,
         \/ cap' = cap /\ ~At({"cap"}) /\ (op[Window] = "set_settings" => stage \in {"write", "cap"})
         \/ At({"cap"}) /\ cap' = file[Window].cap
  PROVE  Held'
<1>1. pc'[Window] = stage
  BY DEF OneInv, Inv, TypeOK
<1>2. Steps'
  BY <1>1 DEF OneInv, Held, Steps, At, Now, Mem, Rest
<1>3. Drafted'
  BY <1>1 DEF OneInv, Held, Drafted, At, Now, Mem, Rest, Saved, Decided
<1>4. Stopped'
  BY <1>1 DEF OneInv, Held, Stopped, At
<1>5. Followed'
  BY <1>1 DEF OneInv, Held, Followed, Owed, Aim, Decided, At, Now, Mem, Rest,
              Asked, Listed, SamplerFor, EffectiveRate
<1>6. Metered'
  BY <1>1 DEF OneInv, Held, Metered, Owed, Aim, Decided, At, Now, Mem, Rest, Listed
<1>7. file[Window].cap # None
  BY NoneIsNoValue DEF OneInv, Inv, TypeOK, HostsFile
<1>8. Capped'
  BY <1>1, <1>7 DEF OneInv, Held, Capped, Aim, Decided, At
<1>9. QED BY <1>2, <1>3, <1>4, <1>5, <1>6, <1>8 DEF Held

LEMMA FileHeld ==
  ASSUME OneInv, \/ Reload(Window) \/ Truncate(Window) \/ Write(Window)
                 \/ ReadSettings(Window) \/ SetCap(Window)
  PROVE  Held'
<1> USE DEF supervisor, store
<1>0. Stages # {} /\ {"truncate", "write", "settings", "stop", "cap", "start"} \subseteq Stages
  BY DEF Stages
<1>1. ASSUME Reload(Window) PROVE Held'
  <2>1. file[Window] = [disk EXCEPT !.hosts = file[Window].hosts]
    BY <1>1 DEF Reload, OneInv, Held, Drafted, At, Mem
  <2>2. file' = file
    BY <1>1, <2>1 DEF Reload, OneInv, Inv, TypeOK
  <2>3. op[Window] # "set_settings"
    BY <1>1 DEF Reload, OneInv, Held, Drafted, At, SavesHostList
  <2>4. QED
    BY <1>0, <1>1, <2>2, <2>3, FileStepHeld DEF Reload, Go, Decided, At, Saved
<1>2. ASSUME Truncate(Window) PROVE Held'
  BY <1>0, <1>2, FileStepHeld DEF Truncate, Go, Decided, At, Saved
<1>3. ASSUME Write(Window) PROVE Held'
  <2>1. /\ AfterWrite(op[Window]) \in {"settings", "stop", "cap", "start"}
        /\ op[Window] = "set_settings" => AfterWrite(op[Window]) = "cap"
        /\ AfterWrite(op[Window]) = "settings" => op[Window] = "add_host"
    BY DEF AfterWrite
  <2>2. QED
    BY <1>0, <1>3, <2>1, FileStepHeld DEF Write, Go, Decided, At, Saved
<1>4. ASSUME ReadSettings(Window) PROVE Held'
  <2>1. file[Window] = disk /\ op[Window] = "add_host"
    BY <1>4 DEF ReadSettings, OneInv, Held, Drafted, Steps, At, Mem, Saved
  <2>2. file' = file
    BY <1>4, <2>1 DEF ReadSettings, OneInv, Inv, TypeOK, HostsFile
  <2>3. QED
    BY <1>0, <1>4, <2>1, <2>2, FileStepHeld DEF ReadSettings, Go, Decided, At, Saved
<1>5. ASSUME SetCap(Window) PROVE Held'
  <2>1. file[Window] = disk
    BY <1>5 DEF SetCap, OneInv, Held, Drafted, At, Mem, Saved
  <2>2. QED
    BY <1>0, <1>5, <2>1, FileStepHeld DEF SetCap, Go, Decided, At, Saved
<1>6. QED BY <1>1, <1>2, <1>3, <1>4, <1>5

\* use_endpoint's stop_all and clear.
LEMMA StopAllHeld ==
  ASSUME OneInv, StopAll(Window) \/ ClearHistory(Window) PROVE Held'
<1>1. ASSUME StopAll(Window) PROVE Held'
  <2>1. /\ pc[Window] = "stopAll" /\ pc'[Window] = "clear"
        /\ disk' = disk /\ detached' = detached /\ meters' = meters
        /\ counters' = counters /\ cap' = cap
        /\ op' = op /\ file' = file /\ todo' = todo /\ cur' = cur
        /\ \A h \in Hosts : tasks'[h] = None
    BY <1>1 DEF StopAll, Abort, Go, OneInv, Inv, TypeOK
  <2>2. file[Window].server = None => todo[Window] = Listed(file[Window])
    BY <2>1 DEF OneInv, Held, Steps, At, Mem, Rest
  <2>3. Steps'
    BY <2>1 DEF OneInv, Held, Steps, At, Now, Mem, Rest
  <2>4. Drafted'
    BY <2>1 DEF OneInv, Held, Drafted, At, Now, Mem, Rest, Saved, Decided
  <2>5. Stopped'
    BY <2>1 DEF OneInv, Held, Stopped, At
  <2>6. Followed'
    BY <2>1, <2>2 DEF Followed, Owed, Aim, Decided, Asked, Listed
  <2>7. Metered'
    <3>1. \A h \in Hosts \ Listed(file[Window]) : h = cur[Window] \/ meters[h] = None
      BY <2>1 DEF OneInv, Held, Metered, Aim, Decided, At, Now
    <3>2. QED
      BY <2>1, <2>2, <3>1 DEF OneInv, Held, Metered, Owed, Aim, Decided, At, Now, Listed
  <2>8. Capped'
    BY <2>1 DEF OneInv, Held, Capped, Aim, Decided, At
  <2>9. QED BY <2>3, <2>4, <2>5, <2>6, <2>7, <2>8 DEF Held
<1>2. ASSUME ClearHistory(Window) PROVE Held'
  <2>1. op[Window] = "use_endpoint" /\ "truncate" \in Stages
    BY <1>2 DEF ClearHistory, OneInv, Held, Steps, At, Stages
  <2>2. QED
    BY <1>2, <2>1, FileStepHeld DEF ClearHistory, Go, Decided, At, Saved, supervisor
<1>3. QED BY <1>1, <1>2

LEMMA StartStopsHeld ==
  ASSUME OneInv, NEW h \in Hosts, StartStops(Window, h) PROVE Held'
<1>1. /\ pc[Window] = "start" /\ pc'[Window] = "meter" /\ h \in todo[Window]
      /\ todo'[Window] = todo[Window] \ {h} /\ cur'[Window] = h
      /\ disk' = disk /\ detached' = detached /\ meters' = meters
      /\ counters' = counters /\ cap' = cap /\ op' = op /\ file' = file
      /\ tasks' = [tasks EXCEPT ![h] = None]
  BY DEF StartStops, Abort, Go, OneInv, Inv, TypeOK
<1>2. /\ op[Window] # "remove_host" /\ cur[Window] = None
      /\ file[Window] = disk /\ disk.server = None
      /\ h \in Listed(file[Window])
  BY <1>1 DEF OneInv, Held, Inv, HandsOverListedHosts, Steps, Drafted, At, Now, Mem, Rest, Saved, Decided
<1>3. Steps'
  BY <1>1, <1>2 DEF Steps, At, Now, Mem, Rest
<1>4. Drafted'
  BY <1>1, <1>2 DEF Drafted, At, Now, Mem, Rest, Saved, Decided
<1>5. Stopped'
  BY <1>1 DEF OneInv, Held, Stopped, At, Now, Inv, TypeOK
<1>6. Followed'
  <2>1. \A k \in Hosts \ todo[Window] : tasks[k] = Asked(disk, k)
    BY <1>1, <1>2, NoneIsNoValue DEF OneInv, Held, Followed, Owed, Aim, Decided
  <2>2. \A k \in Hosts : Asked(Aim, k)' = Asked(disk, k)
    BY <1>1, <1>2 DEF Aim, Decided, Asked, Listed, SamplerFor, EffectiveRate
  <2>3. \A k \in Hosts \ {h} : tasks'[k] = tasks[k]
    BY <1>1 DEF OneInv, Inv, TypeOK
  <2>4. QED
    BY <1>1, <2>1, <2>2, <2>3 DEF Followed, Owed, Decided
<1>7. Metered'
  <2>1. \A k \in Hosts \ todo[Window] :
          meters[k] = IF tasks[k] = None THEN None ELSE tasks[k].rate
    BY <1>1, <1>2, NoneIsNoValue DEF OneInv, Held, Metered, Owed, Aim, Decided
  <2>2. \A k \in Hosts \ Listed(disk) : k \notin counters /\ meters[k] = None
    BY <1>1, <1>2, NoneIsNoValue DEF OneInv, Held, Metered, Aim, Decided, Now, At
  <2>3. \A k \in Hosts \ {h} : tasks'[k] = tasks[k]
    BY <1>1 DEF OneInv, Inv, TypeOK
  <2>4. \A k \in Hosts : ~Owed(k)' =>
          meters'[k] = IF tasks'[k] = None THEN None ELSE tasks'[k].rate
    BY <1>1, <2>1, <2>3 DEF Owed, Decided
  <2>5. Listed(Aim)' = Listed(disk)
    BY <1>1, <1>2 DEF Listed, Aim, Decided
  <2>6. QED
    BY <1>1, <2>2, <2>4, <2>5 DEF Metered, At
<1>8. Capped'
  BY <1>1 DEF OneInv, Held, Capped, Aim, Decided, At
<1>9. QED BY <1>3, <1>4, <1>5, <1>6, <1>7, <1>8 DEF Held

LEMMA StartSpawnsHeld ==
  ASSUME OneInv, StartSpawns(Window) PROVE Held'
<1> DEFINE h == cur[Window]
           paused == file[Window].hosts[h].paused
<1>1. /\ pc[Window] = "meter" /\ h \in Hosts /\ h \in Listed(file[Window])
      /\ op[Window] # "remove_host" /\ file[Window] = disk /\ disk.server = None
      /\ tasks[h] = None
  <2>1. pc[Window] = "meter"
    BY DEF StartSpawns
  <2>2. cur[Window] \in Listed(file[Window])
    BY <2>1 DEF OneInv, Inv, HandsOverListedHosts
  <2>3. cur[Window] \in Hosts /\ cur[Window] # None
    BY <2>2, NoneIsNoValue DEF Listed
  <2>4. QED
    BY <2>1, <2>2, <2>3 DEF OneInv, Held, Inv, HandsOverListedHosts, Drafted, Stopped,
       At, Now, Mem, Saved, Decided
<1>2. /\ disk' = disk /\ tasks' = tasks /\ detached' = detached /\ dying' = dying
      /\ cap' = cap /\ op' = op /\ file' = file /\ todo' = todo
      /\ meters' = [meters EXCEPT ![h] = MeterFor(file[Window], h)]
      /\ IF paused THEN pc'[Window] = "start" /\ cur'[Window] = None /\ counters' = counters
                   ELSE pc'[Window] = "register" /\ cur' = cur /\ counters' = counters \cup {h}
  BY DEF StartSpawns, Go, OneInv, Inv, TypeOK
<1>3. /\ meters'[h] = MeterFor(file[Window], h)
      /\ \A k \in Hosts \ {h} : meters'[k] = meters[k]
  BY <1>1, <1>2 DEF OneInv, Inv, TypeOK
<1> HIDE DEF paused
<1>4. Steps'
  BY <1>1, <1>2 DEF OneInv, Held, Steps, At, Now, Mem, Rest
<1>5. Drafted'
  BY <1>1, <1>2 DEF OneInv, Held, Drafted, At, Now, Mem, Rest, Saved, Decided
<1>6. Stopped'
  BY <1>1, <1>2 DEF OneInv, Held, Stopped, At, Now, Mem, paused
<1>7. Followed'
  <2>1. paused => Asked(disk, h) = None
    BY <1>1 DEF Asked, paused
  <2>2. \A k \in Hosts \ (todo[Window] \cup {h}) : tasks[k] = Asked(disk, k)
    BY <1>1 DEF OneInv, Held, Followed, Owed, Aim, Decided
  <2>3. \A k \in Hosts : Asked(Aim, k)' = Asked(disk, k)
    BY <1>1, <1>2 DEF Aim, Decided, Asked, Listed, SamplerFor, EffectiveRate
  <2>4. QED
    BY <1>1, <1>2, <2>1, <2>2, <2>3 DEF Followed, Owed, Decided
<1>8. Metered'
  <2>1. /\ paused => MeterFor(file[Window], h) = None
        /\ ~paused => MeterFor(file[Window], h) = EffectiveRate(file[Window], h)
    BY DEF MeterFor, paused
  <2>2. \A k \in Hosts \ (todo[Window] \cup {h}) :
          meters[k] = IF tasks[k] = None THEN None ELSE tasks[k].rate
    BY <1>1 DEF OneInv, Held, Metered, Owed, Aim, Decided
  <2>3. \A k \in Hosts \ Listed(disk) : k \notin counters /\ meters[k] = None
    BY <1>1 DEF OneInv, Held, Metered, Aim, Decided, Now, At
  <2>4. At({"register"})' => ~paused /\ cur'[Window] = h
    BY <1>2 DEF At
  <2>5. At({"register"})' => meters'[Now'] = EffectiveRate(Mem, Now)'
    BY <1>2, <1>3, <2>1, <2>4 DEF Now, Mem, EffectiveRate
  <2>6. \A k \in Hosts : ~Owed(k)' =>
          meters'[k] = IF tasks'[k] = None THEN None ELSE tasks'[k].rate
    BY <1>1, <1>2, <1>3, <2>1, <2>2 DEF Owed, Decided
  <2>7. \A k \in Hosts \ Listed(disk) : k \notin counters' /\ meters'[k] = None
    BY <1>1, <1>2, <1>3, <2>3
  <2>8. Listed(Aim)' = Listed(disk)
    BY <1>1, <1>2 DEF Listed, Aim, Decided
  <2>9. QED
    BY <2>5, <2>6, <2>7, <2>8 DEF Metered
<1>9. Capped'
  BY <1>1, <1>2 DEF OneInv, Held, Capped, Aim, Decided, At
<1>10. QED BY <1>4, <1>5, <1>6, <1>7, <1>8, <1>9 DEF Held

LEMMA StartRegistersHeld ==
  ASSUME OneInv, StartRegisters(Window) PROVE Held'
<1> DEFINE h == cur[Window]
<1>1. /\ pc[Window] = "register" /\ h \in Hosts /\ h \in Listed(file[Window])
      /\ op[Window] # "remove_host" /\ file[Window] = disk /\ disk.server = None
      /\ tasks[h] = None /\ ~disk.hosts[h].paused
      /\ meters[h] = EffectiveRate(disk, h)
  <2>1. pc[Window] = "register"
    BY DEF StartRegisters
  <2>2. cur[Window] \in Listed(file[Window])
    BY <2>1 DEF OneInv, Inv, HandsOverListedHosts
  <2>3. cur[Window] \in Hosts /\ cur[Window] # None
    BY <2>2, NoneIsNoValue DEF Listed
  <2>4. QED
    BY <2>1, <2>2, <2>3 DEF OneInv, Held, Inv, HandsOverListedHosts, Drafted, Stopped, Metered,
       At, Now, Mem, Saved, Decided
<1>2. /\ pc'[Window] = "start" /\ cur'[Window] = None
      /\ disk' = disk /\ detached' = detached /\ dying' = dying /\ meters' = meters
      /\ counters' = counters /\ cap' = cap /\ op' = op /\ file' = file /\ todo' = todo
      /\ tasks' = [tasks EXCEPT ![h] = SamplerFor(disk, h)]
  BY <1>1 DEF StartRegisters, Go, OneInv, Inv, TypeOK
<1>3. /\ tasks'[h] = SamplerFor(disk, h) /\ tasks'[h] # None
      /\ tasks'[h].rate = EffectiveRate(disk, h)
      /\ tasks'[h] = Asked(disk, h)
      /\ \A k \in Hosts \ {h} : tasks'[k] = tasks[k]
  <2>1. SamplerFor(disk, h) # None
    BY <1>1, SamplerForType, NoneIsNoValue DEF OneInv, Inv, TypeOK
  <2>2. SamplerFor(disk, h).rate = EffectiveRate(disk, h)
    BY DEF SamplerFor
  <2>3. Asked(disk, h) = SamplerFor(disk, h)
    BY <1>1 DEF Asked
  <2>4. QED BY <1>1, <1>2, <2>1, <2>2, <2>3 DEF OneInv, Inv, TypeOK
<1>4. Steps'
  BY <1>1, <1>2 DEF OneInv, Held, Steps, At, Now, Mem, Rest
<1>5. Drafted'
  BY <1>1, <1>2 DEF OneInv, Held, Drafted, At, Now, Mem, Rest, Saved, Decided
<1>6. Stopped'
  BY <1>1, <1>2 DEF OneInv, Held, Stopped, At
<1>7. Followed'
  <2>1. \A k \in Hosts \ (todo[Window] \cup {h}) : tasks[k] = Asked(disk, k)
    BY <1>1 DEF OneInv, Held, Followed, Owed, Aim, Decided
  <2>2. \A k \in Hosts : Asked(Aim, k)' = Asked(disk, k)
    BY <1>1, <1>2 DEF Aim, Decided, Asked, Listed, SamplerFor, EffectiveRate
  <2>3. QED
    BY <1>2, <1>3, <2>1, <2>2 DEF Followed, Owed, Decided
<1>8. Metered'
  <2>1. \A k \in Hosts \ (todo[Window] \cup {h}) :
          meters[k] = IF tasks[k] = None THEN None ELSE tasks[k].rate
    BY <1>1 DEF OneInv, Held, Metered, Owed, Aim, Decided
  <2>2. \A k \in Hosts \ Listed(disk) : k \notin counters /\ meters[k] = None
    BY <1>1 DEF OneInv, Held, Metered, Aim, Decided, Now, At
  <2>3. \A k \in Hosts : ~Owed(k)' =>
          meters'[k] = IF tasks'[k] = None THEN None ELSE tasks'[k].rate
    BY <1>1, <1>2, <1>3, <2>1 DEF Owed, Decided
  <2>4. Listed(Aim)' = Listed(disk)
    BY <1>1, <1>2 DEF Listed, Aim, Decided
  <2>5. QED
    BY <1>2, <2>2, <2>3, <2>4 DEF Metered, At
<1>9. Capped'
  BY <1>1, <1>2 DEF OneInv, Held, Capped, Aim, Decided, At
<1>10. QED BY <1>4, <1>5, <1>6, <1>7, <1>8, <1>9 DEF Held

LEMMA FinishHeld == ASSUME OneInv, Finish(Window) PROVE Held'
<1>1. /\ pc[Window] = "start" /\ todo[Window] = {} /\ Return(Window)
      /\ disk' = disk /\ tasks' = tasks /\ detached' = detached /\ dying' = dying
      /\ meters' = meters /\ counters' = counters /\ cap' = cap
  BY DEF Finish, supervisor
<1>2. cur[Window] = None /\ file[Window] = disk
  BY <1>1 DEF OneInv, Held, Inv, HandsOverListedHosts, Steps, Drafted, At, Now, Mem, Saved
<1>3. \A h \in Hosts : ~Owed(h) /\ h # cur[Window]
  BY <1>1, <1>2, NoneIsNoValue DEF Owed
<1>4. Aim = disk
  BY <1>1, <1>2 DEF Aim, Decided
<1>5. QED
  BY <1>1, <1>3, <1>4, ReturnHeld DEF OneInv, Held, Followed, Metered, At, Now

\* remove_host: the handle, the supervisor's maps, the history.
LEMMA RemoveHeld ==
  ASSUME OneInv, RemoveStops(Window) \/ Forget(Window) \/ ForgetHistory(Window)
  PROVE  Held'
<1> DEFINE h == cur[Window]
<1>1. /\ pc[Window] \in {"stop", "forget", "drop"} /\ op[Window] = "remove_host"
      /\ h \in Hosts /\ todo[Window] = {} /\ file[Window] = disk
      /\ disk.hosts[h] = None /\ h \notin Listed(disk) /\ disk.server = None
  <2>1. pc[Window] \in {"stop", "forget", "drop"}
    BY DEF RemoveStops, Forget, ForgetHistory
  <2>2. op[Window] = "remove_host" /\ h \in Hosts /\ h # None
    BY <2>1, NoneIsNoValue DEF OneInv, Inv, HandsOverListedHosts
  <2>3. QED
    BY <2>1, <2>2 DEF OneInv, Held, Steps, Drafted, At, Now, Mem, Rest, Saved, Decided, Listed
<1>2. /\ \A k \in Hosts \ {h} : tasks[k] = Asked(disk, k)
      /\ \A k \in Hosts \ {h} :
           meters[k] = IF tasks[k] = None THEN None ELSE tasks[k].rate
      /\ \A k \in Hosts \ (Listed(disk) \cup {h}) : k \notin counters /\ meters[k] = None
  BY <1>1 DEF OneInv, Held, Followed, Metered, Owed, Aim, Decided, At, Now
<1>3. Asked(disk, h) = None
  BY <1>1 DEF Asked
<1>4. ASSUME RemoveStops(Window) \/ Forget(Window) PROVE Held'
  <2>1. /\ IF pc[Window] = "stop"
           THEN /\ pc'[Window] = "forget" /\ tasks' = [tasks EXCEPT ![h] = None]
                /\ meters' = meters /\ counters' = counters
           ELSE /\ pc'[Window] = "drop" /\ tasks' = tasks
                /\ pc[Window] = "forget"
                /\ meters' = [meters EXCEPT ![h] = None] /\ counters' = counters \ {h}
        /\ disk' = disk /\ detached' = detached /\ cap' = cap
        /\ op' = op /\ file' = file /\ todo' = todo /\ cur' = cur
    BY <1>1, <1>4 DEF RemoveStops, Forget, Abort, Go, OneInv, Inv, TypeOK
  <2>2. /\ tasks'[h] = None /\ \A k \in Hosts \ {h} : tasks'[k] = tasks[k] /\ meters'[k] = meters[k]
        /\ pc'[Window] = "drop" => meters'[h] = None /\ h \notin counters'
        /\ \A k \in Hosts \ {h} : k \notin counters => k \notin counters'
    BY <1>1, <2>1 DEF OneInv, Held, Inv, TypeOK, Stopped, At, Now
  <2>3. /\ pc'[Window] \in {"forget", "drop"} /\ Listed(Aim)' = Listed(disk)
        /\ \A k \in Hosts : Asked(Aim, k)' = Asked(disk, k)
    BY <1>1, <2>1 DEF Aim, Decided, Listed, Asked, SamplerFor, EffectiveRate
  <2>4. Steps'
    BY <1>1, <2>1 DEF OneInv, Held, Steps, At, Now, Mem, Rest
  <2>5. Drafted'
    BY <1>1, <2>1 DEF OneInv, Held, Drafted, At, Now, Mem, Rest, Saved, Decided
  <2>6. Stopped'
    BY <2>1, <2>2, <2>3 DEF OneInv, Held, Stopped, At, Now
  <2>7. Followed'
    BY <1>2, <2>1, <2>2, <2>3 DEF Followed, Owed, Decided
  <2>8. Metered'
    <3>1. \A k \in Hosts : ~Owed(k)' =>
            meters'[k] = IF tasks'[k] = None THEN None ELSE tasks'[k].rate
      BY <1>2, <2>1, <2>2, <2>3 DEF Owed, Decided
    <3>2. \A k \in Hosts \ Listed(disk) :
            \/ Decided' /\ k = Now' /\ ~At({"drop"})'
            \/ k \notin counters' /\ meters'[k] = None
      BY <1>2, <2>1, <2>2, <2>3 DEF Decided, Now, At
    <3>3. QED
      BY <2>3, <3>1, <3>2 DEF Metered, At
  <2>9. Capped'
    BY <1>1, <2>1, <2>3 DEF OneInv, Held, Capped, Aim, Decided, At
  <2>10. QED BY <2>4, <2>5, <2>6, <2>7, <2>8, <2>9 DEF Held
<1>5. ASSUME ForgetHistory(Window) PROVE Held'
  <2>1. /\ pc[Window] = "drop" /\ Return(Window)
        /\ disk' = disk /\ tasks' = tasks /\ detached' = detached /\ dying' = dying
        /\ meters' = meters /\ counters' = counters /\ cap' = cap
    BY <1>5 DEF ForgetHistory, supervisor
  <2>2. tasks[h] = None /\ meters[h] = None /\ h \notin counters
    BY <1>1, <2>1 DEF OneInv, Held, Stopped, Metered, Aim, Decided, At, Now
  <2>3. Aim = disk
    BY <1>1, <2>1 DEF Aim, Decided
  <2>4. QED
    BY <1>1, <1>2, <1>3, <2>1, <2>2, <2>3, ReturnHeld DEF At
<1>6. QED BY <1>4, <1>5

-----------------------------------------------------------------------------
(* The tasks, and launching the program. *)

LEMMA TaskHeld ==
  ASSUME OneInv, NEW h \in Hosts, RecordSample(h) \/ RecordProcs(h) \/ Die(h)
  PROVE  Held'
<1>1. /\ disk' = disk /\ tasks' = tasks /\ detached' = detached /\ dying' \subseteq dying
      /\ meters' = meters /\ counters' = counters /\ cap' = cap
      /\ pc' = pc /\ op' = op /\ file' = file /\ todo' = todo /\ cur' = cur
  BY DEF RecordSample, RecordProcs, Die, supervisor, client
<1>2. Steps' /\ Drafted'
  BY <1>1 DEF OneInv, Held, Steps, Drafted, At, Now, Mem, Rest, Decided, Listed,
              Asked, SamplerFor, EffectiveRate
<1>3. \A k \in Hosts : Sampling(k)' => Sampling(k)
  BY <1>1 DEF Sampling
<1>4. Stopped' /\ Capped'
  BY <1>1, <1>3 DEF OneInv, Held, Stopped, Capped, Aim, Decided, At, Now, Mem
<1>5. Followed'
  BY <1>1 DEF OneInv, Held, Followed, Owed, Aim, Decided, Listed, Asked, SamplerFor, EffectiveRate
<1>6. Metered'
  BY <1>1 DEF OneInv, Held, Metered, Owed, Aim, Decided, At, Now, Mem, Listed, EffectiveRate
<1>7. QED BY <1>2, <1>4, <1>5, <1>6 DEF Held

LEMMA InitHeld == ASSUME Init PROVE Held
<1>1. /\ pc[Window] = "load" /\ op[Window] = "start_all" /\ cur[Window] = None
      /\ tasks = [h \in Hosts |-> None] /\ detached = {} /\ dying = {}
      /\ meters = [h \in Hosts |-> None] /\ counters = {}
  BY DEF Init
<1>2. \A h \in Hosts : ~Sampling(h)
  BY <1>1, SamplingOne DEF At
<1>3. Steps /\ Drafted /\ Stopped /\ Followed /\ Metered /\ Capped
  BY <1>1, <1>2 DEF Steps, Drafted, Stopped, Followed, Metered, Capped, At, Now, Saved, Decided,
                    Aim, Owed
<1>4. QED BY <1>3 DEF Held

LEMMA RestartHeld == ASSUME Restart PROVE Held'
<1>1. /\ pc'[Window] = "load" /\ op'[Window] = "start_all" /\ cur'[Window] = None
      /\ tasks' = [h \in Hosts |-> None] /\ detached' = {} /\ dying' = {}
      /\ meters' = [h \in Hosts |-> None] /\ counters' = {}
  BY DEF Restart
<1>2. \A h \in Hosts : ~Sampling(h)'
  BY <1>1 DEF Sampling
<1>3. Steps' /\ Drafted' /\ Stopped' /\ Followed' /\ Metered' /\ Capped'
  BY <1>1, <1>2 DEF Steps, Drafted, Stopped, Followed, Metered, Capped, At, Now, Saved, Decided,
                    Aim, Owed
<1>4. QED BY <1>3 DEF Held

LEMMA OneNext == OneInv /\ [Next]_vars => OneInv'
<1> SUFFICES ASSUME OneInv, [Next]_vars PROVE OneInv'
  OBVIOUS
<1>1. Inv'
  BY NextPreserves DEF OneInv
<1>2. ASSUME NEW c \in Clients, Request(c) \/ Continue(c) PROVE Held'
  <2>1. c = Window
    OBVIOUS
  <2>2. QED
    BY <1>2, <2>1, RequestHeld, StartAllHeld, RefuseHeld, FileHeld, StopAllHeld,
       StartStopsHeld, StartSpawnsHeld, StartRegistersHeld, FinishHeld, RemoveHeld, SMTT(60)
    DEF Continue
<1>3. ASSUME NEW h \in Hosts, RecordSample(h) \/ RecordProcs(h) \/ Die(h) PROVE Held'
  BY <1>3, TaskHeld
<1>4. ASSUME Restart PROVE Held'
  BY <1>4, RestartHeld
<1>5. ASSUME UNCHANGED vars PROVE Held'
  <2> USE <1>5 DEF At, Now, Mem, Rest, Decided, Aim, Owed, Sampling, Listed, Asked,
                   SamplerFor, EffectiveRate, vars, client, supervisor, store
  <2>1. (Steps <=> Steps') /\ (Drafted <=> Drafted') BY DEF Steps, Drafted
  <2>2. Stopped <=> Stopped' BY DEF Stopped
  <2>3. Followed <=> Followed' BY DEF Followed
  <2>4. (Metered <=> Metered') /\ (Capped <=> Capped') BY DEF Metered, Capped
  <2> QED BY <2>1, <2>2, <2>3, <2>4 DEF OneInv, Held
<1>6. QED BY <1>1, <1>2, <1>3, <1>4, <1>5 DEF Next, OneInv

\* Inductive for one window, with and without crashes.
LEMMA OneInvariant == Spec => []OneInv
<1>1. Init => OneInv
  BY InitInv, InitHeld DEF OneInv
<1>2. QED BY <1>1, OneNext, PTL DEF Spec

-----------------------------------------------------------------------------
(* What it gives. *)

\* No task outlives its handle: Supervisor::start overwrites a handle only
\* after stop has aborted it (supervisor.rs:135), as long as one thread issues
\* the commands.
THEOREM NoStraySamplerCorrect == Spec => []NoStraySampler
<1>1. OneInv => NoStraySampler
  BY DEF OneInv, Held, Stopped, NoStraySampler
<1>2. QED BY <1>1, OneInvariant, PTL

\* Between commands the samplers are exactly those the file asks for, also
\* when the program died inside a command and start_all read whatever file
\* that left (service.rs, supervisor.rs).
THEOREM SamplersMatchFileCorrect == Spec => []SamplersMatchFile
<1>1. OneInv => SamplersMatchFile
  BY DEF OneInv, Held, Followed, SamplersMatchFile, Quiet, Owed, Aim, Decided
<1>2. QED BY <1>1, OneInvariant, PTL

\* Between commands the meter projects each host at the rate it is sampled at
\* and no host that is not sampled (supervisor.rs:111).
THEOREM MeterTellsTheTruthCorrect == Spec => []MeterTellsTheTruth
<1>1. OneInv => MeterTellsTheTruth
  BY DEF OneInv, Held, Metered, MeterTellsTheTruth, Quiet, Owed, Aim, Decided
<1>2. QED BY <1>1, OneInvariant, PTL

\* The limit in the file is in force between commands, and there is one before
\* anything samples (start_all, set_settings).
THEOREM CapIsAppliedCorrect == Spec => []CapIsApplied
<1>1. OneInv => CapIsApplied
  BY DEF OneInv, Held, Capped, CapIsApplied, Quiet, Aim, Decided, At
<1>2. QED BY <1>1, OneInvariant, PTL

-----------------------------------------------------------------------------
(* What is remembered of a host that is not listed. *)

\* What the supervisor and the store remember of a host the file in hand no
\* longer lists, a task recorded while it was being aborted, or remove_host has
\* yet to drop; and use_endpoint finds no task of such a host.
Kept ==
  /\ \A h \in Hosts \ Listed(Aim) :
       /\ h \in procs \ tardy => Decided /\ h = Now /\ ~At({"drop"})
       /\ h \in history \ tardy => Decided /\ h = Now
  /\ At({"stopAll"}) => \A h \in Hosts \ Listed(Mem) : tasks[h] = None

\* A step that remembers nothing new and keeps the list and the host in hand.
LEMMA KeptStays ==
  ASSUME Kept, procs' \ tardy' \subseteq procs \ tardy,
         history' \ tardy' \subseteq history \ tardy,
         Listed(Aim)' = Listed(Aim), Decided, Decided', cur'[Window] = cur[Window],
         ~At({"drop"})', ~At({"stopAll"})'
  PROVE  Kept'
BY DEF Kept, Now

LEMMA RequestKept ==
  ASSUME OneInv, Kept, Request(Window)
  PROVE  Kept'
<1>1. /\ pc[Window] = "idle" /\ pc \in [Clients -> Stages] /\ file \in [Clients -> HostsFile]
      /\ disk \in HostsFile
  BY DEF Request, AddHost, RemoveHost, ReorderHosts, SetSettings, SetHostInterval, SetHostGroup,
     SetHostOs, SetHostPaused, UseEndpoint, AddEndpoint, UpdateEndpoint, RemoveEndpoint, Ready,
     OneInv, Inv, TypeOK
<1>2. \A h \in Hosts \ Listed(disk) :
        h \notin procs \ tardy /\ h \notin history \ tardy /\ tasks[h] = None
  BY <1>1 DEF OneInv, Held, Followed, Kept, Aim, Decided, Owed, Asked
<1>3. ASSUME NEW o, NEW f, NEW stage \in {"refuse", "truncate", "stopAll"}, NEW hosts, NEW h,
             Begin(Window, o, f, stage, hosts, h),
             stage = "refuse" \/ Listed(f) = Listed(disk)
      PROVE  Kept'
  <2>1. /\ pc'[Window] = stage /\ file'[Window] = f
        /\ disk' = disk /\ tasks' = tasks
        /\ procs' = procs /\ history' = history /\ tardy' = tardy
    BY <1>1, <1>3 DEF Begin, supervisor, store
  <2>2. Listed(Aim)' = Listed(disk) /\ (stage # "refuse" => Listed(Mem)' = Listed(disk))
    BY <1>3, <2>1 DEF Aim, Decided, Mem, Listed
  <2>3. QED BY <1>2, <2>1, <2>2 DEF Kept, At
<1>4. ASSUME NEW h \in Hosts, NEW cfg \in HostConfig, AddHost(Window, h, cfg) PROVE Kept'
  BY <1>3, <1>4 DEF AddHost
<1>5. ASSUME NEW h \in Hosts, RemoveHost(Window, h) PROVE Kept'
  BY <1>3, <1>5 DEF RemoveHost
<1>6. ASSUME ReorderHosts(Window) PROVE Kept'
  BY <1>3, <1>6 DEF ReorderHosts
<1>7. ASSUME NEW r \in Rates, NEW m \in Caps, NEW p \in Prefs, SetSettings(Window, r, m, p)
      PROVE  Kept'
  <2> DEFINE f == [disk EXCEPT !.rate = Clamp(r, MinRate, MaxRate),
                               !.cap = Clamp(m, MinCap, MaxCap), !.prefs = p]
  <2>1. Listed(f) = Listed(disk)
    BY <1>1 DEF Listed, HostsFile
  <2>2. \/ Begin(Window, "set_settings", f, "truncate", Restarted(f, disk), None)
        \/ Begin(Window, "set_settings", f, "refuse", Restarted(f, disk), None)
    BY <1>7 DEF SetSettings
  <2> HIDE DEF f
  <2>3. QED BY <1>3, <2>1, <2>2
<1>8. ASSUME NEW h \in Hosts, NEW r \in Rates \cup {None}, SetHostInterval(Window, h, r) PROVE Kept'
  BY <1>3, <1>8 DEF SetHostInterval
<1>9. ASSUME NEW h \in Hosts, NEW g \in Groups \cup {None}, SetHostGroup(Window, h, g) PROVE Kept'
  BY <1>3, <1>9 DEF SetHostGroup
<1>10. ASSUME NEW h \in Hosts, NEW os \in OSes, SetHostOs(Window, h, os) PROVE Kept'
  BY <1>3, <1>10 DEF SetHostOs
<1>11. ASSUME NEW h \in Hosts, NEW p \in BOOLEAN, SetHostPaused(Window, h, p) PROVE Kept'
  BY <1>3, <1>11 DEF SetHostPaused
<1>12. ASSUME NEW s \in Servers \cup {None}, UseEndpoint(Window, s) PROVE Kept'
  <2> DEFINE f == [disk EXCEPT !.server = s]
  <2>1. Listed(f) = Listed(disk)
    BY <1>1 DEF Listed, HostsFile
  <2>2. \E hosts : Begin(Window, "use_endpoint", f, "stopAll", hosts, None)
    BY <1>12 DEF UseEndpoint
  <2> HIDE DEF f
  <2>3. QED BY <1>3, <2>1, <2>2
<1>13. ASSUME NEW saved, NEW o, Begin(Window, o, [disk EXCEPT !.saved = saved], "truncate", {}, None)
       PROVE  Kept'
  <2> DEFINE f == [disk EXCEPT !.saved = saved]
  <2>1. Listed(f) = Listed(disk)
    BY <1>1 DEF Listed, HostsFile
  <2>2. Begin(Window, o, f, "truncate", {}, None)
    BY <1>13
  <2> HIDE DEF f
  <2>3. QED BY <1>3, <2>1, <2>2
<1>14. ASSUME NEW e \in Endpoints, AddEndpoint(Window, e) \/ RemoveEndpoint(Window, e) PROVE Kept'
  BY <1>13, <1>14 DEF AddEndpoint, RemoveEndpoint
<1>15. ASSUME NEW e \in Endpoints, NEW name \in Endpoints, UpdateEndpoint(Window, e, name)
       PROVE  Kept'
  BY <1>13, <1>15 DEF UpdateEndpoint
<1>16. QED
  BY <1>4, <1>5, <1>6, <1>7, <1>8, <1>9, <1>10, <1>11, <1>12, <1>14, <1>15 DEF Request

LEMMA ContinueKept ==
  ASSUME OneInv, Kept, Continue(Window)
  PROVE  Kept'
<1>1. /\ pc \in [Clients -> Stages] /\ file \in [Clients -> HostsFile] /\ disk \in HostsFile
      /\ cur \in [Clients -> Hosts \cup {None}]
  BY DEF OneInv, Inv, TypeOK
<1>2. ASSUME StartAll(Window) PROVE Kept'
  <2>1. /\ pc[Window] = "load" /\ pc'[Window] = "cap" /\ file'[Window] = disk
        /\ procs' = procs /\ history' = history /\ tardy' = tardy
    BY <1>1, <1>2 DEF StartAll, Go, store
  <2>2. Listed(Aim)' = Listed(disk) /\ Aim = disk
    BY <2>1 DEF Aim, Decided, Listed
  <2>3. QED BY <2>1, <2>2 DEF Kept, Decided, At
<1>3. ASSUME RefuseIfRemote(Window) PROVE Kept'
  <2>1. /\ pc[Window] = "refuse" /\ disk' = disk
        /\ procs' = procs /\ history' = history /\ tardy' = tardy
    BY <1>3 DEF RefuseIfRemote, store
  <2>2. \A h \in Hosts \ Listed(disk) : h \notin procs \ tardy /\ h \notin history \ tardy
    BY <2>1 DEF Kept, Aim, Decided
  <2>3. CASE Refused(Window)
    <3>1. pc'[Window] = "idle"
      BY <1>1, <1>3, <2>3 DEF RefuseIfRemote, Return, Go
    <3>2. Listed(Aim)' = Listed(disk)
      BY <2>1, <3>1 DEF Aim, Decided, Listed
    <3>3. QED BY <2>1, <2>2, <3>1, <3>2 DEF Kept, At
  <2>4. CASE ~Refused(Window)
    <3>1. /\ pc'[Window] \in {"reload", "truncate"}
          /\ file' = file /\ cur' = cur
      BY <1>1, <1>3, <2>4 DEF RefuseIfRemote, Go
    <3>2. Listed(Aim)' = Listed(Mem)
      BY <3>1 DEF Aim, Decided, Listed, Mem
    <3>3. Listed(disk) \subseteq Listed(Mem) \cup {Now}
      BY <2>1 DEF OneInv, Held, Drafted, At
    <3>4. QED BY <2>1, <2>2, <3>1, <3>2, <3>3 DEF Kept, At, Decided, Now
  <2>5. QED BY <2>3, <2>4
<1>4. ASSUME \/ Reload(Window) \/ Truncate(Window) \/ Write(Window) \/ ReadSettings(Window)
             \/ SetCap(Window) \/ StopAll(Window) \/ ClearHistory(Window)
             \/ RemoveStops(Window)
      PROVE  Kept'
  <2>1. /\ Decided /\ Decided' /\ ~At({"drop"})' /\ ~At({"stopAll"})'
        /\ cur'[Window] = cur[Window] /\ file'[Window].hosts = file[Window].hosts
        /\ procs' = procs /\ history' \subseteq history /\ tardy' = tardy
    BY <1>1, <1>4 DEF Reload, Truncate, Write, AfterWrite, ReadSettings, SetCap, StopAll,
       ClearHistory, RemoveStops, Go, Decided, At, store, HostsFile
  <2>2. Listed(Aim)' = Listed(Aim)
    BY <2>1 DEF Aim, Listed, Decided
  <2>3. QED BY <2>1, <2>2, KeptStays
<1>5. ASSUME \/ \E h \in Hosts : StartStops(Window, h)
             \/ StartSpawns(Window) \/ StartRegisters(Window)
      PROVE  Kept'
  <2>1. /\ Decided /\ Decided' /\ ~At({"stopAll", "drop"})' /\ file' = file
        /\ At({"start", "meter", "register"})
        /\ procs' = procs /\ history' = history /\ tardy' = tardy
    BY <1>1, <1>5 DEF StartStops, StartSpawns, StartRegisters, Go, Decided, At, store
  <2>2. Listed(Aim)' = Listed(Aim) /\ Aim = Mem
    BY <2>1 DEF Aim, Listed, Decided, Mem
  <2>3. \A h \in Hosts \ Listed(Mem) : h # Now
    <3>1. CASE At({"meter", "register"})
      BY <3>1 DEF At, OneInv, Inv, HandsOverListedHosts, Mem, Now
    <3>2. CASE At({"start"})
      <4>1. op[Window] # "remove_host"
        BY <3>2 DEF At, OneInv, Inv, HandsOverListedHosts
      <4>2. Now = None
        BY <3>2, <4>1 DEF At, OneInv, Held, Steps
      <4>3. QED BY <4>2, NoneIsNoValue
    <3>3. QED BY <2>1, <3>1, <3>2 DEF At
  <2>4. QED BY <2>1, <2>2, <2>3 DEF Kept, At
<1>6. ASSUME Finish(Window) PROVE Kept'
  <2>1. /\ pc[Window] = "start" /\ pc'[Window] = "idle" /\ disk' = disk
        /\ procs' = procs /\ history' = history /\ tardy' = tardy
    BY <1>1, <1>6 DEF Finish, Return, Go, store
  <2>2. op[Window] # "remove_host" /\ Mem = disk
    BY <2>1 DEF At, OneInv, Inv, HandsOverListedHosts, Held, Drafted, Saved
  <2>3. Now = None
    BY <2>1, <2>2 DEF At, OneInv, Held, Steps
  <2>4. Listed(Aim)' = Listed(disk) /\ Aim = disk
    BY <2>1, <2>2 DEF Aim, Decided, Listed, Mem
  <2>5. QED BY <2>1, <2>3, <2>4, NoneIsNoValue DEF Kept, At
<1>7. ASSUME Forget(Window) PROVE Kept'
  <2>1. /\ pc[Window] = "forget" /\ pc'[Window] = "drop" /\ file' = file /\ cur' = cur
        /\ procs' = procs \ {Now} /\ history' = history /\ tardy' = tardy \ {Now}
    BY <1>1, <1>7 DEF Forget, Go, Now
  <2>2. Listed(Aim)' = Listed(Aim)
    BY <2>1 DEF Aim, Decided, Listed
  <2>3. QED BY <2>1, <2>2 DEF Kept, At, Decided, Now
<1>8. ASSUME ForgetHistory(Window) PROVE Kept'
  <2>1. /\ pc[Window] = "drop" /\ pc'[Window] = "idle" /\ disk' = disk
        /\ procs' = procs /\ history' = history \ {Now} /\ tardy' = tardy
    BY <1>1, <1>8 DEF ForgetHistory, Return, Go, Now
  <2>2. Mem = disk
    BY <2>1 DEF At, OneInv, Held, Drafted, Saved
  <2>3. Listed(Aim)' = Listed(disk) /\ Aim = disk
    BY <2>1, <2>2 DEF Aim, Decided, Listed, Mem
  <2>4. QED BY <2>1, <2>3 DEF Kept, At
<1>9. QED
  BY <1>2, <1>3, <1>4, <1>5, <1>6, <1>7, <1>8 DEF Continue

\* What records for a host that is not listed is being aborted, or remove_host
\* has yet to stop it.
LEMMA TaskKept ==
  ASSUME OneInv, Kept, NEW h \in Hosts, RecordSample(h) \/ RecordProcs(h) \/ Die(h)
  PROVE  Kept'
<1>1. /\ disk' = disk /\ tasks' = tasks /\ pc' = pc /\ file' = file /\ cur' = cur
      /\ procs' \subseteq procs \cup {h} /\ history' \subseteq history \cup {h}
      /\ tardy \subseteq tardy'
  BY DEF RecordSample, RecordProcs, Marked, Die, supervisor, client, store
<1>2. Listed(Aim)' = Listed(Aim) /\ Listed(Mem)' = Listed(Mem)
  BY <1>1 DEF Aim, Decided, Listed, Mem
<1>3. CASE Die(h)
  BY <1>1, <1>2, <1>3 DEF Die, store, Kept, At, Decided, Now
<1>4. CASE ~Die(h) /\ h \in dying
  BY <1>1, <1>2, <1>4 DEF RecordSample, RecordProcs, Marked, Kept, At, Decided, Now
<1>5. CASE h \in Listed(Aim)
  BY <1>1, <1>2, <1>5 DEF Kept, At, Decided, Now
<1>6. CASE Sampling(h) /\ h \notin dying /\ h \notin Listed(Aim)
  <2>1. ~At({"load"}) /\ detached = {}
    BY <1>6 DEF OneInv, Held, Stopped
  <2>2. ~(At({"register"}) /\ Now = h)
    BY <1>6 DEF At, Now, OneInv, Inv, HandsOverListedHosts, Aim, Decided
  <2>3. tasks[h] # None
    BY <1>6, <2>1, <2>2, SamplingOne
  <2>4. ~At({"stopAll"})
    BY <1>6, <2>3 DEF Kept, At, Aim, Decided, Mem
  <2>5. Owed(h)
    BY <1>6, <2>3 DEF OneInv, Held, Followed, Asked
  <2>6. Decided /\ h = Now
    BY <1>6, <2>1, <2>4, <2>5
    DEF Owed, At, Now, OneInv, Inv, HandsOverListedHosts, Aim, Decided
  <2>7. ~At({"drop"})
    BY <2>3, <2>6 DEF OneInv, Held, Stopped, At
  <2>8. QED BY <1>1, <1>2, <2>4, <2>6, <2>7 DEF Kept, At, Decided, Now
<1>7. QED
  BY <1>3, <1>4, <1>5, <1>6 DEF RecordSample, RecordProcs

LEMMA KeptNext == OneInv /\ Kept /\ [Next]_vars => Kept'
<1> SUFFICES ASSUME OneInv, Kept, [Next]_vars PROVE Kept'
  OBVIOUS
<1>1. ASSUME NEW c \in Clients, Request(c) \/ Continue(c) PROVE Kept'
  BY <1>1, RequestKept, ContinueKept
<1>2. ASSUME NEW h \in Hosts, RecordSample(h) \/ RecordProcs(h) \/ Die(h) PROVE Kept'
  BY <1>2, TaskKept
<1>3. ASSUME Restart PROVE Kept'
  BY <1>3 DEF Restart, Kept, At
<1>4. ASSUME UNCHANGED vars PROVE Kept'
  BY <1>4 DEF vars, client, supervisor, store, Kept, At, Now, Mem, Aim, Decided, Listed
<1>5. QED BY <1>1, <1>2, <1>3, <1>4 DEF Next

\* Between commands nothing the program keeps per host names one that is no
\* longer in the file: no task, interval or traffic counter, and no entry in
\* latest, cgroups, restarts or the history but what a task that was being
\* aborted recorded after remove_host had emptied them (remove_host,
\* Supervisor::forget, HistoryStore::forget_host; supervisor.rs:329).
THEOREM RemovedHostIsForgottenCorrect == Spec => []RemovedHostIsForgotten
<1>1. OneInv /\ Kept => RemovedHostIsForgotten
  BY DEF OneInv, Held, Followed, Metered, Kept, RemovedHostIsForgotten, Quiet, Owed, Aim,
         Decided, Asked
<1>2. Init => Kept
  BY DEF Init, Kept, At
<1>3. QED BY <1>1, <1>2, KeptNext, OneInvariant, PTL DEF Spec

-----------------------------------------------------------------------------
(* OneWindow implements FleetContract, also when the program dies. *)

\* What the command in flight does to the file, if anything.
Meant == Mem = disk \/ Contract!Edit(disk, Mem)

\* The edit a command has in hand is the one its first step meant, until the
\* file is opened; the fleet is not touched before that except by use_endpoint;
\* and a file that is open for writing is empty.
Intended ==
  /\ At({"refuse"}) /\ disk.server = None => Meant
  /\ At({"reload", "stopAll", "clear", "truncate"}) => Meant
Untouched ==
  At({"reload", "truncate"}) /\ op[Window] # "use_endpoint" =>
    \A h \in Hosts : tasks[h] = Asked(disk, h)
Emptied == At({"write"}) => disk = BlankFile
Faithful == Intended /\ Untouched /\ Emptied

\* The commands edit the file in the ways the contract lists, and no other.
LEMMA HostCommandsMean ==
  ASSUME disk \in HostsFile, disk.server = None, NEW f, NEW h \in Hosts, f # disk,
         \/ f = Edited(h, None)
         \/ disk.hosts[h] = None /\ \E cfg \in HostConfig : f = Edited(h, cfg)
         \/ /\ disk.hosts[h] # None
            /\ \/ \E r \in Rates \cup {None} :
                    f = Edited(h, [disk.hosts[h] EXCEPT
                                     !.rate = IF r = None THEN None ELSE Clamp(r, MinRate, MaxRate)])
               \/ \E g \in Groups \cup {None} : f = Edited(h, [disk.hosts[h] EXCEPT !.group = g])
               \/ \E os \in OSes : f = Edited(h, [disk.hosts[h] EXCEPT !.os = os])
               \/ \E p \in BOOLEAN : f = Edited(h, [disk.hosts[h] EXCEPT !.paused = p])
  PROVE  Contract!Edit(disk, f)
<1> USE DEF Edited, Contract!WithHost
<1>1. CASE f = Edited(h, None)
  BY <1>1 DEF Contract!Edit, Contract!RemoveHost
<1>2. CASE disk.hosts[h] = None /\ \E cfg \in HostConfig : f = Edited(h, cfg)
  BY <1>2 DEF Contract!Edit, Contract!AddHost
<1>3. ASSUME disk.hosts[h] # None, NEW r \in Rates \cup {None},
             f = Edited(h, [disk.hosts[h] EXCEPT
                              !.rate = IF r = None THEN None ELSE Clamp(r, MinRate, MaxRate)])
      PROVE  Contract!SetHost(disk, f)
  <2> DEFINE rate == IF r = None THEN None ELSE Clamp(r, MinRate, MaxRate)
  <2>1. rate \in {q \in Rates : MinRate <= q /\ q <= MaxRate} \cup {None}
    BY ClampedRequest, RateBounds DEF Clamp
  <2>2. f = Edited(h, [disk.hosts[h] EXCEPT !.rate = rate])
    BY <1>3
  <2> HIDE DEF rate
  <2>3. QED BY <1>3, <2>1, <2>2 DEF Contract!SetHost
<1>4. ASSUME disk.hosts[h] # None, NEW g \in Groups \cup {None},
             f = Edited(h, [disk.hosts[h] EXCEPT !.group = g])
      PROVE  Contract!SetHost(disk, f)
  BY <1>4 DEF Contract!SetHost
<1>5. ASSUME disk.hosts[h] # None, NEW os \in OSes,
             f = Edited(h, [disk.hosts[h] EXCEPT !.os = os])
      PROVE  Contract!SetHost(disk, f)
  BY <1>5 DEF Contract!SetHost
<1>6. ASSUME disk.hosts[h] # None, NEW p \in BOOLEAN,
             f = Edited(h, [disk.hosts[h] EXCEPT !.paused = p])
      PROVE  Contract!SetHost(disk, f)
  BY <1>6 DEF Contract!SetHost
<1>7. QED BY <1>1, <1>2, <1>3, <1>4, <1>5, <1>6 DEF Contract!Edit

LEMMA SettingsMean ==
  ASSUME disk \in HostsFile, NEW r \in Rates, NEW m \in Caps, NEW p \in Prefs,
         NEW f, f = [disk EXCEPT !.rate = Clamp(r, MinRate, MaxRate),
                                 !.cap = Clamp(m, MinCap, MaxCap), !.prefs = p]
  PROVE  /\ disk.server = None => Contract!Edit(disk, f)
         /\ Clamp(r, MinRate, MaxRate) = disk.rate /\ Clamp(m, MinCap, MaxCap) = disk.cap
              => Contract!Edit(disk, f)
<1>1. /\ Clamp(r, MinRate, MaxRate) \in {q \in Rates : MinRate <= q /\ q <= MaxRate}
      /\ Clamp(m, MinCap, MaxCap) \in {q \in Caps : MinCap <= q /\ q <= MaxCap}
  BY RateBounds, CapBounds DEF Clamp
<1>2. ASSUME disk.server = None PROVE Contract!Edit(disk, f)
  BY <1>1, <1>2 DEF Contract!Edit, Contract!SetFleet
<1>3. ASSUME Clamp(r, MinRate, MaxRate) = disk.rate, Clamp(m, MinCap, MaxCap) = disk.cap
      PROVE  Contract!Edit(disk, f)
  <2>1. f = [disk EXCEPT !.prefs = p]
    BY <1>3 DEF HostsFile
  <2>2. QED BY <2>1 DEF Contract!Edit, Contract!SetPrefs
<1>4. QED BY <1>2, <1>3

\* The first step of a command: what it holds in memory is what it means.
LEMMA RequestMeans ==
  ASSUME OneInv, Faithful, Request(Window)
  PROVE  Faithful' /\ disk' = disk /\ tasks' = tasks /\ At({"idle"})
         /\ At({"refuse", "stopAll", "truncate"})'
<1>1. disk \in HostsFile /\ pc \in [Clients -> Stages] /\ file \in [Clients -> HostsFile]
      /\ op \in [Clients -> Commands \cup {"start_all", None}]
  BY DEF OneInv, Inv, TypeOK
<1>2. ASSUME NEW o, NEW f, NEW stage, NEW hosts, NEW h,
             Begin(Window, o, f, stage, hosts, h), pc[Window] = "idle",
             stage \in {"refuse", "stopAll", "truncate"}, 
             stage = "stopAll" => o = "use_endpoint",
             stage # "refuse" \/ disk.server = None => f = disk \/ Contract!Edit(disk, f)
      PROVE  Faithful' /\ disk' = disk /\ tasks' = tasks /\ At({"idle"})
             /\ At({"refuse", "stopAll", "truncate"})'
  <2>1. /\ pc'[Window] = stage /\ op'[Window] = o /\ file'[Window] = f
        /\ disk' = disk /\ tasks' = tasks
    BY <1>1, <1>2 DEF Begin, supervisor
  <2>2. \A x \in Hosts : tasks[x] = Asked(disk, x)
    BY <1>2 DEF OneInv, Held, Followed, Owed, Aim, Decided, At
  <2>3. Meant' <=> f = disk \/ Contract!Edit(disk, f)
    BY <2>1 DEF Meant, Mem, Contract!Edit, Contract!AddHost, Contract!RemoveHost,
       Contract!SetHost, Contract!SetFleet, Contract!SetPrefs, Contract!SetSaved,
       Contract!Switch, Contract!WithHost
  <2>4. Intended'
    BY <1>2, <2>1, <2>3 DEF Intended, At
  <2>5. \A x \in Hosts : Asked(disk, x)' = Asked(disk, x)
    BY <2>1 DEF Asked, Listed, SamplerFor, EffectiveRate
  <2>6. Untouched' /\ Emptied'
    BY <1>2, <2>1, <2>2, <2>5 DEF Untouched, Emptied, At
  <2>7. QED BY <1>2, <2>1, <2>4, <2>6 DEF Faithful, At
<1> DEFINE Goal == Faithful' /\ disk' = disk /\ tasks' = tasks /\ At({"idle"})
                   /\ At({"refuse", "stopAll", "truncate"})'
<1> HIDE DEF Goal
<1>3. ASSUME NEW o, NEW f, NEW hosts, NEW x, Ready(Window, o), NEW h \in Hosts,
             Begin(Window, o, f, "refuse", hosts, x),
             disk.server = None => f = disk \/ Contract!Edit(disk, f)
      PROVE  Goal
  BY <1>2, <1>3 DEF Ready, Goal
<1>4. ASSUME NEW h \in Hosts, NEW cfg \in HostConfig, AddHost(Window, h, cfg) PROVE Goal
  BY <1>1, <1>3, <1>4, HostCommandsMean DEF AddHost
<1>5. ASSUME NEW h \in Hosts, RemoveHost(Window, h) PROVE Goal
  BY <1>1, <1>3, <1>5, HostCommandsMean DEF RemoveHost
<1>6. ASSUME ReorderHosts(Window) PROVE Goal
  BY <1>2, <1>6 DEF ReorderHosts, Ready, Goal
<1>7. ASSUME NEW r \in Rates, NEW m \in Caps, NEW p \in Prefs, SetSettings(Window, r, m, p)
      PROVE  Goal
  <2> DEFINE f == [disk EXCEPT !.rate = Clamp(r, MinRate, MaxRate),
                               !.cap = Clamp(m, MinCap, MaxCap), !.prefs = p]
             same == Clamp(r, MinRate, MaxRate) = disk.rate /\ Clamp(m, MinCap, MaxCap) = disk.cap
  <2>1. (disk.server = None => Contract!Edit(disk, f)) /\ (same => Contract!Edit(disk, f))
    BY <1>1, SettingsMean
  <2>2. /\ Begin(Window, "set_settings", f, IF same THEN "truncate" ELSE "refuse",
                 Restarted(f, disk), None)
        /\ pc[Window] = "idle"
    BY <1>7 DEF SetSettings, Ready
  <2> HIDE DEF f, same
  <2>3. QED BY <1>2, <2>1, <2>2 DEF Goal
<1>8. ASSUME NEW h \in Hosts, NEW r \in Rates \cup {None}, SetHostInterval(Window, h, r) PROVE Goal
  BY <1>1, <1>3, <1>8, HostCommandsMean DEF SetHostInterval
<1>9. ASSUME NEW h \in Hosts, NEW g \in Groups \cup {None}, SetHostGroup(Window, h, g) PROVE Goal
  BY <1>1, <1>3, <1>9, HostCommandsMean DEF SetHostGroup
<1>10. ASSUME NEW h \in Hosts, NEW os \in OSes, SetHostOs(Window, h, os) PROVE Goal
  BY <1>1, <1>3, <1>10, HostCommandsMean DEF SetHostOs
<1>11. ASSUME NEW h \in Hosts, NEW p \in BOOLEAN, SetHostPaused(Window, h, p) PROVE Goal
  BY <1>1, <1>3, <1>11, HostCommandsMean DEF SetHostPaused
<1>12. ASSUME NEW s \in Servers \cup {None}, UseEndpoint(Window, s) PROVE Goal
  <2> DEFINE f == [disk EXCEPT !.server = s]
  <2>1. Contract!Edit(disk, f)
    BY DEF Contract!Edit, Contract!Switch
  <2> HIDE DEF f
  <2>2. /\ Begin(Window, "use_endpoint", f, "stopAll", IF s = None THEN Listed(f) ELSE {}, None)
        /\ pc[Window] = "idle"
    BY <1>12 DEF UseEndpoint, Ready, f
  <2>3. QED BY <1>2, <2>1, <2>2 DEF Goal
<1>13. ASSUME NEW o, NEW f, Ready(Window, o), Begin(Window, o, f, "truncate", {}, None),
              Contract!SetSaved(disk, f)
       PROVE  Goal
  BY <1>2, <1>13 DEF Ready, Goal, Contract!Edit
<1>14. ASSUME NEW e \in Endpoints, AddEndpoint(Window, e) \/ RemoveEndpoint(Window, e) PROVE Goal
  BY <1>13, <1>14 DEF AddEndpoint, RemoveEndpoint, Contract!SetSaved
<1>15. ASSUME NEW e \in Endpoints, NEW name \in Endpoints, UpdateEndpoint(Window, e, name)
       PROVE  Goal
  BY <1>13, <1>15 DEF UpdateEndpoint, Contract!SetSaved
<1>16. Goal
  BY <1>4, <1>5, <1>6, <1>7, <1>8, <1>9, <1>10, <1>11, <1>12, <1>14, <1>15 DEF Request
<1>17. QED BY <1>16 DEF Goal

\* Every later step keeps the edit in hand as it is.
LEMMA ContinueKeeps ==
  ASSUME OneInv, Faithful, Continue(Window)
  PROVE  Faithful'
<1>1. /\ disk \in HostsFile /\ pc \in [Clients -> Stages] /\ file \in [Clients -> HostsFile]
      /\ op \in [Clients -> Commands \cup {"start_all", None}]
  BY DEF OneInv, Inv, TypeOK
<1>2. ASSUME file'[Window] = file[Window], disk' = disk PROVE Meant' <=> Meant
  BY <1>2 DEF Meant, Mem, Contract!Edit, Contract!AddHost, Contract!RemoveHost,
     Contract!SetHost, Contract!SetFleet, Contract!SetPrefs, Contract!SetSaved,
     Contract!Switch, Contract!WithHost
<1>3. ASSUME disk' = disk PROVE \A h \in Hosts : Asked(disk, h)' = Asked(disk, h)
  BY <1>3 DEF Asked, Listed, SamplerFor, EffectiveRate
<1>4. ASSUME RefuseIfRemote(Window) PROVE Faithful'
  <2>1. /\ At({"refuse"}) /\ disk' = disk /\ tasks' = tasks
    BY <1>4 DEF RefuseIfRemote, At, supervisor
  <2>2. CASE Refused(Window)
    <3>1. pc'[Window] = "idle"
      BY <1>1, <1>4, <2>2 DEF RefuseIfRemote, Return, Go
    <3>2. QED BY <3>1 DEF Faithful, Intended, Untouched, Emptied, At
  <2>3. CASE ~Refused(Window)
    <3>1. file' = file /\ At({"reload", "truncate"})'
      BY <1>1, <1>4, <2>3 DEF RefuseIfRemote, Go, At
    <3>2. Meant'
      BY <1>2, <2>1, <2>3, <3>1 DEF Faithful, Intended, Refused
    <3>3. \A h \in Hosts : tasks[h] = Asked(disk, h)
      BY <2>1 DEF OneInv, Held, Followed, Owed, Aim, Decided, At
    <3>4. QED BY <1>3, <2>1, <3>1, <3>2, <3>3 DEF Faithful, Intended, Untouched, Emptied, At
  <2>4. QED BY <2>2, <2>3
<1>5. ASSUME Reload(Window) PROVE Faithful'
  <2>1. /\ At({"reload"}) /\ disk' = disk /\ tasks' = tasks /\ op' = op
        /\ pc'[Window] = "truncate"
    BY <1>1, <1>5 DEF Reload, At, Go, supervisor
  <2>2. file[Window] = [disk EXCEPT !.hosts = file[Window].hosts]
    BY <2>1 DEF OneInv, Held, Drafted, Mem
  <2>3. file' = file
    BY <1>1, <1>5, <2>2 DEF Reload
  <2>4. QED BY <1>2, <1>3, <2>1, <2>3 DEF Faithful, Intended, Untouched, Emptied, At
<1>6. ASSUME StopAll(Window) PROVE Faithful'
  <2>1. /\ At({"stopAll"}) /\ disk' = disk /\ file' = file /\ pc'[Window] = "clear"
    BY <1>1, <1>6 DEF StopAll, At, Go
  <2>2. QED BY <1>2, <2>1 DEF Faithful, Intended, Untouched, Emptied, At
<1>7. ASSUME ClearHistory(Window) PROVE Faithful'
  <2>1. /\ At({"clear"}) /\ disk' = disk /\ file' = file /\ pc'[Window] = "truncate" /\ op' = op
    BY <1>1, <1>7 DEF ClearHistory, At, Go
  <2>2. op[Window] = "use_endpoint"
    BY <2>1 DEF OneInv, Held, Steps, At
  <2>3. QED BY <1>2, <2>1, <2>2 DEF Faithful, Intended, Untouched, Emptied, At
<1>8. ASSUME Truncate(Window) PROVE Faithful'
  <2>1. pc'[Window] = "write" /\ disk' = BlankFile
    BY <1>1, <1>8 DEF Truncate, Go
  <2>2. BlankFile' = BlankFile
    BY DEF BlankFile
  <2>3. QED BY <2>1, <2>2 DEF Faithful, Intended, Untouched, Emptied, At
<1>9. ASSUME \/ StartAll(Window) \/ Write(Window) \/ ReadSettings(Window) \/ SetCap(Window)
             \/ StartSpawns(Window) \/ StartRegisters(Window) \/ Finish(Window)
             \/ RemoveStops(Window) \/ Forget(Window) \/ ForgetHistory(Window)
             \/ \E h \in Hosts : StartStops(Window, h)
      PROVE  Faithful'
  <2>1. pc'[Window] \in {"idle"} \cup Saved
    BY <1>1, <1>9 DEF StartAll, Write, ReadSettings, SetCap, StartSpawns, StartRegisters,
       Finish, RemoveStops, Forget, ForgetHistory, StartStops, Return, Go, AfterWrite, Saved
  <2>2. QED BY <2>1 DEF Faithful, Intended, Untouched, Emptied, At, Saved
<1>10. QED
  BY <1>4, <1>5, <1>6, <1>7, <1>8, <1>9 DEF Continue

LEMMA FaithfulNext == OneInv /\ Faithful /\ [Next]_vars => Faithful'
<1> SUFFICES ASSUME OneInv, Faithful, [Next]_vars PROVE Faithful'
  OBVIOUS
<1>1. ASSUME NEW c \in Clients, Request(c) \/ Continue(c) PROVE Faithful'
  BY <1>1, RequestMeans, ContinueKeeps
<1>2. ASSUME disk' = disk, tasks' = tasks, client' = client PROVE Faithful'
  <2>1. (Meant' <=> Meant) /\ \A h \in Hosts : Asked(disk, h)' = Asked(disk, h)
    BY <1>2 DEF client, Meant, Mem, Contract!Edit, Contract!AddHost, Contract!RemoveHost,
       Contract!SetHost, Contract!SetFleet, Contract!SetPrefs, Contract!SetSaved,
       Contract!Switch, Contract!WithHost, Asked, Listed, SamplerFor, EffectiveRate
  <2>2. BlankFile' = BlankFile
    BY DEF BlankFile
  <2>3. QED BY <1>2, <2>1, <2>2 DEF client, Faithful, Intended, Untouched, Emptied, At
<1>3. ASSUME NEW h \in Hosts, RecordSample(h) \/ RecordProcs(h) \/ Die(h) PROVE Faithful'
  BY <1>2, <1>3 DEF RecordSample, RecordProcs, Die, supervisor
<1>4. ASSUME Restart PROVE Faithful'
  <2>1. pc'[Window] = "load"
    BY <1>4 DEF Restart
  <2>2. QED BY <2>1 DEF Faithful, Intended, Untouched, Emptied, At
<1>5. ASSUME UNCHANGED vars PROVE Faithful'
  BY <1>2, <1>5 DEF vars, supervisor
<1>6. QED BY <1>1, <1>3, <1>4, <1>5 DEF Next

LEMMA ContractInvariant == Spec => [](OneInv /\ Faithful)
<1>1. Init => Faithful
  BY DEF Init, Faithful, Intended, Untouched, Emptied, At
<1>2. QED BY <1>1, FaithfulNext, OneInvariant, PTL DEF Spec

\* What makes the refinement mapping sound: in every state the samplers, read
\* through the mapping, are those the file asks for.
LEMMA WatchedIsAsked ==
  OneInv /\ Faithful => Watched = Contract!WatchedFor(Conf)
<1> SUFFICES ASSUME OneInv, Faithful, NEW h \in Hosts, ~Pending(h)
             PROVE  tasks[h] = Asked(Conf, h)
  BY DEF Watched, Contract!WatchedFor
<1>1. pc[Window] \in Stages
  BY DEF OneInv, Inv, TypeOK
<1>2. CASE Committed
  BY <1>2 DEF OneInv, Held, Followed, Owed, Aim, Decided, At, Mem, Rest, Now, Pending, Conf,
              Committed
<1>3. CASE At({"idle", "refuse"})
  BY <1>3 DEF OneInv, Held, Followed, Owed, Aim, Decided, At, Conf, Committed
<1>4. CASE At({"reload", "truncate"})
  BY <1>4 DEF Faithful, Untouched, At, Pending, Conf, Committed
<1>5. CASE At({"stopAll", "clear"})
  BY <1>5 DEF OneInv, Held, Steps, At, Pending, Committed
<1>6. QED
  BY <1>1, <1>2, <1>3, <1>4, <1>5 DEF Stages, At, Committed, Pending

\* The file, read through the mapping, changes when it is opened for writing
\* and when the program dies while it is open.
LEMMA ConfSteps ==
  ASSUME OneInv, Faithful, [Next]_vars
  PROVE  \/ Conf' = Conf
         \/ Contract!Edit(Conf, Conf')
         \/ (Crashes /\ Conf' = BlankFile)
<1>1. pc \in [Clients -> Stages] /\ file \in [Clients -> HostsFile]
  BY DEF OneInv, Inv, TypeOK
<1>2. At(Saved) => file[Window] = disk
  BY DEF OneInv, Held, Drafted, Mem
<1>3. ASSUME Request(Window) PROVE Conf' = Conf
  BY <1>3, RequestMeans DEF At, Conf, Committed
<1>4. ASSUME Truncate(Window) PROVE Conf' = Conf \/ Contract!Edit(Conf, Conf')
  <2>1. Conf = disk /\ Conf' = file[Window] /\ At({"truncate"})
    BY <1>1, <1>4 DEF Truncate, Go, Conf, Committed, At
  <2>2. disk = file[Window] \/ Contract!Edit(disk, file[Window])
    BY <2>1 DEF Faithful, Intended, Meant, Mem, At
  <2>3. QED BY <2>1, <2>2, Zenon
<1>5. ASSUME Write(Window) PROVE Conf' = Conf
  <2>1. /\ Committed /\ Committed' /\ file' = file
    BY <1>1, <1>5 DEF Write, Go, AfterWrite, Committed
  <2>2. QED BY <2>1 DEF Conf
<1>6. ASSUME Continue(Window), ~Truncate(Window), ~Write(Window) PROVE Conf' = Conf
  <2>1. disk' = disk
    BY <1>6 DEF Continue, StartAll, RefuseIfRemote, Reload, ReadSettings, SetCap, StopAll,
       ClearHistory, StartStops, StartSpawns, StartRegisters, Finish, RemoveStops, Forget,
       ForgetHistory
  <2>2. ~At({"write"})
    BY <1>6 DEF Continue, StartAll, RefuseIfRemote, Reload, ReadSettings, SetCap, StopAll,
       ClearHistory, StartStops, StartSpawns, StartRegisters, Finish, RemoveStops, Forget,
       ForgetHistory, At
  <2>3. Conf = disk
    BY <1>1, <1>2, <2>2 DEF Conf, Committed, At, Saved
  <2>4. OneInv'
    BY OneNext
  <2>5. ~At({"write"})'
    BY <1>1, <1>6 DEF Continue, StartAll, RefuseIfRemote, Reload, ReadSettings, SetCap, StopAll,
       ClearHistory, StartStops, StartSpawns, StartRegisters, Finish, RemoveStops, Forget,
       ForgetHistory, At, Go, Return
  <2>6. At(Saved)' => file'[Window] = disk'
    BY <2>4 DEF OneInv, Held, Drafted, Mem
  <2>7. Conf' = disk'
    BY <2>5, <2>6 DEF Conf, Committed, At, Saved
  <2>8. QED BY <2>1, <2>3, <2>7
<1>7. ASSUME Restart PROVE Conf' = Conf \/ (Crashes /\ Conf' = BlankFile)
  <2>1. Crashes /\ Conf' = disk
    BY <1>7 DEF Restart, Conf, Committed
  <2>2. CASE At({"write"})
    BY <2>1, <2>2 DEF Faithful, Emptied
  <2>3. CASE ~At({"write"})
    BY <1>2, <2>1, <2>3 DEF Conf, Committed, At, Saved
  <2>4. QED BY <2>2, <2>3
<1>8. ASSUME disk' = disk, client' = client PROVE Conf' = Conf
  BY <1>8 DEF client, Conf, Committed
<1>9. ASSUME NEW h \in Hosts, RecordSample(h) \/ RecordProcs(h) \/ Die(h) PROVE Conf' = Conf
  BY <1>8, <1>9 DEF RecordSample, RecordProcs, Die
<1>10. ASSUME UNCHANGED vars PROVE Conf' = Conf
  BY <1>8, <1>10 DEF vars
<1>11. ASSUME NEW c \in Clients, Request(c) \/ Continue(c)
       PROVE  Conf' = Conf \/ Contract!Edit(Conf, Conf')
  BY <1>3, <1>4, <1>5, <1>6, <1>11
<1>12. QED BY <1>7, <1>9, <1>10, <1>11 DEF Next

LEMMA StepImplements ==
  ASSUME OneInv, Faithful, (OneInv /\ Faithful)', [Next]_vars
  PROVE  [Contract!Next]_<<Conf, Watched>>
<1>1. Watched = Contract!WatchedFor(Conf) /\ Watched' = Contract!WatchedFor(Conf)'
  <2>1. (OneInv /\ Faithful)' => (Watched = Contract!WatchedFor(Conf))'
    BY WatchedIsAsked, PTL
  <2>2. QED BY <2>1, WatchedIsAsked
<1>2. Contract!WatchedFor(Conf)' = Contract!WatchedFor(Conf')
  BY DEF Contract!WatchedFor, Asked, Listed, SamplerFor, EffectiveRate
<1>3. CASE Conf' = Conf
  BY <1>1, <1>2, <1>3
<1>4. CASE Contract!Edit(Conf, Conf')
  BY <1>1, <1>2, <1>4 DEF Contract!Next, Contract!Command
<1>5. CASE Crashes /\ Conf' = BlankFile
  BY <1>1, <1>2, <1>5 DEF Contract!Next, Contract!LoseFile
<1>6. QED BY <1>3, <1>4, <1>5, ConfSteps

LEMMA InitImplements == Init => Contract!Init
<1> SUFFICES ASSUME Init PROVE Contract!Init
  OBVIOUS
<1>1. OneInv /\ Faithful /\ disk \in FirstFiles /\ pc[Window] = "load"
  BY InitInv, InitHeld DEF OneInv, Init, Faithful, Intended, Untouched, Emptied, At
<1>2. Conf \in FirstFiles
  BY <1>1 DEF Conf, Committed
<1>3. QED BY <1>1, <1>2, WatchedIsAsked DEF Contract!Init

\* Every command of the window is one step of the contract and every other
\* step is invisible, and when the program dies it is a step that loses the
\* file or no step at all: the handlers of service.rs over one file, written
\* by truncating it (config.rs:63), and one supervisor.
THEOREM ContractImplemented == Spec => MeetsContract
<1>1. Init => Contract!Init
  BY InitImplements
<1>2. OneInv /\ Faithful /\ (OneInv /\ Faithful)' /\ [Next]_vars
      => [Contract!Next]_<<Conf, Watched>>
  BY StepImplements
<1>3. QED
  BY <1>1, <1>2, ContractInvariant, PTL
  DEF Spec, MeetsContract, Contract!Spec, Contract!contract

\* No step of a running program throws a host's history away but remove_host
\* of that host and a switch of endpoint (history_store.rs: forget_host,
\* clear).
THEOREM HistoryOutlivesEditsCorrect == Spec => HistoryOutlivesEdits
<1>1. OneInv /\ [Next]_vars => [\A h \in history \ history' :
          \/ pc[Window] = "clear"
          \/ op[Window] = "remove_host" /\ cur[Window] = h
          \/ op'[Window] = "start_all" /\ pc'[Window] = "load"]_vars
  <2> SUFFICES ASSUME OneInv, [Next]_vars
      PROVE [\A h \in history \ history' :
              \/ pc[Window] = "clear"
              \/ op[Window] = "remove_host" /\ cur[Window] = h
              \/ op'[Window] = "start_all" /\ pc'[Window] = "load"]_vars
    OBVIOUS
  <2>1. CASE ClearHistory(Window)
    BY <2>1 DEF ClearHistory
  <2>2. CASE ForgetHistory(Window)
    BY <2>2 DEF ForgetHistory, OneInv, Inv, HandsOverListedHosts
  <2>3. CASE ~ClearHistory(Window) /\ ~ForgetHistory(Window)
    <3>1. ASSUME NEW c \in Clients, Request(c) \/ Continue(c) PROVE history' = history
      BY <2>3, <3>1 DEF Request, AddHost, RemoveHost, ReorderHosts, SetSettings,
         SetHostInterval, SetHostGroup, SetHostOs, SetHostPaused, UseEndpoint, AddEndpoint,
         UpdateEndpoint, RemoveEndpoint, Begin, store, Continue, StartAll, RefuseIfRemote,
         Reload, Truncate, Write, ReadSettings, SetCap, StopAll, StartStops, StartSpawns,
         StartRegisters, Finish, RemoveStops, Forget
    <3>2. ASSUME NEW h \in Hosts, RecordSample(h) \/ RecordProcs(h) \/ Die(h)
          PROVE  history \subseteq history'
      BY <3>2 DEF RecordSample, RecordProcs, Die, store
    <3>3. ASSUME Restart PROVE op'[Window] = "start_all" /\ pc'[Window] = "load"
      BY <3>3 DEF Restart
    <3>4. UNCHANGED vars \/ Restart \/ history \subseteq history'
      BY <3>1, <3>2 DEF Next
    <3>5. QED BY <3>3, <3>4
  <2>4. QED BY <2>1, <2>2, <2>3
<1>2. QED
  BY <1>1, OneInvariant, PTL DEF Spec, HistoryOutlivesEdits
=============================================================================
