----------------------------- MODULE OneWindow -----------------------------
(***************************************************************************)
(* The command plane as one window drives it: a single thread issues the   *)
(* commands and the next one starts when the last has returned.  What the  *)
(* file and the samplers look like between commands, and that every        *)
(* command is an atomic step of FleetContract.                             *)
(***************************************************************************)
EXTENDS Fleet

CONSTANT Window
ASSUME OneClient == Clients = {Window}

-----------------------------------------------------------------------------
(***************************************************************************)
(* The refinement mapping.  A command takes effect when save_file opens    *)
(* hosts.toml: from then on the file is what the window holds in memory,   *)
(* and a host it has still to restart already counts as restarted.  Until  *)
(* then the old file stands, also for the samplers that use_endpoint has   *)
(* stopped by then.                                                        *)
(***************************************************************************)
Committed == pc[Window] \in {"write", "settings", "cap", "start", "meter", "register",
                             "stop", "forget", "drop"}

Conf == IF Committed THEN file[Window] ELSE disk

\* What a file asks of a host: nothing when a server is named, when the host
\* is not listed and when it is paused.
Asked(f, h) ==
  IF f.server # None \/ h \notin Listed(f) THEN None
  ELSE IF f.hosts[h].paused THEN None ELSE SamplerFor(f, h)

Pending(h) ==
  \/ pc[Window] = "load"
  \/ op[Window] = "use_endpoint" /\ ~Committed
  \/ Committed /\ (h \in todo[Window] \/ h = cur[Window])

Watched == [h \in Hosts |-> IF Pending(h) THEN Asked(Conf, h) ELSE tasks[h]]

Contract == INSTANCE FleetContract
              WITH Intervals <- {r \in Rates : MinRate <= r /\ r <= MaxRate},
                   Limits <- {m \in Caps : MinCap <= m /\ m <= MaxCap},
                   Blank <- BlankFile, Mortal <- Crashes, Running <- Asked,
                   conf <- Conf, watched <- Watched

\* Every command is one step of the contract, whatever its own steps are, and
\* dying in the middle of one leaves the old file, the new one or an empty one:
\* service.rs's handlers over one file and one supervisor.
MeetsContract == Contract!Spec

-----------------------------------------------------------------------------
Quiet == pc[Window] = "idle"

\* Supervisor::start overwrites a handle only after stop has aborted it
\* (supervisor.rs:135): no task runs that nothing can stop any more.
NoStraySampler == detached = {}

\* Between commands the meter projects a host's traffic at the rate its
\* sampler really runs at, and projects nothing for a host that is not
\* sampling (supervisor.rs:111): the intervals map follows the tasks map.
MeterTellsTheTruth ==
  Quiet /\ disk.server = None =>
    \A h \in Hosts :
      meters[h] = IF tasks[h] = None THEN None ELSE tasks[h].rate

\* Between commands, a host that is no longer in the file has no task, no
\* traffic counter and no interval left, no entry in latest, cgroups or restarts,
\* and no history (remove_host, Supervisor::forget, HistoryStore::forget_host):
\* but for what a task that was being aborted has recorded since (supervisor.rs:329).
RemovedHostIsForgotten ==
  Quiet => \A h \in Hosts \ Listed(disk) :
             /\ tasks[h] = None /\ h \notin counters /\ meters[h] = None
             /\ h \in procs \cup history => h \in tardy

\* The history limit in force is the one in the file before anything samples,
\* in remote mode too, and after every command (start_all, set_settings).
CapIsApplied ==
  /\ Quiet => cap = disk.cap
  /\ (\E h \in Hosts : Sampling(h)) => cap # None

\* While the program runs, a host's history is thrown away only by removing
\* the host or by leaving the fleet it belongs to: never by pausing it or by
\* editing it.  (What is in memory is gone when the program is started again.)
HistoryOutlivesEdits ==
  [][\A h \in history \ history' :
       \/ pc[Window] = "clear"
       \/ op[Window] = "remove_host" /\ cur[Window] = h
       \/ op'[Window] = "start_all" /\ pc'[Window] = "load"]_vars

\* Between commands the samplers are the ones the file asks for: none in
\* remote mode, none of a paused or a removed host, and every other host at
\* the rate and with the remote command it is configured for.  Unlike the
\* contract this also holds when the program dies inside a command and is
\* started again on whatever the file then holds (start_all).
SamplersMatchFile ==
  Quiet => \A h \in Hosts : tasks[h] = Asked(disk, h)

\* Once a switch to a server is asked for, no local sampler keeps running
\* against the fleet this window has stopped showing, not even an aborted one:
\* they fall silent, or a crash or a second switch brings the local fleet back.
RemoteFallsSilent ==
  pc[Window] = "stopAll" /\ file[Window].server # None
    ~> (\A h \in Hosts : ~Sampling(h)) \/ (Quiet /\ disk.server = None)

=============================================================================
