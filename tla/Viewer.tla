------------------------------- MODULE Viewer -------------------------------
(***************************************************************************)
(* One window that watches either its own fleet or another Tuxtop's: the   *)
(* switch between them, which core and the desktop shell share, and the    *)
(* one reader of a server's event stream.                                  *)
(*                                                                         *)
(* service.rs use_endpoint stops the samplers, clears the history, writes  *)
(* the file and restarts the local fleet; main.rs use_endpoint then starts *)
(* or stops the reader (remote.rs ReadLoop) and probes the server; app.js  *)
(* asks for the capabilities.  Each is a step here: readers and samplers   *)
(* run on between them.                                                    *)
(*                                                                         *)
(* Abstracted: the local samplers are one task (Fleet has them one by      *)
(* one), the bytes of a session (module EventStream), delays, and what     *)
(* the window draws apart from the endpoint it names.  One switch at a     *)
(* time: the window waits for it.  FAULT marks what is not the model.      *)
(***************************************************************************)
CONSTANTS
  Servers,      \* endpoints that parse
  Bad,          \* one that does not, an https:// URL for instance
  None          \* no endpoint: this machine's own fleet

Fleets == Servers \cup {None}

VARIABLES
  server,   \* hosts.toml: viewer.server
  local,    \* whether the local samplers run
  reader,   \* ReadLoop.task: the server it reads and where it is, or None
  late,     \* fleets an aborted task is still in a poll for
  up,       \* the servers that are running
  history,  \* the fleets with samples in the history store
  pc,       \* where the switch is
  want,     \* the endpoint it was asked for
  broken,   \* whether the last switch failed to write the file
  chrome    \* the endpoint the window names: CAPS.endpoint

switch == <<pc, want, broken, chrome>>
vars == <<server, local, reader, late, up, history, switch>>

Reading(e, at) == [ep |-> e, at |-> at]
ReaderStates == {"connect", "read", "hung", "sleep", "gone"}

\* Two endpoints are told apart, and a task from no task.
ASSUME Distinct ==
  /\ Bad \notin Fleets /\ None \notin Servers
  /\ None \notin [ep : Servers \cup {Bad}, at : ReaderStates]

TypeOK ==
  /\ server \in Fleets \cup {Bad} /\ local \in BOOLEAN
  /\ reader \in [ep : Servers \cup {Bad}, at : ReaderStates] \cup {None}
  /\ late \subseteq Fleets /\ up \subseteq Servers /\ history \subseteq Fleets
  /\ pc \in {"launch", "idle", "stopAll", "clear", "save", "start", "swap", "probe", "refresh"}
  /\ want \in Fleets /\ broken \in BOOLEAN /\ chrome \in Fleets \cup {Bad}

\* A new process over a hosts.toml, which may name an endpoint no switch would
\* have taken.  setup has yet to run.
Launched ==
  /\ local' = FALSE /\ reader' = None /\ late' = {} /\ history' = {}
  /\ pc' = "launch" /\ want' = None /\ broken' = FALSE /\ chrome' = Bad

Init ==
  /\ server \in Fleets \cup {Bad} /\ up \in SUBSET Servers
  /\ local = FALSE /\ reader = None /\ late = {} /\ history = {}
  /\ pc = "launch" /\ want = None /\ broken = FALSE /\ chrome = Bad

\* The program dies, wherever it is, and is started again.
Relaunch ==
  /\ pc # "launch"
  /\ Launched
  /\ UNCHANGED <<server, up>>

\* abort() is a request: a task that is being polled finishes that poll first.
Abort(fleets) == \E some \in SUBSET fleets : late' = late \cup some

\* The reader that would record what it is reading: no other polls for long.
ReaderOf == IF reader # None /\ reader.at = "read" THEN {reader.ep} ELSE {}

\* setup: start_all starts the fleet unless a server is named, and the shell
\* then starts the reader.  The window asks for the capabilities when it is up.
StartUp ==
  /\ pc = "launch"
  /\ local' = (server = None)
  /\ reader' = IF server = None THEN None ELSE Reading(server, "connect")
  /\ pc' = "refresh"
  /\ UNCHANGED <<server, late, up, history, want, broken, chrome>>

-----------------------------------------------------------------------------
(* The switch. *)

Go(stage) == pc' = stage

\* Service::use_endpoint: a verdict on the text comes before anything is torn
\* down, and the endpoint that is already in use changes nothing in core.
UseEndpoint(e) ==
  /\ pc = "idle"
  /\ want' = IF e = Bad THEN None ELSE e
  /\ Go(IF e = Bad THEN "refresh" ELSE IF e = server THEN "swap" ELSE "stopAll")
  /\ UNCHANGED <<server, local, reader, late, up, history, broken, chrome>>

StopAll ==
  /\ pc = "stopAll"
  /\ local' = FALSE
  /\ Abort(IF local THEN {None} ELSE {})
  /\ Go("clear")
  /\ UNCHANGED <<server, reader, up, history, want, broken, chrome>>

Clear ==
  /\ pc = "clear"
  /\ history' = {}
  /\ Go("save")
  /\ UNCHANGED <<server, local, reader, late, up, want, broken, chrome>>

\* save_file, which may fail: then the command returns with nothing undone.
Save ==
  /\ pc = "save"
  /\ server' = want
  /\ broken' = FALSE
  /\ Go(IF want = None THEN "start" ELSE "swap")
  /\ UNCHANGED <<local, reader, late, up, history, want, chrome>>

SaveFails ==
  /\ pc = "save"
  /\ broken' = TRUE
  /\ Go("refresh")
  /\ UNCHANGED <<server, local, reader, late, up, history, want, chrome>>

StartLocal ==
  /\ pc = "start"
  /\ local' = TRUE
  /\ Go("swap")
  /\ UNCHANGED <<server, reader, late, up, history, want, broken, chrome>>

\* main.rs use_endpoint: ReadLoop::stop, or ReadLoop::start, which aborts the
\* reader that is there.
\* FAULT: switching back to local leaves the reader alone.
SwapOnlyStarts ==
  /\ pc = "swap"
  /\ IF want = None THEN UNCHANGED <<reader, late>>
     ELSE reader' = Reading(want, "connect") /\ Abort(ReaderOf)
  /\ Go(IF want = None THEN "refresh" ELSE "probe")
  /\ UNCHANGED <<server, local, up, history, want, broken, chrome>>
Swap ==
  /\ pc = "swap"
  /\ reader' = IF want = None THEN None ELSE Reading(want, "connect")
  /\ Abort(ReaderOf)
  /\ Go(IF want = None THEN "refresh" ELSE "probe")
  /\ UNCHANGED <<server, local, up, history, want, broken, chrome>>

\* post(capabilities): an answer, an error or REQUEST_TIMEOUT.  The switch
\* stands whichever it is.
Probe ==
  /\ pc = "probe"
  /\ Go("refresh")
  /\ UNCHANGED <<server, local, reader, late, up, history, want, broken, chrome>>

\* app.js switchEndpoint: the endpoint is asked for, not taken from the call.
\* FAULT: the one that was asked for is shown.
ShowsTheRequest ==
  /\ pc = "refresh"
  /\ chrome' = IF chrome = Bad THEN server ELSE want
  /\ want' = None
  /\ Go("idle")
  /\ UNCHANGED <<server, local, reader, late, up, history, broken>>
Refresh ==
  /\ pc = "refresh"
  /\ chrome' = server
  /\ want' = None
  /\ Go("idle")
  /\ UNCHANGED <<server, local, reader, late, up, history, broken>>

-----------------------------------------------------------------------------
(* The data planes. *)

LocalRecords ==
  /\ local
  /\ history' = history \cup {None}
  /\ UNCHANGED <<server, local, reader, late, up, switch>>

Move(from, to) ==
  /\ reader # None /\ reader.at = from
  /\ reader' = [reader EXCEPT !.at = to]
  /\ UNCHANGED <<server, local, late, up, history, switch>>

\* run: an endpoint that does not parse is a verdict and ends the task.
Refuses == Move("connect", "gone") /\ reader.ep = Bad

\* session: connect and a 200 head, or an error.
Connects == Move("connect", "read") /\ reader.ep \in up
ConnectFails == Move("connect", "sleep") /\ reader.ep \in Servers \ up

\* Every event of a sample is recorded, then sent to the window.
ReaderRecords ==
  /\ reader # None /\ reader.at = "read" /\ reader.ep \in up
  /\ history' = history \cup {reader.ep}
  /\ UNCHANGED <<server, local, reader, late, up, switch>>

\* The server closes the stream, or its end of the connection is reset.
\* FAULT: the loop ends with the session.
StreamEndsTheLoop == Move("read", "gone") /\ reader.ep \notin up
StreamEnds == Move("read", "sleep") /\ reader.ep \notin up

\* The connection dies without a word, before the head or after it: one read loop
\* waits for either and has no timeout.
LinkIsLost == (Move("connect", "hung") \/ Move("read", "hung")) /\ reader.ep \in Servers

\* reconnect_delay has passed.
Wakes == Move("sleep", "connect")

\* The poll an aborted task was in.
LateRecords(f) ==
  /\ f \in late
  /\ history' = history \cup {f}
  /\ UNCHANGED <<server, local, reader, late, up, switch>>
LateEnds(f) ==
  /\ f \in late
  /\ late' = late \ {f}
  /\ UNCHANGED <<server, local, reader, up, history, switch>>

ServerStarts(e) ==
  /\ e \notin up
  /\ up' = up \cup {e}
  /\ UNCHANGED <<server, local, reader, late, history, switch>>
ServerStops(e) ==
  /\ e \in up
  /\ up' = up \ {e}
  /\ UNCHANGED <<server, local, reader, late, history, switch>>

-----------------------------------------------------------------------------
Command == StopAll \/ Clear \/ Save \/ SaveFails \/ StartLocal \/ Swap \/ Probe \/ Refresh \/ StartUp
Reader == Refuses \/ Connects \/ ConnectFails \/ StreamEnds \/ Wakes

Next ==
  \/ \E e \in Fleets \cup {Bad} : UseEndpoint(e)
  \/ Command \/ Reader \/ LocalRecords \/ ReaderRecords \/ LinkIsLost
  \/ \E f \in Fleets : LateRecords(f) \/ LateEnds(f)
  \/ \E e \in Servers : ServerStarts(e) \/ ServerStops(e)
  \/ Relaunch

\* A command runs to its end, the reader's task is scheduled, its timers fire,
\* and the runtime drops what was aborted.  Nobody has to do anything.
Fairness ==
  /\ WF_vars(Command) /\ WF_vars(Reader)
  /\ \A f \in Fleets : WF_vars(LateEnds(f))

Spec == Init /\ [][Next]_vars /\ Fairness

-----------------------------------------------------------------------------
\* Between commands exactly one data plane runs, the one the file names: the
\* local samplers and no reader, or one reader of that server and no sampler,
\* whatever the order of switches, refusals, crashes and launches.  A switch
\* whose save failed has stopped the samplers and leaves it at that.
OneDataPlane ==
  pc = "idle" =>
    /\ IF server = None THEN reader = None
       ELSE reader # None /\ reader.ep = server
    /\ local = (server = None) \/ (broken /\ ~local)

\* Between commands the window names the fleet it is showing, whether the
\* switch succeeded, was refused, failed to save or reached nobody: "a refused
\* endpoint changes nothing at all, while a first connect that failed has still
\* switched this window" (app.js switchEndpoint).
ChromeIsTrue == pc = "idle" => chrome = server

\* "A viewer left open overnight against a server that restarts must come back
\* on its own" (src-tauri/src/remote.rs:116): while a server runs and its
\* reader is not waiting on a connection that died without a word, the reader
\* is reading again and again.
ComesBack ==
  \A e \in Servers :
    <>[](e \in up /\ reader # None /\ reader.ep = e /\ reader.at # "hung")
      => []<>(reader # None /\ reader.at = "read")

\* "History is discarded on a switch, never appended" (history_store.rs:175):
\* once a switch is over and what it aborted is gone, the history is of the
\* fleet the window shows.
FleetsNeverMix == pc = "idle" /\ late = {} => history \subseteq {server}

=============================================================================
