----------------------------- MODULE TwoClients -----------------------------
(***************************************************************************)
(* The command plane with several commands in flight, as tuxtop-serve's    *)
(* HTTP handlers run them (and the desktop's use_endpoint, which is async, *)
(* beside its synchronous commands).  What the source says of the file and *)
(* of the tasks, stated without assuming that commands take turns.         *)
(***************************************************************************)
EXTENDS Fleet

\* "A task dropped from the map is not cancelled, so the previous one is
\* aborted in `stop` before we overwrite the entry" (supervisor.rs:135):
\* start never drops the handle of a task that still runs.
NoTaskOutlivesItsHandle == detached = {}

=============================================================================
