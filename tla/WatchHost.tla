----------------------------- MODULE WatchHost -----------------------------
(***************************************************************************)
(* One watched host: watch_host's reconnect loop (fleet.rs), the ssh       *)
(* process and the pump that reads it (transport.rs), and the forwarder of *)
(* the process plane.  Four tasks and a process, joined by three bounded   *)
(* channels:                                                               *)
(*                                                                         *)
(*   ssh --pipe--> pump --tx--> watch_host --out--> consumer               *)
(*                     \--ptx--> forwarder --out-->                        *)
(*                                                                         *)
(* The consumer is the adapter of supervisor.rs or a command-line tool; it *)
(* may close out, and the whole watch may be dropped at any await (abort).  *)
(*                                                                         *)
(* Abstracted: what a frame contains (only which plane it belongs to and   *)
(* whether it carries processor rows), the text of a fault, and time: a    *)
(* backoff is a step, and which one is attempt.                            *)
(***************************************************************************)
EXTENDS Naturals, Sequences, SequencesExt

CONSTANTS
  TxCap,       \* 16: samples and faults, pump to watch_host
  PtxCap,      \* 4: process frames, pump to forwarder
  OutCap,      \* 16: events, to the consumer
  MaxAttempt,  \* BACKOFF.len() - 1, where the backoff saturates
  MaxFrames,   \* bound: frames one read completes
  MaxPumps     \* bound: pumps of earlier connections still winding up

ASSUME ChannelBounds == {TxCap, PtxCap, OutCap, MaxFrames} \subseteq Nat \ {0}
ASSUME LoopBounds == {MaxAttempt, MaxPumps} \subseteq Nat

Frames == {"metric", "empty", "procs"}       \* empty: no processor rows
ExitFaults == {"auth", "unreachable", "sampler"} \* classify_ssh_error
PumpFaults == ExitFaults \cup {"no_cpu", "read"}
Faults == PumpFaults \cup {"launch", "closed"}

VARIABLES
  windows,   \* whether the host is sampled by win_pump (cfg.os)
  phase,     \* where watch_host is in its loop
  attempt,   \* consecutive connections without a sample
  got,       \* got_data
  reported,
  item,      \* the event it is sending
  leaving,   \* out is closed: it returns once ssh is gone
  ssh,       \* the child process
  pipe,      \* whether its stdout holds unread bytes
  healthy,   \* whether the host answers and the link holds
  pump,      \* where the pump is
  primed,    \* win_pump: whether there is a frame to differentiate against
  todo,      \* what the pump has still to send of this read
  tx, ptx,   \* the two channels of this connection; ptx is a length
  forwarder, \* the task that moves ptx to out
  orphans,   \* pumps of earlier connections that have not returned
  out,       \* length of the channel to the consumer
  listening, \* whether the consumer holds its end of out
  heard      \* samples and faults this connection has put into out

loop == <<windows, phase, attempt, got, reported, item, leaving, orphans>>
process == <<ssh, pipe, healthy>>
pumping == <<pump, primed, todo>>
channels == <<tx, ptx, forwarder>>
consumer == <<out, listening, heard>>
vars == <<loop, process, pumping, channels, consumer>>

Phases == {"spawn", "recv", "send", "launch_fault", "stop", "reap", "close",
           "backoff", "returned", "dropped"}

Init ==
  /\ windows \in BOOLEAN
  /\ phase = "spawn" /\ attempt = 0 /\ got = FALSE /\ reported = FALSE
  /\ item = "none" /\ leaving = FALSE /\ orphans = 0
  /\ ssh = "none" /\ pipe = FALSE /\ healthy \in BOOLEAN
  /\ pump = "done" /\ primed = FALSE /\ todo = <<>>
  /\ tx = <<>> /\ ptx = 0 /\ forwarder = "done"
  /\ out = 0 /\ listening = TRUE /\ heard = {}

-----------------------------------------------------------------------------
(***************************************************************************)
(* watch_host.                                                             *)
(***************************************************************************)

\* A new connection: fresh channels, a forwarder, ssh and its pump.  The old
\* receiver went out of scope, so an old pump's next send fails.
Spawn ==
  /\ phase = "spawn"
  /\ orphans + (IF pump = "done" THEN 0 ELSE 1) <= MaxPumps
  /\ orphans' = orphans + (IF pump = "done" THEN 0 ELSE 1)
  /\ phase' = "recv" /\ got' = FALSE /\ reported' = FALSE /\ heard' = {}
  /\ ssh' = "up" /\ pipe' = FALSE
  /\ pump' = "read" /\ primed' = FALSE /\ todo' = <<>>
  /\ tx' = <<>> /\ ptx' = 0 /\ forwarder' = "recv"
  /\ UNCHANGED <<attempt, item, leaving, healthy, out, listening>>

\* ssh cannot even be started: the channels are dropped with it.
LaunchFails ==
  /\ phase = "spawn"
  /\ orphans + (IF pump = "done" THEN 0 ELSE 1) <= MaxPumps
  /\ orphans' = orphans + (IF pump = "done" THEN 0 ELSE 1)
  /\ ~healthy
  /\ phase' = "launch_fault" /\ item' = "launch" /\ heard' = {}
  /\ got' = FALSE /\ reported' = FALSE
  /\ ssh' = "none" /\ pipe' = FALSE
  /\ pump' = "done" /\ todo' = <<>> /\ tx' = <<>> /\ ptx' = 0 /\ forwarder' = "recv"
  /\ UNCHANGED <<attempt, leaving, healthy, primed, out, listening>>

\* A good sample resets the backoff.
RecvSample ==
  /\ phase = "recv" /\ tx # <<>> /\ Head(tx) = "sample"
  /\ got' = TRUE /\ attempt' = 0
  /\ item' = "sample" /\ tx' = Tail(tx) /\ phase' = "send"
  /\ UNCHANGED <<reported, leaving, orphans, process, pumping, ptx, forwarder, consumer>>

RecvFault ==
  /\ phase = "recv" /\ tx # <<>> /\ Head(tx) \in PumpFaults
  /\ reported' = TRUE
  /\ item' = Head(tx) /\ tx' = Tail(tx) /\ phase' = "send"
  /\ UNCHANGED <<attempt, got, leaving, orphans, process, pumping, ptx, forwarder, consumer>>

\* The channel ends when it is empty and the pump has dropped its end.
RecvEnd ==
  /\ phase = "recv" /\ tx = <<>> /\ pump = "done"
  /\ phase' = "stop"
  /\ UNCHANGED <<attempt, got, reported, item, leaving, orphans, process, pumping,
                 channels, consumer>>

\* A fault is fatal to the connection, a sample is not.
Send ==
  /\ phase \in {"send", "launch_fault", "close"} /\ listening /\ out < OutCap
  /\ out' = out + 1 /\ heard' = heard \cup {item} /\ item' = "none"
  /\ phase' = CASE phase = "close" -> "backoff"
                [] phase = "launch_fault" -> "backoff"
                [] OTHER -> IF item = "sample" THEN "recv" ELSE "stop"
  /\ forwarder' = IF phase = "launch_fault" THEN "done" ELSE forwarder
  /\ UNCHANGED <<attempt, got, reported, leaving, orphans, process, pumping, tx, ptx,
                 listening>>

\* The consumer is gone: stop ssh first if there is one, then return.
SendFails ==
  /\ phase \in {"send", "launch_fault", "close"} /\ ~listening
  /\ item' = "none" /\ leaving' = TRUE
  /\ phase' = IF phase = "send" THEN "stop" ELSE "returned"
  /\ UNCHANGED <<attempt, got, reported, orphans, process, pumping, channels, consumer>>

\* procs.abort(), then SshSampler::stop: kill the child ...
Stop ==
  /\ phase = "stop"
  /\ forwarder' = "done"
  /\ ssh' = IF ssh = "up" THEN "killed" ELSE ssh
  /\ phase' = "reap"
  /\ UNCHANGED <<attempt, got, reported, item, leaving, orphans, pipe, healthy, pumping,
                 tx, ptx, consumer>>

\* closing_fault: the generic fault, only when nothing else explains the end.
\* FAULT: it is sent whatever the connection reported.
ClosingFaultAlways == {"closed"}
ClosingFault == IF got \/ reported THEN {} ELSE {"closed"}

\* ... and wait for it.
\* FAULT: it does not wait.
ReapAtOnce ==
  /\ phase = "reap"
  /\ IF leaving THEN phase' = "returned" /\ UNCHANGED item
     ELSE IF ClosingFault = {} THEN phase' = "backoff" /\ UNCHANGED item
     ELSE phase' = "close" /\ item' \in ClosingFault
  /\ UNCHANGED <<attempt, got, reported, leaving, orphans, process, pumping, channels,
                 consumer>>
Reap ==
  /\ phase = "reap" /\ ssh = "exited"
  /\ IF leaving THEN phase' = "returned" /\ UNCHANGED item
     ELSE IF ClosingFault = {} THEN phase' = "backoff" /\ UNCHANGED item
     ELSE phase' = "close" /\ item' \in ClosingFault
  /\ UNCHANGED <<attempt, got, reported, leaving, orphans, process, pumping, channels,
                 consumer>>

\* sleep_backoff; backoff_secs saturates.
\* FAULT: the loop is left instead.
BackOffForGood ==
  /\ phase = "backoff"
  /\ attempt' = IF attempt < MaxAttempt THEN attempt + 1 ELSE attempt
  /\ phase' = IF attempt < MaxAttempt THEN "spawn" ELSE "returned"
  /\ UNCHANGED <<got, reported, item, leaving, orphans, process, pumping, channels, consumer>>
BackOff ==
  /\ phase = "backoff"
  /\ attempt' = IF attempt < MaxAttempt THEN attempt + 1 ELSE attempt
  /\ phase' = "spawn"
  /\ UNCHANGED <<got, reported, item, leaving, orphans, process, pumping, channels, consumer>>

\* Supervisor::stop's abort: the future is dropped at whatever await it is in,
\* and with it the receivers and the child, which is kill_on_drop.
\* FAULT: the child is not.
DroppedAlive == ssh
DroppedChild == IF ssh = "up" THEN "killed" ELSE ssh

Gone == phase \in {"returned", "dropped"}

Drop ==
  /\ ~Gone
  /\ phase' = "dropped" /\ ssh' = DroppedChild
  /\ listening' = FALSE
  /\ UNCHANGED <<windows, attempt, got, reported, item, leaving, orphans, pipe, healthy, pumping,
                 channels, out, heard>>

-----------------------------------------------------------------------------
(***************************************************************************)
(* pump and win_pump.                                                      *)
(***************************************************************************)

\* What one read turns into.  The Linux pump sends its samples first and its
\* process frames after them; win_pump sends in order, skips a frame without
\* processor rows and spends the first of a connection on a baseline.
Plane(f) == CASE f = "metric" -> "sample" [] f = "empty" -> "no_cpu" [] f = "procs" -> f

Emitted(frames) ==
  LET items == [i \in DOMAIN frames |-> Plane(frames[i])]
      kept == SelectSeq(items, LAMBDA x : x # "no_cpu")
  IN IF windows
     THEN IF primed THEN kept ELSE RemoveFirst(kept, "sample")
     ELSE SelectSeq(items, LAMBDA x : x # "procs")
          \o SelectSeq(items, LAMBDA x : x = "procs")

\* One read and the frames it completes, none of them when it ends in the
\* middle of one.  A healthy host's frames carry processor rows.
Read(frames) ==
  /\ pump = "read" /\ pipe
  /\ healthy => "empty" \notin Range(frames)
  /\ pipe' = FALSE /\ todo' = Emitted(frames)
  /\ primed' = (primed \/ "metric" \in Range(frames))
  /\ pump' = "emit"
  /\ UNCHANGED <<loop, ssh, healthy, channels, consumer>>

\* The Linux pump reports a failed read itself; win_pump takes it for the end.
\* A pipe is taken to fail only once the child at its other end has gone.
ReadFails ==
  /\ pump = "read" /\ ssh = "exited"
  /\ IF windows THEN pump' = "stderr" /\ UNCHANGED todo
     ELSE pump' = "fault" /\ todo' = <<"read">>
  /\ UNCHANGED <<loop, process, primed, channels, consumer>>

RxOpen == phase \notin {"spawn", "returned", "dropped"}

\* Samples and faults, in order; both pumps return when nobody receives.
PumpSends ==
  /\ pump \in {"emit", "fault"} /\ todo # <<>> /\ Head(todo) # "procs"
  /\ IF RxOpen
     THEN /\ Len(tx) < TxCap /\ tx' = Append(tx, Head(todo)) /\ todo' = Tail(todo)
          /\ pump' = IF pump = "fault" THEN "done" ELSE pump
     ELSE pump' = "done" /\ todo' = <<>> /\ UNCHANGED tx
  /\ UNCHANGED <<loop, process, primed, ptx, forwarder, consumer>>

\* A process frame nobody receives is not fatal: the frame is dropped.
PumpSendsProcs ==
  /\ pump = "emit" /\ todo # <<>> /\ Head(todo) = "procs"
  /\ IF forwarder = "done" THEN UNCHANGED ptx ELSE ptx < PtxCap /\ ptx' = ptx + 1
  /\ todo' = Tail(todo)
  /\ UNCHANGED <<loop, process, pump, primed, tx, forwarder, consumer>>

PumpReadsOn ==
  /\ pump = "emit" /\ todo = <<>>
  /\ pump' = "read"
  /\ UNCHANGED <<loop, process, primed, todo, channels, consumer>>

\* End of stdout; then what ssh said on stderr, once that has ended too.
PumpSeesEnd ==
  /\ pump = "read" /\ ssh = "exited" /\ ~pipe
  /\ pump' = "stderr"
  /\ UNCHANGED <<loop, process, primed, todo, channels, consumer>>

\* FAULT: an exit without a message is not reported.
PumpExplainsIfTold ==
  /\ pump = "stderr" /\ ssh = "exited"
  /\ \/ \E f \in ExitFaults : todo' = <<f>> /\ pump' = "fault"
     \/ todo' = <<>> /\ pump' = "done"
  /\ UNCHANGED <<loop, process, primed, channels, consumer>>

PumpExplains ==
  /\ pump = "stderr" /\ ssh = "exited"
  /\ \E f \in ExitFaults : todo' = <<f>>
  /\ pump' = "fault"
  /\ UNCHANGED <<loop, process, primed, channels, consumer>>

OrphanReturns ==
  /\ orphans > 0 /\ orphans' = orphans - 1
  /\ UNCHANGED <<windows, phase, attempt, got, reported, item, leaving, process, pumping, channels,
                 consumer>>

-----------------------------------------------------------------------------
(***************************************************************************)
(* The forwarder, the child and the consumer.                              *)
(***************************************************************************)
ForwarderReceives ==
  /\ forwarder = "recv" /\ ptx > 0
  /\ ptx' = ptx - 1 /\ forwarder' = "send"
  /\ UNCHANGED <<loop, process, pumping, tx, consumer>>

ForwarderSends ==
  /\ forwarder = "send"
  /\ IF listening
     THEN out < OutCap /\ out' = out + 1 /\ forwarder' = "recv"
     ELSE forwarder' = "done" /\ UNCHANGED out
  /\ UNCHANGED <<loop, process, pumping, tx, ptx, listening, heard>>

ForwarderEnds ==
  /\ forwarder = "recv" /\ ptx = 0 /\ pump = "done"
  /\ forwarder' = "done"
  /\ UNCHANGED <<loop, process, pumping, tx, ptx, consumer>>

SshWrites ==
  /\ ssh = "up" /\ ~pipe /\ pipe' = TRUE
  /\ UNCHANGED <<loop, ssh, healthy, pumping, channels, consumer>>

\* Refused, unreachable, timed out, or the remote end went away.
SshExits ==
  /\ ssh = "up" /\ ~healthy /\ ssh' = "exited"
  /\ UNCHANGED <<loop, pipe, healthy, pumping, channels, consumer>>

SshDies ==
  /\ ssh = "killed" /\ ssh' = "exited"
  /\ UNCHANGED <<loop, pipe, healthy, pumping, channels, consumer>>

Flap ==
  /\ healthy' = ~healthy
  /\ UNCHANGED <<loop, ssh, pipe, pumping, channels, consumer>>

Take ==
  /\ listening /\ out > 0 /\ out' = out - 1
  /\ UNCHANGED <<loop, process, pumping, channels, listening, heard>>

Close ==
  /\ listening /\ listening' = FALSE
  /\ UNCHANGED <<loop, process, pumping, channels, out, heard>>

Watch ==
  /\ Spawn \/ LaunchFails \/ RecvSample \/ RecvFault \/ RecvEnd \/ Send \/ SendFails
     \/ Stop \/ Reap \/ BackOff
  /\ UNCHANGED windows

SomeFrames == UNION {[1..n -> Frames] : n \in 0..MaxFrames}

Pump ==
  \/ \E frames \in SomeFrames : Read(frames)
  \/ ReadFails \/ PumpSends \/ PumpSendsProcs \/ PumpReadsOn \/ PumpSeesEnd \/ PumpExplains

Forwarder == ForwarderReceives \/ ForwarderSends \/ ForwarderEnds

Next ==
  \/ Watch \/ Drop \/ Pump \/ OrphanReturns \/ Forwarder
  \/ SshWrites \/ SshExits \/ SshDies \/ Flap \/ Take \/ Close

ReadsReading == \E frames \in SomeFrames : "metric" \in Range(frames) /\ Read(frames)

\* The runtime polls every task, a killed child dies, and a child that stays up
\* goes on writing (ServerAliveInterval ends one that does not), a frame with
\* readings among what it writes.  The consumer takes what it is sent.
Fairness ==
  /\ WF_vars(Watch) /\ WF_vars(Pump) /\ WF_vars(Forwarder) /\ WF_vars(OrphanReturns)
  /\ WF_vars(SshWrites) /\ WF_vars(SshDies) /\ WF_vars(Take)
  /\ SF_vars(ReadsReading)

Spec == Init /\ [][Next]_vars /\ Fairness

-----------------------------------------------------------------------------
Contract == INSTANCE WatchContract
              WITH Explained <- Faults \ {"closed"}, Generic <- "closed", told <- heard

\* A card is told readings, then at most one fault, never the generic one over
\* a cause, and never nothing (closing_fault, and the fatal break of the loop).
TellsTheCard == Contract!Spec

\* stop awaits the kill: a watch never has two ssh processes to one host.
OneProcess == phase = "spawn" => ssh \in {"none", "exited"}

\* A connection that delivered nothing does not pass in silence, nor under the
\* generic message: before the next one is tried the card has the reason it ended,
\* whoever ended it and whatever was still in the channels.  The pump speaks before
\* it lets go of tx (pump and win_pump, transport.rs:434).
EmptyEndsAreExplained ==
  phase = "backoff" /\ "sample" \notin heard => \E f \in Faults \ {"closed"} : f \in heard

\* "Data arrived, then the connection dropped: the caller's reconnect is the whole
\* story, so say nothing" (fleet.rs:58, and the test
\* a_dropped_connection_after_good_data_is_not_a_fault).  closing_fault keeps to it,
\* but the pump does not ask what the connection had delivered.
DropsAreQuiet ==
  phase = "backoff" /\ "sample" \in heard
    => heard \cap (ExitFaults \cup {"closed"}) = {}

\* However the watch ends, a closed window or an aborted task leaves no ssh
\* process, no pump and no forwarder behind (supervisor.rs, watch).
ShutsDown ==
  ~listening ~> /\ ssh \in {"none", "exited"} /\ pump = "done"
                /\ forwarder = "done" /\ orphans = 0

\* A host that comes back is picked up again, whatever the channels, the
\* backoff and the last connection were left in (watch_host's loop).
Recovers == <>[](healthy /\ listening) => []<><<RecvSample>>_vars

=============================================================================
