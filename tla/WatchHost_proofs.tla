------------------------- MODULE WatchHost_proofs -------------------------
(***************************************************************************)
(* WatchHost keeps WatchContract, and a watch never has two ssh processes, *)
(* whatever the sizes of the channels.  The argument (Inv) is the loop of  *)
(* watch_host alone: which phase knows what of got_data, reported and of   *)
(* what the card has been told.  The pump matters only through the one     *)
(* item the loop takes from tx.  That no connection ends unexplained, one  *)
(* without readings in particular, is the pump's doing, and EndInv adds    *)
(* what it owes the loop.                                                  *)
(***************************************************************************)
EXTENDS WatchHost, TLAPS

\* What a connection has told the card once it has received samples only.
Readings == IF got THEN {"sample"} ELSE {}

Loop ==
  /\ phase \in Phases /\ got \in BOOLEAN /\ reported \in BOOLEAN /\ leaving \in BOOLEAN
  /\ leaving => phase \in {"stop", "reap", "returned", "dropped"}

Told ==
  /\ phase = "recv" => ~reported /\ heard = Readings
  /\ phase = "send" =>
       \/ item = "sample" /\ got /\ ~reported /\ heard \subseteq {"sample"}
       \/ item \in PumpFaults /\ reported /\ heard = Readings
  /\ phase = "launch_fault" => item = "launch" /\ heard = {}
  /\ phase \in {"stop", "reap"} /\ ~leaving => (heard = {} <=> ~(got \/ reported))
  /\ phase = "close" => item = "closed" /\ heard = {}
  /\ phase = "backoff" => heard # {}

Reaped ==
  phase \in {"spawn", "launch_fault", "close", "backoff"} => ssh \in {"none", "exited"}

Inv == Loop /\ Told /\ Reaped

\* The actions that leave watch_host's own variables alone.
LoopUnmoved == UNCHANGED <<phase, got, reported, item, leaving, heard>>

-----------------------------------------------------------------------------
THEOREM Initially == Init => Inv
BY DEF Init, Inv, Loop, Told, Reaped, Phases

\* Nothing outside the loop moves it, and outside it ssh only ends.
LEMMA OthersKeepLoop ==
  ASSUME Pump \/ Forwarder \/ OrphanReturns \/ SshWrites \/ SshExits \/ SshDies
         \/ Flap \/ Take \/ Close
  PROVE  LoopUnmoved /\ (ssh' = ssh \/ ssh' = "exited")
<1>1. CASE Pump
  BY <1>1 DEF Pump, Read, ReadFails, PumpSends, PumpSendsProcs, PumpReadsOn, PumpSeesEnd,
       PumpExplains, LoopUnmoved, loop, process, consumer
<1>2. CASE Forwarder
  BY <1>2 DEF Forwarder, ForwarderReceives, ForwarderSends, ForwarderEnds, LoopUnmoved,
       loop, process, consumer
<1>3. CASE OrphanReturns \/ SshWrites \/ SshExits \/ SshDies \/ Flap \/ Take \/ Close
  BY <1>3 DEF OrphanReturns, SshWrites, SshExits, SshDies, Flap, Take, Close, LoopUnmoved,
       loop, process, consumer
<1>4. QED BY <1>1, <1>2, <1>3

LEMMA UnmovedKeepsInv ==
  ASSUME Inv, LoopUnmoved, ssh' = ssh \/ ssh' = "exited"
  PROVE  Inv'
BY DEF Inv, Loop, Told, Reaped, Readings, LoopUnmoved

LEMMA WatchKeepsInv == Inv /\ Watch => Inv'
<1> SUFFICES ASSUME Inv, Watch PROVE Inv'
  OBVIOUS
<1> USE DEF Inv, Loop, Told, Reaped, Readings, Phases, process, pumping, channels, consumer
<1>1. CASE Spawn
  BY <1>1 DEF Spawn
<1>2. CASE LaunchFails
  BY <1>2 DEF LaunchFails
<1>3. CASE RecvSample
  BY <1>3 DEF RecvSample
<1>4. CASE RecvFault
  BY <1>4 DEF RecvFault
<1>5. CASE RecvEnd
  BY <1>5 DEF RecvEnd
<1>6. CASE Send
  <2>1. CASE phase = "send" /\ item = "sample"
    BY <1>6, <2>1 DEF Send, PumpFaults, ExitFaults
  <2>2. CASE phase = "send" /\ item # "sample"
    BY <1>6, <2>2 DEF Send
  <2>3. CASE phase \in {"launch_fault", "close"}
    BY <1>6, <2>3 DEF Send
  <2>4. QED BY <1>6, <2>1, <2>2, <2>3 DEF Send
<1>7. CASE SendFails
  BY <1>7 DEF SendFails
<1>8. CASE Stop
  BY <1>8 DEF Stop
<1>9. CASE Reap
  BY <1>9 DEF Reap, ClosingFault
<1>10. CASE BackOff
  BY <1>10 DEF BackOff
<1>11. QED
  BY <1>1, <1>2, <1>3, <1>4, <1>5, <1>6, <1>7, <1>8, <1>9, <1>10 DEF Watch

LEMMA DropKeepsInv == Inv /\ Drop => Inv'
BY DEF Inv, Loop, Told, Reaped, Readings, Phases, Drop

THEOREM Inductive == Inv /\ [Next]_vars => Inv'
<1> SUFFICES ASSUME Inv, [Next]_vars PROVE Inv'
  OBVIOUS
<1>1. CASE Watch
  BY <1>1, WatchKeepsInv
<1>2. CASE Drop
  BY <1>2, DropKeepsInv
<1>3. CASE Pump \/ Forwarder \/ OrphanReturns \/ SshWrites \/ SshExits \/ SshDies
           \/ Flap \/ Take \/ Close
  BY <1>3, OthersKeepLoop, UnmovedKeepsInv
<1>4. CASE UNCHANGED vars
  BY <1>4, UnmovedKeepsInv DEF vars, loop, process, consumer, LoopUnmoved
<1>5. QED BY <1>1, <1>2, <1>3, <1>4 DEF Next

\* A second connection is only opened once the ssh of the first is gone.
THEOREM OneProcessCorrect == Spec => []OneProcess
<1>1. Inv => OneProcess
  BY DEF Inv, Reaped, OneProcess
<1>2. QED BY <1>1, Initially, Inductive, PTL DEF Spec

-----------------------------------------------------------------------------
\* What a step of the loop adds to the card's view is a step of the contract.
LEMMA StepTells ==
  ASSUME Inv, [Next]_vars
  PROVE  [Contract!Reading \/ Contract!Fault \/ Contract!NextConnection]_heard
<1> USE DEF Contract!Reading, Contract!Fault, Contract!NextConnection
<1>1. CASE Spawn \/ LaunchFails
  BY <1>1 DEF Spawn, LaunchFails
<1>2. CASE Send
  <2>1. CASE phase = "send" /\ item = "sample"
    BY <1>2, <2>1 DEF Send, Inv, Told, PumpFaults, ExitFaults
  <2>2. CASE phase = "send" /\ item # "sample"
    BY <1>2, <2>2 DEF Send, Inv, Told, Readings, Faults, PumpFaults, ExitFaults
  <2>3. CASE phase \in {"launch_fault", "close"}
    BY <1>2, <2>3 DEF Send, Inv, Told, Faults
  <2>4. QED BY <1>2, <2>1, <2>2, <2>3 DEF Send
<1>3. CASE RecvSample \/ RecvFault \/ RecvEnd \/ SendFails \/ Stop \/ Reap \/ BackOff \/ Drop
  BY <1>3 DEF RecvSample, RecvFault, RecvEnd, SendFails, Stop, Reap, BackOff, Drop, consumer
<1>4. CASE Pump \/ Forwarder \/ OrphanReturns \/ SshWrites \/ SshExits \/ SshDies
           \/ Flap \/ Take \/ Close
  BY <1>4, OthersKeepLoop DEF LoopUnmoved
<1>5. CASE UNCHANGED vars
  BY <1>5 DEF vars, consumer
<1>6. QED BY <1>1, <1>2, <1>3, <1>4, <1>5 DEF Next, Watch

\* Every connection tells its card readings, then at most one fault, never the
\* generic one over a cause, and never nothing: watch_host implements
\* WatchContract for channels of any size and hosts of either kind.
THEOREM TellsTheCardCorrect == Spec => TellsTheCard
<1>1. Init => Contract!Init
  BY DEF Init, Contract!Init
<1>2. QED
  BY <1>1, Initially, Inductive, StepTells, PTL DEF Spec, TellsTheCard, Contract!Spec

-----------------------------------------------------------------------------
(***************************************************************************)
(* Every end is explained.  Here the pump counts: it does not let go of tx *)
(* before it has put a fault into it, and the loop leaves a connection     *)
(* only with a fault in hand.                                              *)
(***************************************************************************)

\* The connection goes on.
Receiving == phase = "recv" \/ (phase = "send" /\ item = "sample")

\* What the pump owes the loop.
Speaks ==
  /\ \E S : tx \in Seq(S)
  /\ pump = "fault" => \E f \in PumpFaults : todo = <<f>>
  /\ Receiving /\ pump = "done" => \E n \in DOMAIN tx : tx[n] \in PumpFaults

\* Stronger than EmptyEndsAreExplained: connections that delivered are told too,
\* which is what DropsAreQuiet forbids.
EveryEnd == phase = "backoff" => \E f \in Faults \ {"closed"} : f \in heard

\* What the loop knows once it has left the connection.
Explained ==
  /\ phase \in {"stop", "reap"} /\ ~leaving => reported /\ \E f \in PumpFaults : f \in heard
  /\ phase # "close"
  /\ EveryEnd

EndInv == Inv /\ Speaks /\ Explained

LEMMA FaultsAreNot ==
  /\ "sample" \notin PumpFaults
  /\ PumpFaults \subseteq Faults \ {"closed"} /\ "launch" \in Faults \ {"closed"}
BY DEF PumpFaults, ExitFaults, Faults

LEMMA EndInitially == Init => EndInv
<1> SUFFICES ASSUME Init PROVE EndInv
  OBVIOUS
<1>1. <<>> \in Seq({})
  OBVIOUS
<1> QED BY <1>1, Initially DEF Init, EndInv, Speaks, Receiving, Explained, EveryEnd

\* The end of a channel is out of reach while the connection goes on.
LEMMA NoEndUntold ==
  ASSUME EndInv
  PROVE  ~RecvEnd
<1> SUFFICES ASSUME RecvEnd PROVE FALSE
  OBVIOUS
<1>1. phase = "recv" /\ tx = <<>> /\ pump = "done"
  BY DEF RecvEnd
<1>2. PICK n \in DOMAIN tx : tx[n] \in PumpFaults
  BY <1>1 DEF EndInv, Speaks, Receiving
<1> QED BY <1>1, <1>2

\* A fault that waits behind a sample still waits when that is taken.
LEMMA FaultStays ==
  ASSUME NEW S, NEW s \in Seq(S), s # <<>>, Head(s) = "sample",
         NEW n \in DOMAIN s, s[n] \in PumpFaults
  PROVE  \E m \in DOMAIN Tail(s) : Tail(s)[m] \in PumpFaults
<1>1. Len(s) \in Nat /\ DOMAIN s = 1..Len(s) /\ s[1] = "sample"
  OBVIOUS
<1>2. n # 1 /\ n - 1 \in 1..(Len(s) - 1) /\ n - 1 + 1 = n
  BY <1>1, FaultsAreNot
<1>3. DOMAIN Tail(s) = 1..(Len(s) - 1) /\ \A m \in 1..(Len(s) - 1) : Tail(s)[m] = s[m + 1]
  <2>1. Tail(s) \in Seq(S) /\ Len(Tail(s)) = Len(s) - 1
    OBVIOUS
  <2> QED BY <2>1
<1> QED BY <1>2, <1>3

LEMMA WatchKeepsEnds ==
  ASSUME EndInv, Watch
  PROVE  Speaks' /\ Explained'
<1> USE DEF process, pumping, channels, consumer
<1>1. Inv /\ Speaks /\ Explained
  BY DEF EndInv
<1>2. CASE Spawn
  <2>1. <<>> \in Seq({})
    OBVIOUS
  <2> QED BY <1>2, <2>1 DEF Spawn, Speaks, Receiving, Explained, EveryEnd
<1>3. CASE LaunchFails
  <2>1. <<>> \in Seq({})
    OBVIOUS
  <2> QED BY <1>3, <2>1 DEF LaunchFails, Speaks, Receiving, Explained, EveryEnd
<1>4. CASE RecvSample
  <2>1. PICK S : tx \in Seq(S)
    BY <1>1 DEF Speaks
  <2>2. tx # <<>> /\ Head(tx) = "sample" /\ tx' = Tail(tx)
        /\ phase = "recv" /\ phase' = "send" /\ UNCHANGED <<pump, todo>>
    BY <1>4 DEF RecvSample
  <2>3. tx' \in Seq(S)
    BY <2>1, <2>2
  <2>4. pump' = "done" => \E m \in DOMAIN tx' : tx'[m] \in PumpFaults
    BY <1>1, <2>1, <2>2, FaultStays DEF Speaks, Receiving
  <2>5. Speaks'
    BY <1>1, <2>2, <2>3, <2>4 DEF Speaks
  <2> QED BY <2>2, <2>5 DEF Explained, EveryEnd
<1>5. CASE RecvFault
  <2>1. PICK S : tx \in Seq(S)
    BY <1>1 DEF Speaks
  <2>2. tx # <<>> /\ Head(tx) \in PumpFaults /\ item' = Head(tx) /\ tx' = Tail(tx)
        /\ phase' = "send" /\ UNCHANGED <<pump, todo>>
    BY <1>5 DEF RecvFault
  <2>3. tx' \in Seq(S) /\ item' # "sample"
    BY <2>1, <2>2, FaultsAreNot
  <2> QED BY <1>1, <2>2, <2>3 DEF Speaks, Receiving, Explained, EveryEnd
<1>6. CASE RecvEnd
  BY <1>6, NoEndUntold
<1>7. CASE Send
  <2>1. UNCHANGED <<tx, pump, todo, reported, leaving>> /\ heard' = heard \cup {item}
    BY <1>7 DEF Send
  <2>2. CASE phase = "send" /\ item = "sample"
    <3>1. phase' = "recv"
      BY <1>7, <2>2 DEF Send
    <3> QED BY <1>1, <2>1, <2>2, <3>1 DEF Speaks, Receiving, Explained, EveryEnd
  <2>3. CASE phase = "send" /\ item # "sample"
    <3>1. phase' = "stop"
      BY <1>7, <2>3 DEF Send
    <3>2. item \in PumpFaults /\ reported
      BY <1>1, <2>3 DEF Inv, Told
    <3> QED BY <1>1, <2>1, <3>1, <3>2 DEF Speaks, Receiving, Explained, EveryEnd
  <2>4. CASE phase = "launch_fault"
    <3>1. phase' = "backoff" /\ item = "launch"
      BY <1>1, <1>7, <2>4 DEF Send, Inv, Told
    <3> QED BY <1>1, <2>1, <3>1, FaultsAreNot DEF Speaks, Receiving, Explained, EveryEnd
  <2> QED BY <1>1, <1>7, <2>2, <2>3, <2>4 DEF Send, Explained
<1>8. CASE SendFails
  BY <1>1, <1>8 DEF SendFails, Speaks, Receiving, Explained, EveryEnd
<1>9. CASE Stop
  BY <1>1, <1>9 DEF Stop, Speaks, Receiving, Explained, EveryEnd
<1>10. CASE Reap
  <2>1. phase = "reap" /\ UNCHANGED <<tx, pump, todo, heard, reported, leaving>>
    BY <1>10 DEF Reap
  <2>2. CASE leaving
    <3>1. phase' = "returned"
      BY <1>10, <2>2 DEF Reap
    <3> QED BY <1>1, <2>1, <3>1 DEF Speaks, Receiving, Explained, EveryEnd
  <2>3. CASE ~leaving
    <3>1. reported /\ \E f \in PumpFaults : f \in heard
      BY <1>1, <2>1, <2>3 DEF Explained
    <3>2. phase' = "backoff"
      BY <1>10, <2>3, <3>1 DEF Reap, ClosingFault
    <3> QED BY <1>1, <2>1, <3>1, <3>2, FaultsAreNot
          DEF Speaks, Receiving, Explained, EveryEnd
  <2> QED BY <2>2, <2>3
<1>11. CASE BackOff
  BY <1>1, <1>11 DEF BackOff, Speaks, Receiving, Explained, EveryEnd
<1> QED BY <1>2, <1>3, <1>4, <1>5, <1>6, <1>7, <1>8, <1>9, <1>10, <1>11 DEF Watch

\* The pump puts its fault into tx with its last step, as long as anybody receives.
LEMMA PumpSpeaks ==
  ASSUME EndInv, Pump
  PROVE  Speaks'
<1> USE DEF loop, process, channels, consumer
<1>1. Speaks
  BY DEF EndInv
<1>2. CASE \E frames \in SomeFrames : Read(frames)
  BY <1>1, <1>2 DEF Read, Speaks, Receiving
<1>3. CASE ReadFails
  <2>1. "read" \in PumpFaults
    BY DEF PumpFaults
  <2> QED BY <1>1, <1>3, <2>1 DEF ReadFails, Speaks, Receiving
<1>4. CASE PumpSends
  <2>1. UNCHANGED <<phase, item>>
    BY <1>4 DEF PumpSends
  <2>2. CASE ~RxOpen
    <3>1. ~Receiving' /\ tx' = tx /\ pump' = "done"
      BY <1>4, <2>1, <2>2 DEF PumpSends, RxOpen, Receiving
    <3> QED BY <1>1, <3>1 DEF Speaks
  <2>3. CASE RxOpen
    <3>1. PICK S : tx \in Seq(S)
      BY <1>1 DEF Speaks
    <3>2. pump \in {"emit", "fault"} /\ todo # <<>> /\ tx' = Append(tx, Head(todo))
          /\ pump' = IF pump = "fault" THEN "done" ELSE pump
      BY <1>4, <2>3 DEF PumpSends
    <3> DEFINE x == Head(todo)
               U == S \cup {x}
    <3>3. tx \in Seq(U) /\ x \in U
      BY <3>1
    <3> HIDE DEF x, U
    <3>4. /\ Append(tx, x) \in Seq(U) /\ Len(tx) + 1 \in DOMAIN Append(tx, x)
          /\ Append(tx, x)[Len(tx) + 1] = x
      BY <3>3
    <3>5. tx' = Append(tx, x)
      BY <3>2 DEF x
    <3>6. CASE pump = "fault"
      <4>1. x \in PumpFaults
        BY <1>1, <3>6 DEF Speaks, x
      <4>2. pump' = "done"
        BY <3>2, <3>6
      <4> QED BY <3>4, <3>5, <4>1, <4>2 DEF Speaks
    <3>7. CASE pump = "emit"
      <4>1. pump' = "emit"
        BY <3>2, <3>7
      <4> QED BY <3>4, <3>5, <4>1 DEF Speaks
    <3> QED BY <3>2, <3>6, <3>7
  <2> QED BY <2>2, <2>3
<1>5. CASE PumpSendsProcs
  BY <1>1, <1>5 DEF PumpSendsProcs, Speaks, Receiving
<1>6. CASE PumpReadsOn
  BY <1>1, <1>6 DEF PumpReadsOn, Speaks, Receiving
<1>7. CASE PumpSeesEnd
  BY <1>1, <1>7 DEF PumpSeesEnd, Speaks, Receiving
<1>8. CASE PumpExplains
  <2>1. PICK f \in ExitFaults : todo' = <<f>>
    BY <1>8 DEF PumpExplains
  <2>2. f \in PumpFaults
    BY DEF PumpFaults
  <2> QED BY <1>1, <1>8, <2>1, <2>2 DEF PumpExplains, Speaks, Receiving
<1> QED BY <1>2, <1>3, <1>4, <1>5, <1>6, <1>7, <1>8 DEF Pump

LEMMA EndInductive == EndInv /\ [Next]_vars => EndInv'
<1> SUFFICES ASSUME EndInv, [Next]_vars PROVE EndInv'
  OBVIOUS
<1>1. Inv'
  BY Inductive DEF EndInv
<1>2. CASE Watch
  BY <1>1, <1>2, WatchKeepsEnds DEF EndInv
<1>3. CASE Drop
  BY <1>1, <1>3 DEF Drop, pumping, channels, EndInv, Speaks, Receiving, Explained, EveryEnd
<1>4. ASSUME LoopUnmoved PROVE Explained'
  BY <1>4 DEF EndInv, LoopUnmoved, Explained, EveryEnd
<1>5. CASE Pump
  BY <1>1, <1>4, <1>5, OthersKeepLoop, PumpSpeaks DEF EndInv
<1>6. CASE Forwarder \/ OrphanReturns \/ SshWrites \/ SshExits \/ SshDies \/ Flap \/ Take \/ Close
  <2>1. UNCHANGED <<tx, pump, todo>>
    BY <1>6 DEF Forwarder, ForwarderReceives, ForwarderSends, ForwarderEnds, OrphanReturns,
         SshWrites, SshExits, SshDies, Flap, Take, Close, pumping, channels
  <2>2. LoopUnmoved
    BY <1>6, OthersKeepLoop
  <2>3. Speaks'
    BY <2>1, <2>2 DEF EndInv, Speaks, Receiving, LoopUnmoved
  <2> QED BY <1>1, <1>4, <2>2, <2>3 DEF EndInv
<1>7. CASE UNCHANGED vars
  BY <1>1, <1>7 DEF vars, loop, process, pumping, channels, consumer, EndInv, Speaks, Receiving,
       Explained, EveryEnd
<1> QED BY <1>2, <1>3, <1>5, <1>6, <1>7 DEF Next

\* A connection that delivered nothing ends with a reason on the card, and not the
\* generic one: the pump has spoken before tx ends (transport.rs:434).
THEOREM EmptyEndsAreExplainedCorrect == Spec => []EmptyEndsAreExplained
<1>1. EndInv => EmptyEndsAreExplained
  BY DEF EndInv, Explained, EveryEnd, EmptyEndsAreExplained
<1> QED BY <1>1, EndInitially, EndInductive, PTL DEF Spec

\* The channel never ends under the loop: rx.recv() is not None before a fault has
\* ended the connection (fleet.rs:131).
THEOREM NeverUntold == Spec => [][~RecvEnd]_vars
<1>1. EndInv => ~RecvEnd
  BY NoEndUntold
<1> QED BY <1>1, EndInitially, EndInductive, PTL DEF Spec
=============================================================================
