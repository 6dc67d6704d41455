--------------------------- MODULE Viewer_proofs ---------------------------
(***************************************************************************)
(* The switch of endpoints, for any number of servers: one data plane      *)
(* between commands, and a window that names it.                           *)
(***************************************************************************)
EXTENDS Viewer, TLAPS

\* The reader is the one of the file's server, and there is none of a server
\* when the file names none.
ReaderFits ==
  IF server = None THEN reader = None ELSE reader # None /\ reader.ep = server

\* The local samplers run in local mode only, and there they may be missing
\* only after a switch whose save failed.
LocalFits == local = (server = None) \/ (broken /\ ~local)

\* An endpoint that does not parse is never read from.
ReadsServers == reader # None /\ reader.at = "read" => reader.ep \in Servers

\* What holds at each stage of a switch: the old plane until the samplers stop,
\* the old reader without samplers until the file is written, and from then on
\* the plane the file names but for its reader.
AtStage ==
  /\ pc \in {"idle", "stopAll", "probe", "refresh"} => ReaderFits /\ LocalFits
  /\ pc \in {"clear", "save"} => ReaderFits /\ ~local
  /\ pc = "start" => server = None /\ want = None
  /\ pc = "swap" => want = server /\ LocalFits
  /\ pc = "idle" => chrome = server

IInv == TypeOK /\ ReadsServers /\ AtStage

-----------------------------------------------------------------------------
\* What a step of the reader's loop leaves of the reader.
LEMMA MoveKeepsServer ==
  ASSUME NEW from, NEW to \in ReaderStates, TypeOK, Move(from, to)
  PROVE  /\ reader # None /\ reader' # None
         /\ reader'.ep = reader.ep /\ reader'.at = to /\ reader.at = from
         /\ reader' \in [ep : Servers \cup {Bad}, at : ReaderStates]
<1>1. reader \in [ep : Servers \cup {Bad}, at : ReaderStates]
  BY DEF Move, TypeOK
<1>2. reader' = [reader EXCEPT !.at = to]
  BY DEF Move
<1>3. reader' \in [ep : Servers \cup {Bad}, at : ReaderStates] /\ reader'.ep = reader.ep /\ reader'.at = to
  BY <1>1, <1>2
<1>4. reader' # None
  BY <1>3, Distinct
<1> QED BY <1>3, <1>4 DEF Move

\* A reader just started.
LEMMA StartedReader ==
  ASSUME NEW e \in Servers \cup {Bad}
  PROVE  /\ Reading(e, "connect") \in [ep : Servers \cup {Bad}, at : ReaderStates]
         /\ Reading(e, "connect") # None
         /\ Reading(e, "connect").ep = e /\ Reading(e, "connect").at = "connect"
<1>1. Reading(e, "connect") \in [ep : Servers \cup {Bad}, at : ReaderStates]
  BY DEF Reading, ReaderStates
<1> QED BY <1>1, Distinct DEF Reading

\* What an abort may leave behind is a poll of a fleet.
LEMMA AbortLeavesFleets ==
  ASSUME NEW fleets \in SUBSET Fleets, late \subseteq Fleets, Abort(fleets)
  PROVE  late' \subseteq Fleets
BY DEF Abort

LEMMA ReaderOfIsAFleet ==
  ASSUME ReadsServers
  PROVE  ReaderOf \in SUBSET Fleets
BY DEF ReadsServers, ReaderOf, Fleets

-----------------------------------------------------------------------------
\* A new program keeps nothing of the last but the file and the servers.
LEMMA InitEstablishes == Init => IInv
<1> SUFFICES ASSUME Init PROVE IInv
  OBVIOUS
<1>1. TypeOK
  BY DEF Init, TypeOK, Fleets
<1>2. ReadsServers /\ AtStage
  BY DEF Init, ReadsServers, AtStage
<1> QED BY <1>1, <1>2 DEF IInv

LEMMA RelaunchPreserves ==
  ASSUME IInv, Relaunch
  PROVE  IInv'
<1>1. TypeOK'
  BY DEF IInv, TypeOK, Relaunch, Launched, Fleets
<1>2. ReadsServers' /\ AtStage'
  BY DEF Relaunch, Launched, ReadsServers, AtStage
<1> QED BY <1>1, <1>2 DEF IInv

\* The launch finds the plane of the file, whatever the file says.
LEMMA StartUpPreserves ==
  ASSUME IInv, StartUp
  PROVE  IInv'
<1> USE DEF IInv
<1>1. server = None \/ server \in Servers \cup {Bad}
  BY DEF TypeOK, Fleets
<1>2. CASE server = None
  <2>1. reader' = None /\ local' = TRUE /\ server' = server
    BY <1>2 DEF StartUp
  <2>2. TypeOK'
    BY <2>1 DEF StartUp, TypeOK
  <2>3. ReadsServers' /\ AtStage'
    BY <1>2, <2>1 DEF StartUp, ReadsServers, AtStage, ReaderFits, LocalFits
  <2> QED BY <2>2, <2>3
<1>3. CASE server # None
  <2>1. reader' = Reading(server, "connect") /\ local' = FALSE /\ server' = server
    BY <1>3 DEF StartUp
  <2>2. /\ reader' \in [ep : Servers \cup {Bad}, at : ReaderStates] /\ reader' # None
        /\ reader'.ep = server /\ reader'.at = "connect"
    BY <1>1, <1>3, <2>1, StartedReader
  <2>3. TypeOK'
    BY <2>1, <2>2 DEF StartUp, TypeOK
  <2>4. ReadsServers' /\ AtStage'
    BY <1>3, <2>1, <2>2 DEF StartUp, ReadsServers, AtStage, ReaderFits, LocalFits
  <2> QED BY <2>3, <2>4
<1> QED BY <1>2, <1>3

-----------------------------------------------------------------------------
\* The stages of a switch, one by one.
LEMMA UseEndpointPreserves ==
  ASSUME IInv, NEW e \in Fleets \cup {Bad}, UseEndpoint(e)
  PROVE  IInv'
<1> USE DEF IInv
<1>1. /\ pc = "idle" /\ ReaderFits /\ LocalFits
      /\ UNCHANGED <<server, local, reader, late, up, history, broken, chrome>>
      /\ want' = IF e = Bad THEN None ELSE e
      /\ pc' = IF e = Bad THEN "refresh" ELSE IF e = server THEN "swap" ELSE "stopAll"
  BY DEF UseEndpoint, Go, AtStage
<1>2. want' \in Fleets /\ pc' \in {"refresh", "swap", "stopAll"}
  BY <1>1 DEF Fleets
<1>3. TypeOK' /\ ReadsServers'
  BY <1>1, <1>2 DEF TypeOK, ReadsServers
<1>4. ReaderFits' /\ LocalFits'
  BY <1>1 DEF ReaderFits, LocalFits
<1>5. pc' = "swap" => want' = server'
  BY <1>1
<1>6. AtStage'
  BY <1>2, <1>4, <1>5 DEF AtStage
<1> QED BY <1>3, <1>6

LEMMA StopAllPreserves ==
  ASSUME IInv, StopAll
  PROVE  IInv'
<1> USE DEF IInv
<1>1. late' \subseteq Fleets
  <2>1. (IF local THEN {None} ELSE {}) \in SUBSET Fleets
    BY DEF Fleets
  <2> QED BY <2>1, AbortLeavesFleets DEF StopAll, TypeOK
<1>2. TypeOK' /\ ReadsServers'
  BY <1>1 DEF StopAll, Go, TypeOK, ReadsServers
<1>3. AtStage'
  BY DEF StopAll, Go, AtStage, ReaderFits
<1> QED BY <1>2, <1>3

LEMMA ClearPreserves ==
  ASSUME IInv, Clear
  PROVE  IInv'
<1> USE DEF IInv
<1>1. TypeOK' /\ ReadsServers'
  BY DEF Clear, Go, TypeOK, ReadsServers
<1>2. AtStage'
  BY DEF Clear, Go, AtStage, ReaderFits
<1> QED BY <1>1, <1>2

LEMMA SavePreserves ==
  ASSUME IInv, Save
  PROVE  IInv'
<1> USE DEF IInv
<1>1. TypeOK' /\ ReadsServers'
  BY DEF Save, Go, TypeOK, ReadsServers
<1>2. AtStage'
  <2>1. ~local' /\ server' = want' /\ pc' \in {"start", "swap"} /\ (pc' = "start" <=> want' = None)
    BY DEF Save, Go, AtStage
  <2>2. local' = FALSE
    BY <2>1, <1>1 DEF TypeOK
  <2>3. pc' = "swap" => LocalFits'
    BY <2>1, <2>2 DEF LocalFits
  <2> QED BY <2>1, <2>3 DEF AtStage
<1> QED BY <1>1, <1>2

LEMMA SaveFailsPreserves ==
  ASSUME IInv, SaveFails
  PROVE  IInv'
<1> USE DEF IInv
<1>1. TypeOK' /\ ReadsServers'
  BY DEF SaveFails, Go, TypeOK, ReadsServers
<1>2. AtStage'
  BY DEF SaveFails, Go, AtStage, ReaderFits, LocalFits
<1> QED BY <1>1, <1>2

LEMMA StartLocalPreserves ==
  ASSUME IInv, StartLocal
  PROVE  IInv'
<1> USE DEF IInv
<1>1. TypeOK' /\ ReadsServers'
  BY DEF StartLocal, Go, TypeOK, ReadsServers
<1>2. AtStage'
  BY DEF StartLocal, Go, AtStage, LocalFits
<1> QED BY <1>1, <1>2

LEMMA SwapPreserves ==
  ASSUME IInv, Swap
  PROVE  IInv'
<1> USE DEF IInv
<1>1. late' \subseteq Fleets
  BY ReaderOfIsAFleet, AbortLeavesFleets DEF Swap, TypeOK
<1>2. /\ want = server /\ LocalFits /\ pc' \in {"refresh", "probe"}
      /\ UNCHANGED <<server, local, up, history, want, broken, chrome>>
      /\ reader' = IF want = None THEN None ELSE Reading(want, "connect")
  BY DEF Swap, Go, AtStage
<1>3. CASE want = None
  <2>1. TypeOK' /\ ReadsServers'
    BY <1>1, <1>2, <1>3 DEF TypeOK, ReadsServers
  <2>2. ReaderFits' /\ LocalFits'
    BY <1>2, <1>3 DEF ReaderFits, LocalFits
  <2> QED BY <1>2, <2>1, <2>2 DEF AtStage
<1>4. CASE want # None
  <2>1. want \in Servers
    BY <1>4 DEF TypeOK, Fleets
  <2>2. /\ reader' \in [ep : Servers \cup {Bad}, at : ReaderStates] /\ reader' # None
        /\ reader'.ep = server /\ reader'.at = "connect"
    BY <1>2, <1>4, <2>1, StartedReader
  <2>3. TypeOK' /\ ReadsServers'
    BY <1>1, <1>2, <2>2 DEF TypeOK, ReadsServers
  <2>4. ReaderFits' /\ LocalFits'
    BY <1>2, <1>4, <2>2 DEF ReaderFits, LocalFits
  <2> QED BY <1>2, <2>3, <2>4 DEF AtStage
<1> QED BY <1>3, <1>4

LEMMA ProbePreserves ==
  ASSUME IInv, Probe
  PROVE  IInv'
<1> USE DEF IInv
<1>1. TypeOK' /\ ReadsServers'
  BY DEF Probe, Go, TypeOK, ReadsServers
<1>2. AtStage'
  BY DEF Probe, Go, AtStage, ReaderFits, LocalFits
<1> QED BY <1>1, <1>2

LEMMA RefreshPreserves ==
  ASSUME IInv, Refresh
  PROVE  IInv'
<1> USE DEF IInv
<1>1. TypeOK' /\ ReadsServers'
  BY DEF Refresh, Go, TypeOK, ReadsServers , Fleets
<1>2. AtStage'
  BY DEF Refresh, Go, AtStage, ReaderFits, LocalFits
<1> QED BY <1>1, <1>2

-----------------------------------------------------------------------------
\* The reader moves on under any stage of a switch.
LEMMA MovePreserves ==
  ASSUME IInv, NEW from, NEW to \in ReaderStates, Move(from, to), to = "read" => reader.ep \in Servers
  PROVE  IInv'
<1> USE DEF IInv
<1>1. /\ reader # None /\ reader' # None
      /\ reader'.ep = reader.ep /\ reader'.at = to /\ reader.at = from
      /\ reader' \in [ep : Servers \cup {Bad}, at : ReaderStates]
  BY MoveKeepsServer
<1>2. UNCHANGED <<server, local, late, up, history, pc, want, broken, chrome>>
  BY DEF Move, switch
<1>3. TypeOK'
  BY <1>1, <1>2 DEF TypeOK
<1>4. ReadsServers'
  BY <1>1 DEF ReadsServers
<1>5. ReaderFits' = ReaderFits /\ LocalFits' = LocalFits
  BY <1>1, <1>2 DEF ReaderFits, LocalFits
<1>6. AtStage'
  BY <1>2, <1>5 DEF AtStage
<1> QED BY <1>3, <1>4, <1>6

LEMMA ReaderPreserves ==
  ASSUME IInv, Reader \/ LinkIsLost
  PROVE  IInv'
<1>1. up \subseteq Servers
  BY DEF IInv, TypeOK
<1>2. "connect" \in ReaderStates /\ "read" \in ReaderStates /\ "hung" \in ReaderStates
      /\ "sleep" \in ReaderStates /\ "gone" \in ReaderStates
  BY DEF ReaderStates
<1>3. CASE Refuses
  BY <1>2, <1>3, MovePreserves DEF Refuses
<1>4. CASE Connects
  BY <1>1, <1>2, <1>4, MovePreserves DEF Connects
<1>5. CASE ConnectFails
  BY <1>2, <1>5, MovePreserves DEF ConnectFails
<1>6. CASE StreamEnds
  BY <1>2, <1>6, MovePreserves DEF StreamEnds
<1>7. CASE Wakes
  BY <1>2, <1>7, MovePreserves DEF Wakes
<1>8. CASE LinkIsLost
  BY <1>2, <1>8, MovePreserves DEF LinkIsLost
<1> QED BY <1>3, <1>4, <1>5, <1>6, <1>7, <1>8 DEF Reader

\* What leaves the switch, the plane and the window alone.
LEMMA AsidePreserves ==
  ASSUME IInv, UNCHANGED <<server, local, reader, switch>>,
         late' \subseteq Fleets, up' \subseteq Servers, history' \subseteq Fleets
  PROVE  IInv'
<1>1. TypeOK'
  BY DEF IInv, TypeOK, switch
<1>2. ReadsServers' /\ AtStage'
  BY DEF IInv, ReadsServers, AtStage, ReaderFits, LocalFits, switch
<1> QED BY <1>1, <1>2 DEF IInv

LEMMA RecordsPreserve ==
  ASSUME IInv, \/ LocalRecords \/ ReaderRecords
               \/ \E f \in Fleets : LateRecords(f) \/ LateEnds(f)
  PROVE  IInv'
<1>1. /\ UNCHANGED <<server, local, reader, up, switch>>
      /\ late' \subseteq late
      /\ history' \subseteq history \cup late \cup {None} \cup (IF reader # None /\ reader.at = "read" THEN {reader.ep} ELSE {})
  BY DEF LocalRecords, ReaderRecords, LateRecords, LateEnds
<1>2. history' \subseteq Fleets /\ late' \subseteq Fleets
  BY <1>1 DEF IInv, TypeOK, ReadsServers, Fleets
<1>3. up' \subseteq Servers
  BY <1>1 DEF IInv, TypeOK
<1> QED BY <1>1, <1>2, <1>3, AsidePreserves

LEMMA ServersPreserve ==
  ASSUME IInv, NEW e \in Servers, ServerStarts(e) \/ ServerStops(e)
  PROVE  IInv'
<1>1. UNCHANGED <<server, local, reader, late, history, switch>> /\ up' \subseteq Servers
  BY DEF ServerStarts, ServerStops, IInv, TypeOK
<1>2. /\ late' \subseteq Fleets /\ history' \subseteq Fleets
  BY <1>1 DEF IInv, TypeOK
<1> QED BY <1>1, <1>2, AsidePreserves

-----------------------------------------------------------------------------
\* Every step keeps every stage's promise.
LEMMA StepPreserves ==
  ASSUME IInv, [Next]_vars
  PROVE  IInv'
<1>1. CASE \E e \in Fleets \cup {Bad} : UseEndpoint(e)
  BY <1>1, UseEndpointPreserves
<1>2. CASE Command
  BY <1>2, StopAllPreserves, ClearPreserves, SavePreserves, SaveFailsPreserves, StartLocalPreserves,
     SwapPreserves, ProbePreserves, RefreshPreserves, StartUpPreserves DEF Command
<1>3. CASE Reader \/ LinkIsLost
  BY <1>3, ReaderPreserves
<1>4. CASE LocalRecords \/ ReaderRecords \/ \E f \in Fleets : LateRecords(f) \/ LateEnds(f)
  BY <1>4, RecordsPreserve
<1>5. CASE \E e \in Servers : ServerStarts(e) \/ ServerStops(e)
  BY <1>5, ServersPreserve
<1>6. CASE Relaunch
  BY <1>6, RelaunchPreserves
<1>7. CASE UNCHANGED vars
  BY <1>7 DEF vars, switch , IInv, TypeOK, ReadsServers, AtStage, ReaderFits, LocalFits
<1> QED BY <1>1, <1>2, <1>3, <1>4, <1>5, <1>6, <1>7 DEF Next

LEMMA Invariance == Spec => []IInv
<1>1. Init => IInv
  BY InitEstablishes
<1>2. IInv /\ [Next]_vars => IInv'
  BY StepPreserves
<1> QED BY <1>1, <1>2, PTL DEF Spec

\* Every variable of the viewer keeps its type (main.rs, remote.rs): readers
\* have a server or the text of one, and only fleets get into the history.
THEOREM ViewerTypeCorrect == Spec => []TypeOK
<1>1. IInv => TypeOK
  BY DEF IInv
<1> QED BY <1>1, Invariance, PTL

\* Between commands one data plane runs, the one the file names, for any number
\* of servers (service.rs use_endpoint, main.rs use_endpoint and setup).
THEOREM OneDataPlaneCorrect == Spec => []OneDataPlane
<1>1. IInv => OneDataPlane
  BY DEF IInv, AtStage, OneDataPlane, ReaderFits, LocalFits
<1> QED BY <1>1, Invariance, PTL

\* Between commands the window names the fleet the file names (app.js
\* switchEndpoint, main.rs capabilities), whatever became of the last switch.
THEOREM ChromeIsTrueCorrect == Spec => []ChromeIsTrue
<1>1. IInv => ChromeIsTrue
  BY DEF IInv, AtStage, ChromeIsTrue
<1> QED BY <1>1, Invariance, PTL
=============================================================================
