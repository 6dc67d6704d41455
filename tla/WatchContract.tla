--------------------------- MODULE WatchContract ---------------------------
(***************************************************************************)
(* What watch_host promises the card of a host, connection by connection:  *)
(* readings and then at most one fault, a fault ends the connection, and   *)
(* no connection ends without having said anything (fleet.rs, the comments *)
(* of closing_fault and its tests).                                        *)
(***************************************************************************)
CONSTANTS Explained,  \* faults that name a cause
          Generic     \* the fault for a connection that explained nothing

VARIABLE told         \* what this connection has told the card

Init == told = {}

\* A reading, unless the connection has already reported a fault.
Reading == told \subseteq {"sample"} /\ told' = {"sample"}

\* A fault with a cause may follow readings; the generic one stands alone.
Fault ==
  \/ told \subseteq {"sample"} /\ \E f \in Explained : told' = told \cup {f}
  \/ told = {} /\ told' = {Generic}

NextConnection == told # {} /\ told' = {}

Spec == Init /\ [][Reading \/ Fault \/ NextConnection]_told
=============================================================================
