--------------------------- MODULE MCEventStream ---------------------------
(***************************************************************************)
(* Three events over a channel of one slot and a ring of one line, so that *)
(* notices are lost and a viewer lags, and one connection that breaks or   *)
(* one garbled chunk.  A frame travels whole or cut anywhere, and a read   *)
(* takes any number of the bytes in flight.                                *)
(***************************************************************************)
EXTENDS EventStream
=============================================================================
