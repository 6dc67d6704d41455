----------------------------- MODULE MCSampling -----------------------------
(***************************************************************************)
(* The periods of the code, scaled down: intervals of one and of three     *)
(* milliseconds against a process frame every four, a window of two and a  *)
(* lifetime of four, so that every branch of the schedule is taken, and    *)
(* passes that take no time or a millisecond.                              *)
(***************************************************************************)
EXTENDS Sampling
=============================================================================
