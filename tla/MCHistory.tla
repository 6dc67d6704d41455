----------------------------- MODULE MCHistory -----------------------------
(* A small cascade: as in TIERS, each interval divides the next one and each *)
(* tier spans more than the one before.                                      *)
EXTENDS History

Cascade == <<[interval |-> 1, cap |-> 3],
             [interval |-> 2, cap |-> 3],
             [interval |-> 4, cap |-> 2]>>
=============================================================================
