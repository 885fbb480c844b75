------------------------- MODULE MCNetworkTakeover -------------------------
(* NetworkTakeover for TLC: the settings are model values and interchangeable. *)
EXTENDS NetworkTakeover, TLC

CONSTANTS P1, P2

Symmetry == Permutations({P1, P2})
=============================================================================
