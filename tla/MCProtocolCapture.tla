------------------------- MODULE MCProtocolCapture -------------------------
(* ProtocolCapture with two connections. *)
EXTENDS ProtocolCapture, TLC

CONSTANTS c1, c2
=============================================================================
