-------------------------- MODULE MCCaptureSession --------------------------
(* Small instances of CaptureSession for TLC.                              *)
EXTENDS CaptureSession, TLC

CONSTANTS A, B, c1, c2

\* Accounts and connections are interchangeable; used for safety only.
Symmetry == Permutations(Accounts) \cup Permutations(Conns)
=============================================================================
