--------------------------- MODULE MCFriendRelay ---------------------------
(* FriendRelay with two friends and one own identity. *)
EXTENDS FriendRelay, TLC

CONSTANTS g1, g2, own, none
=============================================================================
