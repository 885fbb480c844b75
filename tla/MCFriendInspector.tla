-------------------------- MODULE MCFriendInspector --------------------------
(* FriendInspector on all streams of a few frames: every opcode, fragments, a   *)
(* payload at and above its limit, an oversized control frame, the reserved     *)
(* bits, and the three forms of the length.                                      *)
EXTENDS FriendInspector

F(op, fin, form, len) ==
    [op |-> op, fin |-> fin, rsv1 |-> FALSE, rsv |-> FALSE, masked |-> FALSE,
     form |-> form, len |-> len]

LegalKinds ==
    {F("binary", TRUE, "word", 3), F("binary", FALSE, "byte", 2), F("text", FALSE, "byte", 3),
     F("text", TRUE, "byte", 1), F("continuation", FALSE, "byte", 1),
     F("continuation", TRUE, "byte", 1), F("control", TRUE, "byte", 1)}

BadKinds ==
    {F("binary", TRUE, "word", 4), F("control", FALSE, "byte", 0), F("control", TRUE, "byte", 2),
     F("reserved", TRUE, "byte", 0),
     [F("binary", TRUE, "byte", 1) EXCEPT !.rsv1 = TRUE],
     [F("continuation", TRUE, "byte", 1) EXCEPT !.rsv1 = TRUE],
     [F("text", TRUE, "byte", 1) EXCEPT !.rsv = TRUE],
     [F("binary", TRUE, "byte", 1) EXCEPT !.masked = TRUE]}

LongKinds == {F("binary", TRUE, "long", 3)}

AllKinds == LegalKinds \cup BadKinds \cup LongKinds
=============================================================================
