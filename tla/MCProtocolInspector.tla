------------------------ MODULE MCProtocolInspector ------------------------
(* ProtocolInspector from the client to the server, on all streams of a few    *)
(* masked frames: every opcode, the three length forms, fragments, payloads at *)
(* and above their limit, the reserved bits and a frame without a mask.        *)
EXTENDS Inspectors

F(op, fin, form, len) ==
    [op |-> op, fin |-> fin, rsv1 |-> FALSE, rsv |-> FALSE, masked |-> TRUE,
     form |-> form, len |-> len]

ClientKinds ==
    {F("binary", TRUE, "long", 3), F("binary", FALSE, "byte", 2), F("text", FALSE, "byte", 3),
     F("text", TRUE, "word", 1), F("continuation", FALSE, "byte", 0),
     F("continuation", TRUE, "byte", 1), F("control", TRUE, "byte", 1),
     F("binary", TRUE, "word", 4), F("control", FALSE, "byte", 0), F("reserved", TRUE, "byte", 0),
     [F("text", TRUE, "byte", 1) EXCEPT !.rsv = TRUE],
     [F("binary", TRUE, "byte", 1) EXCEPT !.masked = FALSE]}
=============================================================================
