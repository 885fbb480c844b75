----------------------------- MODULE Inspectors -----------------------------
(***************************************************************************)
(* Both inspectors on one stream.  A relay of the proxy has one of them:   *)
(* with friend sync a ServerFriendInspector watches what the gateway       *)
(* sends (FriendInspector), in protocol mode a WebSocketInspector watches  *)
(* each direction (ProtocolInspector) and there is no friend inspector.    *)
(* Here the frames, the cuts and what was handed over are one and the same *)
(* state, so that the two are reasoned about with the same facts about     *)
(* streams.                                                                *)
(***************************************************************************)
EXTENDS FriendInspector

CONSTANT ExpectedMask   \* TRUE from the client to the server

ASSUME InspectorConstants == ExpectedMask \in BOOLEAN

VARIABLES messages, status

Protocol == INSTANCE ProtocolInspector

\* What only the friend inspector has; in protocol mode it stays off.
friendVars == <<enabled, lengthCut>>

relayVars == <<Protocol!vars, friendVars>>

RelayStarts ==
    /\ Protocol!Init
    /\ enabled = FALSE /\ lengthCut = FALSE

RelaySteps == Protocol!Next /\ UNCHANGED friendVars

ProtocolSpec == RelayStarts /\ [][RelaySteps]_relayVars

-----------------------------------------------------------------------------
(* What protocol mode promises (the definitions are ProtocolInspector's)    *)

\* While the relay lives, what feed() returned for storing is exactly the messages that
\* have arrived whole, wherever the reads were cut: none lost, doubled or torn.
ReturnsWhatArrived == Protocol!ReturnsWhatArrived

\* feed() ends the relay only at a frame that is not legal there, once its first bytes
\* have arrived.
FailsOnlyAtIllegal == Protocol!FailsOnlyAtIllegal

\* finish() tells a clean end from one within a frame or a message.
FinishTellsCut == Protocol!FinishTellsCut

=============================================================================
