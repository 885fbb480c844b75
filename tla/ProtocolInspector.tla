-------------------------- MODULE ProtocolInspector --------------------------
(***************************************************************************)
(* WebSocketInspector (protocol_capture.rs): one of the two directions of  *)
(* a relay in protocol mode.  It sees what was just forwarded, and gives   *)
(* the binary messages to be stored.  Unlike the friend inspector it never *)
(* skips anything: what it does not understand ends the relay.             *)
(*                                                                         *)
(* feed() is split at its loop: a state with looping = FALSE is one        *)
(* between two calls.                                                      *)
(***************************************************************************)
EXTENDS FrameStream

CONSTANT ExpectedMask   \* TRUE from the client to the server

VARIABLES
    stream,      \* what the peer sends, up to where it may be cut off
    fed,         \* bytes of it that were fed
    parsed,      \* frames of it that were consumed
    fragmented,  \* the message that is open: its kind and its frames
    messages,    \* local to feed(): the messages it will return
    out,         \* the messages returned so far
    looping,     \* inside feed()
    status       \* "closed" or "cut" (its Err) after finish(), "failed" after an Err of feed()

vars == <<stream, fed, parsed, fragmented, messages, out, looping, status>>

NoFragment == [kind |-> "none", parts |-> <<>>]

TypeOK ==
    /\ stream \in Streams
    /\ fed \in 0 .. BytesOf(stream, Len(stream))
    /\ parsed \in 0 .. Len(stream)
    /\ fragmented \in [kind : {"none", "binary", "text"}, parts : Seq(1 .. MaxFrames)]
    /\ fragmented.kind = "none" <=> fragmented.parts = <<>>
    /\ looping \in BOOLEAN /\ status \in {"open", "closed", "cut", "failed"}
    /\ messages \in Seq(Seq(1 .. MaxFrames)) /\ out \in Seq(Seq(1 .. MaxFrames))

Init ==
    /\ stream \in Streams
    /\ fed = 0 /\ parsed = 0
    /\ fragmented = NoFragment
    /\ messages = <<>> /\ out = <<>>
    /\ looping = FALSE /\ status = "open"

\* The bytes of self.buffer that are not consumed.
Buffered == fed - BytesOf(stream, parsed)

Feed(n) ==
    /\ status = "open" /\ ~looping
    /\ fed' = fed + n
    /\ looping' = TRUE
    /\ UNCHANGED <<stream, parsed, fragmented, messages, out, status>>

\* Mutant: the mask is not waited for.
ParseBeforeMask(f, bytes) ==
    CASE bytes < 2 -> "incomplete"
      [] bytes >= 2 /\ (f.rsv1 \/ f.rsv \/ f.masked # ExpectedMask) -> "error"
      [] OTHER ->
         IF bytes < HeaderBytes(f) THEN "incomplete"
         ELSE IF f.len > MaxPayload THEN "error"
         ELSE IF f.op = "control" /\ (~f.fin \/ f.len > MaxControl) THEN "error"
         ELSE IF bytes < HeaderBytes(f) + f.len THEN "incomplete" ELSE "complete"

\* parse_frame on the first frame of a buffer of the given size.
Parse(f, bytes) ==
    CASE bytes < 2 -> "incomplete"
      [] bytes >= 2 /\ (f.rsv1 \/ f.rsv \/ f.masked # ExpectedMask) -> "error"
      [] OTHER ->
         IF bytes < HeaderBytes(f) THEN "incomplete"
         ELSE IF f.len > MaxPayload THEN "error"
         ELSE IF f.op = "control" /\ (~f.fin \/ f.len > MaxControl) THEN "error"
         ELSE IF bytes < FrameBytes(f) THEN "incomplete" ELSE "complete"

NextFrame == parsed + 1
Parsed ==
    IF parsed = Len(stream) THEN "incomplete" ELSE Parse(stream[NextFrame], Buffered)

\* An Err of feed(): what it had collected is dropped with it.
FeedFails ==
    /\ status' = "failed" /\ looping' = FALSE
    /\ messages' = <<>>
    /\ UNCHANGED out

\* Mutant: room for a payload, not for its header.
MaxBufferedNoHeader == MaxPayload

MaxBuffered == MaxPayload + 14

LoopEnds ==
    /\ looping /\ Parsed = "incomplete"
    /\ IF Buffered > MaxBuffered
       THEN FeedFails
       ELSE /\ out' = out \o messages /\ messages' = <<>>
            /\ looping' = FALSE /\ UNCHANGED status
    /\ UNCHANGED <<stream, fed, parsed, fragmented>>

ParseFails ==
    /\ looping /\ Parsed = "error"
    /\ FeedFails
    /\ UNCHANGED <<stream, fed, parsed, fragmented>>

\* accept_frame, by opcode.
Accept(op) ==
    /\ looping /\ Parsed = "complete" /\ stream[NextFrame].op = op
    /\ parsed' = NextFrame
    /\ UNCHANGED <<stream, fed>>

Control == Accept("control") /\ UNCHANGED <<fragmented, messages, out, looping, status>>

Unsupported == Accept("reserved") /\ FeedFails /\ UNCHANGED fragmented

DataStart(kind) ==
    /\ Accept(kind)
    /\ IF fragmented.kind # "none"
       THEN FeedFails /\ UNCHANGED fragmented
       ELSE LET fin == stream[NextFrame].fin IN
            /\ fragmented' = IF fin THEN NoFragment ELSE [kind |-> kind, parts |-> <<NextFrame>>]
            /\ messages' = IF fin /\ kind = "binary" THEN Append(messages, <<NextFrame>>)
                           ELSE messages
            /\ UNCHANGED <<out, looping, status>>

PartBytes(parts) == PayloadOf(stream, parts)

Continuation ==
    /\ Accept("continuation")
    /\ LET fin == stream[NextFrame].fin
           parts == Append(fragmented.parts, NextFrame)
       IN  IF fragmented.kind = "none" \/ PartBytes(parts) > MaxPayload
           THEN FeedFails /\ UNCHANGED fragmented
           ELSE /\ fragmented' = IF fin THEN NoFragment ELSE [fragmented EXCEPT !.parts = parts]
                /\ messages' = IF fin /\ fragmented.kind = "binary" THEN Append(messages, parts)
                               ELSE messages
                /\ UNCHANGED <<out, looping, status>>

\* Mutant: only the buffer is looked at.
FinishIgnoresFragment ==
    /\ status = "open" /\ ~looping
    /\ status' = IF Buffered = 0 THEN "closed" ELSE "cut"
    /\ UNCHANGED <<stream, fed, parsed, fragmented, messages, out, looping>>

\* The peer closed: finish().
Finish ==
    /\ status = "open" /\ ~looping
    /\ status' = IF Buffered = 0 /\ fragmented.kind = "none" THEN "closed" ELSE "cut"
    /\ UNCHANGED <<stream, fed, parsed, fragmented, messages, out, looping>>

Next ==
    \/ \E n \in 1 .. ChunkMax : fed + n <= BytesOf(stream, Len(stream)) /\ Feed(n)
    \/ LoopEnds \/ ParseFails
    \/ Control \/ Unsupported \/ DataStart("text") \/ DataStart("binary") \/ Continuation
    \/ Finish

Spec == Init /\ [][Next]_vars

-----------------------------------------------------------------------------
(* Properties *)

Legal == LegalPrefix(stream, ExpectedMask, {"text", "binary"})
Whole == WholeFrames(stream, fed)

\* While the relay lives, what was returned for storing is exactly the messages that
\* have arrived whole, wherever the reads were cut: none lost, doubled or torn.
ReturnsWhatArrived ==
    ~looping /\ status # "failed" => out = Messages(stream, Whole)

\* feed() ends the relay only at a frame that is not legal there, once its first bytes
\* have arrived: its limits leave room for everything legal.
FailsOnlyAtIllegal ==
    status = "failed" => Legal < Len(stream) /\ fed >= BytesOf(stream, Legal) + 2

\* finish() tells a clean end from one within a frame or a message; after a clean one
\* every byte that was forwarded belongs to a legal frame of a finished message.
FinishTellsCut ==
    status \in {"closed", "cut"} =>
        /\ Whole <= Legal
        /\ (status = "closed") <=> fed = BytesOf(stream, Whole) /\ ~OpenAfter(stream, Whole)

=============================================================================
