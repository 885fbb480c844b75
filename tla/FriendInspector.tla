--------------------------- MODULE FriendInspector ---------------------------
(***************************************************************************)
(* ServerFriendInspector (friend_capture.rs): it sees a copy of what the   *)
(* gateway sends, cut wherever a read ended, and hands over the binary     *)
(* messages.  It must never stop the relay, so on anything it does not     *)
(* understand it turns itself off.                                         *)
(*                                                                         *)
(* feed() is split at its loop: a state with looping = FALSE is one        *)
(* between two calls.                                                      *)
(***************************************************************************)
EXTENDS FrameStream

VARIABLES
    stream,      \* what the gateway sends
    fed,         \* bytes of it that were fed
    parsed,      \* frames of it that were consumed
    fragmented,  \* the message that is open: its kind and its frames
    enabled,     \* false for ever after something invalid
    out,         \* the messages handed over
    looping,     \* inside feed()
    lengthCut    \* history: a read ended inside a 64-bit length field

vars == <<stream, fed, parsed, fragmented, enabled, out, looping, lengthCut>>

NoFragment == [kind |-> "none", parts |-> <<>>]

TypeOK ==
    /\ stream \in Streams
    /\ fed \in 0 .. BytesOf(stream, Len(stream))
    /\ parsed \in 0 .. Len(stream)
    /\ fragmented \in [kind : {"none", "binary", "text"}, parts : Seq(1 .. MaxFrames)]
    /\ fragmented.kind = "none" <=> fragmented.parts = <<>>
    /\ enabled \in BOOLEAN /\ looping \in BOOLEAN /\ lengthCut \in BOOLEAN
    /\ out \in Seq(Seq(1 .. MaxFrames))

Init ==
    /\ stream \in Streams
    /\ fed = 0 /\ parsed = 0
    /\ fragmented = NoFragment
    /\ enabled = TRUE /\ looping = FALSE /\ lengthCut = FALSE
    /\ out = <<>>

\* The bytes in self.buffer that are not consumed.
Buffered == fed - BytesOf(stream, parsed)

\* Mutant: room for a chunk and a payload, not for the header.
MaxBufferedNoHeader == MaxPayload + ChunkMax

\* MAX_BUFFERED_BYTES.
MaxBuffered == MaxPayload + ChunkMax + 32

Disable ==
    /\ enabled' = FALSE
    /\ fragmented' = NoFragment
    /\ looping' = FALSE

\* Byte n is the last one of a read that ends after the two bytes that announce a
\* 64-bit length and before its last byte.
CutsLength(n) ==
    \E i \in 1 .. Len(stream) :
        /\ stream[i].form = "long"
        /\ n - BytesOf(stream, i - 1) \in 2 .. 9

\* feed: append the chunk unless the buffer would pass its limit.
Feed(n) ==
    /\ ~looping
    /\ fed' = fed + n
    /\ lengthCut' = (lengthCut \/ CutsLength(fed + n))
    /\ IF ~enabled
       THEN UNCHANGED <<fragmented, enabled, looping>>
       ELSE IF Buffered + n > MaxBuffered
       THEN Disable
       ELSE looping' = TRUE /\ UNCHANGED <<fragmented, enabled>>
    /\ UNCHANGED <<stream, parsed, out>>

\* parse_server_frame on the first frame of a buffer of the given size.
Parse(f, bytes) ==
    CASE bytes < 2 -> "incomplete"
      [] bytes >= 2 /\ (f.rsv \/ f.masked \/ f.op = "reserved") -> "invalid"
      [] OTHER ->
         IF f.form = "word" /\ bytes < 4 THEN "incomplete"
         ELSE IF f.form = "long" /\ bytes < 10 THEN "invalid"
         ELSE IF f.len > MaxPayload THEN "invalid"
         ELSE IF f.op = "control" /\ (f.rsv1 \/ ~f.fin \/ f.len > MaxControl) THEN "invalid"
         ELSE IF bytes < FrameBytes(f) THEN "incomplete" ELSE "complete"

NextFrame == parsed + 1
Parsed == IF parsed = Len(stream) THEN "incomplete" ELSE Parse(stream[NextFrame], Buffered)

\* The loop ends when no complete frame is left ...
LoopEnds ==
    /\ looping /\ Parsed = "incomplete"
    /\ looping' = FALSE
    /\ UNCHANGED <<stream, fed, parsed, fragmented, enabled, out, lengthCut>>

\* ... or at an invalid one.
LoopInvalid ==
    /\ looping /\ Parsed = "invalid"
    /\ Disable
    /\ UNCHANGED <<stream, fed, parsed, out, lengthCut>>

Consume(op) ==
    /\ looping /\ Parsed = "complete" /\ stream[NextFrame].op = op
    /\ parsed' = NextFrame
    /\ UNCHANGED <<stream, fed, lengthCut>>

Control == Consume("control") /\ UNCHANGED <<fragmented, enabled, out, looping>>

\* process_data_start.
DataStart(kind) ==
    /\ Consume(kind)
    /\ LET f == stream[NextFrame] IN
       IF fragmented.kind # "none" \/ f.rsv1
       THEN Disable /\ UNCHANGED out
       ELSE /\ fragmented' = IF f.fin THEN NoFragment ELSE [kind |-> kind, parts |-> <<NextFrame>>]
            /\ out' = IF f.fin /\ kind = "binary" THEN Append(out, <<NextFrame>>) ELSE out
            /\ UNCHANGED <<enabled, looping>>

PartBytes(parts) == PayloadOf(stream, parts)

\* Mutant: the open message is not taken when it is finished.
ContinuationKeepsOpen ==
    /\ Consume("continuation")
    /\ LET f == stream[NextFrame]
           parts == Append(fragmented.parts, NextFrame)
       IN  IF f.rsv1 \/ fragmented.kind = "none" \/
              (fragmented.kind = "binary" /\ PartBytes(parts) > MaxPayload)
           THEN Disable /\ UNCHANGED out
           ELSE /\ fragmented' = [fragmented EXCEPT !.parts = parts]
                /\ out' = IF f.fin /\ fragmented.kind = "binary" THEN Append(out, parts) ELSE out
                /\ UNCHANGED <<enabled, looping>>

\* process_continuation; only the length of a binary message is limited.
Continuation ==
    /\ Consume("continuation")
    /\ LET f == stream[NextFrame]
           parts == Append(fragmented.parts, NextFrame)
       IN  IF f.rsv1 \/ fragmented.kind = "none" \/
              (fragmented.kind = "binary" /\ PartBytes(parts) > MaxPayload)
           THEN Disable /\ UNCHANGED out
           ELSE /\ fragmented' = IF f.fin THEN NoFragment
                                 ELSE [fragmented EXCEPT !.parts = parts]
                /\ out' = IF f.fin /\ fragmented.kind = "binary" THEN Append(out, parts) ELSE out
                /\ UNCHANGED <<enabled, looping>>

Next ==
    \/ \E n \in 1 .. ChunkMax : fed + n <= BytesOf(stream, Len(stream)) /\ Feed(n)
    \/ LoopEnds \/ LoopInvalid
    \/ Control \/ DataStart("text") \/ DataStart("binary") \/ Continuation

Spec == Init /\ [][Next]_vars

-----------------------------------------------------------------------------
(* Properties *)

Legal == LegalPrefix(stream, FALSE, {"binary"})
Whole == WholeFrames(stream, fed)
SeenFrames == IF Whole < Legal THEN Whole ELSE Legal

\* Between two calls, exactly the messages of the legal frames that have arrived
\* whole were handed over, wherever the reads were cut; but a read that is cut
\* inside a 64-bit length turns the inspector off (the incomplete length is taken
\* for an invalid one), and then only the messages of the frames up to some earlier
\* one were handed over.
HandsOverWhatArrived ==
    ~looping => IF lengthCut THEN \E n \in 0 .. SeenFrames : out = Messages(stream, n)
                             ELSE out = Messages(stream, SeenFrames)

\* A stream that is legal so far never turns the inspector off: the limits on the
\* buffer, on frames and on messages leave room for everything legal (the cut
\* 64-bit length apart).
OffOnlyIfIllegal ==
    ~enabled => lengthCut \/ Legal < Len(stream)

=============================================================================
