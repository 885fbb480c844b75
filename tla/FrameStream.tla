----------------------------- MODULE FrameStream -----------------------------
(***************************************************************************)
(* A WebSocket stream as both inspectors see it, and the reference that    *)
(* says which binary messages it carries.  A frame keeps what decides how  *)
(* it is parsed: the header bits, the form of its length field and the     *)
(* number of payload bytes.  A message is the list of the frames that make *)
(* it up.  Header bytes are counted one by one, payloads in small units.   *)
(***************************************************************************)
EXTENDS Naturals, Sequences, FiniteSets, SequencesExt

CONSTANTS
    FrameKinds,   \* the frames that a peer may send
    MaxFrames,    \* bound: frames in a stream
    MaxPayload,   \* MAX_FRAME_PAYLOAD = MAX_MESSAGE_PAYLOAD
    MaxControl,   \* 125, the longest control frame
    ChunkMax      \* bytes of one read (16 KiB)

Opcodes == {"continuation", "text", "binary", "control", "reserved"}

Frame == [op : Opcodes, fin : BOOLEAN, rsv1 : BOOLEAN, rsv : BOOLEAN, masked : BOOLEAN,
          form : {"byte", "word", "long"}, len : Nat]

ASSUME FrameConstants ==
    /\ FrameKinds \subseteq Frame
    /\ MaxFrames \in Nat /\ MaxPayload \in Nat /\ MaxControl \in Nat
    /\ ChunkMax \in Nat \ {0}

Streams == BoundedSeq(FrameKinds, MaxFrames)

HeaderBytes(f) ==
    2 + (CASE f.form = "byte" -> 0 [] f.form = "word" -> 2 [] f.form = "long" -> 8)

FrameBytes(f) == HeaderBytes(f) + (IF f.masked THEN 4 ELSE 0) + f.len

\* The bytes of the frames 1..k, each named by its frame and its place there.
BytesOf(frames, k) ==
    Cardinality(UNION {{i} \X (1 .. FrameBytes(frames[i])) : i \in 1 .. k})

\* The frames that have arrived whole when n bytes have arrived.
WholeFrames(frames, n) ==
    Cardinality({k \in 1 .. Len(frames) : BytesOf(frames, k) <= n})

IsData(f) == f.op \in {"continuation", "text", "binary"}
Starts(f) == f.op \in {"text", "binary"}

\* The frame that started the message to which data frame k belongs (0: none).
StartOf(frames, k) ==
    LET starts == {j \in 1 .. k : Starts(frames[j])}
    IN  IF starts = {} THEN 0 ELSE CHOOSE j \in starts : \A i \in starts : i <= j

\* A set of numbers as a list, the least first.
InOrder(set) ==
    [n \in 1 .. Cardinality(set) |->
        CHOOSE i \in set : Cardinality({j \in set : j <= i}) = n]

\* The data frames of that message up to frame k.
PartsOf(frames, k) == InOrder({i \in 1 .. k : i >= StartOf(frames, k) /\ IsData(frames[i])})

\* Frame k completes a binary message.
Completes(frames, k) ==
    IsData(frames[k]) /\ frames[k].fin /\ frames[StartOf(frames, k)].op = "binary"

\* The messages that frames 1..n complete, in order.
Messages(frames, n) ==
    LET ends == InOrder({k \in 1 .. n : Completes(frames, k)})
    IN  [m \in 1 .. Len(ends) |-> PartsOf(frames, ends[m])]

\* A message is open after frame k.
OpenAfter(frames, k) ==
    \E j \in 1 .. k : /\ Starts(frames[j])
                      /\ \A i \in j .. k : IsData(frames[i]) => ~frames[i].fin

\* The payload of some frames together.
PayloadOf(frames, parts) == FoldLeft(LAMBDA bytes, i : bytes + frames[i].len, 0, parts)

\* Frame k is what the protocol allows there, for a peer that masks or not and for a
\* reader that limits the messages of some kinds.
LegalFrame(frames, k, masks, limited) ==
    LET f == frames[k] IN
    /\ ~f.rsv1 /\ ~f.rsv /\ f.masked = masks /\ f.op # "reserved"
    /\ f.len <= MaxPayload
    /\ f.op = "control" => f.fin /\ f.len <= MaxControl
    /\ f.op = "continuation" => OpenAfter(frames, k - 1)
    /\ Starts(f) => ~OpenAfter(frames, k - 1)
    /\ f.op = "continuation" /\ frames[StartOf(frames, k)].op \in limited =>
          ~(PayloadOf(frames, PartsOf(frames, k)) > MaxPayload)

\* How many frames are legal from the start of the stream.
LegalPrefix(frames, masks, limited) ==
    Cardinality({k \in 1 .. Len(frames) : \A j \in 1 .. k : LegalFrame(frames, j, masks, limited)})

=============================================================================
