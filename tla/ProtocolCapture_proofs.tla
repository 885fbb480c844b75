------------------------ MODULE ProtocolCapture_proofs ------------------------
(***************************************************************************)
(* Proofs about ProtocolCapture, for any connections, and any number of    *)
(* messages and failures.                                                  *)
(***************************************************************************)
EXTENDS ProtocolCapture, FiniteSetTheorems, SequenceTheorems, TLAPS

-----------------------------------------------------------------------------
(* The inductive invariants                                                 *)

Record == [file : Nat \X Dirs, id : Nat, message : [conn : Conns, dir : Dirs, n : Nat]]
Item == Record \cup {Torn}
Steps == {"append", "newline"}

Typed ==
    /\ relay \in [Conns -> {"idle", "handshake", "open", "ended"}]
    /\ id \in [Conns -> Nat] /\ connectionCount \in Nat /\ messageCount \in Nat
    /\ forwarded \in [Conns \X Dirs -> Nat] /\ stored \in [Conns \X Dirs -> Nat]
    /\ \A d \in Conns \X Dirs : stored[d] <= forwarded[d]
    /\ writer \in {Free} \cup [kind : {"url"}, conn : Conns, step : Steps]
                    \cup [kind : {"message"}, conn : Conns, step : Steps, record : Record]
    /\ manifest \in Seq(Seq(Item)) /\ manifest # <<>>
    /\ fails \in Nat
    /\ button \in [Buttons -> {"idle", "stopping", "joining", "recovering"}]

\* A store belongs to the relay that holds the writer.
WriterServes ==
    writer # Free => relay[writer.conn] = IF writer.kind = "url" THEN "handshake" ELSE "open"

\* One stop at a time has the transport, and the proxy outlives every relay.
Recovering(b) == button[b] \in {"joining", "recovering"}
OneStops ==
    /\ \A a, b \in Buttons : Recovering(a) /\ Recovering(b) => a = b
    /\ proxy \in {"running", "cancelled", "ended"}
    /\ proxy = "cancelled" <=> \E b \in Buttons : button[b] = "joining"
    /\ \A b \in Buttons : button[b] = "recovering" => proxy = "ended"
    /\ proxy = "ended" => \A c \in Conns : relay[c] \in {"idle", "ended"}

\* A summary is published when the proxy has ended.
Summed ==
    /\ status # Listening => proxy = "ended"
    /\ status.directory /\ status # Listening => status.messages = messageCount

StopInv == Typed /\ WriterServes /\ OneStops /\ Summed

\* The writer's record is that of a URL that was just stored ...
UrlIsNew ==
    writer.kind = "url" =>
        /\ id[writer.conn] = connectionCount + 1
        /\ id[writer.conn] \in DOMAIN urls /\ urls[id[writer.conn]] = writer.conn

\* ... or of the message that was just stored; a line that lacks its newline ends with it.
RecordIsNew ==
    writer.kind = "message" =>
        LET record == writer.record
            message == record.message
        IN  /\ record.file = <<messageCount + 1, message.dir>>
            /\ record.file \in DOMAIN files /\ files[record.file] = message
            /\ record.id \in 1 .. connectionCount
            /\ record.id \in DOMAIN urls /\ urls[record.id] = message.conn
            /\ message.conn = writer.conn /\ message.n = stored[<<message.conn, message.dir>>]
            /\ writer.step = "newline" =>
                  /\ manifest[Len(manifest)] # <<>>
                  /\ manifest[Len(manifest)][Len(manifest[Len(manifest)])] = record

\* A connection that has passed its handshake has a URL of its own.
Handshaken(c) ==
    relay[c] = "open" \/ (relay[c] = "handshake" /\ ~Writing(c)) =>
        id[c] \in 1 .. connectionCount /\ id[c] \in DOMAIN urls /\ urls[id[c]] = c

\* What is in the manifest is on the disk, and is older than what is being stored.
Recorded(record) ==
    LET message == record.message IN
    /\ record \in Record
    /\ record.file[1] \in 1 .. messageCount
    /\ record.file \in DOMAIN files /\ files[record.file] = message
    /\ record.id \in 1 .. connectionCount
    /\ record.id \in DOMAIN urls /\ urls[record.id] = message.conn
    /\ message.n <= stored[<<message.conn, message.dir>>]
    /\ writer.kind = "message" /\ writer.record.message.conn = message.conn
         /\ writer.record.message.dir = message.dir => message.n < writer.record.message.n

RecordInv ==
    /\ UrlIsNew /\ RecordIsNew
    /\ \A c \in Conns : Handshaken(c)
    /\ \A k \in Readable(manifest) : Recorded(manifest[k][1])
    /\ RecordsAreTrue

\* Where nothing failed: the last line holds what is being written, and every message
\* whose store is not under way is recorded.
UnderWay(c, dir) ==
    IF writer.kind = "message" /\ writer.conn = c /\ writer.record.message.dir = dir THEN 1 ELSE 0

CountInv ==
    fails = 0 =>
        /\ manifest[Len(manifest)] =
              IF writer.kind = "message" /\ writer.step = "newline" THEN <<writer.record>> ELSE <<>>
        /\ \A c \in Conns, dir \in Dirs :
              stored[<<c, dir>>] = Cardinality(RecordsOf(c, dir)) + UnderWay(c, dir)

-----------------------------------------------------------------------------
(* The lines of a file                                                      *)

Lines == {lines \in Seq(Seq(Item)) : lines # <<>>}

LEMMA LineTypes ==
    ASSUME NEW lines \in Lines
    PROVE  /\ lines \in Seq(Seq(Item)) /\ Len(lines) \in Nat \ {0}
           /\ DOMAIN lines = 1 .. Len(lines)
           /\ \A k \in 1 .. Len(lines) : lines[k] \in Seq(Item) /\ Len(lines[k]) \in Nat
<1>1. lines \in Seq(Seq(Item)) /\ lines # <<>>
  BY DEF Lines
<1>2. Len(lines) \in Nat /\ DOMAIN lines = 1 .. Len(lines)
  BY <1>1, LenProperties
<1>3. Len(lines) # 0
  BY <1>1, EmptySeq
<1>4. \A k \in 1 .. Len(lines) : lines[k] \in Seq(Item)
  BY <1>1, <1>2, ElementOfSeq
<1> QED
  BY <1>1, <1>2, <1>3, <1>4, LenProperties

\* An append goes to the end of the last line, and changes nothing that can be read.
LEMMA AppendedLines ==
    ASSUME NEW lines \in Lines, NEW item \in Item
    PROVE  LET new == Appended(lines, item)
               last == lines[Len(lines)]
           IN  /\ new \in Lines /\ Len(new) = Len(lines)
               /\ \A k \in 1 .. Len(lines) - 1 : new[k] = lines[k]
               /\ new[Len(lines)] = Append(last, item)
               /\ new[Len(lines)] # <<>>
               /\ new[Len(lines)][Len(new[Len(lines)])] = item
               /\ Readable(new) = Readable(lines)
<1> DEFINE new == Appended(lines, item)
           n == Len(lines)
           last == lines[n]
<1>1. /\ lines \in Seq(Seq(Item)) /\ n \in Nat \ {0} /\ DOMAIN lines = 1 .. n
      /\ \A k \in 1 .. n : lines[k] \in Seq(Item) /\ Len(lines[k]) \in Nat
  BY LineTypes
<1>2. new = [lines EXCEPT ![n] = Append(last, item)]
  BY DEF Appended
<1>3. /\ Append(last, item) \in Seq(Item) /\ Append(last, item) # <<>>
      /\ Append(last, item)[Len(Append(last, item))] = item
  BY <1>1, AppendProperties
<1>4. lines \in [1 .. n -> Seq(Item)]
  BY <1>1, LenProperties
<1> HIDE DEF new, n, last
<1>5. new \in [1 .. n -> Seq(Item)] /\ DOMAIN new = 1 .. n
  BY <1>1, <1>2, <1>3, <1>4
<1>6. new \in Seq(Seq(Item))
  BY <1>1, <1>5, SeqDef
<1>7. Len(new) = n
  BY <1>1, <1>5, <1>6, LenProperties
<1>8. /\ \A k \in 1 .. n - 1 : new[k] = lines[k]
      /\ new[n] = Append(last, item)
  BY <1>1, <1>2, <1>4
<1>9. new # <<>>
  BY <1>1, <1>7, EmptySeq
<1>10. Readable(new) = Readable(lines)
  BY <1>7, <1>8 DEF Readable, n
<1> QED
  BY <1>3, <1>6, <1>7, <1>8, <1>9, <1>10 DEF Lines, new, n, last

\* A newline ends the last line, which can be read if it holds one record.
LEMMA EndedLines ==
    ASSUME NEW lines \in Lines
    PROVE  LET new == Append(lines, <<>>)
               n == Len(lines)
           IN  /\ new \in Lines /\ Len(new) = n + 1
               /\ \A k \in 1 .. n : new[k] = lines[k]
               /\ new[n + 1] = <<>>
               /\ Readable(new) = Readable(lines) \cup
                    {k \in {n} : Len(lines[k]) = 1 /\ lines[k][1] # Torn}
               /\ n \notin Readable(lines)
<1> DEFINE new == Append(lines, <<>>)
           n == Len(lines)
<1>1. lines \in Seq(Seq(Item)) /\ n \in Nat \ {0} /\ <<>> \in Seq(Item)
  BY LineTypes, EmptySeq
<1>2. /\ new \in Seq(Seq(Item)) /\ new # <<>> /\ Len(new) = n + 1
      /\ \A k \in 1 .. n : new[k] = lines[k]
      /\ new[n + 1] = <<>>
  BY <1>1, AppendProperties
<1> HIDE DEF new
<1>3. Readable(new) = Readable(lines) \cup {k \in {n} : Len(lines[k]) = 1 /\ lines[k][1] # Torn}
  <2>1. 1 .. Len(new) - 1 = (1 .. n - 1) \cup {n}
    BY <1>1, <1>2
  <2> HIDE DEF n
  <2>2. Readable(new) = {k \in (1 .. n - 1) \cup {n} : Len(new[k]) = 1 /\ new[k][1] # Torn}
    BY <2>1 DEF Readable
  <2>3. Readable(lines) = {k \in 1 .. n - 1 : Len(lines[k]) = 1 /\ lines[k][1] # Torn}
    BY DEF Readable, n
  <2>4. \A k \in (1 .. n - 1) \cup {n} : new[k] = lines[k]
    BY <1>1, <1>2
  <2> QED
    BY <2>2, <2>3, <2>4
<1>4. n \notin Readable(lines)
  BY <1>1 DEF Readable
<1> QED
  BY <1>2, <1>3, <1>4 DEF Lines, new

-----------------------------------------------------------------------------
(* Types                                                                    *)

Writers ==
    {Free} \cup [kind : {"url"}, conn : Conns, step : Steps]
           \cup [kind : {"message"}, conn : Conns, step : Steps, record : Record]

LEMMA WriterKinds ==
    ASSUME NEW w \in Writers
    PROVE  /\ w.kind \in {"free", "url", "message"}
           /\ w = Free <=> w.kind = "free"
           /\ w # Free => w.conn \in Conns /\ w.step \in Steps
           /\ w.kind = "message" => w.record \in Record
BY DEF Writers, Free

\* A relay that fails gives up what it has not stored.
LEMMA FailedRelay ==
    ASSUME Typed, NEW c \in Conns, RelayFails(c)
    PROVE  /\ relay' \in [Conns -> {"idle", "handshake", "open", "ended"}]
           /\ relay'[c] = "ended" /\ \A other \in Conns : other # c => relay'[other] = relay[other]
           /\ stored' \in [Conns \X Dirs -> Nat]
           /\ \A d \in Conns \X Dirs :
                 stored'[d] <= forwarded[d] /\ stored[d] <= stored'[d] /\ (d[1] # c => stored'[d] = stored[d])
<1>1. /\ relay' = [relay EXCEPT ![c] = "ended"]
      /\ stored' = [d \in Conns \X Dirs |-> IF d[1] = c THEN forwarded[d] ELSE stored[d]]
  BY DEF RelayFails
<1>2. /\ relay \in [Conns -> {"idle", "handshake", "open", "ended"}]
      /\ forwarded \in [Conns \X Dirs -> Nat] /\ stored \in [Conns \X Dirs -> Nat]
      /\ \A d \in Conns \X Dirs : stored[d] <= forwarded[d]
  BY DEF Typed
<1>3. /\ relay' \in [Conns -> {"idle", "handshake", "open", "ended"}]
      /\ relay'[c] = "ended" /\ \A other \in Conns : other # c => relay'[other] = relay[other]
  BY <1>1, <1>2
<1>4. \A d \in Conns \X Dirs : stored'[d] = IF d[1] = c THEN forwarded[d] ELSE stored[d]
  BY <1>1
<1>5. stored' \in [Conns \X Dirs -> Nat]
  BY <1>1, <1>2
<1>6. \A d \in Conns \X Dirs :
          stored'[d] <= forwarded[d] /\ stored[d] <= stored'[d] /\ (d[1] # c => stored'[d] = stored[d])
  <2> TAKE d \in Conns \X Dirs
  <2>1. forwarded[d] \in Nat /\ stored[d] \in Nat /\ stored[d] <= forwarded[d]
    BY <1>2
  <2> QED
    BY <1>4, <2>1
<1> QED
  BY <1>3, <1>5, <1>6

LEMMA RelayTypes ==
    ASSUME Typed, UNCHANGED <<writer, manifest, connectionCount, messageCount, button>>,
           \/ \E c \in Conns : Open(c) \/ Refused(c) \/ Cancel(c) \/ UrlFails(c)
           \/ \E c \in Conns, dir \in Dirs :
                 \/ \E messages \in 1 .. 2 : Forward(c, dir, messages) \/ ForwardFails(c, dir, messages)
                 \/ Close(c, dir) \/ MessageFails(c, dir)
    PROVE  Typed'
<1>1. CASE \E c \in Conns : Open(c) \/ Refused(c) \/ Cancel(c) \/ UrlFails(c)
  <2> PICK c \in Conns : Open(c) \/ Refused(c) \/ Cancel(c) \/ UrlFails(c)
    BY <1>1
  <2>1. /\ relay' = [relay EXCEPT ![c] = "open"] \/ relay' = [relay EXCEPT ![c] = "ended"]
        /\ fails' = fails \/ fails' = fails + 1
        /\ UNCHANGED <<id, forwarded, stored>>
    BY DEF Open, Refused, Cancel, UrlFails, Fails
  <2>2. fails' \in Nat
    BY <2>1 DEF Typed
  <2>3. relay' \in [Conns -> {"idle", "handshake", "open", "ended"}]
    BY <2>1 DEF Typed
  <2> QED
    BY <2>1, <2>2, <2>3 DEF Typed
<1>2. CASE \E c \in Conns, dir \in Dirs : Close(c, dir)
  BY <1>2 DEF Close, Typed
<1>3. CASE \E c \in Conns, dir \in Dirs : MessageFails(c, dir)
  <2> PICK c \in Conns, dir \in Dirs : MessageFails(c, dir)
    BY <1>3
  <2>1. RelayFails(c) /\ UNCHANGED <<id, forwarded>> /\ fails' = fails + 1
    BY DEF MessageFails, Fails
  <2> QED
    BY <2>1, FailedRelay DEF Typed
<1>4. CASE \E c \in Conns, dir \in Dirs, messages \in 1 .. 2 :
              Forward(c, dir, messages) \/ ForwardFails(c, dir, messages)
  <2> PICK c \in Conns, dir \in Dirs, messages \in 1 .. 2 :
              Forward(c, dir, messages) \/ ForwardFails(c, dir, messages)
    BY <1>4
  <2> DEFINE d == <<c, dir>>
  <2>1. /\ d \in Conns \X Dirs /\ messages \in Nat
        /\ forwarded' = [forwarded EXCEPT ![d] = @ + messages]
        /\ stored' = stored \/ stored' = [stored EXCEPT ![d] = @ + messages]
        /\ relay' = relay \/ relay' = [relay EXCEPT ![c] = "ended"]
        /\ fails' \in {fails, fails + 1}
        /\ UNCHANGED id
    BY DEF Forward, ForwardFails, Fails
  <2> HIDE DEF d
  <2>2. forwarded' \in [Conns \X Dirs -> Nat] /\ stored' \in [Conns \X Dirs -> Nat]
    BY <2>1 DEF Typed
  <2>3. \A e \in Conns \X Dirs : stored'[e] <= forwarded'[e]
    BY <2>1 DEF Typed
  <2>4. relay' \in [Conns -> {"idle", "handshake", "open", "ended"}]
    BY <2>1 DEF Typed
  <2>5. fails' \in Nat
    BY <2>1 DEF Typed
  <2> QED
    BY <2>1, <2>2, <2>3, <2>4, <2>5 DEF Typed
<1> QED
  BY <1>1, <1>2, <1>3, <1>4

LEMMA UrlTypes ==
    ASSUME Typed, (\E c \in Conns : StoreUrl(c)) \/ AppendConnection \/ FinishConnection
    PROVE  Typed'
<1>1. CASE \E c \in Conns : StoreUrl(c)
  <2> PICK c \in Conns : StoreUrl(c)
    BY <1>1
  <2>1. writer' \in Writers
    BY DEF StoreUrl, Writers, Steps
  <2>2. id' \in [Conns -> Nat] /\ relay' \in [Conns -> {"idle", "handshake", "open", "ended"}]
    BY DEF StoreUrl, Typed
  <2> QED
    BY <2>1, <2>2 DEF StoreUrl, Typed, counters, stopping, Writers
<1>2. CASE AppendConnection \/ FinishConnection
  <2> DEFINE c == writer.conn
  <2>1. writer \in Writers /\ writer.kind = "url" /\ c \in Conns
    BY <1>2, WriterKinds DEF Typed, Writers, AppendConnection, FinishConnection, Handshaking
  <2>2. writer' = Free \/ writer' = [writer EXCEPT !.step = "newline"]
    BY <1>2 DEF AppendConnection, FinishConnection
  <2>3. writer' \in Writers
    BY <2>1, <2>2 DEF Writers, Steps, Free
  <2>4. \/ UNCHANGED <<relay, stored, fails>>
        \/ RelayFails(c) /\ fails' = fails + 1
    BY <1>2 DEF AppendConnection, FinishConnection, Fails
  <2>5. UNCHANGED <<id, forwarded, manifest, messageCount, button>>
    BY <1>2 DEF AppendConnection, FinishConnection, counters, stopping
  <2>6. connectionCount' = connectionCount \/ connectionCount' = id[c]
    BY <1>2 DEF AppendConnection, FinishConnection, counters
  <2>7. connectionCount' \in Nat
    BY <2>1, <2>6 DEF Typed
  <2> HIDE DEF c
  <2>8. /\ relay' \in [Conns -> {"idle", "handshake", "open", "ended"}]
        /\ stored' \in [Conns \X Dirs -> Nat] /\ fails' \in Nat
        /\ \A d \in Conns \X Dirs : stored'[d] <= forwarded[d]
    <3>1. CASE UNCHANGED <<relay, stored, fails>>
      BY <3>1 DEF Typed
    <3>2. CASE RelayFails(c) /\ fails' = fails + 1
      <4>1. fails' \in Nat
        BY <3>2 DEF Typed
      <4> QED
        BY <2>1, <3>2, <4>1, FailedRelay
    <3> QED
      BY <2>4, <3>1, <3>2
  <2> QED
    BY <2>3, <2>5, <2>7, <2>8 DEF Typed, Writers
<1> QED
  BY <1>1, <1>2

LEMMA MessageTypes ==
    ASSUME Typed,
           (\E c \in Conns, dir \in Dirs : StoreMessage(c, dir)) \/ AppendRecord \/ FinishRecord
    PROVE  Typed'
<1>1. CASE \E c \in Conns, dir \in Dirs : StoreMessage(c, dir)
  <2> PICK c \in Conns, dir \in Dirs : StoreMessage(c, dir)
    BY <1>1
  <2> DEFINE d == <<c, dir>>
             message == [conn |-> c, dir |-> dir, n |-> stored'[d]]
             record == [file |-> <<messageCount + 1, dir>>, id |-> id[c], message |-> message]
  <2>1. /\ stored[d] < forwarded[d] /\ d \in Conns \X Dirs
        /\ stored' = [stored EXCEPT ![d] = @ + 1]
        /\ writer' = [kind |-> "message", conn |-> c, step |-> "append", record |-> record]
        /\ UNCHANGED <<relay, id, forwarded, connectionCount, messageCount, manifest, fails, button>>
    BY DEF StoreMessage, counters, stopping
  <2>2. stored' \in [Conns \X Dirs -> Nat]
    BY <2>1 DEF Typed
  <2>3. \A e \in Conns \X Dirs : stored'[e] <= forwarded[e]
    <3> HIDE DEF d
    <3> QED
      BY <2>1 DEF Typed
  <2>4. record \in Record
    <3>1. stored'[d] \in Nat
      BY <2>1, <2>2
    <3>2. message \in [conn : Conns, dir : Dirs, n : Nat]
      BY <3>1
    <3>3. <<messageCount + 1, dir>> \in Nat \X Dirs /\ id[c] \in Nat
      BY DEF Typed
    <3> HIDE DEF message
    <3> QED
      BY <3>2, <3>3 DEF Record
  <2>5. writer' \in Writers
    <3> HIDE DEF record
    <3> QED
      BY <2>1, <2>4 DEF Writers, Steps
  <2> QED
    BY <2>1, <2>2, <2>3, <2>5 DEF Typed, Writers
<1>2. CASE AppendRecord \/ FinishRecord
  <2> DEFINE c == writer.conn
  <2>1. writer \in Writers /\ writer.kind = "message" /\ c \in Conns /\ writer.record \in Record
    BY <1>2, WriterKinds DEF Typed, Writers, AppendRecord, FinishRecord, Recording
  <2>2. writer' = Free \/ writer' = [writer EXCEPT !.step = "newline"]
    BY <1>2 DEF AppendRecord, FinishRecord
  <2>3. writer' \in Writers
    BY <2>1, <2>2 DEF Writers, Steps, Free
  <2>4. \/ UNCHANGED <<relay, stored, fails>>
        \/ RelayFails(c) /\ fails' = fails + 1
    BY <1>2 DEF AppendRecord, FinishRecord, Fails
  <2>5. UNCHANGED <<id, forwarded, connectionCount, button>>
    BY <1>2 DEF AppendRecord, FinishRecord, counters, stopping
  <2>6. messageCount' = messageCount \/ messageCount' = writer.record.file[1]
    BY <1>2 DEF AppendRecord, FinishRecord, counters
  <2>7. messageCount' \in Nat
    BY <2>1, <2>6 DEF Typed, Record
  <2>8. manifest \in Lines /\ writer.record \in Item /\ Torn \in Item
    BY <2>1 DEF Typed, Lines, Item
  <2>9. \/ manifest' = manifest \/ manifest' = Append(manifest, <<>>)
        \/ manifest' = Appended(manifest, writer.record) \/ manifest' = Appended(manifest, Torn)
    BY <1>2 DEF AppendRecord, FinishRecord
  <2>10. manifest' \in Lines
    <3>1. Append(manifest, <<>>) \in Lines
      BY <2>8, EndedLines
    <3>2. Appended(manifest, writer.record) \in Lines /\ Appended(manifest, Torn) \in Lines
      BY <2>8, AppendedLines
    <3> QED
      BY <2>8, <2>9, <3>1, <3>2
  <2> HIDE DEF c
  <2>11. /\ relay' \in [Conns -> {"idle", "handshake", "open", "ended"}]
         /\ stored' \in [Conns \X Dirs -> Nat] /\ fails' \in Nat
         /\ \A d \in Conns \X Dirs : stored'[d] <= forwarded[d]
    <3>1. CASE UNCHANGED <<relay, stored, fails>>
      BY <3>1 DEF Typed
    <3>2. CASE RelayFails(c) /\ fails' = fails + 1
      <4>1. fails' \in Nat
        BY <3>2 DEF Typed
      <4> QED
        BY <2>1, <3>2, <4>1, FailedRelay
    <3> QED
      BY <2>4, <3>1, <3>2
  <2> QED
    BY <2>3, <2>5, <2>7, <2>10, <2>11 DEF Typed, Writers, Lines
<1> QED
  BY <1>1, <1>2

LEMMA ButtonTypes ==
    ASSUME Typed, NEW b \in Buttons,
           Press(b) \/ Cancels(b) \/ ProxyEnds(b) \/ Recovered(b) \/ RecoverFails(b)
    PROVE  Typed'
<1>1. /\ \/ button' = [button EXCEPT ![b] = "stopping"]
         \/ button' = [button EXCEPT ![b] = "joining"]
         \/ button' = [button EXCEPT ![b] = "recovering"]
         \/ button' = [button EXCEPT ![b] = "idle"]
      /\ fails' = fails \/ fails' = fails + 1
      /\ UNCHANGED <<relay, id, forwarded, stored, writer, connectionCount, messageCount, manifest>>
  BY DEF Press, Cancels, ProxyEnds, Recovered, RecoverFails, Fails, relays, disk, counters
<1>2. fails' \in Nat
  BY <1>1 DEF Typed
<1>3. button' \in [Buttons -> {"idle", "stopping", "joining", "recovering"}]
  BY <1>1 DEF Typed
<1> QED
  BY <1>1, <1>2, <1>3 DEF Typed

\* The actions of Next in groups.
RelayStep ==
    \/ \E c \in Conns : Open(c) \/ Refused(c) \/ Cancel(c) \/ UrlFails(c)
    \/ \E c \in Conns, dir \in Dirs :
          \/ \E messages \in 1 .. 2 : Forward(c, dir, messages) \/ ForwardFails(c, dir, messages)
          \/ Close(c, dir) \/ MessageFails(c, dir)
UrlStep == (\E c \in Conns : StoreUrl(c)) \/ AppendConnection \/ FinishConnection
MessageStep ==
    (\E c \in Conns, dir \in Dirs : StoreMessage(c, dir)) \/ AppendRecord \/ FinishRecord
ButtonStep ==
    \E b \in Buttons : Press(b) \/ Cancels(b) \/ ProxyEnds(b) \/ Recovered(b) \/ RecoverFails(b)

LEMMA NextSteps == Next => RelayStep \/ UrlStep \/ MessageStep \/ ButtonStep
BY DEF Next, RelayStep, UrlStep, MessageStep, ButtonStep

LEMMA RelayStepShape ==
    ASSUME RelayStep
    PROVE  UNCHANGED <<id, writer, disk, counters, stopping>>
BY DEF RelayStep, Open, Refused, Cancel, UrlFails, Forward, ForwardFails, Close, MessageFails

LEMMA TypedNext == Typed /\ [Next]_vars => Typed'
<1> SUFFICES ASSUME Typed, [Next]_vars PROVE Typed'
  OBVIOUS
<1>1. CASE RelayStep
  <2>1. UNCHANGED <<writer, manifest, connectionCount, messageCount, button>>
    BY <1>1, RelayStepShape DEF disk, counters, stopping
  <2> QED
    BY <1>1, <2>1, RelayTypes DEF RelayStep
<1>2. CASE UrlStep
  BY <1>2, UrlTypes DEF UrlStep
<1>3. CASE MessageStep
  BY <1>3, MessageTypes DEF MessageStep
<1>4. CASE ButtonStep
  BY <1>4, ButtonTypes DEF ButtonStep
<1>5. CASE UNCHANGED vars
  BY <1>5 DEF vars, relays, disk, counters, stopping, Typed
<1> QED
  BY <1>1, <1>2, <1>3, <1>4, <1>5, NextSteps

LEMMA TypedInit == Init => Typed
<1> SUFFICES ASSUME Init PROVE Typed
  OBVIOUS
<1>1. manifest \in Seq(Seq(Item)) /\ manifest # <<>>
  BY DEF Init
<1> QED
  BY <1>1 DEF Init, Typed


-----------------------------------------------------------------------------
(* The summary: one stop at a time, after the last store                    *)

\* A relay that is not idle ends, or it opens; only an idle one starts, before the proxy ends.
LEMMA RelaysMove ==
    ASSUME Typed, RelayStep \/ UrlStep \/ MessageStep, NEW c \in Conns, relay'[c] # relay[c]
    PROVE  \/ relay'[c] = "ended"
           \/ relay[c] = "idle" /\ proxy # "ended" /\ writer = Free /\ relay'[c] = "handshake"
           \/ relay[c] = "handshake" /\ ~Writing(c) /\ relay'[c] = "open"
<1>1. CASE RelayStep
  <2>1. CASE \E d \in Conns : Open(d)
    BY <2>1 DEF Open, Typed
  <2>2. CASE \E d \in Conns : Refused(d) \/ Cancel(d) \/ UrlFails(d)
    BY <2>2 DEF Refused, Cancel, UrlFails, Typed
  <2>3. CASE \E d \in Conns, dir \in Dirs :
                (\E messages \in 1 .. 2 : Forward(d, dir, messages) \/ ForwardFails(d, dir, messages))
                \/ Close(d, dir)
    BY <2>3 DEF Forward, ForwardFails, Close, Typed
  <2>4. CASE \E d \in Conns, dir \in Dirs : MessageFails(d, dir)
    <3>1. PICK d \in Conns : RelayFails(d)
      BY <2>4 DEF MessageFails
    <3> QED
      BY <3>1, FailedRelay
  <2> QED
    BY <1>1, <2>1, <2>2, <2>3, <2>4 DEF RelayStep
<1>2. CASE UrlStep
  <2>1. CASE \E d \in Conns : StoreUrl(d)
    BY <2>1 DEF StoreUrl, Typed
  <2>2. CASE AppendConnection \/ FinishConnection
    <3>1. RelayFails(writer.conn)
      BY <2>2 DEF AppendConnection, FinishConnection
    <3>2. writer \in Writers /\ writer # Free
      BY <2>2, WriterKinds DEF AppendConnection, FinishConnection, Handshaking, Typed, Writers
    <3>3. PICK d \in Conns : RelayFails(d)
      BY <3>1, <3>2, WriterKinds
    <3> QED
      BY <3>3, FailedRelay
  <2> QED
    BY <1>2, <2>1, <2>2 DEF UrlStep
<1>3. CASE MessageStep
  <2>1. CASE \E d \in Conns, dir \in Dirs : StoreMessage(d, dir)
    BY <2>1 DEF StoreMessage
  <2>2. CASE AppendRecord \/ FinishRecord
    <3>1. RelayFails(writer.conn)
      BY <2>2 DEF AppendRecord, FinishRecord
    <3>2. writer \in Writers /\ writer # Free
      BY <2>2, WriterKinds DEF AppendRecord, FinishRecord, Recording, Typed, Writers
    <3>3. PICK d \in Conns : RelayFails(d)
      BY <3>1, <3>2, WriterKinds
    <3> QED
      BY <3>3, FailedRelay
  <2> QED
    BY <1>3, <2>1, <2>2 DEF MessageStep
<1> QED
  BY <1>1, <1>2, <1>3

\* A relay that holds the writer stays as it is.
LEMMA WriterStays ==
    ASSUME Typed, RelayStep, writer # Free
    PROVE  relay'[writer.conn] = relay[writer.conn]
<1> DEFINE w == writer.conn
<1>1. w \in Conns /\ Writing(w)
  BY WriterKinds DEF Typed, Writers, Writing
<1> SUFFICES relay'[w] = relay[w]
  OBVIOUS
<1> HIDE DEF w
<1>2. CASE \E d \in Conns : Open(d) \/ Refused(d) \/ Cancel(d) \/ UrlFails(d)
  <2> PICK d \in Conns : Open(d) \/ Refused(d) \/ Cancel(d) \/ UrlFails(d)
    BY <1>2
  <2>1. ~Writing(d) /\ \E v \in {"open", "ended"} : relay' = [relay EXCEPT ![d] = v]
    BY DEF Open, Refused, Cancel, UrlFails, Storing, Writing
  <2>2. w # d
    BY <1>1, <2>1 DEF Writing
  <2> QED
    BY <1>1, <2>1, <2>2 DEF Typed
<1>3. CASE \E d \in Conns, dir \in Dirs :
              (\E messages \in 1 .. 2 : Forward(d, dir, messages) \/ ForwardFails(d, dir, messages))
              \/ Close(d, dir)
  <2> PICK d \in Conns, dir \in Dirs :
              (\E messages \in 1 .. 2 : Forward(d, dir, messages) \/ ForwardFails(d, dir, messages))
              \/ Close(d, dir)
    BY <1>3
  <2>1. ~Writing(d) /\ (relay' = relay \/ relay' = [relay EXCEPT ![d] = "ended"])
    BY DEF Forward, ForwardFails, Close, Storing
  <2>2. w # d
    BY <1>1, <2>1 DEF Writing
  <2> QED
    BY <1>1, <2>1, <2>2 DEF Typed
<1>4. CASE \E d \in Conns, dir \in Dirs : MessageFails(d, dir)
  BY <1>4 DEF MessageFails
<1> QED
  BY <1>2, <1>3, <1>4 DEF RelayStep

LEMMA WriterServesNext ==
    ASSUME Typed, WriterServes, [Next]_vars
    PROVE  WriterServes'
<1>0. Typed'
  BY TypedNext
<1>1. CASE RelayStep
  <2>1. writer' = writer
    BY <1>1, RelayStepShape
  <2> QED
    BY <1>1, <2>1, WriterStays DEF WriterServes
<1>2. CASE \E c \in Conns : StoreUrl(c)
  BY <1>2 DEF StoreUrl, WriterServes, Typed
<1>3. CASE \E c \in Conns, dir \in Dirs : StoreMessage(c, dir)
  <2> PICK c \in Conns, dir \in Dirs : StoreMessage(c, dir)
    BY <1>3
  <2>1. relay[c] = "open" /\ relay' = relay /\ writer'.conn = c /\ writer'.kind = "message"
    BY DEF StoreMessage
  <2> QED
    BY <2>1 DEF WriterServes
<1>4. CASE AppendConnection \/ FinishConnection \/ AppendRecord \/ FinishRecord
  <2>1. writer' = Free \/ (writer' = [writer EXCEPT !.step = "newline"] /\ relay' = relay)
    BY <1>4 DEF AppendConnection, FinishConnection, AppendRecord, FinishRecord
  <2>2. writer.kind \in {"url", "message"}
    BY <1>4 DEF AppendConnection, FinishConnection, AppendRecord, FinishRecord, Handshaking, Recording
  <2>3. writer \in Writers /\ writer # Free
    BY <2>2, WriterKinds DEF Typed, Writers
  <2>4. ASSUME writer' = [writer EXCEPT !.step = "newline"]
        PROVE  writer'.conn = writer.conn /\ writer'.kind = writer.kind
    BY <2>3, <2>4 DEF Writers
  <2> QED
    BY <2>1, <2>3, <2>4 DEF WriterServes
<1>5. CASE ButtonStep \/ UNCHANGED vars
  <2>1. UNCHANGED <<relay, writer>>
    BY <1>5 DEF ButtonStep, Press, Cancels, ProxyEnds, Recovered, RecoverFails, vars, relays
  <2> QED
    BY <2>1 DEF WriterServes
<1> QED
  BY <1>1, <1>2, <1>3, <1>4, <1>5, NextSteps DEF UrlStep, MessageStep

LEMMA OneStopsNext ==
    ASSUME Typed, WriterServes, OneStops, [Next]_vars
    PROVE  OneStops'
<1>1. CASE RelayStep \/ UrlStep \/ MessageStep
  <2>1. UNCHANGED <<proxy, button>>
    <3>1. CASE RelayStep
      BY <3>1, RelayStepShape DEF stopping
    <3>2. CASE UrlStep
      BY <3>2 DEF UrlStep, StoreUrl, AppendConnection, FinishConnection, stopping
    <3>3. CASE MessageStep
      BY <3>3 DEF MessageStep, StoreMessage, AppendRecord, FinishRecord, stopping
    <3> QED
      BY <1>1, <3>1, <3>2, <3>3
  <2>2. ASSUME proxy = "ended", NEW c \in Conns
        PROVE  relay'[c] \in {"idle", "ended"}
    <3>1. relay[c] \in {"idle", "ended"}
      BY <2>2 DEF OneStops
    <3> QED
      BY <1>1, <2>2, <3>1, RelaysMove
  <2> QED
    BY <2>1, <2>2 DEF OneStops, Recovering
<1>2. CASE ButtonStep
  <2>0. UNCHANGED relay
    BY <1>2 DEF ButtonStep, Press, Cancels, ProxyEnds, Recovered, RecoverFails, relays
  <2>1. PICK b \in Buttons :
            Press(b) \/ Cancels(b) \/ ProxyEnds(b) \/ Recovered(b) \/ RecoverFails(b)
    BY <1>2 DEF ButtonStep
  <2>2. button \in [Buttons -> {"idle", "stopping", "joining", "recovering"}]
    BY DEF Typed
  <2>3. CASE Press(b)
    BY <2>0, <2>2, <2>3 DEF Press, OneStops, Recovering
  <2>4. CASE Cancels(b)
    <3>1. /\ \A other \in Buttons : ~Recovering(other)
          /\ button[b] = "stopping"
      BY <2>4 DEF Cancels, Recovering
    <3>2. CASE proxy = "running"
      <4>1. proxy' = "cancelled" /\ button' = [button EXCEPT ![b] = "joining"]
        BY <2>4, <3>2 DEF Cancels
      <4> QED
        BY <2>0, <2>2, <3>1, <4>1 DEF OneStops, Recovering
    <3>3. CASE proxy # "running"
      <4>1. proxy' = proxy /\ button' = [button EXCEPT ![b] = "recovering"]
        BY <2>4, <3>3 DEF Cancels
      <4>2. proxy = "ended"
        BY <3>1, <3>3 DEF OneStops, Recovering
      <4> QED
        BY <2>0, <2>2, <3>1, <4>1, <4>2 DEF OneStops, Recovering
    <3> QED
      BY <3>2, <3>3
  <2>5. CASE ProxyEnds(b)
    <3>1. /\ button[b] = "joining" /\ \A c \in Conns : relay[c] \in {"idle", "ended"}
          /\ proxy' = "ended" /\ button' = [button EXCEPT ![b] = "recovering"]
      BY <2>5 DEF ProxyEnds
    <3> QED
      BY <2>0, <2>2, <3>1 DEF OneStops, Recovering
  <2>6. CASE Recovered(b) \/ RecoverFails(b)
    <3>1. /\ button[b] = "recovering" /\ proxy' = proxy
          /\ button' = [button EXCEPT ![b] = "idle"]
      BY <2>6 DEF Recovered, RecoverFails
    <3> QED
      BY <2>0, <2>2, <3>1 DEF OneStops, Recovering
  <2> QED
    BY <2>1, <2>3, <2>4, <2>5, <2>6
<1>3. CASE UNCHANGED vars
  BY <1>3 DEF vars, relays, stopping, OneStops, Recovering
<1> QED
  BY <1>1, <1>2, <1>3, NextSteps

LEMMA SummedNext ==
    ASSUME Typed, WriterServes, OneStops, Summed, [Next]_vars
    PROVE  Summed'
<1>1. CASE RelayStep \/ UrlStep \/ (\E c \in Conns, dir \in Dirs : StoreMessage(c, dir))
           \/ AppendRecord \/ UNCHANGED vars
  <2>1. UNCHANGED <<proxy, status, messageCount>>
    <3>1. CASE RelayStep
      BY <3>1, RelayStepShape DEF stopping, counters
    <3>2. CASE UrlStep
      BY <3>2 DEF UrlStep, StoreUrl, AppendConnection, FinishConnection, stopping, counters
    <3>3. CASE ~RelayStep /\ ~UrlStep
      BY <1>1, <3>3 DEF StoreMessage, AppendRecord, vars, stopping, counters
    <3> QED
      BY <3>1, <3>2, <3>3
  <2> QED
    BY <2>1 DEF Summed
<1>2. CASE FinishRecord
  <2>1. UNCHANGED <<proxy, status>> /\ writer.kind = "message"
    BY <1>2 DEF FinishRecord, Recording, stopping
  <2>2. writer # Free /\ writer.conn \in Conns
    BY <2>1, WriterKinds DEF Typed, Writers
  <2>3. relay[writer.conn] = "open"
    BY <2>1, <2>2 DEF WriterServes
  <2>4. proxy # "ended"
    BY <2>2, <2>3 DEF OneStops
  <2> QED
    BY <2>1, <2>4 DEF Summed
<1>3. CASE ButtonStep
  <2>1. PICK b \in Buttons :
            Press(b) \/ Cancels(b) \/ ProxyEnds(b) \/ Recovered(b) \/ RecoverFails(b)
    BY <1>3 DEF ButtonStep
  <2>2. messageCount' = messageCount
    BY <2>1 DEF Press, Cancels, ProxyEnds, Recovered, RecoverFails, counters
  <2>3. CASE Press(b) \/ ProxyEnds(b) \/ RecoverFails(b)
    BY <2>2, <2>3 DEF Press, ProxyEnds, RecoverFails, Summed
  <2>4. CASE Cancels(b)
    BY <2>2, <2>4 DEF Cancels, Summed
  <2>5. CASE Recovered(b)
    <3>1. proxy = "ended" /\ proxy' = proxy
      BY <2>5 DEF Recovered, OneStops
    <3>2. status'.directory => status'.messages = messageCount
      BY <2>5 DEF Recovered
    <3> QED
      BY <2>2, <3>1, <3>2 DEF Summed
  <2> QED
    BY <2>1, <2>3, <2>4, <2>5
<1> QED
  BY <1>1, <1>2, <1>3, NextSteps DEF MessageStep

LEMMA StopInvInit == Init => StopInv
<1> SUFFICES ASSUME Init PROVE StopInv
  OBVIOUS
<1>1. Typed
  BY TypedInit
<1>2. WriterServes /\ OneStops /\ Summed
  BY DEF Init, WriterServes, OneStops, Recovering, Summed
<1> QED
  BY <1>1, <1>2 DEF StopInv

\* What the relays, the writer and the buttons agree on is an invariant of the session.
THEOREM StopInvariant == Spec => []StopInv
<1>1. StopInv /\ [Next]_vars => StopInv'
  BY TypedNext, WriterServesNext, OneStopsNext, SummedNext DEF StopInv
<1> QED
  BY <1>1, StopInvInit, PTL DEF Spec

\* The summary that a stop or a cleanup publishes is that of the finished log: the proxy
\* has ended, and with it every relay that could store a message.
THEOREM SummariesAreFinal == Spec => []SummaryIsFinal
<1>1. StopInv => SummaryIsFinal
  <2> SUFFICES ASSUME StopInv, status.directory, status # Listening
               PROVE  status.messages = messageCount /\ writer = Free
    BY DEF SummaryIsFinal
  <2>1. proxy = "ended" /\ status.messages = messageCount
    BY DEF StopInv, Summed
  <2>2. ASSUME writer # Free PROVE FALSE
    <3>1. writer.conn \in Conns
      BY <2>2, WriterKinds DEF StopInv, Typed, Writers
    <3> QED
      BY <2>1, <2>2, <3>1 DEF StopInv, WriterServes, OneStops
  <2> QED
    BY <2>1, <2>2
<1> QED
  BY <1>1, StopInvariant, PTL


-----------------------------------------------------------------------------
(* The records                                                              *)

LEMMA PutValues ==
    ASSUME NEW f, NEW key, NEW value
    PROVE  /\ key \in DOMAIN Put(f, key, value) /\ Put(f, key, value)[key] = value
           /\ \A k \in DOMAIN f : k # key =>
                 k \in DOMAIN Put(f, key, value) /\ Put(f, key, value)[k] = f[k]
BY DEF Put

\* What a relay step may do to a direction: forward, and give up what it has forwarded.
LEMMA StoredOfRelays ==
    ASSUME Typed, RelayStep
    PROVE  /\ \A d \in Conns \X Dirs : stored[d] <= stored'[d]
           /\ writer # Free =>
                 \A d \in Conns \X Dirs : d[1] = writer.conn => stored'[d] = stored[d]
<1> DEFINE w == writer.conn
<1>0. /\ stored \in [Conns \X Dirs -> Nat] /\ forwarded \in [Conns \X Dirs -> Nat]
      /\ writer # Free => w \in Conns /\ Writing(w)
  BY WriterKinds DEF Typed, Writers, Writing
<1> SUFFICES /\ \A d \in Conns \X Dirs : stored[d] <= stored'[d]
             /\ writer # Free => \A d \in Conns \X Dirs : d[1] = w => stored'[d] = stored[d]
  OBVIOUS
<1> HIDE DEF w
<1>1. CASE stored' = stored
  BY <1>0, <1>1
<1>2. CASE \E c \in Conns, dir \in Dirs, messages \in 1 .. 2 : ForwardFails(c, dir, messages)
  <2> PICK c \in Conns, dir \in Dirs, messages \in 1 .. 2 : ForwardFails(c, dir, messages)
    BY <1>2
  <2>1. ~Writing(c) /\ stored' = [stored EXCEPT ![<<c, dir>>] = @ + messages]
    BY DEF ForwardFails, Storing
  <2>2. writer # Free => w # c
    BY <1>0, <2>1 DEF Writing
  <2>3. \A d \in Conns \X Dirs : stored[d] <= stored'[d] /\ (d[1] # c => stored'[d] = stored[d])
    BY <1>0, <2>1
  <2> QED
    BY <2>2, <2>3
<1>3. CASE \E c \in Conns, dir \in Dirs : MessageFails(c, dir)
  <2> PICK c \in Conns, dir \in Dirs : MessageFails(c, dir)
    BY <1>3
  <2>1. writer = Free /\ RelayFails(c)
    BY DEF MessageFails
  <2> QED
    BY <2>1, FailedRelay
<1>4. \/ stored' = stored
      \/ \E c \in Conns, dir \in Dirs, messages \in 1 .. 2 : ForwardFails(c, dir, messages)
      \/ \E c \in Conns, dir \in Dirs : MessageFails(c, dir)
  BY DEF RelayStep, Open, Refused, Cancel, UrlFails, Forward, Close
<1> QED
  BY <1>1, <1>2, <1>3, <1>4

\* What is on the disk under a number already given away stays there.
Kept ==
    /\ connectionCount <= connectionCount' /\ messageCount <= messageCount'
    /\ \A i \in 1 .. connectionCount :
          i \in DOMAIN urls => i \in DOMAIN urls' /\ urls'[i] = urls[i]
    /\ \A file \in DOMAIN files :
          file \in Nat \X Dirs /\ file[1] <= messageCount => file \in DOMAIN files' /\ files'[file] = files[file]
    /\ \A d \in Conns \X Dirs : stored[d] <= stored'[d]

LEMMA DiskGrows ==
    ASSUME Typed, UrlIsNew, RecordIsNew, [Next]_vars
    PROVE  Kept
<1>0. connectionCount \in Nat /\ messageCount \in Nat /\ stored \in [Conns \X Dirs -> Nat]
  BY DEF Typed
<1>1. CASE RelayStep
  <2>1. UNCHANGED <<disk, counters>>
    BY <1>1, RelayStepShape
  <2>2. UNCHANGED <<urls, files, connectionCount, messageCount>>
    BY <2>1 DEF disk, counters
  <2> QED
    BY <1>0, <1>1, <2>2, StoredOfRelays DEF Kept
<1>2. CASE ButtonStep \/ UNCHANGED vars
  <2>1. UNCHANGED <<urls, files, connectionCount, messageCount, stored>>
    BY <1>2 DEF ButtonStep, Press, Cancels, ProxyEnds, Recovered, RecoverFails, vars, relays, disk,
        counters
  <2> QED
    BY <1>0, <2>1 DEF Kept
<1>3. CASE \E c \in Conns : StoreUrl(c)
  <2> PICK c \in Conns : StoreUrl(c)
    BY <1>3
  <2>1. /\ urls' = Put(urls, connectionCount + 1, c)
        /\ UNCHANGED <<files, connectionCount, messageCount, stored>>
    BY DEF StoreUrl, counters
  <2>2. \A i \in 1 .. connectionCount :
            i \in DOMAIN urls => i \in DOMAIN urls' /\ urls'[i] = urls[i]
    BY <1>0, <2>1, PutValues
  <2> QED
    BY <1>0, <2>1, <2>2 DEF Kept
<1>4. CASE \E c \in Conns, dir \in Dirs : StoreMessage(c, dir)
  <2> PICK c \in Conns, dir \in Dirs : StoreMessage(c, dir)
    BY <1>4
  <2> DEFINE key == <<messageCount + 1, dir>>
             message == [conn |-> c, dir |-> dir, n |-> stored'[<<c, dir>>]]
  <2>1. /\ files' = Put(files, key, message)
        /\ stored' = [stored EXCEPT ![<<c, dir>>] = @ + 1]
        /\ UNCHANGED <<urls, connectionCount, messageCount>>
    BY DEF StoreMessage, counters
  <2>2. \A file \in DOMAIN files :
            file[1] <= messageCount => file # key
    BY <1>0
  <2> HIDE DEF key, message
  <2>3. \A file \in DOMAIN files :
            file[1] <= messageCount => file \in DOMAIN files' /\ files'[file] = files[file]
    BY <2>1, <2>2, PutValues
  <2>4. \A d \in Conns \X Dirs : stored[d] <= stored'[d]
    BY <1>0, <2>1
  <2> QED
    BY <1>0, <2>1, <2>3, <2>4 DEF Kept
<1>5. CASE AppendConnection \/ FinishConnection \/ AppendRecord \/ FinishRecord
  <2>1. UNCHANGED <<urls, files>>
    BY <1>5 DEF AppendConnection, FinishConnection, AppendRecord, FinishRecord
  <2>2. connectionCount' \in {connectionCount, connectionCount + 1}
    BY <1>5 DEF AppendConnection, FinishConnection, AppendRecord, FinishRecord, Handshaking,
        UrlIsNew, counters
  <2>3. messageCount' \in {messageCount, messageCount + 1}
    <3>1. messageCount' = messageCount \/ (FinishRecord /\ messageCount' = writer.record.file[1])
      BY <1>5 DEF AppendConnection, FinishConnection, AppendRecord, FinishRecord, counters
    <3>2. ASSUME FinishRecord PROVE writer.record.file[1] = messageCount + 1
      BY <3>2 DEF FinishRecord, Recording, RecordIsNew
    <3> QED
      BY <3>1, <3>2
  <2>4. stored' = stored \/ RelayFails(writer.conn)
    BY <1>5 DEF AppendConnection, FinishConnection, AppendRecord, FinishRecord
  <2>5. writer # Free /\ writer.conn \in Conns
    BY <1>5, WriterKinds DEF AppendConnection, FinishConnection, AppendRecord, FinishRecord,
        Handshaking, Recording, Typed, Writers
  <2>6. \A d \in Conns \X Dirs : stored[d] <= stored'[d]
    <3>1. CASE stored' = stored
      BY <1>0, <3>1
    <3>2. CASE \E c \in Conns : RelayFails(c)
      BY <3>2, FailedRelay
    <3> QED
      BY <2>4, <2>5, <3>1, <3>2
  <2>7. connectionCount <= connectionCount' /\ messageCount <= messageCount'
    BY <1>0, <2>2, <2>3
  <2> QED
    BY <2>1, <2>6, <2>7 DEF Kept
<1> QED
  BY <1>1, <1>2, <1>3, <1>4, <1>5, NextSteps DEF UrlStep, MessageStep

LEMMA UrlIsNewNext ==
    ASSUME Typed, UrlIsNew, [Next]_vars
    PROVE  UrlIsNew'
<1>0. writer \in Writers
  BY DEF Typed, Writers
<1>1. CASE \E c \in Conns : StoreUrl(c)
  <2> PICK c \in Conns : StoreUrl(c)
    BY <1>1
  <2>1. /\ urls' = Put(urls, connectionCount + 1, c)
        /\ id' = [id EXCEPT ![c] = connectionCount + 1]
        /\ writer'.conn = c /\ connectionCount' = connectionCount
    BY DEF StoreUrl, counters
  <2>2. id'[c] = connectionCount + 1
    BY <2>1 DEF Typed
  <2> QED
    BY <2>1, <2>2, PutValues DEF UrlIsNew
<1>2. CASE AppendConnection
  <2>1. /\ UNCHANGED <<id, urls, connectionCount>> /\ writer.kind = "url"
        /\ writer' = Free \/ writer' = [writer EXCEPT !.step = "newline"]
    BY <1>2 DEF AppendConnection, Handshaking, counters
  <2>2. CASE writer' = [writer EXCEPT !.step = "newline"]
    <3>1. writer'.conn = writer.conn
      BY <1>0, <2>1, <2>2 DEF Writers, Free
    <3> QED
      BY <2>1, <3>1 DEF UrlIsNew
  <2> QED
    BY <2>1, <2>2 DEF UrlIsNew, Free
<1>3. CASE FinishConnection \/ AppendRecord \/ FinishRecord
           \/ \E c \in Conns, dir \in Dirs : StoreMessage(c, dir)
  <2>1. \/ writer' = Free
        \/ writer'.kind = "message"
        \/ writer' = [writer EXCEPT !.step = "newline"] /\ writer.kind = "message"
    <3>1. CASE AppendRecord
      BY <3>1 DEF AppendRecord, Recording
    <3>2. CASE FinishConnection \/ FinishRecord
      BY <3>2 DEF FinishConnection, FinishRecord
    <3>3. CASE \E c \in Conns, dir \in Dirs : StoreMessage(c, dir)
      <4> PICK c \in Conns, dir \in Dirs : StoreMessage(c, dir)
        BY <3>3
      <4> QED
        BY DEF StoreMessage
    <3> QED
      BY <1>3, <3>1, <3>2, <3>3
  <2>2. writer'.kind # "url"
    BY <1>0, <2>1 DEF Writers, Free
  <2> QED
    BY <2>2 DEF UrlIsNew
<1>4. CASE RelayStep \/ ButtonStep \/ UNCHANGED vars
  <2>1. UNCHANGED <<writer, id, urls, connectionCount>>
    <3>1. CASE RelayStep
      BY <3>1, RelayStepShape DEF disk, counters
    <3>2. CASE ButtonStep \/ UNCHANGED vars
      BY <3>2 DEF ButtonStep, Press, Cancels, ProxyEnds, Recovered, RecoverFails, vars, relays, disk,
          counters
    <3> QED
      BY <1>4, <3>1, <3>2
  <2> QED
    BY <2>1 DEF UrlIsNew
<1> QED
  BY <1>1, <1>2, <1>3, <1>4, NextSteps DEF UrlStep, MessageStep

LEMMA HandshakenNext ==
    ASSUME Typed, WriterServes, UrlIsNew, RecordIsNew, [Next]_vars, NEW c \in Conns, Handshaken(c)
    PROVE  Handshaken(c)'
<1>0. writer \in Writers /\ connectionCount \in Nat
  BY DEF Typed, Writers
<1>1. Kept
  BY DiskGrows
<1>t. connectionCount' \in Nat
  BY TypedNext DEF Typed
<1> SUFFICES ASSUME relay'[c] = "open" \/ (relay'[c] = "handshake" /\ ~Writing(c)')
             PROVE  id'[c] \in 1 .. connectionCount' /\ id'[c] \in DOMAIN urls' /\ urls'[id'[c]] = c
  BY DEF Handshaken
<1>2. CASE relay[c] = "open" \/ (relay[c] = "handshake" /\ ~Writing(c))
  <2>1. id[c] \in 1 .. connectionCount /\ id[c] \in DOMAIN urls /\ urls[id[c]] = c
    BY <1>2 DEF Handshaken
  <2>2. id'[c] = id[c]
    <3>1. CASE \E d \in Conns : StoreUrl(d)
      BY <1>2, <3>1 DEF StoreUrl, Typed
    <3>2. CASE ~\E d \in Conns : StoreUrl(d)
      <4>1. CASE RelayStep
        BY <4>1, RelayStepShape
      <4>2. CASE ~RelayStep
        BY <3>2, <4>2, NextSteps DEF UrlStep, MessageStep, ButtonStep, AppendConnection,
            FinishConnection, StoreMessage, AppendRecord, FinishRecord, Press, Cancels, ProxyEnds,
            Recovered, RecoverFails, vars, relays
      <4> QED
        BY <4>1, <4>2
    <3> QED
      BY <3>1, <3>2
  <2> QED
    BY <1>0, <1>1, <1>t, <2>1, <2>2 DEF Kept
<1>3. CASE relay[c] = "handshake" /\ Writing(c)
  <2>1. writer # Free /\ writer.conn = c /\ writer.kind = "url"
    BY <1>0, <1>3, WriterKinds DEF Writing, WriterServes
  <2>2. ASSUME writer' = writer PROVE FALSE
    <3>1. relay'[c] = "open"
      BY <1>3, <2>2 DEF Writing
    <3>2. relay'[c] # relay[c]
      BY <1>3, <3>1
    <3>3. RelayStep \/ UrlStep \/ MessageStep
      BY <3>2, NextSteps DEF ButtonStep, Press, Cancels, ProxyEnds, Recovered, RecoverFails, vars, relays
    <3> QED
      BY <1>3, <3>1, <3>2, <3>3, RelaysMove
  <2>3. AppendConnection \/ FinishConnection
    <3>1. ~RelayStep
      BY <2>2, RelayStepShape
    <3> QED
      BY <2>1, <2>2, <3>1, NextSteps DEF UrlStep, MessageStep, ButtonStep, StoreUrl, StoreMessage,
          AppendRecord, FinishRecord, Recording, Press, Cancels, ProxyEnds, Recovered, RecoverFails,
          vars
  <2>4. ~RelayFails(c)
    BY FailedRelay
  <2>5. FinishConnection
    <3>1. ASSUME AppendConnection PROVE FALSE
      <4>1. writer' = [writer EXCEPT !.step = "newline"] /\ relay' = relay
        BY <2>1, <2>4, <3>1 DEF AppendConnection
      <4>2. writer'.conn = c /\ writer' # Free
        BY <1>0, <2>1, <4>1 DEF Writers, Free
      <4> QED
        BY <1>3, <4>1, <4>2 DEF Writing
    <3> QED
      BY <2>3, <3>1
  <2>6. connectionCount' = id[c] /\ UNCHANGED <<id, urls>>
    BY <2>1, <2>4, <2>5 DEF FinishConnection
  <2>7. id[c] = connectionCount + 1 /\ id[c] \in DOMAIN urls /\ urls[id[c]] = c
    BY <2>1 DEF UrlIsNew
  <2> QED
    BY <1>0, <2>6, <2>7
<1>4. CASE relay[c] \notin {"open", "handshake"}
  <2>1. RelayStep \/ UrlStep \/ MessageStep
    BY <1>4, NextSteps DEF ButtonStep, Press, Cancels, ProxyEnds, Recovered, RecoverFails, vars, relays
  <2>2. relay[c] = "idle" /\ relay'[c] = "handshake" /\ writer = Free
    BY <1>4, <2>1, RelaysMove
  <2>3. \E d \in Conns : StoreUrl(d)
    <3>1. ~RelayStep
      <4>1. ASSUME RelayStep PROVE writer' = writer
        BY <4>1, RelayStepShape
      <4> QED
        BY <2>2, <4>1 DEF RelayStep, Open, Refused, Cancel, UrlFails, Forward, ForwardFails, Close,
            MessageFails, RelayFails, Typed
    <3>2. ~(AppendConnection \/ FinishConnection \/ AppendRecord \/ FinishRecord)
      BY <2>2 DEF AppendConnection, FinishConnection, AppendRecord, FinishRecord, Handshaking,
          Recording, Free
    <3>3. ~\E d \in Conns, dir \in Dirs : StoreMessage(d, dir)
      BY <2>2 DEF StoreMessage
    <3> QED
      BY <2>1, <3>1, <3>2, <3>3 DEF UrlStep, MessageStep
  <2>4. PICK d \in Conns : StoreUrl(d)
    BY <2>3
  <2>5. d = c
    BY <2>2, <2>4 DEF StoreUrl, Typed
  <2>6. Writing(c)'
    BY <2>4, <2>5 DEF StoreUrl, Writing, Free
  <2> QED
    BY <2>2, <2>6
<1> QED
  BY <1>2, <1>3, <1>4


\* A message is stored under the next number, and what is written of it is what was stored.
LEMMA StoredMessage ==
    ASSUME Typed, NEW c \in Conns, NEW dir \in Dirs, StoreMessage(c, dir)
    PROVE  /\ relay[c] = "open" /\ writer = Free
           /\ stored'[<<c, dir>>] = stored[<<c, dir>>] + 1
           /\ LET record == writer'.record IN
                 /\ writer'.kind = "message" /\ writer'.conn = c /\ writer'.step = "append"
                 /\ record.file = <<messageCount + 1, dir>> /\ record.id = id[c]
                 /\ record.message.conn = c /\ record.message.dir = dir
                 /\ record.message.n = stored'[<<c, dir>>]
                 /\ record.file \in DOMAIN files' /\ files'[record.file] = record.message
           /\ UNCHANGED <<relay, id, forwarded, urls, connections, manifest, counters, fails>>
<1> DEFINE message == [conn |-> c, dir |-> dir, n |-> stored'[<<c, dir>>]]
           key == <<messageCount + 1, dir>>
           record == [file |-> key, id |-> id[c], message |-> message]
<1>1. /\ relay[c] = "open" /\ writer = Free
      /\ stored' = [stored EXCEPT ![<<c, dir>>] = @ + 1]
      /\ writer' = [kind |-> "message", conn |-> c, step |-> "append", record |-> record]
      /\ files' = Put(files, key, message)
      /\ UNCHANGED <<relay, id, forwarded, urls, connections, manifest, counters, fails>>
  BY DEF StoreMessage
<1>2. stored'[<<c, dir>>] = stored[<<c, dir>>] + 1
  BY <1>1 DEF Typed
<1>3. message.conn = c /\ message.dir = dir /\ message.n = stored'[<<c, dir>>]
  OBVIOUS
<1> HIDE DEF message
<1>4. record.file = key /\ record.id = id[c] /\ record.message = message
  OBVIOUS
<1> HIDE DEF record
<1>5. /\ writer'.kind = "message" /\ writer'.conn = c /\ writer'.step = "append"
      /\ writer'.record = record
  BY <1>1
<1>6. key \in DOMAIN files' /\ files'[key] = message
  BY <1>1, PutValues
<1> QED
  BY <1>1, <1>2, <1>3, <1>4, <1>5, <1>6

LEMMA RecordIsNewNext ==
    ASSUME Typed, WriterServes, UrlIsNew, RecordIsNew, \A c \in Conns : Handshaken(c), [Next]_vars
    PROVE  RecordIsNew'
<1>0. writer \in Writers /\ manifest \in Lines /\ connectionCount \in Nat
  BY DEF Typed, Writers, Lines
<1>1. CASE \E c \in Conns, dir \in Dirs : StoreMessage(c, dir)
  <2> PICK c \in Conns, dir \in Dirs : StoreMessage(c, dir)
    BY <1>1
  <2> DEFINE record == writer'.record
  <2>1. /\ relay[c] = "open" /\ writer' # Free
        /\ record.file = <<messageCount + 1, dir>> /\ record.id = id[c]
        /\ record.message.conn = c /\ record.message.dir = dir
        /\ record.message.n = stored'[<<c, dir>>]
        /\ writer'.conn = c /\ writer'.step = "append"
        /\ record.file \in DOMAIN files' /\ files'[record.file] = record.message
    BY StoredMessage DEF Free
  <2>2. UNCHANGED <<urls, connectionCount, messageCount>>
    BY StoredMessage DEF counters
  <2>3. id[c] \in 1 .. connectionCount /\ id[c] \in DOMAIN urls /\ urls[id[c]] = c
    BY <2>1 DEF Handshaken
  <2> QED
    BY <2>1, <2>2, <2>3 DEF RecordIsNew
<1>2. CASE AppendRecord
  <2>1. /\ writer.kind = "message" /\ UNCHANGED <<urls, files, connectionCount, messageCount>>
        /\ \/ writer' = Free
           \/ /\ manifest' = Appended(manifest, writer.record)
              /\ writer' = [writer EXCEPT !.step = "newline"]
              /\ stored' = stored
    BY <1>2 DEF AppendRecord, Recording, counters
  <2>2. CASE /\ manifest' = Appended(manifest, writer.record)
             /\ writer' = [writer EXCEPT !.step = "newline"]
             /\ stored' = stored
    <3>1. writer.record \in Item
      BY <1>0, <2>1 DEF Writers, Free, Item
    <3>2. /\ manifest'[Len(manifest')] # <<>>
          /\ manifest'[Len(manifest')][Len(manifest'[Len(manifest')])] = writer.record
      BY <1>0, <2>2, <3>1, AppendedLines
    <3>3. writer'.record = writer.record /\ writer'.conn = writer.conn
      BY <1>0, <2>1, <2>2 DEF Writers, Free
    <3> QED
      BY <2>1, <2>2, <3>2, <3>3 DEF RecordIsNew
  <2> QED
    BY <2>1, <2>2 DEF RecordIsNew, Free
<1>3. CASE FinishRecord \/ AppendConnection \/ FinishConnection \/ \E c \in Conns : StoreUrl(c)
  <2>1. \/ writer' = Free
        \/ writer' = [writer EXCEPT !.step = "newline"] /\ writer.kind = "url"
        \/ \E c \in Conns : StoreUrl(c)
    BY <1>3 DEF FinishConnection, AppendConnection, FinishRecord, Handshaking
  <2>2. CASE writer' = Free
    BY <2>2 DEF RecordIsNew, Free
  <2>3. CASE writer' = [writer EXCEPT !.step = "newline"] /\ writer.kind = "url"
    <3>1. writer'.kind = "url"
      BY <1>0, <2>3 DEF Writers, Free
    <3> QED
      BY <3>1 DEF RecordIsNew
  <2>4. CASE \E c \in Conns : StoreUrl(c)
    <3>1. writer'.kind = "url"
      BY <2>4 DEF StoreUrl
    <3> QED
      BY <3>1 DEF RecordIsNew
  <2> QED
    BY <2>1, <2>2, <2>3, <2>4
<1>4. CASE RelayStep \/ ButtonStep \/ UNCHANGED vars
  <2>1. UNCHANGED <<writer, urls, files, manifest, connectionCount, messageCount>>
    <3>1. CASE RelayStep
      BY <3>1, RelayStepShape DEF disk, counters
    <3>2. CASE ButtonStep \/ UNCHANGED vars
      BY <3>2 DEF ButtonStep, Press, Cancels, ProxyEnds, Recovered, RecoverFails, vars, relays, disk,
          counters
    <3> QED
      BY <1>4, <3>1, <3>2
  <2>2. ASSUME writer.kind = "message"
        PROVE  LET message == writer.record.message IN
               stored'[<<message.conn, message.dir>>] = stored[<<message.conn, message.dir>>]
    <3> DEFINE d == <<writer.record.message.conn, writer.record.message.dir>>
    <3>1. writer # Free /\ d \in Conns \X Dirs /\ d[1] = writer.conn
      BY <1>0, <2>2 DEF Writers, Free, Record, RecordIsNew
    <3>2. CASE RelayStep
      BY <3>1, <3>2, StoredOfRelays
    <3>3. CASE ~RelayStep
      BY <1>4, <3>3 DEF ButtonStep, Press, Cancels, ProxyEnds, Recovered, RecoverFails, vars, relays
    <3> QED
      BY <3>2, <3>3
  <2> QED
    BY <2>1, <2>2 DEF RecordIsNew
<1> QED
  BY <1>1, <1>2, <1>3, <1>4, NextSteps DEF UrlStep, MessageStep

\* How the manifest changes: only FinishRecord adds a line that can be read.
LEMMA ManifestSteps ==
    ASSUME Typed, [Next]_vars
    PROVE  /\ \A k \in Readable(manifest) : k \in Readable(manifest') /\ manifest'[k] = manifest[k]
           /\ \/ Readable(manifest') = Readable(manifest)
              \/ /\ FinishRecord /\ messageCount' = writer.record.file[1]
                 /\ manifest' = Append(manifest, <<>>) /\ stored' = stored
<1>0. manifest \in Lines /\ Torn \in Item
  BY DEF Typed, Lines, Item
<1>1. CASE manifest' = manifest
  BY <1>1
<1>2. CASE manifest' = Appended(manifest, Torn)
           \/ (AppendRecord /\ manifest' = Appended(manifest, writer.record))
  <2>1. PICK item \in Item : manifest' = Appended(manifest, item)
    <3>1. ASSUME AppendRecord PROVE writer.record \in Item
      BY <3>1 DEF AppendRecord, Recording, Typed, Free, Item
    <3> QED
      BY <1>0, <1>2, <3>1
  <2>2. /\ Readable(manifest') = Readable(manifest)
        /\ \A k \in 1 .. Len(manifest) - 1 : manifest'[k] = manifest[k]
    BY <1>0, <2>1, AppendedLines
  <2> QED
    BY <2>2 DEF Readable
<1>3. CASE FinishRecord /\ manifest' = Append(manifest, <<>>)
           /\ messageCount' = writer.record.file[1] /\ stored' = stored
  <2>1. /\ Readable(manifest) \subseteq Readable(manifest')
        /\ \A k \in 1 .. Len(manifest) : manifest'[k] = manifest[k]
    BY <1>0, <1>3, EndedLines
  <2>2. Len(manifest) \in Nat
    BY <1>0, LineTypes
  <2> QED
    BY <1>3, <2>1, <2>2 DEF Readable
<1>4. \/ manifest' = manifest
      \/ manifest' = Appended(manifest, Torn)
      \/ AppendRecord /\ manifest' = Appended(manifest, writer.record)
      \/ FinishRecord /\ manifest' = Append(manifest, <<>>)
           /\ messageCount' = writer.record.file[1] /\ stored' = stored
  <2>1. CASE RelayStep
    BY <2>1, RelayStepShape DEF disk
  <2>2. CASE UrlStep \/ ButtonStep \/ (\E c \in Conns, dir \in Dirs : StoreMessage(c, dir))
             \/ UNCHANGED vars
    BY <2>2 DEF UrlStep, StoreUrl, AppendConnection, FinishConnection, StoreMessage, ButtonStep, Press,
        Cancels, ProxyEnds, Recovered, RecoverFails, disk, vars
  <2>3. CASE AppendRecord
    BY <2>3 DEF AppendRecord
  <2>4. CASE FinishRecord
    BY <2>4 DEF FinishRecord
  <2> QED
    BY <2>1, <2>2, <2>3, <2>4, NextSteps DEF MessageStep
<1> QED
  BY <1>1, <1>2, <1>3, <1>4


\* The writer is taken by a store, and keeps its record until it is free.
LEMMA WriterSteps ==
    ASSUME Typed, [Next]_vars, writer'.kind = "message"
    PROVE  \/ \E c \in Conns, dir \in Dirs : StoreMessage(c, dir)
           \/ /\ writer.kind = "message" /\ writer'.record = writer.record
              /\ writer'.conn = writer.conn
<1>0. writer \in Writers
  BY DEF Typed, Writers
<1>1. \/ writer' = Free \/ writer' = writer
      \/ writer' = [writer EXCEPT !.step = "newline"] /\ writer # Free
      \/ \E c \in Conns : StoreUrl(c)
      \/ \E c \in Conns, dir \in Dirs : StoreMessage(c, dir)
  <2>1. CASE RelayStep
    BY <2>1, RelayStepShape
  <2>2. CASE ButtonStep \/ UNCHANGED vars
    BY <2>2 DEF ButtonStep, Press, Cancels, ProxyEnds, Recovered, RecoverFails, vars
  <2>3. CASE AppendConnection \/ AppendRecord
    <3>1. writer # Free /\ (writer' = Free \/ writer' = [writer EXCEPT !.step = "newline"])
      BY <2>3 DEF AppendConnection, AppendRecord, Handshaking, Recording, Free
    <3> QED
      BY <3>1
  <2>4. CASE FinishConnection \/ FinishRecord
    BY <2>4 DEF FinishConnection, FinishRecord
  <2> QED
    BY <2>1, <2>2, <2>3, <2>4, NextSteps DEF UrlStep, MessageStep
<1>2. ASSUME writer' = [writer EXCEPT !.step = "newline"], writer # Free
      PROVE  writer.kind = "message" /\ writer'.record = writer.record /\ writer'.conn = writer.conn
  BY <1>0, <1>2 DEF Writers
<1>3. ~\E c \in Conns : StoreUrl(c)
  BY DEF StoreUrl
<1>4. writer' # Free
  BY DEF Free
<1> QED
  BY <1>1, <1>2, <1>3, <1>4

LEMMA RecordedNext ==
    ASSUME Typed, UrlIsNew, RecordIsNew, [Next]_vars, NEW record, Recorded(record)
    PROVE  Recorded(record)'
<1> DEFINE message == record.message
           d == <<message.conn, message.dir>>
<1>1. Kept /\ connectionCount \in Nat /\ messageCount \in Nat
      /\ stored \in [Conns \X Dirs -> Nat]
  BY DiskGrows DEF Typed
<1>2. Typed'
  BY TypedNext
<1>3. connectionCount' \in Nat /\ messageCount' \in Nat /\ stored' \in [Conns \X Dirs -> Nat]
  BY <1>2 DEF Typed
<1>4. /\ record \in Record /\ d \in Conns \X Dirs /\ message.n \in Nat
      /\ record.file[1] \in 1 .. messageCount /\ record.file \in Nat \X Dirs
      /\ record.file \in DOMAIN files /\ files[record.file] = message
      /\ record.id \in 1 .. connectionCount
      /\ record.id \in DOMAIN urls /\ urls[record.id] = message.conn
      /\ message.n <= stored[d]
  BY DEF Recorded, Record
<1>5. record.file[1] \in 1 .. messageCount' /\ record.id \in 1 .. connectionCount'
  BY <1>1, <1>3, <1>4 DEF Kept
<1>6. /\ record.file \in DOMAIN files' /\ files'[record.file] = message
      /\ record.id \in DOMAIN urls' /\ urls'[record.id] = message.conn
  BY <1>1, <1>4 DEF Kept
<1>7. message.n <= stored'[d]
  <2>1. stored[d] <= stored'[d] /\ stored[d] \in Nat /\ stored'[d] \in Nat
    BY <1>1, <1>3, <1>4 DEF Kept
  <2> HIDE DEF d, message
  <2> QED
    BY <1>4, <2>1
<1>8. ASSUME writer'.kind = "message", writer'.record.message.conn = message.conn,
             writer'.record.message.dir = message.dir
      PROVE  message.n < writer'.record.message.n
  <2>1. CASE writer.kind = "message" /\ writer'.record = writer.record
    BY <1>8, <2>1 DEF Recorded
  <2>2. CASE \E c \in Conns, dir \in Dirs : StoreMessage(c, dir)
    <3> PICK c \in Conns, dir \in Dirs : StoreMessage(c, dir)
      BY <2>2
    <3>1. /\ stored'[<<c, dir>>] = stored[<<c, dir>>] + 1
          /\ writer'.record.message.conn = c /\ writer'.record.message.dir = dir
          /\ writer'.record.message.n = stored'[<<c, dir>>]
      BY StoredMessage
    <3>2. d = <<c, dir>>
      BY <1>8, <3>1
    <3>3. stored[d] \in Nat
      BY <1>1, <1>4
    <3>4. writer'.record.message.n = stored[d] + 1
      BY <3>1, <3>2
    <3> HIDE DEF d, message
    <3> QED
      BY <1>4, <3>3, <3>4
  <2> QED
    BY <1>8, <2>1, <2>2, WriterSteps
<1> QED
  BY <1>4, <1>5, <1>6, <1>7, <1>8 DEF Recorded

\* The line that FinishRecord ends, if it can be read, is that of the writer's record.
LEMMA FinishedRecord ==
    ASSUME Typed, UrlIsNew, RecordIsNew, FinishRecord, messageCount' = writer.record.file[1],
           manifest' = Append(manifest, <<>>), stored' = stored,
           NEW k \in Readable(manifest'), k \notin Readable(manifest), NEW record, record = writer.record
    PROVE  /\ k = Len(manifest) /\ manifest'[k][1] = record /\ writer.kind = "message"
           /\ Recorded(record)'
<1> DEFINE message == record.message
           n == Len(manifest)
           d == <<message.conn, message.dir>>
<1>0. /\ manifest \in Lines /\ writer \in Writers /\ n \in Nat \ {0}
      /\ messageCount \in Nat /\ connectionCount \in Nat /\ stored \in [Conns \X Dirs -> Nat]
  BY LineTypes DEF Typed, Lines, Writers
<1>1. /\ writer.kind = "message" /\ writer.step = "newline" /\ writer' = Free
      /\ UNCHANGED <<urls, files, connectionCount>>
  BY DEF FinishRecord, Recording
<1>2. record \in Record
  BY <1>0, <1>1, WriterKinds
<1>3. /\ Readable(manifest') = Readable(manifest) \cup
            {i \in {n} : Len(manifest[i]) = 1 /\ manifest[i][1] # Torn}
      /\ manifest'[n] = manifest[n]
  BY <1>0, EndedLines
<1>4. k = n /\ Len(manifest[n]) = 1
  BY <1>3
<1>5. manifest[n][Len(manifest[n])] = record
  BY <1>1 DEF RecordIsNew
<1>6. manifest'[k][1] = record
  BY <1>3, <1>4, <1>5
<1>7. /\ record.file = <<messageCount + 1, message.dir>>
      /\ record.file \in DOMAIN files /\ files[record.file] = message
      /\ record.id \in 1 .. connectionCount
      /\ record.id \in DOMAIN urls /\ urls[record.id] = message.conn
      /\ message.n = stored[d]
  BY <1>1 DEF RecordIsNew
<1>8. record.file[1] = messageCount + 1 /\ messageCount' = messageCount + 1
  BY <1>7
<1>9. d \in Conns \X Dirs /\ stored[d] \in Nat
  BY <1>0, <1>2 DEF Record
<1>10. Recorded(record)'
  <2>1. record.file[1] \in 1 .. messageCount'
    BY <1>0, <1>8
  <2>2. message.n <= stored'[d]
    BY <1>7, <1>9
  <2>3. writer'.kind # "message"
    BY <1>1 DEF Free
  <2> QED
    BY <1>1, <1>2, <1>7, <2>1, <2>2, <2>3 DEF Recorded
<1> QED
  BY <1>1, <1>4, <1>6, <1>10


LEMMA RecordInvNext ==
    ASSUME StopInv, RecordInv, [Next]_vars
    PROVE  RecordInv'
<1>0. /\ Typed /\ WriterServes /\ UrlIsNew /\ RecordIsNew /\ \A c \in Conns : Handshaken(c)
      /\ \A k \in Readable(manifest) : Recorded(manifest[k][1])
      /\ RecordsAreTrue
  BY DEF StopInv, RecordInv
<1>1. UrlIsNew' /\ RecordIsNew'
  BY <1>0, UrlIsNewNext, RecordIsNewNext
<1>2. \A c \in Conns : Handshaken(c)'
  BY <1>0, HandshakenNext
<1>3. \A k \in Readable(manifest) : k \in Readable(manifest') /\ manifest'[k] = manifest[k]
  BY <1>0, ManifestSteps
<1>4. ASSUME NEW k \in Readable(manifest'), k \notin Readable(manifest)
      PROVE  /\ writer.kind = "message" /\ k = Len(manifest)
             /\ manifest'[k][1] = writer.record
             /\ writer.record.file[1] = messageCount + 1
             /\ Recorded(manifest[k][1])'
  <2>1. /\ FinishRecord /\ messageCount' = writer.record.file[1]
        /\ manifest' = Append(manifest, <<>>) /\ stored' = stored
    BY <1>0, <1>4, ManifestSteps
  <2>2. PICK record : record = writer.record
    OBVIOUS
  <2>3. k = Len(manifest) /\ manifest'[k][1] = record /\ writer.kind = "message" /\ Recorded(record)'
    BY <1>0, <1>4, <2>1, <2>2, FinishedRecord
  <2>4. Recorded(manifest[k][1])'
    BY <2>3 DEF Recorded
  <2>5. writer.record.file[1] = messageCount + 1
    BY <1>0, <2>3 DEF RecordIsNew
  <2> QED
    BY <2>2, <2>3, <2>4, <2>5
<1>5. ASSUME NEW k \in Readable(manifest')
      PROVE  Recorded(manifest[k][1])'
  <2>1. CASE k \in Readable(manifest)
    <3>1. PICK record : record = manifest[k][1]
      OBVIOUS
    <3>2. Recorded(manifest[k][1])
      BY <1>0, <2>1
    <3>3. Recorded(record)
      BY <3>1, <3>2 DEF Recorded
    <3>4. Recorded(record)'
      BY <1>0, <3>3, RecordedNext
    <3>5. manifest'[k][1] = record
      BY <1>3, <2>1, <3>1
    <3> QED
      BY <3>4, <3>5 DEF Recorded
  <2> QED
    BY <1>4, <2>1
<1>6. RecordsAreTrue'
  <2>1. ASSUME NEW k \in Readable(manifest')
        PROVE  LET record == manifest'[k][1] IN
               files'[record.file] = record.message /\ urls'[record.id] = record.message.conn
    <3>1. Recorded(manifest[k][1])'
      BY <1>5
    <3> QED
      BY <3>1 DEF Recorded
  <2>2. ASSUME NEW j \in Readable(manifest'), NEW k \in Readable(manifest'), j < k
        PROVE  LET earlier == manifest'[j][1]
                   later == manifest'[k][1]
               IN  /\ earlier.file[1] < later.file[1]
                   /\ earlier.message.conn = later.message.conn /\
                      earlier.message.dir = later.message.dir => earlier.message.n < later.message.n
    <3>0. Len(manifest) \in Nat /\ messageCount \in Nat
      BY <1>0, LineTypes DEF Typed, Lines
    <3>1. j \in Readable(manifest)
      <4>1. ASSUME j \notin Readable(manifest) PROVE FALSE
        <5>1. j = Len(manifest)
          BY <1>4, <4>1
        <5>2. k # Len(manifest)
          BY <2>2, <3>0, <5>1
        <5>3. k \in Readable(manifest)
          BY <1>4, <5>2
        <5> QED
          BY <2>2, <3>0, <5>1, <5>3 DEF Readable
      <4> QED
        BY <4>1
    <3>2. manifest'[j] = manifest[j]
      BY <1>3, <3>1
    <3>3. CASE k \in Readable(manifest)
      <4>1. manifest'[k] = manifest[k]
        BY <1>3, <3>3
      <4> QED
        BY <1>0, <2>2, <3>1, <3>2, <3>3, <4>1 DEF RecordsAreTrue
    <3>4. CASE k \notin Readable(manifest)
      <4>1. /\ writer.kind = "message" /\ manifest'[k][1] = writer.record
            /\ writer.record.file[1] = messageCount + 1
        BY <1>4, <3>4
      <4>2. Recorded(manifest[j][1])
        BY <1>0, <3>1
      <4>3. manifest[j][1].file[1] \in 1 .. messageCount
        BY <4>2 DEF Recorded
      <4>4. manifest'[j][1].file[1] < manifest'[k][1].file[1]
        BY <3>0, <3>2, <4>1, <4>3
      <4>5. ASSUME writer.record.message.conn = manifest[j][1].message.conn,
                   writer.record.message.dir = manifest[j][1].message.dir
            PROVE  manifest[j][1].message.n < writer.record.message.n
        BY <4>1, <4>2, <4>5 DEF Recorded
      <4> QED
        BY <3>2, <4>1, <4>4, <4>5
    <3> QED
      BY <3>3, <3>4
  <2> QED
    BY <2>1, <2>2 DEF RecordsAreTrue
<1> QED
  BY <1>1, <1>2, <1>5, <1>6 DEF RecordInv

LEMMA RecordInvInit == Init => RecordInv
<1> SUFFICES ASSUME Init PROVE RecordInv
  OBVIOUS
<1>1. Readable(manifest) = {}
  BY DEF Init, Readable
<1>2. UrlIsNew /\ RecordIsNew /\ \A c \in Conns : Handshaken(c)
  BY DEF Init, UrlIsNew, RecordIsNew, Handshaken, Free
<1> QED
  BY <1>1, <1>2 DEF RecordInv, RecordsAreTrue

\* Whatever fails, and wherever the program stops, a line of the manifest that can be read
\* names a file with that message and the URL of its connection, and the lines are in order.
THEOREM RecordsStayTrue == Spec => []RecordsAreTrue
<1>1. StopInv /\ RecordInv /\ [Next]_vars => RecordInv'
  BY RecordInvNext
<1>2. RecordInv => RecordsAreTrue
  BY DEF RecordInv
<1> QED
  BY <1>1, <1>2, RecordInvInit, StopInvariant, PTL DEF Spec


-----------------------------------------------------------------------------
(* The count of the records                                                 *)

LEMMA RecordsAreCountable ==
    ASSUME Typed, NEW c, NEW dir
    PROVE  /\ IsFiniteSet(RecordsOf(c, dir)) /\ Cardinality(RecordsOf(c, dir)) \in Nat
           /\ Len(manifest) \notin RecordsOf(c, dir)
<1>1. Len(manifest) \in Nat
  BY LineTypes DEF Typed, Lines
<1>2. RecordsOf(c, dir) \subseteq 1 .. Len(manifest) - 1
  BY DEF RecordsOf, Readable
<1>3. IsFiniteSet(1 .. Len(manifest) - 1)
  BY <1>1, FS_Interval
<1> QED
  BY <1>1, <1>2, <1>3, FS_Subset, FS_CardinalityType

\* Nothing but FinishRecord changes what is recorded of a direction.
LEMMA RecordsStay ==
    ASSUME Typed, [Next]_vars, Readable(manifest') = Readable(manifest), NEW c, NEW dir
    PROVE  RecordsOf(c, dir)' = RecordsOf(c, dir)
<1>1. \A k \in Readable(manifest) : manifest'[k] = manifest[k]
  BY ManifestSteps
<1> QED
  BY <1>1 DEF RecordsOf

\* A step that leaves the manifest alone, and stores nothing, keeps the count.
LEMMA CountStays ==
    ASSUME Typed, [Next]_vars, CountInv, fails = 0, manifest' = manifest, stored' = stored,
           \/ writer' = writer
           \/ writer.kind # "message" /\ writer'.kind # "message"
    PROVE  CountInv'
<1>1. \A c \in Conns, dir \in Dirs : UnderWay(c, dir)' = UnderWay(c, dir)
  BY DEF UnderWay
<1>2. \A c \in Conns, dir \in Dirs : RecordsOf(c, dir)' = RecordsOf(c, dir)
  BY RecordsStay
<1>3. \A c \in Conns, dir \in Dirs :
          stored'[<<c, dir>>] = Cardinality(RecordsOf(c, dir)') + UnderWay(c, dir)'
  BY <1>1, <1>2 DEF CountInv
<1>4. manifest'[Len(manifest')] =
          IF writer'.kind = "message" /\ writer'.step = "newline" THEN <<writer'.record>> ELSE <<>>
  BY DEF CountInv
<1> QED
  BY <1>3, <1>4 DEF CountInv

LEMMA CountInvStore ==
    ASSUME Typed, CountInv, fails = 0, NEW c \in Conns, NEW dir \in Dirs, StoreMessage(c, dir)
    PROVE  CountInv'
<1>1. /\ writer = Free /\ manifest' = manifest
      /\ stored' = [stored EXCEPT ![<<c, dir>>] = @ + 1]
      /\ writer'.kind = "message" /\ writer'.conn = c /\ writer'.step = "append"
      /\ writer'.record.message.dir = dir
  BY StoredMessage DEF StoreMessage
<1>2. [Next]_vars
  BY DEF Next
<1>3. ASSUME NEW d \in Conns, NEW other \in Dirs
      PROVE  stored'[<<d, other>>] = Cardinality(RecordsOf(d, other)') + UnderWay(d, other)'
  <2>1. RecordsOf(d, other)' = RecordsOf(d, other)
    BY <1>1, <1>2, RecordsStay
  <2>2. stored[<<d, other>>] = Cardinality(RecordsOf(d, other)) + UnderWay(d, other)
    BY DEF CountInv
  <2>3. UnderWay(d, other) = 0
    BY <1>1 DEF UnderWay, Free
  <2>4. UnderWay(d, other)' = IF d = c /\ other = dir THEN 1 ELSE 0
    BY <1>1 DEF UnderWay
  <2>5. stored'[<<d, other>>] = IF d = c /\ other = dir THEN stored[<<d, other>>] + 1 ELSE stored[<<d, other>>]
    BY <1>1 DEF Typed
  <2>6. Cardinality(RecordsOf(d, other)) \in Nat
    BY RecordsAreCountable
  <2> QED
    BY <2>1, <2>2, <2>3, <2>4, <2>5, <2>6
<1>4. manifest[Len(manifest)] = <<>>
  BY <1>1 DEF CountInv, Free
<1> QED
  BY <1>1, <1>3, <1>4 DEF CountInv

LEMMA CountInvAppend ==
    ASSUME Typed, CountInv, fails = 0, AppendRecord,
           manifest' = Appended(manifest, writer.record), stored' = stored,
           writer' = [writer EXCEPT !.step = "newline"]
    PROVE  CountInv'
<1>0. manifest \in Lines /\ writer \in Writers /\ writer.kind = "message" /\ writer.step = "append"
  BY DEF Typed, Lines, Writers, AppendRecord, Recording
<1>1. writer.record \in Record /\ writer.record \in Item
  BY <1>0, WriterKinds DEF Item
<1>2. /\ Len(manifest') = Len(manifest) /\ Readable(manifest') = Readable(manifest)
      /\ manifest'[Len(manifest)] = Append(manifest[Len(manifest)], writer.record)
  BY <1>0, <1>1, AppendedLines
<1>3. manifest[Len(manifest)] = <<>>
  BY <1>0 DEF CountInv
<1>4. /\ writer'.kind = "message" /\ writer'.conn = writer.conn /\ writer'.step = "newline"
      /\ writer'.record = writer.record
  BY <1>0 DEF Writers, Free
<1>5. Append(<<>>, writer.record) = <<writer.record>>
  OBVIOUS
<1>6. [Next]_vars
  BY DEF Next
<1>7. \A c \in Conns, dir \in Dirs : RecordsOf(c, dir)' = RecordsOf(c, dir)
  BY <1>2, <1>6, RecordsStay
<1>8. \A c \in Conns, dir \in Dirs : UnderWay(c, dir)' = UnderWay(c, dir)
  BY <1>0, <1>4 DEF UnderWay
<1>9. \A c \in Conns, dir \in Dirs :
          stored'[<<c, dir>>] = Cardinality(RecordsOf(c, dir)') + UnderWay(c, dir)'
  BY <1>7, <1>8 DEF CountInv
<1>10. manifest'[Len(manifest')] = <<writer'.record>>
  BY <1>2, <1>3, <1>4, <1>5
<1> QED
  BY <1>4, <1>9, <1>10 DEF CountInv

LEMMA CountInvFinish ==
    ASSUME Typed, RecordIsNew, CountInv, fails = 0, FinishRecord, manifest' = Append(manifest, <<>>),
           stored' = stored
    PROVE  CountInv'
<1> DEFINE record == writer.record
           n == Len(manifest)
<1>0. /\ manifest \in Lines /\ writer \in Writers /\ writer.kind = "message"
      /\ writer.step = "newline" /\ writer' = Free
  BY DEF Typed, Lines, Writers, FinishRecord, Recording
<1>1. record \in Record /\ record.message.conn = writer.conn
  BY <1>0, WriterKinds DEF RecordIsNew
<1>2. record # Torn
  BY <1>1 DEF Record, Torn
<1>3. manifest[n] = <<record>>
  BY <1>0 DEF CountInv
<1>4. /\ Len(manifest') = n + 1 /\ manifest'[n + 1] = <<>>
      /\ \A k \in 1 .. n : manifest'[k] = manifest[k]
      /\ Readable(manifest') = Readable(manifest) \cup
            {k \in {n} : Len(manifest[k]) = 1 /\ manifest[k][1] # Torn}
  BY <1>0, EndedLines
<1>5. Len(manifest[n]) = 1 /\ manifest[n][1] = record
  BY <1>3
<1>6. n \in Nat \ {0}
  BY <1>0, LineTypes
<1>7. Readable(manifest') = Readable(manifest) \cup {n} /\ manifest'[n] = manifest[n]
  <2> HIDE DEF record, n
  <2> QED
    BY <1>2, <1>4, <1>5, <1>6
<1>8. \A k \in Readable(manifest) : manifest'[k] = manifest[k]
  BY <1>4, <1>6 DEF Readable
<1>9. ASSUME NEW c \in Conns, NEW dir \in Dirs
      PROVE  stored'[<<c, dir>>] = Cardinality(RecordsOf(c, dir)') + UnderWay(c, dir)'
  <2>1. stored[<<c, dir>>] = Cardinality(RecordsOf(c, dir)) + UnderWay(c, dir)
    BY DEF CountInv
  <2>2. UnderWay(c, dir)' = 0
    BY <1>0 DEF UnderWay, Free
  <2>3. /\ IsFiniteSet(RecordsOf(c, dir)) /\ Cardinality(RecordsOf(c, dir)) \in Nat
        /\ n \notin RecordsOf(c, dir)
    BY RecordsAreCountable
  <2> HIDE DEF n
  <2>4. CASE record.message.conn = c /\ record.message.dir = dir
    <3>1. RecordsOf(c, dir)' = RecordsOf(c, dir) \cup {n}
      BY <1>5, <1>7, <1>8, <2>4 DEF RecordsOf
    <3>2. Cardinality(RecordsOf(c, dir) \cup {n}) = Cardinality(RecordsOf(c, dir)) + 1
      BY <2>3, FS_AddElement
    <3>3. UnderWay(c, dir) = 1
      BY <1>0, <1>1, <2>4 DEF UnderWay
    <3> QED
      BY <2>1, <2>2, <2>3, <3>1, <3>2, <3>3
  <2>5. CASE ~(record.message.conn = c /\ record.message.dir = dir)
    <3>1. RecordsOf(c, dir)' = RecordsOf(c, dir)
      <4> DEFINE Is(r) == r.message.conn = c /\ r.message.dir = dir
      <4>1. /\ RecordsOf(c, dir) = {k \in Readable(manifest) : Is(manifest[k][1])}
            /\ RecordsOf(c, dir)' = {k \in Readable(manifest') : Is(manifest'[k][1])}
        BY DEF RecordsOf
      <4>2. ~Is(manifest'[n][1])
        BY <1>5, <1>7, <2>5
      <4> HIDE DEF Is
      <4> QED
        BY <1>7, <1>8, <4>1, <4>2
    <3>2. UnderWay(c, dir) = 0
      BY <1>0, <1>1, <2>5 DEF UnderWay
    <3> QED
      BY <2>1, <2>2, <3>1, <3>2
  <2> QED
    BY <2>4, <2>5
<1>10. manifest'[Len(manifest')] = <<>>
  BY <1>4
<1> QED
  BY <1>0, <1>9, <1>10 DEF CountInv, Free

LEMMA CountInvNext ==
    ASSUME StopInv, RecordInv, CountInv, [Next]_vars
    PROVE  CountInv'
<1>0. Typed /\ RecordIsNew /\ fails \in Nat /\ writer \in Writers
  BY DEF StopInv, RecordInv, Typed, Writers
<1> SUFFICES ASSUME fails' = 0 PROVE CountInv'
  BY DEF CountInv
<1>1. fails' = fails + 1 => FALSE
  BY <1>0
<1>2. CASE RelayStep
  <2>1. manifest' = manifest /\ writer' = writer
    BY <1>2, RelayStepShape DEF disk
  <2>2. stored' = stored /\ fails' = fails
    BY <1>1, <1>2 DEF RelayStep, Open, Refused, Cancel, UrlFails, Forward, ForwardFails, Close,
        MessageFails, Fails
  <2> QED
    BY <1>0, <2>1, <2>2, CountStays
<1>3. CASE ButtonStep \/ UNCHANGED vars
  <2>1. UNCHANGED <<manifest, writer, stored>>
    BY <1>3 DEF ButtonStep, Press, Cancels, ProxyEnds, Recovered, RecoverFails, vars, relays, disk
  <2>2. fails' = fails
    BY <1>1, <1>3 DEF ButtonStep, Press, Cancels, ProxyEnds, Recovered, RecoverFails, vars, Fails
  <2> QED
    BY <1>0, <2>1, <2>2, CountStays
<1>4. CASE UrlStep
  <2>1. UNCHANGED <<manifest, fails, stored>>
    BY <1>1, <1>4 DEF UrlStep, StoreUrl, AppendConnection, FinishConnection, Fails
  <2>2. \/ writer = Free /\ writer'.kind = "url"
        \/ writer.kind = "url" /\ writer' = Free
        \/ writer.kind = "url" /\ writer' = [writer EXCEPT !.step = "newline"]
    <3>1. CASE \E c \in Conns : StoreUrl(c)
      BY <3>1 DEF StoreUrl
    <3>2. CASE AppendConnection \/ FinishConnection
      BY <3>2 DEF AppendConnection, FinishConnection, Handshaking
    <3> QED
      BY <1>4, <3>1, <3>2 DEF UrlStep
  <2>3. writer.kind # "message" /\ writer'.kind # "message"
    BY <1>0, <2>2 DEF Free, Writers
  <2> QED
    BY <1>0, <2>1, <2>3, CountStays
<1>5. CASE \E c \in Conns, dir \in Dirs : StoreMessage(c, dir)
  <2> PICK c \in Conns, dir \in Dirs : StoreMessage(c, dir)
    BY <1>5
  <2>1. fails = 0
    BY StoredMessage, <1>0
  <2> QED
    BY <1>0, <2>1, CountInvStore
<1>6. CASE AppendRecord
  <2>1. /\ manifest' = Appended(manifest, writer.record) /\ stored' = stored /\ fails' = fails
        /\ writer' = [writer EXCEPT !.step = "newline"]
    BY <1>1, <1>6 DEF AppendRecord, Fails
  <2> QED
    BY <1>0, <1>6, <2>1, CountInvAppend
<1>7. CASE FinishRecord
  <2>1. manifest' = Append(manifest, <<>>) /\ stored' = stored /\ fails' = fails
    BY <1>1, <1>7 DEF FinishRecord, Fails
  <2> QED
    BY <1>0, <1>7, <2>1, CountInvFinish
<1> QED
  BY <1>2, <1>3, <1>4, <1>5, <1>6, <1>7, NextSteps DEF MessageStep

LEMMA CountInvInit == Init => CountInv
<1> SUFFICES ASSUME Init PROVE CountInv
  OBVIOUS
<1>1. manifest = <<<<>>>> /\ writer = Free
  BY DEF Init
<1>2. Len(manifest) = 1 /\ manifest[1] = <<>>
  BY <1>1
<1>3. \A c \in Conns, dir \in Dirs : RecordsOf(c, dir) = {}
  BY <1>2 DEF RecordsOf, Readable
<1>4. \A c \in Conns, dir \in Dirs : stored[<<c, dir>>] = 0 /\ UnderWay(c, dir) = 0
  BY <1>1 DEF Init, UnderWay, Free
<1>5. Cardinality({}) = 0
  BY FS_EmptySet
<1> QED
  <2>1. manifest[Len(manifest)] = <<>> /\ writer.kind = "free"
    BY <1>1, <1>2 DEF Free
  <2>2. \A c \in Conns, dir \in Dirs :
            stored[<<c, dir>>] = Cardinality(RecordsOf(c, dir)) + UnderWay(c, dir)
    <3> TAKE c \in Conns, dir \in Dirs
    <3>1. stored[<<c, dir>>] = 0 /\ UnderWay(c, dir) = 0
      BY <1>4
    <3>2. Cardinality(RecordsOf(c, dir)) = 0
      BY <1>3, <1>5
    <3> QED
      BY <3>1, <3>2
  <2> QED
    BY <2>1, <2>2 DEF CountInv

\* Where nothing failed, every message that was forwarded is in the manifest once its relay
\* has no store under way: the cancellation does not come between a read and its stores.
THEOREM NothingIsLost == Spec => []StopLosesNothing
<1>1. StopInv /\ RecordInv /\ CountInv /\ [Next]_vars => RecordInv' /\ CountInv'
  BY RecordInvNext, CountInvNext
<1>2. StopInv /\ CountInv => StopLosesNothing
  <2> SUFFICES ASSUME StopInv, CountInv, NEW c \in Conns, NEW dir \in Dirs, fails = 0, ~Storing(c)
               PROVE  forwarded[<<c, dir>>] = Cardinality(RecordsOf(c, dir))
    BY DEF StopLosesNothing
  <2>1. ~Writing(c) /\ ~(stored[<<c, dir>>] < forwarded[<<c, dir>>])
    BY DEF Storing
  <2>2. /\ stored[<<c, dir>>] \in Nat /\ forwarded[<<c, dir>>] \in Nat
        /\ stored[<<c, dir>>] <= forwarded[<<c, dir>>]
    BY DEF StopInv, Typed
  <2>3. UnderWay(c, dir) = 0
    BY <2>1 DEF UnderWay, Writing, Free
  <2>4. stored[<<c, dir>>] = Cardinality(RecordsOf(c, dir)) + UnderWay(c, dir)
    BY DEF CountInv
  <2>5. Cardinality(RecordsOf(c, dir)) \in Nat
    BY RecordsAreCountable DEF StopInv
  <2> QED
    BY <2>1, <2>2, <2>3, <2>4, <2>5
<1> QED
  BY <1>1, <1>2, RecordInvInit, CountInvInit, StopInvariant, PTL DEF Spec
=============================================================================
