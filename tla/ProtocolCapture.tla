--------------------------- MODULE ProtocolCapture ---------------------------
(***************************************************************************)
(* A session of protocol mode (protocol_capture.rs): every connection to   *)
(* the gateway is relayed by a task of its own, and what the relays see is *)
(* written by one CaptureWriter behind a mutex: a file per handshake URL   *)
(* and per message, and a line per file in connections.jsonl and           *)
(* manifest.jsonl.  The stop and cleanup buttons end the relays and show   *)
(* the summary.                                                            *)
(*                                                                         *)
(* Both directions of a relay run in one task and a store never awaits, so *)
(* neither the other direction nor the cancellation comes between what one *)
(* read has brought and its last store; other tasks do, at the mutex.  A   *)
(* crash is not an action: what holds in every state holds of the files    *)
(* that a crash leaves.                                                    *)
(***************************************************************************)
EXTENDS Naturals, Sequences, FiniteSets, Functions

CONSTANTS
    Conns,        \* the connections of the session
    MaxMessages,  \* bound: messages forwarded
    MaxFails      \* bound: failures of the disk, the network recovery and the relays

ASSUME CaptureConstants == MaxMessages \in Nat /\ MaxFails \in Nat

Dirs == {"send", "recv"}
Buttons == {"stop", "cleanup"}
Free == [kind |-> "free"]

Message == [conn : Conns, dir : Dirs, n : 1 .. MaxMessages]
Counts == 0 .. MaxMessages
Ids == 0 .. Cardinality(Conns)

VARIABLES
    relay,        \* per connection: "idle", "handshake", "open" or "ended"
    id,           \* per connection: its connection_id, 0 before it has one
    eof,          \* the directions that have closed
    forwarded,    \* per connection and direction: messages forwarded
    stored,       \* per connection and direction: messages whose store was begun
    writer,       \* the CaptureWriter's mutex: what is being written
    connectionCount, messageCount,
    urls,         \* handshakes/: connection_id -> whose URL the file holds
    files,        \* the message files: <<sequence, direction>> -> message
    connections,  \* the lines of connections.jsonl, each the list of what is on it;
    manifest,     \* the same for manifest.jsonl; the last one has no newline yet
    fails,        \* failures so far
    session,      \* runtime.protocol_session is Some
    proxy,        \* "running", "cancelled", "ended"
    button,       \* per button: "idle", "stopping", "joining" or "recovering"
    holds,        \* the buttons whose handler took the session
    status        \* the last status published

relays == <<relay, id, eof, forwarded, stored>>
disk == <<urls, files, connections, manifest>>
counters == <<connectionCount, messageCount>>
stopping == <<session, proxy, button, holds, status>>
vars == <<relays, writer, disk, counters, fails, stopping>>

Listening == [phase |-> "protocol_listening", directory |-> TRUE, messages |-> 0]

TypeOK ==
    /\ relay \in [Conns -> {"idle", "handshake", "open", "ended"}]
    /\ id \in [Conns -> Ids] /\ connectionCount \in Ids
    /\ eof \subseteq Conns \X Dirs
    /\ forwarded \in [Conns \X Dirs -> Counts] /\ stored \in [Conns \X Dirs -> Counts]
    /\ \A d \in Conns \X Dirs : stored[d] <= forwarded[d]
    /\ messageCount \in Counts /\ fails \in 0 .. MaxFails
    /\ writer.kind \in {"free", "url", "message"}
    /\ writer # Free => writer.step \in {"append", "newline"}
    /\ session \in BOOLEAN /\ proxy \in {"running", "cancelled", "ended"}
    /\ button \in [Buttons -> {"idle", "stopping", "joining", "recovering"}]
    /\ holds \subseteq Buttons /\ (session => holds = {}) /\ Cardinality(holds) <= 1
    /\ status \in [phase : {"protocol_listening", "stopped", "idle"}, directory : BOOLEAN,
                   messages : Counts]

Init ==
    /\ relay = [c \in Conns |-> "idle"] /\ id = [c \in Conns |-> 0]
    /\ eof = {}
    /\ forwarded = [d \in Conns \X Dirs |-> 0] /\ stored = [d \in Conns \X Dirs |-> 0]
    /\ writer = Free
    /\ connectionCount = 0 /\ messageCount = 0
    /\ urls = <<>> /\ files = <<>>
    /\ connections = <<<<>>>> /\ manifest = <<<<>>>>
    /\ fails = 0
    /\ session = TRUE /\ proxy = "running"
    /\ button = [b \in Buttons |-> "idle"] /\ holds = {}
    /\ status = Listening

-----------------------------------------------------------------------------
(* Files.  An append goes to the last line, whatever is there already. *)

Put(f, key, value) == [k \in DOMAIN f \cup {key} |-> IF k = key THEN value ELSE f[k]]
Appended(lines, item) == [lines EXCEPT ![Len(lines)] = Append(@, item)]
Torn == [torn |-> TRUE]

\* What a reader of the file can rely on: the numbers of the lines that hold one record
\* and nothing else, and have their newline.
Readable(lines) ==
    {k \in 1 .. Len(lines) - 1 : Len(lines[k]) = 1 /\ lines[k][1] # Torn}

Fails == fails < MaxFails /\ fails' = fails + 1

\* The task of this connection is between a read and its last store.
Writing(c) == writer # Free /\ writer.conn = c
Storing(c) == Writing(c) \/ \E dir \in Dirs : stored[c, dir] < forwarded[c, dir]

\* An Err in one direction: try_join drops the other one.  Only messages the relay
\* will never store are given up.
RelayFails(c) ==
    /\ relay' = [relay EXCEPT ![c] = "ended"]
    /\ stored' = [d \in Conns \X Dirs |-> IF d[1] = c THEN forwarded[d] ELSE stored[d]]

-----------------------------------------------------------------------------
(* store_handshake_url *)

\* The URL goes to a temporary file that is renamed; a failure leaves no trace.
StoreUrl(c) ==
    /\ relay[c] = "idle" /\ proxy # "ended" /\ writer = Free
    /\ relay' = [relay EXCEPT ![c] = "handshake"]
    /\ id' = [id EXCEPT ![c] = connectionCount + 1]
    /\ urls' = Put(urls, connectionCount + 1, c)
    /\ writer' = [kind |-> "url", conn |-> c, step |-> "append"]
    /\ UNCHANGED <<eof, forwarded, stored, files, connections, manifest, counters, fails, stopping>>

UrlFails(c) ==
    /\ relay[c] = "idle" /\ proxy # "ended" /\ writer = Free
    /\ Fails
    /\ relay' = [relay EXCEPT ![c] = "ended"]
    /\ UNCHANGED <<id, eof, forwarded, stored, writer, disk, counters, stopping>>

Handshaking(step) == writer.kind = "url" /\ writer.step = step

\* serde_json writes the record piece by piece: a failure may leave part of it.
AppendConnection ==
    /\ Handshaking("append")
    /\ LET c == writer.conn IN
       \/ /\ connections' = Appended(connections, [id |-> id[c], conn |-> c])
          /\ writer' = [writer EXCEPT !.step = "newline"]
          /\ UNCHANGED <<relay, stored, fails>>
       \/ /\ Fails /\ RelayFails(c)
          /\ connections' \in {connections, Appended(connections, Torn)}
          /\ writer' = Free
    /\ UNCHANGED <<id, eof, forwarded, urls, files, manifest, counters, stopping>>

FinishConnection ==
    /\ Handshaking("newline")
    /\ writer' = Free
    /\ \/ /\ connections' = Append(connections, <<>>)
          /\ connectionCount' = id[writer.conn]
          /\ UNCHANGED <<relay, stored, fails>>
       \/ /\ Fails /\ RelayFails(writer.conn)
          /\ UNCHANGED <<connections, connectionCount>>
    /\ UNCHANGED <<id, eof, forwarded, urls, files, manifest, messageCount, stopping>>

-----------------------------------------------------------------------------
(* The relay *)

\* open_target_websocket returns: the gateway accepted the login, or it did not.
Open(c) ==
    /\ relay[c] = "handshake" /\ ~Writing(c)
    /\ relay' = [relay EXCEPT ![c] = "open"]
    /\ UNCHANGED <<id, eof, forwarded, stored, writer, disk, counters, fails, stopping>>

Refused(c) ==
    /\ relay[c] = "handshake" /\ ~Writing(c)
    /\ Fails
    /\ relay' = [relay EXCEPT ![c] = "ended"]
    /\ UNCHANGED <<id, eof, forwarded, stored, writer, disk, counters, stopping>>

Forwarded == SumFunction(forwarded)

\* One read was forwarded, and completed this many messages.
Forward(c, dir, messages) ==
    /\ relay[c] = "open" /\ <<c, dir>> \notin eof /\ ~Storing(c)
    /\ Forwarded + messages <= MaxMessages
    /\ forwarded' = [forwarded EXCEPT ![<<c, dir>>] = @ + messages]
    /\ UNCHANGED <<relay, id, eof, stored, writer, disk, counters, fails, stopping>>

\* The same, but a frame of it is not understood: the messages before it are dropped.
ForwardFails(c, dir, messages) ==
    /\ relay[c] = "open" /\ <<c, dir>> \notin eof /\ ~Storing(c)
    /\ Forwarded + messages <= MaxMessages
    /\ Fails
    /\ forwarded' = [forwarded EXCEPT ![<<c, dir>>] = @ + messages]
    /\ relay' = [relay EXCEPT ![c] = "ended"]
    /\ stored' = [stored EXCEPT ![<<c, dir>>] = @ + messages]
    /\ UNCHANGED <<id, eof, writer, disk, counters, stopping>>

\* One peer closes; the relay returns when both have.
Close(c, dir) ==
    /\ relay[c] = "open" /\ <<c, dir>> \notin eof /\ ~Storing(c)
    /\ eof' = eof \cup {<<c, dir>>}
    /\ relay' = IF {c} \X Dirs \subseteq eof' THEN [relay EXCEPT ![c] = "ended"] ELSE relay
    /\ UNCHANGED <<id, forwarded, stored, writer, disk, counters, fails, stopping>>

\* Mutant: the token is looked at between two stores.
CancelBetweenStores(c) ==
    /\ proxy = "cancelled" /\ relay[c] \in {"handshake", "open"}
    /\ ~Writing(c)
    /\ relay' = [relay EXCEPT ![c] = "ended"]
    /\ stored' = [d \in Conns \X Dirs |-> IF d[1] = c THEN forwarded[d] ELSE stored[d]]
    /\ UNCHANGED <<id, eof, forwarded, writer, disk, counters, fails, stopping>>

\* Mutant: only the relay loops look at the token, not the handshake.
CancelOpenOnly(c) ==
    /\ proxy = "cancelled" /\ relay[c] = "open" /\ ~Storing(c)
    /\ relay' = [relay EXCEPT ![c] = "ended"]
    /\ UNCHANGED <<id, eof, forwarded, stored, writer, disk, counters, fails, stopping>>

\* The task sees the cancellation where it awaits.
Cancel(c) ==
    /\ proxy = "cancelled" /\ relay[c] \in {"handshake", "open"}
    /\ ~Storing(c)
    /\ relay' = [relay EXCEPT ![c] = "ended"]
    /\ UNCHANGED <<id, eof, forwarded, stored, writer, disk, counters, fails, stopping>>

-----------------------------------------------------------------------------
(* store_message *)

StoreMessage(c, dir) ==
    /\ relay[c] = "open" /\ stored[c, dir] < forwarded[c, dir] /\ writer = Free
    /\ stored' = [stored EXCEPT ![<<c, dir>>] = @ + 1]
    /\ LET message == [conn |-> c, dir |-> dir, n |-> stored'[c, dir]]
           file == <<messageCount + 1, dir>>
       IN  /\ files' = Put(files, file, message)
           /\ writer' = [kind |-> "message", conn |-> c, step |-> "append",
                         record |-> [file |-> file, id |-> id[c], message |-> message]]
    /\ UNCHANGED <<relay, id, eof, forwarded, urls, connections, manifest, counters, fails, stopping>>

MessageFails(c, dir) ==
    /\ relay[c] = "open" /\ stored[c, dir] < forwarded[c, dir] /\ writer = Free
    /\ Fails /\ RelayFails(c)
    /\ UNCHANGED <<id, eof, forwarded, writer, disk, counters, stopping>>

Recording(step) == writer.kind = "message" /\ writer.step = step

AppendRecord ==
    /\ Recording("append")
    /\ \/ /\ manifest' = Appended(manifest, writer.record)
          /\ writer' = [writer EXCEPT !.step = "newline"]
          /\ UNCHANGED <<relay, stored, fails>>
       \/ /\ Fails /\ RelayFails(writer.conn)
          /\ manifest' \in {manifest, Appended(manifest, Torn)}
          /\ writer' = Free
    /\ UNCHANGED <<id, eof, forwarded, urls, files, connections, counters, stopping>>

\* Mutant: a message is not counted.
FinishRecordUncounted ==
    /\ Recording("newline")
    /\ writer' = Free
    /\ manifest' = Append(manifest, <<>>)
    /\ UNCHANGED <<relays, urls, files, connections, counters, fails, stopping>>

FinishRecord ==
    /\ Recording("newline")
    /\ writer' = Free
    /\ \/ /\ manifest' = Append(manifest, <<>>)
          /\ messageCount' = writer.record.file[1]
          /\ UNCHANGED <<relay, stored, fails>>
       \/ /\ Fails /\ RelayFails(writer.conn)
          /\ UNCHANGED <<manifest, messageCount>>
    /\ UNCHANGED <<id, eof, forwarded, urls, files, connections, connectionCount, stopping>>

-----------------------------------------------------------------------------
(* stop_capture and cleanup_network *)

\* take_protocol_session.  A button is disabled while its own or the stop handler runs;
\* the stop button is enabled while the status shown is that of a session.
Press(b) ==
    /\ button[b] = "idle" /\ button["stop"] = "idle"
    /\ b = "stop" => status = Listening
    /\ button' = [button EXCEPT ![b] = "stopping"]
    /\ holds' = IF session THEN holds \cup {b} ELSE holds
    /\ session' = FALSE
    /\ UNCHANGED <<relays, writer, disk, counters, fails, proxy, status>>

\* stop_transport, under transport_stop: the first one takes the task and waits for it.
Cancels(b) ==
    /\ button[b] = "stopping"
    /\ \A other \in Buttons : button[other] \notin {"joining", "recovering"}
    /\ proxy' = IF proxy = "running" THEN "cancelled" ELSE proxy
    /\ button' = [button EXCEPT ![b] = IF proxy = "running" THEN "joining" ELSE "recovering"]
    /\ UNCHANGED <<relays, writer, disk, counters, fails, session, holds, status>>

\* Mutant: the connections are left to themselves.
ProxyEndsAlone(b) ==
    /\ button[b] = "joining" /\ proxy = "cancelled"
    /\ proxy' = "ended"
    /\ button' = [button EXCEPT ![b] = "recovering"]
    /\ UNCHANGED <<relays, writer, disk, counters, fails, session, holds, status>>

\* proxy::run ends with its last connection.
ProxyEnds(b) ==
    /\ button[b] = "joining" /\ proxy = "cancelled"
    /\ \A c \in Conns : relay[c] \in {"idle", "ended"}
    /\ proxy' = "ended"
    /\ button' = [button EXCEPT ![b] = "recovering"]
    /\ UNCHANGED <<relays, writer, disk, counters, fails, session, holds, status>>

\* recover_network succeeds and the summary is published ...
Recovered(b) ==
    /\ button[b] = "recovering"
    /\ button' = [button EXCEPT ![b] = "idle"]
    /\ status' = [phase |-> IF b = "stop" THEN "stopped" ELSE "idle",
                  directory |-> b \in holds,
                  messages |-> IF b \in holds THEN messageCount ELSE 0]
    /\ holds' = holds \ {b}
    /\ UNCHANGED <<relays, writer, disk, counters, fails, session, proxy>>

\* ... or it fails: the handler returns, and drops the session it took.
RecoverFails(b) ==
    /\ button[b] = "recovering"
    /\ Fails
    /\ button' = [button EXCEPT ![b] = "idle"]
    /\ holds' = holds \ {b}
    /\ UNCHANGED <<relays, writer, disk, counters, session, proxy, status>>

Next ==
    \/ \E c \in Conns : StoreUrl(c) \/ UrlFails(c) \/ Open(c) \/ Refused(c) \/ Cancel(c)
    \/ AppendConnection \/ FinishConnection
    \/ \E c \in Conns, dir \in Dirs :
          \/ \E messages \in 1 .. 2 : Forward(c, dir, messages) \/ ForwardFails(c, dir, messages)
          \/ Close(c, dir) \/ StoreMessage(c, dir) \/ MessageFails(c, dir)
    \/ AppendRecord \/ FinishRecord
    \/ \E b \in Buttons : Press(b) \/ Cancels(b) \/ ProxyEnds(b) \/ Recovered(b) \/ RecoverFails(b)

Spec == Init /\ [][Next]_vars

\* A store is synchronous, a cancelled task is polled, transport_stop is first in first
\* out, and network recovery is taken to return.
Fairness ==
    /\ WF_vars(AppendConnection \/ FinishConnection \/ AppendRecord \/ FinishRecord)
    /\ \A c \in Conns : WF_vars(Cancel(c)) /\ \A dir \in Dirs : WF_vars(StoreMessage(c, dir))
    /\ \A b \in Buttons :
          /\ SF_vars(Cancels(b)) /\ WF_vars(ProxyEnds(b))
          /\ WF_vars(Recovered(b) \/ RecoverFails(b))

FairSpec == Spec /\ Fairness

-----------------------------------------------------------------------------
(* Properties *)

\* Whatever fails and whenever the program dies, a manifest line that can be read tells
\* the truth: the file it names holds that message, its connection_id names the URL of
\* the connection it came over, and sequences and the messages of a direction only grow.
RecordsAreTrue ==
    /\ \A k \in Readable(manifest) : LET record == manifest[k][1] IN
          /\ files[record.file] = record.message
          /\ urls[record.id] = record.message.conn
    /\ \A j, k \in Readable(manifest) : j < k =>
          LET earlier == manifest[j][1]
              later == manifest[k][1]
          IN  /\ earlier.file[1] < later.file[1]
              /\ earlier.message.conn = later.message.conn /\
                 earlier.message.dir = later.message.dir => earlier.message.n < later.message.n

\* The lines that can be read of the messages of a direction.
RecordsOf(c, dir) ==
    {k \in Readable(manifest) :
        manifest[k][1].message.conn = c /\ manifest[k][1].message.dir = dir}

\* Stopping loses nothing: where nothing failed, every message that was forwarded is in
\* the manifest once its relay has no store under way, ended or not.
StopLosesNothing ==
    \A c \in Conns, dir \in Dirs :
        fails = 0 /\ ~Storing(c) => forwarded[c, dir] = Cardinality(RecordsOf(c, dir))

\* The summary that stop or cleanup shows is that of the finished log: no relay stores
\* anything afterwards.
SummaryIsFinal ==
    status.directory /\ status # Listening => status.messages = messageCount /\ writer = Free

\* A stop or a cleanup returns, whatever the relays were doing when it cancelled them.
StopsReturn == \A b \in Buttons : button[b] = "stopping" ~> button[b] = "idle"

=============================================================================
