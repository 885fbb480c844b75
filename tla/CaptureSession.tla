--------------------------- MODULE CaptureSession ---------------------------
(***************************************************************************)
(* The Code-capture session of AppCore (app_state.rs) and the part of the  *)
(* local proxy that claims a login (proxy.rs).                             *)
(*                                                                         *)
(* The actors are the STARTER (sync_account / start_capture), the STOPPERS *)
(* (stop_capture, cleanup_network and the starter's own failure path), the *)
(* identity MONITOR of each session, the CONNECTIONS that QQ opens through *)
(* the proxy and the capture HANDLER that consumes their events.  One      *)
(* async mutex guards RuntimeState: an action below is one critical        *)
(* section of it, so everything can interleave between two of them.        *)
(*                                                                         *)
(* What the network takeover does (registry, certificate) is the subject   *)
(* of NetworkTakeover; here its steps succeed or fail.                     *)
(***************************************************************************)
EXTENDS Naturals, Sequences, FiniteSets

CONSTANTS
    Accounts,     \* QQ numbers logged in on this desktop
    Conns,        \* connections to the farm host, each used once
    NoAccount,    \* Option::None for an account
    NoCode,       \* Option::None for a Code; a Code is named by its connection
    MaxSessions,  \* bound: how many times the proxy is started
    ChanCap,      \* capacity of the CaptureEvent channel
    AutoSync,     \* the sessions started with settings.auto_sync
    Friends,      \* the sessions started with settings.sync_official_friends
    Buttons,      \* which of "stop" and "cleanup" the user presses
    Overlap       \* may a start begin while a stop is in progress?  The code lets it.

ASSUME ConstantsOK ==
    /\ NoAccount \notin Accounts
    /\ NoCode \notin Conns
    /\ MaxSessions \in Nat
    /\ ChanCap \in Nat
    /\ AutoSync \subseteq Nat
    /\ Friends \subseteq Nat
    /\ Buttons \subseteq {"stop", "cleanup"}
    /\ Overlap \in BOOLEAN

VARIABLES
    starter,       \* the command that starts the proxy: program counter and account
    stopper,       \* each stop_transport caller: program counter and the handles it took
    live,          \* runtime.cancellation, .task and .armed are Some
    sessions,      \* the number of the session that was started last
    captureRef,    \* runtime.capture_task is Some
    identityRef,   \* runtime.identity_task is Some (the last session's monitor)
    selected,      \* runtime.selected_qq_number
    locked,        \* runtime.locked_identity
    captureTarget, \* runtime.capture_target
    lastCode,      \* runtime.last_code
    status,        \* runtime.status, which is also what the window shows
    proxyUp,       \* proxy::run of the last session is alive
    armed,         \* the AtomicBool that it shares with runtime.armed
    conn,          \* the connections
    chan,          \* the CaptureEvent channel
    handler,       \* the capture task
    monitor,       \* the identity monitor of each session
    userChoice     \* history: the account whose row the user clicked last

lifeVars  == <<live, sessions, captureRef, identityRef>>
idVars    == <<selected, locked, captureTarget>>
viewVars  == <<lastCode, status>>
proxyVars == <<proxyUp, armed, conn, chan>>
vars == <<starter, stopper, lifeVars, idVars, viewVars, proxyVars, handler, monitor, userChoice>>

Account  == Accounts \cup {NoAccount}
Session  == 1 .. MaxSessions
Stoppers == Buttons \cup {"starter"}

\* The window keeps the settings as they are while a session is active, so what the
\* handler loads again is what the session was started with.
AutoSyncs      == sessions \in AutoSync
SyncsFriends   == sessions \in Friends
CaptureFriends == AutoSyncs /\ SyncsFriends

\* The phases of status.rs that the Code mode publishes.
Phases == {"idle", "preparing_proxy", "ready", "waiting_login", "code_captured",
           "syncing", "completed", "identity_changed", "error", "stopped"}

AccountPhases == {"waiting_login", "code_captured", "syncing", "completed",
                  "identity_changed"}

Event   == [type : {"Intercepted", "Captured"}, code : Conns]
Starter == [pc : {"idle", "prepare", "stored", "enabled", "published",
                  "monitor_spawned", "monitored", "failing"},
            ident : Account]
Stopper == [pc : {"idle", "queued", "tasks", "recover", "clear", "publish"},
            sess : BOOLEAN, mon : BOOLEAN, cap : BOOLEAN]
Status  == [phase : Phases, active : BOOLEAN, target : Account, code : BOOLEAN]
Conn    == [pc : {"unused", "tls", "opening", "relay", "gone"}, choice : Account, synced : Account]
Handler == [pc : {"none", "recv", "captured", "revalidating", "decide", "syncing",
                  "synced", "friends"},
            code : Conns \cup {NoCode}, acct : Account]
Monitor == [pc : {"none", "wait", "detect", "adopt", "unconfirm"}, acct : Account]

TypeOK ==
    /\ starter \in Starter
    /\ stopper \in [Stoppers -> Stopper]
    /\ live \in BOOLEAN /\ captureRef \in BOOLEAN /\ identityRef \in BOOLEAN
    /\ sessions \in 0 .. MaxSessions
    /\ selected \in Account /\ locked \in Account /\ captureTarget \in Account
    /\ lastCode \in Conns \cup {NoCode}
    /\ status \in Status
    /\ proxyUp \in BOOLEAN /\ armed \in BOOLEAN
    /\ conn \in [Conns -> Conn]
    /\ chan \in Seq(Event)
    /\ handler \in Handler
    /\ monitor \in [Session -> Monitor]
    /\ userChoice \in Account

NoLogin   == [pc |-> "none", code |-> NoCode, acct |-> NoAccount]
NoStop    == [pc |-> "idle", sess |-> FALSE, mon |-> FALSE, cap |-> FALSE]
NoMonitor == [pc |-> "none", acct |-> NoAccount]

Init ==
    /\ starter = [pc |-> "idle", ident |-> NoAccount]
    /\ stopper = [p \in Stoppers |-> NoStop]
    /\ live = FALSE /\ captureRef = FALSE /\ identityRef = FALSE
    /\ sessions = 0
    /\ selected = NoAccount /\ locked = NoAccount /\ captureTarget = NoAccount
    /\ lastCode = NoCode
    /\ status = [phase |-> "idle", active |-> FALSE, target |-> NoAccount, code |-> FALSE]
    /\ proxyUp = FALSE /\ armed = FALSE
    /\ conn = [c \in Conns |-> [pc |-> "unused", choice |-> NoAccount, synced |-> NoAccount]]
    /\ chan = <<>>
    /\ handler = NoLogin
    /\ monitor = [s \in Session |-> NoMonitor]
    /\ userChoice = NoAccount

-----------------------------------------------------------------------------
(* Helpers *)

\* emit_status: the payload left in runtime.status when the selected account is
\* sel and the row of the login in progress is tgt.
Emit(phase, code, sel, tgt) ==
    [phase  |-> phase,
     active |-> live,
     target |-> IF phase \in AccountPhases
                THEN IF tgt # NoAccount THEN tgt ELSE sel
                ELSE IF phase = "error" THEN tgt ELSE NoAccount,
     code   |-> code]

\* publish(): emit_status in a critical section that changes nothing else.
Publish(phase, code) == status' = Emit(phase, code, selected, captureTarget)

\* Mutant: the time between the Code and the account's confirmation is forgotten.
CaptureInProgressUnread ==
    status.phase = "syncing" \/ (status.phase = "waiting_login" /\ ~armed)

\* capture_in_progress: a login was claimed and its result is not published.
CaptureInProgress ==
    \/ status.phase \in {"code_captured", "syncing"}
    \/ status.phase = "waiting_login" /\ ~armed

\* try_send on the bounded channel drops the event when the channel is full.
TrySend(queue, event) == IF Len(queue) < ChanCap THEN Append(queue, event) ELSE queue

Intercepted(c) == [type |-> "Intercepted", code |-> c]
Captured(c)    == [type |-> "Captured", code |-> c]

\* friend_proxy::relay_target_websocket: open_target_websocket, then relay_websocket.
InRelay == {"opening", "relay"}

Idle(p) == stopper[p].pc = "idle"

\* The stop button keeps stopPending set while stop_capture runs.
StopPending == "stop" \in Buttons /\ ~Idle("stop")

\* A caller of stop_transport holds transport_stop in these states.
HoldsStopLock(p) == stopper[p].pc \in {"tasks", "recover"}

-----------------------------------------------------------------------------
(* The starter: sync_account(ident), or start_capture with no account.     *)

\* arm_account found no session; begin_start sets the starting flag and
\* prepare_proxy_listener publishes preparing_proxy.  The window offers
\* start_capture only while it shows no session.  sync_account first awaits an
\* identity detection and cleanup_network does not set stopPending, so a start
\* can also arrive between a stop's take and its publication (Overlap).
Begin(ident) ==
    /\ starter.pc = "idle" /\ ~live
    /\ captureRef => handler.pc = "none"
    /\ sessions < MaxSessions
    /\ ident = NoAccount => ~status.active /\ ~StopPending
    /\ Overlap \/ \A p \in Stoppers : Idle(p)
    /\ starter' = [pc |-> "prepare", ident |-> ident]
    /\ captureRef' = FALSE
    /\ userChoice' = ident
    /\ Publish("preparing_proxy", FALSE)
    /\ UNCHANGED <<stopper, live, sessions, identityRef, idVars, lastCode, proxyVars,
                   handler, monitor>>

StarterGoes(pc) ==
    /\ starter' = [starter EXCEPT !.pc = pc]
    /\ UNCHANGED <<live, sessions, idVars, lastCode, userChoice>>

\* The certificate or the port was refused: record_failure, starting := false.
PrepareFails ==
    /\ starter.pc = "prepare"
    /\ StarterGoes("idle")
    /\ Publish("error", FALSE)
    /\ UNCHANGED <<stopper, captureRef, identityRef, proxyVars, handler, monitor>>

\* The listener is bound, proxy::run spawned and the transport stored.  The port
\* is free only once the previous listener is gone and the stopper that took it
\* has joined its tasks.
StoreTransport ==
    /\ starter.pc = "prepare"
    /\ ~proxyUp /\ \A p \in Stoppers : stopper[p].pc # "tasks"
    /\ starter' = [starter EXCEPT !.pc = "stored"]
    /\ sessions' = sessions + 1
    /\ live' = TRUE /\ proxyUp' = TRUE
    /\ identityRef' = FALSE
    /\ armed' = (starter.ident # NoAccount)
    /\ chan' = <<>>
    /\ selected' = starter.ident /\ locked' = starter.ident
    /\ captureTarget' = NoAccount
    /\ lastCode' = NoCode
    /\ UNCHANGED <<stopper, captureRef, status, conn, handler, monitor, userChoice>>

EnableProxySucceeds ==
    /\ starter.pc = "stored"
    /\ StarterGoes("enabled")
    /\ UNCHANGED <<stopper, captureRef, identityRef, status, proxyVars, handler, monitor>>

\* enable_system_proxy failed: the starter itself calls stop_transport.
EnableProxyFails ==
    /\ starter.pc = "stored" /\ Idle("starter")
    /\ StarterGoes("failing")
    /\ stopper' = [stopper EXCEPT !["starter"].pc = "queued"]
    /\ UNCHANGED <<captureRef, identityRef, status, proxyVars, handler, monitor>>

\* Mutant: the error path returns without resetting the starting flag.
StartFailsStillStarting ==
    /\ starter.pc = "failing" /\ Idle("starter")
    /\ StarterGoes("failing")
    /\ chan' = <<>>
    /\ Publish("error", FALSE)
    /\ UNCHANGED <<stopper, captureRef, identityRef, proxyUp, armed, conn, handler, monitor>>

\* After its stop_transport: the receiver is dropped, record_failure publishes.
StartFails ==
    /\ starter.pc = "failing" /\ Idle("starter")
    /\ StarterGoes("idle")
    /\ chan' = <<>>
    /\ Publish("error", FALSE)
    /\ UNCHANGED <<stopper, captureRef, identityRef, proxyUp, armed, conn, handler, monitor>>

PublishStarted ==
    /\ starter.pc = "enabled"
    /\ StarterGoes("published")
    /\ Publish(IF starter.ident = NoAccount THEN "ready" ELSE "waiting_login", FALSE)
    /\ UNCHANGED <<stopper, captureRef, identityRef, proxyVars, handler, monitor>>

\* start_identity_monitor spawns the task and only then stores its handle: a stop
\* in between finds no handle to abort.
SpawnMonitor ==
    /\ starter.pc = "published"
    /\ StarterGoes("monitor_spawned")
    /\ monitor' = [monitor EXCEPT ![sessions].pc = "wait"]
    /\ UNCHANGED <<stopper, captureRef, identityRef, status, proxyVars, handler>>

StoreMonitor ==
    /\ starter.pc = "monitor_spawned"
    /\ StarterGoes("monitored")
    /\ identityRef' = TRUE
    /\ UNCHANGED <<stopper, captureRef, status, proxyVars, handler, monitor>>

\* spawn_capture_handler spawns and stores under one lock; starting := false.
SpawnHandler ==
    /\ starter.pc = "monitored"
    /\ StarterGoes("idle")
    /\ captureRef' = TRUE
    /\ handler' = [NoLogin EXCEPT !.pc = "recv"]
    /\ UNCHANGED <<stopper, identityRef, status, proxyVars, monitor>>

-----------------------------------------------------------------------------
(* The account the user works on                                            *)

\* arm_account with a running proxy.  The window accepts no second command of
\* this kind while a start or a switch is pending.
Arm(a) ==
    /\ starter.pc = "idle" /\ live
    /\ ~CaptureInProgress
    /\ selected' = a /\ locked' = a
    /\ captureTarget' = NoAccount
    /\ lastCode' = NoCode
    /\ armed' = TRUE
    /\ userChoice' = a
    /\ status' = Emit("waiting_login", FALSE, a, NoAccount)
    /\ UNCHANGED <<starter, stopper, lifeVars, proxyUp, conn, chan, handler, monitor>>

CancelEffect ==
    /\ armed' = FALSE
    /\ locked' = NoAccount
    /\ UNCHANGED <<starter, stopper, lifeVars, selected, captureTarget, lastCode,
                   proxyUp, conn, chan, handler, monitor, userChoice>>

\* Mutants: the flag is cleared without looking at what it was; the arming is
\* withdrawn and the window left waiting for a login.
CancelWithoutSwap ==
    status.phase = "waiting_login" /\ live /\ CancelEffect /\ Publish("ready", FALSE)
CancelWithoutPublication ==
    status.phase = "waiting_login" /\ live /\ armed /\ CancelEffect /\ UNCHANGED status

\* cancel_account_sync: withdraws the arming unless a login was claimed first.
CancelAccountSync ==
    /\ status.phase = "waiting_login" /\ live /\ armed
    /\ CancelEffect
    /\ Publish("ready", FALSE)

-----------------------------------------------------------------------------
(* Stopping: stop_capture, cleanup_network and the failing starter          *)

Press(p) ==
    /\ stopper' = [stopper EXCEPT ![p].pc = "queued"]
    /\ UNCHANGED <<starter, lifeVars, idVars, viewVars, proxyVars, handler, monitor, userChoice>>

\* The stop button is enabled while the window shows a session that is past
\* preparing_proxy; the cleanup button unless a start or a stop is pending.
PressStop ==
    /\ "stop" \in Buttons /\ Idle("stop")
    /\ status.active /\ status.phase # "preparing_proxy"
    /\ Press("stop")

PressCleanup ==
    /\ "cleanup" \in Buttons /\ Idle("cleanup") /\ ~StopPending
    /\ starter.pc = "idle" /\ status.phase # "preparing_proxy"
    /\ Press("cleanup")

\* stop_transport, under transport_stop: take the handles, cancel the token.
StopTake(p) ==
    /\ stopper[p].pc = "queued"
    /\ \A q \in Stoppers : ~HoldsStopLock(q)
    /\ stopper' = [stopper EXCEPT ![p] = [pc |-> "tasks", sess |-> live,
                                          mon |-> identityRef, cap |-> captureRef]]
    /\ live' = FALSE /\ captureRef' = FALSE /\ identityRef' = FALSE
    /\ captureTarget' = NoAccount
    /\ UNCHANGED <<starter, sessions, selected, locked, viewVars, proxyVars,
                   handler, monitor, userChoice>>

\* Abort and join the taken tasks; proxy::run ends with all its connections.
StopTasks(p) ==
    /\ stopper[p].pc = "tasks"
    /\ stopper' = [stopper EXCEPT ![p].pc = "recover"]
    /\ monitor' = IF stopper[p].mon THEN [monitor EXCEPT ![sessions] = NoMonitor] ELSE monitor
    /\ handler' = IF stopper[p].cap THEN NoLogin ELSE handler
    /\ chan' = IF stopper[p].cap THEN <<>> ELSE chan
    /\ proxyUp' = (proxyUp /\ ~stopper[p].sess)
    /\ conn' = IF stopper[p].sess
               THEN [c \in Conns |-> IF conn[c].pc = "unused" THEN conn[c]
                                     ELSE [conn[c] EXCEPT !.pc = "gone"]]
               ELSE conn
    /\ UNCHANGED <<starter, lifeVars, idVars, viewVars, armed, userChoice>>

\* recover_network ended: the user commands go on only if it ended well
\* (stop_transport()? leaves them before anything is published), the starter
\* ignores the result.
RecoverNetwork(p, ok) ==
    /\ stopper[p].pc = "recover"
    /\ stopper' = [stopper EXCEPT ![p] = IF ok /\ p # "starter"
                                         THEN [NoStop EXCEPT !.pc = "clear"] ELSE NoStop]
    /\ UNCHANGED <<starter, lifeVars, idVars, viewVars, proxyVars, handler, monitor, userChoice>>

ClearIdentity(p) ==
    /\ stopper[p].pc = "clear"
    /\ stopper' = [stopper EXCEPT ![p].pc = "publish"]
    /\ locked' = NoAccount
    /\ UNCHANGED <<starter, lifeVars, selected, captureTarget, viewVars, proxyVars,
                   handler, monitor, userChoice>>

PublishStopped(p) ==
    /\ stopper[p].pc = "publish"
    /\ stopper' = [stopper EXCEPT ![p] = NoStop]
    /\ Publish(IF p = "cleanup" THEN "idle" ELSE "stopped", lastCode # NoCode)
    /\ UNCHANGED <<starter, lifeVars, idVars, lastCode, proxyVars, handler, monitor, userChoice>>

-----------------------------------------------------------------------------
(* Connections through the proxy (intercept_target)                         *)

ConnGoes(c, pc) ==
    /\ conn' = [conn EXCEPT ![c].pc = pc]
    /\ UNCHANGED <<starter, stopper, lifeVars, idVars, viewVars, proxyUp, armed, handler,
                   monitor, userChoice>>

\* CONNECT to the farm host while armed: the connection is intercepted.  While
\* disarmed it is tunnelled and touches no state.
Connect(c) ==
    /\ proxyUp /\ armed /\ conn[c].pc = "unused"
    /\ ConnGoes(c, "tls")
    /\ UNCHANGED chan

\* A handshake error or timeout or a request without a Code; or a login that finds
\* the arming already claimed, which is blocked or relayed without a report.
ConnectionFails(c) ==
    /\ conn[c].pc = "tls"
    /\ ConnGoes(c, "gone")
    /\ UNCHANGED chan

ClaimEffect(c) ==
    /\ conn[c].pc = "tls" /\ armed
    /\ conn' = [conn EXCEPT ![c].pc = IF CaptureFriends THEN "opening" ELSE "gone",
                            ![c].choice = userChoice]
    /\ chan' = LET sent == TrySend(chan, Intercepted(c))
               IN  IF CaptureFriends THEN sent ELSE TrySend(sent, Captured(c))
    /\ UNCHANGED <<starter, stopper, lifeVars, idVars, viewVars, proxyUp, handler,
                   monitor, userChoice>>

\* Mutant: load instead of swap, so the arming survives the claim.
ClaimWithoutDisarming(c) == ClaimEffect(c) /\ UNCHANGED armed

\* The login request: armed.swap(false) lets one connection claim it.  Without
\* friend capture the Code is reported at once.
ClaimLogin(c) == ClaimEffect(c) /\ armed' = FALSE

\* The gateway accepted the WebSocket: open_target_websocket returned both streams.
RelayOpens(c) ==
    /\ conn[c].pc = "opening"
    /\ ConnGoes(c, "relay")
    /\ UNCHANGED chan

\* Mutant: a relay that ends with an error reports nothing.
RelayEndsSilently(c) ==
    /\ conn[c].pc \in InRelay
    /\ ConnGoes(c, "gone")
    /\ chan' \in {chan, TrySend(chan, Captured(c))}

\* The friend relay of the claimed login ended, well or with an error, also one of
\* open_target_websocket: the Code is reported in every case.
RelayEnds(c) ==
    /\ conn[c].pc \in InRelay
    /\ ConnGoes(c, "gone")
    /\ chan' = TrySend(chan, Captured(c))

-----------------------------------------------------------------------------
(* The capture handler                                                      *)

HandlerOnly == UNCHANGED <<starter, stopper, lifeVars, selected, proxyUp, armed,
                           monitor, userChoice>>

\* Mutant: the row of the claimed login is not kept.
HandleInterceptedUntargeted ==
    /\ handler.pc = "recv" /\ chan # <<>> /\ Head(chan).type = "Intercepted"
    /\ chan' = Tail(chan)
    /\ Publish("code_captured", FALSE)
    /\ HandlerOnly /\ UNCHANGED <<locked, captureTarget, lastCode, conn, handler>>

HandleIntercepted ==
    /\ handler.pc = "recv" /\ chan # <<>> /\ Head(chan).type = "Intercepted"
    /\ chan' = Tail(chan)
    /\ captureTarget' = selected
    /\ status' = Emit("code_captured", FALSE, selected, selected)
    /\ HandlerOnly /\ UNCHANGED <<locked, lastCode, conn, handler>>

\* Mutant: the whole event is kept where its Code belongs.
HandleCapturedWhole ==
    /\ handler.pc = "recv" /\ chan # <<>> /\ Head(chan).type = "Captured"
    /\ chan' = Tail(chan)
    /\ handler' = [handler EXCEPT !.pc = "captured", !.code = Head(chan).code]
    /\ lastCode' = Head(chan)
    /\ Publish("code_captured", TRUE)
    /\ HandlerOnly /\ UNCHANGED <<locked, captureTarget, conn>>

\* handle_captured_login: set_code and the first publication.
HandleCaptured ==
    /\ handler.pc = "recv" /\ chan # <<>> /\ Head(chan).type = "Captured"
    /\ chan' = Tail(chan)
    /\ handler' = [handler EXCEPT !.pc = "captured", !.code = Head(chan).code]
    /\ lastCode' = Head(chan).code
    /\ Publish("code_captured", TRUE)
    /\ HandlerOnly /\ UNCHANGED <<locked, captureTarget, conn>>

\* revalidate_capture_identity reads the locked identity, detects with the lock
\* released, and writes what it found.
RevalidateRead ==
    /\ handler.pc = "captured"
    /\ handler' = IF locked = NoAccount
                  THEN [handler EXCEPT !.pc = "decide"]
                  ELSE [handler EXCEPT !.pc = "revalidating", !.acct = locked]
    /\ HandlerOnly /\ UNCHANGED <<locked, captureTarget, viewVars, conn, chan>>

RevalidateWrite(confirmed) ==
    /\ handler.pc = "revalidating"
    /\ locked' = IF confirmed THEN handler.acct ELSE NoAccount
    /\ handler' = [handler EXCEPT !.pc = "decide", !.acct = NoAccount]
    /\ HandlerOnly /\ UNCHANGED <<captureTarget, viewVars, conn, chan>>

\* The result of the login is published and the handler waits for the next event.
HandlerDone(phase, code) ==
    /\ handler' = [NoLogin EXCEPT !.pc = "recv"]
    /\ Publish(phase, code)
    /\ HandlerOnly /\ UNCHANGED <<locked, captureTarget, lastCode, chan>>

\* settings.load failed, or automatic synchronisation is off, or the identity
\* could not be confirmed.
FinishLocally ==
    /\ handler.pc = "decide"
    /\ \E phase \in {"error", "completed", "identity_changed"} :
          /\ phase = "completed" => ~AutoSyncs
          /\ phase = "identity_changed" => AutoSyncs /\ locked = NoAccount
          /\ HandlerDone(phase, TRUE)
    /\ UNCHANGED conn

\* Mutant: the Code is dropped as soon as the exchange begins.
StartSyncDroppingCode ==
    /\ handler.pc = "decide" /\ AutoSyncs /\ locked # NoAccount
    /\ handler' = [handler EXCEPT !.pc = "syncing", !.acct = locked]
    /\ lastCode' = NoCode
    /\ Publish("syncing", TRUE)
    /\ HandlerOnly /\ UNCHANGED <<locked, captureTarget, conn, chan>>

\* sync_captured_login keeps the account it read for the whole exchange.
StartSync ==
    /\ handler.pc = "decide" /\ AutoSyncs /\ locked # NoAccount
    /\ handler' = [handler EXCEPT !.pc = "syncing", !.acct = locked]
    /\ Publish("syncing", TRUE)
    /\ HandlerOnly /\ UNCHANGED <<locked, captureTarget, lastCode, conn, chan>>

Recorded == [conn EXCEPT ![handler.code].synced = handler.acct]

SyncSucceeds ==
    /\ handler.pc = "syncing"
    /\ conn' = Recorded
    /\ handler' = [handler EXCEPT !.pc = "synced"]
    /\ lastCode' = NoCode
    /\ HandlerOnly /\ UNCHANGED <<locked, captureTarget, status, chan>>

\* The server refused, or its answer was lost after it stored the Code.
SyncFails ==
    /\ handler.pc = "syncing"
    /\ conn' \in {conn, Recorded}
    /\ HandlerDone("error", TRUE)

\* sync_official_friend_gids publishes its own progress when it has friends.
SyncFriends ==
    /\ handler.pc = "synced" /\ SyncsFriends
    /\ handler' = [handler EXCEPT !.pc = "friends"]
    /\ Publish("syncing", FALSE)
    /\ HandlerOnly /\ UNCHANGED <<locked, captureTarget, lastCode, conn, chan>>

FinishSync ==
    /\ handler.pc \in {"synced", "friends"}
    /\ HandlerDone("completed", FALSE)
    /\ UNCHANGED conn

\* Every sender is gone: recv() returns None and the task ends.
HandlerEnds ==
    /\ handler.pc = "recv" /\ chan = <<>> /\ ~proxyUp
    /\ handler' = NoLogin
    /\ HandlerOnly /\ UNCHANGED <<locked, captureTarget, viewVars, conn, chan>>

-----------------------------------------------------------------------------
(* The identity monitor of session s                                        *)

MonitorGoes(s, pc, a) ==
    /\ monitor' = [monitor EXCEPT ![s] = [pc |-> pc, acct |-> a]]
    /\ UNCHANGED <<starter, stopper, lifeVars, captureTarget, lastCode, proxyVars,
                   handler, userChoice>>

\* A round starts unless the session's token is cancelled.
MonitorTick(s) ==
    /\ monitor[s].pc = "wait"
    /\ MonitorGoes(s, IF live /\ s = sessions THEN "detect" ELSE "none", NoAccount)
    /\ UNCHANGED <<selected, locked, status>>

\* choose_waiting_identity: the selected account if its window is there; with no
\* selection, the only account there is.
Chosen(windows) ==
    IF selected # NoAccount
    THEN IF selected \in windows THEN selected ELSE NoAccount
    ELSE IF Cardinality(windows) = 1 THEN CHOOSE a \in windows : TRUE ELSE NoAccount

\* adopt_waiting_identities: a detection found these windows (none, when it
\* failed); the selection is read under a lock of its own.
MonitorRead(s) ==
    /\ monitor[s].pc = "detect"
    /\ \E windows \in SUBSET Accounts :
          MonitorGoes(s, IF Chosen(windows) = NoAccount THEN "unconfirm" ELSE "adopt",
                      Chosen(windows))
    /\ UNCHANGED <<selected, locked, status>>

\* Mutant: the identity is replaced and the selection is not.
AdoptLockedOnly(s) ==
    /\ monitor[s].pc = "adopt"
    /\ locked' = IF status.phase = "waiting_login" THEN monitor[s].acct ELSE locked
    /\ MonitorGoes(s, "wait", NoAccount)
    /\ UNCHANGED <<selected, status>>

\* adopt_waiting_identity, under the next lock.
AdoptIdentity(s) ==
    /\ monitor[s].pc = "adopt"
    /\ IF status.phase = "waiting_login"
       THEN /\ locked' = monitor[s].acct
            /\ selected' = monitor[s].acct
            /\ status' = IF locked # monitor[s].acct
                         THEN Emit("waiting_login", FALSE, monitor[s].acct, captureTarget)
                         ELSE status
       ELSE UNCHANGED <<locked, selected, status>>
    /\ MonitorGoes(s, "wait", NoAccount)

\* mark_waiting_identity_unconfirmed; the warning's text decides whether an
\* unchanged state is published again.
MarkUnconfirmed(s) ==
    /\ monitor[s].pc = "unconfirm"
    /\ IF status.phase = "waiting_login"
       THEN /\ locked' = NoAccount
            /\ \/ Publish("waiting_login", FALSE)
               \/ locked = NoAccount /\ UNCHANGED status
       ELSE UNCHANGED <<locked, status>>
    /\ MonitorGoes(s, "wait", NoAccount)
    /\ UNCHANGED selected

-----------------------------------------------------------------------------

StarterStep ==
    \/ PrepareFails \/ StoreTransport \/ EnableProxySucceeds \/ EnableProxyFails
    \/ StartFails \/ PublishStarted \/ SpawnMonitor \/ StoreMonitor \/ SpawnHandler

UserStep ==
    \/ \E ident \in Account : Begin(ident)
    \/ \E a \in Accounts : Arm(a)
    \/ CancelAccountSync \/ PressStop \/ PressCleanup

StopperStep(p) ==
    \/ StopTake(p) \/ StopTasks(p)
    \/ \E ok \in BOOLEAN : RecoverNetwork(p, ok)
    \/ ClearIdentity(p) \/ PublishStopped(p)

ConnectionStep(c) ==
    ConnectionFails(c) \/ ClaimLogin(c) \/ RelayOpens(c) \/ RelayEnds(c)

HandlerStep ==
    \/ HandleIntercepted \/ HandleCaptured \/ RevalidateRead
    \/ \E confirmed \in BOOLEAN : RevalidateWrite(confirmed)
    \/ FinishLocally \/ StartSync \/ SyncSucceeds \/ SyncFails \/ SyncFriends
    \/ FinishSync \/ HandlerEnds

MonitorStep(s) ==
    MonitorTick(s) \/ MonitorRead(s) \/ AdoptIdentity(s) \/ MarkUnconfirmed(s)

Next ==
    \/ StarterStep
    \/ UserStep
    \/ \E p \in Stoppers : StopperStep(p)
    \/ \E c \in Conns : Connect(c) \/ ConnectionStep(c)
    \/ HandlerStep
    \/ \E s \in Session : MonitorStep(s)

Spec == Init /\ [][Next]_vars

\* The runtime polls every task that can move, and the async mutex transport_stop
\* serves its waiters in order (strong fairness of the take).  A relay that was opened
\* ends by its own two timers (FriendRelay!RelayReturns).  Nothing obliges the user,
\* QQ or the gateway: a connection may stay in its TLS handshake, and a claimed login
\* in open_target_websocket, whose writes and copy_bidirectional have no time limit.
Fairness ==
    /\ WF_vars(StarterStep)
    /\ \A p \in Stoppers : WF_vars(StopperStep(p)) /\ SF_vars(StopTake(p))
    /\ \A c \in Conns : WF_vars(conn[c].pc = "relay" /\ RelayEnds(c))
    /\ WF_vars(HandlerStep)

FairSpec == Spec /\ Fairness

-----------------------------------------------------------------------------
(* Properties                                                               *)

\* A claimed login is unresolved from the claim to the publication of its result.
Unresolved(c) ==
    \/ conn[c].pc \in InRelay
    \/ \E i \in 1 .. Len(chan) : chan[i].code = c
    \/ handler.code = c

\* The handler works on a login.
HandlerBusy == handler.pc \notin {"none", "recv"}

\* The identity that a sync would use is the selected account: the writers of
\* locked_identity (arm_account, the monitor, the revalidation after its
\* detection) all agree with selected_qq_number.
LockedIsSelected == locked # NoAccount => locked = selected

\* While the handler works on a login of a live session, the account that will
\* receive the Code is the row the window shows as working (emit_status takes
\* the target from capture_target).
SyncsTheShownRow ==
    HandlerBusy /\ live => /\ status.target = captureTarget
                           /\ handler.acct \in {NoAccount, captureTarget}

\* arm_account refuses a switch ("a login is being processed") only when one is:
\* a claimed login exists whose result will release it.
RefusalHasCause == live /\ CaptureInProgress => \E c \in Conns : Unresolved(c)

\* A window that shows a ready proxy tells the truth: nothing is armed and no
\* login is in flight (a cancel that came after a claim was refused).
ReadyMeansDisarmed ==
    status.phase = "ready" /\ live /\ starter.pc = "idle"
        => ~armed /\ \A c \in Conns : ~Unresolved(c)

\* The results of try_send are ignored, so the channel must have room whenever a
\* login has something left to report.
NoEventIsDropped ==
    \A c \in Conns : /\ conn[c].pc \in InRelay => Len(chan) < ChanCap
                     /\ conn[c].pc = "tls" /\ armed => Len(chan) + 2 <= ChanCap

\* A Code that the window of a live session offers to copy is there for
\* get_captured_code, except between a successful sync and its publication.
OfferedCodeIsThere == live /\ status.code => lastCode # NoCode \/ handler.pc = "synced"

\* The session seen as the exchange of LoginExchange: an arming counts while the
\* proxy that reads it is up.
Claimed == {c \in Conns : conn[c].choice # NoAccount}
InFlight == {c \in Conns : Unresolved(c)}

Exchange == INSTANCE LoginExchange
    WITH Logins <- Conns, armed <- armed /\ proxyUp, inFlight <- InFlight,
         resolved <- Claimed \ InFlight

\* The comment on capture_in_progress, and more: while a claimed login has no result
\* nothing is armed and no account can be switched to; each arming is taken by one
\* login, and each login has one result (the swap, the channel, the handler and the
\* stop together implement the exchange).
ImplementsExchange == Exchange!Spec

\* README: a Code is recorded to the account the user had chosen when the login
\* was claimed.
RecordedToTheChosen ==
    \A c \in Conns : conn[c].synced # NoAccount => conn[c].synced = conn[c].choice

\* QQ and the gateway take what is written to them, and end a connection whose upgrade
\* was refused: no claimed login stays in open_target_websocket for ever.
PeersLetGo == \A c \in Conns : []<>(conn[c].pc # "opening")

\* If QQ and the gateway let go of every login they do not upgrade, a login that was
\* claimed is resolved or its session ends: neither the relay, the channel, the handler
\* nor a stop locks the user out of switching accounts for ever.  Without the
\* hypothesis the code does not promise it: copy_bidirectional and the writes of the
\* handshake (friend_proxy.rs) are not timed, and only a stop ends such a login.
ClaimsAreResolved == PeersLetGo => []<>~(live /\ CaptureInProgress)

\* A start ends, one way or the other.
StartsEnd == []<>(starter.pc = "idle")

=============================================================================
