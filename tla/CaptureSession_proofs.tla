------------------------ MODULE CaptureSession_proofs -----------------------
(***************************************************************************)
(* Proofs about CaptureSession, for every number of accounts, connections, *)
(* sessions and every capacity of the event channel.                       *)
(***************************************************************************)
EXTENDS CaptureSession, FiniteSetTheorems, SequenceTheorems, TLAPS

USE DEF InRelay

\* The bound on sessions is respected: a start in preparation has a number left.
SessionLeft == starter.pc = "prepare" => sessions < MaxSessions

Typed == TypeOK /\ SessionLeft

LEMMA NoEvents == <<>> \in Seq(Event)
OBVIOUS

LEMMA InitTyped == Init => Typed
<1> SUFFICES ASSUME Init PROVE Typed
  OBVIOUS
<1>1. NoStop \in Stopper /\ NoLogin \in Handler /\ NoMonitor \in Monitor
  BY DEF NoStop, Stopper, NoLogin, Handler, NoMonitor, Monitor, Account
<1>2. conn \in [Conns -> Conn]
  BY DEF Init, Conn, Account
<1>3. starter \in Starter /\ status \in Status
  BY DEF Init, Starter, Status, Account, Phases
<1>4. sessions \in 0 .. MaxSessions /\ SessionLeft
  BY ConstantsOK DEF Init, SessionLeft
<1>5. stopper \in [Stoppers -> Stopper] /\ monitor \in [Session -> Monitor]
  BY <1>1 DEF Init
<1>6. chan \in Seq(Event)
  BY NoEvents DEF Init
<1>7. QED
  BY <1>1, <1>2, <1>3, <1>4, <1>5, <1>6 DEF Typed, TypeOK, Init, Account

\* A status built by emit_status has the type of a status.
LEMMA EmitType ==
    ASSUME TypeOK, NEW phase \in Phases, NEW code \in BOOLEAN,
           NEW sel \in Account, NEW tgt \in Account
    PROVE  Emit(phase, code, sel, tgt) \in Status
BY DEF Emit, TypeOK, Account, Status

LEMMA PublishType ==
    ASSUME TypeOK, NEW phase \in Phases, NEW code \in BOOLEAN, Publish(phase, code)
    PROVE  status' \in Status
BY EmitType DEF Publish, TypeOK

LEMMA TrySendType ==
    ASSUME NEW queue \in Seq(Event), NEW event \in Event
    PROVE  TrySend(queue, event) \in Seq(Event)
BY DEF TrySend

LEMMA EventType ==
    ASSUME NEW c \in Conns
    PROVE  Intercepted(c) \in Event /\ Captured(c) \in Event
BY DEF Intercepted, Captured, Event

LEMMA StarterTyped == Typed /\ StarterStep => Typed'
<1> SUFFICES ASSUME Typed, StarterStep PROVE Typed'
  OBVIOUS
<1> USE DEF Typed, TypeOK, SessionLeft
<1> DEFINE Rest == <<live, sessions, idVars, lastCode, userChoice>>
<1>0. ASSUME NEW pc \in {"idle", "stored", "enabled", "published", "monitor_spawned",
                         "monitored", "failing"}, StarterGoes(pc)
      PROVE  /\ starter' \in Starter /\ starter'.pc # "prepare"
             /\ UNCHANGED Rest
  BY <1>0 DEF StarterGoes, Starter
<1>1. CASE PrepareFails
  <2>1. status' \in Status
    BY <1>1, PublishType DEF PrepareFails, Phases
  <2>2. QED BY <1>1, <2>1, <1>0 DEF PrepareFails, proxyVars, idVars
<1>2. CASE StoreTransport
  <2>1. sessions' \in 0 .. MaxSessions
    BY <1>2, ConstantsOK DEF StoreTransport
  <2>2. starter' \in Starter /\ starter'.pc = "stored" /\ starter.ident \in Account
    BY <1>2 DEF StoreTransport, Starter
  <2>3. chan' \in Seq(Event)
    BY <1>2, NoEvents DEF StoreTransport
  <2>4. QED BY <1>2, <2>1, <2>2, <2>3 DEF StoreTransport, Account
<1>3. CASE EnableProxySucceeds
  BY <1>3, <1>0 DEF EnableProxySucceeds, proxyVars, idVars
<1>4. CASE EnableProxyFails
  <2>1. stopper' \in [Stoppers -> Stopper]
    BY <1>4 DEF EnableProxyFails, Stopper, Stoppers
  <2>2. QED BY <1>4, <1>0, <2>1 DEF EnableProxyFails, proxyVars, idVars
<1>5. CASE StartFails
  <2>1. status' \in Status
    BY <1>5, PublishType DEF StartFails, Phases
  <2>2. QED BY <1>5, <2>1, <1>0, NoEvents DEF StartFails, idVars
<1>6. CASE PublishStarted
  <2>1. status' \in Status
    BY <1>6, PublishType DEF PublishStarted, Phases
  <2>2. QED BY <1>6, <2>1, <1>0 DEF PublishStarted, proxyVars, idVars
<1>7. CASE SpawnMonitor
  <2>1. monitor' \in [Session -> Monitor]
    BY <1>7 DEF SpawnMonitor, Monitor
  <2>2. QED BY <1>7, <1>0, <2>1 DEF SpawnMonitor, proxyVars, idVars
<1>8. CASE StoreMonitor
  BY <1>8, <1>0 DEF StoreMonitor, proxyVars, idVars
<1>9. CASE SpawnHandler
  <2>1. handler' \in Handler
    BY <1>9 DEF SpawnHandler, NoLogin, Handler, Account
  <2>2. QED BY <1>9, <1>0, <2>1 DEF SpawnHandler, proxyVars, idVars
<1>10. QED
  BY <1>1, <1>2, <1>3, <1>4, <1>5, <1>6, <1>7, <1>8, <1>9 DEF StarterStep

LEMMA UserTyped == Typed /\ UserStep => Typed'
<1> SUFFICES ASSUME Typed, UserStep PROVE Typed'
  OBVIOUS
<1> USE DEF Typed, TypeOK, SessionLeft
<1>1. ASSUME NEW ident \in Account, Begin(ident) PROVE Typed'
  <2>1. status' \in Status
    BY <1>1, PublishType DEF Begin, Phases
  <2>2. starter' \in Starter /\ sessions < MaxSessions /\ sessions' = sessions
    BY <1>1 DEF Begin, Starter
  <2>3. QED BY <1>1, <2>1, <2>2 DEF Begin, proxyVars, idVars
<1>2. ASSUME NEW a \in Accounts, Arm(a) PROVE Typed'
  <2>1. a \in Account /\ NoAccount \in Account
    BY DEF Account
  <2>2. status' \in Status
    BY <1>2, <2>1, EmitType DEF Arm, Phases
  <2>3. QED BY <1>2, <2>1, <2>2 DEF Arm, lifeVars
<1>3. CASE CancelAccountSync
  <2>1. status' \in Status
    BY <1>3, PublishType DEF CancelAccountSync, Phases
  <2>2. QED BY <1>3, <2>1 DEF CancelAccountSync, CancelEffect, lifeVars, Account
<1>4. ASSUME NEW p \in Stoppers, Press(p) PROVE Typed'
  <2>1. stopper' \in [Stoppers -> Stopper]
    BY <1>4 DEF Press, Stopper
  <2>2. QED BY <1>4, <2>1 DEF Press, lifeVars, idVars, viewVars, proxyVars
<1>5. QED
  BY <1>1, <1>2, <1>3, <1>4 DEF UserStep, PressStop, PressCleanup, Stoppers

LEMMA StopperTyped == ASSUME NEW p \in Stoppers PROVE Typed /\ StopperStep(p) => Typed'
<1> SUFFICES ASSUME Typed, StopperStep(p) PROVE Typed'
  OBVIOUS
<1> USE DEF Typed, TypeOK, SessionLeft
<1>0. NoStop \in Stopper /\ NoLogin \in Handler /\ NoMonitor \in Monitor
  BY DEF NoStop, Stopper, NoLogin, Handler, NoMonitor, Monitor, Account
<1>1. CASE StopTake(p)
  <2>1. stopper' \in [Stoppers -> Stopper]
    BY <1>1 DEF StopTake, Stopper
  <2>2. QED BY <1>1, <2>1 DEF StopTake, viewVars, proxyVars, Account
<1>2. CASE StopTasks(p)
  <2>1. stopper' \in [Stoppers -> Stopper]
    BY <1>2 DEF StopTasks, Stopper
  <2>2. monitor' \in [Session -> Monitor] /\ handler' \in Handler
    BY <1>2, <1>0 DEF StopTasks
  <2>3. chan' \in Seq(Event)
    BY <1>2, NoEvents DEF StopTasks
  <2>4. conn' \in [Conns -> Conn]
    BY <1>2 DEF StopTasks, Conn
  <2>5. proxyUp' \in BOOLEAN
    BY <1>2 DEF StopTasks
  <2>6. QED BY <1>2, <2>1, <2>2, <2>3, <2>4, <2>5 DEF StopTasks, lifeVars, idVars, viewVars
<1>3. ASSUME NEW ok \in BOOLEAN, RecoverNetwork(p, ok) PROVE Typed'
  <2>1. [NoStop EXCEPT !.pc = "clear"] \in Stopper
    BY DEF NoStop, Stopper
  <2>2. stopper' \in [Stoppers -> Stopper]
    BY <1>3, <1>0, <2>1 DEF RecoverNetwork
  <2>3. QED BY <1>3, <2>2 DEF RecoverNetwork, lifeVars, idVars, viewVars, proxyVars
<1>4. CASE ClearIdentity(p)
  <2>1. stopper' \in [Stoppers -> Stopper]
    BY <1>4 DEF ClearIdentity, Stopper
  <2>2. QED BY <1>4, <2>1 DEF ClearIdentity, lifeVars, viewVars, proxyVars, Account
<1>5. CASE PublishStopped(p)
  <2>1. stopper' \in [Stoppers -> Stopper]
    BY <1>5, <1>0 DEF PublishStopped
  <2>2. status' \in Status
    BY <1>5, PublishType DEF PublishStopped, Phases
  <2>3. QED BY <1>5, <2>1, <2>2 DEF PublishStopped, lifeVars, idVars, proxyVars
<1>6. QED
  BY <1>1, <1>2, <1>3, <1>4, <1>5 DEF StopperStep

LEMMA ConnTyped ==
    ASSUME NEW c \in Conns PROVE Typed /\ (Connect(c) \/ ConnectionStep(c)) => Typed'
<1> SUFFICES ASSUME Typed, Connect(c) \/ ConnectionStep(c) PROVE Typed'
  OBVIOUS
<1> USE DEF Typed, TypeOK, SessionLeft
<1>1. ASSUME NEW pc \in {"unused", "tls", "opening", "relay", "gone"}, ConnGoes(c, pc),
             chan' \in Seq(Event)
      PROVE  Typed'
  <2>1. conn' \in [Conns -> Conn]
    BY <1>1 DEF ConnGoes, Conn
  <2>2. QED BY <1>1, <2>1 DEF ConnGoes, lifeVars, idVars, viewVars
<1>2. CASE Connect(c)
  BY <1>1, <1>2 DEF Connect
<1>3. CASE ConnectionFails(c)
  BY <1>1, <1>3 DEF ConnectionFails
<1>4. CASE RelayEnds(c)
  BY <1>1, <1>4, TrySendType, EventType DEF RelayEnds
<1>7. CASE RelayOpens(c)
  BY <1>1, <1>7 DEF RelayOpens
<1>5. CASE ClaimLogin(c)
  <2>1. conn' \in [Conns -> Conn]
    BY <1>5 DEF ClaimLogin, ClaimEffect, Conn
  <2>2. chan' \in Seq(Event)
    BY <1>5, TrySendType, EventType DEF ClaimLogin, ClaimEffect
  <2>3. QED BY <1>5, <2>1, <2>2 DEF ClaimLogin, ClaimEffect, lifeVars, idVars, viewVars
<1>6. QED
  BY <1>2, <1>3, <1>4, <1>5, <1>7 DEF ConnectionStep

LEMMA HandlerTyped == Typed /\ HandlerStep => Typed'
<1> SUFFICES ASSUME Typed, HandlerStep PROVE Typed'
  OBVIOUS
<1> USE DEF Typed, TypeOK, SessionLeft, HandlerOnly, lifeVars, viewVars
<1>0. NoLogin \in Handler /\ [NoLogin EXCEPT !.pc = "recv"] \in Handler
  BY DEF NoLogin, Handler, Account
<1>1. CASE HandleIntercepted
  <2>1. status' \in Status
    BY <1>1, EmitType DEF HandleIntercepted, Phases
  <2>2. chan' \in Seq(Event)
    BY <1>1 DEF HandleIntercepted
  <2>3. QED BY <1>1, <2>1, <2>2 DEF HandleIntercepted
<1>2. CASE HandleCaptured
  <2>1. status' \in Status
    BY <1>2, PublishType DEF HandleCaptured, Phases
  <2>2. chan' \in Seq(Event) /\ Head(chan) \in Event
    BY <1>2 DEF HandleCaptured
  <2>3. handler' \in Handler
    BY <1>2, <2>2 DEF HandleCaptured, Handler, Event
  <2>4. Head(chan).code \in Conns
    BY <2>2 DEF Event
  <2>5. QED BY <1>2, <2>1, <2>2, <2>3, <2>4 DEF HandleCaptured
<1>3. CASE RevalidateRead
  <2>1. handler' \in Handler
    BY <1>3 DEF RevalidateRead, Handler
  <2>2. QED BY <1>3, <2>1 DEF RevalidateRead
<1>4. ASSUME NEW confirmed \in BOOLEAN, RevalidateWrite(confirmed) PROVE Typed'
  <2>1. handler' \in Handler /\ locked' \in Account
    BY <1>4 DEF RevalidateWrite, Handler, Account
  <2>2. QED BY <1>4, <2>1 DEF RevalidateWrite
<1>5. ASSUME NEW phase \in Phases, NEW code \in BOOLEAN, HandlerDone(phase, code),
             conn' \in [Conns -> Conn]
      PROVE  Typed'
  <2>1. status' \in Status
    BY <1>5, PublishType DEF HandlerDone
  <2>2. QED BY <1>5, <1>0, <2>1 DEF HandlerDone
<1>6. CASE FinishLocally
  BY <1>6, <1>5 DEF FinishLocally, Phases
<1>7. CASE StartSync
  <2>1. status' \in Status
    BY <1>7, PublishType DEF StartSync, Phases
  <2>2. handler' \in Handler
    BY <1>7 DEF StartSync, Handler
  <2>3. QED BY <1>7, <2>1, <2>2 DEF StartSync
<1>8. Recorded \in [Conns -> Conn]
  <2>1. handler.acct \in Account
    BY DEF Handler
  <2>2. \A c \in Conns : [conn[c] EXCEPT !.synced = handler.acct] \in Conn
    BY <2>1 DEF Conn
  <2>3. QED BY <2>2 DEF Recorded
<1>9. CASE SyncSucceeds
  <2>1. handler' \in Handler
    BY <1>9 DEF SyncSucceeds, Handler
  <2>2. QED BY <1>9, <1>8, <2>1 DEF SyncSucceeds
<1>10. CASE SyncFails
  BY <1>10, <1>5, <1>8 DEF SyncFails, Phases
<1>11. CASE SyncFriends
  <2>1. status' \in Status
    BY <1>11, PublishType DEF SyncFriends, Phases
  <2>2. handler' \in Handler
    BY <1>11 DEF SyncFriends, Handler
  <2>3. QED BY <1>11, <2>1, <2>2 DEF SyncFriends
<1>12. CASE FinishSync
  BY <1>12, <1>5 DEF FinishSync, Phases
<1>13. CASE HandlerEnds
  BY <1>13, <1>0 DEF HandlerEnds
<1>14. QED
  BY <1>1, <1>2, <1>3, <1>4, <1>6, <1>7, <1>9, <1>10, <1>11, <1>12, <1>13 DEF HandlerStep

LEMMA ChosenType == ASSUME TypeOK, NEW windows \in SUBSET Accounts PROVE Chosen(windows) \in Account
<1>1. CASE Cardinality(windows) = 1 /\ windows # {}
  BY <1>1 DEF Chosen, Account, TypeOK
<1>2. CASE Cardinality(windows) # 1
  BY <1>2 DEF Chosen, Account, TypeOK
<1>3. QED
  BY <1>1, <1>2, FS_EmptySet

LEMMA MonitorTyped == ASSUME NEW s \in Session PROVE Typed /\ MonitorStep(s) => Typed'
<1> SUFFICES ASSUME Typed, MonitorStep(s) PROVE Typed'
  OBVIOUS
<1> USE DEF Typed, TypeOK, SessionLeft
<1>1. ASSUME NEW pc \in {"none", "wait", "detect", "adopt", "unconfirm"},
             NEW a \in Account, MonitorGoes(s, pc, a),
             selected' \in Account, locked' \in Account, status' \in Status
      PROVE  Typed'
  <2>1. monitor' \in [Session -> Monitor]
    BY <1>1 DEF MonitorGoes, Monitor
  <2>2. QED BY <1>1, <2>1 DEF MonitorGoes, lifeVars, proxyVars
<1>2. NoAccount \in Account
  BY DEF Account
<1>3. CASE MonitorTick(s)
  BY <1>1, <1>2, <1>3 DEF MonitorTick
<1>4. CASE MonitorRead(s)
  BY <1>1, <1>4, ChosenType DEF MonitorRead
<1>5. monitor[s].acct \in Account
  BY DEF Monitor
<1>6. CASE AdoptIdentity(s)
  <2>1. status' \in Status
    BY <1>5, <1>6, EmitType DEF AdoptIdentity, Phases
  <2>2. QED BY <1>1, <1>2, <1>5, <1>6, <2>1 DEF AdoptIdentity
<1>7. CASE MarkUnconfirmed(s)
  <2>1. status' \in Status
    BY <1>7, PublishType DEF MarkUnconfirmed, Phases
  <2>2. QED BY <1>1, <1>2, <1>7, <2>1 DEF MarkUnconfirmed
<1>8. QED
  BY <1>3, <1>4, <1>6, <1>7 DEF MonitorStep

LEMMA NextTyped == Typed /\ [Next]_vars => Typed'
<1> SUFFICES ASSUME Typed, [Next]_vars PROVE Typed'
  OBVIOUS
<1>1. CASE UNCHANGED vars
  BY <1>1 DEF Typed, TypeOK, SessionLeft, vars, lifeVars, idVars, viewVars, proxyVars
<1>2. CASE Next
  BY <1>2, StarterTyped, UserTyped, StopperTyped, ConnTyped, HandlerTyped, MonitorTyped
  DEF Next
<1>3. QED
  BY <1>1, <1>2

\* Every reachable state is well typed, whatever the constants.
THEOREM TypeCorrect == Spec => []TypeOK
<1>1. Typed => TypeOK
  BY DEF Typed
<1>2. QED
  BY <1>1, InitTyped, NextTyped, PTL DEF Spec

-----------------------------------------------------------------------------
(***************************************************************************)
(* The account that a sync uses.                                           *)
(*                                                                         *)
(* LockedIsSelected is not inductive: the revalidation writes back an      *)
(* identity it read before its detection, so no one may change the         *)
(* selection in between.  arm_account and the monitor are kept out by the  *)
(* published phase, which must therefore stay in {code_captured, syncing}  *)
(* while the handler works (BusyPhase); that in turn needs that a start    *)
(* never runs beside the handler or beside a stop that is still to publish *)
(* (the other parts).  It is the last one that a start arriving during a   *)
(* stop breaks, so the result is for Overlap = FALSE.                      *)
(***************************************************************************)

\* The handler only lives between two starts ...
HandlerAfterStart == handler.pc # "none" => starter.pc = "idle"

\* ... and is known to begin_start, or to a stopper about to abort it.
HandlerIsReferenced ==
    handler.pc # "none" =>
        captureRef \/ \E p \in Stoppers : stopper[p].pc = "tasks" /\ stopper[p].cap

Starting == starter.pc \in {"prepare", "stored", "enabled", "failing"}

\* A start in progress has the window and the stop commands to itself.
StartIsAlone ==
    /\ Starting => status.phase = "preparing_proxy" /\ \A p \in Buttons : Idle(p)
    /\ Idle("starter") \/ starter.pc = "failing"
    /\ stopper["starter"].pc \notin {"clear", "publish"}

\* From the take of its handles to its end, a stop faces no live session.
StoppingIsDead ==
    \A p \in Stoppers : stopper[p].pc \in {"tasks", "recover", "clear", "publish"} => ~live

\* The phase under which the handler works.
BusyPhase ==
    HandlerBusy => /\ status.phase \in {"code_captured", "syncing", "stopped", "idle"}
                   /\ live => status.phase \in {"code_captured", "syncing"}

\* The identity being revalidated is still the selected one.
RevalidatesSelected == handler.pc = "revalidating" => handler.acct = selected

AccountInv ==
    /\ HandlerAfterStart /\ HandlerIsReferenced /\ StartIsAlone /\ StoppingIsDead
    /\ BusyPhase /\ RevalidatesSelected /\ LockedIsSelected

LEMMA PublishPhase ==
    ASSUME NEW phase, NEW code, Publish(phase, code) PROVE status'.phase = phase
BY DEF Publish, Emit

LEMMA AccountInit == Init => AccountInv
BY DEF Init, AccountInv, HandlerAfterStart, HandlerIsReferenced, StartIsAlone, Starting,
     StoppingIsDead, BusyPhase, HandlerBusy, RevalidatesSelected, LockedIsSelected,
     NoLogin, NoStop, Stoppers, Idle

LEMMA AccountStarter == Typed /\ AccountInv /\ StarterStep => AccountInv'
<1> SUFFICES ASSUME Typed, AccountInv, StarterStep PROVE AccountInv'
  OBVIOUS
<1> USE DEF AccountInv, HandlerAfterStart, HandlerIsReferenced, StartIsAlone, Starting,
            StoppingIsDead, RevalidatesSelected, LockedIsSelected, Idle
<1>0. starter' = [starter EXCEPT !.pc = starter'.pc] /\ starter \in Starter
  BY DEF StarterStep, PrepareFails, StoreTransport, EnableProxySucceeds, EnableProxyFails,
         StartFails, PublishStarted, SpawnMonitor, StoreMonitor, SpawnHandler, StarterGoes,
         Typed, TypeOK, Starter
<1>1. handler.pc = "none"
  BY DEF StarterStep, PrepareFails, StoreTransport, EnableProxySucceeds, EnableProxyFails,
         StartFails, PublishStarted, SpawnMonitor, StoreMonitor, SpawnHandler
<1>3. CASE PrepareFails
  BY <1>0, <1>1, <1>3 DEF PrepareFails, StarterGoes, Starter, idVars, BusyPhase, HandlerBusy
<1>4. CASE StoreTransport
  BY <1>0, <1>1, <1>4 DEF StoreTransport, Starter, BusyPhase, HandlerBusy, Stoppers
<1>5. CASE EnableProxySucceeds
  BY <1>0, <1>1, <1>5 DEF EnableProxySucceeds, StarterGoes, Starter, idVars, BusyPhase, HandlerBusy
<1>6. CASE EnableProxyFails
  <2>1. /\ starter'.pc = "failing" /\ handler' = handler /\ status' = status /\ live' = live
        /\ locked' = locked /\ selected' = selected
    BY <1>0, <1>6 DEF EnableProxyFails, StarterGoes, Starter, idVars
  <2>2. "starter" \notin Buttons /\ "starter" \in Stoppers
    BY ConstantsOK DEF Stoppers
  <2>3. /\ stopper'["starter"].pc = "queued"
        /\ \A p \in Stoppers : p # "starter" => stopper'[p] = stopper[p]
    BY <1>6, <2>2 DEF EnableProxyFails, Typed, TypeOK, Stopper
  <2>4. \A p \in Buttons : p \in Stoppers /\ p # "starter" /\ Idle(p)
    BY <1>6, <2>2 DEF EnableProxyFails, Stoppers
  <2>5. \A p \in Buttons : Idle(p)'
    BY <2>3, <2>4
  <2>6. status.phase = "preparing_proxy"
    BY <1>6 DEF EnableProxyFails
  <2>7. StartIsAlone'
    BY <2>1, <2>3, <2>5, <2>6
  <2>8. StoppingIsDead'
    BY <2>1, <2>3
  <2>9. QED BY <1>1, <2>1, <2>7, <2>8 DEF BusyPhase, HandlerBusy
<1>7. CASE StartFails
  BY <1>0, <1>1, <1>7 DEF StartFails, StarterGoes, Starter, idVars, BusyPhase, HandlerBusy
<1>8. CASE PublishStarted
  BY <1>0, <1>1, <1>8 DEF PublishStarted, StarterGoes, Starter, idVars, BusyPhase, HandlerBusy
<1>9. CASE SpawnMonitor
  BY <1>0, <1>1, <1>9 DEF SpawnMonitor, StarterGoes, Starter, idVars, BusyPhase, HandlerBusy
<1>10. CASE StoreMonitor
  BY <1>0, <1>1, <1>10 DEF StoreMonitor, StarterGoes, Starter, idVars, BusyPhase, HandlerBusy
<1>11. CASE SpawnHandler
  BY <1>0, <1>1, <1>11 DEF SpawnHandler, StarterGoes, Starter, idVars, BusyPhase, HandlerBusy, NoLogin
<1>12. QED
  BY <1>3, <1>4, <1>5, <1>6, <1>7, <1>8, <1>9, <1>10, <1>11 DEF StarterStep

LEMMA AccountUser == ~Overlap /\ Typed /\ AccountInv /\ UserStep => AccountInv'
<1> SUFFICES ASSUME ~Overlap, Typed, AccountInv, UserStep PROVE AccountInv'
  OBVIOUS
<1> USE DEF AccountInv, HandlerAfterStart, HandlerIsReferenced, StartIsAlone, Starting,
            StoppingIsDead, BusyPhase, HandlerBusy, RevalidatesSelected, LockedIsSelected, Idle
<1>1. ASSUME NEW ident \in Account, Begin(ident) PROVE AccountInv'
  <2>1. handler.pc = "none"
    BY <1>1 DEF Begin
  <2>2. status'.phase = "preparing_proxy"
    BY <1>1, PublishPhase DEF Begin
  <2>3. QED BY <1>1, <2>1, <2>2 DEF Begin, idVars, Stoppers
<1>2. ASSUME NEW a \in Accounts, Arm(a) PROVE AccountInv'
  <2>1. ~HandlerBusy
    BY <1>2 DEF Arm, CaptureInProgress
  <2>2. QED BY <1>2, <2>1 DEF Arm, lifeVars
<1>3. CASE CancelAccountSync
  <2>1. status.phase = "waiting_login" /\ status'.phase = "ready"
    BY <1>3, PublishPhase DEF CancelAccountSync
  <2>2. QED BY <1>3, <2>1 DEF CancelAccountSync, CancelEffect, lifeVars
<1>4. ASSUME NEW p \in Buttons, Press(p), Idle(p), ~Starting PROVE AccountInv'
  BY <1>4, ConstantsOK DEF Press, lifeVars, idVars, viewVars, Typed, TypeOK, Stopper, Stoppers
<1>5. CASE PressStop
  BY <1>4, <1>5 DEF PressStop
<1>6. CASE PressCleanup
  BY <1>4, <1>6 DEF PressCleanup
<1>7. QED
  BY <1>1, <1>2, <1>3, <1>5, <1>6 DEF UserStep

\* A stop: the take hands the handler over, the join ends it, and only a stop
\* that found or made the session dead publishes.
LEMMA AccountStopper ==
    ASSUME NEW p \in Stoppers PROVE Typed /\ AccountInv /\ StopperStep(p) => AccountInv'
<1> SUFFICES ASSUME Typed, AccountInv, StopperStep(p) PROVE AccountInv'
  OBVIOUS
<1> USE DEF AccountInv, HandlerAfterStart, HandlerIsReferenced, StartIsAlone, Starting,
            StoppingIsDead, RevalidatesSelected, LockedIsSelected, Idle
<1>1. stopper \in [Stoppers -> Stopper] /\ "starter" \in Stoppers /\ Buttons \subseteq Stoppers
  BY DEF Typed, TypeOK, Stoppers
<1>2. p \in Buttons \/ p = "starter"
  BY DEF Stoppers
<1>3. CASE StopTake(p)
  <2>1. /\ stopper'[p].pc = "tasks" /\ stopper'[p].cap = captureRef
        /\ \A q \in Stoppers : q # p => stopper'[q] = stopper[q]
    BY <1>1, <1>3 DEF StopTake
  <2>2. \A q \in Stoppers : stopper[q].pc # "tasks"
    BY <1>3 DEF StopTake, HoldsStopLock
  <2>3. HandlerIsReferenced'
    BY <1>3, <2>1, <2>2 DEF StopTake
  <2>4. StartIsAlone'
    <3>1. Starting /\ p \in Buttons => FALSE
      BY <1>3 DEF StopTake
    <3>2. \A q \in Buttons : Starting => stopper'[q] = stopper[q]
      BY <1>1, <2>1, <3>1
    <3>3. p = "starter" => starter.pc = "failing"
      BY <1>3 DEF StopTake
    <3>4. QED BY <1>1, <1>2, <1>3, <2>1, <3>2, <3>3 DEF StopTake, viewVars
  <2>5. StoppingIsDead'
    BY <1>3 DEF StopTake
  <2>6. BusyPhase'
    BY <1>3 DEF StopTake, BusyPhase, HandlerBusy, viewVars
  <2>7. QED BY <1>3, <2>3, <2>4, <2>5, <2>6 DEF StopTake
<1>4. CASE StopTasks(p)
  <2>1. /\ stopper'[p].pc = "recover"
        /\ \A q \in Stoppers : q # p => stopper'[q] = stopper[q]
    BY <1>1, <1>4 DEF StopTasks, Stopper
  <2>2. handler'.pc # "none" => handler' = handler /\ ~stopper[p].cap
    BY <1>4 DEF StopTasks, NoLogin
  <2>3. HandlerIsReferenced'
    BY <1>4, <2>1, <2>2 DEF StopTasks, lifeVars
  <2>4. StartIsAlone'
    <3>1. p = "starter" \/ ~Starting
      BY <1>2, <1>4 DEF StopTasks
    <3>2. \A q \in Buttons : Starting => stopper'[q] = stopper[q]
      BY <1>1, <1>4, <2>1, ConstantsOK, <3>1
    <3>3. p = "starter" => starter.pc = "failing"
      BY <1>4 DEF StopTasks
    <3>4. QED BY <1>1, <1>4, <2>1, <3>2, <3>3 DEF StopTasks, viewVars
  <2>5. StoppingIsDead'
    BY <1>4, <2>1 DEF StopTasks, lifeVars
  <2>6. BusyPhase'
    BY <1>4, <2>2 DEF StopTasks, BusyPhase, HandlerBusy, viewVars, lifeVars
  <2>7. QED BY <1>4, <2>2, <2>3, <2>4, <2>5, <2>6 DEF StopTasks, idVars, NoLogin
<1>5. ASSUME NEW ok \in BOOLEAN, RecoverNetwork(p, ok) PROVE AccountInv'
  <2>1. /\ stopper'[p].pc \in {"idle", "clear"} /\ (p = "starter" => stopper'[p].pc = "idle")
        /\ \A q \in Stoppers : q # p => stopper'[q] = stopper[q]
    BY <1>1, <1>5 DEF RecoverNetwork, NoStop
  <2>2. stopper[p].pc = "recover"
    BY <1>5 DEF RecoverNetwork
  <2>3. HandlerIsReferenced'
    BY <1>5, <2>1, <2>2 DEF RecoverNetwork, lifeVars
  <2>4. StartIsAlone'
    <3>1. \A q \in Buttons : Starting => stopper'[q] = stopper[q]
      BY <1>1, <1>2, <2>1, <2>2
    <3>2. QED BY <1>1, <1>2, <1>5, <2>1, <2>2, <3>1 DEF RecoverNetwork, viewVars
  <2>5. StoppingIsDead'
    BY <1>5, <2>1, <2>2 DEF RecoverNetwork, lifeVars
  <2>6. QED BY <1>5, <2>3, <2>4, <2>5
      DEF RecoverNetwork, BusyPhase, HandlerBusy, viewVars, lifeVars, idVars
<1>6. CASE ClearIdentity(p)
  <2>1. /\ stopper'[p].pc = "publish" /\ p # "starter"
        /\ \A q \in Stoppers : q # p => stopper'[q] = stopper[q]
    BY <1>1, <1>6 DEF ClearIdentity, Stopper
  <2>2. stopper[p].pc = "clear"
    BY <1>6 DEF ClearIdentity
  <2>3. ~Starting
    BY <1>2, <2>1, <2>2
  <2>4. HandlerIsReferenced'
    BY <1>6, <2>1, <2>2 DEF ClearIdentity, lifeVars
  <2>5. StartIsAlone'
    BY <1>1, <1>6, <2>1, <2>3 DEF ClearIdentity, viewVars
  <2>6. StoppingIsDead'
    BY <1>6, <2>1, <2>2 DEF ClearIdentity, lifeVars
  <2>7. QED BY <1>6, <2>4, <2>5, <2>6
      DEF ClearIdentity, BusyPhase, HandlerBusy, viewVars, lifeVars
<1>7. CASE PublishStopped(p)
  <2>1. /\ stopper'[p].pc = "idle"
        /\ \A q \in Stoppers : q # p => stopper'[q] = stopper[q]
    BY <1>1, <1>7 DEF PublishStopped, NoStop
  <2>2. stopper[p].pc = "publish" /\ p # "starter" /\ ~live
    BY <1>7 DEF PublishStopped
  <2>3. ~Starting
    BY <1>2, <2>2
  <2>4. status'.phase \in {"idle", "stopped"}
    BY <1>7, PublishPhase DEF PublishStopped
  <2>5. HandlerIsReferenced'
    BY <1>7, <2>1, <2>2 DEF PublishStopped, lifeVars
  <2>6. StartIsAlone'
    BY <1>1, <1>7, <2>1, <2>2, <2>3 DEF PublishStopped
  <2>7. StoppingIsDead'
    BY <1>7, <2>1, <2>2 DEF PublishStopped, lifeVars
  <2>8. BusyPhase'
    BY <1>7, <2>2, <2>4 DEF PublishStopped, BusyPhase, HandlerBusy, lifeVars
  <2>9. QED BY <1>7, <2>5, <2>6, <2>7, <2>8 DEF PublishStopped, idVars
<1>8. QED
  BY <1>3, <1>4, <1>5, <1>6, <1>7 DEF StopperStep

\* The connections touch nothing that AccountInv speaks of.
LEMMA AccountConn ==
    ASSUME NEW c \in Conns
    PROVE  Typed /\ AccountInv /\ (Connect(c) \/ ConnectionStep(c)) => AccountInv'
BY DEF Connect, ConnectionStep, ConnectionFails, ClaimLogin, ClaimEffect, RelayOpens, RelayEnds,
       ConnGoes, lifeVars, idVars, viewVars, AccountInv, HandlerAfterStart, HandlerIsReferenced,
       StartIsAlone, Starting, StoppingIsDead, BusyPhase, HandlerBusy, RevalidatesSelected,
       LockedIsSelected, Idle

\* The handler: it publishes only phases of a login, and the revalidation writes
\* back an identity that is still the selected one.
LEMMA AccountHandler == Typed /\ AccountInv /\ HandlerStep => AccountInv'
<1> SUFFICES ASSUME Typed, AccountInv, HandlerStep PROVE AccountInv'
  OBVIOUS
<1> USE DEF AccountInv
<1>1. handler.pc # "none" /\ handler \in Handler
  BY DEF HandlerStep, HandleIntercepted, HandleCaptured, RevalidateRead, RevalidateWrite,
         FinishLocally, StartSync, SyncSucceeds, SyncFails, SyncFriends, FinishSync, HandlerEnds,
         Typed, TypeOK
<1>2. starter.pc = "idle" /\ UNCHANGED <<starter, stopper, lifeVars, selected>>
  BY <1>1 DEF HandlerStep, HandleIntercepted, HandleCaptured, RevalidateRead, RevalidateWrite,
         FinishLocally, StartSync, SyncSucceeds, SyncFails, SyncFriends, FinishSync, HandlerEnds,
         HandlerDone, HandlerOnly, HandlerAfterStart
<1>3. HandlerAfterStart' /\ HandlerIsReferenced'
  BY <1>1, <1>2 DEF HandlerAfterStart, HandlerIsReferenced, lifeVars
<1>4. StoppingIsDead'
  BY <1>2 DEF StoppingIsDead, lifeVars
<1>5. StartIsAlone'
  BY <1>2 DEF StartIsAlone, Starting, Idle
<1>6. ASSUME \/ handler'.pc \in {"none", "recv"}
             \/ status'.phase \in {"code_captured", "syncing"}
             \/ status' = status /\ HandlerBusy,
             handler'.pc # "revalidating", LockedIsSelected'
      PROVE  AccountInv'
  BY <1>2, <1>3, <1>4, <1>5, <1>6 DEF BusyPhase, HandlerBusy, RevalidatesSelected, lifeVars
<1>7. ASSUME locked' = locked PROVE LockedIsSelected'
  BY <1>2, <1>7 DEF LockedIsSelected
<1>8. CASE HandleIntercepted
  <2>1. handler' = handler /\ handler.pc = "recv" /\ locked' = locked
    BY <1>8 DEF HandleIntercepted
  <2>2. QED BY <1>6, <1>7, <2>1
<1>9. CASE HandleCaptured
  <2>1. handler'.pc = "captured" /\ locked' = locked
    BY <1>1, <1>9 DEF HandleCaptured, Handler
  <2>2. status'.phase = "code_captured"
    BY <1>9, PublishPhase DEF HandleCaptured
  <2>3. QED BY <1>6, <1>7, <2>1, <2>2
<1>10. CASE RevalidateRead
  <2>1. locked' = locked /\ status' = status /\ HandlerBusy
    BY <1>10 DEF RevalidateRead, viewVars, HandlerBusy
  <2>2. \/ handler' = [handler EXCEPT !.pc = "decide"]
        \/ locked # NoAccount /\ handler' = [handler EXCEPT !.pc = "revalidating", !.acct = locked]
    BY <1>10 DEF RevalidateRead
  <2>3. RevalidatesSelected' /\ BusyPhase'
    BY <1>1, <1>2, <2>1, <2>2
    DEF RevalidatesSelected, LockedIsSelected, Handler, BusyPhase, HandlerBusy, lifeVars
  <2>4. QED BY <1>3, <1>4, <1>5, <1>7, <2>1, <2>3
<1>11. ASSUME NEW confirmed \in BOOLEAN, RevalidateWrite(confirmed) PROVE AccountInv'
  <2>1. handler'.pc = "decide" /\ status' = status /\ HandlerBusy
    BY <1>1, <1>11 DEF RevalidateWrite, viewVars, HandlerBusy, Handler
  <2>2. LockedIsSelected'
    BY <1>2, <1>11 DEF RevalidateWrite, LockedIsSelected, RevalidatesSelected
  <2>3. QED BY <1>6, <2>1, <2>2
<1>12. ASSUME NEW phase, NEW code, HandlerDone(phase, code), locked' = locked PROVE AccountInv'
  <2>1. handler'.pc = "recv"
    BY <1>12 DEF HandlerDone, NoLogin
  <2>2. QED BY <1>6, <1>7, <1>12, <2>1
<1>13. CASE FinishLocally
  BY <1>12, <1>13 DEF FinishLocally, HandlerDone
<1>14. CASE StartSync
  <2>1. handler'.pc = "syncing" /\ locked' = locked
    BY <1>1, <1>14 DEF StartSync, Handler
  <2>2. status'.phase = "syncing"
    BY <1>14, PublishPhase DEF StartSync
  <2>3. QED BY <1>6, <1>7, <2>1, <2>2
<1>15. CASE SyncSucceeds
  <2>1. handler'.pc = "synced" /\ locked' = locked /\ status' = status /\ HandlerBusy
    BY <1>1, <1>15 DEF SyncSucceeds, Handler, HandlerBusy
  <2>2. QED BY <1>6, <1>7, <2>1
<1>16. CASE SyncFails
  BY <1>12, <1>16 DEF SyncFails, HandlerDone
<1>17. CASE SyncFriends
  <2>1. handler'.pc = "friends" /\ locked' = locked
    BY <1>1, <1>17 DEF SyncFriends, Handler
  <2>2. status'.phase = "syncing"
    BY <1>17, PublishPhase DEF SyncFriends
  <2>3. QED BY <1>6, <1>7, <2>1, <2>2
<1>18. CASE FinishSync
  BY <1>12, <1>18 DEF FinishSync, HandlerDone
<1>19. CASE HandlerEnds
  <2>1. handler'.pc = "none" /\ locked' = locked
    BY <1>19 DEF HandlerEnds, NoLogin
  <2>2. QED BY <1>6, <1>7, <2>1
<1>20. QED
  BY <1>8, <1>9, <1>10, <1>11, <1>13, <1>14, <1>15, <1>16, <1>17, <1>18, <1>19 DEF HandlerStep

\* The monitor writes only while the window waits for a login, when the handler
\* does not work on one, and writes the selection with the identity.
LEMMA AccountMonitor ==
    ASSUME NEW s \in Session PROVE Typed /\ AccountInv /\ MonitorStep(s) => AccountInv'
<1> SUFFICES ASSUME Typed, AccountInv, MonitorStep(s) PROVE AccountInv'
  OBVIOUS
<1> USE DEF AccountInv
<1>1. UNCHANGED <<starter, stopper, lifeVars, handler>>
  BY DEF MonitorStep, MonitorTick, MonitorRead, AdoptIdentity, MarkUnconfirmed, MonitorGoes
<1>2. \/ UNCHANGED <<status, locked, selected>>
      \/ /\ status.phase = "waiting_login" /\ status'.phase = "waiting_login"
         /\ locked' = NoAccount \/ locked' = selected'
  <2>1. CASE MonitorTick(s) \/ MonitorRead(s)
    BY <2>1 DEF MonitorTick, MonitorRead
  <2>2. CASE AdoptIdentity(s)
    BY <2>2 DEF AdoptIdentity, Emit
  <2>3. CASE MarkUnconfirmed(s)
    BY <2>3, PublishPhase DEF MarkUnconfirmed
  <2>4. QED BY <2>1, <2>2, <2>3 DEF MonitorStep
<1>3. CASE UNCHANGED <<status, locked, selected>>
  BY <1>1, <1>3 DEF HandlerAfterStart, HandlerIsReferenced, StartIsAlone, Starting, Idle,
     StoppingIsDead, BusyPhase, HandlerBusy, RevalidatesSelected, LockedIsSelected, lifeVars
<1>4. CASE /\ status.phase = "waiting_login" /\ status'.phase = "waiting_login"
           /\ locked' = NoAccount \/ locked' = selected'
  <2>1. ~HandlerBusy /\ ~Starting
    BY <1>4 DEF BusyPhase, StartIsAlone
  <2>2. QED
    BY <1>1, <1>4, <2>1 DEF HandlerAfterStart, HandlerIsReferenced, StartIsAlone, Starting, Idle,
       StoppingIsDead, BusyPhase, HandlerBusy, RevalidatesSelected, LockedIsSelected, lifeVars
<1>5. QED
  BY <1>2, <1>3, <1>4

LEMMA AccountNext == ~Overlap /\ Typed /\ AccountInv /\ [Next]_vars => AccountInv'
<1> SUFFICES ASSUME ~Overlap, Typed, AccountInv, [Next]_vars PROVE AccountInv'
  OBVIOUS
<1>1. CASE UNCHANGED vars
  BY <1>1 DEF vars, lifeVars, idVars, viewVars, AccountInv, HandlerAfterStart,
     HandlerIsReferenced, StartIsAlone, Starting, StoppingIsDead, BusyPhase, HandlerBusy,
     RevalidatesSelected, LockedIsSelected, Idle
<1>2. CASE Next
  BY <1>2, AccountStarter, AccountUser, AccountStopper, AccountConn, AccountHandler,
     AccountMonitor DEF Next
<1>3. QED
  BY <1>1, <1>2

\* Without a start that overlaps a stop, a sync always uses the account that is
\* selected (arm_account, the monitor and the revalidation agree), for any number
\* of accounts, connections and sessions.
THEOREM AccountCorrect == ASSUME ~Overlap PROVE Spec => []LockedIsSelected
<1>1. Typed /\ AccountInv /\ [Next]_vars => (Typed /\ AccountInv)'
  BY NextTyped, AccountNext
<1>2. Init => Typed /\ AccountInv
  BY InitTyped, AccountInit
<1>3. AccountInv => LockedIsSelected
  BY DEF AccountInv
<1>4. QED
  BY <1>1, <1>2, <1>3, PTL DEF Spec

-----------------------------------------------------------------------------
(***************************************************************************)
(* The Code that the window offers.  The two places that clear it while a  *)
(* session lives, arm_account and a successful synchronisation, publish    *)
(* after it; what keeps arm_account out while the handler has a Code is    *)
(* the phase (BusyPhase), so this rests on AccountInv.                     *)
(***************************************************************************)

\* The handler's Code is kept until the synchronisation succeeds.
CodeKept == handler.pc \in {"captured", "revalidating", "decide", "syncing"} => lastCode # NoCode

\* A start in progress offers none.
StartOffersNone == Starting => ~status.code

CodeInv == CodeKept /\ StartOffersNone /\ OfferedCodeIsThere

LEMMA PublishCode ==
    ASSUME NEW phase, NEW code, Publish(phase, code) PROVE status'.code = code
BY DEF Publish, Emit

LEMMA CodeInit == Init => CodeInv
BY DEF Init, CodeInv, CodeKept, StartOffersNone, OfferedCodeIsThere, Starting, NoLogin

LEMMA CodeStarter == Typed /\ AccountInv /\ CodeInv /\ StarterStep => CodeInv'
<1> SUFFICES ASSUME Typed, AccountInv, CodeInv, StarterStep PROVE CodeInv'
    OBVIOUS
<1>1. /\ handler.pc = "none" /\ handler'.pc \in {"none", "recv"}
      /\ starter' = [starter EXCEPT !.pc = starter'.pc]
    BY DEF AccountInv, HandlerAfterStart, StarterStep, PrepareFails, StoreTransport,
       EnableProxySucceeds, EnableProxyFails, StartFails, PublishStarted, SpawnMonitor,
       StoreMonitor, SpawnHandler, StarterGoes, NoLogin, Typed, TypeOK, Starter
<1>2. CodeKept'
    BY <1>1 DEF CodeKept
<1>3. CASE PrepareFails \/ StartFails \/ PublishStarted
    <2>1. ~status'.code
        BY <1>3, PublishCode DEF PrepareFails, StartFails, PublishStarted
    <2> QED
        BY <1>2, <2>1 DEF CodeInv, StartOffersNone, OfferedCodeIsThere
<1>4. CASE StoreTransport
    <2>1. ~status'.code
        BY <1>4 DEF StoreTransport, CodeInv, StartOffersNone, Starting
    <2> QED
        BY <1>2, <2>1 DEF CodeInv, StartOffersNone, OfferedCodeIsThere
<1>5. CASE EnableProxySucceeds \/ EnableProxyFails
    <2>1. ~status'.code
        BY <1>5 DEF EnableProxySucceeds, EnableProxyFails, CodeInv, StartOffersNone, Starting
    <2> QED
        BY <1>2, <2>1 DEF CodeInv, StartOffersNone, OfferedCodeIsThere
<1>6. CASE SpawnMonitor \/ StoreMonitor \/ SpawnHandler
    <2>1. UNCHANGED <<status, live, lastCode>> /\ handler.pc = "none"
        BY <1>1, <1>6 DEF SpawnMonitor, StoreMonitor, SpawnHandler, StarterGoes
    <2>2. OfferedCodeIsThere'
        BY <2>1 DEF CodeInv, OfferedCodeIsThere
    <2>3. ~Starting'
        BY <1>6 DEF SpawnMonitor, StoreMonitor, SpawnHandler, StarterGoes, Starting, Typed,
           TypeOK, Starter
    <2> QED
        BY <1>2, <2>2, <2>3 DEF CodeInv, StartOffersNone
<1> QED
    BY <1>3, <1>4, <1>5, <1>6 DEF StarterStep

LEMMA CodeUser == Typed /\ AccountInv /\ CodeInv /\ UserStep => CodeInv'
<1> SUFFICES ASSUME Typed, AccountInv, CodeInv, UserStep PROVE CodeInv'
    OBVIOUS
<1>1. ASSUME NEW ident \in Account, Begin(ident)
      PROVE  CodeInv'
    <2>1. ~status'.code /\ UNCHANGED <<handler, lastCode>>
        BY <1>1, PublishCode DEF Begin
    <2> QED
        BY <2>1 DEF CodeInv, CodeKept, StartOffersNone, OfferedCodeIsThere
<1>2. ASSUME NEW a \in Accounts, Arm(a)
      PROVE  CodeInv'
    <2>1. ~status'.code /\ handler' = handler /\ live /\ ~CaptureInProgress
        BY <1>2 DEF Arm, Emit
    <2>2. handler.pc \in {"none", "recv"}
        BY <2>1 DEF AccountInv, BusyPhase, HandlerBusy, CaptureInProgress
    <2> QED
        BY <2>1, <2>2 DEF CodeInv, CodeKept, StartOffersNone, OfferedCodeIsThere
<1>3. CASE CancelAccountSync
    <2>1. ~status'.code /\ UNCHANGED <<handler, lastCode>>
        BY <1>3, PublishCode DEF CancelAccountSync, CancelEffect
    <2> QED
        BY <2>1 DEF CodeInv, CodeKept, StartOffersNone, OfferedCodeIsThere
<1>4. CASE PressStop \/ PressCleanup
    <2>1. UNCHANGED <<status, live, lastCode, handler, starter>>
        BY <1>4 DEF PressStop, PressCleanup, Press, viewVars, lifeVars
    <2> QED
        BY <2>1 DEF CodeInv, CodeKept, StartOffersNone, Starting, OfferedCodeIsThere
<1> QED
    BY <1>1, <1>2, <1>3, <1>4 DEF UserStep

LEMMA CodeStopper ==
    ASSUME NEW p \in Stoppers PROVE Typed /\ AccountInv /\ CodeInv /\ StopperStep(p) => CodeInv'
<1> SUFFICES ASSUME Typed, AccountInv, CodeInv, StopperStep(p) PROVE CodeInv'
    OBVIOUS
<1>1. ~live' /\ UNCHANGED <<starter, lastCode>> /\ (handler' = handler \/ handler' = NoLogin)
    <2>1. UNCHANGED <<starter, lastCode>> /\ (handler' = handler \/ handler' = NoLogin)
        BY DEF StopperStep, StopTake, StopTasks, RecoverNetwork, ClearIdentity, PublishStopped,
               viewVars
    <2>2. CASE StopTake(p)
        BY <2>1, <2>2 DEF StopTake
    <2>3. CASE ~StopTake(p)
        <3>1. stopper[p].pc \in {"tasks", "recover", "clear", "publish"} /\ live' = live
            BY <2>3 DEF StopperStep, StopTasks, RecoverNetwork, ClearIdentity, PublishStopped,
               lifeVars
        <3> QED
            BY <2>1, <3>1 DEF AccountInv, StoppingIsDead
    <2> QED
        BY <2>2, <2>3
<1>2. CodeKept' /\ OfferedCodeIsThere'
    BY <1>1 DEF CodeInv, CodeKept, OfferedCodeIsThere, NoLogin
<1>3. StartOffersNone'
    <2>1. CASE PublishStopped(p)
        <3>1. stopper[p].pc = "publish" /\ p # "starter" /\ p \in Buttons
            BY <2>1 DEF PublishStopped, AccountInv, StartIsAlone, Stoppers
        <3> QED
            BY <1>1, <3>1 DEF AccountInv, StartIsAlone, Idle, StartOffersNone, Starting
    <2>2. CASE ~PublishStopped(p)
        <3>1. status' = status
            BY <2>2 DEF StopperStep, StopTake, StopTasks, RecoverNetwork, ClearIdentity, viewVars
        <3> QED
            BY <1>1, <3>1 DEF CodeInv, StartOffersNone, Starting
    <2> QED
        BY <2>1, <2>2
<1> QED
    BY <1>2, <1>3 DEF CodeInv

LEMMA CodeHandler == Typed /\ AccountInv /\ CodeInv /\ HandlerStep => CodeInv'
<1> SUFFICES ASSUME Typed, AccountInv, CodeInv, HandlerStep PROVE CodeInv'
    OBVIOUS
<1>1. UNCHANGED <<starter, live>> /\ handler \in Handler
    BY DEF HandlerStep, HandleIntercepted, HandleCaptured, RevalidateRead, RevalidateWrite,
       FinishLocally, StartSync, SyncSucceeds, SyncFails, SyncFriends, FinishSync, HandlerEnds,
       HandlerDone, HandlerOnly, lifeVars, Typed, TypeOK
<1>2. StartOffersNone'
    <2>1. handler.pc # "none"
        BY DEF HandlerStep, HandleIntercepted, HandleCaptured, RevalidateRead, RevalidateWrite,
           FinishLocally, StartSync, SyncSucceeds, SyncFails, SyncFriends, FinishSync, HandlerEnds
    <2> QED
        BY <1>1, <2>1 DEF AccountInv, HandlerAfterStart, StartOffersNone, Starting
<1>3. CASE HandleIntercepted
    <2>1. ~status'.code /\ UNCHANGED <<handler, lastCode>>
        BY <1>3 DEF HandleIntercepted, Emit
    <2> QED
        BY <1>2, <2>1 DEF CodeInv, CodeKept, OfferedCodeIsThere
<1>4. CASE HandleCaptured
    <2>1. Head(chan) \in Event
        BY <1>4 DEF HandleCaptured, Typed, TypeOK
    <2>2. lastCode' # NoCode
        BY <1>4, <2>1, ConstantsOK DEF HandleCaptured, Event
    <2> QED
        BY <1>2, <2>2 DEF CodeInv, CodeKept, OfferedCodeIsThere
<1>5. CASE RevalidateRead \/ (\E confirmed \in BOOLEAN : RevalidateWrite(confirmed)) \/ StartSync
    <2>1. handler.pc \in {"captured", "revalidating", "decide"} /\ lastCode' = lastCode
        BY <1>5 DEF RevalidateRead, RevalidateWrite, StartSync, viewVars
    <2> QED
        BY <1>2, <2>1 DEF CodeInv, CodeKept, OfferedCodeIsThere
<1>6. CASE SyncSucceeds
    <2>1. handler'.pc = "synced"
        BY <1>1, <1>6 DEF SyncSucceeds, Handler
    <2> QED
        BY <1>2, <2>1 DEF CodeInv, CodeKept, OfferedCodeIsThere
<1>7. CASE SyncFriends
    <2>1. handler'.pc = "friends" /\ ~status'.code
        BY <1>1, <1>7, PublishCode DEF SyncFriends, Handler
    <2> QED
        BY <1>2, <2>1 DEF CodeInv, CodeKept, OfferedCodeIsThere
<1>8. CASE FinishLocally \/ SyncFails
    <2>1. handler.pc \in {"decide", "syncing"} /\ lastCode' = lastCode
        BY <1>8 DEF FinishLocally, SyncFails, HandlerDone
    <2> QED
        BY <1>2, <2>1 DEF CodeInv, CodeKept, OfferedCodeIsThere
<1>9. CASE FinishSync
    <2>1. ~status'.code /\ handler'.pc = "recv"
        BY <1>9, PublishCode DEF FinishSync, HandlerDone, NoLogin
    <2> QED
        BY <1>2, <2>1 DEF CodeInv, CodeKept, OfferedCodeIsThere
<1>10. CASE HandlerEnds
    <2>1. UNCHANGED <<status, lastCode>> /\ handler.pc = "recv" /\ handler'.pc = "none"
        BY <1>10 DEF HandlerEnds, viewVars, NoLogin
    <2> QED
        BY <1>1, <1>2, <2>1 DEF CodeInv, CodeKept, OfferedCodeIsThere
<1> QED
    BY <1>3, <1>4, <1>5, <1>6, <1>7, <1>8, <1>9, <1>10 DEF HandlerStep

\* Steps of the monitors and the connections.
LEMMA CodeRest ==
    ASSUME Typed, CodeInv,
           \/ \E s \in Session : MonitorStep(s)
           \/ \E c \in Conns : Connect(c) \/ ConnectionStep(c)
           \/ UNCHANGED vars
    PROVE  CodeInv'
<1>1. UNCHANGED <<starter, live, handler, lastCode>>
    BY DEF MonitorStep, MonitorTick, MonitorRead, AdoptIdentity, MarkUnconfirmed, MonitorGoes,
       Connect, ConnectionStep, ConnectionFails, ClaimLogin, ClaimEffect, RelayOpens, RelayEnds,
       ConnGoes, lifeVars, viewVars, vars
<1>2. status' = status \/ ~status'.code
    <2>1. ASSUME NEW s \in Session, AdoptIdentity(s)
          PROVE  status' = status \/ ~status'.code
        BY <2>1 DEF AdoptIdentity, Emit
    <2>2. ASSUME NEW s \in Session, MarkUnconfirmed(s)
          PROVE  status' = status \/ ~status'.code
        BY <2>2, PublishCode DEF MarkUnconfirmed
    <2> QED
        BY <2>1, <2>2 DEF MonitorStep, MonitorTick, MonitorRead, Connect, ConnectionStep,
           ConnectionFails, ClaimLogin, ClaimEffect, RelayOpens, RelayEnds, ConnGoes, viewVars, vars
<1> QED
    BY <1>1, <1>2 DEF CodeInv, CodeKept, StartOffersNone, Starting, OfferedCodeIsThere

\* A Code that the window of a live session offers to copy is there for
\* get_captured_code, whatever stops, switches and detections run beside the handler.
THEOREM CodeIsThere == ~Overlap => (Spec => []OfferedCodeIsThere)
<1> SUFFICES ASSUME ~Overlap PROVE Spec => []OfferedCodeIsThere
    OBVIOUS
<1>1. Typed /\ AccountInv /\ CodeInv /\ [Next]_vars => CodeInv'
    BY CodeStarter, CodeUser, CodeStopper, CodeHandler, CodeRest DEF Next
<1>2. Typed /\ AccountInv /\ [Next]_vars => (Typed /\ AccountInv)'
    BY NextTyped, AccountNext
<1>3. Init => Typed /\ AccountInv /\ CodeInv
    BY InitTyped, AccountInit, CodeInit
<1>4. CodeInv => OfferedCodeIsThere
    BY DEF CodeInv
<1> QED
    BY <1>1, <1>2, <1>3, <1>4, PTL DEF Spec

-----------------------------------------------------------------------------
(***************************************************************************)
(* CaptureSession implements LoginExchange if no start begins during a     *)
(* stop and the channel holds the two events of a login, for every number  *)
(* of accounts, connections and sessions.                                  *)
(***************************************************************************)

-----------------------------------------------------------------------------
(* The inductive invariant                                                  *)

\* transport_stop has one holder.
OneStops == \A p, q \in Stoppers : HoldsStopLock(p) /\ HoldsStopLock(q) => p = q

\* The proxy lives with its session, and on until the stop that took it has joined it.
ProxyLives ==
    /\ live => proxyUp
    /\ proxyUp => live \/ \E p \in Stoppers : stopper[p].pc = "tasks" /\ stopper[p].sess

\* Connections live with the proxy, and have a choice once they have claimed.
ConnsLive ==
    /\ ~proxyUp => \A c \in Conns : conn[c].pc \notin {"tls", "opening", "relay"}
    /\ \A c \in Conns : conn[c].pc \in {"unused", "tls"} => conn[c].choice = NoAccount

\* What a start finds, and what a failed one leaves.
StartsClean ==
    /\ starter.pc = "prepare" => ~proxyUp
    /\ starter.pc = "failing" => ~Idle("starter") \/ ~live
    /\ starter.pc # "idle" => userChoice = starter.ident

\* A proxy whose start is over has its handler; what it reported is read or dropped
\* before the next one.
Drained ==
    /\ starter.pc = "idle" /\ proxyUp => handler.pc # "none"
    /\ starter.pc \in {"idle", "prepare"} /\ handler.pc = "none" => chan = <<>>

HandlerHasCode == (handler.code = NoCode) <=> (handler.pc \in {"none", "recv"})

NoRelay == \A d \in Conns : conn[d].pc \notin InRelay

\* No login is in flight.
Free == NoRelay /\ chan = <<>> /\ handler.code = NoCode

\* The login of c is: in its relay, in the channel, or with the handler.
Carries(c) ==
    /\ \A d \in Conns : conn[d].pc \in InRelay => d = c
    /\ conn[c].choice # NoAccount
    /\ \/ conn[c].pc \in InRelay /\ chan = <<>> /\ handler.code = NoCode
       \/ chan = <<Intercepted(c)>> /\ handler.code = NoCode
       \/ NoRelay /\ chan = <<Captured(c)>> /\ handler.code = NoCode
       \/ NoRelay /\ chan = <<Intercepted(c), Captured(c)>> /\ handler.code = NoCode
       \/ NoRelay /\ chan = <<>> /\ handler.code = c

OneLogin == Free \/ \E c \in Conns : Carries(c)

ArmedIsFree ==
    /\ armed => Free
    /\ armed /\ proxyUp => userChoice # NoAccount

\* While something is armed or in flight the phase tells.
PhaseTells ==
    live /\ (armed \/ ~Free) =>
        IF starter.pc \in {"stored", "enabled", "failing"}
        THEN userChoice # NoAccount
        ELSE status.phase \in {"waiting_login", "code_captured", "syncing"}

LoginInv ==
    /\ OneStops /\ ProxyLives /\ ConnsLive /\ StartsClean
    /\ Drained /\ HandlerHasCode /\ OneLogin /\ ArmedIsFree /\ PhaseTells

-----------------------------------------------------------------------------
(* The channel of one login                                                 *)

LEMMA Events ==
    ASSUME NEW c
    PROVE  /\ Intercepted(c).type = "Intercepted" /\ Intercepted(c).code = c
           /\ Captured(c).type = "Captured" /\ Captured(c).code = c
BY DEF Intercepted, Captured

LEMMA FreeIsEmpty == ASSUME TypeOK, Free PROVE InFlight = {}
<1>1. handler.code = NoCode /\ NoCode \notin Conns
    BY ConstantsOK DEF Free
<1>2. Len(chan) = 0
    BY DEF Free
<1> QED
    BY <1>1, <1>2 DEF InFlight, Unresolved, Free, NoRelay

LEMMA CarriedIsInFlight == ASSUME TypeOK, NEW c \in Conns, Carries(c) PROVE InFlight = {c}
<1>1. NoCode \notin Conns
    BY ConstantsOK
<1>2. \A d \in Conns : Unresolved(d) <=> d = c
    <2> SUFFICES ASSUME NEW d \in Conns PROVE Unresolved(d) <=> d = c
        OBVIOUS
    <2>1. CASE conn[c].pc \in InRelay /\ chan = <<>> /\ handler.code = NoCode
        BY <1>1, <2>1 DEF Carries, Unresolved
    <2>2. CASE chan = <<Intercepted(c)>> /\ handler.code = NoCode
        <3>1. Len(chan) = 1 /\ chan[1].code = c
            BY <2>2, Events
        <3> QED
            BY <1>1, <2>2, <3>1 DEF Carries, Unresolved
    <2>3. CASE NoRelay /\ chan = <<Captured(c)>> /\ handler.code = NoCode
        <3>1. Len(chan) = 1 /\ chan[1].code = c
            BY <2>3, Events
        <3> QED
            BY <1>1, <2>3, <3>1 DEF NoRelay, Unresolved
    <2>4. CASE NoRelay /\ chan = <<Intercepted(c), Captured(c)>> /\ handler.code = NoCode
        <3>1. Len(chan) = 2 /\ chan[1].code = c /\ chan[2].code = c
            BY <2>4, Events
        <3> QED
            BY <1>1, <2>4, <3>1 DEF NoRelay, Unresolved
    <2>5. CASE NoRelay /\ chan = <<>> /\ handler.code = c
        BY <1>1, <2>5 DEF NoRelay, Unresolved
    <2> QED
        BY <2>1, <2>2, <2>3, <2>4, <2>5 DEF Carries
<1> QED
    BY <1>2 DEF InFlight

\* Nothing comes to be in flight: this holds of every step but a claim.
Settles == Free' \/ \E c \in Conns : Carries(c) /\ Carries(c)'

\* The connections have the same places and choices; what was recorded may differ.
SameConns == \A c \in Conns : conn'[c].pc = conn[c].pc /\ conn'[c].choice = conn[c].choice

LEMMA SameSettles ==
    ASSUME LoginInv, SameConns, chan' = chan, handler'.code = handler.code
    PROVE  Settles /\ (Free' <=> Free)
<1>1. Free' <=> Free
    BY DEF SameConns, Free, NoRelay
<1>2. ASSUME NEW c \in Conns, Carries(c)
      PROVE  Carries(c)'
    BY <1>2 DEF SameConns, Carries, NoRelay
<1> QED
    BY <1>1, <1>2 DEF LoginInv, OneLogin, Settles

\* A step that concerns no login.
LEMMA QuietKeeps ==
    ASSUME LoginInv, UNCHANGED <<starter, stopper, live, proxyUp, armed, chan, userChoice>>,
           SameConns, handler'.code = handler.code,
           handler'.pc \in {"none", "recv"} <=> handler.pc \in {"none", "recv"},
           handler'.pc = "none" <=> handler.pc = "none",
           status'.phase \in {"waiting_login", "code_captured", "syncing", status.phase}
    PROVE  LoginInv' /\ Settles
<1>1. Settles /\ (Free' <=> Free)
    BY SameSettles
<1>2. OneLogin'
    BY <1>1 DEF Settles, OneLogin
<1>3. OneStops' /\ ProxyLives' /\ ConnsLive' /\ StartsClean'
    BY DEF LoginInv, OneStops, HoldsStopLock, ProxyLives, ConnsLive, SameConns, StartsClean, Idle
<1>4. Drained' /\ HandlerHasCode'
    BY DEF LoginInv, Drained, HandlerHasCode
<1>5. ArmedIsFree' /\ PhaseTells'
    BY <1>1 DEF LoginInv, ArmedIsFree, PhaseTells
<1> QED
    BY <1>1, <1>2, <1>3, <1>4, <1>5 DEF LoginInv

LEMMA MonitorKeeps ==
    ASSUME LoginInv, NEW s \in Session, MonitorStep(s)
    PROVE  LoginInv' /\ Settles
<1>1. UNCHANGED <<starter, stopper, live, proxyUp, armed, conn, chan, userChoice, handler>>
    BY DEF MonitorStep, MonitorTick, MonitorRead, AdoptIdentity, MarkUnconfirmed, MonitorGoes,
           lifeVars, proxyVars
<1>2. status'.phase \in {"waiting_login", status.phase}
    <2>1. CASE MonitorTick(s) \/ MonitorRead(s)
        BY <2>1 DEF MonitorTick, MonitorRead
    <2>2. CASE AdoptIdentity(s)
        BY <2>2 DEF AdoptIdentity, Emit
    <2>3. CASE MarkUnconfirmed(s)
        BY <2>3, PublishPhase DEF MarkUnconfirmed
    <2> QED
        BY <2>1, <2>2, <2>3 DEF MonitorStep
<1> QED
    BY <1>1, <1>2, QuietKeeps DEF SameConns

-----------------------------------------------------------------------------
(* The starter                                                              *)

\* A stop past its queue works with its session, or finds none.
LEMMA NoProxyNoStop ==
    ASSUME LoginInv, ~live, \A p \in Stoppers : stopper[p].pc # "tasks"
    PROVE  ~proxyUp
BY DEF LoginInv, ProxyLives

LEMMA StarterKeeps ==
    ASSUME Typed, AccountInv, LoginInv, StarterStep
    PROVE  LoginInv' /\ Settles
<1>1. /\ starter' = [starter EXCEPT !.pc = starter'.pc] /\ starter \in Starter
      /\ starter.pc # "idle"
    BY DEF StarterStep, PrepareFails, StoreTransport, EnableProxySucceeds, EnableProxyFails,
           StartFails, PublishStarted, SpawnMonitor, StoreMonitor, SpawnHandler, StarterGoes,
           Typed, TypeOK, Starter
<1>2. starter'.ident = starter.ident
    BY <1>1 DEF Starter
<1>3. handler.pc = "none" /\ handler.code = NoCode
    BY <1>1 DEF AccountInv, HandlerAfterStart, LoginInv, HandlerHasCode
<1>4. conn' = conn /\ SameConns /\ userChoice' = userChoice
    BY DEF SameConns, StarterStep, PrepareFails, StoreTransport, EnableProxySucceeds,
           EnableProxyFails, StartFails, PublishStarted, SpawnMonitor, StoreMonitor,
           SpawnHandler, StarterGoes, proxyVars
<1>5. CASE PrepareFails
    <2>1. /\ UNCHANGED <<stopper, live, proxyUp, armed, chan, handler>>
          /\ starter'.pc = "idle" /\ starter.pc = "prepare" /\ ~proxyUp /\ ~live
        BY <1>1, <1>5 DEF PrepareFails, StarterGoes, proxyVars, Starter, LoginInv, StartsClean,
           ProxyLives
    <2>2. Settles /\ (Free' <=> Free)
        BY <1>4, <2>1, SameSettles
    <2>3. OneStops' /\ ProxyLives' /\ ConnsLive' /\ StartsClean'
        BY <1>4, <2>1 DEF LoginInv, OneStops, HoldsStopLock, ProxyLives, ConnsLive, StartsClean
    <2>4. Drained' /\ HandlerHasCode'
        BY <2>1 DEF LoginInv, Drained, HandlerHasCode
    <2>5. OneLogin' /\ ArmedIsFree' /\ PhaseTells'
        BY <2>1, <2>2 DEF LoginInv, OneLogin, Settles, ArmedIsFree, PhaseTells
    <2> QED
        BY <2>2, <2>3, <2>4, <2>5 DEF LoginInv
<1>6. CASE StoreTransport
    <2>1. /\ UNCHANGED <<stopper, handler>> /\ starter'.pc = "stored" /\ starter.pc = "prepare"
          /\ live' /\ proxyUp' /\ ~proxyUp /\ armed' = (starter.ident # NoAccount) /\ chan' = <<>>
        BY <1>1, <1>6 DEF StoreTransport, Starter
    <2>2. Free'
        BY <1>3, <1>4, <2>1 DEF Free, NoRelay, LoginInv, ConnsLive
    <2>3. OneStops' /\ ProxyLives' /\ ConnsLive' /\ StartsClean'
        BY <1>2, <1>4, <2>1
        DEF LoginInv, OneStops, HoldsStopLock, ProxyLives, ConnsLive, StartsClean
    <2>4. Drained' /\ HandlerHasCode'
        BY <2>1 DEF LoginInv, Drained, HandlerHasCode
    <2>5. OneLogin' /\ ArmedIsFree' /\ PhaseTells'
        BY <1>4, <2>1, <2>2 DEF LoginInv, OneLogin, ArmedIsFree, PhaseTells, StartsClean
    <2> QED
        BY <2>2, <2>3, <2>4, <2>5 DEF LoginInv, Settles
<1>7. CASE EnableProxySucceeds
    <2>1. /\ UNCHANGED <<stopper, live, proxyUp, armed, chan, handler>>
          /\ starter'.pc = "enabled" /\ starter.pc = "stored"
        BY <1>1, <1>7 DEF EnableProxySucceeds, StarterGoes, proxyVars, Starter
    <2>2. Settles /\ (Free' <=> Free)
        BY <1>4, <2>1, SameSettles
    <2>3. OneStops' /\ ProxyLives' /\ ConnsLive' /\ StartsClean'
        BY <1>2, <1>4, <2>1
        DEF LoginInv, OneStops, HoldsStopLock, ProxyLives, ConnsLive, StartsClean
    <2>4. Drained' /\ HandlerHasCode'
        BY <2>1 DEF LoginInv, Drained, HandlerHasCode
    <2>5. OneLogin' /\ ArmedIsFree' /\ PhaseTells'
        BY <1>4, <2>1, <2>2 DEF LoginInv, OneLogin, Settles, ArmedIsFree, PhaseTells
    <2> QED
        BY <2>2, <2>3, <2>4, <2>5 DEF LoginInv
<1>8. CASE EnableProxyFails
    <2>1. /\ UNCHANGED <<live, proxyUp, armed, chan, handler>>
          /\ starter'.pc = "failing" /\ starter.pc = "stored" /\ Idle("starter")
        BY <1>1, <1>8 DEF EnableProxyFails, StarterGoes, proxyVars, Starter
    <2>2. Settles /\ (Free' <=> Free)
        BY <1>4, <2>1, SameSettles
    <2>3. /\ stopper'["starter"].pc = "queued"
          /\ \A p \in Stoppers : p # "starter" => stopper'[p] = stopper[p]
        BY <1>8 DEF EnableProxyFails, Typed, TypeOK, Stopper, Stoppers
    <2>4. OneStops' /\ ProxyLives'
        BY <2>1, <2>3 DEF LoginInv, OneStops, HoldsStopLock, ProxyLives, Idle
    <2>5. ConnsLive' /\ StartsClean'
        BY <1>2, <1>4, <2>1, <2>3 DEF LoginInv, ConnsLive, StartsClean, Idle
    <2>6. Drained' /\ HandlerHasCode'
        BY <2>1 DEF LoginInv, Drained, HandlerHasCode
    <2>7. OneLogin' /\ ArmedIsFree' /\ PhaseTells'
        BY <1>4, <2>1, <2>2 DEF LoginInv, OneLogin, Settles, ArmedIsFree, PhaseTells
    <2> QED
        BY <2>2, <2>4, <2>5, <2>6, <2>7 DEF LoginInv
<1>9. CASE StartFails
    <2>1. /\ UNCHANGED <<stopper, live, proxyUp, armed, handler>>
          /\ starter'.pc = "idle" /\ starter.pc = "failing" /\ Idle("starter") /\ chan' = <<>>
        BY <1>1, <1>9 DEF StartFails, StarterGoes, Starter
    <2>2. ~live /\ ~proxyUp
        <3>1. ~live
            BY <2>1 DEF LoginInv, StartsClean
        <3>2. \A p \in Stoppers : stopper[p].pc # "tasks"
            BY <2>1 DEF AccountInv, StartIsAlone, Starting, Idle, Stoppers
        <3> QED
            BY <3>1, <3>2, NoProxyNoStop
    <2>3. Free'
        BY <1>3, <1>4, <2>1, <2>2 DEF Free, NoRelay, LoginInv, ConnsLive
    <2>4. OneStops' /\ ProxyLives' /\ ConnsLive' /\ StartsClean'
        BY <1>4, <2>1, <2>2 DEF LoginInv, OneStops, HoldsStopLock, ProxyLives, ConnsLive, StartsClean
    <2>5. Drained' /\ HandlerHasCode'
        BY <2>1, <2>2 DEF LoginInv, Drained, HandlerHasCode
    <2>6. OneLogin' /\ ArmedIsFree' /\ PhaseTells'
        BY <2>1, <2>2, <2>3 DEF OneLogin, ArmedIsFree, PhaseTells
    <2> QED
        BY <2>3, <2>4, <2>5, <2>6 DEF LoginInv, Settles
<1>10. CASE PublishStarted
    <2>1. /\ UNCHANGED <<stopper, live, proxyUp, armed, chan, handler>>
          /\ starter'.pc = "published" /\ starter.pc = "enabled"
          /\ status'.phase = IF starter.ident = NoAccount THEN "ready" ELSE "waiting_login"
        BY <1>1, <1>10, PublishPhase DEF PublishStarted, StarterGoes, proxyVars, Starter
    <2>2. Settles /\ (Free' <=> Free)
        BY <1>4, <2>1, SameSettles
    <2>3. OneStops' /\ ProxyLives' /\ ConnsLive' /\ StartsClean'
        BY <1>2, <1>4, <2>1
        DEF LoginInv, OneStops, HoldsStopLock, ProxyLives, ConnsLive, StartsClean
    <2>4. Drained' /\ HandlerHasCode'
        BY <2>1 DEF LoginInv, Drained, HandlerHasCode
    <2>5. OneLogin' /\ ArmedIsFree' /\ PhaseTells'
        BY <1>4, <2>1, <2>2 DEF LoginInv, OneLogin, Settles, ArmedIsFree, PhaseTells, StartsClean
    <2> QED
        BY <2>2, <2>3, <2>4, <2>5 DEF LoginInv
<1>11. CASE SpawnMonitor \/ StoreMonitor \/ SpawnHandler
    <2>1. /\ UNCHANGED <<stopper, live, proxyUp, armed, chan, status>>
          /\ starter.pc \in {"published", "monitor_spawned", "monitored"}
          /\ starter'.pc \in {"monitor_spawned", "monitored", "idle"}
        BY <1>1, <1>11 DEF SpawnMonitor, StoreMonitor, SpawnHandler, StarterGoes, proxyVars, Starter
    <2>2. /\ handler'.code = NoCode /\ handler'.pc \in {"none", "recv"}
          /\ starter'.pc = "idle" => handler'.pc = "recv"
        BY <1>1, <1>3, <1>11
        DEF SpawnMonitor, StoreMonitor, SpawnHandler, StarterGoes, NoLogin, Starter
    <2>3. Settles /\ (Free' <=> Free)
        BY <1>3, <1>4, <2>1, <2>2, SameSettles
    <2>4. OneStops' /\ ProxyLives' /\ ConnsLive' /\ StartsClean'
        BY <1>2, <1>4, <2>1
        DEF LoginInv, OneStops, HoldsStopLock, ProxyLives, ConnsLive, StartsClean
    <2>5. Drained' /\ HandlerHasCode'
        BY <2>1, <2>2 DEF LoginInv, Drained, HandlerHasCode
    <2>6. OneLogin' /\ ArmedIsFree' /\ PhaseTells'
        BY <1>4, <2>1, <2>3 DEF LoginInv, OneLogin, Settles, ArmedIsFree, PhaseTells
    <2> QED
        BY <2>3, <2>4, <2>5, <2>6 DEF LoginInv
<1> QED
    BY <1>5, <1>6, <1>7, <1>8, <1>9, <1>10, <1>11 DEF StarterStep

-----------------------------------------------------------------------------
(* The user and the stops                                                   *)

LEMMA UserKeeps ==
    ASSUME ~Overlap, Typed, AccountInv, LoginInv, UserStep
    PROVE  LoginInv' /\ Settles
<1>1. /\ UNCHANGED <<live, proxyUp, conn, chan, handler>> /\ SameConns
      /\ Settles /\ (Free' <=> Free)
    <2>1. UNCHANGED <<live, proxyUp, conn, chan, handler>> /\ SameConns
        BY DEF UserStep, Begin, Arm, CancelAccountSync, CancelEffect, PressStop, PressCleanup,
               Press, lifeVars, proxyVars, SameConns
    <2> QED
        BY <2>1, SameSettles
<1>2. OneLogin'
    BY <1>1 DEF Settles, OneLogin
<1>3. ASSUME NEW ident \in Account, Begin(ident)
      PROVE  LoginInv'
    <2>1. /\ starter'.pc = "prepare" /\ starter'.ident = ident /\ userChoice' = ident
          /\ starter.pc = "idle" /\ ~live /\ UNCHANGED <<stopper, armed>>
          /\ \A p \in Stoppers : Idle(p)
        BY <1>3 DEF Begin, proxyVars
    <2>2. ~proxyUp
        BY <2>1, NoProxyNoStop DEF Idle
    <2>3. OneStops' /\ ProxyLives' /\ ConnsLive' /\ StartsClean'
        BY <1>1, <2>1, <2>2 DEF LoginInv, OneStops, HoldsStopLock, ProxyLives, ConnsLive, StartsClean
    <2>4. Drained' /\ HandlerHasCode'
        BY <1>1, <2>1, <2>2 DEF LoginInv, Drained, HandlerHasCode
    <2>5. ArmedIsFree' /\ PhaseTells'
        BY <1>1, <2>1, <2>2 DEF LoginInv, ArmedIsFree, PhaseTells
    <2> QED
        BY <1>2, <2>3, <2>4, <2>5 DEF LoginInv
<1>4. ASSUME NEW a \in Accounts, Arm(a)
      PROVE  LoginInv'
    <2>1. /\ UNCHANGED <<starter, stopper>> /\ starter.pc = "idle" /\ live /\ ~CaptureInProgress
          /\ userChoice' = a /\ a # NoAccount /\ status'.phase = "waiting_login"
        BY <1>4, ConstantsOK DEF Arm, Emit
    <2>2. Free
        BY <2>1 DEF LoginInv, PhaseTells, ArmedIsFree, CaptureInProgress
    <2>3. OneStops' /\ ProxyLives' /\ ConnsLive' /\ StartsClean'
        BY <1>1, <2>1 DEF LoginInv, OneStops, HoldsStopLock, ProxyLives, ConnsLive, StartsClean
    <2>4. Drained' /\ HandlerHasCode'
        BY <1>1, <2>1 DEF LoginInv, Drained, HandlerHasCode
    <2>5. ArmedIsFree' /\ PhaseTells'
        BY <1>1, <2>1, <2>2 DEF ArmedIsFree, PhaseTells
    <2> QED
        BY <1>2, <2>3, <2>4, <2>5 DEF LoginInv
<1>5. CASE CancelAccountSync
    <2>1. UNCHANGED <<starter, stopper, userChoice>> /\ armed /\ ~armed'
        BY <1>5 DEF CancelAccountSync, CancelEffect
    <2>2. OneStops' /\ ProxyLives' /\ ConnsLive' /\ StartsClean'
        BY <1>1, <2>1
        DEF LoginInv, OneStops, HoldsStopLock, ProxyLives, ConnsLive, StartsClean, Idle
    <2>3. Drained' /\ HandlerHasCode'
        BY <1>1, <2>1 DEF LoginInv, Drained, HandlerHasCode
    <2>4. ArmedIsFree' /\ PhaseTells'
        BY <1>1, <2>1 DEF LoginInv, ArmedIsFree, PhaseTells
    <2> QED
        BY <1>1, <1>2, <2>2, <2>3, <2>4 DEF LoginInv
<1>6. ASSUME NEW p \in Stoppers, Idle(p), Press(p), p # "starter"
      PROVE  LoginInv'
    <2>1. /\ UNCHANGED <<starter, userChoice, armed, status>>
          /\ stopper[p].pc = "idle" /\ stopper'[p].pc = "queued"
          /\ \A q \in Stoppers : q # p => stopper'[q] = stopper[q]
        <3>1. stopper \in [Stoppers -> Stopper]
            BY DEF Typed, TypeOK
        <3>2. UNCHANGED <<starter, userChoice, armed, status>>
            BY <1>6 DEF Press, viewVars, proxyVars
        <3>3. stopper' = [stopper EXCEPT ![p].pc = "queued"] /\ stopper[p].pc = "idle"
            BY <1>6 DEF Press, Idle
        <3> QED
            BY <3>1, <3>2, <3>3 DEF Stopper
    <2>2. OneStops' /\ ProxyLives'
        BY <1>1, <2>1 DEF LoginInv, OneStops, HoldsStopLock, ProxyLives
    <2>3. ConnsLive' /\ StartsClean'
        BY <1>1, <1>6, <2>1 DEF LoginInv, ConnsLive, StartsClean, Idle, Stoppers
    <2>4. Drained' /\ HandlerHasCode'
        BY <1>1, <2>1 DEF LoginInv, Drained, HandlerHasCode
    <2>5. ArmedIsFree' /\ PhaseTells'
        BY <1>1, <2>1 DEF LoginInv, ArmedIsFree, PhaseTells
    <2> QED
        BY <1>2, <2>2, <2>3, <2>4, <2>5 DEF LoginInv
<1>7. CASE PressStop
    <2>1. "stop" \in Stoppers /\ Idle("stop") /\ Press("stop")
        BY <1>7 DEF PressStop, Stoppers
    <2> QED
        BY <1>1, <1>6, <2>1
<1>8. CASE PressCleanup
    <2>1. "cleanup" \in Stoppers /\ Idle("cleanup") /\ Press("cleanup")
        BY <1>8 DEF PressCleanup, Stoppers
    <2> QED
        BY <1>1, <1>6, <2>1
<1> QED
    BY <1>1, <1>3, <1>4, <1>5, <1>7, <1>8 DEF UserStep

\* The part of a stop that concerns no connection.
LEMMA StopperMovesKeep ==
    ASSUME Typed, AccountInv, LoginInv, NEW p \in Stoppers,
           UNCHANGED <<starter, proxyUp, armed, conn, chan, handler, userChoice>>,
           \A q \in Stoppers : q # p => stopper'[q] = stopper[q],
           p = "starter" /\ Idle(p)' => Idle(p) \/ ~live,
           ~live', HoldsStopLock(p)' => HoldsStopLock(p) \/ \A q \in Stoppers : ~HoldsStopLock(q),
           proxyUp => \E q \in Stoppers : stopper'[q].pc = "tasks" /\ stopper'[q].sess
    PROVE  LoginInv' /\ Settles
<1>1. Settles /\ (Free' <=> Free)
    BY SameSettles DEF SameConns
<1>2. OneStops'
    BY DEF LoginInv, OneStops, HoldsStopLock
<1>3. ProxyLives' /\ ConnsLive' /\ StartsClean'
    BY DEF LoginInv, ProxyLives, ConnsLive, StartsClean
<1>4. Drained' /\ HandlerHasCode'
    BY DEF LoginInv, Drained, HandlerHasCode
<1>5. OneLogin' /\ ArmedIsFree' /\ PhaseTells'
    BY <1>1 DEF LoginInv, OneLogin, Settles, ArmedIsFree, PhaseTells
<1> QED
    BY <1>1, <1>2, <1>3, <1>4, <1>5 DEF LoginInv

LEMMA StopTasksEnds ==
    ASSUME Typed, AccountInv, LoginInv, NEW p \in Stoppers, StopTasks(p)
    PROVE  LoginInv' /\ Settles /\ ~proxyUp'
<1>1. /\ stopper[p].pc = "tasks" /\ stopper'[p].pc = "recover"
      /\ \A q \in Stoppers : q # p => stopper'[q] = stopper[q]
      /\ UNCHANGED <<starter, live, armed, userChoice, status>>
    BY DEF StopTasks, lifeVars, viewVars, Typed, TypeOK, Stopper
<1>2. ~live
    BY <1>1 DEF AccountInv, StoppingIsDead
<1>3. ~proxyUp'
    <2>1. CASE proxyUp
        <3>1. PICK q \in Stoppers : stopper[q].pc = "tasks" /\ stopper[q].sess
            BY <1>2, <2>1 DEF LoginInv, ProxyLives
        <3>2. q = p
            BY <1>1, <3>1 DEF LoginInv, OneStops, HoldsStopLock
        <3> QED
            BY <3>1, <3>2 DEF StopTasks
    <2> QED
        BY <2>1 DEF StopTasks
<1>4. \A c \in Conns : /\ conn'[c].choice = conn[c].choice
                       /\ conn'[c].pc \in {conn[c].pc, "gone"}
    BY DEF StopTasks, Typed, TypeOK, Conn
<1>5. \A c \in Conns : conn'[c].pc \notin {"tls", "opening", "relay"}
    <2>1. CASE stopper[p].sess
        BY <2>1 DEF StopTasks, Typed, TypeOK, Conn
    <2>2. CASE ~stopper[p].sess
        <3>1. ~proxyUp /\ conn' = conn
            BY <1>3, <2>2 DEF StopTasks
        <3> QED
            BY <3>1 DEF LoginInv, ConnsLive
    <2> QED
        BY <2>1, <2>2
<1>6. \/ stopper[p].cap /\ chan' = <<>> /\ handler'.pc = "none" /\ handler'.code = NoCode
      \/ ~stopper[p].cap /\ chan' = chan /\ handler' = handler
    BY DEF StopTasks, NoLogin
<1>7. NoRelay'
    BY <1>5 DEF NoRelay
<1>8. Settles /\ (Free => Free')
    <2>1. CASE stopper[p].cap
        BY <1>6, <1>7, <2>1 DEF Settles, Free
    <2>2. CASE ~stopper[p].cap /\ Free
        BY <1>6, <1>7, <2>2 DEF Settles, Free
    <2>3. ASSUME ~stopper[p].cap, NEW c \in Conns, Carries(c)
          PROVE  Free' \/ Carries(c)'
        BY <1>4, <1>5, <1>6, <1>7, <2>3 DEF Carries, Free
    <2> QED
        BY <2>1, <2>2, <2>3 DEF LoginInv, OneLogin, Settles
<1>9. OneStops' /\ ProxyLives' /\ ConnsLive' /\ StartsClean'
    <2>1. OneStops' /\ ProxyLives'
        BY <1>1, <1>2, <1>3 DEF LoginInv, OneStops, HoldsStopLock, ProxyLives
    <2>2. ConnsLive'
        BY <1>3, <1>4, <1>5 DEF LoginInv, ConnsLive
    <2>3. StartsClean'
        BY <1>1, <1>2, <1>3 DEF LoginInv, StartsClean
    <2> QED
        BY <2>1, <2>2, <2>3
<1>10. Drained' /\ HandlerHasCode'
    BY <1>1, <1>3, <1>6 DEF LoginInv, Drained, HandlerHasCode
<1>11. OneLogin' /\ ArmedIsFree' /\ PhaseTells'
    BY <1>1, <1>2, <1>3, <1>8 DEF LoginInv, OneLogin, Settles, ArmedIsFree, PhaseTells
<1> QED
    BY <1>3, <1>8, <1>9, <1>10, <1>11 DEF LoginInv

LEMMA StopperKeeps ==
    ASSUME Typed, AccountInv, LoginInv, NEW p \in Stoppers, StopperStep(p)
    PROVE  LoginInv' /\ Settles
<1>1. stopper \in [Stoppers -> Stopper]
    BY DEF Typed, TypeOK
<1>2. CASE StopTake(p)
    <2>1. /\ stopper'[p].pc = "tasks" /\ stopper'[p].sess = live
          /\ \A q \in Stoppers : q # p => stopper'[q] = stopper[q]
          /\ \A q \in Stoppers : ~HoldsStopLock(q)
          /\ ~live' /\ UNCHANGED <<starter, proxyUp, armed, conn, chan, handler, userChoice>>
        BY <1>1, <1>2 DEF StopTake, proxyVars
    <2>2. proxyUp => live
        BY <2>1 DEF LoginInv, ProxyLives, HoldsStopLock
    <2> QED
        BY <2>1, <2>2, StopperMovesKeep DEF Idle
<1>3. CASE StopTasks(p)
    BY <1>3, StopTasksEnds
<1>4. ASSUME NEW ok \in BOOLEAN, RecoverNetwork(p, ok)
      PROVE  LoginInv' /\ Settles
    <2>1. /\ stopper[p].pc = "recover" /\ stopper'[p].pc \in {"idle", "clear"}
          /\ \A q \in Stoppers : q # p => stopper'[q] = stopper[q]
          /\ UNCHANGED <<live, starter, proxyUp, armed, conn, chan, handler, userChoice>>
        BY <1>1, <1>4 DEF RecoverNetwork, NoStop, lifeVars, proxyVars
    <2>2. ~live
        BY <2>1 DEF AccountInv, StoppingIsDead
    <2>3. proxyUp => \E q \in Stoppers : stopper'[q].pc = "tasks" /\ stopper'[q].sess
        BY <2>1, <2>2 DEF LoginInv, ProxyLives
    <2> QED
        BY <2>1, <2>2, <2>3, StopperMovesKeep DEF HoldsStopLock
<1>5. CASE ClearIdentity(p) \/ PublishStopped(p)
    <2>1. /\ stopper[p].pc \in {"clear", "publish"} /\ stopper'[p].pc \in {"idle", "publish"}
          /\ \A q \in Stoppers : q # p => stopper'[q] = stopper[q]
          /\ UNCHANGED <<live, starter, proxyUp, armed, conn, chan, handler, userChoice>>
        BY <1>1, <1>5 DEF ClearIdentity, PublishStopped, NoStop, Stopper, lifeVars, proxyVars
    <2>2. ~live
        BY <2>1 DEF AccountInv, StoppingIsDead
    <2>3. proxyUp => \E q \in Stoppers : stopper'[q].pc = "tasks" /\ stopper'[q].sess
        BY <2>1, <2>2 DEF LoginInv, ProxyLives
    <2> QED
        BY <2>1, <2>2, <2>3, StopperMovesKeep DEF HoldsStopLock
<1> QED
    BY <1>2, <1>3, <1>4, <1>5 DEF StopperStep

-----------------------------------------------------------------------------
(* The connections                                                          *)

LEMMA Sending ==
    ASSUME ChanCap >= 2, NEW e \in Event, NEW f \in Event
    PROVE  TrySend(<<>>, e) = <<e>> /\ TrySend(<<e>>, f) = <<e, f>>
<1>1. ChanCap \in Nat
    BY ConstantsOK
<1>2. Append(<<>>, e) = <<e>>
    OBVIOUS
<1>3. Append(<<e>>, f) = <<e, f>>
    <2>1. <<e>> \in Seq(Event) /\ Len(<<e>>) = 1 /\ <<e>>[1] = e
        OBVIOUS
    <2> DEFINE s == Append(<<e>>, f)
    <2>2. s \in Seq(Event) /\ Len(s) = 2 /\ s[1] = e /\ s[2] = f
        BY <2>1
    <2>3. <<e, f>> \in Seq(Event) /\ Len(<<e, f>>) = 2
        OBVIOUS
    <2> HIDE DEF s
    <2> DEFINE t == <<e, f>>
    <2>4. t \in Seq(Event) /\ Len(t) = 2 /\ t[1] = e /\ t[2] = f
        BY <2>3
    <2> HIDE DEF t
    <2>5. Len(s) = Len(t) /\ \A i \in 1 .. Len(s) : s[i] = t[i]
        BY <2>2, <2>4
    <2>6. s = t
        BY <2>2, <2>4, <2>5, SeqEqual
    <2> QED
        BY <2>6 DEF s, t
<1> QED
    BY <1>1, <1>2, <1>3 DEF TrySend

\* What the connections leave alone keeps its part of the invariant.
LEMMA ConnsKeep ==
    ASSUME LoginInv,
           UNCHANGED <<starter, stopper, live, proxyUp, handler, userChoice, status>>,
           OneLogin', ArmedIsFree', ConnsLive',
           handler.pc = "none" => proxyUp,
           live /\ (armed' \/ ~Free') => armed \/ ~Free
    PROVE  LoginInv'
<1>1. OneStops' /\ ProxyLives' /\ StartsClean'
    BY DEF LoginInv, OneStops, HoldsStopLock, ProxyLives, StartsClean, Idle
<1>2. Drained' /\ HandlerHasCode'
    BY DEF LoginInv, Drained, HandlerHasCode, StartsClean
<1>3. PhaseTells'
    BY DEF LoginInv, PhaseTells
<1> QED
    BY <1>1, <1>2, <1>3 DEF LoginInv

\* A connection that comes, or goes without a claim, or whose upgrade is accepted.
LEMMA UnclaimedKeeps ==
    ASSUME Typed, LoginInv, NEW c \in Conns,
           Connect(c) \/ ConnectionFails(c) \/ RelayOpens(c)
    PROVE  LoginInv' /\ Settles
<1>1. /\ UNCHANGED <<starter, stopper, live, proxyUp, armed, handler, chan, userChoice, status>>
      /\ proxyUp
    BY DEF Connect, ConnectionFails, RelayOpens, ConnGoes, lifeVars, viewVars, LoginInv, ConnsLive
<1>2. /\ \A d \in Conns : d # c => conn'[d] = conn[d]
      /\ conn'[c].pc \in {"tls", "relay", "gone"}
      /\ conn'[c].pc = "tls" => conn[c].pc = "unused"
      /\ conn'[c].pc \in InRelay <=> conn[c].pc \in InRelay
      /\ conn'[c].choice = conn[c].choice
    BY DEF Connect, ConnectionFails, RelayOpens, ConnGoes, Typed, TypeOK, Conn
<1>3. Free' <=> Free
    BY <1>1, <1>2 DEF Free, NoRelay
<1>4. ASSUME NEW d \in Conns, Carries(d)
      PROVE  Carries(d)'
    <2>1. /\ \A e \in Conns : conn'[e].pc \in InRelay <=> conn[e].pc \in InRelay
          /\ conn'[d].choice = conn[d].choice
        BY <1>2
    <2> QED
        BY <1>1, <1>4, <2>1 DEF Carries, NoRelay
<1>5. Settles
    BY <1>3, <1>4 DEF LoginInv, OneLogin, Settles
<1>6. OneLogin' /\ ArmedIsFree'
    BY <1>1, <1>3, <1>5 DEF LoginInv, OneLogin, Settles, ArmedIsFree
<1>7. ConnsLive'
    BY <1>1, <1>2 DEF LoginInv, ConnsLive
<1> QED
    BY <1>1, <1>3, <1>5, <1>6, <1>7, ConnsKeep

LEMMA ClaimKeeps ==
    ASSUME ChanCap >= 2, Typed, LoginInv, NEW c \in Conns, ClaimLogin(c)
    PROVE  LoginInv' /\ proxyUp /\ armed /\ Free /\ Carries(c)' /\ conn[c].choice = NoAccount
<1>1. /\ conn[c].pc = "tls" /\ armed /\ ~armed'
      /\ UNCHANGED <<starter, stopper, live, proxyUp, handler, userChoice, status>>
    BY DEF ClaimLogin, ClaimEffect, lifeVars, viewVars
<1>2. proxyUp /\ Free /\ userChoice # NoAccount /\ conn[c].choice = NoAccount
    BY <1>1 DEF LoginInv, ConnsLive, ArmedIsFree
<1>3. /\ \A d \in Conns : d # c => conn'[d] = conn[d]
      /\ conn'[c].pc = (IF CaptureFriends THEN "opening" ELSE "gone")
      /\ conn'[c].choice = userChoice
    BY DEF ClaimLogin, ClaimEffect, Typed, TypeOK, Conn
<1>4. chan' = IF CaptureFriends THEN <<Intercepted(c)>> ELSE <<Intercepted(c), Captured(c)>>
    BY <1>2, Sending, EventType DEF ClaimLogin, ClaimEffect, Free
<1>5. Carries(c)'
    <2>1. \A d \in Conns : conn'[d].pc \in InRelay => d = c
        BY <1>2, <1>3 DEF Free, NoRelay
    <2>2. ~CaptureFriends => NoRelay'
        BY <1>3, <2>1 DEF NoRelay
    <2> QED
        BY <1>1, <1>2, <1>3, <1>4, <2>1, <2>2 DEF Carries, Free
<1>6. OneLogin' /\ ArmedIsFree'
    BY <1>1, <1>5 DEF OneLogin, ArmedIsFree
<1>7. ConnsLive'
    BY <1>1, <1>2, <1>3 DEF LoginInv, ConnsLive
<1> QED
    BY <1>1, <1>2, <1>5, <1>6, <1>7, ConnsKeep

LEMMA RelayEndsKeeps ==
    ASSUME ChanCap >= 2, Typed, LoginInv, NEW c \in Conns, RelayEnds(c)
    PROVE  LoginInv' /\ Settles
<1>1. /\ conn[c].pc \in InRelay /\ proxyUp
      /\ UNCHANGED <<starter, stopper, live, proxyUp, armed, handler, userChoice, status>>
      /\ chan' = TrySend(chan, Captured(c))
    BY DEF RelayEnds, ConnGoes, lifeVars, viewVars, LoginInv, ConnsLive
<1>2. /\ \A d \in Conns : d # c => conn'[d] = conn[d]
      /\ conn'[c].pc = "gone" /\ conn'[c].choice = conn[c].choice
    BY DEF RelayEnds, ConnGoes, Typed, TypeOK, Conn
<1>3. ~Free
    BY <1>1 DEF Free, NoRelay
<1>4. Carries(c)
    BY <1>1, <1>3 DEF LoginInv, OneLogin, Carries
<1>5. NoRelay'
    BY <1>2, <1>4 DEF Carries, NoRelay
<1>6. chan' = <<Captured(c)>> \/ chan' = <<Intercepted(c), Captured(c)>>
    <2>1. chan = <<>> \/ chan = <<Intercepted(c)>>
        BY <1>1, <1>4 DEF Carries, NoRelay
    <2> QED
        BY <1>1, <2>1, Sending, EventType
<1>7. handler.code = NoCode
    BY <1>1, <1>4 DEF Carries, NoRelay
<1>8. Carries(c)'
    BY <1>1, <1>2, <1>4, <1>5, <1>6, <1>7 DEF Carries, NoRelay
<1>9. OneLogin' /\ ArmedIsFree'
    BY <1>1, <1>3, <1>8 DEF LoginInv, OneLogin, ArmedIsFree
<1>10. ConnsLive'
    BY <1>1, <1>2 DEF LoginInv, ConnsLive
<1> QED
    BY <1>1, <1>3, <1>4, <1>8, <1>9, <1>10, ConnsKeep DEF Settles

-----------------------------------------------------------------------------
(* The handler                                                              *)

LEMMA HandlerRest ==
    ASSUME LoginInv, HandlerStep
    PROVE  UNCHANGED <<starter, stopper, live, proxyUp, armed, userChoice>>
BY DEF HandlerStep, HandleIntercepted, HandleCaptured, RevalidateRead, RevalidateWrite,
       FinishLocally, StartSync, SyncSucceeds, SyncFails, SyncFriends, FinishSync, HandlerEnds,
       HandlerDone, HandlerOnly, lifeVars

\* A step of the handler that settles its login or leaves it in flight.
LEMMA HandlerKeepsBy ==
    ASSUME LoginInv, HandlerStep, SameConns, Settles, Free => Free' /\ UNCHANGED status,
           HandlerHasCode', Free' \/ status'.phase \in {"waiting_login", "code_captured", "syncing"},
           handler'.pc = "none" => chan' = <<>> /\ ~proxyUp
    PROVE  LoginInv'
<1>1. UNCHANGED <<starter, stopper, live, proxyUp, armed, userChoice>>
    BY HandlerRest
<1>2. OneLogin'
    BY DEF Settles, OneLogin
<1>3. OneStops' /\ ProxyLives' /\ ConnsLive' /\ StartsClean'
    BY <1>1 DEF LoginInv, OneStops, HoldsStopLock, ProxyLives, ConnsLive, SameConns, StartsClean, Idle
<1>4. Drained'
    BY <1>1 DEF LoginInv, Drained
<1>5. ArmedIsFree' /\ PhaseTells'
    BY <1>1 DEF LoginInv, ArmedIsFree, PhaseTells
<1> QED
    BY <1>2, <1>3, <1>4, <1>5 DEF LoginInv

\* What a sync records is not a matter of the exchange.
LEMMA RecordedSame ==
    ASSUME TypeOK, NEW c \in Conns
    PROVE  Recorded[c].pc = conn[c].pc /\ Recorded[c].choice = conn[c].choice
<1>1. conn \in [Conns -> Conn]
    BY DEF TypeOK
<1>2. ASSUME NEW r \in Conn, NEW u, u = [r EXCEPT !.synced = handler.acct]
      PROVE  u.pc = r.pc /\ u.choice = r.choice
    BY <1>2 DEF Conn
<1>3. Recorded[c] = conn[c] \/ Recorded[c] = [conn[c] EXCEPT !.synced = handler.acct]
    BY <1>1 DEF Recorded
<1> QED
    BY <1>1, <1>2, <1>3

\* The steps that work on a Code and keep it.
LEMMA WorkKeeps ==
    ASSUME Typed, LoginInv,
           \/ RevalidateRead \/ \E confirmed \in BOOLEAN : RevalidateWrite(confirmed)
           \/ StartSync \/ SyncSucceeds \/ SyncFriends
    PROVE  LoginInv' /\ Settles
<1>1. HandlerStep
    BY DEF HandlerStep
<1>2. UNCHANGED <<starter, stopper, live, proxyUp, armed, userChoice, chan>>
    BY <1>1, HandlerRest DEF RevalidateRead, RevalidateWrite, StartSync, SyncSucceeds, SyncFriends
<1>3. SameConns
    <2>1. conn' = conn \/ conn' = Recorded
        BY DEF RevalidateRead, RevalidateWrite, StartSync, SyncSucceeds, SyncFriends
    <2> QED
        BY <2>1, RecordedSame DEF SameConns, Typed
<1>4. /\ handler.pc \notin {"none", "recv"} /\ handler'.pc \notin {"none", "recv"}
      /\ handler'.code = handler.code
    BY DEF RevalidateRead, RevalidateWrite, StartSync, SyncSucceeds, SyncFriends, Typed, TypeOK,
           Handler
<1>5. status'.phase \in {"syncing", status.phase}
    BY PublishPhase DEF RevalidateRead, RevalidateWrite, StartSync, SyncSucceeds, SyncFriends,
           viewVars
<1> QED
    BY <1>2, <1>3, <1>4, <1>5, QuietKeeps

LEMMA InterceptedKeeps ==
    ASSUME Typed, LoginInv, HandleIntercepted
    PROVE  LoginInv' /\ Settles
<1>1. /\ chan # <<>> /\ Head(chan).type = "Intercepted" /\ chan' = Tail(chan)
      /\ conn' = conn /\ handler' = handler /\ handler.pc = "recv"
      /\ status'.phase = "code_captured" /\ HandlerStep
    BY DEF HandleIntercepted, Emit, HandlerStep
<1>2. ~Free
    BY <1>1 DEF Free
<1>3. PICK c \in Conns : Carries(c)
    BY <1>2 DEF LoginInv, OneLogin
<1>4. chan = <<Intercepted(c)>> \/ chan = <<Intercepted(c), Captured(c)>>
    <2>1. CASE chan = <<Captured(c)>>
        BY <1>1, <2>1, Events
    <2> QED
        BY <1>1, <1>3, <2>1 DEF Carries
<1>5. Free' \/ Carries(c)'
    <2>1. CASE chan = <<Intercepted(c)>>
        <3>1. chan' = <<>> /\ handler.code = NoCode
            BY <1>1, <2>1 DEF LoginInv, HandlerHasCode
        <3> QED
            BY <1>1, <1>3, <3>1 DEF Carries, Free, NoRelay
    <2>2. CASE chan = <<Intercepted(c), Captured(c)>>
        <3>1. chan' = <<Captured(c)>>
            BY <1>1, <2>2
        <3>2. NoRelay /\ handler.code = NoCode
            BY <1>3, <2>2, Events DEF Carries
        <3> QED
            BY <1>1, <1>3, <3>1, <3>2 DEF Carries, NoRelay
    <2> QED
        BY <1>4, <2>1, <2>2
<1>6. Settles /\ SameConns
    BY <1>1, <1>3, <1>5 DEF Settles, SameConns
<1> QED
    BY <1>1, <1>2, <1>6, HandlerKeepsBy DEF LoginInv, HandlerHasCode

LEMMA CapturedKeeps ==
    ASSUME Typed, LoginInv, HandleCaptured
    PROVE  LoginInv' /\ Settles
<1>1. /\ chan # <<>> /\ Head(chan).type = "Captured" /\ chan' = Tail(chan)
      /\ conn' = conn /\ handler' = [handler EXCEPT !.pc = "captured", !.code = Head(chan).code]
      /\ status'.phase = "code_captured" /\ HandlerStep
    BY PublishPhase DEF HandleCaptured, HandlerStep
<1>2. ~Free
    BY <1>1 DEF Free
<1>3. PICK c \in Conns : Carries(c)
    BY <1>2 DEF LoginInv, OneLogin
<1>4. chan = <<Captured(c)>> /\ NoRelay
    <2>1. CASE chan = <<Intercepted(c)>> \/ chan = <<Intercepted(c), Captured(c)>>
        BY <1>1, <2>1, Events
    <2> QED
        BY <1>1, <1>3, <2>1 DEF Carries
<1>5. chan' = <<>> /\ handler'.code = c /\ handler'.pc = "captured"
    BY <1>1, <1>4, Events DEF Typed, TypeOK, Handler
<1>6. Carries(c)' /\ c # NoCode
    BY <1>1, <1>3, <1>4, <1>5, ConstantsOK DEF Carries, NoRelay
<1>7. Settles /\ SameConns
    BY <1>1, <1>3, <1>6 DEF Settles, SameConns
<1> QED
    BY <1>1, <1>2, <1>5, <1>6, <1>7, HandlerKeepsBy DEF HandlerHasCode

\* The result of a login is published, or the task ends.
LEMMA ResultKeeps ==
    ASSUME Typed, LoginInv, FinishLocally \/ SyncFails \/ FinishSync \/ HandlerEnds
    PROVE  LoginInv' /\ Settles
<1>1. /\ HandlerStep /\ SameConns /\ chan' = chan
      /\ handler'.code = NoCode /\ handler'.pc \in {"none", "recv"}
    <2>1. HandlerStep
        BY DEF HandlerStep
    <2>2. conn' = conn \/ conn' = Recorded
        BY DEF FinishLocally, SyncFails, FinishSync, HandlerEnds
    <2>3. SameConns
        BY <2>2, RecordedSame DEF SameConns, Typed
    <2>4. chan' = chan /\ (handler' = NoLogin \/ handler' = [NoLogin EXCEPT !.pc = "recv"])
        BY DEF FinishLocally, SyncFails, FinishSync, HandlerEnds, HandlerDone
    <2> QED
        BY <2>1, <2>3, <2>4 DEF NoLogin
<1>2. CASE handler.code # NoCode
    <2>1. PICK c \in Conns : Carries(c)
        BY <1>2 DEF LoginInv, OneLogin, Free
    <2>2. NoRelay /\ chan = <<>>
        BY <1>2, <2>1 DEF Carries
    <2>3. Free' /\ ~Free
        BY <1>1, <1>2, <2>2 DEF Free, NoRelay, SameConns
    <2>4. handler'.pc = "recv"
        BY <1>2 DEF FinishLocally, SyncFails, FinishSync, HandlerEnds, HandlerDone, NoLogin,
           LoginInv, HandlerHasCode
    <2> QED
        BY <1>1, <2>3, <2>4, HandlerKeepsBy DEF Settles, HandlerHasCode
<1>3. CASE handler.code = NoCode
    <2>1. HandlerEnds
        BY <1>3 DEF FinishLocally, SyncFails, FinishSync, LoginInv, HandlerHasCode
    <2>2. chan = <<>> /\ ~proxyUp /\ status' = status /\ conn' = conn
        BY <2>1 DEF HandlerEnds, viewVars
    <2>3. Free /\ Free'
        BY <1>1, <1>3, <2>2 DEF Free, NoRelay, LoginInv, ConnsLive
    <2> QED
        BY <1>1, <2>2, <2>3, HandlerKeepsBy DEF Settles, HandlerHasCode
<1> QED
    BY <1>2, <1>3

LEMMA HandlerKeeps ==
    ASSUME Typed, LoginInv, HandlerStep
    PROVE  LoginInv' /\ Settles
BY WorkKeeps, InterceptedKeeps, CapturedKeeps, ResultKeeps DEF HandlerStep

-----------------------------------------------------------------------------
(* The invariant is inductive                                               *)

LEMMA LoginInit == Init => LoginInv
BY DEF Init, LoginInv, OneStops, HoldsStopLock, ProxyLives, ConnsLive, StartsClean, Drained,
       HandlerHasCode, OneLogin, Free, NoRelay, ArmedIsFree, PhaseTells, NoStop, NoLogin

LEMMA UnchangedKeeps == LoginInv /\ UNCHANGED vars => LoginInv' /\ Settles
BY QuietKeeps DEF vars, lifeVars, viewVars, proxyVars, SameConns

\* Every step that is not a claim settles.
LEMMA LoginNext ==
    ASSUME ~Overlap, ChanCap >= 2, Typed, AccountInv, LoginInv, [Next]_vars
    PROVE  LoginInv' /\ (Settles \/ \E c \in Conns : ClaimLogin(c))
<1>1. CASE StarterStep \/ UserStep \/ HandlerStep \/ UNCHANGED vars
    BY <1>1, StarterKeeps, UserKeeps, HandlerKeeps, UnchangedKeeps
<1>2. ASSUME NEW p \in Stoppers, StopperStep(p)
      PROVE  LoginInv' /\ Settles
    BY <1>2, StopperKeeps
<1>3. ASSUME NEW c \in Conns, Connect(c) \/ ConnectionStep(c)
      PROVE  LoginInv' /\ (Settles \/ ClaimLogin(c))
    BY <1>3, UnclaimedKeeps, ClaimKeeps, RelayEndsKeeps DEF ConnectionStep
<1>4. ASSUME NEW s \in Session, MonitorStep(s)
      PROVE  LoginInv' /\ Settles
    BY <1>4, MonitorKeeps
<1> QED
    BY <1>1, <1>2, <1>3, <1>4 DEF Next

-----------------------------------------------------------------------------
(* Every step is a step of LoginExchange                                    *)

\* A login is chosen for by its claim, and by nothing else.
LEMMA ChoicesStay ==
    ASSUME Typed, [Next]_vars, \A c \in Conns : ~ClaimLogin(c)
    PROVE  Claimed' = Claimed
<1> SUFFICES \A c \in Conns : conn'[c].choice = conn[c].choice
    BY DEF Claimed
<1>1. ASSUME conn' = conn
      PROVE  \A c \in Conns : conn'[c].choice = conn[c].choice
    BY <1>1
<1>2. ASSUME NEW d \in Conns, Connect(d) \/ ConnectionStep(d)
      PROVE  \A c \in Conns : conn'[c].choice = conn[c].choice
    <2>1. PICK pc : conn' = [conn EXCEPT ![d].pc = pc]
        BY <1>2 DEF Connect, ConnectionStep, ConnectionFails, RelayOpens, RelayEnds, ConnGoes
    <2>2. \A c \in Conns : conn'[c] = conn[c] \/ conn'[c] = [conn[c] EXCEPT !.pc = pc]
        BY <2>1 DEF Typed, TypeOK
    <2>3. ASSUME NEW r \in Conn, NEW u, u = [r EXCEPT !.pc = pc]
          PROVE  u.choice = r.choice
        BY <2>3 DEF Conn
    <2>4. \A c \in Conns : conn[c] \in Conn
        BY DEF Typed, TypeOK
    <2> QED
        BY <2>2, <2>3, <2>4
<1>3. ASSUME NEW p \in Stoppers, StopTasks(p)
      PROVE  \A c \in Conns : conn'[c].choice = conn[c].choice
    BY <1>3 DEF StopTasks, Typed, TypeOK, Conn
<1>4. ASSUME NEW p \in Stoppers, StopperStep(p), ~StopTasks(p)
      PROVE  conn' = conn
    BY <1>4 DEF StopperStep, StopTake, RecoverNetwork, ClearIdentity, PublishStopped, proxyVars
<1>5. CASE HandlerStep
    <2>1. conn' = conn \/ conn' = Recorded
        BY <1>5 DEF HandlerStep, HandleIntercepted, HandleCaptured, RevalidateRead,
           RevalidateWrite, FinishLocally, StartSync, SyncSucceeds, SyncFails, SyncFriends,
           FinishSync, HandlerEnds
    <2> QED
        BY <2>1, RecordedSame DEF Typed
<1>6. ASSUME StarterStep \/ UserStep \/ (\E s \in Session : MonitorStep(s)) \/ UNCHANGED vars
      PROVE  conn' = conn
    BY <1>6 DEF StarterStep, PrepareFails, StoreTransport, EnableProxySucceeds, EnableProxyFails,
       StartFails, PublishStarted, SpawnMonitor, StoreMonitor, SpawnHandler, StarterGoes,
       UserStep, Begin, Arm, CancelAccountSync, CancelEffect, PressStop, PressCleanup, Press,
       MonitorStep, MonitorTick, MonitorRead, AdoptIdentity, MarkUnconfirmed, MonitorGoes,
       proxyVars, vars
<1> QED
    BY <1>1, <1>2, <1>3, <1>4, <1>5, <1>6 DEF Next

\* The arming that counts appears only with an arm_account or with a start for an account.
LEMMA ArmingsAppear ==
    ASSUME ~Overlap, Typed, AccountInv, LoginInv, [Next]_vars, armed' /\ proxyUp'
    PROVE  (armed /\ proxyUp) \/ StoreTransport \/ \E a \in Accounts : Arm(a)
<1>1. CASE StarterStep
    BY <1>1 DEF StarterStep, PrepareFails, EnableProxySucceeds, EnableProxyFails, StartFails,
       PublishStarted, SpawnMonitor, StoreMonitor, SpawnHandler, proxyVars
<1>2. CASE UserStep
    BY <1>2 DEF UserStep, Begin, CancelAccountSync, CancelEffect, PressStop, PressCleanup, Press,
       proxyVars
<1>3. ASSUME NEW p \in Stoppers, StopperStep(p)
      PROVE  armed /\ proxyUp
    BY <1>3 DEF StopperStep, StopTake, StopTasks, RecoverNetwork, ClearIdentity, PublishStopped,
       proxyVars
<1>4. ASSUME NEW c \in Conns, Connect(c) \/ ConnectionStep(c)
      PROVE  armed /\ proxyUp
    BY <1>4 DEF Connect, ConnectionStep, ConnectionFails, ClaimLogin, ClaimEffect, RelayOpens, RelayEnds,
       ConnGoes
<1>5. CASE HandlerStep
    BY <1>5, HandlerRest
<1>6. ASSUME NEW s \in Session, MonitorStep(s)
      PROVE  armed /\ proxyUp
    BY <1>6 DEF MonitorStep, MonitorTick, MonitorRead, AdoptIdentity, MarkUnconfirmed,
       MonitorGoes, proxyVars
<1>7. CASE UNCHANGED vars
    BY <1>7 DEF vars, proxyVars
<1> QED
    BY <1>1, <1>2, <1>3, <1>4, <1>5, <1>6, <1>7 DEF Next

\* A start begins with no login in flight.
LEMMA StoresFree == ASSUME Typed, AccountInv, LoginInv, StoreTransport PROVE Free /\ ~proxyUp
<1>1. starter.pc = "prepare" /\ ~proxyUp
    BY DEF StoreTransport
<1>2. handler.pc = "none"
    BY <1>1 DEF AccountInv, HandlerAfterStart
<1> QED
    BY <1>1, <1>2 DEF LoginInv, Drained, HandlerHasCode, ConnsLive, Free, NoRelay

\* An arm_account that is not refused finds no login in flight.
LEMMA ArmsFree ==
    ASSUME LoginInv, NEW a \in Accounts, Arm(a)
    PROVE  Free /\ Free' /\ proxyUp' /\ armed'
<1>1. starter.pc = "idle" /\ live /\ ~CaptureInProgress
    BY DEF Arm
<1>2. Free /\ proxyUp
    BY <1>1 DEF LoginInv, PhaseTells, ArmedIsFree, CaptureInProgress, ProxyLives
<1> QED
    BY <1>2 DEF Arm, Free, NoRelay

LEMMA ClaimedCarries ==
    ASSUME TypeOK, NEW c \in Conns, Carries(c) PROVE InFlight = {c} /\ c \in Claimed
BY CarriedIsInFlight DEF Carries, Claimed

\* The same of the next state.
LEMMA EmptyNext == (TypeOK /\ Free => InFlight = {})'
<1>1. TypeOK /\ Free => InFlight = {}
    BY FreeIsEmpty
<1> QED
    BY <1>1, PTL

LEMMA CarriedNext == (TypeOK => \A c \in Conns : Carries(c) => InFlight = {c})'
<1>1. TypeOK => \A c \in Conns : Carries(c) => InFlight = {c}
    BY CarriedIsInFlight
<1> QED
    BY <1>1, PTL

LEMMA SettlesImplements ==
    ASSUME TypeOK, TypeOK', LoginInv, Settles, Claimed' = Claimed,
           (armed' /\ proxyUp') => (armed /\ proxyUp)
    PROVE  [Exchange!Next]_Exchange!vars
<1>1. armed \in BOOLEAN /\ proxyUp \in BOOLEAN /\ armed' \in BOOLEAN /\ proxyUp' \in BOOLEAN
    BY DEF TypeOK
<1>2. CASE InFlight' = InFlight
    <2>1. CASE (armed' /\ proxyUp') = (armed /\ proxyUp)
        BY <1>2, <2>1 DEF Exchange!vars
    <2>2. CASE (armed' /\ proxyUp') = FALSE
        BY <1>2, <2>2 DEF Exchange!Next, Exchange!Disarm
    <2> QED
        BY <1>1, <2>1, <2>2
<1>3. ASSUME NEW c \in Conns, Carries(c), Free'
      PROVE  [Exchange!Next]_Exchange!vars
    <2>1. InFlight = {c} /\ c \in Claimed /\ InFlight' = {}
        BY <1>3, ClaimedCarries, EmptyNext
    <2>2. Claimed' \ InFlight' = (Claimed \ InFlight) \cup {c}
        BY <2>1
    <2>3. CASE (armed' /\ proxyUp') = (armed /\ proxyUp)
        BY <2>1, <2>2, <2>3 DEF Exchange!Next, Exchange!Resolve
    <2>4. CASE (armed' /\ proxyUp') = FALSE
        BY <2>1, <2>2, <2>4 DEF Exchange!Next, Exchange!GiveUp
    <2> QED
        BY <1>1, <2>3, <2>4
<1>4. CASE Free /\ Free'
    BY <1>2, <1>4, FreeIsEmpty, EmptyNext
<1>5. ASSUME NEW c \in Conns, Carries(c), Carries(c)'
      PROVE  InFlight' = InFlight
    BY <1>5, CarriedIsInFlight, CarriedNext
<1> QED
    BY <1>2, <1>3, <1>4, <1>5 DEF Settles, LoginInv, OneLogin

LEMMA ExchangeStep ==
    ASSUME ~Overlap, ChanCap >= 2, Typed, Typed', AccountInv, LoginInv, [Next]_vars
    PROVE  [Exchange!Next]_Exchange!vars
<1>1. TypeOK /\ TypeOK' /\ armed \in BOOLEAN /\ proxyUp \in BOOLEAN
    BY DEF Typed, TypeOK
<1>2. ASSUME NEW c \in Conns, ClaimLogin(c)
      PROVE  Exchange!Next
    <2>1. /\ (armed /\ proxyUp) /\ Free /\ Carries(c)' /\ conn[c].choice = NoAccount
          /\ armed' = FALSE
        BY <1>2, ClaimKeeps DEF ClaimLogin
    <2>2. InFlight = {} /\ InFlight' = {c}
        BY <1>1, <2>1, FreeIsEmpty, CarriedNext
    <2>3. \A d \in Conns : d # c => conn'[d].choice = conn[d].choice
        BY <1>2 DEF ClaimLogin, ClaimEffect, Typed, TypeOK
    <2>4. Claimed' = Claimed \cup {c} /\ c \notin Claimed
        BY <2>1, <2>3 DEF Carries, Claimed
    <2>5. Claimed' \ InFlight' = Claimed \ InFlight /\ c \notin Claimed \ InFlight
        BY <2>2, <2>4
    <2>6. (armed' /\ proxyUp') = FALSE
        BY <2>1
    <2>7. Exchange!Claim(c)
        BY <2>1, <2>2, <2>5, <2>6 DEF Exchange!Claim
    <2> QED
        BY <2>7 DEF Exchange!Next
<1>3. ASSUME Free, Free', armed' /\ proxyUp', \A c \in Conns : ~ClaimLogin(c)
      PROVE  Exchange!Next
    <2>1. InFlight = {} /\ InFlight' = {}
        BY <1>1, <1>3, FreeIsEmpty, EmptyNext
    <2>2. Claimed' \ InFlight' = Claimed \ InFlight
        BY <1>3, <2>1, ChoicesStay
    <2>3. (armed' /\ proxyUp') = TRUE
        BY <1>3
    <2>4. Exchange!Arm
        BY <2>1, <2>2, <2>3 DEF Exchange!Arm
    <2> QED
        BY <2>4 DEF Exchange!Next
<1>4. ASSUME \A c \in Conns : ~ClaimLogin(c)
      PROVE  [Exchange!Next]_Exchange!vars
    <2>1. Settles /\ Claimed' = Claimed
        BY <1>4, LoginNext, ChoicesStay
    <2>2. CASE (armed' /\ proxyUp') => (armed /\ proxyUp)
        BY <1>1, <2>1, <2>2, SettlesImplements
    <2>3. CASE (armed' /\ proxyUp') /\ StoreTransport
        <3>1. Free
            BY <2>3, StoresFree
        <3>2. Free'
            <4>1. chan' = <<>> /\ conn' = conn /\ handler' = handler
                BY <2>3 DEF StoreTransport
            <4> QED
                BY <3>1, <4>1 DEF Free, NoRelay
        <3> QED
            BY <1>3, <1>4, <2>3, <3>1, <3>2
    <2>4. ASSUME NEW a \in Accounts, Arm(a)
          PROVE  Exchange!Next
        BY <1>3, <1>4, <2>4, ArmsFree
    <2> QED
        BY <2>2, <2>3, <2>4, ArmingsAppear
<1> QED
    BY <1>2, <1>4

\* Whatever the numbers of accounts, connections and sessions: one login takes an arming,
\* nothing is armed again while it has no result, and it has one result (proxy.rs's swap,
\* the channel, the capture handler and stop_transport together), if no start begins
\* during a stop and the channel holds the two events of a login (app_state.rs gives it 4).
THEOREM CaptureIsExchange == ~Overlap /\ ChanCap >= 2 => (Spec => ImplementsExchange)
<1> SUFFICES ASSUME ~Overlap, ChanCap >= 2 PROVE Spec => ImplementsExchange
    OBVIOUS
<1> DEFINE Inv == Typed /\ AccountInv /\ LoginInv
<1>1. Init => Inv
    BY InitTyped, AccountInit, LoginInit
<1>2. Inv /\ [Next]_vars => Inv'
    BY NextTyped, AccountNext, LoginNext
<1>3. Init => Exchange!Init
    <2> SUFFICES ASSUME Init PROVE Exchange!Init
        OBVIOUS
    <2>1. Typed /\ Free /\ Claimed = {} /\ ~armed
        BY InitTyped DEF Init, Free, NoRelay, NoLogin, Claimed
    <2>2. InFlight = {} /\ (armed /\ proxyUp) = FALSE
        BY <2>1, FreeIsEmpty DEF Typed
    <2> QED
        BY <2>1, <2>2 DEF Exchange!Init
<1>4. Inv /\ Inv' /\ [Next]_vars => [Exchange!Next]_Exchange!vars
    BY ExchangeStep
<1> QED
    BY <1>1, <1>2, <1>3, <1>4, PTL DEF Spec, ImplementsExchange, Exchange!Spec

\* What follows from the exchange alone: no second login, no arming beside a login in
\* flight, no login that comes back.
LEMMA ExchangeIsExclusive == Exchange!Spec => []Exchange!OneAtATime
<1> DEFINE One == Exchange!OneAtATime
<1>1. Exchange!Init => One
    BY DEF Exchange!Init, Exchange!OneAtATime
<1>2. One /\ [Exchange!Next]_Exchange!vars => One'
    <2> SUFFICES ASSUME One, [Exchange!Next]_Exchange!vars PROVE One'
        OBVIOUS
    <2>1. CASE Exchange!Arm
        BY <2>1 DEF Exchange!OneAtATime, Exchange!Arm
    <2>2. CASE Exchange!Disarm
        BY <2>2 DEF Exchange!OneAtATime, Exchange!Disarm
    <2>3. CASE Exchange!GiveUp
        BY <2>3 DEF Exchange!OneAtATime, Exchange!GiveUp
    <2>4. ASSUME NEW c \in Conns, Exchange!Claim(c) PROVE One'
        BY <2>4 DEF Exchange!OneAtATime, Exchange!Claim
    <2>5. ASSUME NEW c \in Conns, Exchange!Resolve(c) PROVE One'
        BY <2>5 DEF Exchange!OneAtATime, Exchange!Resolve
    <2>6. CASE UNCHANGED Exchange!vars
        BY <2>6 DEF Exchange!OneAtATime, Exchange!vars
    <2> QED
        BY <2>1, <2>2, <2>3, <2>4, <2>5, <2>6 DEF Exchange!Next
<1> QED
    BY <1>1, <1>2, PTL DEF Exchange!Spec

\* One login at a time takes an arming, none is taken while a result is due, and each has
\* one result (the swap of armed in intercept_target, arm_account's refusals): what the
\* exchange promises, carried over to the capture session.
THEOREM LoginsAreExclusive == ~Overlap /\ ChanCap >= 2 => (Spec => []Exchange!OneAtATime)
<1> SUFFICES ASSUME ~Overlap, ChanCap >= 2 PROVE Spec => []Exchange!OneAtATime
    OBVIOUS
<1>1. Spec => Exchange!Spec
    BY CaptureIsExchange DEF ImplementsExchange
<1> QED
    BY <1>1, ExchangeIsExclusive, PTL

\* The invariant holds of every behaviour.
LEMMA LoginCorrect ==
    ~Overlap /\ ChanCap >= 2 => (Spec => [](TypeOK /\ LoginInv))
<1> SUFFICES ASSUME ~Overlap, ChanCap >= 2 PROVE Spec => [](TypeOK /\ LoginInv)
    OBVIOUS
<1>1. Init => Typed /\ AccountInv /\ LoginInv
    BY InitTyped, AccountInit, LoginInit
<1>2. Typed /\ AccountInv /\ LoginInv /\ [Next]_vars => (Typed /\ AccountInv /\ LoginInv)'
    BY NextTyped, AccountNext, LoginNext
<1>3. Typed => TypeOK
    BY DEF Typed
<1> QED
    BY <1>1, <1>2, <1>3, PTL DEF Spec

\* The ignored results of try_send in proxy.rs lose nothing: with room for the two events
\* of one login the channel never is full when a login has something to report.
THEOREM NothingIsDropped == ~Overlap /\ ChanCap >= 2 => (Spec => []NoEventIsDropped)
<1>1. ASSUME ChanCap >= 2, LoginInv PROVE NoEventIsDropped
    <2>1. ChanCap \in Nat
        BY ConstantsOK
    <2>2. ASSUME NEW c \in Conns, conn[c].pc \in InRelay
          PROVE  Len(chan) < ChanCap
        <3>1. Carries(c)
            BY <1>1, <2>2 DEF LoginInv, OneLogin, Carries, Free, NoRelay
        <3>2. chan = <<>> \/ chan = <<Intercepted(c)>>
            BY <2>2, <3>1 DEF Carries, NoRelay
        <3>3. Len(chan) = 0 \/ Len(chan) = 1
            BY <3>2
        <3> QED
            BY <1>1, <2>1, <3>3
    <2>3. ASSUME armed
          PROVE  Len(chan) + 2 <= ChanCap
        <3>1. Len(chan) = 0
            BY <1>1, <2>3 DEF LoginInv, ArmedIsFree, Free
        <3> QED
            BY <1>1, <2>1, <3>1
    <2> QED
        BY <2>2, <2>3 DEF NoEventIsDropped
<1> SUFFICES ASSUME ~Overlap, ChanCap >= 2 PROVE Spec => []NoEventIsDropped
    OBVIOUS
<1>2. TypeOK /\ LoginInv => NoEventIsDropped
    BY <1>1
<1> QED
    BY <1>2, LoginCorrect, PTL

\* A window that shows a ready proxy tells the truth: a cancel and a claim exclude each
\* other (cancel_account_sync and intercept_target swap the same flag).
THEOREM ReadyIsTrue == ~Overlap /\ ChanCap >= 2 => (Spec => []ReadyMeansDisarmed)
<1>1. ASSUME TypeOK, LoginInv PROVE ReadyMeansDisarmed
    <2>1. Free => \A c \in Conns : ~Unresolved(c)
        BY <1>1, FreeIsEmpty DEF InFlight
    <2> QED
        BY <1>1, <2>1 DEF LoginInv, PhaseTells, ReadyMeansDisarmed
<1> SUFFICES ASSUME ~Overlap, ChanCap >= 2 PROVE Spec => []ReadyMeansDisarmed
    OBVIOUS
<1>2. TypeOK /\ LoginInv => ReadyMeansDisarmed
    BY <1>1
<1> QED
    BY <1>2, LoginCorrect, PTL

-----------------------------------------------------------------------------
(***************************************************************************)
(* What the window shows while a login is processed.                       *)
(*                                                                         *)
(* RefusalHasCause is the converse of PhaseTells: a phase that refuses a   *)
(* switch stands only while a login is in flight.  SyncsTheShownRow needs  *)
(* that the row is fixed when the login is noticed (HandleIntercepted) and *)
(* that neither the selection nor the phase moves until its result is out. *)
(***************************************************************************)

\* A login of which the channel holds only the first event still is in its relay.
ReportIsDue == live => \A c \in Conns : chan = <<Intercepted(c)>> => conn[c].pc \in InRelay

\* A phase that refuses a switch has a login in flight; a start for an account leaves
\* it armed, or claimed, until it publishes.
CauseTells ==
    live => /\ CaptureInProgress => ~Free
            /\ starter.pc \in {"stored", "enabled"} /\ starter.ident # NoAccount
                  => armed \/ ~Free

\* The handler has received the first event of the login in flight.
Noticed == ~Free /\ (chan = <<>> \/ Head(chan).type = "Captured")

\* From then on its row is the selected one and the phase keeps the others out.
NoticedRow ==
    live /\ Noticed => /\ handler.pc # "none"
                       /\ captureTarget = selected
                       /\ status.phase \in {"code_captured", "syncing"}

NoAccountYet == handler.pc \in {"none", "recv"} => handler.acct = NoAccount

RowInv == ReportIsDue /\ CauseTells /\ NoticedRow /\ NoAccountYet /\ SyncsTheShownRow

LEMMA RowInit == Init => RowInv
BY DEF Init, RowInv, ReportIsDue, CauseTells, NoticedRow, NoAccountYet, SyncsTheShownRow, NoLogin

\* Without a live session only the handler's own part remains.
LEMMA RowDead == ASSUME ~live', NoAccountYet' PROVE RowInv'
BY DEF RowInv, ReportIsDue, CauseTells, NoticedRow, NoAccountYet, SyncsTheShownRow

\* While the handler is busy its login has been noticed.
LEMMA BusyIsNoticed ==
    ASSUME LoginInv, handler.pc \notin {"none", "recv"}
    PROVE  Noticed /\ chan = <<>> /\ NoRelay /\ handler.code # NoCode
<1>1. handler.code # NoCode
    BY DEF LoginInv, HandlerHasCode
<1>2. ~Free
    BY <1>1 DEF Free
<1>3. PICK c \in Conns : Carries(c)
    BY <1>2 DEF LoginInv, OneLogin
<1>4. chan = <<>> /\ NoRelay
    BY <1>1, <1>3 DEF Carries
<1> QED
    BY <1>1, <1>2, <1>4 DEF Noticed

\* A step that moves none of the state the parts are about.
LEMMA RowQuiet ==
    ASSUME RowInv, UNCHANGED <<live, armed, chan, handler, status, selected, captureTarget>>,
           \A c \in Conns : conn'[c].pc \in InRelay <=> conn[c].pc \in InRelay,
           starter'.pc \in {"stored", "enabled"}
               => starter.pc \in {"stored", "enabled"} /\ starter'.ident = starter.ident
    PROVE  RowInv'
<1>1. (Free' <=> Free) /\ (Noticed' <=> Noticed)
    BY DEF Free, NoRelay, Noticed
<1>2. ReportIsDue' /\ CauseTells'
    BY <1>1 DEF RowInv, ReportIsDue, CauseTells, CaptureInProgress
<1>3. NoticedRow' /\ NoAccountYet'
    BY <1>1 DEF RowInv, NoticedRow, NoAccountYet
<1>4. SyncsTheShownRow'
    BY DEF RowInv, SyncsTheShownRow, HandlerBusy
<1> QED
    BY <1>2, <1>3, <1>4 DEF RowInv

LEMMA RowMonitor ==
    ASSUME Typed, AccountInv, LoginInv, RowInv, NEW s \in Session, MonitorStep(s)
    PROVE  RowInv'
<1>1. UNCHANGED <<starter, live, armed, conn, chan, handler, captureTarget>>
    BY DEF MonitorStep, MonitorTick, MonitorRead, AdoptIdentity, MarkUnconfirmed, MonitorGoes,
           lifeVars, proxyVars
<1>2. \/ UNCHANGED <<status, selected>>
      \/ status.phase = "waiting_login" /\ status'.phase = "waiting_login"
    <2>1. CASE MonitorTick(s) \/ MonitorRead(s)
        BY <2>1 DEF MonitorTick, MonitorRead
    <2>2. CASE AdoptIdentity(s)
        BY <2>2 DEF AdoptIdentity, Emit
    <2>3. CASE MarkUnconfirmed(s)
        BY <2>3, PublishPhase DEF MarkUnconfirmed
    <2> QED
        BY <2>1, <2>2, <2>3 DEF MonitorStep
<1>3. CASE UNCHANGED <<status, selected>>
    BY <1>1, <1>3, RowQuiet
<1>4. CASE ~live
    BY <1>1, <1>4, RowDead DEF RowInv, NoAccountYet
<1>5. CASE live /\ status.phase = "waiting_login" /\ status'.phase = "waiting_login"
    <2>1. ~Noticed /\ ~HandlerBusy
        BY <1>5 DEF RowInv, NoticedRow, AccountInv, BusyPhase
    <2>2. (Free' <=> Free) /\ ~Noticed' /\ ~HandlerBusy'
        BY <1>1, <2>1 DEF Free, NoRelay, Noticed, HandlerBusy
    <2>3. ReportIsDue' /\ CauseTells'
        BY <1>1, <1>5, <2>2 DEF RowInv, ReportIsDue, CauseTells, CaptureInProgress
    <2> QED
        BY <1>1, <2>2, <2>3 DEF RowInv, NoticedRow, NoAccountYet, SyncsTheShownRow
<1> QED
    BY <1>2, <1>3, <1>4, <1>5

LEMMA RowUser ==
    ASSUME Typed, AccountInv, LoginInv, RowInv, UserStep
    PROVE  RowInv'
<1>1. UNCHANGED <<live, conn, chan, handler>>
    BY DEF UserStep, Begin, Arm, CancelAccountSync, CancelEffect, PressStop, PressCleanup,
           Press, lifeVars, proxyVars
<1>2. NoAccountYet' /\ ReportIsDue' /\ (Free' <=> Free) /\ (Noticed' <=> Noticed)
    BY <1>1 DEF RowInv, NoAccountYet, ReportIsDue, Free, NoRelay, Noticed
<1>3. ASSUME NEW ident \in Account, Begin(ident)
      PROVE  RowInv'
    BY <1>1, <1>2, <1>3, RowDead DEF Begin
<1>4. ASSUME NEW a \in Accounts, Arm(a)
      PROVE  RowInv'
    <2>1. /\ live /\ ~CaptureInProgress /\ armed' /\ status'.phase = "waiting_login"
          /\ starter.pc = "idle" /\ starter' = starter
        BY <1>4 DEF Arm, Emit
    <2>2. ~Noticed' /\ ~HandlerBusy'
        <3>1. ~Noticed /\ ~HandlerBusy
            BY <2>1 DEF CaptureInProgress, RowInv, NoticedRow, AccountInv, BusyPhase
        <3> QED
            BY <1>1, <1>2, <3>1 DEF HandlerBusy
    <2>3. CauseTells'
        BY <2>1 DEF CauseTells, CaptureInProgress
    <2> QED
        BY <1>2, <2>2, <2>3 DEF RowInv, NoticedRow, SyncsTheShownRow
<1>5. CASE CancelAccountSync
    <2>1. /\ status.phase = "waiting_login" /\ live /\ status'.phase = "ready"
          /\ starter' = starter
        BY <1>5, PublishPhase DEF CancelAccountSync, CancelEffect
    <2>2. ~Noticed' /\ ~HandlerBusy'
        <3>1. ~Noticed /\ ~HandlerBusy
            BY <2>1 DEF RowInv, NoticedRow, AccountInv, BusyPhase
        <3> QED
            BY <1>1, <1>2, <3>1 DEF HandlerBusy
    <2>3. starter.pc \notin {"stored", "enabled"}
        BY <2>1 DEF AccountInv, StartIsAlone, Starting
    <2>4. CauseTells'
        BY <2>1, <2>3 DEF CauseTells, CaptureInProgress
    <2> QED
        BY <1>2, <2>2, <2>4 DEF RowInv, NoticedRow, SyncsTheShownRow
<1>6. CASE PressStop \/ PressCleanup
    <2>1. UNCHANGED <<starter, live, armed, conn, chan, handler, status, selected, captureTarget>>
        BY <1>6 DEF PressStop, PressCleanup, Press, lifeVars, idVars, viewVars, proxyVars
    <2> QED
        BY <2>1, RowQuiet
<1> QED
    BY <1>3, <1>4, <1>5, <1>6 DEF UserStep

LEMMA RowStarter ==
    ASSUME Typed, AccountInv, LoginInv, RowInv, StarterStep
    PROVE  RowInv'
<1>1. /\ starter' = [starter EXCEPT !.pc = starter'.pc] /\ starter \in Starter
      /\ starter.pc # "idle"
    BY DEF StarterStep, PrepareFails, StoreTransport, EnableProxySucceeds, EnableProxyFails,
           StartFails, PublishStarted, SpawnMonitor, StoreMonitor, SpawnHandler, StarterGoes,
           Typed, TypeOK, Starter
<1>2. starter'.ident = starter.ident
    BY <1>1 DEF Starter
<1>3. handler.pc = "none" /\ handler.code = NoCode /\ handler.acct = NoAccount
    BY <1>1 DEF AccountInv, HandlerAfterStart, LoginInv, HandlerHasCode, RowInv, NoAccountYet
<1>4. handler'.pc \in {"none", "recv"} /\ handler'.code = NoCode /\ handler'.acct = NoAccount
    BY <1>3 DEF StarterStep, PrepareFails, StoreTransport, EnableProxySucceeds,
           EnableProxyFails, StartFails, PublishStarted, SpawnMonitor, StoreMonitor,
           SpawnHandler, NoLogin
<1>5. NoAccountYet' /\ SyncsTheShownRow'
    BY <1>4 DEF NoAccountYet, SyncsTheShownRow, HandlerBusy
<1>6. CASE PrepareFails \/ StartFails
    <2>1. ~live /\ live' = live
        BY <1>6 DEF PrepareFails, StartFails, StarterGoes, LoginInv, StartsClean, ProxyLives
    <2> QED
        BY <1>5, <2>1, RowDead
<1>7. CASE StoreTransport
    <2>1. Free' /\ chan' = <<>>
        <3>1. Free
            BY <1>7, StoresFree
        <3> QED
            BY <1>7, <3>1 DEF StoreTransport, Free, NoRelay
    <2>2. /\ status' = status /\ status.phase = "preparing_proxy"
          /\ armed' = (starter.ident # NoAccount)
        BY <1>7 DEF StoreTransport, AccountInv, StartIsAlone, Starting
    <2>3. ReportIsDue' /\ CauseTells' /\ NoticedRow'
        <3>1. \A c : <<>> # <<Intercepted(c)>>
            OBVIOUS
        <3> QED
            BY <1>2, <2>1, <2>2, <3>1
            DEF ReportIsDue, CauseTells, CaptureInProgress, NoticedRow, Noticed
    <2> QED
        BY <1>5, <2>3 DEF RowInv
<1>8. CASE EnableProxySucceeds \/ EnableProxyFails \/ SpawnMonitor \/ StoreMonitor \/ SpawnHandler
    <2>1. /\ UNCHANGED <<live, armed, conn, chan, status, selected, captureTarget>>
          /\ starter'.pc \in {"stored", "enabled"}
                => starter.pc \in {"stored", "enabled"} /\ starter'.ident = starter.ident
        BY <1>1, <1>2, <1>8 DEF EnableProxySucceeds, EnableProxyFails, SpawnMonitor,
           StoreMonitor, SpawnHandler, StarterGoes, proxyVars, idVars, Starter
    <2>2. (Free' <=> Free) /\ (Noticed' <=> Noticed)
        BY <1>3, <1>4, <2>1 DEF Free, NoRelay, Noticed
    <2>3. ReportIsDue' /\ CauseTells'
        BY <2>1, <2>2 DEF RowInv, ReportIsDue, CauseTells, CaptureInProgress
    <2>4. NoticedRow'
        BY <1>3, <2>1, <2>2 DEF RowInv, NoticedRow
    <2> QED
        BY <1>5, <2>3, <2>4 DEF RowInv
<1>9. CASE PublishStarted
    <2>1. /\ UNCHANGED <<live, armed, conn, chan, handler>>
          /\ starter.pc = "enabled" /\ starter'.pc = "published"
          /\ status'.phase = IF starter.ident = NoAccount THEN "ready" ELSE "waiting_login"
        BY <1>1, <1>9, PublishPhase DEF PublishStarted, StarterGoes, proxyVars, Starter
    <2>2. (Free' <=> Free) /\ (Noticed' <=> Noticed)
        BY <2>1 DEF Free, NoRelay, Noticed
    <2>3. ReportIsDue' /\ CauseTells'
        BY <2>1, <2>2 DEF RowInv, ReportIsDue, CauseTells, CaptureInProgress
    <2>4. NoticedRow'
        BY <1>3, <2>1, <2>2 DEF RowInv, NoticedRow
    <2> QED
        BY <1>5, <2>3, <2>4 DEF RowInv
<1> QED
    BY <1>6, <1>7, <1>8, <1>9 DEF StarterStep

\* No session is live from the take of a stop to its end.
LEMMA RowStopper ==
    ASSUME Typed, AccountInv, LoginInv, RowInv, NEW p \in Stoppers, StopperStep(p)
    PROVE  RowInv'
<1>1. ~live'
    <2>1. CASE StopTake(p)
        BY <2>1 DEF StopTake
    <2>2. CASE ~StopTake(p)
        <3>1. stopper[p].pc \in {"tasks", "recover", "clear", "publish"} /\ live' = live
            BY <2>2 DEF StopperStep, StopTasks, RecoverNetwork, ClearIdentity, PublishStopped,
               lifeVars
        <3> QED
            BY <3>1 DEF AccountInv, StoppingIsDead
    <2> QED
        BY <2>1, <2>2
<1>2. handler' = handler \/ handler' = NoLogin
    BY DEF StopperStep, StopTake, StopTasks, RecoverNetwork, ClearIdentity, PublishStopped
<1> QED
    BY <1>1, <1>2, RowDead DEF RowInv, NoAccountYet, NoLogin

LEMMA RowConn ==
    ASSUME ChanCap >= 2, Typed, AccountInv, LoginInv, RowInv,
           NEW c \in Conns, Connect(c) \/ ConnectionStep(c)
    PROVE  RowInv'
<1>1. /\ UNCHANGED <<starter, live, handler, status, selected, captureTarget>>
      /\ NoAccountYet' /\ SyncsTheShownRow'
    <2>1. UNCHANGED <<starter, live, handler, status, selected, captureTarget>>
        BY DEF Connect, ConnectionStep, ConnectionFails, ClaimLogin, ClaimEffect, RelayOpens, RelayEnds,
               ConnGoes, lifeVars, idVars, viewVars
    <2> QED
        BY <2>1 DEF RowInv, NoAccountYet, SyncsTheShownRow, HandlerBusy
<1>2. CASE Connect(c) \/ ConnectionFails(c) \/ RelayOpens(c)
    <2>1. \A d \in Conns : conn'[d].pc \in InRelay <=> conn[d].pc \in InRelay
        BY <1>2 DEF Connect, ConnectionFails, RelayOpens, ConnGoes, Typed, TypeOK, Conn
    <2>2. UNCHANGED <<armed, chan>>
        BY <1>2 DEF Connect, ConnectionFails, RelayOpens, ConnGoes
    <2> QED
        BY <1>1, <2>1, <2>2, RowQuiet
<1>3. CASE ClaimLogin(c)
    <2>1. Free /\ Carries(c)' /\ handler.code = NoCode
        BY <1>3, ClaimKeeps DEF Free
    <2>2. chan' = IF CaptureFriends THEN <<Intercepted(c)>> ELSE <<Intercepted(c), Captured(c)>>
        BY <1>3, <2>1, Sending, EventType DEF ClaimLogin, ClaimEffect, Free
    <2>3. ~Free' /\ ~Noticed'
        BY <2>2, Events DEF Free, Noticed
    <2>4. CauseTells' /\ NoticedRow'
        BY <2>3 DEF CauseTells, NoticedRow
    <2>5. ASSUME NEW d \in Conns, chan' = <<Intercepted(d)>>
          PROVE  conn'[d].pc \in InRelay
        <3>1. CaptureFriends
            <4>1. Len(<<Intercepted(d)>>) = 1 /\ Len(<<Intercepted(c), Captured(c)>>) = 2
                OBVIOUS
            <4> QED
                BY <2>2, <2>5, <4>1
        <3>2. <<Intercepted(d)>>[1] = Intercepted(d) /\ <<Intercepted(c)>>[1] = Intercepted(c)
            OBVIOUS
        <3>3. d = c
            BY <2>2, <2>5, <3>1, <3>2, Events
        <3> QED
            BY <1>3, <3>1, <3>3 DEF ClaimLogin, ClaimEffect, Typed, TypeOK, Conn
    <2> QED
        BY <1>1, <2>4, <2>5 DEF RowInv, ReportIsDue
<1>4. CASE RelayEnds(c)
    <2>1. conn[c].pc \in InRelay /\ chan' = TrySend(chan, Captured(c)) /\ ~Free
        BY <1>4 DEF RelayEnds, Free, NoRelay
    <2>2. Carries(c) /\ handler.code = NoCode
        BY <2>1 DEF LoginInv, OneLogin, Carries, NoRelay
    <2>3. \/ chan = <<>> /\ chan' = <<Captured(c)>>
          \/ chan = <<Intercepted(c)>> /\ chan' = <<Intercepted(c), Captured(c)>>
        <3>1. chan = <<>> \/ chan = <<Intercepted(c)>>
            BY <2>1, <2>2 DEF Carries, NoRelay
        <3> QED
            BY <2>1, <3>1, Sending, EventType
    <2>4. ~Free' /\ (Noticed' => Noticed)
        BY <2>1, <2>3, Events DEF Free, Noticed
    <2>5. CauseTells' /\ NoticedRow'
        BY <1>1, <2>4 DEF RowInv, CauseTells, NoticedRow
    <2>6. ASSUME NEW d \in Conns
          PROVE  chan' # <<Intercepted(d)>>
        <3>1. /\ Len(<<Intercepted(d)>>) = 1 /\ <<Intercepted(d)>>[1] = Intercepted(d)
              /\ Len(<<Intercepted(c), Captured(c)>>) = 2 /\ <<Captured(c)>>[1] = Captured(c)
            OBVIOUS
        <3> QED
            BY <2>3, <3>1, Events
    <2> QED
        BY <1>1, <2>5, <2>6 DEF RowInv, ReportIsDue
<1> QED
    BY <1>2, <1>3, <1>4 DEF ConnectionStep

\* The row that a publication of the handler shows is the login's.
LEMMA ShowsTheRow ==
    ASSUME NEW phase, phase \in AccountPhases, NEW code, captureTarget = selected,
           Publish(phase, code), captureTarget' = captureTarget
    PROVE  status'.target = captureTarget' /\ status'.phase = phase
BY DEF Publish, Emit

\* The steps that work on a Code: its row is fixed, its account the locked identity.
LEMMA RowWork ==
    ASSUME Typed, AccountInv, LoginInv, RowInv,
           \/ RevalidateRead \/ \E confirmed \in BOOLEAN : RevalidateWrite(confirmed)
           \/ StartSync \/ SyncSucceeds \/ SyncFriends
    PROVE  RowInv'
<1>1. /\ UNCHANGED <<starter, live, armed, chan, selected, captureTarget>>
      /\ handler.pc \notin {"none", "recv"} /\ handler'.pc \notin {"none", "recv"}
      /\ handler'.code = handler.code
    BY HandlerRest DEF HandlerStep, RevalidateRead, RevalidateWrite, StartSync, SyncSucceeds,
       SyncFriends, HandlerOnly, Typed, TypeOK, Handler
<1>2. chan = <<>> /\ handler.code # NoCode /\ Noticed
    BY <1>1, BusyIsNoticed
<1>3. ~Free' /\ Noticed' /\ chan' = <<>>
    BY <1>1, <1>2 DEF Free, Noticed
<1>4. CASE ~live
    BY <1>1, <1>4, RowDead DEF NoAccountYet
<1>5. CASE live
    <2>1. /\ captureTarget = selected /\ status.phase \in {"code_captured", "syncing"}
          /\ status.target = captureTarget /\ handler.acct \in {NoAccount, captureTarget}
          /\ locked \in {NoAccount, selected}
        BY <1>1, <1>2, <1>5 DEF RowInv, NoticedRow, SyncsTheShownRow, HandlerBusy, AccountInv,
           LockedIsSelected
    <2>2. /\ status'.phase \in {"syncing", status.phase} /\ status'.target = captureTarget
        <3>1. status' = status \/ \E code \in BOOLEAN : Publish("syncing", code)
            BY DEF RevalidateRead, RevalidateWrite, StartSync, SyncSucceeds, SyncFriends, viewVars
        <3> QED
            BY <1>1, <2>1, <3>1, ShowsTheRow DEF AccountPhases
    <2>3. handler'.acct \in {NoAccount, captureTarget}
        BY <2>1 DEF RevalidateRead, RevalidateWrite, StartSync, SyncSucceeds, SyncFriends,
           Typed, TypeOK, Handler
    <2>4. ReportIsDue' /\ CauseTells'
        <3>1. \A d : <<>> # <<Intercepted(d)>>
            OBVIOUS
        <3> QED
            BY <1>3, <3>1 DEF ReportIsDue, CauseTells
    <2>5. NoticedRow' /\ NoAccountYet' /\ SyncsTheShownRow'
        BY <1>1, <2>1, <2>2, <2>3 DEF NoticedRow, NoAccountYet, SyncsTheShownRow
    <2> QED
        BY <2>4, <2>5 DEF RowInv
<1> QED
    BY <1>4, <1>5

\* The first event of a login fixes its row ...
LEMMA RowIntercepted ==
    ASSUME Typed, AccountInv, LoginInv, RowInv, HandleIntercepted
    PROVE  RowInv'
<1>1. /\ chan # <<>> /\ Head(chan).type = "Intercepted" /\ chan' = Tail(chan)
      /\ UNCHANGED <<starter, live, armed, conn, handler, selected>> /\ handler.pc = "recv"
      /\ captureTarget' = selected /\ status'.phase = "code_captured"
    BY DEF HandleIntercepted, HandlerOnly, lifeVars, Emit
<1>2. PICK c \in Conns : Carries(c)
    BY <1>1 DEF LoginInv, OneLogin, Free
<1>3. chan = <<Intercepted(c)>> \/ chan = <<Intercepted(c), Captured(c)>>
    <2>1. CASE chan = <<Captured(c)>>
        BY <1>1, <2>1, Events
    <2> QED
        BY <1>1, <1>2, <2>1 DEF Carries
<1>4. live => ~Free'
    <2>1. CASE chan = <<Intercepted(c)>>
        BY <1>1, <2>1 DEF RowInv, ReportIsDue, Free, NoRelay
    <2>2. CASE chan = <<Intercepted(c), Captured(c)>>
        BY <1>1, <2>2 DEF Free
    <2> QED
        BY <1>3, <2>1, <2>2
<1>5. ASSUME NEW d \in Conns
      PROVE  chan' # <<Intercepted(d)>>
    <2>1. chan' = <<>> \/ chan' = <<Captured(c)>>
        <3>1. CASE chan = <<Intercepted(c)>>
            BY <1>1, <3>1
        <3>2. CASE chan = <<Intercepted(c), Captured(c)>>
            BY <1>1, <3>2
        <3> QED
            BY <1>3, <3>1, <3>2
    <2>2. <<Intercepted(d)>>[1] = Intercepted(d) /\ <<Captured(c)>>[1] = Captured(c)
        OBVIOUS
    <2> QED
        BY <2>1, <2>2, Events
<1>6. ReportIsDue' /\ CauseTells'
    BY <1>1, <1>4, <1>5 DEF ReportIsDue, CauseTells
<1>7. NoticedRow' /\ NoAccountYet' /\ SyncsTheShownRow'
    BY <1>1 DEF RowInv, NoticedRow, NoAccountYet, SyncsTheShownRow, HandlerBusy
<1> QED
    BY <1>6, <1>7 DEF RowInv

\* ... and the second one finds it fixed.
LEMMA RowCaptured ==
    ASSUME Typed, AccountInv, LoginInv, RowInv, HandleCaptured
    PROVE  RowInv'
<1>1. /\ chan # <<>> /\ Head(chan).type = "Captured" /\ chan' = Tail(chan)
      /\ handler' = [handler EXCEPT !.pc = "captured", !.code = Head(chan).code]
      /\ UNCHANGED <<starter, live, armed, conn, selected, captureTarget>>
      /\ handler.pc = "recv" /\ Publish("code_captured", TRUE)
    BY DEF HandleCaptured, HandlerOnly, lifeVars
<1>2. Noticed
    BY <1>1 DEF Noticed, Free
<1>3. PICK c \in Conns : Carries(c)
    BY <1>2 DEF LoginInv, OneLogin, Noticed
<1>4. chan = <<Captured(c)>>
    <2>1. CASE chan = <<Intercepted(c)>> \/ chan = <<Intercepted(c), Captured(c)>>
        BY <1>1, <2>1, Events
    <2> QED
        BY <1>1, <1>3, <2>1 DEF Carries
<1>5. /\ chan' = <<>> /\ handler'.code = c /\ c # NoCode
      /\ handler'.pc = "captured" /\ handler'.acct = NoAccount
    BY <1>1, <1>4, Events, ConstantsOK DEF Typed, TypeOK, Handler, RowInv, NoAccountYet
<1>6. ReportIsDue' /\ CauseTells'
    <2>1. \A d : <<>> # <<Intercepted(d)>>
        OBVIOUS
    <2>2. ~Free'
        BY <1>5 DEF Free
    <2> QED
        BY <1>5, <2>1, <2>2 DEF ReportIsDue, CauseTells
<1>7. CASE live
    <2>1. captureTarget = selected
        BY <1>2, <1>7 DEF RowInv, NoticedRow
    <2>2. status'.target = captureTarget' /\ status'.phase = "code_captured"
        BY <1>1, <2>1, ShowsTheRow DEF AccountPhases
    <2>3. NoticedRow' /\ NoAccountYet' /\ SyncsTheShownRow'
        BY <1>1, <1>5, <2>1, <2>2 DEF NoticedRow, NoAccountYet, SyncsTheShownRow
    <2> QED
        BY <1>6, <2>3 DEF RowInv
<1>8. CASE ~live
    BY <1>1, <1>5, <1>8, RowDead DEF NoAccountYet
<1> QED
    BY <1>7, <1>8

\* A result leaves nothing in flight and a phase that refuses nothing.
LEMMA RowResult ==
    ASSUME Typed, AccountInv, LoginInv, RowInv,
           FinishLocally \/ SyncFails \/ FinishSync \/ HandlerEnds
    PROVE  RowInv'
<1>1. /\ UNCHANGED <<starter, live, chan>>
      /\ handler'.pc \in {"none", "recv"} /\ handler'.code = NoCode /\ handler'.acct = NoAccount
    <2>1. handler' = NoLogin \/ handler' = [NoLogin EXCEPT !.pc = "recv"]
        BY DEF FinishLocally, SyncFails, FinishSync, HandlerEnds, HandlerDone
    <2>2. UNCHANGED <<starter, live, chan>>
        BY DEF FinishLocally, SyncFails, FinishSync, HandlerEnds, HandlerDone, HandlerOnly, lifeVars
    <2> QED
        BY <2>1, <2>2 DEF NoLogin
<1>2. NoAccountYet' /\ SyncsTheShownRow'
    BY <1>1 DEF NoAccountYet, SyncsTheShownRow, HandlerBusy
<1>3. CASE HandlerEnds
    <2>1. ~live'
        BY <1>1, <1>3 DEF HandlerEnds, LoginInv, ProxyLives
    <2> QED
        BY <1>2, <2>1, RowDead
<1>4. CASE FinishLocally \/ SyncFails \/ FinishSync
    <2>1. handler.pc \notin {"none", "recv"}
        BY <1>4 DEF FinishLocally, SyncFails, FinishSync
    <2>2. chan' = <<>> /\ NoRelay
        BY <1>1, <2>1, BusyIsNoticed
    <2>3. Free'
        <3>1. conn' = conn \/ conn' = Recorded
            BY <1>4 DEF FinishLocally, SyncFails, FinishSync
        <3> QED
            BY <1>1, <2>2, <3>1, RecordedSame DEF Free, NoRelay, Typed
    <2>4. status'.phase \in {"error", "completed", "identity_changed"}
        BY <1>4, PublishPhase DEF FinishLocally, SyncFails, FinishSync, HandlerDone
    <2>5. ReportIsDue' /\ CauseTells' /\ NoticedRow'
        <3>1. \A d : <<>> # <<Intercepted(d)>>
            OBVIOUS
        <3>2. starter'.pc = "idle"
            BY <1>1, <2>1 DEF AccountInv, HandlerAfterStart
        <3> QED
            BY <2>2, <2>3, <2>4, <3>1, <3>2
            DEF ReportIsDue, CauseTells, CaptureInProgress, NoticedRow, Noticed
    <2> QED
        BY <1>2, <2>5 DEF RowInv
<1> QED
    BY <1>3, <1>4

LEMMA RowNext ==
    ASSUME ~Overlap, ChanCap >= 2, Typed, AccountInv, LoginInv, RowInv, [Next]_vars
    PROVE  RowInv'
<1>1. CASE StarterStep \/ UserStep
    BY <1>1, RowStarter, RowUser
<1>2. ASSUME NEW p \in Stoppers, StopperStep(p)
      PROVE  RowInv'
    BY <1>2, RowStopper
<1>3. ASSUME NEW c \in Conns, Connect(c) \/ ConnectionStep(c)
      PROVE  RowInv'
    BY <1>3, RowConn
<1>4. CASE HandlerStep
    BY <1>4, RowWork, RowIntercepted, RowCaptured, RowResult DEF HandlerStep
<1>5. ASSUME NEW s \in Session, MonitorStep(s)
      PROVE  RowInv'
    BY <1>5, RowMonitor
<1>6. CASE UNCHANGED vars
    <2>1. UNCHANGED <<starter, live, armed, conn, chan, handler, status, selected, captureTarget>>
        BY <1>6 DEF vars, lifeVars, idVars, viewVars, proxyVars
    <2> QED
        BY <2>1, RowQuiet
<1> QED
    BY <1>1, <1>2, <1>3, <1>4, <1>5, <1>6 DEF Next

\* With the invariant of the exchange, in every behaviour.
LEMMA RowCorrect ==
    ~Overlap /\ ChanCap >= 2 => (Spec => [](TypeOK /\ LoginInv /\ RowInv))
<1> SUFFICES ASSUME ~Overlap, ChanCap >= 2 PROVE Spec => [](TypeOK /\ LoginInv /\ RowInv)
    OBVIOUS
<1> DEFINE Inv == Typed /\ AccountInv /\ LoginInv /\ RowInv
<1>1. Init => Inv
    BY InitTyped, AccountInit, LoginInit, RowInit
<1>2. Inv /\ [Next]_vars => Inv'
    BY NextTyped, AccountNext, LoginNext, RowNext
<1>3. Inv => TypeOK /\ LoginInv /\ RowInv
    BY DEF Typed
<1> QED
    BY <1>1, <1>2, <1>3, PTL DEF Spec

\* While the handler works on a login of a live session, the account that will receive
\* the Code is the row the window shows as working: what arm_account, the monitor and
\* the revalidation write between the claim and the synchronisation never parts them.
THEOREM RowIsSynced == ~Overlap /\ ChanCap >= 2 => (Spec => []SyncsTheShownRow)
<1> SUFFICES ASSUME ~Overlap, ChanCap >= 2 PROVE Spec => []SyncsTheShownRow
    OBVIOUS
<1>1. TypeOK /\ LoginInv /\ RowInv => SyncsTheShownRow
    BY DEF RowInv
<1> QED
    BY <1>1, RowCorrect, PTL

\* arm_account refuses a switch only while a claimed login exists whose result will
\* release it: capture_in_progress reads the phase, and the phase does not outlive it.
THEOREM RefusalsHaveCause == ~Overlap /\ ChanCap >= 2 => (Spec => []RefusalHasCause)
<1>1. ASSUME TypeOK, LoginInv, RowInv PROVE RefusalHasCause
    <2> SUFFICES ASSUME live, CaptureInProgress PROVE \E c \in Conns : Unresolved(c)
        BY DEF RefusalHasCause
    <2>1. PICK c \in Conns : Carries(c)
        BY <1>1 DEF RowInv, CauseTells, LoginInv, OneLogin
    <2> QED
        BY <1>1, <2>1, CarriedIsInFlight DEF InFlight
<1> SUFFICES ASSUME ~Overlap, ChanCap >= 2 PROVE Spec => []RefusalHasCause
    OBVIOUS
<1>2. TypeOK /\ LoginInv /\ RowInv => RefusalHasCause
    BY <1>1
<1> QED
    BY <1>2, RowCorrect, PTL
=============================================================================
