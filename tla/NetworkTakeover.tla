--------------------------- MODULE NetworkTakeover ---------------------------
(***************************************************************************)
(* The takeover of the Windows network: the proxy settings in the registry *)
(* with their backup file (system_proxy.rs), the temporary root            *)
(* certificate (certificates.rs), and the callers of app_state.rs, main.rs *)
(* and commands.rs that enable, restore, exit, crash and start again.      *)
(*                                                                         *)
(* A step is one PowerShell script or one file operation: each can fail,   *)
(* a writing script before, in the middle of or after its effect, and the  *)
(* process can die between any two.  restore() is called at four places    *)
(* (field why); it and apply_local_proxy_verified share the loop of        *)
(* write, wait, read, wait, read.                                          *)
(***************************************************************************)
EXTENDS Naturals, FiniteSets

CONSTANTS
    Proxies,      \* the settings that the user or another program writes
    Local,        \* 127.0.0.1:port
    Torn,         \* a script stopped between two values
    NoBackup,     \* no backup file
    Attempts,     \* APPLY_VERIFY_ATTEMPTS
    OsFails,      \* may a script or a file operation fail?
    MaxWrites,    \* bound: settings written by others
    MaxLaunches,  \* bound: times that the helper is started
    MaxStops,     \* bound: stops at a time
    MaxRaces      \* bound: times that a stop works beside a start

ASSUME TakeoverConstants ==
    /\ Local \notin Proxies \cup {Torn, NoBackup}
    /\ Torn \notin Proxies \cup {NoBackup}
    /\ NoBackup \notin Proxies
    /\ Attempts \in Nat \ {0}
    /\ OsFails \in BOOLEAN
    /\ MaxWrites \in Nat /\ MaxLaunches \in Nat
    /\ MaxStops \in Nat /\ MaxRaces \in Nat

VARIABLES
    process,   \* "off", "boot" (the setup of main.rs) or "up"
    registry,  \* the Internet Settings values
    backup,    \* system-proxy-backup.json
    trusted,   \* a CA of the helper is in the Root store
    live,      \* runtime.cancellation is Some: a started proxy nobody has stopped
    task,      \* what each caller is doing
    reported,  \* the last command ended with an error shown to the user
    ended,     \* how the last process ended
    troubled,  \* history: a step failed since the launch
    writes,    \* history: settings written by others
    launches,  \* history: launches
    races      \* history: times that a stop worked beside a start

Stops  == {"cleanup", "exit", "update"}
Actors == Stops \cup {"boot", "starter"}
Values == Proxies \cup {Local, Torn}

Steps == {"idle", "remove_ca", "install_ca", "bind", "undo_ca", "store",
          "restore", "write", "check", "recheck", "remove", "snapshot", "save",
          "enabled", "failed", "stop", "certs", "ended"}

Task == [pc : Steps,
         why : {"none", "boot", "enable", "apply", "undo", "stop"},
         snap : Values \cup {NoBackup}, tries : 0 .. Attempts, ok : BOOLEAN]

NoTask == [pc |-> "idle", why |-> "none", snap |-> NoBackup, tries |-> 0, ok |-> TRUE]

TypeOK ==
    /\ process \in {"off", "boot", "up"}
    /\ registry \in Values
    /\ backup \in Values \cup {NoBackup}
    /\ trusted \in BOOLEAN /\ live \in BOOLEAN
    /\ task \in [Actors -> Task]
    /\ reported \in BOOLEAN
    /\ ended \in {"none", "exit", "crash"}
    /\ troubled \in BOOLEAN
    /\ writes \in 0 .. MaxWrites /\ launches \in 0 .. MaxLaunches
    /\ races \in 0 .. MaxRaces

Init ==
    /\ process = "off"
    /\ registry \in Proxies /\ backup = NoBackup /\ trusted = FALSE
    /\ live = FALSE
    /\ task = [p \in Actors |-> NoTask]
    /\ reported = FALSE /\ ended = "none" /\ troubled = FALSE
    /\ writes = 0 /\ launches = 0 /\ races = 0

history  == <<ended, writes, launches, races>>
netVars  == <<registry, backup, trusted>>
vars == <<process, netVars, live, task, reported, troubled, history>>

-----------------------------------------------------------------------------
(* Helpers *)

At(p, pc) == task[p].pc = pc
Idle(p) == At(p, "idle")
Goes(p, pc) == task' = [task EXCEPT ![p].pc = pc]

\* A step that did what it should, and one that did not.
Works == UNCHANGED troubled
Fails == OsFails /\ troubled' = TRUE

\* Everything but the tasks and what the step is about.
OnlyNet == UNCHANGED <<process, live, reported, history>>

\* A caller of stop_transport holds transport_stop from its take to the end of
\* recover_network.
HoldsStopLock(p) == task[p].why = "stop" /\ task[p].pc \notin {"idle", "stop", "ended"}

\* A start is under way, and a stop past its wait for transport_stop.  The window, the
\* exit handler and the updater let the two meet, and a start does not take that lock.
Starting == ~Idle("starter") /\ task["starter"].why # "stop"
Stopping == \E p \in Stops : task[p].pc \notin {"idle", "stop"}

\* A step by which the two meet if the other is there.
Meets(other) == IF other THEN races < MaxRaces /\ races' = races + 1 ELSE UNCHANGED races

\* Where restore() returns to.  A failed start stops its own transport; the boot
\* goes on to the certificate only if the proxy was restored; recover_network
\* cleans the certificate in any case and remembers the result.
Return(p, ok) ==
    task' = [task EXCEPT ![p].ok = ok,
                         ![p].snap = NoBackup,
                         ![p].tries = 0,
                         ![p].pc = CASE task[p].why = "boot" -> IF ok THEN "certs" ELSE "ended"
                                     [] task[p].why = "enable" -> IF ok THEN "snapshot" ELSE "failed"
                                     [] task[p].why = "undo" -> "failed"
                                     [] OTHER -> "certs"]

-----------------------------------------------------------------------------
(* SystemProxyManager *)

\* restore: nothing to do without a backup; an unreadable one is an error.
RestoreBegin(p) ==
    /\ At(p, "restore")
    /\ \/ backup = NoBackup /\ Return(p, TRUE) /\ Works
       \/ backup # NoBackup /\ Return(p, FALSE) /\ Fails
       \/ /\ backup # NoBackup
          /\ task' = [task EXCEPT ![p].pc = "write", ![p].snap = backup]
          /\ Works
    /\ OnlyNet /\ UNCHANGED netVars

\* Mutants: the attempts are not counted; they are counted and not limited; the
\* loop ends as if it had succeeded; a single attempt.
NextAttemptUncounted(p) == Goes(p, "write")
NextAttemptUnlimited(p) == task' = [task EXCEPT ![p].pc = "write", ![p].tries = @ + 1]
NextAttemptGivesUp(p) ==
    IF task[p].tries + 1 < Attempts
    THEN task' = [task EXCEPT ![p].pc = "write", ![p].tries = @ + 1]
    ELSE Goes(p, IF task[p].why = "apply" THEN "enabled" ELSE "remove")
NextAttemptNone(p) ==
    IF task[p].why = "apply"
    THEN task' = [task EXCEPT ![p] = [NoTask EXCEPT !.pc = "restore", !.why = "undo"]]
    ELSE Return(p, FALSE)

\* The loop gives up after the last attempt: enable() then undoes the takeover.
NextAttempt(p) ==
    IF task[p].tries + 1 < Attempts
    THEN task' = [task EXCEPT ![p].pc = "write", ![p].tries = @ + 1]
    ELSE IF task[p].why = "apply"
    THEN task' = [task EXCEPT ![p] = [NoTask EXCEPT !.pc = "restore", !.why = "undo"]]
    ELSE Return(p, FALSE)

\* apply_local_proxy or restore_proxy_snapshot.
WriteRegistry(p) ==
    /\ At(p, "write")
    /\ \/ registry' = task[p].snap /\ Goes(p, "check") /\ Works
       \/ registry' \in {registry, Torn, task[p].snap} /\ NextAttempt(p) /\ Fails
    /\ OnlyNet /\ UNCHANGED <<backup, trusted>>

\* capture_stable_proxy_snapshot: the value must be there twice.
ReadBack(p, pc, next) ==
    /\ At(p, pc)
    /\ \/ registry = task[p].snap /\ Goes(p, next) /\ Works
       \/ registry # task[p].snap /\ NextAttempt(p) /\ Works
       \/ NextAttempt(p) /\ Fails
    /\ OnlyNet /\ UNCHANGED netVars

Check(p)   == ReadBack(p, "check", "recheck")
Recheck(p) == ReadBack(p, "recheck", IF task[p].why = "apply" THEN "enabled" ELSE "remove")

\* The restored backup is deleted; deleting one that is already gone is an error.
RemoveBackup(p) ==
    /\ At(p, "remove")
    /\ \/ backup # NoBackup /\ backup' = NoBackup /\ Return(p, TRUE) /\ Works
       \/ backup = NoBackup /\ UNCHANGED backup /\ Return(p, FALSE) /\ Works
       \/ UNCHANGED backup /\ Return(p, FALSE) /\ Fails
    /\ OnlyNet /\ UNCHANGED <<registry, trusted>>

\* enable, after its recover_stale: read the settings ...
TakeSnapshot ==
    /\ At("starter", "snapshot")
    /\ \/ /\ task' = [task EXCEPT !["starter"].pc = "save", !["starter"].snap = registry]
          /\ Works
       \/ Goes("starter", "failed") /\ Fails
    /\ OnlyNet /\ UNCHANGED netVars

\* ... and keep them in a file that is renamed into place.
SaveBackup ==
    /\ At("starter", "save")
    /\ \/ /\ backup' = task["starter"].snap
          /\ task' = [task EXCEPT !["starter"].pc = "write", !["starter"].why = "apply",
                                  !["starter"].snap = Local]
          /\ Works
       \/ UNCHANGED backup /\ Goes("starter", "failed") /\ Fails
    /\ OnlyNet /\ UNCHANGED <<registry, trusted>>

-----------------------------------------------------------------------------
(* CertificateManager *)

\* remove_trusted, by the subject of the CA; an error of the check that follows
\* the deletion leaves it done.
RemoveTrusted(p, pc, next, error) ==
    /\ At(p, pc)
    /\ \/ trusted' = FALSE /\ Goes(p, next) /\ Works
       \/ /\ trusted' \in {trusted, FALSE}
          /\ task' = [task EXCEPT ![p].pc = error, ![p].ok = FALSE]
          /\ Fails
    /\ OnlyNet /\ UNCHANGED <<registry, backup>>

\* prepare: a CA left behind goes first, then the new one is written and added.
PrepareRemovesOld == RemoveTrusted("starter", "remove_ca", "install_ca", "ended")

InstallTrusted ==
    /\ At("starter", "install_ca")
    /\ \/ trusted' = TRUE /\ Goes("starter", "bind") /\ Works
       \/ trusted' \in {trusted, TRUE} /\ Goes("starter", "ended") /\ Fails
    /\ OnlyNet /\ UNCHANGED <<registry, backup>>

\* cleanup_certificate of a start that fails before its transport is stored; its
\* own result is ignored.
UndoCertificate == RemoveTrusted("starter", "undo_ca", "ended", "ended")

\* Mutant: only the proxy is restored.
CleanupCertificateForgotten(p) ==
    At(p, "certs") /\ Goes(p, "ended") /\ Works /\ OnlyNet /\ UNCHANGED netVars

\* cleanup at the end of recover_network and of the recovery at launch.
CleanupCertificate(p) == RemoveTrusted(p, "certs", "ended", "ended")

-----------------------------------------------------------------------------
(* Starting *)

\* begin_start.  The window offers no start while it runs another command of this
\* kind, except one it received while a session was still shown.
Begin ==
    /\ process = "up" /\ Idle("starter") /\ ~live
    /\ task' = [task EXCEPT !["starter"] = [NoTask EXCEPT !.pc = "remove_ca"]]
    /\ Meets(Stopping)
    /\ UNCHANGED <<process, netVars, live, reported, troubled, ended, writes, launches>>

\* The port may be taken; in protocol mode the session directory may be refused.
BindListener ==
    /\ At("starter", "bind")
    /\ \/ Goes("starter", "store") /\ Works
       \/ Goes("starter", "undo_ca") /\ Fails
    /\ OnlyNet /\ UNCHANGED netVars

\* Mutant: enable() without its recover_stale.
StoreTransportNoRecovery ==
    /\ At("starter", "store")
    /\ live' = TRUE
    /\ task' = [task EXCEPT !["starter"].pc = "snapshot", !["starter"].why = "enable"]
    /\ UNCHANGED <<process, netVars, reported, troubled, history>>

\* store_transport / store_protocol_transport; enable() begins with recover_stale.
StoreTransport ==
    /\ At("starter", "store")
    /\ live' = TRUE
    /\ task' = [task EXCEPT !["starter"].pc = "restore", !["starter"].why = "enable"]
    /\ UNCHANGED <<process, netVars, reported, troubled, history>>

\* enable_system_proxy returned Ok.
StartSucceeds ==
    /\ At("starter", "enabled")
    /\ task' = [task EXCEPT !["starter"] = NoTask]
    /\ reported' = FALSE
    /\ UNCHANGED <<process, netVars, live, troubled, history>>

\* Mutant: the error path does not stop the transport.
EnableFailsKeeping ==
    /\ At("starter", "failed")
    /\ Goes("starter", "ended")
    /\ UNCHANGED <<process, netVars, live, reported, troubled, history>>

\* enable_system_proxy returned Err: the start stops its transport.
EnableFails ==
    /\ At("starter", "failed")
    /\ task' = [task EXCEPT !["starter"] = [NoTask EXCEPT !.pc = "stop", !.why = "stop"]]
    /\ UNCHANGED <<process, netVars, live, reported, troubled, history>>

\* record_failure.
StartFails ==
    /\ At("starter", "ended")
    /\ task' = [task EXCEPT !["starter"] = NoTask]
    /\ reported' = TRUE
    /\ UNCHANGED <<process, netVars, live, troubled, history>>

-----------------------------------------------------------------------------
(* Stopping *)

\* stop_capture and cleanup_network (the window offers neither during a start),
\* the exit handler of main.rs and install_update, which come at any time.
Press(p) ==
    /\ process = "up" /\ Idle(p)
    /\ p = "cleanup" => Idle("starter")
    /\ Cardinality({q \in Stops : ~Idle(q)}) < MaxStops
    /\ task' = [task EXCEPT ![p] = [NoTask EXCEPT !.pc = "stop", !.why = "stop"]]
    /\ UNCHANGED <<process, netVars, live, reported, troubled, history>>

\* stop_transport: under the lock, take and end the tasks (CaptureSession has
\* them one by one), then recover_network.
StopTransport(p) ==
    /\ At(p, "stop")
    /\ \A q \in Actors : ~HoldsStopLock(q)
    /\ live' = FALSE
    /\ Goes(p, "restore")
    /\ Meets(Starting)
    /\ UNCHANGED <<process, netVars, reported, troubled, ended, writes, launches>>

\* Mutant: cleanup_network ignores the result of stop_transport.
CleanupEndsSilently ==
    /\ At("cleanup", "ended")
    /\ task' = [task EXCEPT !["cleanup"] = NoTask]
    /\ reported' = FALSE
    /\ UNCHANGED <<process, netVars, live, troubled, history>>

\* The command publishes its result, or returns the error of stop_transport.
CleanupEnds ==
    /\ At("cleanup", "ended")
    /\ task' = [task EXCEPT !["cleanup"] = NoTask]
    /\ reported' = ~task["cleanup"].ok
    /\ UNCHANGED <<process, netVars, live, troubled, history>>

\* The process is gone with everything it had in memory.
Dies(how) ==
    /\ process' = "off" /\ ended' = how
    /\ task' = [p \in Actors |-> NoTask]
    /\ live' = FALSE /\ reported' = FALSE
    /\ UNCHANGED <<netVars, troubled, writes, launches, races>>

\* shutdown ignores its result; install_update comes back if its installer does
\* not start.
Exits(p) ==
    /\ p \in {"exit", "update"} /\ At(p, "ended")
    /\ Dies("exit")

UpdateFails ==
    /\ At("update", "ended") /\ OsFails
    /\ task' = [task EXCEPT !["update"] = NoTask]
    /\ reported' = TRUE /\ troubled' = TRUE
    /\ UNCHANGED <<process, netVars, live, history>>

-----------------------------------------------------------------------------
(* The process and its surroundings *)

Launch ==
    /\ process = "off" /\ launches < MaxLaunches
    /\ process' = "boot"
    /\ launches' = launches + 1
    /\ task' = [task EXCEPT !["boot"] = [NoTask EXCEPT !.pc = "restore", !.why = "boot"]]
    /\ troubled' = FALSE
    /\ UNCHANGED <<netVars, live, reported, ended, writes, races>>

\* recover_stale keeps a failure as the startup warning.
BootEnds ==
    /\ At("boot", "ended")
    /\ process' = "up"
    /\ reported' = ~task["boot"].ok
    /\ task' = [task EXCEPT !["boot"] = NoTask]
    /\ UNCHANGED <<netVars, live, troubled, history>>

Crash == process # "off" /\ Dies("crash")

\* Another program, or the user, writes the settings.
OtherWrites ==
    /\ writes < MaxWrites
    /\ writes' = writes + 1
    /\ registry' \in Proxies \ {registry}
    /\ UNCHANGED <<process, backup, trusted, live, task, reported, troubled, ended, launches,
                   races>>

-----------------------------------------------------------------------------

StarterStep ==
    \/ PrepareRemovesOld \/ InstallTrusted \/ BindListener \/ UndoCertificate
    \/ StoreTransport \/ TakeSnapshot \/ SaveBackup \/ StartSucceeds \/ EnableFails
    \/ StartFails

ActorStep(p) ==
    \/ RestoreBegin(p) \/ WriteRegistry(p) \/ Check(p) \/ Recheck(p) \/ RemoveBackup(p)
    \/ StopTransport(p) \/ CleanupCertificate(p)
    \/ p = "starter" /\ StarterStep
    \/ p = "boot" /\ BootEnds
    \/ p = "cleanup" /\ CleanupEnds
    \/ p = "update" /\ UpdateFails
    \/ Exits(p)

Next ==
    \/ \E p \in Actors : ActorStep(p)
    \/ Begin
    \/ \E p \in Stops : Press(p)
    \/ Launch \/ Crash \/ OtherWrites

Spec == Init /\ [][Next]_vars

\* Scripts and file operations end, and the lock transport_stop serves its waiters
\* in order.  Nothing obliges the user, another program or a crash.
Fairness ==
    \A p \in Actors : WF_vars(ActorStep(p)) /\ SF_vars(StopTransport(p))

FairSpec == Spec /\ Fairness

-----------------------------------------------------------------------------
(* Properties *)

\* The network is as the user had it.
Clean == registry \in Proxies /\ backup = NoBackup /\ ~trusted

\* No stop has worked beside a start, in this run of the process or an earlier one.  The
\* code does not exclude it: stop_transport does not wait for a start, which goes on.
\* "Unless raced" below excepts what follows, for good: a backup that is deleted beside a
\* start leaves settings that no later launch can give back.
Unraced == races = 0

\* A helper that runs no session and has reported no error has left nothing
\* behind, whatever failed or crashed before, unless raced.
QuietMeansClean ==
    Unraced /\ process = "up" /\ ~live /\ ~reported /\ (\A p \in Actors : Idle(p)) => Clean

\* A session that runs has its certificate and its way back, unless raced.
LiveIsTakenOver ==
    Unraced /\ live /\ (\A p \in Actors : Idle(p)) =>
        /\ trusted /\ backup \in Proxies
        /\ writes = 0 => registry = Local

\* The takeover seen as the loan of SettingsLoan.
Loan == INSTANCE SettingsLoan
    WITH Own <- Proxies, Borrowed <- {Local, Torn}, Nothing <- NoBackup,
         settings <- registry, kept <- backup, touched <- (writes > 0)

\* enable() never takes its own proxy for the user's settings, changes the registry
\* only while their backup exists, and no path (a stop, a failed start, a launch
\* after a crash) gives the backup up for settings that were not read back: every
\* step is one of the loan, unless raced.
ImplementsLoan == Loan!Init /\ [][Loan!Next \/ ~Unraced']_(Loan!vars)

\* README: a normal exit restores the proxy and removes the certificate (if no
\* step of this run of the process failed), even if others write the settings
\* meanwhile or an earlier run was killed.
NormalExitRestores ==
    ended = "exit" /\ process = "off" /\ ~troubled /\ writes < Attempts => Clean

\* So it does unless raced, also when the exit was requested during a start, as long as
\* its stop_transport found the start over.
UnracedExitRestores == Unraced => NormalExitRestores

\* Fewer foreign writes than attempts never make a start, a stop or a launch fail:
\* without a failure of the system none of them reports one, unless raced.
RetriesAbsorbWrites == Unraced /\ ~troubled /\ writes < Attempts => ~reported

\* Every start, stop and launch ends, with transport_stop shared and its steps failing.
CommandsEnd == \A p \in Actors : []<>Idle(p)

=============================================================================
