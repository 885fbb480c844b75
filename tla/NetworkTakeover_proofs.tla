------------------------ MODULE NetworkTakeover_proofs ------------------------
(***************************************************************************)
(* NetworkTakeover implements SettingsLoan, leaves nothing behind when it  *)
(* is quiet or has exited, and takes over what a session needs, as long as *)
(* no stop works beside a start (Unraced): for any settings, attempts,     *)
(* failures, crashes, launches, foreign writes and stops at a time.  Its   *)
(* types hold in any case.                                                 *)
(***************************************************************************)
EXTENDS NetworkTakeover, TLAPS

-----------------------------------------------------------------------------
(* The inductive invariant                                                  *)

\* What a step of restore(), or of the loop that it shares with enable(), is at.
Loop == {"write", "check", "recheck"}
Restore == Loop \cup {"restore", "remove"}

\* Where each caller can be, and in which call of restore().
Legal(p, pc, why) ==
    \/ pc = "idle" /\ why = "none"
    \/ p = "boot" /\ why = "boot" /\ pc \in Restore \cup {"certs", "ended"}
    \/ p # "boot" /\ why = "stop" /\ pc \in Restore \cup {"stop", "certs", "ended"}
    \/ /\ p = "starter"
       /\ \/ why = "none" /\ pc \in {"remove_ca", "install_ca", "bind", "undo_ca", "store", "ended"}
          \/ why = "enable" /\ pc \in Restore \cup {"snapshot", "save", "failed"}
          \/ why = "apply" /\ pc \in Loop \cup {"enabled"}
          \/ why = "undo" /\ pc \in Restore \cup {"failed"}

Placed == \A p \in Actors : Legal(p, task[p].pc, task[p].why)

\* The setup is alone; the stops exclude each other by transport_stop; a stop at work
\* and a start do not meet.
Apart ==
    /\ \A p \in Actors : ~Idle(p) => process = IF p = "boot" THEN "boot" ELSE "up"
    /\ ~(Starting /\ Stopping)
    /\ \A p, q \in Actors : HoldsStopLock(p) /\ HoldsStopLock(q) => p = q

\* Without a backup the settings are someone's own.
Covered ==
    /\ backup \in Proxies \cup {NoBackup}
    /\ backup = NoBackup => registry \in Proxies

\* A restore works on the backup, and is about to delete it only when the settings
\* are back, or were written by someone else meanwhile.
Restores(t) ==
    /\ t.why # "apply" /\ t.pc \in Loop \cup {"remove"} => t.snap = backup /\ backup # NoBackup
    /\ t.pc = "remove" => registry = t.snap \/ (registry \in Proxies /\ writes > 0)

\* enable() reads the settings when there is no backup, and has one when it writes.
Enables(t) ==
    /\ t.pc \in {"snapshot", "save"} => backup = NoBackup
    /\ t.pc = "save" => t.snap \in Proxies /\ (t.snap = registry \/ writes > 0)
    /\ t.why = "apply" /\ t.pc \in Loop => t.snap = Local /\ backup # NoBackup

Data == Covered /\ \A p \in Actors : Restores(task[p]) /\ Enables(task[p])

Inv == TypeOK /\ Placed /\ Apart /\ Data

-----------------------------------------------------------------------------
(* What the helpers do to the task of their caller                          *)

Others(p) == \A q \in Actors : q # p => task'[q] = task[q]

\* The task of p has its new place and is otherwise as before.
Placing(p, pc) ==
    /\ task' \in [Actors -> Task] /\ Others(p)
    /\ task'[p].pc = pc /\ task'[p].why = task[p].why /\ task'[p].snap = task[p].snap

\* restore() has returned.
Returned(p, ok) ==
    /\ task' \in [Actors -> Task] /\ Others(p)
    /\ task'[p].why = task[p].why
    /\ task'[p].pc \in {"certs", "ended", "snapshot", "failed"}
    /\ task[p].why = "boot" => task'[p].pc \in {"certs", "ended"}
    /\ task[p].why = "enable" => task'[p].pc = IF ok THEN "snapshot" ELSE "failed"
    /\ task[p].why = "undo" => task'[p].pc = "failed"
    /\ task[p].why = "stop" => task'[p].pc = "certs"

\* The loop writes once more, or is over.
Retried(p) ==
    \/ Placing(p, "write")
    \/ /\ task[p].why = "apply"
       /\ task' \in [Actors -> Task] /\ Others(p)
       /\ task'[p].pc = "restore" /\ task'[p].why = "undo"
    \/ task[p].why # "apply" /\ Returned(p, FALSE)

LEMMA GoesPlaces ==
    ASSUME TypeOK, NEW p \in Actors, NEW pc \in Steps, Goes(p, pc)
    PROVE  Placing(p, pc)
BY DEF TypeOK, Goes, Placing, Others, Task

LEMMA IdleTask == NoTask \in Task /\ NoTask.pc = "idle" /\ NoTask.why = "none"
BY TakeoverConstants DEF NoTask, Task, Steps

LEMMA ReturnReturns ==
    ASSUME TypeOK, NEW p \in Actors, NEW ok \in BOOLEAN, Return(p, ok)
    PROVE  Returned(p, ok)
<1> DEFINE pc == CASE task[p].why = "boot" -> IF ok THEN "certs" ELSE "ended"
                   [] task[p].why = "enable" -> IF ok THEN "snapshot" ELSE "failed"
                   [] task[p].why = "undo" -> "failed"
                   [] OTHER -> "certs"
<1>1. /\ pc \in {"certs", "ended", "snapshot", "failed"}
      /\ task[p].why = "boot" => pc \in {"certs", "ended"}
      /\ task[p].why = "enable" => pc = IF ok THEN "snapshot" ELSE "failed"
      /\ task[p].why = "undo" => pc = "failed"
      /\ task[p].why = "stop" => pc = "certs"
    OBVIOUS
<1>2. task' = [task EXCEPT ![p].ok = ok, ![p].snap = NoBackup, ![p].tries = 0, ![p].pc = pc]
    BY DEF Return
<1> HIDE DEF pc
<1>3. pc \in Steps /\ task[p] \in Task
    BY <1>1 DEF Steps, TypeOK
<1>4. task'[p] = [task[p] EXCEPT !.ok = ok, !.snap = NoBackup, !.tries = 0, !.pc = pc] /\ Others(p)
    BY <1>2 DEF TypeOK, Others
<1>5. ASSUME NEW t \in Task, NEW u,
             u = [t EXCEPT !.ok = ok, !.snap = NoBackup, !.tries = 0, !.pc = pc]
      PROVE  u \in Task /\ u.pc = pc /\ u.why = t.why
    <2>1. 0 \in 0 .. Attempts
        BY TakeoverConstants
    <2> QED
        BY <1>3, <1>5, <2>1 DEF Task
<1>6. task'[p] \in Task /\ task'[p].pc = pc /\ task'[p].why = task[p].why
    BY <1>3, <1>4, <1>5
<1>7. task' \in [Actors -> Task]
    BY <1>2, <1>4, <1>6 DEF TypeOK, Others
<1> QED
    BY <1>1, <1>4, <1>6, <1>7 DEF Returned

LEMMA NextAttemptRetries ==
    ASSUME TypeOK, NEW p \in Actors, NextAttempt(p)
    PROVE  Retried(p)
<1>1. CASE task[p].tries + 1 < Attempts
    <2>1. task' = [task EXCEPT ![p].pc = "write", ![p].tries = @ + 1]
        BY <1>1 DEF NextAttempt
    <2>2. task[p].tries + 1 \in 0 .. Attempts
        BY <1>1, TakeoverConstants DEF TypeOK, Task
    <2> QED
        BY <2>1, <2>2 DEF TypeOK, Retried, Placing, Others, Task, Steps
<1>2. CASE ~(task[p].tries + 1 < Attempts) /\ task[p].why = "apply"
    <2> DEFINE t == [NoTask EXCEPT !.pc = "restore", !.why = "undo"]
    <2>1. task' = [task EXCEPT ![p] = t]
        BY <1>2 DEF NextAttempt
    <2>2. t \in Task /\ t.pc = "restore" /\ t.why = "undo"
        <3>1. t \in Task
            BY IdleTask DEF Task, Steps
        <3>2. t.pc = "restore"
            BY IdleTask DEF Task
        <3>3. t.why = "undo"
            BY IdleTask DEF Task
        <3> QED
            BY <3>1, <3>2, <3>3
    <2> HIDE DEF t
    <2> QED
        BY <1>2, <2>1, <2>2 DEF TypeOK, Retried, Others
<1>3. CASE ~(task[p].tries + 1 < Attempts) /\ task[p].why # "apply"
    <2>1. Return(p, FALSE)
        BY <1>3 DEF NextAttempt
    <2> QED
        BY <1>3, <2>1, ReturnReturns DEF Retried
<1> QED
    BY <1>1, <1>2, <1>3

-----------------------------------------------------------------------------
(* What a step of one caller leaves to the others                           *)

\* The places at which a task relies on the registry or on the backup.
Busy == Loop \cup {"remove", "snapshot", "save"}

\* Only one caller works on the settings.
LEMMA Alone ==
    ASSUME Inv, NEW p \in Actors, NEW q \in Actors, task[p].pc \in Busy, task[q].pc \in Busy
    PROVE  p = q
<1>1. ~Idle(p) /\ ~Idle(q)
    BY DEF Busy, Loop, Idle, At
<1>2. CASE p = "boot" \/ q = "boot"
    BY <1>1, <1>2 DEF Inv, Apart
<1>3. CASE p # "boot" /\ q # "boot"
    <2>1. ASSUME NEW r \in {p, q}
          PROVE  /\ HoldsStopLock(r) \/ (r = "starter" /\ Starting)
                 /\ r # "starter" => Stopping
        BY <1>1, <1>3, <2>1 DEF Inv, Placed, Legal, Actors, HoldsStopLock, Starting, Stopping,
           Busy, Loop
    <2>2. CASE HoldsStopLock(p) /\ HoldsStopLock(q)
        BY <2>2 DEF Inv, Apart
    <2>3. CASE (p = "starter" \/ q = "starter") /\ Starting
        BY <2>1, <2>3 DEF Inv, Apart
    <2> QED
        BY <2>1, <2>2, <2>3
<1> QED
    BY <1>2, <1>3

LEMMA Keeps ==
    ASSUME Inv, NEW p \in Actors, ~Idle(p), TypeOK', Others(p),
           UNCHANGED <<process, writes>>,
           Legal(p, task'[p].pc, task'[p].why),
           HoldsStopLock(p)' => HoldsStopLock(p) \/ \A q \in Actors : ~HoldsStopLock(q),
           task[p].why = "stop" => task'[p].why = "stop" \/ task'[p].pc = "idle",
           task[p].pc = "stop" => ~Starting,
           UNCHANGED <<registry, backup>> \/ task[p].pc \in Busy,
           Covered', Restores(task[p])', Enables(task[p])'
    PROVE  Inv'
<1>1. Placed'
    BY DEF Inv, Placed, Others
<1>2. Apart'
    <2>1. \A q \in Actors : q # p => task'[q] = task[q]
        BY DEF Others
    <2>2. (\A q \in Actors : ~Idle(q) => process = IF q = "boot" THEN "boot" ELSE "up")'
        BY <2>1 DEF Inv, Apart, Idle, At
    <2>3. ~(Starting /\ Stopping)'
        <3>1. CASE p = "starter"
            <4>1. Starting' => Starting
                BY <3>1 DEF Starting, Idle, At
            <4>2. Stopping' => Stopping
                BY <2>1, <3>1 DEF Stopping, Actors, Stops
            <4> QED
                BY <4>1, <4>2 DEF Inv, Apart
        <3>2. CASE p # "starter"
            <4>1. Starting' => Starting
                BY <2>1, <3>2 DEF Starting, Idle, At, Actors
            <4>2. Stopping' => Stopping \/ task[p].pc = "stop"
                BY <2>1 DEF Stopping, Actors, Idle, At
            <4> QED
                BY <4>1, <4>2 DEF Inv, Apart
        <3> QED
            BY <3>1, <3>2
    <2>4. (\A q, r \in Actors : HoldsStopLock(q) /\ HoldsStopLock(r) => q = r)'
        BY <2>1 DEF Inv, Apart, HoldsStopLock
    <2> QED
        BY <2>2, <2>3, <2>4 DEF Apart
<1>3. ASSUME NEW q \in Actors
      PROVE  (Restores(task[q]) /\ Enables(task[q]))'
    <2>1. CASE q = p
        BY <2>1
    <2>2. CASE q # p /\ task[q].pc \in Busy
        <3>1. UNCHANGED <<registry, backup>> /\ task'[q] = task[q]
            BY <2>2, Alone DEF Others
        <3> QED
            BY <3>1 DEF Inv, Data, Restores, Enables
    <2>3. CASE q # p /\ task[q].pc \notin Busy
        BY <2>3 DEF Others, Restores, Enables, Busy
    <2> QED
        BY <2>1, <2>2, <2>3
<1> QED
    BY <1>1, <1>2, <1>3 DEF Inv, Data

\* A step that touches no settings and ends where nothing relies on them.
LEMMA CalmKeeps ==
    ASSUME Inv, NEW p \in Actors, ~Idle(p), TypeOK', Others(p),
           UNCHANGED <<process, writes, registry, backup>>,
           Legal(p, task'[p].pc, task'[p].why),
           HoldsStopLock(p)' => HoldsStopLock(p) \/ \A q \in Actors : ~HoldsStopLock(q),
           task[p].why = "stop" => task'[p].why = "stop" \/ task'[p].pc = "idle",
           task[p].pc = "stop" => ~Starting,
           task'[p].pc \notin Busy
    PROVE  Inv'
<1>1. Restores(task[p])' /\ Enables(task[p])'
    BY DEF Restores, Enables, Busy
<1>2. Covered'
    BY DEF Inv, Data, Covered
<1> QED
    BY <1>1, <1>2, Keeps

\* The loop goes on with the same snapshot, at most with another registry.
LEMMA LoopKeeps ==
    ASSUME Inv, NEW p \in Actors, task[p].pc \in Loop, NEW pc \in Loop, Placing(p, pc),
           TypeOK', UNCHANGED <<process, writes, backup>>
    PROVE  Inv'
<1>1. ~Idle(p) /\ task[p].pc \in Busy /\ task[p].pc # "stop"
    BY DEF Idle, At, Busy, Loop
<1>2. Legal(p, task'[p].pc, task'[p].why)
    BY DEF Inv, Placed, Legal, Placing, Loop, Restore
<1>3. HoldsStopLock(p)' => HoldsStopLock(p)
    BY DEF HoldsStopLock, Placing, Loop
<1>4. backup # NoBackup /\ Restores(task[p]) /\ Enables(task[p])
    BY DEF Inv, Data, Restores, Enables
<1>5. Covered'
    BY <1>4 DEF Inv, Data, Covered
<1>6. Restores(task[p])' /\ Enables(task[p])'
    BY <1>4 DEF Restores, Enables, Placing, Loop
<1> QED
    BY <1>1, <1>2, <1>3, <1>5, <1>6, Keeps DEF Placing

LEMMA ReturnKeeps ==
    ASSUME Inv, NEW p \in Actors, NEW ok \in BOOLEAN, Returned(p, ok),
           task[p].pc \in Restore, task[p].why # "apply",
           TypeOK', UNCHANGED <<process, writes>>, Covered',
           UNCHANGED <<registry, backup>> \/ task[p].pc \in Busy,
           ok => backup' = NoBackup
    PROVE  Inv'
<1>1. ~Idle(p) /\ task[p].pc # "stop"
    BY DEF Idle, At, Restore, Loop
<1>2. Legal(p, task'[p].pc, task'[p].why)
    BY DEF Inv, Placed, Legal, Returned, Restore, Loop
<1>3. HoldsStopLock(p)' => HoldsStopLock(p)
    BY DEF HoldsStopLock, Returned, Restore, Loop
<1>4. task'[p].pc = "snapshot" => ok
    BY DEF Inv, Placed, Legal, Returned, Restore, Loop
<1>5. Restores(task[p])' /\ Enables(task[p])'
    BY <1>4 DEF Restores, Enables, Returned, Loop
<1> QED
    BY <1>1, <1>2, <1>3, <1>5, Keeps DEF Returned

LEMMA RetryKeeps ==
    ASSUME Inv, NEW p \in Actors, task[p].pc \in Loop, NextAttempt(p),
           TypeOK', UNCHANGED <<process, writes, backup>>
    PROVE  Inv'
<1>1. Retried(p)
    BY NextAttemptRetries DEF Inv
<1>2. backup # NoBackup
    BY DEF Inv, Data, Restores, Enables
<1>3. Covered'
    BY <1>2 DEF Inv, Data, Covered
<1>4. ~Idle(p) /\ task[p].pc \in Busy /\ task[p].pc \in Restore /\ task[p].pc # "stop"
    BY DEF Idle, At, Busy, Loop, Restore
<1>5. CASE Placing(p, "write")
    BY <1>5, LoopKeeps DEF Loop
<1>6. CASE /\ task[p].why = "apply"
           /\ Others(p) /\ task'[p].pc = "restore" /\ task'[p].why = "undo"
    <2>1. Legal(p, task'[p].pc, task'[p].why)
        BY <1>6 DEF Inv, Placed, Legal, Restore
    <2>2. Restores(task[p])' /\ Enables(task[p])'
        BY <1>6 DEF Restores, Enables, Loop
    <2>3. ~HoldsStopLock(p)'
        BY <1>6 DEF HoldsStopLock
    <2> QED
        BY <1>3, <1>4, <1>6, <2>1, <2>2, <2>3, Keeps
<1>7. CASE task[p].why # "apply" /\ Returned(p, FALSE)
    BY <1>3, <1>4, <1>7, ReturnKeeps
<1> QED
    BY <1>1, <1>5, <1>6, <1>7 DEF Retried

-----------------------------------------------------------------------------
(* system_proxy.rs                                                          *)

LEMMA RestoreBeginKeeps ==
    ASSUME Inv, NEW p \in Actors, RestoreBegin(p)
    PROVE  Inv'
<1>1. task[p].pc = "restore" /\ task[p].why # "apply" /\ UNCHANGED <<registry, backup, process, writes>>
    BY DEF RestoreBegin, At, OnlyNet, netVars, history, Inv, Placed, Legal, Loop
<1>2. Covered'
    BY <1>1 DEF Inv, Data, Covered
<1>3. ASSUME NEW ok \in BOOLEAN, Return(p, ok), Works \/ Fails, ok => backup = NoBackup
      PROVE  Inv'
    <2>1. Returned(p, ok)
        BY <1>3, ReturnReturns DEF Inv
    <2>2. TypeOK'
        BY <1>3, <2>1 DEF RestoreBegin, Inv, TypeOK, Returned, OnlyNet, netVars, history, Works, Fails
    <2> QED
        BY <1>1, <1>2, <1>3, <2>1, <2>2, ReturnKeeps DEF Restore
<1>4. ASSUME backup # NoBackup, Works,
             task' = [task EXCEPT ![p].pc = "write", ![p].snap = backup]
      PROVE  Inv'
    <2>1. /\ task' \in [Actors -> Task] /\ Others(p)
          /\ task'[p].pc = "write" /\ task'[p].why = task[p].why /\ task'[p].snap = backup
        <3>1. backup \in Values \cup {NoBackup} /\ task \in [Actors -> Task]
            BY DEF Inv, TypeOK
        <3>2. ASSUME NEW t \in Task, NEW u, u = [t EXCEPT !.pc = "write", !.snap = backup]
              PROVE  u \in Task /\ u.pc = "write" /\ u.why = t.why /\ u.snap = backup
            BY <3>1, <3>2 DEF Task, Steps
        <3>3. task'[p] = [task[p] EXCEPT !.pc = "write", !.snap = backup] /\ Others(p)
            BY <1>4, <3>1 DEF Others
        <3>4. /\ task'[p] \in Task /\ task'[p].pc = "write"
              /\ task'[p].why = task[p].why /\ task'[p].snap = backup
            BY <3>1, <3>2, <3>3
        <3>5. task' \in [Actors -> Task]
            BY <1>4, <3>1, <3>3, <3>4 DEF Others
        <3> QED
            BY <3>3, <3>4, <3>5
    <2>2. TypeOK'
        BY <1>4, <2>1 DEF RestoreBegin, Inv, TypeOK, OnlyNet, netVars, history, Works
    <2>3. Legal(p, task'[p].pc, task'[p].why)
        BY <1>1, <2>1 DEF Inv, Placed, Legal, Restore, Loop
    <2>4. HoldsStopLock(p)' => HoldsStopLock(p)
        BY <1>1, <2>1 DEF HoldsStopLock
    <2>5. Restores(task[p])' /\ Enables(task[p])'
        BY <1>1, <1>4, <2>1 DEF Restores, Enables, Loop
    <2> QED
        BY <1>1, <1>2, <2>1, <2>2, <2>3, <2>4, <2>5, Keeps DEF Idle, At
<1> QED
    BY <1>3, <1>4 DEF RestoreBegin

LEMMA WriteRegistryKeeps ==
    ASSUME Inv, NEW p \in Actors, WriteRegistry(p)
    PROVE  Inv'
<1>1. task[p].pc = "write" /\ task[p].pc \in Loop /\ UNCHANGED <<backup, process, writes>>
    BY DEF WriteRegistry, At, OnlyNet, history, Loop
<1>2. registry' \in Values
    <2>1. task[p].snap = backup \/ task[p].snap = Local
        BY <1>1 DEF Inv, Data, Restores, Enables
    <2>2. task[p].snap \in Values
        <3>1. backup # NoBackup
            BY <1>1 DEF Inv, Data, Restores, Enables
        <3> QED
            BY <2>1, <3>1 DEF Inv, TypeOK, Values
    <2> QED
        BY <2>2 DEF WriteRegistry, Inv, TypeOK, Values
<1>3. CASE Goes(p, "check") /\ Works
    <2>1. Placing(p, "check")
        BY <1>3, GoesPlaces DEF Inv, Steps
    <2>2. TypeOK'
        BY <1>2, <1>3, <2>1 DEF WriteRegistry, Inv, TypeOK, Placing, OnlyNet, history, Works
    <2> QED
        BY <1>1, <2>1, <2>2, LoopKeeps DEF Loop
<1>4. CASE NextAttempt(p) /\ Fails
    <2>1. task' \in [Actors -> Task]
        BY <1>4, NextAttemptRetries DEF Inv, Retried, Placing, Returned
    <2>2. TypeOK'
        BY <1>2, <1>4, <2>1 DEF WriteRegistry, Inv, TypeOK, OnlyNet, history, Fails
    <2> QED
        BY <1>1, <1>4, <2>2, RetryKeeps
<1> QED
    BY <1>3, <1>4 DEF WriteRegistry

\* What both readings have in common: the loop begins again, or is over.
LEMMA ReadAgainKeeps ==
    ASSUME Inv, NEW p \in Actors, task[p].pc \in Loop,
           NextAttempt(p), Works \/ Fails, OnlyNet, UNCHANGED netVars
    PROVE  Inv'
<1>1. task' \in [Actors -> Task]
    BY NextAttemptRetries DEF Inv, Retried, Placing, Returned
<1>2. TypeOK'
    BY <1>1 DEF Inv, TypeOK, OnlyNet, netVars, history, Works, Fails
<1> QED
    BY <1>2, RetryKeeps DEF OnlyNet, netVars, history

LEMMA CheckKeeps ==
    ASSUME Inv, NEW p \in Actors, Check(p)
    PROVE  Inv'
<1>1. task[p].pc = "check" /\ task[p].pc \in Loop /\ OnlyNet /\ UNCHANGED netVars
    BY DEF Check, ReadBack, At, Loop
<1>2. CASE Goes(p, "recheck") /\ Works
    <2>1. Placing(p, "recheck")
        BY <1>2, GoesPlaces DEF Inv, Steps
    <2>2. TypeOK'
        BY <1>1, <1>2, <2>1 DEF Inv, TypeOK, Placing, OnlyNet, netVars, history, Works
    <2> QED
        BY <1>1, <2>1, <2>2, LoopKeeps DEF Loop, OnlyNet, netVars, history
<1>3. CASE NextAttempt(p) /\ (Works \/ Fails)
    BY <1>1, <1>3, ReadAgainKeeps
<1> QED
    BY <1>2, <1>3 DEF Check, ReadBack

LEMMA RecheckKeeps ==
    ASSUME Inv, NEW p \in Actors, Recheck(p)
    PROVE  Inv'
<1> DEFINE next == IF task[p].why = "apply" THEN "enabled" ELSE "remove"
<1>1. task[p].pc = "recheck" /\ task[p].pc \in Loop /\ OnlyNet /\ UNCHANGED netVars
    BY DEF Recheck, ReadBack, At, Loop
<1>2. CASE registry = task[p].snap /\ Goes(p, next) /\ Works
    <2>1. Placing(p, next)
        BY <1>2, GoesPlaces DEF Inv, Steps
    <2>2. TypeOK'
        BY <1>1, <1>2, <2>1 DEF Inv, TypeOK, Placing, OnlyNet, netVars, history, Works
    <2>3. Legal(p, task'[p].pc, task'[p].why)
        BY <1>1, <2>1 DEF Inv, Placed, Legal, Placing, Restore, Loop
    <2>4. HoldsStopLock(p)' => HoldsStopLock(p)
        BY <1>1, <2>1 DEF HoldsStopLock, Placing
    <2>5. UNCHANGED <<registry, backup, writes, process>>
        BY <1>1 DEF OnlyNet, netVars, history
    <2>6. Covered'
        BY <2>5 DEF Inv, Data, Covered
    <2>7. Restores(task[p]) /\ Enables(task[p])
        BY DEF Inv, Data
    <2>8. Restores(task[p])'
        BY <1>1, <1>2, <2>1, <2>5, <2>7 DEF Placing, Restores, Loop
    <2>9. Enables(task[p])'
        BY <2>1 DEF Placing, Enables, Loop
    <2> QED
        BY <1>1, <2>1, <2>2, <2>3, <2>4, <2>5, <2>6, <2>8, <2>9, Keeps DEF Idle, At, Placing
<1>3. CASE NextAttempt(p) /\ (Works \/ Fails)
    BY <1>1, <1>3, ReadAgainKeeps
<1> QED
    BY <1>2, <1>3 DEF Recheck, ReadBack

LEMMA RemoveBackupKeeps ==
    ASSUME Inv, NEW p \in Actors, RemoveBackup(p)
    PROVE  Inv'
<1>1. /\ task[p].pc = "remove" /\ task[p].why # "apply"
      /\ UNCHANGED <<registry, process, writes>>
      /\ backup' \in {backup, NoBackup}
    BY DEF RemoveBackup, At, OnlyNet, history, Inv, Placed, Legal, Loop
<1>2. Covered'
    <2>1. registry \in Proxies \/ registry = backup
        BY <1>1 DEF Inv, Data, Restores, Loop
    <2>2. backup # NoBackup
        BY <1>1 DEF Inv, Data, Restores, Loop
    <2> QED
        BY <1>1, <2>1, <2>2 DEF Inv, Data, Covered
<1>3. ASSUME NEW ok \in BOOLEAN, Return(p, ok), Works \/ Fails, ok => backup' = NoBackup
      PROVE  Inv'
    <2>1. Returned(p, ok)
        BY <1>3, ReturnReturns DEF Inv
    <2>2. TypeOK'
        BY <1>1, <1>3, <2>1 DEF RemoveBackup, Inv, TypeOK, Returned, OnlyNet, history, Works, Fails
    <2> QED
        BY <1>1, <1>2, <1>3, <2>1, <2>2, ReturnKeeps DEF Restore, Busy
<1> QED
    BY <1>3 DEF RemoveBackup

LEMMA TakeSnapshotKeeps ==
    ASSUME Inv, TakeSnapshot
    PROVE  Inv'
<1> DEFINE p == "starter"
<1>1. p \in Actors /\ task[p].pc = "snapshot" /\ UNCHANGED <<registry, backup, process, writes>>
    BY DEF TakeSnapshot, At, OnlyNet, netVars, history, Actors
<1>2. backup = NoBackup /\ registry \in Proxies /\ Covered'
    BY <1>1 DEF Inv, Data, Enables, Covered
<1>3. task[p].why = "enable" /\ ~Idle(p)
    BY <1>1 DEF Inv, Placed, Legal, Restore, Loop, Idle, At
<1>4. CASE /\ task' = [task EXCEPT !["starter"].pc = "save", !["starter"].snap = registry]
           /\ Works
    <2>1. /\ task' \in [Actors -> Task] /\ Others(p)
          /\ task'[p].pc = "save" /\ task'[p].why = task[p].why /\ task'[p].snap = registry
        <3>1. registry \in Values \cup {NoBackup} /\ task \in [Actors -> Task]
            BY DEF Inv, TypeOK
        <3>2. ASSUME NEW t \in Task PROVE [t EXCEPT !.pc = "save", !.snap = registry] \in Task
            BY <3>1 DEF Task, Steps
        <3>3. task'[p] = [task[p] EXCEPT !.pc = "save", !.snap = registry] /\ Others(p)
            BY <1>1, <1>4, <3>1 DEF Others
        <3>4. task'[p] \in Task
            BY <1>1, <3>1, <3>2, <3>3
        <3>5. task' \in [Actors -> Task]
            BY <1>4, <3>1, <3>3, <3>4 DEF Others
        <3>6. task'[p].pc = "save" /\ task'[p].why = task[p].why /\ task'[p].snap = registry
            BY <1>1, <3>1, <3>3 DEF Task
        <3> QED
            BY <3>3, <3>5, <3>6
    <2>2. TypeOK'
        BY <1>4, <2>1 DEF TakeSnapshot, Inv, TypeOK, OnlyNet, netVars, history, Works
    <2>3. Legal(p, task'[p].pc, task'[p].why)
        BY <1>3, <2>1 DEF Legal
    <2>4. Restores(task[p])' /\ Enables(task[p])'
        BY <1>1, <1>2, <2>1 DEF Restores, Enables, Loop
    <2> QED
        BY <1>1, <1>2, <1>3, <2>1, <2>2, <2>3, <2>4, Keeps DEF HoldsStopLock
<1>5. CASE Goes("starter", "failed") /\ Fails
    <2>1. Placing(p, "failed")
        BY <1>1, <1>5, GoesPlaces DEF Inv, Steps
    <2>2. TypeOK'
        BY <1>5, <2>1 DEF TakeSnapshot, Inv, TypeOK, Placing, OnlyNet, netVars, history, Fails
    <2>3. Legal(p, task'[p].pc, task'[p].why)
        BY <1>3, <2>1 DEF Legal, Placing
    <2> QED
        BY <1>1, <1>3, <2>1, <2>2, <2>3, CalmKeeps DEF Placing, HoldsStopLock, Busy, Loop
<1> QED
    BY <1>4, <1>5 DEF TakeSnapshot

LEMMA SaveBackupKeeps ==
    ASSUME Inv, SaveBackup
    PROVE  Inv'
<1> DEFINE p == "starter"
<1>1. p \in Actors /\ task[p].pc = "save" /\ UNCHANGED <<registry, process, writes>>
    BY DEF SaveBackup, At, OnlyNet, history, Actors
<1>2. task[p].snap \in Proxies
    BY <1>1 DEF Inv, Data, Enables
<1>3. task[p].why = "enable" /\ ~Idle(p) /\ task[p].pc \in Busy
    BY <1>1 DEF Inv, Placed, Legal, Restore, Loop, Idle, At, Busy
<1>4. CASE /\ backup' = task["starter"].snap
           /\ task' = [task EXCEPT !["starter"].pc = "write", !["starter"].why = "apply",
                                   !["starter"].snap = Local]
           /\ Works
    <2>1. Local \in Values
        BY DEF Values
    <2>2. /\ task' \in [Actors -> Task] /\ Others(p)
          /\ task'[p].pc = "write" /\ task'[p].why = "apply" /\ task'[p].snap = Local
        <3>1. task \in [Actors -> Task]
            BY DEF Inv, TypeOK
        <3>2. ASSUME NEW t \in Task
              PROVE  [t EXCEPT !.pc = "write", !.why = "apply", !.snap = Local] \in Task
            BY <2>1 DEF Task, Steps
        <3>3. /\ task'[p] = [task[p] EXCEPT !.pc = "write", !.why = "apply", !.snap = Local]
              /\ Others(p)
            BY <1>1, <1>4, <3>1 DEF Others
        <3>4. task'[p] \in Task
            BY <1>1, <3>1, <3>2, <3>3
        <3>5. task' \in [Actors -> Task]
            BY <1>4, <3>1, <3>3, <3>4 DEF Others
        <3>6. task'[p].pc = "write" /\ task'[p].why = "apply" /\ task'[p].snap = Local
            BY <1>1, <3>1, <3>3 DEF Task
        <3> QED
            BY <3>3, <3>5, <3>6
    <2>3. backup' \in Proxies /\ backup' # NoBackup
        BY <1>2, <1>4, TakeoverConstants
    <2>4. TypeOK'
        BY <1>4, <2>2, <2>3 DEF SaveBackup, Inv, TypeOK, OnlyNet, history, Works, Values
    <2>5. Legal(p, task'[p].pc, task'[p].why)
        BY <2>2 DEF Legal, Loop
    <2>6. Restores(task[p])' /\ Enables(task[p])'
        BY <2>2, <2>3 DEF Restores, Enables, Loop
    <2>7. Covered'
        BY <2>3 DEF Covered
    <2> QED
        BY <1>1, <1>3, <2>2, <2>4, <2>5, <2>6, <2>7, Keeps DEF HoldsStopLock
<1>5. CASE UNCHANGED backup /\ Goes("starter", "failed") /\ Fails
    <2>1. Placing(p, "failed")
        BY <1>1, <1>5, GoesPlaces DEF Inv, Steps
    <2>2. TypeOK'
        BY <1>5, <2>1 DEF SaveBackup, Inv, TypeOK, Placing, OnlyNet, history, Fails
    <2>3. Legal(p, task'[p].pc, task'[p].why)
        BY <1>3, <2>1 DEF Legal, Placing
    <2> QED
        BY <1>1, <1>3, <1>5, <2>1, <2>2, <2>3, CalmKeeps DEF Placing, HoldsStopLock, Busy, Loop
<1> QED
    BY <1>4, <1>5 DEF SaveBackup

-----------------------------------------------------------------------------
(* The steps that leave the settings alone                                  *)

Moved(p, pc, why) ==
    /\ task' \in [Actors -> Task] /\ Others(p)
    /\ task'[p].pc = pc /\ task'[p].why = why

LEMMA GoesMoves ==
    ASSUME TypeOK, NEW p \in Actors, NEW pc \in Steps, Goes(p, pc)
    PROVE  Moved(p, pc, task[p].why)
BY GoesPlaces DEF Placing, Moved

LEMMA ResetMoves ==
    ASSUME TypeOK, NEW p \in Actors, task' = [task EXCEPT ![p] = NoTask]
    PROVE  Moved(p, "idle", "none")
BY IdleTask DEF TypeOK, Moved, Others

LEMMA BeginMoves ==
    ASSUME TypeOK, NEW p \in Actors,
           task' = [task EXCEPT ![p] = [NoTask EXCEPT !.pc = "remove_ca"]]
    PROVE  Moved(p, "remove_ca", "none")
<1> DEFINE t == [NoTask EXCEPT !.pc = "remove_ca"]
<1>1. t \in Task
    BY IdleTask DEF Task, Steps
<1>2. t.pc = "remove_ca"
    BY IdleTask DEF Task
<1>3. t.why = "none"
    BY IdleTask DEF Task
<1>4. task' = [task EXCEPT ![p] = t]
    OBVIOUS
<1> HIDE DEF t
<1> QED
    BY <1>1, <1>2, <1>3, <1>4 DEF TypeOK, Moved, Others

LEMMA StopMoves ==
    ASSUME TypeOK, NEW p \in Actors,
           task' = [task EXCEPT ![p] = [NoTask EXCEPT !.pc = "stop", !.why = "stop"]]
    PROVE  Moved(p, "stop", "stop")
<1> DEFINE t == [NoTask EXCEPT !.pc = "stop", !.why = "stop"]
<1>1. t \in Task
    BY IdleTask DEF Task, Steps
<1>2. t.pc = "stop"
    BY IdleTask DEF Task
<1>3. t.why = "stop"
    BY IdleTask DEF Task
<1>4. task' = [task EXCEPT ![p] = t]
    OBVIOUS
<1> HIDE DEF t
<1> QED
    BY <1>1, <1>2, <1>3, <1>4 DEF TypeOK, Moved, Others

LEMMA BootMoves ==
    ASSUME TypeOK, NEW p \in Actors,
           task' = [task EXCEPT ![p] = [NoTask EXCEPT !.pc = "restore", !.why = "boot"]]
    PROVE  Moved(p, "restore", "boot")
<1> DEFINE t == [NoTask EXCEPT !.pc = "restore", !.why = "boot"]
<1>1. t \in Task
    BY IdleTask DEF Task, Steps
<1>2. t.pc = "restore"
    BY IdleTask DEF Task
<1>3. t.why = "boot"
    BY IdleTask DEF Task
<1>4. task' = [task EXCEPT ![p] = t]
    OBVIOUS
<1> HIDE DEF t
<1> QED
    BY <1>1, <1>2, <1>3, <1>4 DEF TypeOK, Moved, Others

\* remove_trusted, from a place and to places without the settings.
LEMMA RemoveTrustedKeeps ==
    ASSUME Inv, NEW p \in Actors,
           NEW pc \in Steps, NEW next \in Steps, NEW error \in Steps,
           RemoveTrusted(p, pc, next, error), pc \notin {"idle", "stop"},
           Legal(p, next, task[p].why), Legal(p, error, task[p].why),
           HoldsStopLock(p) \/ task[p].why # "stop",
           next \notin Busy, error \notin Busy
    PROVE  Inv'
<1>1. ~Idle(p) /\ task[p].pc # "stop" /\ UNCHANGED <<process, writes, registry, backup>>
    BY DEF RemoveTrusted, At, Idle, OnlyNet, history
<1>2. CASE trusted' = FALSE /\ Goes(p, next) /\ Works
    <2>1. Moved(p, next, task[p].why)
        BY <1>2, GoesMoves DEF Inv
    <2>2. TypeOK'
        BY <1>2, <2>1 DEF RemoveTrusted, Inv, TypeOK, Moved, OnlyNet, history, Works
    <2> QED
        BY <1>1, <2>1, <2>2, CalmKeeps DEF Moved, HoldsStopLock
<1>3. CASE /\ trusted' \in {trusted, FALSE}
           /\ task' = [task EXCEPT ![p].pc = error, ![p].ok = FALSE]
           /\ Fails
    <2>1. Moved(p, error, task[p].why)
        BY <1>3 DEF Inv, TypeOK, Task, Moved, Others
    <2>2. TypeOK'
        BY <1>3, <2>1 DEF RemoveTrusted, Inv, TypeOK, Moved, OnlyNet, history, Fails
    <2> QED
        BY <1>1, <2>1, <2>2, CalmKeeps DEF Moved, HoldsStopLock
<1> QED
    BY <1>2, <1>3 DEF RemoveTrusted

LEMMA CleanupCertificateKeeps ==
    ASSUME Inv, NEW p \in Actors, CleanupCertificate(p)
    PROVE  Inv'
<1>1. task[p].pc = "certs" /\ RemoveTrusted(p, "certs", "ended", "ended")
    BY DEF CleanupCertificate, RemoveTrusted, At
<1>2. Legal(p, "ended", task[p].why) /\ (HoldsStopLock(p) \/ task[p].why # "stop")
    BY <1>1 DEF Inv, Placed, Legal, HoldsStopLock, Restore, Loop
<1> QED
    BY <1>1, <1>2, RemoveTrustedKeeps DEF Steps, Busy, Loop

\* A start before its transport is stored, and its two ends.
LEMMA PrepareKeeps ==
    ASSUME Inv, PrepareRemovesOld \/ UndoCertificate \/ InstallTrusted \/ BindListener
    PROVE  Inv'
<1> DEFINE p == "starter"
<1>1. p \in Actors
    BY DEF Actors
<1>2. CASE PrepareRemovesOld
    <2>1. task[p].pc = "remove_ca"
        BY <1>2 DEF PrepareRemovesOld, RemoveTrusted, At
    <2>2. task[p].why = "none"
        BY <1>1, <2>1 DEF Inv, Placed, Legal, Restore, Loop
    <2>3. RemoveTrusted(p, "remove_ca", "install_ca", "ended")
        BY <1>2 DEF PrepareRemovesOld
    <2>4. Legal(p, "install_ca", task[p].why) /\ Legal(p, "ended", task[p].why)
        BY <2>2 DEF Legal
    <2>5. {"remove_ca", "install_ca", "ended"} \subseteq Steps \ Busy
        BY DEF Steps, Busy, Loop
    <2> QED
        BY <1>1, <2>2, <2>3, <2>4, <2>5, RemoveTrustedKeeps
<1>3. CASE UndoCertificate
    <2>1. task[p].pc = "undo_ca"
        BY <1>3 DEF UndoCertificate, RemoveTrusted, At
    <2>2. task[p].why = "none"
        BY <1>1, <2>1 DEF Inv, Placed, Legal, Restore, Loop
    <2>3. RemoveTrusted(p, "undo_ca", "ended", "ended")
        BY <1>3 DEF UndoCertificate
    <2>4. Legal(p, "ended", task[p].why) /\ Legal(p, "ended", task[p].why)
        BY <2>2 DEF Legal
    <2>5. {"undo_ca", "ended", "ended"} \subseteq Steps \ Busy
        BY DEF Steps, Busy, Loop
    <2> QED
        BY <1>1, <2>2, <2>3, <2>4, <2>5, RemoveTrustedKeeps
<1>4. CASE InstallTrusted
    <2>1. task[p].pc = "install_ca" /\ task[p].why = "none" /\ ~Idle(p)
        BY <1>1, <1>4 DEF InstallTrusted, At, Idle, Inv, Placed, Legal, Restore, Loop
    <2>2. PICK pc \in {"bind", "ended"} : Goes(p, pc)
        BY <1>4 DEF InstallTrusted
    <2>3. Moved(p, pc, "none")
        BY <1>1, <2>1, <2>2, GoesMoves DEF Inv, Steps
    <2>4. TypeOK'
        BY <1>4, <2>3 DEF InstallTrusted, Inv, TypeOK, Moved, OnlyNet, history, Works, Fails
    <2>5. UNCHANGED <<process, writes, registry, backup>>
        BY <1>4 DEF InstallTrusted, OnlyNet, history
    <2> QED
        BY <1>1, <2>1, <2>3, <2>4, <2>5, CalmKeeps DEF Moved, Legal, HoldsStopLock, Busy, Loop
<1>5. CASE BindListener
    <2>1. task[p].pc = "bind" /\ task[p].why = "none" /\ ~Idle(p)
        BY <1>1, <1>5 DEF BindListener, At, Idle, Inv, Placed, Legal, Restore, Loop
    <2>2. PICK pc \in {"store", "undo_ca"} : Goes(p, pc)
        BY <1>5 DEF BindListener
    <2>3. Moved(p, pc, "none")
        BY <1>1, <2>1, <2>2, GoesMoves DEF Inv, Steps
    <2>4. TypeOK'
        BY <1>5, <2>3 DEF BindListener, Inv, TypeOK, Moved, OnlyNet, netVars, history, Works, Fails
    <2>5. UNCHANGED <<process, writes, registry, backup>>
        BY <1>5 DEF BindListener, OnlyNet, netVars, history
    <2> QED
        BY <1>1, <2>1, <2>3, <2>4, <2>5, CalmKeeps DEF Moved, Legal, HoldsStopLock, Busy, Loop
<1> QED
    BY <1>2, <1>3, <1>4, <1>5

LEMMA StoreTransportKeeps ==
    ASSUME Inv, StoreTransport
    PROVE  Inv'
<1> DEFINE p == "starter"
<1>1. p \in Actors /\ ~Idle(p) /\ UNCHANGED <<process, writes, registry, backup>>
    BY DEF StoreTransport, At, Idle, Actors, netVars, history
<1>2. task[p].pc = "store" /\ task[p].why = "none"
    BY <1>1 DEF StoreTransport, At, Inv, Placed, Legal, Restore, Loop
<1>3. Moved(p, "restore", "enable")
    <2>1. /\ task \in [Actors -> Task]
          /\ task' = [task EXCEPT !["starter"].pc = "restore", !["starter"].why = "enable"]
        BY DEF StoreTransport, Inv, TypeOK
    <2>2. ASSUME NEW t \in Task, NEW u, u = [t EXCEPT !.pc = "restore", !.why = "enable"]
          PROVE  u \in Task /\ u.pc = "restore" /\ u.why = "enable"
        BY <2>2 DEF Task, Steps
    <2>3. /\ task'[p] = [task[p] EXCEPT !.pc = "restore", !.why = "enable"]
          /\ Others(p)
        BY <1>1, <2>1 DEF Others
    <2>4. task'[p] \in Task /\ task'[p].pc = "restore" /\ task'[p].why = "enable"
        BY <1>1, <2>1, <2>2, <2>3
    <2> QED
        BY <2>1, <2>3, <2>4 DEF Moved, Others
<1>4. TypeOK'
    BY <1>3 DEF StoreTransport, Inv, TypeOK, Moved, netVars, history
<1> QED
    BY <1>1, <1>2, <1>3, <1>4, CalmKeeps DEF Moved, Legal, Restore, HoldsStopLock, Busy, Loop

LEMMA StartEndsKeep ==
    ASSUME Inv, StartSucceeds \/ StartFails \/ EnableFails
    PROVE  Inv'
<1> DEFINE p == "starter"
<1>1. /\ p \in Actors /\ ~Idle(p) /\ task[p].pc # "stop"
      /\ UNCHANGED <<process, writes, registry, backup>>
    BY DEF StartSucceeds, StartFails, EnableFails, At, Idle, Actors, netVars, history
<1>2. Moved(p, "idle", "none") \/ Moved(p, "stop", "stop")
    BY <1>1, ResetMoves, StopMoves DEF Inv, StartSucceeds, StartFails, EnableFails
<1>3. TypeOK'
    BY <1>2 DEF StartSucceeds, StartFails, EnableFails, Inv, TypeOK, Moved, netVars, history
<1> QED
    BY <1>1, <1>2, <1>3, CalmKeeps DEF Moved, Legal, HoldsStopLock, Busy, Loop

\* Unraced, no step lets a start and a stop at work meet.
LEMMA NoMeeting ==
    ASSUME Unraced, Unraced', NEW other, Meets(other)
    PROVE  ~other /\ UNCHANGED races
BY DEF Unraced, Meets

LEMMA StopTransportKeeps ==
    ASSUME Inv, Unraced, Unraced', NEW p \in Actors, StopTransport(p)
    PROVE  Inv'
<1>1. /\ task[p].pc = "stop" /\ task[p].why = "stop" /\ ~Idle(p)
      /\ \A q \in Actors : ~HoldsStopLock(q)
      /\ UNCHANGED <<process, writes, registry, backup>>
    BY DEF StopTransport, At, Idle, netVars, history, Inv, Placed, Legal, Restore, Loop
<1>2. Moved(p, "restore", "stop")
    BY <1>1, GoesMoves DEF StopTransport, Inv, Steps
<1>3. ~Starting /\ UNCHANGED races
    BY NoMeeting DEF StopTransport
<1>4. TypeOK'
    BY <1>2, <1>3 DEF StopTransport, Inv, TypeOK, Moved, netVars, history
<1>5. Legal(p, "restore", "stop")
    BY <1>1 DEF Inv, Placed, Legal, Restore, Loop
<1> QED
    BY <1>1, <1>2, <1>3, <1>4, <1>5, CalmKeeps DEF Moved, Busy, Loop

LEMMA StopEndsKeep ==
    ASSUME Inv, CleanupEnds \/ UpdateFails
    PROVE  Inv'
<1>1. PICK p \in {"cleanup", "update"} :
          At(p, "ended") /\ task' = [task EXCEPT ![p] = NoTask]
    BY DEF CleanupEnds, UpdateFails
<1>2. /\ p \in Actors /\ ~Idle(p) /\ task[p].pc # "stop"
      /\ UNCHANGED <<process, writes, registry, backup>>
    BY <1>1 DEF CleanupEnds, UpdateFails, At, Idle, Actors, Stops, netVars, history
<1>3. Moved(p, "idle", "none")
    BY <1>1, <1>2, ResetMoves DEF Inv
<1>4. TypeOK'
    <2>1. reported' \in BOOLEAN
        BY DEF CleanupEnds, UpdateFails
    <2> QED
        BY <1>3, <2>1 DEF CleanupEnds, UpdateFails, Inv, TypeOK, Moved, netVars, history
<1> QED
    BY <1>2, <1>3, <1>4, CalmKeeps DEF Moved, Legal, HoldsStopLock, Busy, Loop

-----------------------------------------------------------------------------
(* Starting and ending                                                      *)

\* A step by which an idle caller begins, or one ends with its process up.
LEMMA ApartMoves ==
    ASSUME Inv, NEW p \in Actors, NEW pc \in Steps \ Busy,
           NEW why \in {"none", "boot", "enable", "apply", "undo", "stop"}, Moved(p, pc, why),
           Legal(p, pc, why), TypeOK', UNCHANGED <<registry, backup, writes>>,
           pc # "idle" => process' = IF p = "boot" THEN "boot" ELSE "up",
           process' # process => \A q \in Actors : q # p => Idle(q),
           p = "starter" => ~Stopping,
           p \in Stops => pc \in {"idle", "stop"},
           why = "stop" => pc = "stop"
    PROVE  Inv'
<1>1. /\ \A q \in Actors : q # p => task'[q] = task[q]
      /\ task'[p].pc = pc /\ task'[p].why = why
    BY DEF Moved, Others
<1>2. Placed'
    BY <1>1 DEF Inv, Placed
<1>3. Apart'
    <2>1. (\A q \in Actors : ~Idle(q) => process = IF q = "boot" THEN "boot" ELSE "up")'
        BY <1>1 DEF Inv, Apart, Idle, At
    <2>2. ~(Starting /\ Stopping)'
        <3>1. Stopping' => Stopping
            BY <1>1 DEF Stopping, Actors
        <3>2. p # "starter" => (Starting' => Starting)
            BY <1>1 DEF Starting, Idle, At, Actors
        <3> QED
            BY <3>1, <3>2 DEF Inv, Apart
    <2>3. ~HoldsStopLock(p)'
        BY <1>1 DEF HoldsStopLock
    <2>4. (\A q, r \in Actors : HoldsStopLock(q) /\ HoldsStopLock(r) => q = r)'
        BY <1>1, <2>3 DEF Inv, Apart, HoldsStopLock
    <2> QED
        BY <2>1, <2>2, <2>4 DEF Apart
<1>4. ASSUME NEW q \in Actors
      PROVE  (Restores(task[q]) /\ Enables(task[q]))'
    <2>1. CASE q = p
        BY <1>1, <2>1 DEF Restores, Enables, Busy
    <2>2. CASE q # p
        BY <1>1, <2>2 DEF Inv, Data, Restores, Enables
    <2> QED
        BY <2>1, <2>2
<1>5. Covered'
    BY DEF Inv, Data, Covered
<1> QED
    BY <1>2, <1>3, <1>4, <1>5 DEF Inv, Data

LEMMA BeginKeeps ==
    ASSUME Inv, Unraced, Unraced', Begin
    PROVE  Inv'
<1> DEFINE p == "starter"
<1>1. p \in Actors /\ "remove_ca" \in Steps \ Busy
    BY DEF Actors, Steps, Busy, Loop
<1>2. Moved(p, "remove_ca", "none")
    BY <1>1, BeginMoves DEF Begin, Inv
<1>3. /\ process = "up" /\ ~Stopping
      /\ UNCHANGED <<process, registry, backup, writes, races>>
    BY NoMeeting DEF Begin, netVars
<1>4. TypeOK'
    BY <1>2, <1>3 DEF Begin, Inv, TypeOK, Moved, netVars
<1>5. Legal(p, "remove_ca", "none")
    BY DEF Legal
<1> QED
    BY <1>1, <1>2, <1>3, <1>4, <1>5, ApartMoves DEF Stops

LEMMA PressKeeps ==
    ASSUME Inv, NEW p \in Stops, Press(p)
    PROVE  Inv'
<1>1. p \in Actors /\ p # "boot" /\ p # "starter" /\ "stop" \in Steps \ Busy
    BY DEF Actors, Stops, Steps, Busy, Loop
<1>2. Moved(p, "stop", "stop")
    BY <1>1, StopMoves DEF Press, Inv
<1>3. TypeOK'
    BY <1>2 DEF Press, Inv, TypeOK, Moved, netVars, history
<1>4. process = "up" /\ UNCHANGED <<process, registry, backup, writes>>
    BY DEF Press, netVars, history
<1>5. Legal(p, "stop", "stop")
    BY <1>1 DEF Legal
<1> QED
    BY <1>1, <1>2, <1>3, <1>4, <1>5, ApartMoves

LEMMA LaunchKeeps ==
    ASSUME Inv, Launch
    PROVE  Inv'
<1> DEFINE p == "boot"
<1>1. p \in Actors /\ "restore" \in Steps \ Busy
    BY DEF Actors, Steps, Busy, Loop
<1>2. Moved(p, "restore", "boot")
    BY <1>1, BootMoves DEF Launch, Inv
<1>3. TypeOK'
    <2>1. launches' \in 0 .. MaxLaunches
        BY TakeoverConstants DEF Launch, Inv, TypeOK
    <2> QED
        BY <1>2, <2>1 DEF Launch, Inv, TypeOK, Moved, netVars
<1>4. /\ process = "off" /\ process' = "boot" /\ UNCHANGED <<registry, backup, writes>>
      /\ \A q \in Actors : Idle(q)
    BY DEF Launch, netVars, Inv, Apart
<1>5. Legal(p, "restore", "boot")
    BY DEF Legal, Restore
<1> QED
    BY <1>1, <1>2, <1>3, <1>4, <1>5, ApartMoves DEF Stops

LEMMA BootEndsKeeps ==
    ASSUME Inv, BootEnds
    PROVE  Inv'
<1> DEFINE p == "boot"
<1>1. p \in Actors /\ "idle" \in Steps \ Busy
    BY DEF Actors, Steps, Busy, Loop
<1>2. Moved(p, "idle", "none")
    BY <1>1, ResetMoves DEF BootEnds, Inv
<1>3. TypeOK'
    BY <1>2 DEF BootEnds, Inv, TypeOK, Moved, netVars, history
<1>4. /\ UNCHANGED <<registry, backup, writes>>
      /\ \A q \in Actors : q # p => Idle(q)
    BY <1>1 DEF BootEnds, At, Idle, netVars, history, Inv, Apart
<1>5. Legal(p, "idle", "none")
    BY DEF Legal
<1> QED
    BY <1>1, <1>2, <1>3, <1>4, <1>5, ApartMoves

LEMMA DiesKeeps ==
    ASSUME Inv, NEW how \in {"exit", "crash"}, Dies(how)
    PROVE  Inv'
<1>1. /\ \A q \in Actors : task'[q] = NoTask
      /\ task' \in [Actors -> Task]
    BY IdleTask DEF Dies
<1>2. TypeOK'
    BY <1>1 DEF Dies, Inv, TypeOK, netVars
<1>3. \A q \in Actors : Idle(q)' /\ task'[q].why = "none"
    BY <1>1, IdleTask DEF Idle, At
<1>4. Placed'
    BY <1>3 DEF Placed, Legal, Idle, At
<1>5. Apart'
    BY <1>3 DEF Apart, HoldsStopLock, Starting, Actors
<1>6. Data'
    BY <1>3 DEF Inv, Data, Covered, Restores, Enables, Idle, At, Loop, Dies, netVars
<1> QED
    BY <1>2, <1>4, <1>5, <1>6 DEF Inv

LEMMA OtherWritesKeeps ==
    ASSUME Inv, OtherWrites
    PROVE  Inv'
<1>1. writes' \in 0 .. MaxWrites /\ writes' > 0
    BY TakeoverConstants DEF OtherWrites, Inv, TypeOK
<1>2. TypeOK'
    BY <1>1 DEF OtherWrites, Inv, TypeOK, Values
<1>3. Placed' /\ Apart'
    BY DEF OtherWrites, Inv, Placed, Apart, Idle, At, HoldsStopLock, Starting, Stopping
<1>4. Data'
    BY <1>1 DEF OtherWrites, Inv, Data, Covered, Restores, Enables
<1> QED
    BY <1>2, <1>3, <1>4 DEF Inv

-----------------------------------------------------------------------------
(* The theorems                                                             *)

LEMMA InvInit == Init => Inv
<1> SUFFICES ASSUME Init PROVE Inv
    OBVIOUS
<1>1. \A q \in Actors : task[q] = NoTask
    BY DEF Init
<1>2. TypeOK
    <2>1. task \in [Actors -> Task]
        BY IdleTask DEF Init
    <2>2. writes \in 0 .. MaxWrites /\ launches \in 0 .. MaxLaunches /\ races \in 0 .. MaxRaces
        BY TakeoverConstants DEF Init
    <2> QED
        BY <2>1, <2>2 DEF Init, TypeOK, Values
<1>3. Placed
    BY <1>1, IdleTask DEF Placed, Legal
<1>4. Apart
    BY <1>1, IdleTask DEF Apart, Idle, At, HoldsStopLock, Starting, Actors
<1>5. Data
    BY <1>1, IdleTask DEF Init, Data, Covered, Restores, Enables, Loop
<1> QED
    BY <1>2, <1>3, <1>4, <1>5 DEF Inv

LEMMA InvStep ==
    ASSUME Inv, Unraced, Unraced', [Next]_vars
    PROVE  Inv'
<1>1. ASSUME NEW p \in Actors, ActorStep(p)
      PROVE  Inv'
    <2>1. CASE RestoreBegin(p) \/ WriteRegistry(p) \/ Check(p) \/ Recheck(p) \/ RemoveBackup(p)
        BY <2>1, RestoreBeginKeeps, WriteRegistryKeeps, CheckKeeps, RecheckKeeps,
           RemoveBackupKeeps
    <2>2. CASE StopTransport(p) \/ CleanupCertificate(p)
        BY <2>2, StopTransportKeeps, CleanupCertificateKeeps
    <2>3. CASE StarterStep
        BY <2>3, PrepareKeeps, StoreTransportKeeps, TakeSnapshotKeeps, SaveBackupKeeps,
           StartEndsKeep DEF StarterStep
    <2>4. CASE BootEnds \/ CleanupEnds \/ UpdateFails
        BY <2>4, BootEndsKeeps, StopEndsKeep
    <2>5. CASE Exits(p)
        BY <2>5, DiesKeeps DEF Exits
    <2> QED
        BY <1>1, <2>1, <2>2, <2>3, <2>4, <2>5 DEF ActorStep
<1>2. CASE Begin \/ Launch \/ OtherWrites \/ \E p \in Stops : Press(p)
    BY <1>2, BeginKeeps, LaunchKeeps, OtherWritesKeeps, PressKeeps
<1>3. CASE Crash
    BY <1>3, DiesKeeps DEF Crash
<1>4. CASE UNCHANGED vars
    <2> USE <1>4 DEF vars, netVars, history
    <2>1. TypeOK'
        BY DEF Inv, TypeOK
    <2>2. Placed' /\ Apart'
        BY DEF Inv, Placed, Apart, Idle, At, HoldsStopLock, Starting, Stopping
    <2>3. Data'
        BY DEF Inv, Data, Covered, Restores, Enables
    <2> QED
        BY <2>1, <2>2, <2>3 DEF Inv
<1> QED
    BY <1>1, <1>2, <1>3, <1>4 DEF Next

-----------------------------------------------------------------------------
(* Types, also where starts and stops meet                                  *)

\* Whoever is in the loop has settings to write.
LoopHasValue == \A p \in Actors : task[p].pc \in Loop => task[p].snap \in Values

Typed == TypeOK /\ LoopHasValue

\* A step of p that is typed and brings it nowhere near the loop, or there with settings.
LEMMA TaskTyped ==
    ASSUME Typed, NEW p \in Actors, Others(p),
           task'[p].pc \in Loop => task'[p].snap \in Values
    PROVE  LoopHasValue'
BY DEF Typed, LoopHasValue, Others

\* The tasks of a step.
TasksTyped == task' \in [Actors -> Task] /\ LoopHasValue'

LEMMA MovedTyped ==
    ASSUME Typed, NEW p \in Actors, NEW pc, NEW why, Moved(p, pc, why), pc \notin Loop
    PROVE  TasksTyped
BY TaskTyped DEF Moved, TasksTyped

LEMMA PlacingTyped ==
    ASSUME Typed, NEW p \in Actors, NEW pc, Placing(p, pc), task[p].pc \in Loop
    PROVE  TasksTyped
BY TaskTyped DEF Placing, TasksTyped, Typed, LoopHasValue

LEMMA ReturnedTyped ==
    ASSUME Typed, NEW p \in Actors, NEW ok \in BOOLEAN, Return(p, ok)
    PROVE  TasksTyped
<1>1. Returned(p, ok)
    BY ReturnReturns DEF Typed
<1>2. task'[p].pc \notin Loop
    BY <1>1 DEF Returned, Loop
<1> QED
    BY <1>1, <1>2, TaskTyped DEF Returned, TasksTyped

LEMMA RetriedTyped ==
    ASSUME Typed, NEW p \in Actors, NextAttempt(p), task[p].pc \in Loop
    PROVE  TasksTyped
<1>1. Retried(p)
    BY NextAttemptRetries DEF Typed
<1>2. CASE Placing(p, "write")
    BY <1>2, PlacingTyped
<1>3. CASE /\ task' \in [Actors -> Task] /\ Others(p)
           /\ task'[p].pc = "restore"
    BY <1>3, TaskTyped DEF TasksTyped, Loop
<1>4. CASE Returned(p, FALSE)
    <2>1. task'[p].pc \notin Loop
        BY <1>4 DEF Returned, Loop
    <2> QED
        BY <1>4, <2>1, TaskTyped DEF Returned, TasksTyped
<1> QED
    BY <1>1, <1>2, <1>3, <1>4 DEF Retried

LEMMA GoesTyped ==
    ASSUME Typed, NEW p \in Actors, NEW pc \in Steps, Goes(p, pc), pc \notin Loop
    PROVE  TasksTyped
BY GoesMoves, MovedTyped DEF Typed

LEMMA MeetsTyped ==
    ASSUME Typed, NEW other, Meets(other)
    PROVE  races' \in 0 .. MaxRaces
BY TakeoverConstants DEF Typed, TypeOK, Meets

\* The settings (system_proxy.rs).
LEMMA SettingsTyped ==
    ASSUME Typed, NEW p \in Actors,
           \/ RestoreBegin(p) \/ WriteRegistry(p) \/ Check(p) \/ Recheck(p) \/ RemoveBackup(p)
           \/ p = "starter" /\ (TakeSnapshot \/ SaveBackup)
    PROVE  Typed'
<1> USE DEF OnlyNet, netVars, history, Works, Fails
<1>1. /\ task[p] \in Task /\ registry \in Values /\ backup \in Values \cup {NoBackup}
      /\ NoBackup \in Values \cup {NoBackup} /\ Torn \in Values /\ Local \in Values
      /\ {"write", "check", "recheck", "remove", "enabled", "failed", "save"} \subseteq Steps
    BY DEF Typed, TypeOK, Values, Steps
<1>2. CASE RestoreBegin(p)
    <2>1. ASSUME backup # NoBackup, task' = [task EXCEPT ![p].pc = "write", ![p].snap = backup]
          PROVE  TasksTyped
        <3>1. /\ task' \in [Actors -> Task] /\ Others(p)
              /\ task'[p].snap = backup
            BY <1>1, <2>1 DEF Typed, TypeOK, Task, Steps, Others
        <3> QED
            BY <1>1, <2>1, <3>1, TaskTyped DEF TasksTyped
    <2>2. TasksTyped
        BY <1>2, <2>1, ReturnedTyped DEF RestoreBegin
    <2> QED
        BY <1>2, <2>2 DEF RestoreBegin, Typed, TypeOK, TasksTyped
<1>3. CASE WriteRegistry(p)
    <2>1. task[p].pc \in Loop /\ task[p].snap \in Values
        BY <1>3 DEF WriteRegistry, At, Loop, Typed, LoopHasValue
    <2>2. TasksTyped
        BY <1>1, <1>3, <2>1, RetriedTyped, PlacingTyped, GoesPlaces DEF WriteRegistry, Typed
    <2>3. registry' \in Values
        BY <1>1, <1>3, <2>1 DEF WriteRegistry
    <2> QED
        BY <1>3, <2>2, <2>3 DEF WriteRegistry, Typed, TypeOK, TasksTyped
<1>4. CASE Check(p) \/ Recheck(p)
    <2>1. PICK pc \in {"check", "recheck"}, next \in Steps : ReadBack(p, pc, next)
        BY <1>1, <1>4 DEF Check, Recheck
    <2>2. task[p].pc \in Loop
        BY <2>1 DEF ReadBack, At, Loop
    <2>3. TasksTyped
        BY <2>1, <2>2, RetriedTyped, PlacingTyped, GoesPlaces DEF ReadBack, Typed
    <2> QED
        BY <2>1, <2>3 DEF ReadBack, Typed, TypeOK, TasksTyped
<1>5. CASE RemoveBackup(p)
    <2>1. TasksTyped
        BY <1>5, ReturnedTyped DEF RemoveBackup
    <2> QED
        BY <1>5, <2>1 DEF RemoveBackup, Typed, TypeOK, TasksTyped
<1>6. CASE p = "starter" /\ TakeSnapshot
    <2>1. ASSUME task' = [task EXCEPT !["starter"].pc = "save", !["starter"].snap = registry]
          PROVE  TasksTyped
        <3>1. /\ task' \in [Actors -> Task] /\ Others(p)
              /\ task'[p].snap = registry
            BY <1>1, <1>6, <2>1 DEF Typed, TypeOK, Task, Steps, Others
        <3> QED
            BY <1>1, <3>1, TaskTyped DEF TasksTyped
    <2>2. TasksTyped
        BY <1>1, <1>6, <2>1, GoesTyped DEF TakeSnapshot, Loop
    <2> QED
        BY <1>6, <2>2 DEF TakeSnapshot, Typed, TypeOK, TasksTyped
<1>7. CASE p = "starter" /\ SaveBackup
    <2>1. ASSUME task' = [task EXCEPT !["starter"].pc = "write", !["starter"].why = "apply",
                                      !["starter"].snap = Local]
          PROVE  TasksTyped
        <3>1. /\ task' \in [Actors -> Task] /\ Others(p)
              /\ task'[p].snap = Local
            BY <1>1, <1>7, <2>1 DEF Typed, TypeOK, Task, Steps, Others
        <3> QED
            BY <1>1, <3>1, TaskTyped DEF TasksTyped
    <2>2. TasksTyped
        BY <1>1, <1>7, <2>1, GoesTyped DEF SaveBackup, Loop
    <2>3. backup' \in Values \cup {NoBackup}
        BY <1>1, <1>7 DEF SaveBackup, Task
    <2> QED
        BY <1>7, <2>2, <2>3 DEF SaveBackup, Typed, TypeOK, TasksTyped
<1> QED
    BY <1>2, <1>3, <1>4, <1>5, <1>6, <1>7

\* The certificate (certificates.rs).
LEMMA RemoveTrustedTyped ==
    ASSUME Typed, NEW p \in Actors, NEW pc, NEW next \in Steps \ Loop, NEW error \in Steps \ Loop,
           RemoveTrusted(p, pc, next, error)
    PROVE  Typed'
<1>1. ASSUME task' = [task EXCEPT ![p].pc = error, ![p].ok = FALSE]
      PROVE  TasksTyped
    <2>1. /\ task' \in [Actors -> Task] /\ Others(p)
          /\ task'[p].pc = error
        BY <1>1 DEF Typed, TypeOK, Task, Others
    <2> QED
        BY <2>1, TaskTyped DEF TasksTyped
<1>2. TasksTyped
    BY <1>1, GoesTyped DEF RemoveTrusted
<1> QED
    BY <1>2 DEF RemoveTrusted, Typed, TypeOK, TasksTyped, OnlyNet, history, Works, Fails

\* Starts, stops and the life of the process (app_state.rs, main.rs).
LEMMA StepsTyped ==
    ASSUME Typed, NEW p \in Actors,
           \/ StopTransport(p) \/ CleanupCertificate(p)
           \/ p = "starter" /\ \/ PrepareRemovesOld \/ InstallTrusted \/ BindListener
                               \/ UndoCertificate \/ StoreTransport \/ StartSucceeds
                               \/ EnableFails \/ StartFails
           \/ p = "boot" /\ BootEnds
           \/ p = "cleanup" /\ CleanupEnds
           \/ p = "update" /\ UpdateFails
    PROVE  Typed'
<1> USE DEF OnlyNet, netVars, history, Works, Fails
<1>1. /\ {"install_ca", "ended", "bind", "store", "undo_ca", "restore", "stop", "idle"}
             \subseteq Steps \ Loop
      /\ TypeOK /\ task[p] \in Task
    BY DEF Steps, Loop, Typed, TypeOK
<1>2. CASE CleanupCertificate(p) \/ (p = "starter" /\ (PrepareRemovesOld \/ UndoCertificate))
    BY <1>1, <1>2, RemoveTrustedTyped DEF CleanupCertificate, PrepareRemovesOld, UndoCertificate
<1>3. CASE StopTransport(p) \/ (p = "starter" /\ (InstallTrusted \/ BindListener))
    <2>1. TasksTyped
        BY <1>1, <1>3, GoesTyped DEF StopTransport, InstallTrusted, BindListener
    <2>2. races' \in 0 .. MaxRaces
        BY <1>3, MeetsTyped DEF StopTransport, InstallTrusted, BindListener, Typed, TypeOK
    <2> QED
        BY <1>3, <2>1, <2>2 DEF StopTransport, InstallTrusted, BindListener, Typed, TypeOK, TasksTyped
<1>4. CASE p = "starter" /\ StoreTransport
    <2>1. /\ task' \in [Actors -> Task] /\ Others(p)
          /\ task'[p].pc = "restore"
        BY <1>1, <1>4 DEF StoreTransport, TypeOK, Task, Steps, Others
    <2>2. TasksTyped
        BY <1>1, <2>1, TaskTyped DEF TasksTyped
    <2> QED
        BY <1>4, <2>2 DEF StoreTransport, Typed, TypeOK, TasksTyped
<1>5. CASE p = "starter" /\ EnableFails
    <2>1. TasksTyped
        BY <1>1, <1>5, StopMoves, MovedTyped DEF EnableFails
    <2> QED
        BY <1>5, <2>1 DEF EnableFails, Typed, TypeOK, TasksTyped
<1>6. CASE \/ p = "starter" /\ (StartSucceeds \/ StartFails)
           \/ p = "boot" /\ BootEnds
           \/ p = "cleanup" /\ CleanupEnds
           \/ p = "update" /\ UpdateFails
    <2>1. task' = [task EXCEPT ![p] = NoTask]
        BY <1>6 DEF StartSucceeds, StartFails, BootEnds, CleanupEnds, UpdateFails
    <2>2. TasksTyped
        BY <1>1, <2>1, ResetMoves, MovedTyped
    <2> QED
        BY <1>6, <2>2 DEF StartSucceeds, StartFails, BootEnds, CleanupEnds, UpdateFails,
                          Typed, TypeOK, TasksTyped
<1> QED
    BY <1>2, <1>3, <1>4, <1>5, <1>6

LEMMA TypedNext == Typed /\ [Next]_vars => Typed'
<1> SUFFICES ASSUME Typed, [Next]_vars PROVE Typed'
    OBVIOUS
<1> USE DEF netVars, history
<1>1. TypeOK /\ {"idle", "remove_ca", "stop", "restore"} \subseteq Steps \ Loop
    BY DEF Typed, Steps, Loop
<1>2. ASSUME NEW how \in {"exit", "crash"}, Dies(how) PROVE Typed'
    <2>1. task' \in [Actors -> Task] /\ LoopHasValue'
        BY <1>2, IdleTask DEF Dies, LoopHasValue, Loop
    <2> QED
        BY <1>2, <2>1 DEF Dies, Typed, TypeOK
<1>3. ASSUME NEW p \in Actors, ActorStep(p) PROVE Typed'
    BY <1>2, <1>3, SettingsTyped, StepsTyped DEF ActorStep, StarterStep, Exits
<1>4. CASE Begin
    <2>1. TasksTyped
        BY <1>1, <1>4, BeginMoves, MovedTyped DEF Begin, Actors
    <2>2. races' \in 0 .. MaxRaces
        BY <1>4, MeetsTyped DEF Begin
    <2> QED
        BY <1>4, <2>1, <2>2 DEF Begin, Typed, TypeOK, TasksTyped
<1>5. ASSUME NEW p \in Stops, Press(p) PROVE Typed'
    <2>1. TasksTyped
        BY <1>1, <1>5, StopMoves, MovedTyped DEF Press, Actors
    <2> QED
        BY <1>5, <2>1 DEF Press, Typed, TypeOK, TasksTyped
<1>6. CASE Launch
    <2>1. TasksTyped
        BY <1>1, <1>6, BootMoves, MovedTyped DEF Launch, Actors
    <2>2. launches' \in 0 .. MaxLaunches
        BY <1>1, <1>6, TakeoverConstants DEF Launch, TypeOK
    <2> QED
        BY <1>6, <2>1, <2>2 DEF Launch, Typed, TypeOK, TasksTyped
<1>7. CASE Crash
    BY <1>2, <1>7 DEF Crash
<1>8. CASE OtherWrites
    <2>1. writes' \in 0 .. MaxWrites /\ registry' \in Values
        BY <1>1, <1>8, TakeoverConstants DEF OtherWrites, TypeOK, Values
    <2> QED
        BY <1>8, <2>1 DEF OtherWrites, Typed, TypeOK, LoopHasValue
<1>9. CASE UNCHANGED vars
    BY <1>9 DEF vars, Typed, TypeOK, LoopHasValue
<1> QED
    BY <1>3, <1>4, <1>5, <1>6, <1>7, <1>8, <1>9 DEF Next

LEMMA TypedInit == Init => Typed
<1>1. 0 \in 0 .. MaxWrites /\ 0 \in 0 .. MaxLaunches /\ 0 \in 0 .. MaxRaces
    BY TakeoverConstants
<1> QED
    BY <1>1, IdleTask DEF Init, Typed, TypeOK, LoopHasValue, Loop, Values

\* Every reachable state is typed, whatever fails, crashes or is written by others, and
\* whichever starts and stops meet (app_state.rs, main.rs): no step of the loop is
\* without settings to write.
THEOREM TakeoverTypeCorrect == Spec => []TypeOK
<1>1. Typed => TypeOK
    BY DEF Typed
<1> QED
    BY <1>1, TypedInit, TypedNext, PTL DEF Spec

-----------------------------------------------------------------------------
(* The loan                                                                 *)

\* Every step of the takeover is a step of the loan or leaves it alone.
LEMMA LoanStep ==
    ASSUME Inv, [Next]_vars
    PROVE  [Loan!Next]_Loan!vars
<1>1. ASSUME UNCHANGED <<registry, backup, writes>>
      PROVE  UNCHANGED Loan!vars
    BY <1>1 DEF Loan!vars
<1>2. ASSUME NEW p \in Actors, ActorStep(p)
      PROVE  [Loan!Next]_Loan!vars
    <2>1. CASE RestoreBegin(p) \/ Check(p) \/ Recheck(p) \/ StopTransport(p) \/ CleanupCertificate(p)
        BY <1>1, <2>1 DEF RestoreBegin, Check, Recheck, ReadBack, StopTransport,
           CleanupCertificate, RemoveTrusted, OnlyNet, netVars, history
    <2>2. CASE WriteRegistry(p)
        <3>1. task[p].pc = "write" /\ UNCHANGED <<backup, writes>>
            BY <2>2 DEF WriteRegistry, At, OnlyNet, history
        <3>2. backup # NoBackup
            BY <3>1 DEF Inv, Data, Restores, Enables, Loop
        <3>3. Inv'
            BY <2>2, WriteRegistryKeeps
        <3>4. registry' \in Proxies \cup {Local, Torn}
            BY <3>3 DEF Inv, TypeOK, Values
        <3>5. Loan!Use
            BY <3>1, <3>2, <3>4 DEF Loan!Use
        <3> QED
            BY <3>5 DEF Loan!Next
    <2>3. CASE RemoveBackup(p)
        <3>1. task[p].pc = "remove" /\ UNCHANGED <<registry, writes>>
            BY <2>3 DEF RemoveBackup, At, OnlyNet, history
        <3>2. /\ backup # NoBackup /\ task[p].snap = backup
              /\ registry = backup \/ (registry \in Proxies /\ writes > 0)
            <4>1. task[p].why # "apply"
                BY <3>1 DEF Inv, Placed, Legal, Loop
            <4> QED
                BY <3>1, <4>1 DEF Inv, Data, Restores
        <3>3. registry \in Proxies
            BY <3>2 DEF Inv, Data, Covered
        <3>4. CASE backup' = NoBackup
            <4>1. Loan!Return
                BY <3>1, <3>2, <3>3, <3>4 DEF Loan!Return
            <4> QED
                BY <4>1 DEF Loan!Next
        <3>5. CASE UNCHANGED backup
            BY <1>1, <3>1, <3>5
        <3> QED
            BY <2>3, <3>4, <3>5 DEF RemoveBackup
    <2>4. CASE SaveBackup
        <3>1. task["starter"].pc = "save" /\ UNCHANGED <<registry, writes>> /\ "starter" \in Actors
            BY <2>4 DEF SaveBackup, At, OnlyNet, history, Actors
        <3>2. /\ backup = NoBackup /\ task["starter"].snap \in Proxies
              /\ task["starter"].snap = registry \/ writes > 0
            BY <3>1 DEF Inv, Data, Enables
        <3>3. registry \in Proxies
            BY <3>2 DEF Inv, Data, Covered
        <3>4. CASE backup' = task["starter"].snap
            <4>1. Loan!Borrow
                BY <3>1, <3>2, <3>3, <3>4 DEF Loan!Borrow
            <4> QED
                BY <4>1 DEF Loan!Next
        <3>5. CASE UNCHANGED backup
            BY <1>1, <3>1, <3>5
        <3> QED
            BY <2>4, <3>4, <3>5 DEF SaveBackup
    <2>5. CASE StarterStep /\ ~SaveBackup
        BY <1>1, <2>5 DEF StarterStep, PrepareRemovesOld, UndoCertificate, RemoveTrusted,
           InstallTrusted, BindListener, StoreTransport, TakeSnapshot, StartSucceeds,
           EnableFails, StartFails, OnlyNet, netVars, history
    <2>6. CASE BootEnds \/ CleanupEnds \/ UpdateFails \/ Exits(p)
        BY <1>1, <2>6 DEF BootEnds, CleanupEnds, UpdateFails, Exits, Dies, netVars, history
    <2> QED
        BY <1>2, <2>1, <2>2, <2>3, <2>4, <2>5, <2>6 DEF ActorStep
<1>3. CASE Begin \/ Launch \/ Crash \/ \E p \in Stops : Press(p)
    BY <1>1, <1>3 DEF Begin, Launch, Crash, Dies, Press, netVars, history
<1>4. CASE OtherWrites
    <2>1. writes' > 0
        BY <1>4 DEF OtherWrites, Inv, TypeOK
    <2>2. Loan!Foreign
        BY <1>4, <2>1 DEF OtherWrites, Loan!Foreign
    <2> QED
        BY <2>2 DEF Loan!Next
<1>5. CASE UNCHANGED vars
    BY <1>1, <1>5 DEF vars, netVars, history
<1> QED
    BY <1>2, <1>3, <1>4, <1>5 DEF Next

\* While no stop works beside a start, no step raced before it either.
LEMMA RacesGrow ==
    ASSUME Typed, [Next]_vars, Unraced'
    PROVE  Unraced
<1>1. races \in Nat
    BY DEF Typed, TypeOK
<1>2. races' = races \/ races' = races + 1
    <2>1. ASSUME NEW other, Meets(other) PROVE races' = races \/ races' = races + 1
        BY <2>1 DEF Meets
    <2>2. ASSUME NEW p \in Actors, ActorStep(p) PROVE races' = races \/ races' = races + 1
        BY <2>1, <2>2 DEF ActorStep, RestoreBegin, WriteRegistry, Check, Recheck, ReadBack,
           RemoveBackup, StopTransport, CleanupCertificate, RemoveTrusted, StarterStep,
           PrepareRemovesOld, InstallTrusted, BindListener, UndoCertificate, StoreTransport,
           TakeSnapshot, SaveBackup, StartSucceeds, EnableFails, StartFails, BootEnds,
           CleanupEnds, UpdateFails, Exits, Dies, OnlyNet, history
    <2> QED
        BY <2>1, <2>2 DEF Next, Begin, Press, Launch, Crash, Dies, OtherWrites, history, vars
<1> QED
    BY <1>1, <1>2 DEF Unraced

LEMMA UnracedInv == Spec => [](Typed /\ (Unraced => Inv))
<1>1. Init => Typed /\ Inv
    BY InvInit, TypedInit
<1>2. Typed /\ (Unraced => Inv) /\ [Next]_vars => (Typed /\ (Unraced => Inv))'
    BY InvStep, TypedNext, RacesGrow
<1> QED
    BY <1>1, <1>2, PTL DEF Spec

\* system_proxy.rs keeps what SettingsLoan promises, for any settings, number of
\* attempts, failures, crashes, launches and foreign writes: the backup exists before the
\* registry is changed, and goes only when the settings were read back, as long as no
\* stop has worked beside a start.
THEOREM TakeoverIsLoan == Spec => ImplementsLoan
<1>1. Init => Loan!Init
    BY DEF Init, Loan!Init
<1>2. Typed /\ (Unraced => Inv) /\ [Next]_vars => [Loan!Next \/ ~Unraced']_(Loan!vars)
    BY LoanStep, RacesGrow
<1> QED
    BY <1>1, <1>2, UnracedInv, PTL DEF Spec, ImplementsLoan

\* Whatever the helper does, and whenever it is interrupted, the user's settings are in
\* force or kept (SystemProxyManager's enable, restore and recovery at launch), as long as
\* no stop has worked beside a start.
THEOREM SettingsAreKept == Spec => [](Unraced => Loan!NothingIsLost)
<1>1. Inv => Loan!NothingIsLost
    BY DEF Inv, Data, Covered, Loan!NothingIsLost
<1> QED
    BY <1>1, UnracedInv, PTL

-----------------------------------------------------------------------------
(***************************************************************************)
(* What runs and what is reported.  Three invariants above Inv: what a     *)
(* session has while it is live (SessionInv), what a stop or a launch has  *)
(* done when it ends without an error (ResultInv), and that each attempt   *)
(* of a loop without failing scripts is paid for by a foreign write        *)
(* (SmoothInv).                                                            *)
(***************************************************************************)

TakenOver == trusted /\ backup # NoBackup /\ (writes = 0 => registry = Local)

\* What the start in progress has done so far.
Takes(t) ==
    /\ t.pc \in {"remove_ca", "install_ca", "bind", "undo_ca", "store", "ended"} => ~live
    /\ t.why \in {"enable", "apply", "undo"} => live
    /\ t.pc \in {"bind", "store"} \/ t.why \in {"enable", "apply", "undo"} => trusted
    /\ t.why = "apply" => backup # NoBackup
    /\ t.pc = "enabled" /\ writes = 0 => registry = Local

SessionInv ==
    /\ live => process = "up" /\ \A p \in Actors : ~HoldsStopLock(p)
    /\ live /\ Idle("starter") => TakenOver
    /\ Takes(task["starter"])

\* The properties without their exception.
Quiet == process = "up" /\ ~live /\ ~reported /\ (\A p \in Actors : Idle(p)) => Clean
Absorbs == ~troubled /\ writes < Attempts => ~reported

\* What a stop or a launch has restored, unless it knows of an error.
Results(t) ==
    /\ t.pc = "certs" /\ t.ok => backup = NoBackup
    /\ t.pc = "ended" /\ t.why # "none" /\ t.ok => Clean

ResultInv == Quiet /\ \A p \in Actors : Results(task[p])

\* Nothing failed, and others wrote less often than a loop tries.
Smooth == ~troubled /\ writes < Attempts

\* A loop that goes on without a failure has met a foreign write for each attempt.
Counts(t) ==
    /\ t.pc \notin Loop \cup {"remove", "enabled"} => t.tries = 0
    /\ t.pc \in Loop /\ ~troubled => t.tries <= writes
    /\ t.pc \in {"check", "recheck"} /\ ~troubled /\ registry # t.snap => t.tries < writes

Succeeds(p) ==
    Smooth /\ ~Idle(p) =>
        /\ task[p].ok /\ task[p].why # "undo" /\ task[p].pc \notin {"failed", "undo_ca"}
        /\ p = "starter" => task[p].pc # "ended" /\ task[p].why # "stop"

SmoothInv ==
    /\ \A p \in Actors : Counts(task[p]) /\ Succeeds(p)
    /\ process # "up" => ~reported
    /\ Absorbs /\ NormalExitRestores

-----------------------------------------------------------------------------
(* The steps of a caller, field by field                                    *)

Turn(p, pc, why, tries, ok) ==
    /\ Others(p)
    /\ task'[p].pc = pc /\ task'[p].why = why
    /\ task'[p].tries = tries /\ task'[p].ok = ok

LEMMA GoesTurns ==
    ASSUME TypeOK, NEW p \in Actors, NEW pc, Goes(p, pc)
    PROVE  Turn(p, pc, task[p].why, task[p].tries, task[p].ok) /\ task'[p].snap = task[p].snap
BY DEF TypeOK, Task, Goes, Turn, Others

LEMMA ErrorTurns ==
    ASSUME TypeOK, NEW p \in Actors, NEW pc,
           task' = [task EXCEPT ![p].pc = pc, ![p].ok = FALSE]
    PROVE  Turn(p, pc, task[p].why, task[p].tries, FALSE)
BY DEF TypeOK, Task, Turn, Others

LEMMA SnapTurns ==
    ASSUME TypeOK, NEW p \in Actors, NEW pc, NEW snap,
           task' = [task EXCEPT ![p].pc = pc, ![p].snap = snap]
    PROVE  Turn(p, pc, task[p].why, task[p].tries, task[p].ok) /\ task'[p].snap = snap
BY DEF TypeOK, Task, Turn, Others

LEMMA ReturnTurns ==
    ASSUME TypeOK, NEW p \in Actors, NEW ok \in BOOLEAN, Return(p, ok)
    PROVE  /\ Returned(p, ok) /\ Turn(p, task'[p].pc, task[p].why, 0, ok)
           /\ task'[p].pc = "ended" => ~ok
<1>1. Returned(p, ok)
    BY ReturnReturns
<1>2. task'[p].tries = 0 /\ task'[p].ok = ok
    <2> DEFINE pc == task'[p].pc
    <2>1. PICK x : task' = [task EXCEPT ![p].ok = ok, ![p].snap = NoBackup, ![p].tries = 0,
                                        ![p].pc = x]
        BY DEF Return
    <2>2. task[p] \in Task
        BY DEF TypeOK
    <2>3. task'[p] = [task[p] EXCEPT !.ok = ok, !.snap = NoBackup, !.tries = 0, !.pc = x]
        BY <2>1 DEF TypeOK
    <2> QED
        BY <2>2, <2>3 DEF Task
<1>3. task'[p].pc = "ended" => ~ok
    <2> DEFINE pc == CASE task[p].why = "boot" -> IF ok THEN "certs" ELSE "ended"
                       [] task[p].why = "enable" -> IF ok THEN "snapshot" ELSE "failed"
                       [] task[p].why = "undo" -> "failed"
                       [] OTHER -> "certs"
    <2>1. pc = "ended" => ~ok
        OBVIOUS
    <2>2. task' = [task EXCEPT ![p].ok = ok, ![p].snap = NoBackup, ![p].tries = 0, ![p].pc = pc]
        BY DEF Return
    <2> HIDE DEF pc
    <2>3. task[p] \in Task
        BY DEF TypeOK
    <2>4. task'[p] = [task[p] EXCEPT !.ok = ok, !.snap = NoBackup, !.tries = 0, !.pc = pc]
        BY <2>2 DEF TypeOK
    <2>5. task'[p].pc = pc
        BY <2>3, <2>4 DEF Task
    <2> QED
        BY <2>1, <2>5
<1> QED
    BY <1>1, <1>2, <1>3 DEF Returned, Turn

\* A caller begins, or starts over, with a new task.
LEMMA FreshTurns ==
    ASSUME TypeOK, NEW p \in Actors
    PROVE  /\ task' = [task EXCEPT ![p] = NoTask] => Turn(p, "idle", "none", 0, TRUE)
           /\ task' = [task EXCEPT ![p] = [NoTask EXCEPT !.pc = "remove_ca"]]
                 => Turn(p, "remove_ca", "none", 0, TRUE)
           /\ task' = [task EXCEPT ![p] = [NoTask EXCEPT !.pc = "stop", !.why = "stop"]]
                 => Turn(p, "stop", "stop", 0, TRUE)
           /\ task' = [task EXCEPT ![p] = [NoTask EXCEPT !.pc = "restore", !.why = "boot"]]
                 => Turn(p, "restore", "boot", 0, TRUE)
           /\ task' = [task EXCEPT ![p] = [NoTask EXCEPT !.pc = "restore", !.why = "undo"]]
                 => Turn(p, "restore", "undo", 0, TRUE)
<1>1. ASSUME NEW t, task' = [task EXCEPT ![p] = t]
      PROVE  Turn(p, t.pc, t.why, t.tries, t.ok)
    BY <1>1 DEF TypeOK, Turn, Others
<1>2. NoTask \in Task /\ NoTask.pc = "idle" /\ NoTask.why = "none" /\ NoTask.tries = 0 /\ NoTask.ok
    BY IdleTask DEF NoTask
<1>3. ASSUME NEW pc, NEW t, t = [NoTask EXCEPT !.pc = pc]
      PROVE  t.pc = pc /\ t.why = "none" /\ t.tries = 0 /\ t.ok = TRUE
    BY <1>2, <1>3 DEF NoTask
<1>4. ASSUME NEW pc, NEW why, NEW t, t = [NoTask EXCEPT !.pc = pc, !.why = why]
      PROVE  t.pc = pc /\ t.why = why /\ t.tries = 0 /\ t.ok = TRUE
    BY <1>2, <1>4 DEF NoTask
<1>5. task' = [task EXCEPT ![p] = NoTask] => Turn(p, "idle", "none", 0, TRUE)
    <2> SUFFICES ASSUME task' = [task EXCEPT ![p] = NoTask] PROVE Turn(p, "idle", "none", 0, TRUE)
        OBVIOUS
    <2>1. Turn(p, NoTask.pc, NoTask.why, NoTask.tries, NoTask.ok)
        BY <1>1
    <2>2. NoTask.pc = "idle" /\ NoTask.why = "none" /\ NoTask.tries = 0 /\ NoTask.ok = TRUE
        BY <1>2 DEF NoTask
    <2> QED
        BY <2>1, <2>2 DEF Turn
<1>6. ASSUME NEW pc, task' = [task EXCEPT ![p] = [NoTask EXCEPT !.pc = pc]]
      PROVE  Turn(p, pc, "none", 0, TRUE)
    <2> DEFINE t == [NoTask EXCEPT !.pc = pc]
    <2>1. t.pc = pc /\ t.why = "none" /\ t.tries = 0 /\ t.ok = TRUE
        BY <1>3
    <2>2. Turn(p, t.pc, t.why, t.tries, t.ok)
        BY <1>1, <1>6
    <2> HIDE DEF t
    <2> QED
        BY <2>1, <2>2 DEF Turn
<1>7. ASSUME NEW pc, NEW why, task' = [task EXCEPT ![p] = [NoTask EXCEPT !.pc = pc, !.why = why]]
      PROVE  Turn(p, pc, why, 0, TRUE)
    <2> DEFINE t == [NoTask EXCEPT !.pc = pc, !.why = why]
    <2>1. t.pc = pc /\ t.why = why /\ t.tries = 0 /\ t.ok = TRUE
        BY <1>4
    <2>2. Turn(p, t.pc, t.why, t.tries, t.ok)
        BY <1>1, <1>7
    <2> HIDE DEF t
    <2> QED
        BY <2>1, <2>2 DEF Turn
<1> QED
    BY <1>5, <1>6, <1>7

LEMMA RetryTurns ==
    ASSUME TypeOK, NEW p \in Actors, NextAttempt(p)
    PROVE  \/ /\ task[p].tries + 1 < Attempts
              /\ Turn(p, "write", task[p].why, task[p].tries + 1, task[p].ok)
           \/ /\ ~(task[p].tries + 1 < Attempts) /\ task[p].why = "apply"
              /\ Turn(p, "restore", "undo", 0, TRUE)
           \/ /\ ~(task[p].tries + 1 < Attempts) /\ task[p].why # "apply"
              /\ Returned(p, FALSE) /\ Turn(p, task'[p].pc, task[p].why, 0, FALSE)
<1>1. CASE task[p].tries + 1 < Attempts
    <2>1. task' = [task EXCEPT ![p].pc = "write", ![p].tries = task[p].tries + 1]
        BY <1>1 DEF NextAttempt, TypeOK, Task
    <2> QED
        BY <1>1, <2>1 DEF TypeOK, Task, Turn, Others
<1>2. CASE ~(task[p].tries + 1 < Attempts) /\ task[p].why = "apply"
    <2>1. task' = [task EXCEPT ![p] = [NoTask EXCEPT !.pc = "restore", !.why = "undo"]]
        BY <1>2 DEF NextAttempt
    <2> QED
        BY <1>2, <2>1, FreshTurns
<1>3. CASE ~(task[p].tries + 1 < Attempts) /\ task[p].why # "apply"
    <2>1. Return(p, FALSE)
        BY <1>3 DEF NextAttempt
    <2> QED
        BY <1>3, <2>1, ReturnTurns
<1> QED
    BY <1>1, <1>2, <1>3

-----------------------------------------------------------------------------
(* SessionInv                                                               *)

\* A step without a session, or that ends one.
LEMMA DeadSession ==
    ASSUME ~live', task'["starter"].why \in {"none", "stop"},
           task'["starter"].pc \notin {"bind", "store", "enabled"}
    PROVE  SessionInv'
BY DEF SessionInv, Takes

\* A step of a stop or of the setup of main.rs.
LEMMA StopperSession ==
    ASSUME Inv, Inv', SessionInv, NEW p \in Actors, HoldsStopLock(p) \/ p = "boot", ~Idle(p),
           Others(p), UNCHANGED live, task'[p].why = task[p].why
    PROVE  SessionInv'
<1>1. ~live
    BY DEF Inv, Apart, SessionInv
<1>2. task'["starter"].why \in {"none", "stop"}
    <2>1. CASE p = "starter"
        BY <2>1 DEF HoldsStopLock
    <2>2. CASE p # "starter"
        <3>1. Idle("starter") \/ task["starter"].why = "stop"
            BY <2>2 DEF Inv, Apart, Placed, Legal, HoldsStopLock, Starting, Stopping, Actors
        <3> QED
            BY <2>2, <3>1 DEF Others, Inv, Placed, Legal, Idle, At, Actors, Restore, Loop
    <2> QED
        BY <2>1, <2>2
<1>3. task'["starter"].pc \notin {"bind", "store", "enabled"}
    <2>1. CASE p = "starter"
        BY <2>1 DEF HoldsStopLock, Inv, Placed, Legal, Restore, Loop
    <2>2. CASE p # "starter"
        <3>1. Idle("starter") \/ task["starter"].why = "stop"
            BY <2>2 DEF Inv, Apart, Placed, Legal, HoldsStopLock, Starting, Stopping, Actors
        <3> QED
            BY <2>2, <3>1 DEF Others, Inv, Placed, Legal, Idle, At, Actors, Restore, Loop
    <2> QED
        BY <2>1, <2>2
<1> QED
    BY <1>1, <1>2, <1>3, DeadSession

\* A step of enable().
LEMMA EnableSession ==
    ASSUME Inv, SessionInv, task["starter"].why \in {"enable", "apply", "undo"},
           Others("starter"), UNCHANGED <<process, live, trusted, writes>>,
           task'["starter"].pc # "idle",
           task'["starter"].why \in {"enable", "apply", "undo"}, Inv',
           task'["starter"].why = "apply" => backup' # NoBackup,
           task'["starter"].pc = "enabled" /\ writes = 0 => registry' = Local
    PROVE  SessionInv'
<1>1. live /\ process = "up" /\ trusted /\ \A q \in Actors : ~HoldsStopLock(q)
    BY DEF SessionInv, Takes
<1>2. \A q \in Actors : ~HoldsStopLock(q)'
    BY <1>1 DEF Others, HoldsStopLock
<1>3. task'["starter"].pc \notin {"remove_ca", "install_ca", "bind", "undo_ca", "store", "ended"}
    BY DEF Inv, Placed, Legal, Restore, Loop, Actors
<1> QED
    BY <1>1, <1>2, <1>3 DEF SessionInv, Takes, Idle, At

\* Who works on the settings.
LEMMA Workers ==
    ASSUME Inv, NEW p \in Actors, task[p].pc \in Restore \cup {"certs"}
    PROVE  /\ ~Idle(p)
           /\ HoldsStopLock(p) \/ p = "boot" \/ p = "starter"
           /\ p = "starter" => HoldsStopLock(p) \/ task[p].why \in {"enable", "apply", "undo"}
BY DEF Inv, Placed, Legal, HoldsStopLock, Restore, Loop, Idle, At

LEMMA WorkSession ==
    ASSUME Inv, SessionInv, Inv', NEW p \in Actors, task[p].pc \in Restore \cup {"certs"},
           Others(p), UNCHANGED <<process, live, trusted, writes>>,
           task'[p].pc # "idle", task'[p].why = task[p].why,
           task[p].why = "apply" => backup' # NoBackup,
           task'[p].pc = "enabled" /\ writes = 0 => registry' = Local
    PROVE  SessionInv'
BY Workers, StopperSession, EnableSession

\* The loop writes once more, undoes the takeover, or is over.
LEMMA RetrySession ==
    ASSUME Inv, SessionInv, Inv', NEW p \in Actors, task[p].pc \in Loop, NextAttempt(p),
           UNCHANGED <<process, live, trusted, writes, backup>>
    PROVE  SessionInv'
<1>1. task[p].pc \in Restore /\ backup # NoBackup
    BY DEF Restore, Inv, Data, Restores, Enables
<1>2. CASE Turn(p, "write", task[p].why, task[p].tries + 1, task[p].ok)
    BY <1>1, <1>2, WorkSession DEF Turn
<1>3. CASE task[p].why = "apply" /\ Turn(p, "restore", "undo", 0, TRUE)
    <2>1. p = "starter"
        BY <1>3 DEF Inv, Placed, Legal
    <2> QED
        BY <1>3, <2>1, EnableSession DEF Turn
<1>4. CASE Returned(p, FALSE)
    BY <1>1, <1>4, WorkSession DEF Returned
<1> QED
    BY <1>2, <1>3, <1>4, RetryTurns DEF Inv

LEMMA SettingsSession ==
    ASSUME Inv, SessionInv, Inv', NEW p \in Actors,
           RestoreBegin(p) \/ WriteRegistry(p) \/ Check(p) \/ Recheck(p) \/ RemoveBackup(p)
    PROVE  SessionInv'
<1>1. UNCHANGED <<process, live, trusted, writes>> /\ TypeOK
    BY DEF RestoreBegin, WriteRegistry, Check, Recheck, ReadBack, RemoveBackup, OnlyNet,
       netVars, history, Inv
<1>2. CASE RestoreBegin(p)
    <2>1. task[p].pc \in Restore /\ task[p].why # "apply"
        BY <1>2 DEF RestoreBegin, At, Restore, Loop, Inv, Placed, Legal
    <2>2. ASSUME NEW ok \in BOOLEAN, Return(p, ok) PROVE SessionInv'
        BY <1>1, <2>1, <2>2, ReturnReturns, WorkSession DEF Returned
    <2>3. ASSUME task' = [task EXCEPT ![p].pc = "write", ![p].snap = backup] PROVE SessionInv'
        <3>1. Turn(p, "write", task[p].why, task[p].tries, task[p].ok)
            BY <1>1, <2>3, SnapTurns
        <3> QED
            BY <1>1, <2>1, <3>1, WorkSession DEF Turn
    <2> QED
        BY <1>2, <2>2, <2>3 DEF RestoreBegin
<1>3. CASE WriteRegistry(p)
    <2>1. task[p].pc \in Loop /\ task[p].pc \in Restore /\ UNCHANGED backup
        BY <1>3 DEF WriteRegistry, At, Restore, Loop
    <2>2. backup # NoBackup
        BY <2>1 DEF Inv, Data, Restores, Enables
    <2>3. CASE Goes(p, "check")
        BY <1>1, <2>1, <2>2, <2>3, GoesTurns, WorkSession DEF Turn
    <2>4. CASE NextAttempt(p)
        BY <1>1, <2>1, <2>4, RetrySession
    <2> QED
        BY <1>3, <2>3, <2>4 DEF WriteRegistry
<1>4. CASE Check(p)
    <2>1. task[p].pc \in Loop /\ task[p].pc \in Restore /\ UNCHANGED backup
        BY <1>4 DEF Check, ReadBack, At, Restore, Loop, netVars
    <2>2. backup # NoBackup
        BY <2>1 DEF Inv, Data, Restores, Enables
    <2>3. CASE Goes(p, "recheck")
        BY <1>1, <2>1, <2>2, <2>3, GoesTurns, WorkSession DEF Turn
    <2>4. CASE NextAttempt(p)
        BY <1>1, <2>1, <2>4, RetrySession
    <2> QED
        BY <1>4, <2>3, <2>4 DEF Check, ReadBack
<1>5. CASE Recheck(p)
    <2>1. task[p].pc = "recheck" /\ task[p].pc \in Loop /\ UNCHANGED <<backup, registry>>
        BY <1>5 DEF Recheck, ReadBack, At, Loop, netVars
    <2>2. backup # NoBackup /\ task[p].pc \in Restore
        BY <2>1 DEF Inv, Data, Restores, Enables, Restore
    <2>3. CASE /\ registry = task[p].snap
               /\ Goes(p, IF task[p].why = "apply" THEN "enabled" ELSE "remove")
        <3>1. Turn(p, IF task[p].why = "apply" THEN "enabled" ELSE "remove",
                   task[p].why, task[p].tries, task[p].ok)
            BY <1>1, <2>3, GoesTurns
        <3>2. task[p].why = "apply" => registry = Local
            BY <2>1, <2>3 DEF Inv, Data, Enables
        <3>3. task'[p].pc \in {"enabled", "remove"} /\ task'[p].why = task[p].why /\ Others(p)
            BY <3>1 DEF Turn
        <3>4. task'[p].pc = "enabled" => task[p].why = "apply"
            BY <3>1 DEF Turn
        <3> QED
            BY <1>1, <2>1, <2>2, <3>2, <3>3, <3>4, WorkSession
    <2>4. CASE NextAttempt(p)
        BY <1>1, <2>1, <2>4, RetrySession
    <2> QED
        BY <1>5, <2>3, <2>4 DEF Recheck, ReadBack
<1>6. CASE RemoveBackup(p)
    <2>1. task[p].pc \in Restore /\ task[p].why # "apply"
        BY <1>6 DEF RemoveBackup, At, Restore, Inv, Placed, Legal, Loop
    <2>2. PICK ok \in BOOLEAN : Return(p, ok)
        BY <1>6 DEF RemoveBackup
    <2> QED
        BY <1>1, <2>1, <2>2, ReturnReturns, WorkSession DEF Returned
<1> QED
    BY <1>2, <1>3, <1>4, <1>5, <1>6

\* The steps of a start.
LEMMA StarterSession ==
    ASSUME Inv, SessionInv, Inv', StarterStep
    PROVE  SessionInv'
<1> DEFINE p == "starter"
<1>1. p \in Actors /\ TypeOK
    BY DEF Actors, Inv
<1>2. ASSUME task[p].pc \in {"remove_ca", "install_ca", "bind", "undo_ca"}, UNCHANGED live,
             NEW pc \in {"install_ca", "bind", "store", "undo_ca", "ended"},
             Others(p), task'[p].pc = pc, task'[p].why = task[p].why,
             pc \in {"bind", "store"} => trusted'
      PROVE  SessionInv'
    <2>1. ~live /\ task'[p].why = "none"
        BY <1>1, <1>2 DEF SessionInv, Takes, Inv, Placed, Legal, Restore, Loop
    <2> QED
        BY <1>2, <2>1 DEF SessionInv, Takes
<1>3. CASE PrepareRemovesOld \/ UndoCertificate
    <2>1. task[p].pc \in {"remove_ca", "undo_ca"} /\ UNCHANGED live
        BY <1>3 DEF PrepareRemovesOld, UndoCertificate, RemoveTrusted, At, OnlyNet
    <2>2. PICK pc \in {"install_ca", "ended"} :
              Goes(p, pc) \/ task' = [task EXCEPT ![p].pc = pc, ![p].ok = FALSE]
        BY <1>3 DEF PrepareRemovesOld, UndoCertificate, RemoveTrusted
    <2>3. Others(p) /\ task'[p].pc = pc /\ task'[p].why = task[p].why
        BY <1>1, <2>2, GoesTurns, ErrorTurns DEF Turn
    <2> QED
        BY <1>2, <2>1, <2>3
<1>4. CASE InstallTrusted
    <2>1. task[p].pc \in {"install_ca"} /\ UNCHANGED live
        BY <1>4 DEF InstallTrusted, At, OnlyNet
    <2>2. PICK pc \in {"bind", "ended"} : Goes(p, pc) /\ (pc = "bind" => trusted')
        BY <1>4 DEF InstallTrusted
    <2>3. Others(p) /\ task'[p].pc = pc /\ task'[p].why = task[p].why
        BY <1>1, <2>2, GoesTurns DEF Turn
    <2> QED
        BY <1>2, <2>1, <2>2, <2>3
<1>5. CASE BindListener
    <2>1. task[p].pc \in {"bind"} /\ UNCHANGED live /\ trusted'
        BY <1>5 DEF BindListener, At, OnlyNet, netVars, SessionInv, Takes
    <2>2. PICK pc \in {"store", "undo_ca"} : Goes(p, pc)
        BY <1>5 DEF BindListener
    <2>3. Others(p) /\ task'[p].pc = pc /\ task'[p].why = task[p].why
        BY <1>1, <2>2, GoesTurns DEF Turn
    <2> QED
        BY <1>2, <2>1, <2>2, <2>3
<1>6. CASE StoreTransport
    <2>1. task[p].pc = "store" /\ live' = TRUE /\ UNCHANGED <<process, trusted>>
        BY <1>6 DEF StoreTransport, At, netVars
    <2>2. Others(p) /\ task'[p].pc = "restore" /\ task'[p].why = "enable"
        <3>1. task \in [Actors -> Task]
            BY <1>1 DEF TypeOK
        <3>2. /\ task'[p] = [task[p] EXCEPT !.pc = "restore", !.why = "enable"]
              /\ Others(p)
            BY <1>1, <1>6, <3>1 DEF StoreTransport, Others
        <3>3. ASSUME NEW t \in Task, NEW u, u = [t EXCEPT !.pc = "restore", !.why = "enable"]
              PROVE  u.pc = "restore" /\ u.why = "enable"
            BY <3>3 DEF Task
        <3> QED
            BY <1>1, <3>1, <3>2, <3>3
    <2>3. trusted /\ process = "up"
        BY <1>1, <2>1 DEF SessionInv, Takes, Inv, Apart, Idle, At
    <2>4. \A q \in Actors : ~HoldsStopLock(q)'
        <3>1. ~Stopping
            BY <1>1, <2>1 DEF Inv, Apart, Placed, Legal, Restore, Loop, Starting, Idle, At
        <3>2. \A q \in Stops \cup {"boot"} : ~HoldsStopLock(q)
            BY <3>1 DEF Stopping, HoldsStopLock, Inv, Placed, Legal, Actors
        <3> QED
            BY <2>2, <3>2 DEF HoldsStopLock, Others, Actors
    <2> QED
        BY <2>1, <2>2, <2>3, <2>4 DEF SessionInv, Takes, Idle, At
<1>7. CASE TakeSnapshot
    <2>1. task[p].pc = "snapshot" /\ UNCHANGED <<process, live, trusted, writes>>
        BY <1>7 DEF TakeSnapshot, At, OnlyNet, netVars, history
    <2>2. task[p].why = "enable"
        BY <1>1, <2>1 DEF Inv, Placed, Legal, Restore, Loop
    <2>3. Others(p) /\ task'[p].pc \in {"save", "failed"} /\ task'[p].why = "enable"
        BY <1>1, <1>7, <2>2, GoesTurns, SnapTurns DEF TakeSnapshot, Turn
    <2> QED
        BY <2>1, <2>2, <2>3, EnableSession
<1>8. CASE SaveBackup
    <2>1. task[p].pc = "save" /\ UNCHANGED <<process, live, trusted, writes>>
        BY <1>8 DEF SaveBackup, At, OnlyNet, history
    <2>2. task[p].why = "enable" /\ task[p].snap \in Proxies
        BY <1>1, <2>1 DEF Inv, Placed, Legal, Restore, Loop, Data, Enables
    <2>3. CASE Goes(p, "failed")
        <3>1. Others(p) /\ task'[p].pc = "failed" /\ task'[p].why = "enable"
            BY <1>1, <2>2, <2>3, GoesTurns DEF Turn
        <3> QED
            BY <2>1, <2>2, <3>1, EnableSession
    <2>4. CASE /\ backup' = task[p].snap
               /\ task' = [task EXCEPT ![p].pc = "write", ![p].why = "apply", ![p].snap = Local]
        <3>1. Others(p) /\ task'[p].pc = "write" /\ task'[p].why = "apply"
            <4>1. task \in [Actors -> Task]
                BY <1>1 DEF TypeOK
            <4>2. /\ task'[p] = [task[p] EXCEPT !.pc = "write", !.why = "apply", !.snap = Local]
                  /\ Others(p)
                BY <1>1, <2>4, <4>1 DEF Others
            <4>3. ASSUME NEW t \in Task, NEW u,
                         u = [t EXCEPT !.pc = "write", !.why = "apply", !.snap = Local]
                  PROVE  u.pc = "write" /\ u.why = "apply"
                BY <4>3 DEF Task
            <4> QED
                BY <1>1, <4>1, <4>2, <4>3
        <3>2. backup' # NoBackup
            BY <2>2, <2>4, TakeoverConstants
        <3> QED
            BY <2>1, <2>2, <3>1, <3>2, EnableSession
    <2> QED
        BY <1>8, <2>3, <2>4 DEF SaveBackup
<1>9. CASE StartSucceeds
    <2>1. task[p].pc = "enabled" /\ UNCHANGED <<process, live, trusted, backup, registry, writes>>
        BY <1>9 DEF StartSucceeds, At, netVars, history
    <2>2. task[p].why = "apply"
        BY <1>1, <2>1 DEF Inv, Placed, Legal, Restore, Loop
    <2>3. Others(p) /\ task'[p].pc = "idle" /\ task'[p].why = "none"
        BY <1>1, <1>9, FreshTurns DEF StartSucceeds, Turn
    <2>4. live /\ TakenOver /\ process = "up" /\ \A q \in Actors : ~HoldsStopLock(q)
        BY <2>1, <2>2 DEF SessionInv, Takes, TakenOver
    <2>5. \A q \in Actors : ~HoldsStopLock(q)'
        BY <2>3, <2>4 DEF Others, HoldsStopLock
    <2> QED
        BY <2>1, <2>3, <2>4, <2>5 DEF SessionInv, Takes, TakenOver
<1>10. CASE EnableFails
    <2>1. task[p].pc = "failed" /\ UNCHANGED <<process, live>>
        BY <1>10 DEF EnableFails, At
    <2>2. Others(p) /\ task'[p].pc = "stop" /\ task'[p].why = "stop"
        BY <1>1, <1>10, FreshTurns DEF EnableFails, Turn
    <2>3. \A q \in Actors : HoldsStopLock(q)' => HoldsStopLock(q)
        BY <2>2 DEF Others, HoldsStopLock
    <2> QED
        BY <2>1, <2>2, <2>3 DEF SessionInv, Takes, Idle, At
<1>11. CASE StartFails
    <2>1. ~live'
        BY <1>11 DEF StartFails, At, SessionInv, Takes
    <2>2. task'[p].pc = "idle" /\ task'[p].why = "none"
        BY <1>1, <1>11, FreshTurns DEF StartFails, Turn
    <2> QED
        BY <2>1, <2>2, DeadSession
<1> QED
    BY <1>3, <1>4, <1>5, <1>6, <1>7, <1>8, <1>9, <1>10, <1>11 DEF StarterStep

LEMMA SessionNext ==
    ASSUME Inv, SessionInv, Inv', [Next]_vars
    PROVE  SessionInv'
<1>1. ASSUME NEW p \in Actors, ActorStep(p)
      PROVE  SessionInv'
    <2>1. CASE RestoreBegin(p) \/ WriteRegistry(p) \/ Check(p) \/ Recheck(p) \/ RemoveBackup(p)
        BY <2>1, SettingsSession
    <2>2. CASE StopTransport(p)
        <3>1. task[p].pc = "stop" /\ Goes(p, "restore") /\ ~live'
            BY <2>2 DEF StopTransport, At
        <3>2. Others(p) /\ task'[p].pc = "restore" /\ task'[p].why = task[p].why
            BY <3>1, GoesTurns DEF Inv, Turn
        <3>3. task[p].why = "stop"
            BY <3>1 DEF Inv, Placed, Legal, Restore, Loop
        <3>4. p # "starter" => p \in Stops
            BY <3>1 DEF Inv, Placed, Legal, Actors, Restore, Loop
        <3>5. p # "starter" => ~Starting'
            BY <3>2, <3>4 DEF Inv, Apart, Stopping
        <3>6. p # "starter" => /\ task'["starter"].why \in {"none", "stop"}
                               /\ task'["starter"].pc \notin {"bind", "store", "enabled"}
            BY <3>5 DEF Inv, Placed, Legal, Restore, Loop, Starting, Idle, At, Actors
        <3> QED
            BY <3>1, <3>2, <3>3, <3>6, DeadSession
    <2>3. CASE CleanupCertificate(p)
        <3>1. task[p].pc = "certs" /\ UNCHANGED live
            BY <2>3 DEF CleanupCertificate, RemoveTrusted, At, OnlyNet
        <3>2. Goes(p, "ended") \/ task' = [task EXCEPT ![p].pc = "ended", ![p].ok = FALSE]
            BY <2>3 DEF CleanupCertificate, RemoveTrusted
        <3>3. Others(p) /\ task'[p].why = task[p].why
            BY <3>2, GoesTurns, ErrorTurns DEF Inv, Turn
        <3>4. ~Idle(p) /\ (HoldsStopLock(p) \/ p = "boot")
            BY <3>1 DEF Inv, Placed, Legal, HoldsStopLock, Restore, Loop, Idle, At
        <3> QED
            BY <3>1, <3>3, <3>4, StopperSession
    <2>4. CASE StarterStep
        BY <2>4, StarterSession
    <2>5. CASE p = "boot" /\ BootEnds
        <3>1. ~Idle(p) /\ UNCHANGED live
            BY <2>5 DEF BootEnds, At, Idle
        <3>2. ~live
            BY <2>5, <3>1 DEF Inv, Apart, SessionInv
        <3>3. Idle("starter") /\ "starter" \in Actors
            BY <2>5, <3>1 DEF Inv, Apart, Actors
        <3>4. task'["starter"] = task["starter"]
            BY <2>5, <3>3, FreshTurns DEF BootEnds, Inv, Turn, Others
        <3> QED
            BY <3>1, <3>2, <3>3, <3>4, DeadSession DEF Idle, At, Inv, Placed, Legal, Restore, Loop
    <2>6. CASE p \in Stops /\ (CleanupEnds \/ UpdateFails)
        <3>1. PICK q \in {"cleanup", "update"} :
                  At(q, "ended") /\ task' = [task EXCEPT ![q] = NoTask]
            BY <2>6 DEF CleanupEnds, UpdateFails
        <3>2. q \in Actors /\ q # "starter" /\ UNCHANGED <<live, process, netVars, writes>>
            BY <2>6, <3>1 DEF CleanupEnds, UpdateFails, Actors, Stops, history
        <3>3. Others(q) /\ task'[q].pc = "idle" /\ "starter" \in Actors
            BY <3>1, <3>2, FreshTurns DEF Inv, Turn, Actors
        <3>4. task'["starter"] = task["starter"] /\ \A r \in Actors : HoldsStopLock(r)' => HoldsStopLock(r)
            BY <3>2, <3>3 DEF Others, HoldsStopLock
        <3> QED
            BY <3>2, <3>4 DEF SessionInv, Takes, TakenOver, Idle, At, netVars
    <2>7. CASE Exits(p)
        BY <2>7, IdleTask, DeadSession DEF Exits, Dies, Actors
    <2> QED
        BY <1>1, <2>1, <2>2, <2>3, <2>4, <2>5, <2>6, <2>7 DEF ActorStep, Stops
<1>2. CASE Begin
    <2>1. task'["starter"].pc = "remove_ca" /\ task'["starter"].why = "none" /\ ~live'
        BY <1>2, FreshTurns DEF Begin, Inv, Turn, Actors
    <2> QED
        BY <2>1, DeadSession
<1>3. CASE \E p \in Stops : Press(p)
    <2>1. PICK p \in Stops : Press(p)
        BY <1>3
    <2>2. p \in Actors /\ p # "starter" /\ "starter" \in Actors
        BY DEF Actors, Stops
    <2>3. Others(p) /\ task'[p].pc = "stop" /\ UNCHANGED <<process, netVars, live, writes>>
        BY <2>1, <2>2, FreshTurns DEF Press, Inv, Turn, history
    <2>4. task'["starter"] = task["starter"] /\ \A r \in Actors : HoldsStopLock(r)' => HoldsStopLock(r)
        BY <2>2, <2>3 DEF Others, HoldsStopLock
    <2> QED
        BY <2>3, <2>4 DEF SessionInv, Takes, TakenOver, Idle, At, netVars
<1>4. CASE Launch
    <2>1. ~live' /\ Idle("starter") /\ "starter" \in Actors
        BY <1>4 DEF Launch, SessionInv, Inv, Apart, Actors
    <2>2. task'["starter"] = task["starter"]
        BY <1>4, FreshTurns DEF Launch, Inv, Turn, Others, Actors
    <2> QED
        BY <2>1, <2>2, DeadSession DEF Idle, At, Inv, Placed, Legal, Restore, Loop
<1>5. CASE Crash
    BY <1>5, IdleTask, DeadSession DEF Crash, Dies, Actors
<1>6. CASE OtherWrites
    <2>1. UNCHANGED <<process, backup, trusted, live, task>> /\ writes' # 0
        BY <1>6 DEF OtherWrites, Inv, TypeOK
    <2> QED
        BY <2>1 DEF SessionInv, Takes, TakenOver, Idle, At, HoldsStopLock
<1>7. CASE UNCHANGED vars
    BY <1>7 DEF vars, netVars, history, SessionInv, Takes, TakenOver, Idle, At, HoldsStopLock
<1> QED
    BY <1>1, <1>2, <1>3, <1>4, <1>5, <1>6, <1>7 DEF Next

LEMMA SessionInit == Init => SessionInv
<1> SUFFICES ASSUME Init PROVE SessionInv
    OBVIOUS
<1>1. task["starter"] = NoTask /\ ~live
    BY DEF Init, Actors
<1> QED
    BY <1>1, IdleTask DEF SessionInv, Takes

-----------------------------------------------------------------------------
(* ResultInv                                                                *)

\* What a caller has restored stays restored while another one works.
LEMMA ResultsOfOthers ==
    ASSUME Inv, ResultInv, NEW p \in Actors, ~Idle(p), Others(p),
           \/ p = "starter" /\ Starting
           \/ /\ trusted' => trusted
              /\ backup = NoBackup => backup' = NoBackup /\ registry' = registry,
           NEW q \in Actors, q # p
    PROVE  Results(task[q])'
<1>1. task'[q] = task[q] /\ Results(task[q])
    BY DEF Others, ResultInv
<1>2. CASE p = "starter" /\ Starting
    <2>1. task[q].pc \in {"idle", "stop"}
        BY <1>2 DEF Inv, Apart, Stopping, Actors, Idle, At
    <2> QED
        BY <1>1, <2>1 DEF Results
<1>3. CASE ~(p = "starter" /\ Starting)
    BY <1>1, <1>3 DEF Results, Clean
<1> QED
    BY <1>2, <1>3

\* A caller that goes on.
LEMMA WorkResults ==
    ASSUME Inv, ResultInv, NEW p \in Actors, ~Idle(p), Others(p), task'[p].pc # "idle",
           \/ p = "starter" /\ Starting
           \/ /\ trusted' => trusted
              /\ backup = NoBackup => backup' = NoBackup /\ registry' = registry,
           Results(task[p])'
    PROVE  ResultInv'
<1>1. Quiet'
    BY DEF Quiet, Idle, At
<1> QED
    BY <1>1, ResultsOfOthers DEF ResultInv

\* A caller that ends: it reports an error, leaves a session, or has left nothing behind.
LEMMA EndResults ==
    ASSUME Inv, ResultInv, NEW p \in Actors, ~Idle(p), Others(p), task'[p].pc = "idle",
           UNCHANGED netVars, live' \/ reported' \/ Clean
    PROVE  ResultInv'
<1>1. Quiet'
    BY DEF Quiet, Clean, netVars
<1>2. Results(task[p])'
    BY DEF Results
<1>3. \A q \in Actors : q # p => Results(task[q])'
    BY ResultsOfOthers DEF netVars
<1> QED
    BY <1>1, <1>2, <1>3 DEF ResultInv

\* A caller that begins.
LEMMA BeginResults ==
    ASSUME Inv, ResultInv, NEW p \in Actors, Others(p),
           task'[p].pc \notin {"idle", "certs", "ended"}, UNCHANGED netVars
    PROVE  ResultInv'
<1>1. Quiet'
    BY DEF Quiet, Idle, At
<1>2. \A q \in Actors : Results(task[q])'
    BY DEF Results, ResultInv, Clean, Others, netVars
<1> QED
    BY <1>1, <1>2 DEF ResultInv

\* restore() returns Ok only without a backup.
LEMMA ReturnResults ==
    ASSUME Inv, ResultInv, NEW p \in Actors, ~Idle(p), NEW ok \in BOOLEAN, Return(p, ok),
           ok => backup' = NoBackup, trusted' => trusted,
           backup = NoBackup => backup' = NoBackup /\ registry' = registry
    PROVE  ResultInv'
<1>1. /\ Returned(p, ok) /\ Turn(p, task'[p].pc, task[p].why, 0, ok)
      /\ task'[p].pc = "ended" => ~ok
    BY ReturnTurns DEF Inv
<1>2. Others(p) /\ task'[p].pc # "idle" /\ task'[p].ok = ok
    BY <1>1 DEF Returned, Turn
<1>3. Results(task[p])'
    BY <1>1, <1>2 DEF Results
<1> QED
    BY <1>2, <1>3, WorkResults

LEMMA RetryResults ==
    ASSUME Inv, ResultInv, NEW p \in Actors, task[p].pc \in Loop, NextAttempt(p),
           UNCHANGED <<trusted, backup>>
    PROVE  ResultInv'
<1>1. ~Idle(p) /\ backup # NoBackup
    BY DEF Loop, Idle, At, Inv, Data, Restores, Enables
<1>2. CASE Turn(p, "write", task[p].why, task[p].tries + 1, task[p].ok)
    BY <1>1, <1>2, WorkResults DEF Turn, Results
<1>3. CASE Turn(p, "restore", "undo", 0, TRUE)
    BY <1>1, <1>3, WorkResults DEF Turn, Results
<1>4. CASE Returned(p, FALSE) /\ Turn(p, task'[p].pc, task[p].why, 0, FALSE)
    BY <1>1, <1>4, WorkResults DEF Returned, Turn, Results
<1> QED
    BY <1>2, <1>3, <1>4, RetryTurns DEF Inv

LEMMA SettingsResults ==
    ASSUME Inv, ResultInv, NEW p \in Actors,
           RestoreBegin(p) \/ WriteRegistry(p) \/ Check(p) \/ Recheck(p) \/ RemoveBackup(p)
    PROVE  ResultInv'
<1>1. trusted' = trusted /\ TypeOK /\ ~Idle(p)
    BY DEF RestoreBegin, WriteRegistry, Check, Recheck, ReadBack, RemoveBackup,
       netVars, Inv, Idle, At
<1>2. CASE RestoreBegin(p)
    <2>1. UNCHANGED <<registry, backup>>
        BY <1>2 DEF RestoreBegin, netVars
    <2>2. CASE backup = NoBackup /\ Return(p, TRUE)
        BY <1>1, <2>1, <2>2, ReturnResults
    <2>3. CASE Return(p, FALSE)
        BY <1>1, <2>1, <2>3, ReturnResults
    <2>4. CASE task' = [task EXCEPT ![p].pc = "write", ![p].snap = backup]
        <3>1. Turn(p, "write", task[p].why, task[p].tries, task[p].ok)
            BY <1>1, <2>4, SnapTurns
        <3> QED
            BY <1>1, <2>1, <3>1, WorkResults DEF Turn, Results
    <2> QED
        BY <1>2, <2>2, <2>3, <2>4 DEF RestoreBegin
<1>3. CASE WriteRegistry(p)
    <2>1. task[p].pc \in Loop /\ UNCHANGED backup
        BY <1>3 DEF WriteRegistry, At, Loop
    <2>2. backup # NoBackup
        BY <2>1 DEF Inv, Data, Restores, Enables
    <2>3. CASE Goes(p, "check")
        BY <1>1, <2>1, <2>2, <2>3, GoesTurns, WorkResults DEF Turn, Results
    <2>4. CASE NextAttempt(p)
        BY <1>1, <2>1, <2>4, RetryResults
    <2> QED
        BY <1>3, <2>3, <2>4 DEF WriteRegistry
<1>4. CASE Check(p) \/ Recheck(p)
    <2>1. task[p].pc \in Loop /\ UNCHANGED <<registry, backup>>
        BY <1>4 DEF Check, Recheck, ReadBack, At, Loop, netVars
    <2>2. ASSUME NEW pc \in {"recheck", "enabled", "remove"}, Goes(p, pc)
          PROVE  ResultInv'
        <3>1. Turn(p, pc, task[p].why, task[p].tries, task[p].ok)
            BY <1>1, <2>2, GoesTurns
        <3> QED
            BY <1>1, <2>1, <3>1, WorkResults DEF Turn, Results
    <2>3. CASE NextAttempt(p)
        BY <1>1, <2>1, <2>3, RetryResults
    <2> QED
        BY <1>4, <2>2, <2>3 DEF Check, Recheck, ReadBack
<1>5. CASE RemoveBackup(p)
    <2>1. registry' = registry
        BY <1>5 DEF RemoveBackup
    <2>2. CASE backup' = NoBackup /\ Return(p, TRUE)
        BY <1>1, <2>1, <2>2, ReturnResults
    <2>3. CASE UNCHANGED backup /\ Return(p, FALSE)
        BY <1>1, <2>1, <2>3, ReturnResults
    <2> QED
        BY <1>5, <2>2, <2>3 DEF RemoveBackup
<1> QED
    BY <1>2, <1>3, <1>4, <1>5

LEMMA StarterResults ==
    ASSUME Inv, SessionInv, ResultInv, StarterStep
    PROVE  ResultInv'
<1> DEFINE p == "starter"
<1>1. p \in Actors /\ TypeOK /\ ~Idle(p)
    BY DEF Actors, Inv, StarterStep, PrepareRemovesOld, InstallTrusted, BindListener,
       UndoCertificate, RemoveTrusted, StoreTransport, TakeSnapshot, SaveBackup,
       StartSucceeds, EnableFails, StartFails, Idle, At
<1>2. CASE StartSucceeds
    <2>1. task[p].why = "apply" /\ UNCHANGED <<live, netVars>>
        BY <1>1, <1>2 DEF StartSucceeds, At, Inv, Placed, Legal, Restore, Loop
    <2>2. live'
        BY <2>1 DEF SessionInv, Takes
    <2> QED
        BY <1>1, <1>2, <2>1, <2>2, FreshTurns, EndResults DEF StartSucceeds, Turn
<1>3. CASE StartFails
    BY <1>1, <1>3, FreshTurns, EndResults DEF StartFails, Turn
<1>4. CASE ~(StartSucceeds \/ StartFails)
    <2>0. Starting
        BY <1>1, <1>4 DEF StarterStep, PrepareRemovesOld, InstallTrusted, BindListener,
           UndoCertificate, RemoveTrusted, StoreTransport, TakeSnapshot, SaveBackup, EnableFails,
           At, Inv, Placed, Legal, Restore, Loop, Starting
    <2> SUFFICES Others(p) /\ task'[p].pc # "idle" /\ Results(task[p])'
        BY <1>1, <2>0, WorkResults
    <2>1. CASE PrepareRemovesOld \/ UndoCertificate
        <3>1. task[p].pc \in {"remove_ca", "undo_ca"}
            BY <2>1 DEF PrepareRemovesOld, UndoCertificate, RemoveTrusted, At
        <3>2. task[p].why = "none"
            BY <1>1, <3>1 DEF Inv, Placed, Legal, Restore, Loop
        <3>3. PICK pc \in {"install_ca", "ended"} :
                  Goes(p, pc) \/ task' = [task EXCEPT ![p].pc = pc, ![p].ok = FALSE]
            BY <2>1 DEF PrepareRemovesOld, UndoCertificate, RemoveTrusted
        <3> QED
            BY <1>1, <3>2, <3>3, GoesTurns, ErrorTurns DEF Turn, Results
    <2>2. CASE InstallTrusted \/ BindListener
        <3>1. task[p].pc \in {"install_ca", "bind"}
            BY <2>2 DEF InstallTrusted, BindListener, At
        <3>2. task[p].why = "none"
            BY <1>1, <3>1 DEF Inv, Placed, Legal, Restore, Loop
        <3>3. PICK pc \in {"bind", "ended", "store", "undo_ca"} : Goes(p, pc)
            BY <2>2 DEF InstallTrusted, BindListener
        <3> QED
            BY <1>1, <3>2, <3>3, GoesTurns DEF Turn, Results
    <2>3. CASE StoreTransport
        <3>1. task \in [Actors -> Task]
            BY <1>1 DEF TypeOK
        <3>2. task'[p] = [task[p] EXCEPT !.pc = "restore", !.why = "enable"] /\ Others(p)
            BY <1>1, <2>3, <3>1 DEF StoreTransport, Others
        <3>3. ASSUME NEW t \in Task, NEW u, u = [t EXCEPT !.pc = "restore", !.why = "enable"]
              PROVE  u.pc = "restore"
            BY <3>3 DEF Task
        <3>4. task'[p].pc = "restore"
            BY <1>1, <3>1, <3>2, <3>3
        <3> QED
            BY <3>2, <3>4 DEF Results
    <2>4. CASE TakeSnapshot
        <3>1. Others(p) /\ task'[p].pc \in {"save", "failed"}
            BY <1>1, <2>4, GoesTurns, SnapTurns DEF TakeSnapshot, Turn
        <3> QED
            BY <3>1 DEF Results
    <2>5. CASE SaveBackup
        <3>1. CASE Goes(p, "failed")
            BY <1>1, <3>1, GoesTurns DEF Turn, Results
        <3>2. CASE task' = [task EXCEPT ![p].pc = "write", ![p].why = "apply", ![p].snap = Local]
            <4>1. task \in [Actors -> Task]
                BY <1>1 DEF TypeOK
            <4>2. /\ task'[p] = [task[p] EXCEPT !.pc = "write", !.why = "apply", !.snap = Local]
                  /\ Others(p)
                BY <1>1, <3>2, <4>1 DEF Others
            <4>3. ASSUME NEW t \in Task, NEW u,
                         u = [t EXCEPT !.pc = "write", !.why = "apply", !.snap = Local]
                  PROVE  u.pc = "write"
                BY <4>3 DEF Task
            <4>4. task'[p].pc = "write"
                BY <1>1, <4>1, <4>2, <4>3
            <4> QED
                BY <4>2, <4>4 DEF Results
        <3> QED
            BY <2>5, <3>1, <3>2 DEF SaveBackup
    <2>6. CASE EnableFails
        BY <1>1, <2>6, FreshTurns DEF EnableFails, Turn, Results
    <2> QED
        BY <1>4, <2>1, <2>2, <2>3, <2>4, <2>5, <2>6 DEF StarterStep
<1> QED
    BY <1>2, <1>3, <1>4

LEMMA ResultNext ==
    ASSUME Inv, SessionInv, ResultInv, [Next]_vars
    PROVE  ResultInv'
<1>1. ASSUME NEW p \in Actors, ActorStep(p)
      PROVE  ResultInv'
    <2>1. CASE RestoreBegin(p) \/ WriteRegistry(p) \/ Check(p) \/ Recheck(p) \/ RemoveBackup(p)
        BY <2>1, SettingsResults
    <2>2. CASE StopTransport(p)
        <3>1. ~Idle(p) /\ Goes(p, "restore") /\ UNCHANGED netVars
            BY <2>2 DEF StopTransport, Idle, At
        <3> QED
            BY <3>1, GoesTurns, WorkResults DEF Inv, Turn, Results, netVars
    <2>3. CASE CleanupCertificate(p)
        <3>1. ~Idle(p) /\ At(p, "certs") /\ UNCHANGED <<registry, backup>>
            BY <2>3 DEF CleanupCertificate, RemoveTrusted, Idle, At
        <3>2. CASE trusted' = FALSE /\ Goes(p, "ended")
            <4>1. Turn(p, "ended", task[p].why, task[p].tries, task[p].ok)
                BY <3>2, GoesTurns DEF Inv
            <4>2. task[p].ok => Clean'
                BY <3>1, <3>2 DEF ResultInv, Results, At, Clean, Inv, Data, Covered
            <4>3. Results(task[p])'
                BY <4>1, <4>2 DEF Turn, Results
            <4> QED
                BY <3>1, <3>2, <4>1, <4>3, WorkResults DEF Turn
        <3>3. CASE /\ trusted' \in {trusted, FALSE}
                   /\ task' = [task EXCEPT ![p].pc = "ended", ![p].ok = FALSE]
            <4>1. Turn(p, "ended", task[p].why, task[p].tries, FALSE)
                BY <3>3, ErrorTurns DEF Inv
            <4>2. Results(task[p])'
                BY <4>1 DEF Turn, Results
            <4>3. trusted' => trusted
                BY <3>3
            <4>4. Others(p) /\ task'[p].pc # "idle"
                BY <4>1 DEF Turn
            <4> QED
                BY <3>1, <4>2, <4>3, <4>4, WorkResults
        <3> QED
            BY <2>3, <3>2, <3>3 DEF CleanupCertificate, RemoveTrusted
    <2>4. CASE StarterStep
        BY <2>4, StarterResults
    <2>5. CASE p = "boot" /\ BootEnds
        <3>1. ~Idle(p) /\ At(p, "ended") /\ task[p].why # "none"
            BY <2>5 DEF BootEnds, At, Idle, Inv, Placed, Legal
        <3>2. reported' \/ Clean
            BY <2>5, <3>1 DEF BootEnds, ResultInv, Results, At
        <3> QED
            BY <2>5, <3>1, <3>2, FreshTurns, EndResults DEF BootEnds, Inv, Turn
    <2>6. CASE p = "cleanup" /\ CleanupEnds
        <3>1. ~Idle(p) /\ At(p, "ended") /\ task[p].why # "none"
            BY <2>6 DEF CleanupEnds, At, Idle, Inv, Placed, Legal
        <3>2. reported' \/ Clean
            BY <2>6, <3>1 DEF CleanupEnds, ResultInv, Results, At
        <3> QED
            BY <2>6, <3>1, <3>2, FreshTurns, EndResults DEF CleanupEnds, Inv, Turn
    <2>7. CASE p = "update" /\ UpdateFails
        BY <2>7, FreshTurns, EndResults DEF UpdateFails, Inv, Turn, Idle, At
    <2>8. CASE Exits(p)
        BY <2>8, IdleTask DEF Exits, Dies, ResultInv, Quiet, Results
    <2> QED
        BY <1>1, <2>1, <2>2, <2>3, <2>4, <2>5, <2>6, <2>7, <2>8 DEF ActorStep
<1>2. CASE Begin
    BY <1>2, FreshTurns, BeginResults DEF Begin, Inv, Turn, Actors
<1>3. CASE \E p \in Stops : Press(p)
    <2>1. PICK p \in Stops : Press(p)
        BY <1>3
    <2> QED
        BY <2>1, FreshTurns, BeginResults DEF Press, Inv, Turn, Actors
<1>4. CASE Launch
    BY <1>4, FreshTurns, BeginResults DEF Launch, Inv, Turn, Actors
<1>5. CASE Crash
    BY <1>5, IdleTask DEF Crash, Dies, ResultInv, Quiet, Results
<1>6. CASE OtherWrites
    BY <1>6 DEF OtherWrites, ResultInv, Quiet, Results, Clean, Idle, At
<1>7. CASE UNCHANGED vars
    BY <1>7 DEF vars, netVars, history, ResultInv, Quiet, Results, Clean, Idle, At
<1> QED
    BY <1>1, <1>2, <1>3, <1>4, <1>5, <1>6, <1>7 DEF Next

LEMMA ResultInit == Init => ResultInv
BY IdleTask DEF Init, ResultInv, Quiet, Results

-----------------------------------------------------------------------------
(* SmoothInv                                                                *)

\* A step of p does not count for the others.
LEMMA CountsOfOthers ==
    ASSUME Inv, SmoothInv, NEW p \in Actors, Others(p), UNCHANGED writes,
           UNCHANGED registry \/ task[p].pc \in Busy, UNCHANGED troubled \/ troubled',
           NEW q \in Actors, q # p
    PROVE  Counts(task[q])' /\ Succeeds(q)'
<1>1. task'[q] = task[q] /\ Counts(task[q]) /\ Succeeds(q)
    BY DEF Others, SmoothInv
<1>2. task[q].pc \in Loop => UNCHANGED registry
    BY Alone DEF Busy
<1>3. Counts(task[q])'
    BY <1>1, <1>2 DEF Counts, Loop
<1>4. Succeeds(q)'
    BY <1>1 DEF Succeeds, Smooth, Idle, At
<1> QED
    BY <1>3, <1>4

\* A caller goes on.
LEMMA SmoothWork ==
    ASSUME Inv, SmoothInv, NEW p \in Actors, Others(p),
           UNCHANGED <<process, ended, reported, writes>>, process # "off",
           UNCHANGED registry \/ task[p].pc \in Busy, UNCHANGED troubled \/ troubled',
           Counts(task[p])', Succeeds(p)'
    PROVE  SmoothInv'
<1>1. Absorbs' /\ NormalExitRestores'
    BY DEF SmoothInv, Absorbs, NormalExitRestores
<1>2. \A q \in Actors : Counts(task[q])' /\ Succeeds(q)'
    BY CountsOfOthers
<1> QED
    BY <1>1, <1>2 DEF SmoothInv

\* A caller ends.
LEMMA SmoothEnd ==
    ASSUME Inv, SmoothInv, NEW p \in Actors, Turn(p, "idle", "none", 0, TRUE),
           process' = "up", UNCHANGED <<registry, writes>>,
           UNCHANGED troubled \/ troubled', Smooth' => ~reported'
    PROVE  SmoothInv'
<1>1. Absorbs' /\ NormalExitRestores'
    BY DEF Absorbs, NormalExitRestores, Smooth
<1>2. Counts(task[p])' /\ Succeeds(p)'
    BY DEF Turn, Counts, Succeeds, Idle, At, Loop
<1>3. \A q \in Actors : Counts(task[q])' /\ Succeeds(q)'
    BY <1>2, CountsOfOthers DEF Turn
<1> QED
    BY <1>1, <1>3 DEF SmoothInv

\* Without failures a loop always has an attempt left.
LEMMA SmoothRetry ==
    ASSUME Inv, Inv', SmoothInv, NEW p \in Actors, task[p].pc \in Loop, NextAttempt(p),
           UNCHANGED <<process, ended, reported, writes>>,
           UNCHANGED registry \/ troubled',
           \/ troubled' = TRUE
           \/ /\ UNCHANGED troubled
              /\ task[p].pc \in {"check", "recheck"} /\ registry # task[p].snap
    PROVE  SmoothInv'
<1>1. process # "off" /\ task[p].pc \in Busy /\ TypeOK
    BY DEF Inv, Apart, Idle, At, Loop, Busy
<1>2. /\ Counts(task[p]) /\ Succeeds(p) /\ task[p].tries \in Nat /\ ~Idle(p)
      /\ writes \in Nat /\ Attempts \in Nat
    BY TakeoverConstants DEF SmoothInv, Inv, TypeOK, Task, Idle, At, Loop
<1>3. ~troubled' => task[p].tries < writes
    BY <1>2 DEF Counts
<1>4. CASE /\ task[p].tries + 1 < Attempts
           /\ Turn(p, "write", task[p].why, task[p].tries + 1, task[p].ok)
    <2>1. Counts(task[p])'
        BY <1>2, <1>3, <1>4 DEF Turn, Counts, Loop
    <2>2. Succeeds(p)'
        BY <1>2, <1>4 DEF Turn, Succeeds, Smooth, Idle, At
    <2> QED
        BY <1>1, <1>4, <2>1, <2>2, SmoothWork DEF Turn
<1>5. CASE /\ ~(task[p].tries + 1 < Attempts)
           /\ Turn(p, task'[p].pc, task'[p].why, 0, task'[p].ok)
           /\ task'[p].pc \notin {"write", "check", "recheck"}
    <2>1. Counts(task[p])'
        BY <1>5 DEF Turn, Counts, Loop
    <2>2. ~Smooth'
        BY <1>2, <1>3, <1>5 DEF Smooth
    <2>3. Succeeds(p)'
        BY <2>2 DEF Succeeds
    <2> QED
        BY <1>1, <1>5, <2>1, <2>3, SmoothWork DEF Turn
<1>6. CASE /\ ~(task[p].tries + 1 < Attempts)
           /\ \/ Turn(p, "restore", "undo", 0, TRUE)
              \/ Returned(p, FALSE) /\ Turn(p, task'[p].pc, task[p].why, 0, FALSE)
    <2>1. task'[p].pc \notin {"write", "check", "recheck"}
        BY <1>6 DEF Returned, Turn
    <2>2. Turn(p, task'[p].pc, task'[p].why, 0, task'[p].ok)
        BY <1>6 DEF Turn
    <2> QED
        BY <1>5, <1>6, <2>1, <2>2
<1> QED
    BY <1>1, <1>4, <1>6, RetryTurns

\* restore() returns Ok, or something has failed.
LEMMA SmoothReturn ==
    ASSUME Inv, Inv', SmoothInv, NEW p \in Actors, task[p].pc \in Restore, NEW ok \in BOOLEAN,
           Return(p, ok), UNCHANGED <<process, ended, reported, writes, registry>>,
           (UNCHANGED troubled /\ ok) \/ troubled'
    PROVE  SmoothInv'
<1>1. process # "off" /\ ~Idle(p) /\ TypeOK
    BY DEF Inv, Apart, Idle, At, Restore, Loop
<1>2. /\ Returned(p, ok) /\ Turn(p, task'[p].pc, task[p].why, 0, ok)
      /\ task'[p].pc = "ended" => ~ok
    BY <1>1, ReturnTurns
<1>3. Counts(task[p])'
    BY <1>2 DEF Returned, Turn, Counts, Loop
<1>4. Succeeds(p)'
    <2>1. SUFFICES ASSUME Smooth'
                   PROVE  /\ task'[p].ok /\ task'[p].why # "undo"
                          /\ task'[p].pc \notin {"failed", "undo_ca"}
                          /\ p = "starter" => task'[p].pc # "ended" /\ task'[p].why # "stop"
        BY DEF Succeeds
    <2>2. ok /\ Smooth
        BY <2>1 DEF Smooth
    <2>3. task[p].why # "undo" /\ (p = "starter" => task[p].why # "stop")
        BY <1>1, <2>2 DEF SmoothInv, Succeeds
    <2>4. task'[p].pc \notin {"failed", "undo_ca"}
        BY <1>2, <2>2, <2>3 DEF Returned, Inv, Placed, Legal, Restore, Loop
    <2> QED
        BY <1>2, <2>2, <2>3, <2>4 DEF Turn
<1> QED
    BY <1>1, <1>2, <1>3, <1>4, SmoothWork DEF Turn

\* A step that fails leaves the loop or is outside it.
LEMMA SmoothFails ==
    ASSUME Inv, SmoothInv, NEW p \in Actors, ~Idle(p), NEW pc, NEW why, NEW ok,
           Turn(p, pc, why, 0, ok), troubled',
           UNCHANGED <<process, ended, reported, writes, registry>>
    PROVE  SmoothInv'
<1>1. process # "off" /\ Others(p)
    BY DEF Inv, Apart, Turn
<1>2. writes \in Nat
    BY DEF Inv, TypeOK
<1>3. Counts(task[p])' /\ Succeeds(p)'
    BY <1>2 DEF Turn, Counts, Succeeds, Smooth
<1> QED
    BY <1>1, <1>3, SmoothWork

\* A step that works, outside the loop or without another attempt.
LEMMA SmoothWorks ==
    ASSUME Inv, SmoothInv, NEW p \in Actors, ~Idle(p), NEW pc,
           NEW why \in {task[p].why, "enable", "apply"},
           Turn(p, pc, why, task[p].tries, task[p].ok),
           UNCHANGED <<process, ended, reported, writes, troubled>>,
           UNCHANGED registry \/ task[p].pc \in Busy,
           pc \notin {"failed", "undo_ca"}, p = "starter" => pc # "ended",
           pc \in {"check", "recheck"} => registry' = task'[p].snap /\ task[p].pc \in Loop,
           task[p].tries = 0 \/ (task[p].pc \in Loop /\ pc \in Loop \cup {"remove", "enabled"})
    PROVE  SmoothInv'
<1>1. process # "off" /\ Others(p)
    BY DEF Inv, Apart, Turn
<1>2. Counts(task[p]) /\ Succeeds(p) /\ task[p].tries \in Nat /\ writes \in Nat
    BY DEF SmoothInv, Inv, TypeOK, Task
<1>3. task'[p].pc = pc /\ task'[p].tries = task[p].tries
    BY DEF Turn
<1>4. Counts(task[p])'
    <2>1. task'[p].pc \notin Loop \cup {"remove", "enabled"} => task'[p].tries = 0
        BY <1>3
    <2>2. task'[p].pc \in Loop /\ ~troubled' => task'[p].tries <= writes'
        BY <1>2, <1>3 DEF Counts, Loop
    <2>3. task'[p].pc \in {"check", "recheck"} => registry' = task'[p].snap
        BY <1>3
    <2> QED
        BY <2>1, <2>2, <2>3 DEF Counts
<1>5. Succeeds(p)'
    BY <1>2 DEF Turn, Succeeds, Smooth
<1> QED
    BY <1>1, <1>4, <1>5, SmoothWork

LEMMA SettingsSmooth ==
    ASSUME Inv, Inv', SmoothInv, NEW p \in Actors,
           RestoreBegin(p) \/ WriteRegistry(p) \/ Check(p) \/ Recheck(p) \/ RemoveBackup(p)
    PROVE  SmoothInv'
<1>1. UNCHANGED <<process, ended, reported, writes>> /\ TypeOK /\ ~Idle(p)
    BY DEF RestoreBegin, WriteRegistry, Check, Recheck, ReadBack, RemoveBackup, OnlyNet,
       history, Inv, Idle, At
<1>2. Counts(task[p])
    BY DEF SmoothInv
<1>3. CASE RestoreBegin(p)
    <2>1. task[p].pc = "restore" /\ task[p].pc \in Restore /\ UNCHANGED registry
        BY <1>3 DEF RestoreBegin, At, Restore, netVars
    <2>2. CASE Return(p, TRUE) /\ Works
        BY <1>1, <2>1, <2>2, SmoothReturn DEF Works
    <2>3. CASE Return(p, FALSE) /\ Fails
        BY <1>1, <2>1, <2>3, SmoothReturn DEF Fails
    <2>4. CASE task' = [task EXCEPT ![p].pc = "write", ![p].snap = backup] /\ Works
        <3>1. Turn(p, "write", task[p].why, task[p].tries, task[p].ok)
            BY <1>1, <2>4, SnapTurns
        <3>2. UNCHANGED <<process, ended, reported, writes, troubled>>
            BY <1>1, <2>4 DEF Works
        <3>3. task[p].tries = 0
            BY <1>2, <2>1 DEF Counts, Loop
        <3> QED
            BY <1>1, <2>1, <3>1, <3>2, <3>3, SmoothWorks
    <2> QED
        BY <1>3, <2>2, <2>3, <2>4 DEF RestoreBegin
<1>4. CASE WriteRegistry(p)
    <2>1. task[p].pc \in Loop /\ task[p].pc \in Busy
        BY <1>4 DEF WriteRegistry, At, Loop, Busy
    <2>2. CASE registry' = task[p].snap /\ Goes(p, "check") /\ Works
        <3>1. Turn(p, "check", task[p].why, task[p].tries, task[p].ok) /\ task'[p].snap = task[p].snap
            BY <1>1, <2>2, GoesTurns
        <3>2. UNCHANGED <<process, ended, reported, writes, troubled>>
            BY <1>1, <2>2 DEF Works
        <3>3. "check" \in Loop \cup {"remove", "enabled"}
            BY DEF Loop
        <3> QED
            BY <1>1, <2>1, <2>2, <3>1, <3>2, <3>3, SmoothWorks
    <2>3. CASE NextAttempt(p) /\ Fails
        BY <1>1, <2>1, <2>3, SmoothRetry DEF Fails
    <2> QED
        BY <1>4, <2>2, <2>3 DEF WriteRegistry
<1>5. CASE Check(p) \/ Recheck(p)
    <2>1. task[p].pc \in {"check", "recheck"} /\ task[p].pc \in Loop /\ UNCHANGED registry
        BY <1>5 DEF Check, Recheck, ReadBack, At, Loop, netVars
    <2>2. ASSUME NEW pc \in {"recheck", "enabled", "remove"}, Goes(p, pc), Works,
                 registry = task[p].snap
          PROVE  SmoothInv'
        <3>1. Turn(p, pc, task[p].why, task[p].tries, task[p].ok) /\ task'[p].snap = task[p].snap
            BY <1>1, <2>2, GoesTurns
        <3>2. UNCHANGED <<process, ended, reported, writes, troubled>>
            BY <1>1, <2>2 DEF Works
        <3>3. pc \in Loop \cup {"remove", "enabled"}
            BY <2>2 DEF Loop
        <3> QED
            BY <1>1, <2>1, <2>2, <3>1, <3>2, <3>3, SmoothWorks
    <2>3. CASE NextAttempt(p) /\ ((registry # task[p].snap /\ Works) \/ Fails)
        BY <1>1, <2>1, <2>3, SmoothRetry DEF Works, Fails
    <2> QED
        BY <1>5, <2>2, <2>3 DEF Check, Recheck, ReadBack
<1>6. CASE RemoveBackup(p)
    <2>1. task[p].pc = "remove" /\ task[p].pc \in Restore /\ UNCHANGED registry
        BY <1>6 DEF RemoveBackup, At, Restore
    <2>2. backup # NoBackup
        BY <2>1 DEF Inv, Data, Restores, Placed, Legal, Loop
    <2>3. CASE Return(p, TRUE) /\ Works
        BY <1>1, <2>1, <2>3, SmoothReturn DEF Works
    <2>4. CASE Return(p, FALSE) /\ Fails
        BY <1>1, <2>1, <2>4, SmoothReturn DEF Fails
    <2> QED
        BY <1>6, <2>2, <2>3, <2>4 DEF RemoveBackup
<1> QED
    BY <1>3, <1>4, <1>5, <1>6

LEMMA StarterSmooth ==
    ASSUME Inv, Inv', SmoothInv, StarterStep
    PROVE  SmoothInv'
<1> DEFINE p == "starter"
<1>2. p \in Actors /\ TypeOK /\ Counts(task[p]) /\ Succeeds(p)
    BY DEF Actors, Inv, SmoothInv
<1>3. CASE PrepareRemovesOld \/ UndoCertificate
    <2>1. /\ task[p].pc \in {"remove_ca", "undo_ca"}
          /\ UNCHANGED <<process, ended, reported, writes, registry>>
        BY <1>3 DEF PrepareRemovesOld, UndoCertificate, RemoveTrusted, At, OnlyNet, history
    <2>2. ~Idle(p) /\ task[p].tries = 0
        BY <1>2, <2>1 DEF Counts, Loop, Idle, At
    <2>3. CASE PrepareRemovesOld /\ Goes(p, "install_ca") /\ Works
        BY <1>2, <2>1, <2>2, <2>3, GoesTurns, SmoothWorks DEF Works
    <2>4. CASE UndoCertificate /\ Goes(p, "ended") /\ Works
        <3>1. Turn(p, "ended", task[p].why, 0, task[p].ok)
            BY <1>2, <2>2, <2>4, GoesTurns
        <3>2. task[p].pc = "undo_ca"
            BY <2>4 DEF UndoCertificate, RemoveTrusted, At
        <3>3. ~Smooth /\ ~Smooth'
            BY <1>2, <2>1, <2>2, <2>4, <3>2 DEF Succeeds, Smooth, Works
        <3>4. Counts(task[p])' /\ Succeeds(p)'
            BY <3>1, <3>3 DEF Turn, Counts, Succeeds, Loop
        <3>5. process # "off" /\ Others(p)
            BY <1>2, <2>2, <3>1 DEF Inv, Apart, Turn
        <3> QED
            BY <1>2, <2>1, <2>4, <3>4, <3>5, SmoothWork DEF Works
    <2>5. CASE task' = [task EXCEPT ![p].pc = "ended", ![p].ok = FALSE] /\ Fails
        <3>1. Turn(p, "ended", task[p].why, 0, FALSE)
            BY <1>2, <2>2, <2>5, ErrorTurns
        <3> QED
            BY <1>2, <2>1, <2>2, <2>5, <3>1, SmoothFails DEF Fails
    <2> QED
        BY <1>3, <2>3, <2>4, <2>5 DEF PrepareRemovesOld, UndoCertificate, RemoveTrusted
<1>4. CASE InstallTrusted \/ BindListener \/ TakeSnapshot
    <2>1. /\ task[p].pc \in {"install_ca", "bind", "snapshot"}
          /\ UNCHANGED <<process, ended, reported, writes, registry>>
        BY <1>4 DEF InstallTrusted, BindListener, TakeSnapshot, At, OnlyNet, netVars, history
    <2>2. ~Idle(p) /\ task[p].tries = 0
        BY <1>2, <2>1 DEF Counts, Loop, Idle, At
    <2>3. ASSUME NEW pc \in {"bind", "store"}, Goes(p, pc), Works
          PROVE  SmoothInv'
        <3>1. Turn(p, pc, task[p].why, task[p].tries, task[p].ok)
            BY <1>2, <2>3, GoesTurns
        <3> QED
            BY <1>2, <2>1, <2>2, <2>3, <3>1, SmoothWorks DEF Works
    <2>4. CASE task' = [task EXCEPT ![p].pc = "save", ![p].snap = registry] /\ Works
        <3>1. Turn(p, "save", task[p].why, task[p].tries, task[p].ok)
            BY <1>2, <2>4, SnapTurns
        <3> QED
            BY <1>2, <2>1, <2>2, <2>4, <3>1, SmoothWorks DEF Works
    <2>5. ASSUME NEW pc \in {"ended", "undo_ca", "failed"}, Goes(p, pc), Fails
          PROVE  SmoothInv'
        <3>1. Turn(p, pc, task[p].why, 0, task[p].ok)
            BY <1>2, <2>2, <2>5, GoesTurns
        <3> QED
            BY <1>2, <2>1, <2>2, <2>5, <3>1, SmoothFails DEF Fails
    <2> QED
        BY <1>4, <2>3, <2>4, <2>5 DEF InstallTrusted, BindListener, TakeSnapshot
<1>5. CASE StoreTransport
    <2>1. /\ task[p].pc = "store"
          /\ UNCHANGED <<process, ended, reported, writes, registry, troubled>>
        BY <1>5 DEF StoreTransport, At, netVars, history
    <2>2. ~Idle(p) /\ task[p].tries = 0
        BY <1>2, <2>1 DEF Counts, Loop, Idle, At
    <2>3. Turn(p, "restore", "enable", task[p].tries, task[p].ok)
        <3>1. task \in [Actors -> Task]
            BY <1>2 DEF TypeOK
        <3>2. task'[p] = [task[p] EXCEPT !.pc = "restore", !.why = "enable"] /\ Others(p)
            BY <1>2, <1>5, <3>1 DEF StoreTransport, Others
        <3>3. ASSUME NEW t \in Task, NEW u, u = [t EXCEPT !.pc = "restore", !.why = "enable"]
              PROVE  u.pc = "restore" /\ u.why = "enable" /\ u.tries = t.tries /\ u.ok = t.ok
            BY <3>3 DEF Task
        <3> QED
            BY <1>2, <3>1, <3>2, <3>3 DEF Turn
    <2>4. "enable" \in {task[p].why, "enable", "apply"}
        OBVIOUS
    <2>5. UNCHANGED <<process, ended, reported, writes, troubled>>
        BY <2>1
    <2>6. UNCHANGED registry \/ task[p].pc \in Busy
        BY <2>1
    <2> QED
        BY <1>2, <2>2, <2>3, <2>4, <2>5, <2>6, SmoothWorks
<1>6. CASE SaveBackup
    <2>1. task[p].pc = "save" /\ UNCHANGED <<process, ended, reported, writes, registry>>
        BY <1>6 DEF SaveBackup, At, OnlyNet, history
    <2>2. ~Idle(p) /\ task[p].tries = 0
        BY <1>2, <2>1 DEF Counts, Loop, Idle, At
    <2>3. CASE /\ task' = [task EXCEPT ![p].pc = "write", ![p].why = "apply", ![p].snap = Local]
               /\ Works
        <3>1. Turn(p, "write", "apply", task[p].tries, task[p].ok)
            <4>1. task \in [Actors -> Task]
                BY <1>2 DEF TypeOK
            <4>2. /\ task'[p] = [task[p] EXCEPT !.pc = "write", !.why = "apply", !.snap = Local]
                  /\ Others(p)
                BY <1>2, <2>3, <4>1 DEF Others
            <4>3. ASSUME NEW t \in Task, NEW u,
                         u = [t EXCEPT !.pc = "write", !.why = "apply", !.snap = Local]
                  PROVE  u.pc = "write" /\ u.why = "apply" /\ u.tries = t.tries /\ u.ok = t.ok
                BY <4>3 DEF Task
            <4> QED
                BY <1>2, <4>1, <4>2, <4>3 DEF Turn
        <3> QED
            BY <1>2, <2>1, <2>2, <2>3, <3>1, SmoothWorks DEF Works
    <2>4. CASE Goes(p, "failed") /\ Fails
        <3>1. Turn(p, "failed", task[p].why, 0, task[p].ok)
            BY <1>2, <2>2, <2>4, GoesTurns
        <3> QED
            BY <1>2, <2>1, <2>2, <2>4, <3>1, SmoothFails DEF Fails
    <2> QED
        BY <1>6, <2>3, <2>4 DEF SaveBackup
<1>7. CASE StartSucceeds \/ StartFails
    <2>1. task[p].pc \in {"enabled", "ended"} /\ UNCHANGED <<process, registry, writes, troubled>>
        BY <1>7 DEF StartSucceeds, StartFails, At, netVars, history
    <2>2. ~Idle(p) /\ process = "up"
        BY <1>2, <2>1 DEF Idle, At, Inv, Apart
    <2>3. Smooth' => ~reported'
        BY <1>2, <1>7, <2>1, <2>2 DEF StartSucceeds, StartFails, At, Succeeds, Smooth
    <2> QED
        BY <1>2, <1>7, <2>1, <2>2, <2>3, FreshTurns, SmoothEnd DEF StartSucceeds, StartFails
<1>8. CASE EnableFails
    <2>1. /\ task[p].pc = "failed"
          /\ UNCHANGED <<process, ended, reported, writes, registry, troubled>>
        BY <1>8 DEF EnableFails, At, netVars, history
    <2>2. ~Idle(p) /\ process # "off" /\ Turn(p, "stop", "stop", 0, TRUE)
        BY <1>2, <1>8, <2>1, FreshTurns DEF EnableFails, Idle, At, Inv, Apart
    <2>3. ~Smooth'
        BY <1>2, <2>1, <2>2 DEF Succeeds, Smooth
    <2>4. Counts(task[p])' /\ Succeeds(p)'
        BY <2>2, <2>3 DEF Turn, Counts, Succeeds, Loop
    <2> QED
        BY <1>2, <2>1, <2>2, <2>4, SmoothWork DEF Turn
<1> QED
    BY <1>3, <1>4, <1>5, <1>6, <1>7, <1>8 DEF StarterStep

LEMMA SmoothNext ==
    ASSUME Inv, Inv', ResultInv, SmoothInv, [Next]_vars
    PROVE  SmoothInv'
<1>1. ASSUME NEW p \in Actors, ActorStep(p)
      PROVE  SmoothInv'
    <2>0. TypeOK /\ Counts(task[p]) /\ Succeeds(p)
        BY DEF Inv, SmoothInv
    <2>1. CASE RestoreBegin(p) \/ WriteRegistry(p) \/ Check(p) \/ Recheck(p) \/ RemoveBackup(p)
        BY <2>1, SettingsSmooth
    <2>2. CASE StopTransport(p)
        <3>1. /\ task[p].pc = "stop" /\ Goes(p, "restore")
              /\ UNCHANGED <<process, ended, reported, writes, troubled, registry>>
            BY <2>2 DEF StopTransport, At, netVars, history
        <3>2. ~Idle(p) /\ task[p].tries = 0
            BY <2>0, <3>1 DEF Counts, Loop, Idle, At
        <3>3. Turn(p, "restore", task[p].why, task[p].tries, task[p].ok)
            BY <2>0, <3>1, GoesTurns
        <3>4. UNCHANGED <<process, ended, reported, writes, troubled>>
            BY <3>1
        <3>5. UNCHANGED registry \/ task[p].pc \in Busy
            BY <3>1
        <3> QED
            BY <3>2, <3>3, <3>4, <3>5, SmoothWorks
    <2>3. CASE CleanupCertificate(p)
        <3>1. /\ task[p].pc = "certs"
              /\ UNCHANGED <<process, ended, reported, writes, registry>>
            BY <2>3 DEF CleanupCertificate, RemoveTrusted, At, OnlyNet, history
        <3>2. ~Idle(p) /\ task[p].tries = 0 /\ process # "off"
            BY <2>0, <3>1 DEF Counts, Loop, Idle, At, Inv, Apart
        <3>3. CASE Goes(p, "ended") /\ Works
            <4>1. Turn(p, "ended", task[p].why, task[p].tries, task[p].ok)
                BY <2>0, <3>3, GoesTurns
            <4>2. Counts(task[p])'
                BY <3>2, <4>1 DEF Turn, Counts, Loop
            <4>3. p = "starter" => task[p].why = "stop"
                BY <3>1 DEF Inv, Placed, Legal, Restore, Loop
            <4>4. Succeeds(p)'
                BY <2>0, <3>1, <3>2, <3>3, <4>1, <4>3 DEF Turn, Succeeds, Smooth, Works
            <4> QED
                BY <3>1, <3>2, <3>3, <4>1, <4>2, <4>4, SmoothWork DEF Turn, Works
        <3>4. CASE task' = [task EXCEPT ![p].pc = "ended", ![p].ok = FALSE] /\ Fails
            <4>1. Turn(p, "ended", task[p].why, 0, FALSE)
                BY <2>0, <3>2, <3>4, ErrorTurns
            <4> QED
                BY <3>1, <3>2, <3>4, <4>1, SmoothFails DEF Fails
        <3> QED
            BY <2>3, <3>3, <3>4 DEF CleanupCertificate, RemoveTrusted
    <2>4. CASE StarterStep
        BY <2>4, StarterSmooth
    <2>5. CASE p = "boot" /\ BootEnds
        <3>1. ~Idle(p) /\ UNCHANGED <<registry, writes, troubled>> /\ process' = "up"
            BY <2>5 DEF BootEnds, At, Idle, netVars, history
        <3>2. Smooth' => ~reported'
            <4>1. reported' = ~task[p].ok
                BY <2>5 DEF BootEnds
            <4>2. Smooth => task[p].ok
                BY <2>0, <3>1 DEF Succeeds
            <4>3. Smooth' => Smooth
                BY <3>1 DEF Smooth
            <4> QED
                BY <4>1, <4>2, <4>3
        <3> QED
            BY <2>0, <2>5, <3>1, <3>2, FreshTurns, SmoothEnd DEF BootEnds
    <2>6. CASE p = "cleanup" /\ CleanupEnds
        <3>1. /\ ~Idle(p) /\ UNCHANGED <<registry, writes, troubled, process>>
              /\ process = "up"
            BY <2>6 DEF CleanupEnds, At, Idle, netVars, history, Inv, Apart
        <3>2. Smooth' => ~reported'
            <4>1. reported' = ~task[p].ok
                BY <2>6 DEF CleanupEnds
            <4>2. Smooth => task[p].ok
                BY <2>0, <3>1 DEF Succeeds
            <4>3. Smooth' => Smooth
                BY <3>1 DEF Smooth
            <4> QED
                BY <4>1, <4>2, <4>3
        <3> QED
            BY <2>0, <2>6, <3>1, <3>2, FreshTurns, SmoothEnd DEF CleanupEnds
    <2>7. CASE p = "update" /\ UpdateFails
        <3>1. /\ UNCHANGED <<registry, writes, process>> /\ troubled'
              /\ process = "up"
            BY <2>7 DEF UpdateFails, At, Idle, netVars, history, Inv, Apart
        <3> QED
            BY <2>0, <2>7, <3>1, FreshTurns, SmoothEnd DEF UpdateFails, Smooth
    <2>8. CASE Exits(p)
        <3>1. /\ process' = "off" /\ ~reported' /\ UNCHANGED <<netVars, troubled, writes>>
              /\ \A q \in Actors : task'[q] = NoTask
            BY <2>8 DEF Exits, Dies
        <3>2. Smooth => Clean
            <4>1. At(p, "ended") /\ ~Idle(p) /\ task[p].why # "none"
                BY <2>8 DEF Exits, At, Idle, Inv, Placed, Legal
            <4> QED
                BY <2>0, <4>1 DEF Succeeds, ResultInv, Results, At
        <3>3. Absorbs' /\ NormalExitRestores'
            BY <3>1, <3>2 DEF Absorbs, NormalExitRestores, Smooth, Clean, netVars
        <3>4. \A q \in Actors : Counts(task[q])' /\ Succeeds(q)'
            BY <3>1, IdleTask DEF NoTask, Counts, Succeeds, Idle, At, Loop
        <3> QED
            BY <3>1, <3>3, <3>4 DEF SmoothInv
    <2> QED
        BY <1>1, <2>1, <2>2, <2>3, <2>4, <2>5, <2>6, <2>7, <2>8 DEF ActorStep
<1>2. ASSUME NEW p \in Actors, NEW pc \in {"remove_ca", "stop", "restore"}, NEW why \in {"none", "stop", "boot"},
             Turn(p, pc, why, 0, TRUE), p = "starter" => why # "stop",
             UNCHANGED <<registry, writes, reported, ended>>,
             \/ process # "off" /\ UNCHANGED <<process, troubled>>
             \/ process = "off" /\ process' = "boot" /\ \A q \in Actors : Idle(q)
      PROVE  SmoothInv'
    <2>1. ASSUME NEW q \in Actors PROVE Counts(task[q])' /\ Succeeds(q)'
        <3>1. CASE q = p
            BY <1>2, <3>1 DEF Turn, Counts, Succeeds, Loop
        <3>2. CASE q # p
            BY <1>2, <3>2 DEF Turn, Others, SmoothInv, Counts, Succeeds, Smooth, Idle, At, Loop
        <3> QED
            BY <3>1, <3>2
    <2> QED
        BY <1>2, <2>1 DEF SmoothInv, Absorbs, NormalExitRestores
<1>3. CASE Begin \/ Launch
    BY <1>2, <1>3, FreshTurns DEF Begin, Launch, Inv, Apart, Actors, netVars, history
<1>4. CASE \E p \in Stops : Press(p)
    <2>1. PICK p \in Stops : Press(p)
        BY <1>4
    <2>2. p \in Actors /\ p # "starter"
        BY DEF Actors, Stops
    <2>3. Turn(p, "stop", "stop", 0, TRUE)
        BY <2>1, <2>2, FreshTurns DEF Press, Inv
    <2> QED
        BY <1>2, <2>1, <2>2, <2>3 DEF Press, netVars, history
<1>5. CASE Crash
    <2>1. /\ process' = "off" /\ ~reported' /\ ended' = "crash"
          /\ \A q \in Actors : task'[q] = NoTask
        BY <1>5 DEF Crash, Dies
    <2>2. \A q \in Actors : Counts(task[q])' /\ Succeeds(q)'
        BY <2>1, IdleTask DEF NoTask, Counts, Succeeds, Idle, At, Loop
    <2> QED
        BY <2>1, <2>2 DEF SmoothInv, Absorbs, NormalExitRestores
<1>6. CASE OtherWrites
    <2>1. /\ writes' = writes + 1 /\ writes \in Nat /\ Attempts \in Nat /\ registry' \in Proxies
          /\ UNCHANGED <<process, backup, trusted, task, reported, troubled, ended>>
        BY <1>6, TakeoverConstants DEF OtherWrites, Inv, TypeOK
    <2>2. Smooth' => Smooth
        BY <2>1 DEF Smooth
    <2>3. ASSUME NEW q \in Actors PROVE Counts(task[q])' /\ Succeeds(q)'
        <3>1. Counts(task[q]) /\ Succeeds(q) /\ task[q].tries \in Nat
            BY DEF SmoothInv, Inv, TypeOK, Task
        <3>2. Counts(task[q])'
            BY <2>1, <3>1 DEF Counts, Loop
        <3>3. Succeeds(q)'
            BY <2>1, <2>2, <3>1 DEF Succeeds, Idle, At
        <3> QED
            BY <3>2, <3>3
    <2>4. Absorbs' /\ NormalExitRestores'
        BY <2>1, <2>2 DEF SmoothInv, Absorbs, NormalExitRestores, Smooth, Clean
    <2>5. (process # "up" => ~reported)'
        BY <2>1 DEF SmoothInv
    <2> QED
        BY <2>3, <2>4, <2>5 DEF SmoothInv
<1>7. CASE UNCHANGED vars
    BY <1>7 DEF vars, netVars, history, SmoothInv, Counts, Succeeds, Smooth, Absorbs,
       NormalExitRestores, Clean, Idle, At
<1> QED
    BY <1>1, <1>3, <1>4, <1>5, <1>6, <1>7 DEF Next

LEMMA SmoothInit == Init => SmoothInv
<1> SUFFICES ASSUME Init PROVE SmoothInv
    OBVIOUS
<1>1. \A q \in Actors : task[q] = NoTask
    BY DEF Init
<1>2. \A q \in Actors : Counts(task[q]) /\ Succeeds(q)
    BY <1>1, IdleTask DEF NoTask, Counts, Succeeds, Idle, At, Loop
<1> QED
    BY <1>2 DEF Init, SmoothInv, Absorbs, NormalExitRestores

LEMMA TakeoverInvariants ==
    Spec => [](Unraced => Inv /\ SessionInv /\ ResultInv /\ SmoothInv)
<1> DEFINE All == Inv /\ SessionInv /\ ResultInv /\ SmoothInv
<1>1. Init => Typed /\ All
    BY TypedInit, InvInit, SessionInit, ResultInit, SmoothInit
<1>2. Typed /\ (Unraced => All) /\ [Next]_vars => (Typed /\ (Unraced => All))'
    BY TypedNext, RacesGrow, InvStep, SessionNext, ResultNext, SmoothNext
<1> QED
    BY <1>1, <1>2, PTL DEF Spec

\* A session that runs while no caller is at work has its certificate and its way back,
\* whatever failed, crashed or was written before (enable_system_proxy, stop_transport), as
\* long as no stop has worked beside a start.
THEOREM SessionsAreTakenOver == Spec => []LiveIsTakenOver
<1>1. (Unraced => Inv /\ SessionInv) => LiveIsTakenOver
    BY DEF Inv, Data, Covered, SessionInv, TakenOver, LiveIsTakenOver, Actors
<1> QED
    BY <1>1, TakeoverInvariants, PTL

\* A helper without a session, without a command at work and without a reported error has
\* put the settings back, deleted the backup and removed its certificate, whatever failed or
\* crashed before (recover_network, recover_stale, record_failure), as long as no stop has
\* worked beside a start.
THEOREM QuietIsClean == Spec => []QuietMeansClean
<1>1. (Unraced => ResultInv) => QuietMeansClean
    BY DEF ResultInv, Quiet, QuietMeansClean
<1> QED
    BY <1>1, TakeoverInvariants, PTL

\* README, "normal exit": unless a script failed, or others wrote the settings at every
\* attempt, an exit leaves the settings restored and no certificate, also after a crash and
\* also when it was requested during a start, as long as no stop_transport has worked beside
\* a start.  What holds no longer then is shown by TLC (NormalExitRestores is violated).
THEOREM ExitsRestore == Spec => []UnracedExitRestores
<1>1. (Unraced => SmoothInv) => UnracedExitRestores
    BY DEF SmoothInv, UnracedExitRestores
<1> QED
    BY <1>1, TakeoverInvariants, PTL

\* Foreign writes alone, fewer than APPLY_VERIFY_ATTEMPTS, never make a start, a stop or a
\* launch report an error, for any number of attempts, as long as no stop has worked beside a
\* start.
THEOREM WritesAreAbsorbed == Spec => []RetriesAbsorbWrites
<1>1. (Unraced => SmoothInv) => RetriesAbsorbWrites
    BY DEF SmoothInv, Absorbs, RetriesAbsorbWrites
<1> QED
    BY <1>1, TakeoverInvariants, PTL
=============================================================================
