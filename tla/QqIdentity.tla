------------------------------ MODULE QqIdentity ------------------------------
(***************************************************************************)
(* How the helper finds out which QQ accounts are logged in: the detection *)
(* of qq_identity.rs and the login history of qq_login_history.rs that it  *)
(* shares with every other detection.                                      *)
(*                                                                         *)
(* A detection looks twice at the desktop.  A look is a blocking task: the *)
(* nicknames of the main windows, then QQ's login file, then the history.  *)
(* After 2 seconds the caller goes on, and the look with it: it still      *)
(* writes what it read into the history, whenever that is.                 *)
(*                                                                         *)
(* Windows and QQ are not in this repository: QQ keeps its latest logins   *)
(* with their nicknames in the file, the windows show the present ones.    *)
(***************************************************************************)
EXTENDS Naturals, Sequences, FiniteSets, Functions

CONSTANTS
    Accounts,
    NamesOf,     \* the nicknames that each account may have
    Detectors,   \* the callers: the account list, the monitor, the revalidation
    Target,      \* the account that a caller needs, or Anyone
    Anyone,
    Torn,        \* a file that was cut while it was written
    Attempts,    \* how often each caller tries
    Cap,         \* MAX_REMEMBERED_ACCOUNTS (16)
    FileCap,     \* how many logins QQ keeps in its file
    MaxChanges,  \* bound: changes of the desktop
    MaxFails,    \* bound: failed looks, time-outs, lost writes and restarts
    MaxStarts    \* bound: detections

Names == UNION {NamesOf[a] : a \in Accounts}
Entry == [account : Accounts, name : Names]
NoName == "none"
Error == <<>>    \* no identities

ASSUME IdentityConstants ==
    /\ NamesOf \in [Accounts -> (SUBSET Names) \ {{}}] /\ NoName \notin Names
    /\ Torn \notin Seq(Entry) /\ "orphan" \notin Detectors
    /\ Anyone \notin Accounts /\ Target \in [Detectors -> Accounts \cup {Anyone}]
    /\ Attempts \in [Detectors -> Nat \ {0}]
    /\ Cap \in Nat \ {0} /\ FileCap \in Nat \ {0}
    /\ \A bound \in {MaxChanges, MaxFails, MaxStarts} : bound \in Nat

VARIABLES
    windows,    \* the accounts with a main window
    name,       \* the nickname of each account
    loginFile,  \* login.enc, the latest login first
    history,    \* QqLoginHistory.accounts, the latest observation first
    disk,       \* qq-login-history.json: a list, or Torn
    look,       \* the blocking task of each detector, and one whose caller is gone
    detector,   \* the detections
    observed,   \* history: the nickname with which each account was last read, if any
    lost,       \* history: a write of the history failed or was cut
    changes, fails, starts  \* counters of the bounds

desktop == <<windows, name, loginFile>>
counters == <<changes, fails, starts>>
vars == <<desktop, history, disk, look, detector, observed, lost, counters>>

Threads == Detectors \cup {"orphan"}

NoLook == [pc |-> "none", seen |-> {}, file |-> <<>>, found |-> Error]
NewLook == [NoLook EXCEPT !.pc = "windows"]
Resting == [pc |-> "idle", tries |-> 0, first |-> NoLook, result |-> Error, seen |-> {},
            quiet |-> FALSE]

Init ==
    /\ windows = {}
    /\ name \in [Accounts -> Names] /\ \A a \in Accounts : name[a] \in NamesOf[a]
    /\ loginFile = <<>> /\ history = <<>> /\ disk = <<>>
    /\ look = [t \in Threads |-> NoLook]
    /\ detector = [d \in Detectors |-> Resting]
    /\ observed = [a \in Accounts |-> NoName]
    /\ lost = FALSE
    /\ changes = 0 /\ fails = 0 /\ starts = 0

-----------------------------------------------------------------------------
(* QQ and the desktop                                                       *)

\* Nothing that was found before this change needs to be true after it.
Disturbed == [d \in Detectors |-> [detector[d] EXCEPT !.quiet = FALSE]]

Change ==
    /\ changes < MaxChanges /\ changes' = changes + 1
    /\ detector' = Disturbed
    /\ UNCHANGED <<history, disk, look, observed, lost, fails, starts>>

\* The entries of a list that are in keep, in their order.
Only(list, keep) ==
    LET taken   == {i \in DOMAIN list : list[i] \in keep}
        Rank(i) == Cardinality({j \in taken : j <= i})
    IN  [k \in 1..Cardinality(taken) |-> list[CHOOSE i \in taken : Rank(i) = k]]

Without(list, a) == Only(list, {e \in Entry : e.account # a})
FirstOf(list, n) == SubSeq(list, 1, IF Len(list) < n THEN Len(list) ELSE n)
EntryOf(a) == [account |-> a, name |-> name[a]]

LogIn(a) ==
    /\ Change
    /\ a \notin windows /\ windows' = windows \cup {a}
    /\ loginFile' = FirstOf(<<EntryOf(a)>> \o Without(loginFile, a), FileCap)
    /\ UNCHANGED name

LogOut(a) ==
    /\ Change
    /\ windows' = windows \ {a} /\ a \in windows
    /\ UNCHANGED <<name, loginFile>>

Rename(a, n) ==
    /\ Change
    /\ name[a] # n /\ name' = [name EXCEPT ![a] = n]
    /\ UNCHANGED <<windows, loginFile>>

-----------------------------------------------------------------------------
(* A look: detect_all                                                       *)

Fails == fails < MaxFails /\ fails' = fails + 1

LookGoes(t, new) == look' = [look EXCEPT ![t] = new]
LookOnly == UNCHANGED <<desktop, history, disk, observed, lost, changes, starts>>

\* A look that failed leaves its detection without an answer.
LookFails(t) ==
    /\ LookGoes(t, [look[t] EXCEPT !.pc = "done"])
    /\ detector' = IF t \in Detectors THEN [detector EXCEPT ![t].quiet = FALSE] ELSE detector

\* visible_nicknames; without a window it is an error.
SeeWindows(t) ==
    /\ look[t].pc = "windows"
    /\ \/ /\ windows # {}
          /\ LookGoes(t, [look[t] EXCEPT !.pc = "file", !.seen = {EntryOf(a) : a \in windows}])
          /\ UNCHANGED <<detector, fails>>
       \/ LookFails(t) /\ ((windows = {} /\ UNCHANGED fails) \/ Fails)
    /\ LookOnly

\* The login file, with at least one account in it.
ReadLoginFile(t) ==
    /\ look[t].pc = "file"
    /\ \/ /\ loginFile # <<>>
          /\ LookGoes(t, [look[t] EXCEPT !.pc = "history", !.file = loginFile])
          /\ UNCHANGED <<detector, fails>>
       \/ LookFails(t) /\ Fails
    /\ LookOnly

\* remember_and_merge puts what was read before the rest of the history ...
Merged(file, known) ==
    file \o Only(known, {e \in Entry : \A f \in Range(file) : f.account # e.account})

\* Mutant: room for one entry less.
RememberedTooShort(file) == FirstOf(Merged(file, history), Cap - 1)

\* ... and keeps as many.
Remembered(file) == FirstOf(Merged(file, history), Cap)

\* Mutant: whoever was remembered is logged in.
ResolvedAll(entries, seen) == entries

\* resolve_identities: the accounts whose nickname a main window shows; none is an error.
Resolved(entries, seen) == Only(entries, {e \in Entry : \E s \in seen : s.name = e.name})

\* Mutant: the history is written only when an account is new in it.
ChangedByGrowth(file) == Len(Remembered(file)) > Len(history)

Changed(file) == Remembered(file) # history

\* Another detection's entries that are no longer in the file are not quiet.
Stale(t) == [d \in Detectors |-> IF d # t /\ look[t].file # loginFile
                                 THEN [detector[d] EXCEPT !.quiet = FALSE] ELSE detector[d]]

\* Under the mutex of the history, which is held until the file is written.
Remember(t) ==
    LET file == look[t].file IN
    /\ look[t].pc = "history"
    /\ \A u \in Threads : look[u].pc # "write"
    /\ history' = Remembered(file)
    /\ observed' = [a \in Accounts |->
                      IF \E e \in Range(file) : e.account = a
                      THEN (CHOOSE e \in Range(file) : e.account = a).name ELSE observed[a]]
    /\ LookGoes(t, [look[t] EXCEPT !.pc = IF Changed(file) THEN "write" ELSE "done",
                                   !.file = <<>>,
                                   !.found = Resolved(Merged(file, history'), look[t].seen)])
    /\ detector' = Stale(t)
    /\ UNCHANGED <<desktop, disk, lost, counters>>

\* persist_accounts; its error is ignored.
Persist(t) ==
    /\ look[t].pc = "write"
    /\ \/ disk' = history /\ lost' = FALSE /\ UNCHANGED fails
       \/ disk' \in {disk, Torn} /\ lost' = TRUE /\ Fails
    /\ LookGoes(t, [look[t] EXCEPT !.pc = "done"])
    /\ UNCHANGED <<desktop, history, detector, observed, changes, starts>>

OrphanEnds ==
    /\ look["orphan"].pc = "done"
    /\ LookGoes("orphan", NoLook)
    /\ UNCHANGED <<detector, fails>> /\ LookOnly

-----------------------------------------------------------------------------
(* A detection: detect_stable_all_async and detect_selected_qq_with_retry   *)

DetectorOnly == UNCHANGED <<desktop, history, disk, observed, lost, changes>>

\* Nothing older than the present file is on its way into the history.
NothingStale ==
    \A t \in Threads : look[t].pc = "history" => look[t].file = loginFile

FirstLook(d, tries) ==
    /\ detector' = [detector EXCEPT ![d] = [Resting EXCEPT !.pc = "first", !.tries = tries,
                                                           !.quiet = NothingStale]]
    /\ LookGoes(d, NewLook)

Detect(d) ==
    /\ detector[d].pc = "idle" /\ starts < MaxStarts
    /\ starts' = starts + 1
    /\ FirstLook(d, 1)
    /\ UNCHANGED fails /\ DetectorOnly

\* The attempt found nothing certain: try again, or give the error back.
AttemptFails(d) ==
    IF detector[d].tries < Attempts[d]
    THEN FirstLook(d, detector[d].tries + 1)
    ELSE /\ detector' = [detector EXCEPT ![d] = [Resting EXCEPT !.quiet = detector[d].quiet]]
         /\ LookGoes(d, NoLook)

\* The second look comes 250 ms after the first.
SecondLook(d) ==
    /\ detector[d].pc = "first" /\ look[d].pc = "done"
    /\ IF look[d].found = Error
       THEN AttemptFails(d)
       ELSE /\ detector' = [detector EXCEPT ![d].pc = "second", ![d].first = look[d]]
            /\ LookGoes(d, NewLook)
    /\ UNCHANGED <<fails, starts>> /\ DetectorOnly

\* Mutant: the same number of accounts is enough.
ConfirmedByNumber(d) ==
    /\ look[d].found # Error /\ Len(look[d].found) = Len(detector[d].first.found)
    /\ Target[d] = Anyone \/ \E e \in Range(look[d].found) : e.account = Target[d]

\* confirm_stable_identities, and the account that the caller needs.
Confirmed(d) ==
    /\ look[d].found # Error /\ look[d].found = detector[d].first.found
    /\ Target[d] = Anyone \/ \E e \in Range(look[d].found) : e.account = Target[d]

Confirm(d) ==
    /\ detector[d].pc = "second" /\ look[d].pc = "done"
    /\ IF Confirmed(d)
       THEN /\ detector' = [detector EXCEPT ![d].pc = "idle", ![d].result = look[d].found,
                                            ![d].seen = look[d].seen]
            /\ LookGoes(d, NoLook)
       ELSE AttemptFails(d)
    /\ UNCHANGED <<fails, starts>> /\ DetectorOnly

\* After 2 seconds the caller is told that QQ could not be read.  Its look goes on
\* without it (bound: one at a time).
TimeOut(d) ==
    /\ detector[d].pc \in {"first", "second"} /\ look[d].pc # "done"
    /\ look["orphan"].pc = "none"
    /\ Fails
    /\ LET again == detector[d].tries < Attempts[d] IN
       /\ look' = [look EXCEPT !["orphan"] = look[d], ![d] = IF again THEN NewLook ELSE NoLook]
       /\ detector' = [detector EXCEPT ![d] =
                         IF again THEN [Resting EXCEPT !.pc = "first", !.tries = detector[d].tries + 1]
                         ELSE Resting]
    /\ UNCHANGED starts /\ DetectorOnly

-----------------------------------------------------------------------------
(* The process *)

\* load_accounts: what cannot be read is an empty history.
Loaded(file) == IF file = Torn THEN <<>> ELSE FirstOf(file, Cap)

\* The helper ends, by itself or not, and is started again; a write that was going on
\* may have been cut.
Restart ==
    /\ Fails
    /\ LET cut == \E t \in Threads : look[t].pc = "write" IN
       /\ disk' \in {disk} \cup (IF cut THEN {Torn, history} ELSE {})
       /\ history' = Loaded(disk')
       /\ observed' = IF lost \/ cut THEN [a \in Accounts |-> NoName] ELSE observed
       /\ lost' = (disk' = Torn)
    /\ look' = [t \in Threads |-> NoLook]
    /\ detector' = [d \in Detectors |-> Resting]
    /\ UNCHANGED <<desktop, changes, starts>>

-----------------------------------------------------------------------------

LookStep(t) == SeeWindows(t) \/ ReadLoginFile(t) \/ Remember(t) \/ Persist(t)

DetectorStep(d) == SecondLook(d) \/ Confirm(d)

Next ==
    \/ \E t \in Threads : LookStep(t)
    \/ OrphanEnds
    \/ \E d \in Detectors : Detect(d) \/ DetectorStep(d) \/ TimeOut(d)
    \/ \E a \in Accounts : LogIn(a) \/ LogOut(a) \/ \E n \in NamesOf[a] : Rename(a, n)
    \/ Restart

Spec == Init /\ [][Next]_vars

-----------------------------------------------------------------------------
(* Properties *)

\* A confirmed account showed its nickname in a main window at both looks, so it was
\* logged in both times or a namesake was (the tests keep namesakes as separate
\* accounts to choose from); never one that is only remembered.
ConfirmedIsLoggedIn ==
    \A d \in Detectors : detector[d].pc = "idle" /\ detector[d].result # Error =>
        \A e \in Range(detector[d].result), seen \in {detector[d].first.seen, detector[d].seen} :
            \E s \in seen : s.name = e.name

\* When nothing disturbs the last attempt (no change of the desktop, no failure, no old
\* entries of a look that timed out), a detection finds every account that is logged
\* in under the nickname with which this helper last read it, although QQ's file has
\* only the latest logins; unless there were more accounts than the history holds.
QuietDetectionSucceeds ==
    \A d \in Detectors :
        LET expected == {a \in windows : observed[a] = name[a]} IN
        /\ detector[d].pc = "idle" /\ detector[d].quiet
        /\ Cardinality({a \in Accounts : observed[a] # NoName}) <= Cap
        /\ expected # {} /\ Target[d] \in expected \cup {Anyone}
        => /\ detector[d].result # Error
           /\ expected \subseteq {e.account : e \in Range(detector[d].result)}

\* The file is what memory holds whenever no write is going on, unless the last one
\* failed: a restart forgets nothing.
DiskFollowsMemory ==
    ~lost /\ (\A t \in Threads : look[t].pc # "write") => disk = history

=============================================================================
