# QQ Farm Code Helper: TLA+ models and proofs

The helper is a Tauri desktop program. It puts a local HTTPS proxy into the Windows
system settings, waits for the QQ farm client to log in through it, takes the login Code
(and, if wanted, the friend list) out of that login, shows the Code or records it on a
server, and puts the network back. A second mode records the WebSocket protocol instead.

This directory holds models of its concurrent core, TLC configurations that check them on
small instances, and machine-checked proofs. Paths below are relative to
`src-tauri/src/` unless they start with `src/` (the window) or name a document.

## 1. The system

| Component | State | Operations | Talks to |
|---|---|---|---|
| Capture session (`app_state.rs`) | `RuntimeState` behind one async mutex: cancellation, tasks, `armed`, `selected_qq_number`, `locked_identity`, `capture_target`, `last_code`, `status`; the mutexes `transport_stop`, `network_recovery`, `sync_operation` | start, sync/arm, cancel, stop, cleanup, get Code; the capture handler; the identity monitor | the window (commands, `capture-status` events), the local proxy (`armed`, a channel of 4), server sync, QQ detection, network takeover |
| Local proxy (`proxy.rs`) | the accept loop's `JoinSet`; the shared `armed` flag | accept, tunnel, intercept the farm host, claim a login by `armed.swap(false)`, report, end all connections on cancellation | capture session, friend relay, protocol capture |
| Network takeover (`system_proxy.rs`, `certificates.rs`, callers in `app_state.rs`, `main.rs`, `commands.rs`) | the registry values, the backup file, the CA in the Root store | enable, restore, recover at launch, prepare, cleanup | the operating system by PowerShell; everything else that writes the same settings |
| Friend relay (`friend_proxy.rs`) | per login: reply channel, merged friends, own identity, one injected request | connect, upgrade, relay both directions, two timed waits, injection, outcome | the gateway, the QQ client, the friend inspector |
| Friend inspector (`friend_capture.rs`) | buffer, open fragmented message, enabled | `feed` | friend relay |
| Protocol capture (`protocol_capture.rs`) | session directory, `CaptureWriter` behind a mutex, counters | handshake URL, message, `connections.jsonl`, `manifest.jsonl`, relay, stop, summary | local proxy, capture session's stop |
| Protocol inspector (`protocol_capture.rs`) | as the friend inspector, masked or not | `feed`, `finish` | protocol capture |
| Server sync (`server_sync.rs`, callers in `app_state.rs`) | none; several HTTP requests per login | find, create, update, start an account; add and remove friend ids | the user's server |
| QQ detection, login history (`qq_identity.rs`, `qq_window.rs`, `qq_login_history.rs`) | a bounded list of account/nickname pairs and its file, shared by all detections | look at the desktop twice, read QQ's login file, remember, confirm | Windows, the QQ client's files |
| Settings, migration (`settings.rs`, `main.rs`) | the files beside the executable | load, save, set the update proxy; move the files of older versions | disk |
| Updater, installer (`updater.rs`, `update_installer.rs`, `commands.rs`) | executable, backup, staged file, package | download, verify, end the program, replace and restart by a script that outlives it | network, disk, the next program |
| Window (`src/app.js`) | the status it shows, pending flags | offers commands | commands |

What is hard in it:

* **Interleaving.** Commands, the handler, monitors and connections run on one async
  runtime; every one of them releases the runtime mutex between a read and the write that
  depends on it. Claims are made outside that mutex.
* **Ordering.** `select!` picks a ready branch at random; events, timers and the end of a
  connection race each other.
* **Crash and partial failure.** The registry, the backup, and the Root store are changed
  by steps that each can fail or be the last one of the process.
* **Limits.** Bounded channels whose errors are ignored, buffer limits that must leave room
  for every legal frame, reads that end anywhere.
* **Time-outs.** A request or a look that its caller gave up goes on, and takes effect later.
* **Liveness.** A claimed login that nobody resolves would lock the account list; a stop
  joins all connections; retry loops must end.

`PROJECT.json` ("hazards") lists each place with its line and the properties that cover it.

## 2. The modules

| Module | Models | State and actions |
|---|---|---|
| `CaptureSession` | the capture session and the claim of the proxy | one action per critical section of the runtime mutex; actors `starter`, `stopper[...]`, `monitor[session]`, `conn[c]`, `handler`, each with a program counter |
| `LoginExchange` | what the capture promises about logins | `Arm`, `Disarm`, `Claim`, `Resolve`, `GiveUp`; implemented by `CaptureSession` |
| `NetworkTakeover` | registry, backup, CA, and process life | one action per PowerShell script or file operation; actors `boot`, `starter`, `cleanup` (also stop), `exit`, `update`, each with a small task record; `Crash` at any point |
| `SettingsLoan` | what the takeover promises about the settings | `Borrow`, `Use`, `Return`, `Foreign`; implemented by `NetworkTakeover` |
| `FriendRelay` | one login with friend sync | one action per branch of the `select!` loops, per read and per write |
| `FrameStream` | frames, streams, and the reference: which messages a stream carries | no state; extended by both inspectors. Without recursion, so that it can be proved about: bytes are counted as named places, and a selection in order (`InOrder`) goes by rank |
| `FriendInspector`, `ProtocolInspector` | the two incremental parsers | one action for the call, one per iteration of its loop |
| `ProtocolCapture` | relays, writer, files, stop and cleanup of protocol mode | one action per file operation under the writer's mutex |
| `ServerSync` | `sync_code`, the friend GIDs and the server they work on | one action per request served, refused or lost; requests that outlive their client |
| `QqIdentity` | detection and login history | one action per step of a look (windows, file, history, write) and per look of a detection |
| `RuntimeFiles` | migration at launch, settings file | one action per file operation; `RuntimeConstants` holds its constants |
| `UpdateInstaller` | `install_update` and its script | one action per command of the script, succeeding or failing |
| `Upkeep` | both on one process | a change of the process is a step of both |
| `Inspectors` | both inspectors on one stream, for the proofs they share | a relay has one of them: `Spec` is a friend inspector, `ProtocolSpec` a protocol inspector |
| `*_proofs` | theorems about the module of the same name; `CaptureSession_proofs` holds those of `LoginExchange` too, `NetworkTakeover_proofs` those of `SettingsLoan`, `Upkeep_proofs` those of `UpdateInstaller` and `RuntimeFiles` | |
| `MC*` | instances for TLC | model values, sets of frames, of accounts and of logins |

Correspondence that is not obvious:

* **CaptureSession.** `live` stands for `cancellation`, `task` and `armed`, which are set
  and cleared together. `set_code` and the publication that follows it are one action, and
  so are `capture_identity` and the publication after it: nothing else reads what lies
  between. A Code is named by the connection that brought it. `bind` succeeds only when the
  previous proxy has ended (the port is its own). `conn[c].choice` and `userChoice` are
  history: the row the user had clicked when the login was claimed. A claimed login is
  `opening` until the gateway has accepted the WebSocket (`RelayOpens`) and in its `relay`
  then; `RelayEnds` reports from either. What the window offers
  is taken from `src/app.js` (`syncTaskUi`): the settings do not change during a session, a
  stop is not offered during a start, and a start is not offered during a stop. The last
  one has an exception, the constant `Overlap`: `cleanup_network` sets no `stopPending` in
  the window, and a `sync_account` that awaits its detection goes on to start after a stop
  began. With `Overlap = TRUE` such starts are allowed.
* **NetworkTakeover.** A writing script may fail before its effect, half way (`Torn`) or
  after it. Scripts have no timeout in the code, and none in the model: they end. The certificate
  files on disk are left out; only the trust in the Root store is a property of the
  network. `stop_transport`'s take and joins are one step here: `CaptureSession` has them
  one by one. Nothing in the code keeps a stop (of a cleanup, an exit, an update) from
  working beside a start, so the model lets them meet at any step; the history variable
  `races` counts these meetings (`Meets`, up to `MaxRaces`). `MaxStops` bounds the stops
  that are under way at once.
* **FriendRelay.** `arrived` is every friend reply inspected, `taken` those that the loop
  received; `own` marks a reply to the injected request. The peers choose freely, except
  that the gateway answers the injected request only after it was written. The relay does
  not know frame boundaries of what it forwards, and neither does the model.
* **Inspectors.** Payload bytes are counted in small units and header bytes one by one, so
  that a read can end inside a length field. A stream is chosen at the start and fed in
  every possible way. `feed` drops the messages that were completed in the same read before
  an erroneous frame (`FeedFails`); that is the code's behaviour.
* **ProtocolCapture.** A file of lines is a sequence of lists: an append goes to the last
  line whatever is on it, so a record after a torn one shares its line. `Readable` is what
  a reader of the file can use. A store never awaits, hence the cancellation falls
  only between reads (`Cancel` needs `~Storing`). Crashes need no action there: the
  properties of the files hold in every state, so in the one a crash leaves.
* **ServerSync.** The server is not in the repository: it is a list of accounts with growing
  ids, as the requests assume (the last account of an answer is the one just created, the
  first usable one of the list is taken). A client waits 10 seconds; a request may be
  refused, lost before or after its effect, or wait in `late` and be served after its client
  has gone. `Login(h)` names the Code that a login brought.
* **QqIdentity.** A look is a blocking task with a time limit of 2 seconds for its caller
  only: after it the look is an `orphan` and still writes the history it read. The
  read-change-write of the history is under its mutex, but the reads of windows and login
  file before it are not. QQ's file keeps `FileCap` logins; the nickname joins windows and
  accounts. `write` is `fs::write`: the file is cut before it is filled. A filtered list
  (`Only`) is given by the rank of its members, for the same reason as in `FrameStream`.
* **RuntimeFiles, UpdateInstaller, Upkeep.** A rename is atomic; a copy and `fs::write` are
  not. Each command of the installer's script either ignores its error or continues in the
  catch block, as its PowerShell preference says. The script runs beside a program that the
  user starts meanwhile; such a program holds the executable, and ends a second one (single
  instance). `Upkeep` conjoins the two on the variable `process`.

Properties of code outside `src/`, modelled by how the code uses it: the tokio channel
(`TrySend`, capacity, errors ignored), the gateway, the QQ client and its login file, the
user's server, PowerShell's error preference, the other writers of the Windows settings.

## 3. The runs

Ten runs pass; `PROJECT.json` names a mutant for each property, a plausible bug in one
definition that makes TLC find that property violated.

| Run | Instance | Shows |
|---|---|---|
| `session` | 2 accounts, 2 connections, 2 sessions (the second with sync and friends), stop button, channel of 2; symmetry | the session implements `LoginExchange`; a login in flight is shown on the row that will get the Code and uses the selected account, and blocks a switch only while it exists; a ready window is disarmed; an offered Code is there; no event is dropped |
| `session_live` | 1 session, cleanup button | every start ends; every claimed login is resolved or its session ends, if the peers let go of the logins they do not upgrade (`PeersLetGo`) |
| `network` | 2 foreign settings, 2 attempts, 1 foreign write, 2 launches, 2 stops at once, any step may fail, crash anywhere; an exit or an update may be requested during a start, but its stop finds the start over (`MaxRaces = 0`) | the takeover implements `SettingsLoan`; what the helper says about its session is true, an exit restores, fewer foreign writes than attempts are absorbed, every command ends |
| `friend_relay` | 2 friends, 3 replies, channel of 2, 1 client read | friends and warning fit the replies that the loop received (an empty SyncAll of the client counts like none), friends already received are kept, the relay returns by its own timers |
| `friend_frames` | all streams of up to 3 of 16 kinds of frames with all three length forms, reads up to 10 bytes | exactly the complete messages are handed over; only an illegal stream, or a read that ends inside a 64-bit length, turns the inspector off |
| `protocol_frames` | all streams of up to 3 masked frames with all three length forms, reads up to 9 bytes | the same for `feed`; `finish` tells a cut stream |
| `protocol_capture` | 2 connections, 2 messages, 2 failures | a readable record is true, a stop loses nothing and returns, the summary counts the final log |
| `sync` | 3 helpers (two admins with the same QQ account, another user with one of its own), 3 logins, 3 accounts on the server, 1 deletion, 1 late request, 1 poll | an account gets only Codes and friends of its own QQ account, written by a user who may; a lost answer leads to no second account; what the window reports is so on the server, or the other admin's Code is; every exchange ends |
| `identity` | 2 detections on 2 accounts that can share a nickname, QQ's file with room for 1, a history of 2, 3 changes of the desktop, 1 failure, 2 detections | only an account whose nickname is shown at both looks is confirmed; an undisturbed detection finds every account it has once read; a restart forgets nothing |
| `upkeep` | both kinds of packages, 2 files to migrate, 2 settings, 2 faults of the script, 2 failing file operations, 2 updates | a whole executable is kept, the update ends with a version in place, the migration loses nothing, no load takes kept settings for none |

Why the bounds are enough. Two sessions, two accounts and two connections give every pair
of actors that shares state: an old session's monitor beside a new one, a switch, two
simultaneous claims. The channel of the code has 4 places; with 2 the property that no
event is dropped is stronger (and is proved for every capacity from 2 on). The retry loop
behaves alike for any number of attempts above one. Two launches are a crash and its
recovery, with any number of failing steps. A read may be as long as the longest frame of
its instance, so messages arrive together, whole and torn. Three replies overfill the
relay's channel of two. Two failures in the protocol log are a torn line and what follows
it, or a failing stop and its retry. Three logins, in any division among the helpers, are a
try and its retry beside the login of another admin or user; one late request can meet every later one; one deletion hits the
account between its lookup and its use. A QQ file with room for one login is the smallest
that forgets a present account, and two detections the fewest of which one outlives its
caller. Two faults of the installer's script are a command that fails and one of its
rollback; the theorems hold for any number.

Deadlock is not checked: every model has a bound (sessions, launches, replies, bytes,
logins) after which it may stop, and the relay and the inspectors end by design.

Two runs end in a violation of what a document says:

| Run | The code |
|---|---|
| `stale_adoption` | the monitor adopts the identity of a selection it read under an earlier lock; a switch in between is undone, and the Code goes to the previous account |
| `exit_during_start` | the exit handler restores the network while a start is still going to take it over (one meeting, `MaxRaces = 1`, nothing fails) |

### Known divergences

Met while modelling, and not kept as runs of their own. Some can be seen by a
change of a constant or a property of an existing run, as said there.

* `app_state.rs:383`: the late `idle` of a cleanup overwrites the status of a session started
  meanwhile; a switch is then accepted while a login is unresolved, against the comment on
  `capture_in_progress`. (`CaptureSession` with `Overlap = TRUE` and
  `Buttons = {"stop", "cleanup"}` violates `ImplementsExchange`.)
* `app_state.rs:845`: a cleanup deletes the backup that a simultaneous start has just saved.
  (With `MaxRaces = 1` and without the exception `~Unraced'`, `NetworkTakeover` violates
  `ImplementsLoan`.) What it leaves, a session or settings without a backup, no later launch
  can put right: the properties of `network` are stated for runs without such a meeting
  (`Unraced`), and `exit_during_start` shows one without that exception.
* `friend_capture.rs:201`: a read that ends inside a 64-bit length turns the friend
  inspector off, although the frame is legal. (`OffOnlyIfIllegal` excepts `lengthCut`.)
* `app_state.rs:269`, `957`: a handler spawned by the tail of a start that was stopped sets
  `capture_target` after the stop cleared it; the next failed start is shown as that
  account's failure, against the comment at line 957. No property covers it: those of the
  row speak of a live session.
* `app_state.rs:343`: `stop_capture` takes the protocol session before the stop that may
  fail; the retry publishes "stopped" without the directory that CHANGELOG.md:9 promises.
* `protocol_capture.rs:218`: a record that is torn by a failing disk swallows the next one,
  which is counted and cannot be read.
* `server_sync.rs:377`: two admins logged in to the same QQ share its account if it has no
  owner. One overwrites the Code of the other, whose synchronisation is shown as completed.
  `sync` has two such admins, and `ResultsAreTrue` names the case (`TakenOver`): the Code may
  be the other admin's, the rest of the result holds all the same.
* `friend_proxy.rs:287`: the end of a connection can win over a reply that is still in the
  channel; the message says that no friends were returned. `FriendsAreKept` speaks of the
  replies that the loop has received, and does not cover this.
* `friend_proxy.rs:176`: an empty answer to the client's own SyncAll does not count as
  triggered (README.md:35): it is merged like no reply (line 179) and another SyncAll is
  injected. The texts at lines 189, 217, 227 and 241 then say that the client returned or
  triggered none. `WarningIsTrue` excepts it: an empty SyncAll counts like none.
* `friend_proxy.rs:241`: the text says that nothing recognisable came after the Helper's
  request. The request may only be queued (line 196; `relay_client_websocket` has not
  written it), and an empty reply may have come. `WarningIsTrue` asks only that no friends
  and no answer to the request were received.
* `friend_proxy.rs:323`: the injected frame can be written between two reads of one client
  frame (README.md:3 says the login is forwarded transparently).
* `settings.rs:182`: `write_settings_atomic` is one `fs::write`; a crash in it leaves a cut
  file, and every later load fails until the settings are saved again. It is an error and
  never the defaults (`NoSilentReset`).
* `main.rs:58`: if the program dies inside the copy of a file, the next launch finds the cut
  copy, takes it for the newer file and deletes the whole source (README.md:70 says the
  files are moved). `MigrationLosesNothing` excepts it (`cut`).
* README.md:53 says that an identical nickname clears the identity at once; the code, and
  the test `keeps_duplicate_nicknames_as_separate_selectable_accounts`, keep both accounts.

## 4. Fairness

* `CaptureSession`: the tasks of the runtime are scheduled (weak fairness of starter, handler,
  connections, stoppers); `transport_stop` is a fair mutex, so a waiter that finds it free
  again and again gets it (strong fairness of `StopTake`). A relay is fair only from the
  upgrade on (`conn[c].pc = "relay"`), where it ends by its own timers: `FriendRelay` checks
  that (`RelayReturns`). Before it nothing is assumed: the writes of the handshake and the
  `copy_bidirectional` after a refused upgrade have no time limit, so a claim can stay
  unresolved until the user stops the session. `ClaimsAreResolved` says so: it is conditional
  on `PeersLetGo`, no login stays in `open_target_websocket` for ever. `StartsEnd` needs no
  such condition. The user, and the monitors, are under no obligation.
* `NetworkTakeover`: scripts end and the same mutex is fair. Nobody has to crash or write.
  `CommandsEnd` is checked with `MaxRaces = 0`, where a stop waits for a start under way.
* `FriendRelay`: the two timers fire. Nothing is assumed of the peers: they may stay silent, and
  a write to them may never end (before the upgrade that can hold the login up, so
  `RelayReturns` starts there).
* `ProtocolCapture`: a store is synchronous, a cancelled task is polled, `transport_stop`
  is fair, and the recovery of the network returns.
* `ServerSync`: every request of a helper has a time limit of 10 seconds, so its step is
  taken (weak fairness of `HelperStep`); what that step finds is the server's choice.

`LoginExchange`, `SettingsLoan`, `QqIdentity` and `Upkeep` have safety properties only and
state no fairness.

## 5. Proofs

All theorems hold for every value of the constants that the named assumptions admit: any
number of accounts, connections, sessions, helpers, frames, settings, files, failures and
launches. Each safety invariant and each action property that a run checks is one of them.
The second column names what a theorem assumes beyond the modules' own `ASSUME`s.

| Theorem | Hypothesis | Says |
|---|---|---|
| **`CaptureSession_proofs`** | | |
| `TypeCorrect` | | `Spec => []TypeOK` |
| `AccountCorrect`, `CodeIsThere` | `~Overlap` | `[]LockedIsSelected`, `[]OfferedCodeIsThere` |
| `CaptureIsExchange` | `~Overlap`, `ChanCap >= 2` | `Spec => ImplementsExchange` |
| `LoginsAreExclusive` | the same | one login at a time, never armed while one is in flight, never resolved twice |
| `NothingIsDropped`, `ReadyIsTrue`, `RowIsSynced`, `RefusalsHaveCause` | the same | `[]NoEventIsDropped`, `[]ReadyMeansDisarmed`, `[]SyncsTheShownRow`, `[]RefusalHasCause` |
| **`NetworkTakeover_proofs`** | | |
| `TakeoverTypeCorrect` | | `[]TypeOK` (no step of the write loop is without settings to write: `LoopHasValue`) |
| `TakeoverIsLoan` | | `Spec => ImplementsLoan`: every step is one of the loan until a stop works beside a start |
| `SettingsAreKept` | | `[](Unraced => Loan!NothingIsLost)`: the settings of the user are in force or in the backup |
| `SessionsAreTakenOver`, `QuietIsClean`, `ExitsRestore`, `WritesAreAbsorbed` | | `[]LiveIsTakenOver`, `[]QuietMeansClean`, `[]UnracedExitRestores`, `[]RetriesAbsorbWrites`, each for states that are `Unraced` |
| **`FriendRelay_proofs`** | | |
| `RelayTypeCorrect`, `WarningsAreTrue`, `FriendsAreNotLost` | | `[]TypeOK`, `[]WarningIsTrue`, `[]FriendsAreKept` |
| **`Inspectors_proofs`** | | |
| `FriendInvariant`, `FriendHandsOver`, `FriendStaysOn` | | the invariant, `[]HandsOverWhatArrived`, `[]OffOnlyIfIllegal` |
| `ProtocolInvariant`, `ProtocolReturns`, `ProtocolFailsAtIllegal`, `ProtocolFinishTells` | | the invariant, `[]ReturnsWhatArrived`, `[]FailsOnlyAtIllegal`, `[]FinishTellsCut` |
| **`ProtocolCapture_proofs`** | | |
| `StopInvariant`, `SummariesAreFinal`, `RecordsStayTrue`, `NothingIsLost` | | the invariant, `[]SummaryIsFinal`, `[]RecordsAreTrue`, `[]StopLosesNothing` |
| **`ServerSync_proofs`** | | |
| `ServerInvariant`, `OwnAccountsOnly`, `CodesGoToEarliest`, `ResultsHold` | | the invariant, `[]WritesToOwnAccount`, `GoesToEarliest`, `[]ResultsAreTrue` |
| **`QqIdentity_proofs`** | | |
| `IdentityInvariant`, `ConfirmedAreShown`, `HistoryIsOnDisk`, `QuietDetectionsSucceed` | | the invariant, `[]ConfirmedIsLoggedIn`, `[]DiskFollowsMemory`, `[]QuietDetectionSucceeds` |
| **`Upkeep_proofs`** | | |
| `VersionKept`, `UpdateEndsInPlace` | | of `UpdateInstaller` alone: `[]AVersionIsKept`, `[]EndedMeansInPlace` |
| `SettingsAreFound`, `MigrationIsSafe` | | of `RuntimeFiles` alone: `[]NoSilentReset`, `[]MigrationLosesNothing` |
| `VersionIsKept`, `UpdateLeavesVersion`, `SettingsAreKept`, `FilesAreMigrated` | | the same four for the composition |

Two hypotheses restrict the theorems, both of the capture session. `ChanCap >= 2` holds in
the code, whose channel has 4 places. `~Overlap` excludes a start beside a stop, which the
window prevents except as section 2 says; the code does not, and without it TLC refutes the
same properties (the first known divergence). The theorems of the takeover have no such
hypothesis: a stop may meet a start in every behaviour, any number of times, and the
statements say what holds of a state before the first meeting. So `ExitsRestore` covers every
exit, also one requested during a start, but those whose stop worked while a start was under
way, now or in an earlier run of the process; what `exit_during_start` refutes is exactly
what it leaves out. Likewise `ResultsHold` is for any users, two admins of one QQ account
among them, and names what one may do to the other (`TakenOver`).

### The capture session

**The account** (`AccountCorrect`). `LockedIsSelected` is not inductive. The revalidation
reads the locked identity, detects again without the lock and writes back; it is right only
if nobody changed the selection meanwhile. `arm_account` and the monitor look at the
published phase, so the phase must stay in {code_captured, syncing} while the handler works
(`BusyPhase`), so no start may publish beside a handler (`HandlerAfterStart`,
`HandlerIsReferenced`) or beside a stop that is still to publish (`StartIsAlone`), and a
stop that has taken its handles faces no live session (`StoppingIsDead`).

**The Code** (`CodeIsThere`). The handler's Code is kept until its synchronisation succeeds
(`CodeKept`), and a start in progress publishes none (`StartOffersNone`). Everybody else who
publishes looks at the phase before; what it then tells (`BusyPhase`) is in `AccountInv`.

**The exchange** (`CaptureIsExchange`). The invariant `LoginInv` says where the one login in
flight is: in its relay, in the channel (as `Intercepted`, `Captured` or both, in this
order), or with the handler (`Carries`); everywhere else there is none (`Free`). Armed
means free (`ArmedIsFree`). `arm_account` does not look at the login but at the phase, so
the phase must tell of it (`PhaseTells`), and a start must find nothing left of the session
before it (`StartsClean`, `Drained`, with `ProxyLives` and `OneStops`: a proxy outlives its
session only until the stop that took it has joined it). Every step but a claim `Settles`:
the login stays where it can be seen or is no longer in flight; such a step with unchanged
arming is a stutter or a `Resolve`, with the arming withdrawn a `Disarm` or a `GiveUp`
(`SettlesImplements`). Arming steps (`Arm`, `StoreTransport`) find nothing in flight.

**The row** (`RowIsSynced`, `RefusalsHaveCause`). Both compare what the window shows with
the login in flight. `RowInv` adds to `LoginInv` that a phase that refuses a switch has a
login in flight (`CauseTells`, the converse of `PhaseTells`), that a login of which the
channel holds only the first event is still in its relay (`ReportIsDue`), that from the
moment in which the handler notices the login its row is the selected one and the phase
keeps others out (`NoticedRow`), and that a handler without a login has no account
(`NoAccountYet`).

### The takeover of the network

**The loan** (`TakeoverIsLoan`). The invariant says where each caller of `restore` and
`enable` can be (`Placed`), that setups, starts and stops exclude each other (`Apart`: launches always, a start and a
stop by `Unraced`, since the step that brings them together counts a race), and
three facts about the data: without a backup the settings are someone's own (`Covered`); a
restore works on the backup and removes it only when the settings were read back or someone
else wrote (`Restores`); an enable reads the settings only without a backup and writes only
with one (`Enables`). `Apart` is what a start during a stop breaks. `races` never falls
(`RacesGrow`), so the invariant has the form `Unraced => ...` and an unraced step starts from
an unraced state (`UnracedInv`); a step that meets maps to the exception of
`ImplementsLoan`. `SettingsAreKept` follows from the invariant: `Covered` at every state.

**The session** (`SessionsAreTakenOver`). What a start has done up to each of its places
(`Takes`): the CA before the settings, the backup before the write, the local proxy in the
registry once it was read back and nobody else wrote. A live session whose start has ended
has all of them (`TakenOver`), and no stop holds the lock beside it (`SessionInv`).

**Results** (`QuietIsClean`). A caller of `restore` that reports success has left no backup
(`Results`, at the place after the settings), and at its end nothing at all.

**Retries** (`WritesAreAbsorbed`, `ExitsRestore`). The loop gives up when its attempts are
used up. As long as no script failed, `Counts` charges each attempt used so far to a write
of someone else, and one more when the settings differ from what is being written. So with
fewer writes than attempts and no failing step no loop gives up (`Succeeds`), and a start, a
stop or a launch reports none.

### A login with friends

**The relay** (`WarningsAreTrue`, `FriendsAreNotLost`). Nothing is received before the
upgrade (`Outset`), and while the loop runs its fallback is the union of what it took
(`Gathered`): whoever returns the fallback, timer, end or error, gives up nothing. `Asked` and
`Injecting` tie the second wait to the injected request, and only after it was written can the
channel hold an answer to it (`OwnComesLater`), so that a warning that names it is true.
`Unsettled` says what the loop has received while it goes on: no SyncAll with friends and no
answer to the injected request, hence all friends it has are those of GetGameFriends.

**The inspectors.** Both keep `ReadInv`: what is consumed is a prefix of the frames, and the
buffer starts at the next. At each iteration (`WorkInv`, for the protocol inspector
`RelayInv`) the consumed frames are legal, the open message is the one that the reference
has open after them, and what was handed over, together with what the call is going to
return, is the messages of the reference. A step consumes one frame, so the proof needs what
one frame more does to the reference: `StartNext`, `OpenNext`, `PartsNext` and
`MessagesNext`, which rest on `InOrder` (a selection of positions, in order, with a larger
one added). `WholeAre` and `LegalAre` say how many frames have arrived, or are legal, once
the next one has not or is not. `OffInv` and `FailInv` name the frame at which an inspector
gave up, `CutInv` the read that may have cut a 64-bit length, `FinishInv` the verdict of
`finish`. The size of a message is a fold of the community modules; code and reference apply
it to the same list, so nothing about it has to be proved. `SameFrames` says that the
definitions seen through the instance are the same.

### The protocol log

`StopInv` says who is at work: a store belongs to the relay that holds the writer
(`WriterServes`), one stop at a time has the transport and the proxy outlives every relay
(`OneStops`), and a summary is published when the proxy has ended (`Summed`): nobody is left
to write to that log, hence `SummariesAreFinal`. `RecordInv` adds what the writer has on its
way: the URL or the record is that of the file just stored (`UrlIsNew`, `RecordIsNew`), a
connection past its handshake has a URL of its own (`Handshaken`), and what can be read is on
the disk and older than what is being stored (`Recorded`), so no two readable records are of
one message. `CountInv` is about runs without a failure: what was stored is what is recorded
plus what is under way, per connection and direction.

### The server

`ServerInv`: the id that a helper goes on with is that of an account that its user may write
for its QQ account, or of one that was deleted (`Belongs`, `SoundExchange`), and so is the id
of a request that outlived its client (`Proper`): late requests are served in any order and
still write only what is their own. An account keeps its owner and its QQ account and an id
is given once (`ListOK`), so what was read of an id stays true while the list changes.
`CodesGoToEarliest` is an action property: while no request is delayed, the account that
was chosen stays the earliest usable one until its Code is written (`StillEarliest`), because
accounts come only behind it. `ResultsHold`: while no request is delayed, the part of the
exchange that is done is on the server (`Progress`); only a helper that may write the same
account for the same QQ account could undo it. Another one of the same user has other QQ
accounts by assumption (a QQ account is logged in on one desktop at a time); another admin
may write an account without an owner, and puts its own Code there (`TakenOver`), while it
leaves the account started and adds and removes friends only as the same QQ account asks.

### Detection

`ShownInv` says that what a look has found was shown by a window at that look, and what is
confirmed at both. `DiskInv` excludes two writers (the mutex of the history is held until the
file is written), so the file is that of memory between writes. `KnownInv` is the order of
the history: accounts that this helper has read lie before those of an older file, with the
nickname last read, and none is lost while there is room. `QuietInv` follows a detection in
which nothing changes: remembering the same file again changes nothing (`Settled`), so looks
that overlap find the same; with `KnownInv`, picking by nickname leaves exactly the present
accounts.

### The update and the files

`ScriptInv` and `WholeInv` tie each command of the script to the files it finds; `FaultInv`
counts the failures that each bad case needs. For the files, `Kept` says in which of the two
places the settings kept last are, at each step of a copy or write. A step of `Upkeep` is a
step of a part or a stutter of it, so its theorems follow from theirs.

### Only model-checked

Liveness, which is outside the prover like ENABLED: `RelayReturns`, `CommandsEnd`,
`StopsReturn`, `ClaimsAreResolved`, `StartsEnd` and `SyncsEnd`. Their safety parts (a
place that each actor can be in, who holds which lock) are in the invariants above. The two
violation runs are counterexamples and stay with TLC.

## 6. Not modelled

* The PowerShell runner (`windows.rs`) and the contents of scripts, certificates and HTTP
  headers: a call of the operating system succeeds or fails.
* The protobuf messages of `friend_capture.rs`: a derived decoder; `FriendRelay` takes
  decoded replies.
* The NSIS installer: external; it succeeds or leaves anything. The choice of a release and
  of its asset in `updater.rs`: a pure computation on an answer of the network.
* The token in the Windows credential manager, the normalisation of settings, the format of
  QQ's `login.enc`, and the enumeration of windows.
* `test_connection`, nicknames and avatars of `server_sync.rs`: reads without effect.
* Plain tunnels and HTTP forwarding of the proxy, which touch no shared state.
* The removal of the old data directory once it is empty (`main.rs:67`): no file is in it.
* Rendering in the window; build and release scripts.

## 7. Plan

1. Done: all components with concurrent or durable state; two abstract specifications with
   refinements that are checked and proved; the theorems of section 5.
2. Done: every safety and action property of the passing runs is proved (section 5).
3. Left: an abstract log whose readable records are those stored, implemented by
   `ProtocolCapture`, and an abstract server that stores each Code once, implemented by
   `ServerSync`, with the refinements proved from `RecordInv` and `ServerInv`.
4. Left: what remains true of a start beside a stop. In `CaptureSession` only the types are
   proved for `Overlap = TRUE`; in `NetworkTakeover` only the types after a race. The other
   properties of `session` and `network` are refuted there, so weaker ones would have to be
   stated.
