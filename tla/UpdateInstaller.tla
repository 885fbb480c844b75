--------------------------- MODULE UpdateInstaller ---------------------------
(***************************************************************************)
(* install_update: the download and its checks (updater.rs), the end of    *)
(* the program (commands.rs, main.rs) and the PowerShell script that       *)
(* replaces the executable and starts it again (update_installer.rs).      *)
(*                                                                         *)
(* The script outlives the program and runs beside the next one, which the *)
(* user may start himself.  Each of its commands can fail; a silent one    *)
(* then goes on, any other continues in the catch block; power can be lost *)
(* between any two.  The NSIS installer is not in this repository: it      *)
(* succeeds, or leaves anything.                                           *)
(***************************************************************************)
EXTENDS Naturals

CONSTANTS
    Kinds,     \* the PackageKinds: "portable", "installer"
    MaxFaults, \* bound: failing commands and losses of power
    MaxRuns    \* bound: how often the script is started

VARIABLES
    process,  \* "off", "boot" or "up"
    kind,     \* the PackageKind of this installation
    update,   \* install_update in the program
    script,   \* the command that the script has reached
    exe, backup, staged, package,  \* the four files
    child,    \* the program that the script started still runs
    moved,    \* the file of the running program is now the backup
    faults,   \* history: how many
    dark,     \* history: power was lost while the script ran
    runs      \* history: scripts started

files == <<exe, backup, staged, package>>
own == <<kind, update, script, files, child, moved, faults, dark, runs>>
vars == <<process, own>>

Versions == {"older", "old", "new"}
Files == Versions \cup {"absent", "torn"}

Portable == {"drop_backup", "drop_staged", "copy", "copying", "move_old", "move_new",
             "start", "check", "drop_backup_2", "drop_package"}
Catch == {"log", "drop_exe", "restore", "restart"}
Script == {"none", "wait", "kill", "install", "start_installed", "ended"} \cup Portable \cup Catch

TypeOK ==
    /\ process \in {"off", "boot", "up"} /\ kind \in Kinds
    /\ update \in {"idle", "download", "shutdown", "launch", "exit"}
    /\ script \in Script
    /\ {exe, backup, staged, package} \subseteq Files
    /\ child \in BOOLEAN /\ moved \in BOOLEAN /\ dark \in BOOLEAN
    /\ faults \in 0 .. MaxFaults /\ runs \in 0 .. MaxRuns

\* The backup of an earlier update may still be there.
Init ==
    /\ process = "off" /\ kind \in Kinds
    /\ update = "idle" /\ script = "none"
    /\ exe = "old" /\ backup \in {"absent", "older"} /\ staged = "absent" /\ package = "absent"
    /\ child = FALSE /\ moved = FALSE /\ faults = 0 /\ dark = FALSE /\ runs = 0

Fault == faults < MaxFaults /\ faults' = faults + 1
NoFault == UNCHANGED faults

-----------------------------------------------------------------------------
(* The program: prepare_update and install_update                           *)

UpdateGoes(pc) ==
    update' = pc /\ UNCHANGED <<process, kind, exe, backup, staged, child, moved, dark>>

\* The guard UPDATE_IN_PROGRESS is free; there is a newer release.
Prepare ==
    /\ process = "up" /\ update = "idle" /\ script \in {"none", "ended"} /\ runs < MaxRuns
    /\ exe = "old"
    /\ UpdateGoes("download") /\ NoFault /\ UNCHANGED <<package, script, runs>>

\* Mutant: the package is not compared with its size and its digest.
DownloadUnchecked ==
    /\ update = "download"
    /\ \/ package' = "new" /\ UpdateGoes("shutdown") /\ NoFault
       \/ package' = "torn" /\ UpdateGoes("shutdown") /\ Fault
    /\ UNCHANGED <<script, runs>>

\* download_and_verify: what does not have the size and the digest of the release is
\* not kept; writing the file may fail.
Download ==
    /\ update = "download"
    /\ \/ package' = "new" /\ UpdateGoes("shutdown") /\ NoFault
       \/ package' \in {package, "torn"} /\ UpdateGoes("idle") /\ Fault
    /\ UNCHANGED <<script, runs>>

\* core.shutdown() (NetworkTakeover has its steps).
Shutdown ==
    /\ update = "shutdown"
    /\ UpdateGoes("launch") /\ NoFault /\ UNCHANGED <<package, script, runs>>

\* launch: the package must be a file, and PowerShell must start.  An error leaves
\* the program running, its session stopped.
LaunchScript ==
    /\ update = "launch"
    /\ \/ /\ package # "absent" /\ script' = "wait" /\ runs' = runs + 1
          /\ UpdateGoes("exit") /\ NoFault
       \/ UpdateGoes("idle") /\ Fault /\ UNCHANGED <<script, runs>>
    /\ UNCHANGED package

\* The program ends: app.exit(0) after the launch, or the user closes it, or it is
\* killed; the other exits go through the same ExitRequested handler.
Ends ==
    /\ process # "off"
    /\ process' = "off" /\ update' = "idle" /\ child' = FALSE
    /\ UNCHANGED <<kind, script, files, moved, faults, dark, runs>>

\* The user starts it, if there is something to start.
Started ==
    /\ process = "off" /\ exe \in Versions
    /\ process' = "boot" /\ moved' = FALSE
    /\ UNCHANGED <<kind, update, script, files, child, faults, dark, runs>>

BootEnds ==
    /\ process = "boot"
    /\ process' \in {"up", "off"}
    /\ child' = (child /\ process' = "up")
    /\ UNCHANGED <<kind, update, script, files, moved, faults, dark, runs>>

-----------------------------------------------------------------------------
(* The script.  OnlyScript: it does not start or end a program.             *)

ScriptGoes(pc) == script' = pc /\ UNCHANGED <<kind, update, dark, runs>>
OnlyScript == UNCHANGED <<process, child, moved>>

\* It waits for its parent for 45 seconds and then stops it.
Wait ==
    /\ script = "wait" /\ process = "off"
    /\ ScriptGoes("kill") /\ NoFault /\ OnlyScript /\ UNCHANGED files

\* Whatever runs from the same file, be it the parent after 45 seconds or a program
\* that the user started meanwhile, is stopped by force.
Kill ==
    /\ script \in {"wait", "kill"}
    /\ script' = IF kind = "portable" THEN "drop_backup" ELSE "install"
    /\ \/ process' = "off" /\ update' = "idle" /\ child' = FALSE /\ NoFault
       \/ process # "off" /\ UNCHANGED <<process, update, child>> /\ Fault
    /\ UNCHANGED <<kind, files, moved, dark, runs>>

\* A running program's file can be renamed, not removed or replaced.
InUse == process # "off" /\ ~moved

Throws(pc) == ScriptGoes("log") /\ Fault

\* -ErrorAction SilentlyContinue
DropBackup(pc, next) ==
    /\ script = pc
    /\ ScriptGoes(next)
    /\ \/ process # "off" /\ moved /\ UNCHANGED backup /\ NoFault
       \/ ~(process # "off" /\ moved) /\ backup' = "absent" /\ NoFault
       \/ UNCHANGED backup /\ Fault
    /\ OnlyScript /\ UNCHANGED <<exe, staged, package>>

DropStaged ==
    /\ script = "drop_staged"
    /\ ScriptGoes("copy")
    /\ \/ staged' = "absent" /\ NoFault
       \/ UNCHANGED staged /\ Fault
    /\ OnlyScript /\ UNCHANGED <<exe, backup, package>>

\* Copy-Item is not one step: the file is there before its content.
CopyBegins ==
    /\ script = "copy"
    /\ \/ staged' = "torn" /\ ScriptGoes("copying") /\ NoFault
       \/ UNCHANGED staged /\ Throws("copy")
    /\ OnlyScript /\ UNCHANGED <<exe, backup, package>>

\* Mutant: the executable is overwritten where it is.
CopyEndsInPlace ==
    /\ script = "copying"
    /\ \/ exe' = package /\ ScriptGoes("start") /\ NoFault
       \/ exe' = "torn" /\ Throws("copying")
    /\ OnlyScript /\ UNCHANGED <<backup, staged, package>>

CopyEnds ==
    /\ script = "copying"
    /\ \/ staged' = package /\ ScriptGoes("move_old") /\ NoFault
       \/ UNCHANGED staged /\ Throws("copying")
    /\ OnlyScript /\ UNCHANGED <<exe, backup, package>>

MoveOld ==
    /\ script = "move_old"
    /\ \/ /\ backup' = exe /\ exe' = "absent" /\ moved' = (process # "off")
          /\ ScriptGoes("move_new") /\ NoFault
       \/ UNCHANGED <<exe, backup, moved>> /\ Throws("move_old")
    /\ UNCHANGED <<process, child, staged, package>>

MoveNew ==
    /\ script = "move_new"
    /\ \/ exe' = staged /\ staged' = "absent" /\ ScriptGoes("start") /\ NoFault
       \/ UNCHANGED <<exe, staged>> /\ Throws("move_new")
    /\ OnlyScript /\ UNCHANGED <<backup, package>>

\* A second program next to one that the user has started ends at once (the
\* single-instance plugin): the check then takes the update for failed.
StartNew ==
    /\ script = "start"
    /\ \/ /\ ScriptGoes("check") /\ NoFault
          /\ child' = (process = "off")
          /\ process' = IF process = "off" THEN "boot" ELSE process
          /\ moved' = (moved /\ process # "off")
       \/ Throws("start") /\ OnlyScript
    /\ UNCHANGED files

\* HasExited after two seconds.
CheckNew ==
    /\ script = "check"
    /\ ScriptGoes(IF child THEN "drop_backup_2" ELSE "log")
    /\ NoFault /\ OnlyScript /\ UNCHANGED files

DropPackage ==
    /\ script = "drop_package"
    /\ ScriptGoes("ended")
    /\ \/ package' = "absent" /\ NoFault
       \/ UNCHANGED package /\ Fault
    /\ OnlyScript /\ UNCHANGED <<exe, backup, staged>>

\* The installer; its exit code and the executable are looked at.
Install ==
    /\ script = "install"
    /\ \/ exe' = "new" /\ ScriptGoes("start_installed") /\ UNCHANGED package /\ NoFault
       \/ exe' \in {exe, "absent", "torn"} /\ package' \in {package, "absent"} /\ Throws("install")
    /\ OnlyScript /\ UNCHANGED <<backup, staged>>

StartInstalled ==
    /\ script = "start_installed"
    /\ \/ ScriptGoes("ended") /\ NoFault
       \/ Throws("start_installed")
    /\ IF script' = "ended" /\ process = "off"
       THEN process' = "boot" /\ child' = TRUE /\ moved' = FALSE
       ELSE OnlyScript
    /\ package' = "absent" /\ UNCHANGED <<exe, backup, staged>>

\* The catch block.  Nothing catches an error of its own commands: the script ends.
WriteLog ==
    /\ script = "log"
    /\ \/ ScriptGoes(IF kind = "portable" /\ backup # "absent" THEN "drop_exe" ELSE "restart")
          /\ NoFault
       \/ ScriptGoes("ended") /\ Fault
    /\ OnlyScript /\ UNCHANGED files

DropExe ==
    /\ script = "drop_exe"
    /\ ScriptGoes("restore")
    /\ \/ exe' = (IF InUse THEN exe ELSE "absent") /\ NoFault
       \/ UNCHANGED exe /\ Fault
    /\ OnlyScript /\ UNCHANGED <<backup, staged, package>>

\* Mutant: the executable is not put back.
RestoreForgotten ==
    script = "restore" /\ ScriptGoes("restart") /\ NoFault /\ OnlyScript /\ UNCHANGED files

Restore ==
    /\ script = "restore"
    /\ \/ /\ exe = "absent" \/ ~InUse
          /\ exe' = backup /\ backup' = "absent" /\ moved' = FALSE
          /\ ScriptGoes("restart") /\ NoFault
       \/ /\ UNCHANGED <<exe, backup, moved>> /\ ScriptGoes("ended")
          /\ \/ Fault
             \/ InUse /\ exe # "absent" /\ NoFault
    /\ UNCHANGED <<process, child, staged, package>>

Restart ==
    /\ script = "restart"
    /\ ScriptGoes("ended")
    /\ \/ exe \in Versions /\ process = "off" /\ process' = "boot" /\ child' = TRUE /\ moved' = FALSE
          /\ NoFault
       \/ ~(exe \in Versions /\ process = "off") /\ NoFault /\ OnlyScript
       \/ Fault /\ OnlyScript
    /\ UNCHANGED files

PowerLoss ==
    /\ script \notin {"none", "ended"}
    /\ Fault /\ dark' = TRUE
    /\ script' = "ended" /\ process' = "off" /\ update' = "idle" /\ child' = FALSE
    /\ UNCHANGED <<kind, files, moved, runs>>

-----------------------------------------------------------------------------

ProgramStep == Prepare \/ Download \/ Shutdown \/ LaunchScript

ScriptStep ==
    \/ Wait \/ Kill
    \/ DropBackup("drop_backup", "drop_staged") \/ DropStaged \/ CopyBegins \/ CopyEnds
    \/ MoveOld \/ MoveNew \/ StartNew \/ CheckNew
    \/ DropBackup("drop_backup_2", "drop_package") \/ DropPackage
    \/ Install \/ StartInstalled
    \/ WriteLog \/ DropExe \/ Restore \/ Restart

Next == ProgramStep \/ ScriptStep \/ Ends \/ Started \/ BootEnds \/ PowerLoss

Spec == Init /\ [][Next]_vars

-----------------------------------------------------------------------------
(* Properties *)

\* Whatever fails, whoever starts the program meanwhile and whenever power is lost, a
\* whole executable is kept by the portable update, in place or as the backup.
AVersionIsKept == kind = "portable" => exe \in Versions \/ backup \in Versions

\* A portable update in which no command failed and no power was lost ends with the
\* version before or the new one in place, also if the new one does not start or the
\* user starts the program meanwhile.  One failing command (of the rollback) may leave
\* nothing in place, but then the version before as its backup: never a cut executable
\* or the backup of an earlier update.
EndedMeansInPlace ==
    kind = "portable" /\ script = "ended" /\ ~dark =>
        /\ faults = 0 => exe \in {"old", "new"}
        /\ faults <= 1 => exe \in {"old", "new"} \/ (exe = "absent" /\ backup = "old")

=============================================================================
