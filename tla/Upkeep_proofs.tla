---------------------------- MODULE Upkeep_proofs ----------------------------
(***************************************************************************)
(* Proofs about Upkeep: about the update alone (UpdateInstaller), for any  *)
(* number of failing commands, losses of power and attempts; about the     *)
(* files alone (RuntimeFiles), for any list of files, any settings and any *)
(* number of failing file operations; and that the two together keep what  *)
(* each of them keeps, for every step of Upkeep is a step of a part, or    *)
(* leaves it alone.                                                        *)
(***************************************************************************)
EXTENDS Upkeep, TLAPS

-----------------------------------------------------------------------------
(* The update: a whole executable                                           *)

\* The program prepares an update only of the version in place, with no script at work,
\* and launches one only for a package that was verified.
ProgramInv ==
    /\ update \in {"download", "shutdown", "launch"} => script \in {"none", "ended"}
         /\ exe = "old"
    /\ update \in {"shutdown", "launch"} => package = "new"

BeforeMove == {"wait", "kill", "drop_backup", "drop_staged", "copy", "copying", "move_old"}

\* Where the whole executable is, by the command that the script has reached.
ScriptInv ==
    /\ script \notin {"install", "start_installed"}
    /\ script \in BeforeMove => exe = "old" /\ package = "new"
    /\ script \in {"move_old", "move_new"} => staged = "new"
    /\ script \in {"move_new", "drop_exe", "restore"} => backup \in Update!Versions
    /\ script \in {"start", "check", "drop_backup_2", "drop_package"} => exe = "new"

WholeInv ==
    /\ exe \in Update!Versions \cup {"absent"} /\ backup \in Update!Versions \cup {"absent"}
    /\ exe \in Update!Versions \/ backup \in Update!Versions

VersionInv == ProgramInv /\ (kind = "portable" => ScriptInv /\ WholeInv)

\* What is not the script's doing.
UpdateMoves ==
    \/ Update!ProgramStep \/ Update!Ends \/ Update!Started \/ Update!BootEnds
    \/ Update!PowerLoss

LEMMA VersionInvInit == Update!Init => VersionInv
BY DEF Update!Init, VersionInv, ProgramInv, ScriptInv, WholeInv, BeforeMove, Update!Versions

LEMMA ProgramKeepsVersion == VersionInv /\ UpdateMoves => VersionInv'
<1> SUFFICES ASSUME VersionInv, UpdateMoves PROVE VersionInv'
  OBVIOUS
<1> USE DEF VersionInv, ProgramInv, ScriptInv, WholeInv, BeforeMove, Update!Versions,
    Update!files, Update!UpdateGoes
<1>1. CASE Update!Prepare
  BY <1>1 DEF Update!Prepare
<1>2. CASE Update!Download
  BY <1>2 DEF Update!Download
<1>3. CASE Update!Shutdown
  BY <1>3 DEF Update!Shutdown
<1>4. CASE Update!LaunchScript
  BY <1>4 DEF Update!LaunchScript
<1>5. CASE Update!Ends
  BY <1>5 DEF Update!Ends
<1>6. CASE Update!Started
  BY <1>6 DEF Update!Started
<1>7. CASE Update!BootEnds
  BY <1>7 DEF Update!BootEnds
<1>8. CASE Update!PowerLoss
  BY <1>8 DEF Update!PowerLoss
<1>9. QED
  BY <1>1, <1>2, <1>3, <1>4, <1>5, <1>6, <1>7, <1>8 DEF UpdateMoves,
      Update!ProgramStep

\* Up to the move of the old version, the executable is not touched; after it, the
\* backup or the staged file is whole.
LEMMA TryKeepsVersion ==
    ASSUME VersionInv,
           \/ Update!Wait \/ Update!Kill \/ Update!DropBackup("drop_backup", "drop_staged")
           \/ Update!DropStaged \/ Update!CopyBegins \/ Update!CopyEnds \/ Update!MoveOld
           \/ Update!MoveNew \/ Update!StartNew \/ Update!CheckNew
           \/ Update!DropBackup("drop_backup_2", "drop_package") \/ Update!DropPackage
    PROVE  VersionInv'
<1> USE DEF VersionInv, ProgramInv, ScriptInv, WholeInv, BeforeMove, Update!Versions,
    Update!files, Update!ScriptGoes, Update!Throws, Update!OnlyScript
<1>1. CASE Update!Wait
  BY <1>1 DEF Update!Wait
<1>2. CASE Update!Kill
  BY <1>2 DEF Update!Kill
<1>3. CASE Update!DropBackup("drop_backup", "drop_staged")
  BY <1>3 DEF Update!DropBackup
<1>4. CASE Update!DropStaged
  BY <1>4 DEF Update!DropStaged
<1>5. CASE Update!CopyBegins
  BY <1>5 DEF Update!CopyBegins
<1>6. CASE Update!CopyEnds
  BY <1>6 DEF Update!CopyEnds
<1>7. CASE Update!MoveOld
  BY <1>7 DEF Update!MoveOld
<1>8. CASE Update!MoveNew
  BY <1>8 DEF Update!MoveNew
<1>9. CASE Update!StartNew
  BY <1>9 DEF Update!StartNew
<1>10. CASE Update!CheckNew
  BY <1>10 DEF Update!CheckNew
<1>11. CASE Update!DropBackup("drop_backup_2", "drop_package")
  BY <1>11 DEF Update!DropBackup
<1>12. CASE Update!DropPackage
  BY <1>12 DEF Update!DropPackage
<1>13. QED
  BY <1>1, <1>2, <1>3, <1>4, <1>5, <1>6, <1>7, <1>8, <1>9, <1>10, <1>11, <1>12

\* The rollback removes the executable only for a backup that is whole, and the
\* installer is no step of a portable update.
LEMMA CatchKeepsVersion ==
    ASSUME VersionInv,
           \/ Update!Install \/ Update!StartInstalled \/ Update!WriteLog
           \/ Update!DropExe \/ Update!Restore \/ Update!Restart
    PROVE  VersionInv'
<1> USE DEF VersionInv, ProgramInv, ScriptInv, WholeInv, BeforeMove, Update!Versions,
    Update!files, Update!ScriptGoes, Update!Throws, Update!OnlyScript
<1>1. CASE Update!Install
  BY <1>1 DEF Update!Install
<1>2. CASE Update!StartInstalled
  BY <1>2 DEF Update!StartInstalled
<1>3. CASE Update!WriteLog
  BY <1>3 DEF Update!WriteLog
<1>4. CASE Update!DropExe
  BY <1>4 DEF Update!DropExe
<1>5. CASE Update!Restore
  BY <1>5 DEF Update!Restore
<1>6. CASE Update!Restart
  BY <1>6 DEF Update!Restart
<1>7. QED
  BY <1>1, <1>2, <1>3, <1>4, <1>5, <1>6

LEMMA VersionInvNext == VersionInv /\ [Update!Next]_(Update!vars) => VersionInv'
<1> SUFFICES ASSUME VersionInv, [Update!Next]_(Update!vars) PROVE VersionInv'
  OBVIOUS
<1>1. CASE UNCHANGED Update!vars
  BY <1>1 DEF Update!vars, Update!own, Update!files, VersionInv, ProgramInv, ScriptInv,
      WholeInv, BeforeMove
<1>2. CASE Update!Next
  BY <1>2, ProgramKeepsVersion, TryKeepsVersion, CatchKeepsVersion DEF UpdateMoves, Update!Next,
      Update!ScriptStep
<1>3. QED
  BY <1>1, <1>2

\* Whatever commands of the script fail, whoever starts or stops the program meanwhile
\* and whenever power is lost, a portable update keeps a whole executable, in place or
\* as the backup.
THEOREM VersionKept == Update!Spec => []Update!AVersionIsKept
<1>1. VersionInv => Update!AVersionIsKept
  BY DEF VersionInv, WholeInv, Update!AVersionIsKept
<1>2. QED
  BY <1>1, VersionInvInit, VersionInvNext, PTL DEF Update!Spec

-----------------------------------------------------------------------------

Left == exe \in {"old", "new"} \/ (exe = "absent" /\ backup = "old")

\* What is in place and what the backup is, by the command that the script has reached
\* and the number of commands that failed: the backup of an earlier update outlives its
\* removal only by a failure, and is moved back only by another one.
FaultInv ==
    /\ faults \in Nat
    /\ backup \in {"absent", "older", "old"}
    /\ moved /\ process # "off" => backup = "old"
    /\ ~dark =>
        /\ script \in {"drop_staged", "copy", "copying", "move_old"} /\ backup = "older"
             => faults >= 1
        /\ script = "move_new" => exe = "absent"
        /\ script \in {"move_new", "start", "check"} => backup = "old"
        /\ script \in {"log", "drop_exe", "restore"} /\ backup = "older" => faults >= 2
        /\ script \in {"log", "drop_exe"} => Left /\ (exe = "absent" => faults >= 1)
        /\ script = "restore" => exe \in {"old", "new", "absent"}
        /\ script = "restart" => exe \in {"old", "new"} \/ faults >= 2
        /\ script = "ended" => (faults = 0 => exe \in {"old", "new"}) /\ (faults <= 1 => Left)

EndInv == VersionInv /\ (kind = "portable" => FaultInv)

LEMMA EndInvInit == Update!Init => EndInv
BY VersionInvInit DEF Update!Init, EndInv, FaultInv, Left

LEMMA KindKept == Update!Next => kind' = kind
BY DEF Update!Next, Update!ProgramStep, Update!Prepare, Update!Download, Update!Shutdown,
    Update!LaunchScript, Update!Ends, Update!Started, Update!BootEnds, Update!PowerLoss,
    Update!UpdateGoes, Update!ScriptStep, Update!Wait, Update!Kill, Update!DropBackup,
    Update!DropStaged, Update!CopyBegins, Update!CopyEnds, Update!MoveOld, Update!MoveNew,
    Update!StartNew, Update!CheckNew, Update!DropPackage, Update!Install,
    Update!StartInstalled, Update!WriteLog, Update!DropExe, Update!Restore, Update!Restart,
    Update!ScriptGoes, Update!Throws

LEMMA ProgramEnd ==
    EndInv /\ UpdateMoves => EndInv'
<1> SUFFICES ASSUME EndInv, kind = "portable",
                    UpdateMoves
             PROVE  FaultInv'
  BY KindKept, ProgramKeepsVersion DEF EndInv, Update!Next, UpdateMoves
<1> USE DEF EndInv, VersionInv, ProgramInv, FaultInv, Left, Update!files, Update!UpdateGoes,
    Update!Fault, Update!NoFault
<1>1. CASE Update!Prepare
  BY <1>1 DEF Update!Prepare
<1>2. CASE Update!Download
  BY <1>2 DEF Update!Download
<1>3. CASE Update!Shutdown
  BY <1>3 DEF Update!Shutdown
<1>4. CASE Update!LaunchScript
  BY <1>4 DEF Update!LaunchScript
<1>5. CASE Update!Ends
  BY <1>5 DEF Update!Ends
<1>6. CASE Update!Started
  BY <1>6 DEF Update!Started
<1>7. CASE Update!BootEnds
  BY <1>7 DEF Update!BootEnds
<1>8. CASE Update!PowerLoss
  BY <1>8 DEF Update!PowerLoss
<1>9. QED
  BY <1>1, <1>2, <1>3, <1>4, <1>5, <1>6, <1>7, <1>8 DEF UpdateMoves,
      Update!ProgramStep

LEMMA ScriptEnd == EndInv /\ Update!ScriptStep => EndInv'
<1> SUFFICES ASSUME EndInv, kind = "portable", Update!ScriptStep PROVE FaultInv'
  BY KindKept, TryKeepsVersion, CatchKeepsVersion DEF EndInv, Update!ScriptStep, Update!Next
<1> USE DEF EndInv, VersionInv, ScriptInv, WholeInv, BeforeMove, Update!Versions, FaultInv,
    Left, Update!files, Update!ScriptGoes, Update!Throws, Update!OnlyScript, Update!Fault,
    Update!NoFault
<1>1. CASE Update!Wait
  BY <1>1 DEF Update!Wait
<1>2. CASE Update!Kill
  BY <1>2 DEF Update!Kill
<1>3. CASE Update!DropBackup("drop_backup", "drop_staged")
  BY <1>3 DEF Update!DropBackup
<1>4. CASE Update!DropStaged
  BY <1>4 DEF Update!DropStaged
<1>5. CASE Update!CopyBegins
  BY <1>5 DEF Update!CopyBegins
<1>6. CASE Update!CopyEnds
  BY <1>6 DEF Update!CopyEnds
<1>7. CASE Update!MoveOld
  BY <1>7 DEF Update!MoveOld
<1>8. CASE Update!MoveNew
  BY <1>8 DEF Update!MoveNew
<1>9. CASE Update!StartNew
  <2>1. CASE /\ script = "start" /\ script' = "check" /\ faults' = faults
             /\ moved' = (moved /\ process # "off")
             /\ UNCHANGED <<exe, backup, dark>>
    <3>1. CASE process = "off"
      BY <2>1, <3>1
    <3>2. CASE process # "off" /\ moved
      BY <2>1, <3>2
    <3>3. CASE ~moved
      BY <2>1, <3>3
    <3>4. QED
      BY <3>1, <3>2, <3>3
  <2>2. CASE /\ script = "start" /\ script' = "log" /\ faults' = faults + 1
             /\ UNCHANGED <<exe, backup, dark, moved, process>>
    BY <2>2
  <2>3. QED
    BY <1>9, <2>1, <2>2, Zenon DEF Update!StartNew
<1>10. CASE Update!CheckNew
  BY <1>10 DEF Update!CheckNew
<1>11. CASE Update!DropBackup("drop_backup_2", "drop_package")
  BY <1>11 DEF Update!DropBackup
<1>12. CASE Update!DropPackage
  BY <1>12 DEF Update!DropPackage
<1>13. CASE Update!Install \/ Update!StartInstalled
  BY <1>13 DEF Update!Install, Update!StartInstalled
<1>14. CASE Update!WriteLog
  BY <1>14 DEF Update!WriteLog
<1>15. CASE Update!DropExe
  BY <1>15 DEF Update!DropExe
<1>16. CASE Update!Restore
  BY <1>16 DEF Update!Restore, Update!InUse
<1>17. CASE Update!Restart
  BY <1>17 DEF Update!Restart
<1>18. QED
  BY <1>1, <1>2, <1>3, <1>4, <1>5, <1>6, <1>7, <1>8, <1>9, <1>10, <1>11, <1>12, <1>13, <1>14,
      <1>15, <1>16, <1>17 DEF Update!ScriptStep

LEMMA EndInvNext == EndInv /\ [Update!Next]_(Update!vars) => EndInv'
<1> SUFFICES ASSUME EndInv, [Update!Next]_(Update!vars) PROVE EndInv'
  OBVIOUS
<1>1. CASE UNCHANGED Update!vars
  <2>1. VersionInv'
    BY <1>1, VersionInvNext DEF EndInv
  <2>2. QED
    BY <1>1, <2>1 DEF Update!vars, Update!own, Update!files, EndInv, FaultInv, Left
<1>2. CASE Update!Next
  BY <1>2, ProgramEnd, ScriptEnd DEF UpdateMoves, Update!Next
<1>3. QED
  BY <1>1, <1>2

\* Without a failing command a portable update ends with the version before or the new
\* one in place; with one, the version before is at least the backup.
THEOREM UpdateEndsInPlace == Update!Spec => []Update!EndedMeansInPlace
<1>1. EndInv => Update!EndedMeansInPlace
  BY DEF EndInv, FaultInv, Left, Update!EndedMeansInPlace
<1>2. QED
  BY <1>1, EndInvInit, EndInvNext, PTL DEF Update!Spec

-----------------------------------------------------------------------------
(* The files: the settings and the migration                                *)

S == "settings"

Values == Settings \cup {Runtime!Absent, Runtime!Torn, "data"}
Pcs == {"next", "copy", "copying", "remove"}

\* What the variables hold, as far as the proofs need it.
Shape ==
    /\ legacy \in [Names -> Values] /\ current \in [Names -> Values]
    /\ current[S] \in Settings \cup {Runtime!Absent, Runtime!Torn}
         /\ legacy[S] \in Settings \cup {Runtime!Absent, Runtime!Torn}
    /\ boot \in [at : Nat, pc : Pcs]
    /\ writing \in Settings \cup {Runtime!Absent} /\ saved \in Settings \cup {Runtime!Absent}
    /\ process \in {"off", "boot", "up"} /\ cut \in BOOLEAN
    /\ process # "up" => writing = Runtime!Absent

\* The migration has emptied the old directory up to the file it is at.
Progress ==
    /\ process = "boot" => \A i \in 1 .. Len(FileNames) :
                              i < boot.at => legacy[FileNames[i]] = Runtime!Absent
    /\ process = "up" => \A f \in Names : legacy[f] = Runtime!Absent

\* It deletes a file only when there is another beside the executable.
AtFile ==
    /\ Runtime!At("copy") \/ Runtime!At("copying") => legacy[Runtime!Here] # Runtime!Absent
    /\ Runtime!At("copy") => current[Runtime!Here] = Runtime!Absent
    /\ Runtime!At("remove") => current[Runtime!Here] # Runtime!Absent

\* The settings are in one of the two places.
Somewhere == saved # Runtime!Absent => current[S] # Runtime!Absent \/ legacy[S] # Runtime!Absent

CopiesSettings == Runtime!At("copying") /\ Runtime!Here = S

\* And they are those that were kept last, unless a copy or a write of them is going on
\* or was cut.
Kept ==
    ~cut /\ saved # Runtime!Absent =>
        /\ CopiesSettings => legacy[S] = saved
        /\ ~CopiesSettings /\ writing = Runtime!Absent =>
              current[S] = saved \/ (current[S] = Runtime!Absent /\ legacy[S] = saved)

FilesInv == Shape /\ Progress /\ AtFile /\ Somewhere /\ Kept

LEMMA HereIsName == ASSUME NEW pc, Runtime!At(pc) PROVE Runtime!Here \in Names
BY FileConstants DEF Runtime!At, Runtime!Here, Names

LEMMA FilesInvInit == Runtime!Init => FilesInv
<1> SUFFICES ASSUME Runtime!Init PROVE FilesInv
  OBVIOUS
<1>1. S \in Names
  BY FileConstants DEF S
<1>2. \A f \in Names : legacy[f] \in Runtime!Contents(f) \cup {Runtime!Absent}
        /\ current[f] \in Runtime!Contents(f) \cup {Runtime!Absent}
  BY DEF Runtime!Init, Names, Runtime!Names
<1>3. \A f \in Names : legacy[f] \in Values /\ current[f] \in Values
  BY <1>2 DEF Runtime!Contents, Values
<1>4. legacy \in [Names -> Values] /\ current \in [Names -> Values]
  BY <1>3 DEF Runtime!Init, Names, Runtime!Names
<1>5. current[S] \in Settings \cup {Runtime!Absent}
        /\ legacy[S] \in Settings \cup {Runtime!Absent}
  BY <1>1, <1>2 DEF Runtime!Contents, S
<1>6. saved = IF current[S] # Runtime!Absent THEN current[S] ELSE legacy[S]
  BY DEF Runtime!Init, S
<1>7. process = "off" /\ boot = [at |-> 0, pc |-> "next"] /\ writing = Runtime!Absent
        /\ cut = FALSE
  BY DEF Runtime!Init
<1>8. Shape
  BY <1>1, <1>4, <1>5, <1>6, <1>7 DEF Shape, Pcs
<1>9. QED
  BY <1>5, <1>6, <1>7, <1>8 DEF FilesInv, Progress, AtFile, Runtime!At, Somewhere, Kept,
      CopiesSettings

LEMMA NameFacts == /\ S \in Names /\ Len(FileNames) \in Nat
                   /\ \A i \in 1 .. Len(FileNames) : FileNames[i] \in Names
BY FileConstants DEF S, Names

\* A step that ends the process or starts it, and that changes of the files at most the
\* one which is being copied.
LEMMA LeaveKeeps ==
    ASSUME FilesInv, process' \in {"off", "boot"}, boot' \in [at : {0, 1}, pc : {"next"}],
           writing' = Runtime!Absent, UNCHANGED <<legacy, saved>>, cut' \in BOOLEAN,
           \/ current' = current
           \/ cut' /\ Runtime!At("copying")
                /\ current' = [current EXCEPT ![Runtime!Here] = Runtime!Absent],
           ~cut' => ~cut /\ ~CopiesSettings /\ writing = Runtime!Absent
    PROVE  FilesInv'
<1> USE NameFacts
<1>1. current' \in [Names -> Values]
        /\ current'[S] \in Settings \cup {Runtime!Absent, Runtime!Torn}
  BY DEF FilesInv, Shape, Runtime!At, Runtime!Here, Values
<1>2. Shape'
  BY <1>1 DEF FilesInv, Shape, Pcs
<1>3. Progress' /\ AtFile'
  BY DEF Progress, AtFile, Runtime!At
<1>4. Somewhere'
  <2>1. CASE current' = current
    BY <2>1 DEF FilesInv, Somewhere
  <2>2. CASE Runtime!At("copying") /\ current' = [current EXCEPT ![Runtime!Here] = Runtime!Absent]
    <3>1. legacy[Runtime!Here] # Runtime!Absent
      BY <2>2 DEF FilesInv, AtFile
    <3>2. CASE Runtime!Here = S
      BY <3>1, <3>2 DEF Somewhere
    <3>3. CASE Runtime!Here # S
      BY <2>2, <3>3 DEF FilesInv, Shape, Somewhere
    <3>4. QED
      BY <3>2, <3>3
  <2>3. QED
    BY <2>1, <2>2
<1>5. Kept'
  BY DEF FilesInv, Kept, CopiesSettings, Runtime!At
<1>6. QED
  BY <1>2, <1>3, <1>4, <1>5 DEF FilesInv

\* A step of the migration at one file, which changes only that one and goes on with it
\* or with the next.
LEMMA FileKeeps ==
    ASSUME FilesInv, process = "boot", process' = "boot", boot.at \in 1 .. Len(FileNames),
           UNCHANGED <<saved, cut, writing>>,
           NEW pc \in Pcs, NEW at, boot' = [at |-> at, pc |-> pc],
           NEW old \in Values, NEW new \in Values,
           legacy' = [legacy EXCEPT ![Runtime!Here] = old],
             current' = [current EXCEPT ![Runtime!Here] = new],
           Runtime!Here = S => old \in Settings \cup {Runtime!Absent, Runtime!Torn}
             /\ new \in Settings \cup {Runtime!Absent, Runtime!Torn},
           \/ at = boot.at + 1 /\ pc = "next" /\ old = Runtime!Absent
           \/ at = boot.at /\ pc # "next" /\ old = legacy[Runtime!Here],
           \* What the step does with the file.
           pc \in {"copy", "copying"} => old # Runtime!Absent,
           pc = "copy" => new = Runtime!Absent,
           pc = "remove" => new # Runtime!Absent,
           legacy[Runtime!Here] # Runtime!Absent \/ current[Runtime!Here] # Runtime!Absent
             => old # Runtime!Absent \/ new # Runtime!Absent,
           \* And what it does with the content.
           ~cut /\ saved # Runtime!Absent /\ Runtime!Here = S =>
               IF pc = "copying" THEN old = saved
               ELSE new = saved \/ (new = Runtime!Absent /\ old = saved)
    PROVE  FilesInv'
<1> USE NameFacts
<1>1. Runtime!Here \in Names /\ boot.at \in Nat /\ boot'.at = at /\ boot'.pc = pc /\ at \in Nat
  BY DEF Runtime!Here, FilesInv, Shape
<1>2. legacy' \in [Names -> Values] /\ current' \in [Names -> Values]
  BY <1>1 DEF FilesInv, Shape
<1>3. /\ \A f \in Names \ {Runtime!Here} : legacy'[f] = legacy[f] /\ current'[f] = current[f]
      /\ legacy'[Runtime!Here] = old /\ current'[Runtime!Here] = new
  BY <1>1 DEF FilesInv, Shape
<1>4. Shape'
  <2>1. current'[S] \in Settings \cup {Runtime!Absent, Runtime!Torn}
          /\ legacy'[S] \in Settings \cup {Runtime!Absent, Runtime!Torn}
    BY <1>3 DEF FilesInv, Shape
  <2>2. QED
    BY <1>1, <1>2, <2>1 DEF FilesInv, Shape
<1>5. Progress'
  <2>1. ASSUME NEW i \in 1 .. Len(FileNames), i < at PROVE legacy'[FileNames[i]] = Runtime!Absent
    <3>1. CASE FileNames[i] = Runtime!Here /\ old = Runtime!Absent
      BY <1>3, <3>1
    <3>2. CASE FileNames[i] # Runtime!Here
      <4>1. i # boot.at
        BY <3>2 DEF Runtime!Here
      <4>2. i < boot.at
        BY <1>1, <2>1, <4>1
      <4>3. legacy[FileNames[i]] = Runtime!Absent
        BY <4>2 DEF FilesInv, Progress
      <4>4. QED
        BY <1>3, <3>2, <4>3
    <3>3. CASE FileNames[i] = Runtime!Here /\ old = legacy[Runtime!Here] /\ at = boot.at
      BY <1>3, <2>1, <3>3 DEF FilesInv, Progress
    <3>4. QED
      BY <3>1, <3>2, <3>3
  <2>2. QED
    BY <1>1, <2>1 DEF Progress
<1>6. Runtime!Here' = Runtime!Here \/ pc = "next"
  BY <1>1 DEF Runtime!Here
<1>7. AtFile'
  BY <1>1, <1>3, <1>6 DEF AtFile, Runtime!At
<1>8. Somewhere'
  BY <1>3 DEF FilesInv, Somewhere
<1>9. CopiesSettings' <=> pc = "copying" /\ Runtime!Here = S
  BY <1>1, <1>6 DEF CopiesSettings, Runtime!At, Pcs
<1>10. Kept'
  <2>1. CASE Runtime!Here = S
    BY <1>3, <1>9, <2>1 DEF Kept
  <2>2. CASE Runtime!Here # S
    BY <1>3, <1>9, <2>2 DEF FilesInv, Kept, CopiesSettings
  <2>3. QED
    BY <2>1, <2>2
<1>11. QED
  BY <1>4, <1>5, <1>7, <1>8, <1>10 DEF FilesInv

LEMMA MigrateKeeps == FilesInv /\ Runtime!Migrate => FilesInv'
<1> SUFFICES ASSUME FilesInv, Runtime!Migrate PROVE FilesInv'
  OBVIOUS
<1> DEFINE old == legacy[Runtime!Here]
           new == current[Runtime!Here]
<1>1. /\ process = "boot" /\ process' = "boot" /\ boot.pc = "next"
           /\ boot.at \in 1 .. Len(FileNames)
      /\ UNCHANGED <<saved, cut, writing>> /\ Runtime!Here \in Names
  BY HereIsName DEF Runtime!Migrate, Runtime!At, Runtime!BootGoes
<1>2. /\ old \in Values /\ new \in Values /\ Runtime!Absent \in Values
      /\ Runtime!Here = S => old \in Settings \cup {Runtime!Absent, Runtime!Torn}
           /\ new \in Settings \cup {Runtime!Absent, Runtime!Torn}
      /\ legacy = [legacy EXCEPT ![Runtime!Here] = old]
           /\ current = [current EXCEPT ![Runtime!Here] = new]
  BY <1>1 DEF FilesInv, Shape, Values
<1>3. ~cut /\ saved # Runtime!Absent /\ Runtime!Here = S
        => new = saved \/ (new = Runtime!Absent /\ old = saved)
  BY <1>1 DEF FilesInv, Shape, Kept, CopiesSettings, Runtime!At
<1>4. CASE /\ old = Runtime!Absent /\ boot' = [at |-> boot.at + 1, pc |-> "next"]
           /\ UNCHANGED <<legacy, current>>
  BY <1>1, <1>2, <1>3, <1>4, FileKeeps DEF Pcs
<1>5. CASE /\ old # Runtime!Absent /\ new # Runtime!Absent
                /\ boot' = [at |-> boot.at, pc |-> "remove"]
           /\ UNCHANGED <<legacy, current>>
  BY <1>1, <1>2, <1>3, <1>5, FileKeeps DEF Pcs
<1>6. CASE /\ old # Runtime!Absent /\ new = Runtime!Absent
                /\ boot' = [at |-> boot.at + 1, pc |-> "next"]
           /\ current' = [current EXCEPT ![Runtime!Here] = old]
           /\ legacy' = [legacy EXCEPT ![Runtime!Here] = Runtime!Absent]
  BY <1>1, <1>2, <1>3, <1>6, FileKeeps DEF Pcs
<1>7. CASE /\ old # Runtime!Absent /\ new = Runtime!Absent
                /\ boot' = [at |-> boot.at, pc |-> "copy"]
           /\ UNCHANGED <<legacy, current>>
  BY <1>1, <1>2, <1>3, <1>7, FileKeeps DEF Pcs
<1>8. QED
  BY <1>4, <1>5, <1>6, <1>7 DEF Runtime!Migrate, Runtime!BootGoes

LEMMA CopyKeeps == FilesInv
  /\ (Runtime!CopyBegins \/ Runtime!CopyEnds \/ Runtime!RemoveSource) => FilesInv'
<1> SUFFICES ASSUME FilesInv,
  Runtime!CopyBegins \/ Runtime!CopyEnds \/ Runtime!RemoveSource PROVE FilesInv'
  OBVIOUS
<1> DEFINE old == legacy[Runtime!Here]
           new == current[Runtime!Here]
<1>1. /\ process = "boot" /\ boot.at \in 1 .. Len(FileNames) /\ Runtime!Here \in Names
      /\ writing = Runtime!Absent
  BY HereIsName DEF Runtime!CopyBegins, Runtime!CopyEnds, Runtime!RemoveSource, Runtime!At,
      FilesInv, Shape
<1>2. /\ old \in Values /\ new \in Values /\ Runtime!Absent \in Values /\ Runtime!Torn \in Values
      /\ Runtime!Here = S => old \in Settings \cup {Runtime!Absent, Runtime!Torn}
           /\ new \in Settings \cup {Runtime!Absent, Runtime!Torn}
      /\ legacy = [legacy EXCEPT ![Runtime!Here] = old]
           /\ current = [current EXCEPT ![Runtime!Here] = new]
  BY <1>1 DEF FilesInv, Shape, Values
<1>3. Runtime!Absent # Runtime!Torn
  BY DEF Runtime!Absent, Runtime!Torn
<1>4. CASE Runtime!CopyBegins
  <2>1. old # Runtime!Absent /\ new = Runtime!Absent /\ boot.pc = "copy"
    BY <1>4 DEF Runtime!CopyBegins, FilesInv, AtFile, Runtime!At
  <2>2. ~cut /\ saved # Runtime!Absent /\ Runtime!Here = S => old = saved
    BY <1>1, <2>1 DEF FilesInv, Kept, CopiesSettings, Runtime!At
  <2>3. /\ process' = "boot" /\ UNCHANGED <<legacy, saved, cut, writing>>
        /\ boot' = [at |-> boot.at, pc |-> "copying"]
        /\ current' = [current EXCEPT ![Runtime!Here] = Runtime!Torn]
    BY <1>1, <1>4 DEF Runtime!CopyBegins, Runtime!BootGoes
  <2>4. QED
    BY <1>1, <1>2, <1>3, <2>1, <2>2, <2>3, FileKeeps DEF Pcs
<1>5. CASE Runtime!CopyEnds
  <2>1. old # Runtime!Absent /\ boot.pc = "copying" /\ legacy' = legacy
    BY <1>5 DEF Runtime!CopyEnds, FilesInv, AtFile, Runtime!At
  <2>2. ~cut /\ saved # Runtime!Absent /\ Runtime!Here = S => old = saved
    BY <1>1, <2>1 DEF FilesInv, Kept, CopiesSettings, Runtime!At
  <2>3. CASE /\ process' = "boot" /\ UNCHANGED <<saved, cut, writing>>
             /\ boot' = [at |-> boot.at, pc |-> "remove"]
             /\ current' = [current EXCEPT ![Runtime!Here] = old]
    BY <1>1, <1>2, <2>1, <2>2, <2>3, FileKeeps DEF Pcs
  <2>4. CASE /\ current' \in {current, [current EXCEPT ![Runtime!Here] = Runtime!Absent]}
             /\ cut' = TRUE /\ Runtime!Gone /\ saved' = saved
    BY <1>1, <1>5, <2>1, <2>4, LeaveKeeps DEF Runtime!Gone, Runtime!At
  <2>5. QED
    BY <1>1, <1>5, <2>3, <2>4 DEF Runtime!CopyEnds, Runtime!BootGoes, Runtime!SetupFails
<1>6. CASE Runtime!RemoveSource
  <2>1. new # Runtime!Absent /\ boot.pc = "remove" /\ UNCHANGED <<current, cut>>
    BY <1>6 DEF Runtime!RemoveSource, FilesInv, AtFile, Runtime!At
  <2>2. ~cut /\ saved # Runtime!Absent /\ Runtime!Here = S => new = saved
    BY <1>1, <2>1 DEF FilesInv, Kept, CopiesSettings, Runtime!At
  <2>3. CASE /\ process' = "boot" /\ UNCHANGED <<saved, writing>>
             /\ boot' = [at |-> boot.at + 1, pc |-> "next"]
             /\ legacy' = [legacy EXCEPT ![Runtime!Here] = Runtime!Absent]
    BY <1>1, <1>2, <2>1, <2>2, <2>3, FileKeeps DEF Pcs
  <2>4. CASE Runtime!Gone /\ UNCHANGED <<legacy, saved>>
    BY <1>1, <2>1, <2>4, LeaveKeeps DEF Runtime!Gone, FilesInv, Shape, CopiesSettings, Runtime!At
  <2>5. QED
    BY <1>1, <1>6, <2>3, <2>4 DEF Runtime!RemoveSource, Runtime!BootGoes, Runtime!SetupFails
<1>7. QED
  BY <1>4, <1>5, <1>6

LEMMA LifeKeeps == FilesInv /\ (Runtime!Started \/ Runtime!BootEnds \/ Runtime!Ended) => FilesInv'
<1> SUFFICES ASSUME FilesInv, Runtime!Started \/ Runtime!BootEnds \/ Runtime!Ended PROVE FilesInv'
  OBVIOUS
<1>1. CASE Runtime!Started
  BY <1>1, LeaveKeeps DEF Runtime!Started, Runtime!BootGoes, FilesInv, Shape, CopiesSettings,
      Runtime!At
<1>2. CASE Runtime!BootEnds
  <2>1. ~CopiesSettings /\ ~CopiesSettings' /\ ~Runtime!At("copying")'
          /\ ~Runtime!At("copy")' /\ ~Runtime!At("remove")'
    BY <1>2 DEF Runtime!BootEnds, Runtime!own, CopiesSettings, Runtime!At, FilesInv, Shape
  <2>2. \A f \in Names : legacy[f] = Runtime!Absent
    BY <1>2 DEF Runtime!BootEnds, FilesInv, Shape, Progress, Names
  <2>3. QED
    BY <1>2, <2>1, <2>2 DEF Runtime!BootEnds, Runtime!own, FilesInv, Shape, Progress, AtFile,
        Somewhere, Kept
<1>3. CASE Runtime!Ended
  <2>1. cut' \in BOOLEAN /\ (~cut' => ~cut /\ ~CopiesSettings /\ writing = Runtime!Absent)
    BY <1>3 DEF Runtime!Ended, CopiesSettings, Runtime!At, FilesInv, Shape
  <2>2. QED
    BY <1>3, <2>1, LeaveKeeps DEF Runtime!Ended, Runtime!Gone
<1>4. QED
  BY <1>1, <1>2, <1>3

\* What is left of a write, or of the beginning of one, in the file of the settings.
LEMMA WriteKeeps ==
    ASSUME FilesInv, process = "up", NEW file \in Settings \cup {Runtime!Torn},
           UNCHANGED <<process, legacy, boot>>,
           current' = [current EXCEPT ![S] = file],
           writing' \in Settings \cup {Runtime!Absent},
             saved' \in Settings \cup {Runtime!Absent}, cut' \in BOOLEAN,
           ~cut' => writing' # Runtime!Absent \/ file = saved'
    PROVE  FilesInv'
<1>1. current'[S] = file /\ file # Runtime!Absent /\ current' \in [Names -> Values]
  BY NameFacts, FileConstants DEF FilesInv, Shape, Values, Runtime!Absent, Runtime!Torn
<1>2. Shape' /\ Progress' /\ AtFile' /\ Somewhere'
  BY <1>1, NameFacts DEF FilesInv, Shape, Progress, AtFile, Runtime!At, Somewhere
<1>3. Kept'
  BY <1>1 DEF Kept, CopiesSettings, Runtime!At
<1>4. QED
  BY <1>2, <1>3 DEF FilesInv

LEMMA StoreKeeps == FilesInv /\ Runtime!StoreStep => FilesInv'
<1> SUFFICES ASSUME FilesInv, Runtime!StoreStep PROVE FilesInv'
  OBVIOUS
<1>1. CASE Runtime!WriteEnds
  <2>1. writing \in Settings /\ process = "up"
    BY <1>1 DEF Runtime!WriteEnds, FilesInv, Shape
  <2>2. CASE /\ current' = [current EXCEPT ![S] = writing] /\ saved' = writing /\ cut' = cut
    <3>1. UNCHANGED <<process, legacy, boot>> /\ writing' = Runtime!Absent
      BY <1>1 DEF Runtime!WriteEnds
    <3>2. saved' \in Settings \cup {Runtime!Absent} /\ cut' \in BOOLEAN
      BY <2>1, <2>2 DEF FilesInv, Shape
    <3>3. QED
      BY WriteKeeps, <2>1, <2>2, <3>1, <3>2
  <2>3. CASE cut' = TRUE /\ UNCHANGED <<current, saved>>
    BY <1>1, <2>1, <2>3 DEF Runtime!WriteEnds, FilesInv, Shape, Progress, AtFile, Runtime!At,
        Somewhere, Kept
  <2>4. QED
    BY <1>1, <2>2, <2>3, Zenon DEF Runtime!WriteEnds, S
<1>2. ASSUME NEW new \in Settings, Runtime!Idle, Runtime!WriteBegins(new) PROVE FilesInv'
  <2>1. new # Runtime!Absent
    BY FileConstants DEF Runtime!Absent
  <2>2. /\ process = "up" /\ UNCHANGED <<process, legacy, boot, saved, cut>>
        /\ writing' = new /\ current' = [current EXCEPT ![S] = Runtime!Torn]
    BY <1>2, Zenon DEF Runtime!Idle, Runtime!WriteBegins, S
  <2>3. saved' \in Settings \cup {Runtime!Absent} /\ cut' \in BOOLEAN
    BY <2>2 DEF FilesInv, Shape
  <2>4. QED
    BY WriteKeeps, <2>1, <2>2, <2>3
<1>3. QED
  BY <1>1, <1>2 DEF Runtime!StoreStep, Runtime!Save, Runtime!SetUpdateProxy

LEMMA FilesInvNext == FilesInv /\ [Runtime!Next]_(Runtime!vars) => FilesInv'
<1> SUFFICES ASSUME FilesInv, [Runtime!Next]_(Runtime!vars) PROVE FilesInv'
  OBVIOUS
<1>1. CASE UNCHANGED Runtime!vars
  BY <1>1 DEF Runtime!vars, Runtime!own, FilesInv, Shape, Progress, AtFile, Runtime!At,
      Runtime!Here, Somewhere, Kept, CopiesSettings
<1>2. CASE Runtime!Next
  BY <1>2, MigrateKeeps, CopyKeeps, LifeKeeps, StoreKeeps DEF Runtime!Next, Runtime!SetupStep
<1>3. QED
  BY <1>1, <1>2

\* No failure, crash or write in progress makes a running program take settings that
\* were kept once for none: it finds them, or an error.
THEOREM SettingsAreFound == Runtime!Spec => []Runtime!NoSilentReset
<1>1. FilesInv => Runtime!NoSilentReset
  <2>1. ASSUME FilesInv, process = "up", saved # Runtime!Absent PROVE Runtime!Load # "defaults"
    <3>1. current["settings"] # Runtime!Absent
            /\ current["settings"] \in Settings \cup {Runtime!Absent, Runtime!Torn}
      BY <2>1, NameFacts DEF FilesInv, Progress, Somewhere, Shape, S
    <3>2. "defaults" \notin Settings /\ "error" # "defaults"
      BY FileConstants
    <3>3. QED
      BY <3>1, <3>2 DEF Runtime!Load, Runtime!Absent, Runtime!Torn
  <2>2. QED
    BY <2>1 DEF Runtime!NoSilentReset
<1>2. QED
  BY <1>1, FilesInvInit, FilesInvNext, PTL DEF Runtime!Spec

\* Unless a copy or a write was cut, a program that is up has emptied the old directory
\* and has the settings that were kept last.
THEOREM MigrationIsSafe == Runtime!Spec => []Runtime!MigrationLosesNothing
<1>1. FilesInv => Runtime!MigrationLosesNothing
  BY NameFacts DEF FilesInv, Progress, Kept, CopiesSettings, Runtime!At,
      Runtime!MigrationLosesNothing, S, Names, Runtime!Names
<1>2. QED
  BY <1>1, FilesInvInit, FilesInvNext, PTL DEF Runtime!Spec

-----------------------------------------------------------------------------
(* The update and the files together                                        *)

\* What the composition does to the program and its update is what UpdateInstaller
\* allows: the setup and the settings commands in between do not touch it.
LEMMA ComposesUpdate == Spec => Update!Spec
<1>1. Init => Update!Init
  BY DEF Init
<1>2. [Next]_vars => [Update!Next]_(Update!vars)
  BY DEF Next, vars, updateVars, Update!vars, Update!own, Update!files
<1> QED
  BY <1>1, <1>2, PTL DEF Spec, Update!Spec

\* And what it does to the program and its files is what RuntimeFiles allows.
LEMMA ComposesRuntime == Spec => Runtime!Spec
<1>1. Init => Runtime!Init
  BY DEF Init
<1>2. [Next]_vars => [Runtime!Next]_(Runtime!vars)
  BY DEF Next, vars, runtimeVars, Runtime!vars, Runtime!own
<1> QED
  BY <1>1, <1>2, PTL DEF Spec, Runtime!Spec

\* A whole executable is kept by the portable update, whatever the setup and the
\* commands of the programs that run meanwhile do (update_installer.rs).
THEOREM VersionIsKept == Spec => []AVersionIsKept
BY ComposesUpdate, VersionKept, PTL DEF AVersionIsKept

\* The portable update ends with a version in place (update_installer.rs).
THEOREM UpdateLeavesVersion == Spec => []EndedMeansInPlace
BY ComposesUpdate, UpdateEndsInPlace, PTL DEF EndedMeansInPlace

\* No load takes settings that were kept for none, also in a program that the update
\* has just started or is about to stop (settings.rs).
THEOREM SettingsAreKept == Spec => []NoSilentReset
BY ComposesRuntime, SettingsAreFound, PTL DEF NoSilentReset

\* The migration loses nothing, also if the update stops the program during it
\* (main.rs).
THEOREM FilesAreMigrated == Spec => []MigrationLosesNothing
BY ComposesRuntime, MigrationIsSafe, PTL DEF MigrationLosesNothing
=============================================================================
