----------------------------- MODULE RuntimeFiles -----------------------------
(***************************************************************************)
(* The files beside the executable: migrate_legacy_data_dir in the setup   *)
(* of main.rs, which moves them there from the directory of older          *)
(* versions, and SettingsStore (settings.rs), whose file is one of them.   *)
(*                                                                         *)
(* A rename is atomic; a copy and fs::write are not: the file is there,    *)
(* and empty, before its content is.  Both can fail, and the process can   *)
(* die between any two steps.  save_settings and save_update_proxy are     *)
(* synchronous commands of one thread; loads of tasks run beside them.     *)
(***************************************************************************)
EXTENDS RuntimeConstants

VARIABLES
    process,    \* "off", "boot" or "up"
    legacy,     \* the files of the old directory
    current,    \* the files beside the executable
    boot,       \* migrate_legacy_data_dir: the file it is at, and what it does
    writing,    \* the content that a settings command is writing, or none
    saved,      \* history: the settings that were kept last
    cut,        \* history: a copy or a write ended before it was complete
    errors      \* history: failed operations

own == <<legacy, current, boot, writing, saved, cut, errors>>
vars == <<process, own>>

Absent == "absent"
Torn == "torn"
Contents(f) == (IF f = "settings" THEN Settings ELSE {"data"})

TypeOK ==
    /\ process \in {"off", "boot", "up"}
    /\ \A f \in Names : {legacy[f], current[f]} \subseteq Contents(f) \cup {Absent, Torn}
    /\ boot \in [at : 0 .. Len(FileNames) + 1, pc : {"next", "copy", "copying", "remove"}]
    /\ writing \in Settings \cup {Absent}
    /\ saved \in Settings \cup {Absent} /\ cut \in BOOLEAN /\ errors \in 0 .. MaxErrors

\* The files of the old directory are there or not; the new one may have them too.
Init ==
    /\ process = "off"
    /\ legacy \in [Names -> UNION {Contents(f) : f \in Names} \cup {Absent}]
    /\ current \in [Names -> UNION {Contents(f) : f \in Names} \cup {Absent}]
    /\ \A f \in Names : {legacy[f], current[f]} \subseteq Contents(f) \cup {Absent}
    /\ boot = [at |-> 0, pc |-> "next"] /\ writing = Absent
    /\ saved = IF current["settings"] # Absent THEN current["settings"] ELSE legacy["settings"]
    /\ cut = FALSE /\ errors = 0

Works == UNCHANGED errors
Error == errors < MaxErrors /\ errors' = errors + 1

-----------------------------------------------------------------------------
(* The setup *)

At(pc) == process = "boot" /\ boot.pc = pc /\ boot.at \in 1 .. Len(FileNames)
Here == FileNames[boot.at]
BootGoes(at, pc) == boot' = [at |-> at, pc |-> pc] /\ UNCHANGED writing

\* The process is gone, with what it was doing.
Gone ==
    /\ process' = "off"
    /\ boot' = [at |-> 0, pc |-> "next"] /\ writing' = Absent

\* An error of the setup ends the program.
SetupFails == Gone /\ Error /\ UNCHANGED saved

Started ==
    /\ process = "off" /\ process' = "boot"
    /\ BootGoes(1, "next")
    /\ UNCHANGED <<legacy, current, saved, cut>> /\ Works

\* Mutant: what is beside the executable is replaced.
MigrateOverwriting ==
    /\ At("next")
    /\ IF legacy[Here] = Absent
       THEN BootGoes(boot.at + 1, "next") /\ UNCHANGED <<legacy, current>>
       ELSE /\ current' = [current EXCEPT ![Here] = legacy[Here]]
            /\ legacy' = [legacy EXCEPT ![Here] = Absent]
            /\ BootGoes(boot.at + 1, "next")
    /\ UNCHANGED <<process, saved, cut>> /\ Works

\* A file that is not there is skipped; one that is beside the executable already is
\* deleted from the old directory; else it is renamed, and copied if that fails.
Migrate ==
    /\ At("next")
    /\ UNCHANGED cut
    /\ \/ /\ legacy[Here] = Absent
          /\ BootGoes(boot.at + 1, "next")
          /\ UNCHANGED <<process, legacy, current, saved>> /\ Works
       \/ /\ legacy[Here] # Absent /\ current[Here] # Absent
          /\ BootGoes(boot.at, "remove")
          /\ UNCHANGED <<process, legacy, current, saved>> /\ Works
       \/ /\ legacy[Here] # Absent /\ current[Here] = Absent
          /\ \/ /\ current' = [current EXCEPT ![Here] = legacy[Here]]
                /\ legacy' = [legacy EXCEPT ![Here] = Absent]
                /\ BootGoes(boot.at + 1, "next") /\ Works
             \/ BootGoes(boot.at, "copy") /\ UNCHANGED <<legacy, current>> /\ Error
          /\ UNCHANGED <<process, saved>>

CopyBegins ==
    /\ At("copy")
    /\ current' = [current EXCEPT ![Here] = Torn]
    /\ BootGoes(boot.at, "copying")
    /\ UNCHANGED <<process, legacy, saved, cut>> /\ Works

\* Mutant: the rest of the copy is not waited for.
CopyEndsEarly ==
    /\ At("copying")
    /\ BootGoes(boot.at, "remove")
    /\ UNCHANGED <<process, current, legacy, saved, cut>> /\ Works

CopyEnds ==
    /\ At("copying")
    /\ UNCHANGED legacy
    /\ \/ /\ current' = [current EXCEPT ![Here] = legacy[Here]]
          /\ BootGoes(boot.at, "remove")
          /\ UNCHANGED <<process, saved, cut>> /\ Works
       \/ /\ current' \in {current, [current EXCEPT ![Here] = Absent]}
          /\ cut' = TRUE
          /\ SetupFails

RemoveSource ==
    /\ At("remove")
    /\ UNCHANGED <<current, cut>>
    /\ \/ /\ legacy' = [legacy EXCEPT ![Here] = Absent]
          /\ BootGoes(boot.at + 1, "next")
          /\ UNCHANGED <<process, saved>> /\ Works
       \/ UNCHANGED legacy /\ SetupFails

BootEnds ==
    /\ process = "boot" /\ boot.at > Len(FileNames)
    /\ process' = "up"
    /\ UNCHANGED own

\* It is closed, killed or crashes, perhaps in the middle of a copy or a write.
Ended ==
    /\ process # "off"
    /\ Gone
    /\ cut' = (cut \/ boot.pc = "copying" \/ writing # Absent)
    /\ UNCHANGED <<legacy, current, saved>> /\ Works

-----------------------------------------------------------------------------
(* SettingsStore *)

\* load: the defaults if there is no file, an error if it cannot be parsed.
Load == CASE current["settings"] = Absent -> "defaults"
          [] current["settings"] = Torn -> "error"
          [] OTHER -> current["settings"]

Idle == process = "up" /\ writing = Absent

\* Mutant: the old file is deleted, so that a new one can be renamed in its place.
WriteBeginsByDeleting(new) ==
    /\ writing' = new
    /\ current' = [current EXCEPT !["settings"] = Absent]
    /\ UNCHANGED <<process, legacy, boot, saved, cut>> /\ Works

\* fs::write empties the file first.
WriteBegins(new) ==
    /\ writing' = new
    /\ current' = [current EXCEPT !["settings"] = Torn]
    /\ UNCHANGED <<process, legacy, boot, saved, cut>> /\ Works

\* save writes what the window sends.
Save(new) == Idle /\ WriteBegins(new)

\* set_update_proxy changes what it loads: not a file that it cannot read.
SetUpdateProxy(new) == Idle /\ Load # "error" /\ WriteBegins(new)

\* Mutant: the command returns before the content is there.
WriteEndsEarly ==
    /\ writing # Absent
    /\ writing' = Absent /\ saved' = writing
    /\ UNCHANGED <<process, legacy, current, boot, cut>> /\ Works

WriteEnds ==
    /\ writing # Absent
    /\ writing' = Absent
    /\ \/ /\ current' = [current EXCEPT !["settings"] = writing]
          /\ saved' = writing /\ UNCHANGED cut /\ Works
       \/ /\ cut' = TRUE /\ UNCHANGED <<current, saved>> /\ Error
    /\ UNCHANGED <<process, legacy, boot>>

-----------------------------------------------------------------------------

SetupStep == Migrate \/ CopyBegins \/ CopyEnds \/ RemoveSource \/ BootEnds

StoreStep == WriteEnds \/ \E new \in Settings : Save(new) \/ SetUpdateProxy(new)

Next == Started \/ SetupStep \/ StoreStep \/ Ended

Spec == Init /\ [][Next]_vars

-----------------------------------------------------------------------------
(* Properties *)

\* README: what the old directory has is moved beside the executable, and nothing that
\* is there already is replaced: a program that is up has every file once, also after
\* setups that failed or were killed; except where a copy was cut.
MigrationLosesNothing ==
    process = "up" /\ ~cut =>
        /\ \A f \in Names : legacy[f] = Absent
        /\ writing = Absent /\ saved # Absent => current["settings"] = saved

\* A load never takes settings that were kept once for none (defaults would be used,
\* and a Code sent with them), not even beside a write or after one that was cut.
NoSilentReset == process = "up" /\ saved # Absent => Load # "defaults"

=============================================================================
