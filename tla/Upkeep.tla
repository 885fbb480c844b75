-------------------------------- MODULE Upkeep --------------------------------
(***************************************************************************)
(* The update and the files together: the update ends and starts the       *)
(* process in whose setup the files are migrated and in which the settings *)
(* are written.  Each part says what a change of the process means for it; *)
(* such a change is a step of both.                                        *)
(***************************************************************************)
EXTENDS RuntimeConstants

CONSTANTS Kinds, MaxFaults, MaxRuns

ASSUME UpdateConstants ==
    Kinds \subseteq {"portable", "installer"} /\ MaxFaults \in Nat /\ MaxRuns \in Nat

VARIABLES process, kind, update, script, exe, backup, staged, package, child, moved, faults, dark,
          runs, legacy, current, boot, writing, saved, cut, errors

Update == INSTANCE UpdateInstaller
Runtime == INSTANCE RuntimeFiles

updateVars == <<kind, update, script, exe, backup, staged, package, child, moved, faults, dark, runs>>
runtimeVars == <<legacy, current, boot, writing, saved, cut, errors>>
vars == <<process, updateVars, runtimeVars>>

Init == Update!Init /\ Runtime!Init

Next ==
    \/ Update!Next /\ UNCHANGED <<process, runtimeVars>>
    \/ Runtime!Next /\ UNCHANGED <<process, updateVars>>
    \/ Update!Next /\ Runtime!Next /\ process' # process

Spec == Init /\ [][Next]_vars

AVersionIsKept == Update!AVersionIsKept
EndedMeansInPlace == Update!EndedMeansInPlace
MigrationLosesNothing == Runtime!MigrationLosesNothing
NoSilentReset == Runtime!NoSilentReset
=============================================================================
