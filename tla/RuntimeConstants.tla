--------------------------- MODULE RuntimeConstants ---------------------------
(* What RuntimeFiles is parameterised by, for it and for the modules that compose it. *)
EXTENDS Naturals, Sequences

CONSTANTS
    FileNames,  \* RUNTIME_FILE_NAMES, in order
    Settings,   \* contents of the settings file
    MaxErrors   \* bound: failing file operations

Names == {FileNames[i] : i \in 1 .. Len(FileNames)}

ASSUME FileConstants ==
    /\ FileNames \in Seq(STRING) /\ "settings" \in Names
    /\ Settings \subseteq STRING \ {"absent", "torn", "defaults", "error"}
    /\ MaxErrors \in Nat
=============================================================================
