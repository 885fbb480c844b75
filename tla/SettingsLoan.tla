----------------------------- MODULE SettingsLoan -----------------------------
(***************************************************************************)
(* What the takeover promises about the user's settings, whatever scripts, *)
(* retries, crashes and launches it is made of: they are borrowed.  They   *)
(* are kept before the first change, changed only while they are kept, and *)
(* the kept copy is given up only when they, or what someone else has      *)
(* written since, are back.                                                *)
(***************************************************************************)
CONSTANTS
    Own,       \* the settings that are the user's or another program's
    Borrowed,  \* what the borrower leaves in their place
    Nothing    \* no kept copy

VARIABLES
    settings,  \* the settings in force
    kept,      \* the copy
    touched    \* someone else has written the settings

vars == <<settings, kept, touched>>

Init == settings \in Own /\ kept = Nothing /\ touched = FALSE

\* The copy is of settings that were in force; someone else may have changed them
\* since they were read.
Borrow ==
    /\ kept = Nothing /\ settings \in Own
    /\ kept' \in Own
    /\ kept' = settings \/ touched
    /\ UNCHANGED <<settings, touched>>

Use ==
    /\ kept # Nothing
    /\ settings' \in Own \cup Borrowed
    /\ UNCHANGED <<kept, touched>>

Return ==
    /\ kept # Nothing /\ settings \in Own
    /\ settings = kept \/ touched
    /\ kept' = Nothing
    /\ UNCHANGED <<settings, touched>>

Foreign ==
    /\ settings' \in Own
    /\ touched' = TRUE
    /\ UNCHANGED kept

Next == Borrow \/ Use \/ Return \/ Foreign

Spec == Init /\ [][Next]_vars

-----------------------------------------------------------------------------

\* While the settings are not someone's own, a copy of settings that were is kept: at
\* no moment are the user's settings lost (system_proxy.rs saves before it applies and
\* deletes the backup after it has read the restored settings back).
NothingIsLost == settings \notin Own => kept \in Own

=============================================================================
