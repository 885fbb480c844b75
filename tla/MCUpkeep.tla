------------------------------- MODULE MCUpkeep -------------------------------
(* Upkeep with the settings and one other file to migrate.                      *)
EXTENDS Upkeep

TwoFiles == <<"settings", "backup">>
=============================================================================
