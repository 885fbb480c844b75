----------------------------- MODULE MCQqIdentity -----------------------------
(* QqIdentity with two accounts that can have the same nickname, a QQ that      *)
(* keeps one login and a history that holds both.                               *)
EXTENDS QqIdentity, TLC

CONSTANTS a1, a2, list, revalidation

Nicknames == a1 :> {"n1", "shared"} @@ a2 :> {"shared"}
Targets   == list :> Anyone @@ revalidation :> a1
Tries     == list :> 1 @@ revalidation :> 2
=============================================================================
