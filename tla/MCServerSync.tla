----------------------------- MODULE MCServerSync -----------------------------
(* ServerSync with two admins who have the same QQ account, on a server with an  *)
(* account of the old kind for it and a later one of the first admin, and with   *)
(* another user whose QQ account has only an account of the old kind there.  The *)
(* first admin captures no friend but itself, the user one, and the second admin *)
(* does not learn its own GID.                                                   *)
EXTENDS ServerSync, TLC

CONSTANTS h1, h2, h3, admin, admin2, user, q1, q2, friend

TheirUsers == h1 :> admin @@ h2 :> user @@ h3 :> admin2
TheirQQs == h1 :> {q1} @@ h2 :> {q2} @@ h3 :> {q1}
TheirCaptures ==
    h1 :> {[own |-> TRUE, friends |-> {q1}]} @@
    h2 :> {[own |-> TRUE, friends |-> {friend}]} @@
    h3 :> {[own |-> FALSE, friends |-> {friend}]}

A(owner, qq) ==
    [owner |-> owner, qq |-> qq, login |-> NoLogin, started |-> FALSE, gids |-> {<<qq, qq>>}]

Lists == {<<A(NoOne, q1), A(admin, q1), A(NoOne, q2)>>}
=============================================================================
