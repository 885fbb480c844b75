---------------------------- MODULE LoginExchange ----------------------------
(***************************************************************************)
(* What the Code capture promises about logins, whatever tasks, channels   *)
(* and locks it is made of: the user arms the capture for one account, at  *)
(* most one login takes the arming, and nothing is armed again until the   *)
(* result of that login is out.                                            *)
(***************************************************************************)
CONSTANT Logins

VARIABLES
    armed,     \* the next login will be intercepted
    inFlight,  \* the logins that took an arming and have no result yet
    resolved   \* the logins whose result is out, or given up

vars == <<armed, inFlight, resolved>>

Init == armed = FALSE /\ inFlight = {} /\ resolved = {}

\* No login may be in flight: its result would reach the wrong account.
Arm ==
    /\ inFlight = {}
    /\ armed' = TRUE
    /\ UNCHANGED <<inFlight, resolved>>

Disarm ==
    /\ armed' = FALSE
    /\ UNCHANGED <<inFlight, resolved>>

\* A login takes the arming with it.
Claim(l) ==
    /\ armed /\ inFlight = {} /\ l \notin resolved
    /\ armed' = FALSE
    /\ inFlight' = {l}
    /\ UNCHANGED resolved

\* Each login has one result.
Resolve(l) ==
    /\ inFlight = {l}
    /\ inFlight' = {}
    /\ resolved' = resolved \cup {l}
    /\ UNCHANGED armed

\* The session ends: whatever was in flight is given up with the arming.
GiveUp ==
    /\ armed' = FALSE
    /\ inFlight' = {}
    /\ resolved' = resolved \cup inFlight

Next == Arm \/ Disarm \/ GiveUp \/ \E l \in Logins : Claim(l) \/ Resolve(l)

Spec == Init /\ [][Next]_vars

-----------------------------------------------------------------------------

\* There is never a second login to take for the first, nor an arming that could bring
\* one, and a login that has its result does not come back (proxy.rs claims by one swap
\* and app_state.rs refuses to arm while a login is unresolved).
OneAtATime ==
    /\ \A l, k \in inFlight : l = k
    /\ armed => inFlight = {}
    /\ inFlight \cap resolved = {}

=============================================================================
