----------------------------- MODULE FriendRelay -----------------------------
(***************************************************************************)
(* The relay of a claimed login with friend sync (friend_proxy.rs).  The   *)
(* login is forwarded to the official gateway, friend replies are taken    *)
(* out of what it answers, and when none came in time one SyncAll request  *)
(* is injected.  relay_websocket is a loop around select!: the two         *)
(* directions, the channel of friend replies and a timer, in any order.    *)
(*                                                                         *)
(* External: the gateway and the QQ client choose what they send and when  *)
(* they close.  The gateway answers the injected request only once it was  *)
(* written.                                                                *)
(***************************************************************************)
EXTENDS Naturals, Sequences, FiniteSets, SequencesExt

CONSTANTS
    Gids,        \* the friends
    NoIdentity,  \* own_identity before a login reply was seen
    Identities,  \* the identities that login replies carry
    QueueMax,    \* capacity of the reply channel (16)
    MaxReplies,  \* bound: friend replies of the gateway
    MaxReads     \* bound: reads from the client

ASSUME RelayConstants ==
    /\ NoIdentity \notin Identities
    /\ QueueMax \in Nat \ {0} /\ MaxReplies \in Nat /\ MaxReads \in Nat

\* What inspect_server_message gives for a friend reply; own: its client_seq is that of
\* the injected request.
Reply == [kind : {"SyncAll", "GetGameFriends"}, gids : SUBSET Gids, own : BOOLEAN]

Reasons == {"", "own", "zero", "timeout", "no_sync", "fallback", "cut",   \* Ok, with its warning
            "connect", "refused", "closed", "failed"}                    \* Err

Outcome == [reason : Reasons, gids : SUBSET Gids, identity : Identities \cup {NoIdentity}]

VARIABLES
    phase,     \* "connect", "headers", "refusing", "passive", "active", "done"
    queue,     \* the reply channel
    arrived,   \* every friend reply that was inspected, in order
    taken,     \* those that the loop received
    fallback,  \* fallback_gids
    identity,  \* own_identity
    writing,   \* the client direction is within write_all: "no", "chunk", "injected"
    reads,     \* reads from the client so far
    injection, \* "none", "queued", "written"
    outcome    \* what relay_target_websocket returns

loop == <<taken, fallback>>
server == <<queue, arrived, identity>>
client == <<writing, reads, injection>>
vars == <<phase, loop, server, client, outcome>>

Nothing == [reason |-> "", gids |-> {}, identity |-> NoIdentity]

TypeOK ==
    /\ phase \in {"connect", "headers", "refusing", "passive", "active", "done"}
    /\ queue \in Seq(Reply) /\ Len(queue) <= QueueMax
    /\ arrived \in Seq(Reply) /\ taken \in Seq(Reply)
    /\ Len(taken) + Len(queue) <= Len(arrived) /\ Len(arrived) <= MaxReplies
    /\ fallback \subseteq Gids /\ identity \in Identities \cup {NoIdentity}
    /\ writing \in {"no", "chunk", "injected"}
    /\ reads \in 0 .. MaxReads
    /\ injection \in {"none", "queued", "written"}
    /\ phase \in {"connect", "headers", "refusing", "passive"} => injection = "none"
    /\ outcome \in Outcome

Init ==
    /\ phase = "connect"
    /\ queue = <<>> /\ arrived = <<>> /\ taken = <<>>
    /\ fallback = {} /\ identity = NoIdentity
    /\ writing = "no" /\ reads = 0
    /\ injection = "none"
    /\ outcome = Nothing

Return(reason, gids) ==
    /\ phase' = "done"
    /\ outcome' = [reason |-> reason, gids |-> gids, identity |-> identity]

Relaying == phase \in {"passive", "active"}

-----------------------------------------------------------------------------
(* open_target_websocket *)

\* The lookup, each connect and the TLS handshake have timeouts of their own.
Connected ==
    /\ phase = "connect" /\ phase' = "headers"
    /\ UNCHANGED <<loop, server, client, outcome>>

ConnectFails ==
    /\ phase = "connect" /\ Return("connect", {})
    /\ UNCHANGED <<loop, server, client>>

\* read_headers answers within 15 s: an upgrade, another status, or an Err (also for
\* a compressed stream).
Upgraded ==
    /\ phase = "headers" /\ phase' = "passive"
    /\ UNCHANGED <<loop, server, client, outcome>>

NotUpgraded ==
    /\ phase = "headers" /\ phase' = "refusing"
    /\ UNCHANGED <<loop, server, client, outcome>>

HeadersFail ==
    /\ phase = "headers" /\ Return("connect", {})
    /\ UNCHANGED <<loop, server, client>>

\* copy_bidirectional lasts as long as the peers want.
Refused ==
    /\ phase = "refusing" /\ Return("refused", {})
    /\ UNCHANGED <<loop, server, client>>

-----------------------------------------------------------------------------
(* relay_server_websocket *)

Capped(replies) == SubSeq(replies, 1, IF Len(replies) < QueueMax THEN Len(replies) ELSE QueueMax)

\* One read was forwarded to the client and inspected: try_send drops what the channel
\* does not hold, and own_identity is set once.
ServerRead(replies, login) ==
    /\ Relaying
    /\ arrived' = arrived \o replies
    /\ queue' = Capped(queue \o replies)
    /\ identity' = IF identity = NoIdentity THEN login ELSE identity
    /\ UNCHANGED <<phase, loop, client, outcome>>

\* Mutant: what was merged is not looked at.
TransportEndedEmpty(failed) == Return(IF failed THEN "failed" ELSE "closed", {})

\* transport_ended.
TransportEnded(failed) ==
    IF fallback # {} THEN Return("cut", fallback)
    ELSE Return(IF failed THEN "failed" ELSE "closed", {})

\* A direction ends, by a close or by an Err; the loop may see that before it has
\* received what is still in the channel.
Ends(failed) ==
    /\ Relaying
    /\ TransportEnded(failed)
    /\ UNCHANGED <<loop, server, client>>

-----------------------------------------------------------------------------
(* relay_client_websocket *)

\* One read from the client.
ClientRead ==
    /\ Relaying /\ writing = "no" /\ reads < MaxReads
    /\ reads' = reads + 1 /\ writing' = "chunk"
    /\ UNCHANGED <<phase, loop, server, injection, outcome>>

ClientWritten ==
    /\ Relaying /\ writing = "chunk"
    /\ writing' = "no"
    /\ UNCHANGED <<phase, loop, server, reads, injection, outcome>>

\* The queued request is written where the last read ended.
TakeInjection ==
    /\ Relaying /\ writing = "no" /\ injection = "queued"
    /\ writing' = "injected"
    /\ UNCHANGED <<phase, loop, server, reads, injection, outcome>>

InjectionWritten ==
    /\ Relaying /\ writing = "injected"
    /\ writing' = "no" /\ injection' = "written"
    /\ UNCHANGED <<phase, loop, server, reads, outcome>>

-----------------------------------------------------------------------------
(* relay_websocket *)

Receive ==
    /\ queue # <<>>
    /\ taken' = Append(taken, Head(queue))
    /\ queue' = Tail(queue)

Merge == fallback' = fallback \cup Head(queue).gids

PassiveReply ==
    /\ phase = "passive" /\ Receive
    /\ LET reply == Head(queue) IN
       IF reply.kind = "SyncAll" /\ reply.gids # {}
       THEN Return("", reply.gids) /\ UNCHANGED fallback
       ELSE Merge /\ UNCHANGED <<phase, outcome>>
    /\ UNCHANGED <<arrived, identity, client>>

\* Five seconds are over: enough is known, or the request is queued for the client
\* direction (the channel is empty, so its send never waits).
PassiveTimeout ==
    /\ phase = "passive"
    /\ IF fallback # {}
       THEN Return("no_sync", fallback) /\ UNCHANGED injection
       ELSE phase' = "active" /\ injection' = "queued" /\ UNCHANGED outcome
    /\ UNCHANGED <<loop, server, writing, reads>>

\* Mutant: any empty SyncAll is taken for the answer.
ActiveReplyOwnFirst ==
    /\ phase = "active" /\ Receive
    /\ LET reply == Head(queue) IN
       IF reply.kind = "SyncAll" /\ reply.gids # {}
       THEN Return(IF reply.own THEN "own" ELSE "", reply.gids) /\ UNCHANGED fallback
       ELSE IF reply.kind = "SyncAll"
       THEN Return("zero", {}) /\ UNCHANGED fallback
       ELSE Merge /\ UNCHANGED <<phase, outcome>>
    /\ UNCHANGED <<arrived, identity, client>>

ActiveReply ==
    /\ phase = "active" /\ Receive
    /\ LET reply == Head(queue) IN
       IF reply.kind = "SyncAll" /\ reply.gids # {}
       THEN Return(IF reply.own THEN "own" ELSE "", reply.gids) /\ UNCHANGED fallback
       ELSE IF reply.kind = "SyncAll" /\ reply.own
       THEN Return("zero", {}) /\ UNCHANGED fallback
       ELSE Merge /\ UNCHANGED <<phase, outcome>>
    /\ UNCHANGED <<arrived, identity, client>>

\* Mutant: the wait starts when the request was written.
ActiveTimeoutOnceWritten ==
    /\ phase = "active" /\ injection = "written"
    /\ IF fallback = {} THEN Return("timeout", {}) ELSE Return("fallback", fallback)
    /\ UNCHANGED <<loop, server, client>>

ActiveTimeout ==
    /\ phase = "active"
    /\ IF fallback = {} THEN Return("timeout", {}) ELSE Return("fallback", fallback)
    /\ UNCHANGED <<loop, server, client>>

\* What one read brings: at most two replies, those to the injected request only once
\* it was written, and perhaps a login reply.
Inspected ==
    {replies \in BoundedSeq(Reply, 2) :
        /\ Len(arrived) + Len(replies) <= MaxReplies
        /\ \A k \in 1 .. Len(replies) :
              replies[k].own => injection = "written" /\ replies[k].kind = "SyncAll"}

Next ==
    \/ Connected \/ ConnectFails \/ Upgraded \/ NotUpgraded \/ HeadersFail \/ Refused
    \/ \E replies \in Inspected, login \in Identities \cup {NoIdentity} :
          ServerRead(replies, login)
    \/ \E failed \in BOOLEAN : Ends(failed)
    \/ ClientRead \/ ClientWritten \/ TakeInjection \/ InjectionWritten
    \/ PassiveReply \/ PassiveTimeout \/ ActiveReply \/ ActiveTimeout

Spec == Init /\ [][Next]_vars

\* The two timers of relay_websocket fire.  Nothing is assumed of the gateway and the
\* client, nor that a write to either of them ever ends.
Fairness == WF_vars(PassiveTimeout) /\ WF_vars(ActiveTimeout)

FairSpec == Spec /\ Fairness

-----------------------------------------------------------------------------
(* Properties *)

Of(replies) == UNION {reply.gids : reply \in ToSet(replies)}
OfLists(replies) ==
    UNION {reply.gids : reply \in {r \in ToSet(replies) : r.kind = "GetGameFriends"}}

\* Every outcome is degraded only as its text says, as far as the loop received the replies
\* (line by line): friends without a warning come whole from a SyncAll of the client's;
\* "own" and "zero" are what the gateway itself answered to the injected request; a
\* fallback is all that GetGameFriends brought, and then, as after "timeout", the injected
\* request has no answer.
\* The texts of "no_sync", "own", "zero" and "timeout" also say that the client triggered
\* no SyncAll, and that of "timeout" that no reply came after the request.  Neither is so
\* when the reply was empty: the loop merges an empty one like none.  And at "timeout" the
\* request may be queued and not written yet.
WarningIsTrue ==
    phase = "done" =>
        LET reason == outcome.reason
            received == ToSet(taken)
        IN  /\ reason = "" => \E reply \in received :
                  reply.kind = "SyncAll" /\ ~reply.own /\ reply.gids = outcome.gids /\ reply.gids # {}
            /\ reason = "own" => \E reply \in received :
                  reply.own /\ reply.gids = outcome.gids /\ reply.gids # {}
            /\ reason = "zero" => \E reply \in received : reply.own /\ reply.gids = {}
            /\ reason \in {"no_sync", "fallback", "cut"} =>
                  outcome.gids = OfLists(taken) /\ outcome.gids # {}
            /\ reason \in {"no_sync", "own", "zero", "timeout"} => \A reply \in received :
                  reply.kind = "SyncAll" /\ ~reply.own => reply.gids = {}
            /\ reason = "timeout" => injection # "none" /\ \A reply \in received : reply.gids = {}
            /\ reason \in {"timeout", "fallback"} => \A reply \in received : ~reply.own

\* Friends that were received before the injected request was queued are never given up:
\* the login returns friends, however it ends after that.
FriendsAreKept ==
    injection = "none" /\ Of(taken) # {} /\ phase = "done" => outcome.gids # {}

\* From the upgrade on, the relay returns in time, whatever the peers do or leave undone.
RelayReturns == phase = "passive" ~> phase = "done"

=============================================================================
