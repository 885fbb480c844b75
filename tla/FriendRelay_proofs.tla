-------------------------- MODULE FriendRelay_proofs --------------------------
(***************************************************************************)
(* Proofs about FriendRelay, for any friends and identities, any number of *)
(* replies and reads, and any capacity of the reply channel.               *)
(***************************************************************************)
EXTENDS FriendRelay, SequenceTheorems, TLAPS

-----------------------------------------------------------------------------
(* The inductive invariant                                                  *)

\* Before the upgrade nothing was received.
Outset == phase \in {"connect", "headers", "refusing"} => queue = <<>> /\ taken = <<>> /\ fallback = {}

\* The loop has merged what it received and did not return.
Gathered == Relaying => fallback = Of(taken)

\* What the loop received, and did not return with, has no answer to the injected request
\* and no SyncAll with friends.
Unsettled == Relaying => \A reply \in ToSet(taken) :
    ~reply.own /\ (reply.kind = "SyncAll" => reply.gids = {})

\* An answer to the injected request: only a SyncAll after it carries its client_seq.
Answer(reply) == reply.own => injection = "written" /\ reply.kind = "SyncAll"

OwnComesLater == \A k \in 1 .. Len(queue) : Answer(queue[k])

\* The second wait begins with the injected request.
Asked == phase = "active" => injection # "none"

\* The client direction writes the request that was queued.
Injecting == writing = "injected" => injection = "queued"

RelayInv ==
    /\ TypeOK
    /\ Outset /\ Gathered /\ Unsettled /\ OwnComesLater /\ Asked /\ Injecting
    /\ WarningIsTrue /\ FriendsAreKept

-----------------------------------------------------------------------------
(* The reply channel                                                        *)

LEMMA RepliesOfNone == Of(<<>>) = {}
BY DEF Of, ToSet

LEMMA RepliesAppend ==
    ASSUME NEW replies \in Seq(Reply), NEW reply \in Reply
    PROVE  /\ ToSet(Append(replies, reply)) = ToSet(replies) \cup {reply}
           /\ Of(Append(replies, reply)) = Of(replies) \cup reply.gids
<1>1. ToSet(Append(replies, reply)) = ToSet(replies) \cup {reply}
  BY AppendProperties, LenProperties DEF ToSet
<1> QED
  BY <1>1 DEF Of

LEMMA RepliesAreReplies ==
    ASSUME NEW replies \in Seq(Reply)
    PROVE  ToSet(replies) \subseteq Reply
<1>1. \A k \in 1 .. Len(replies) : replies[k] \in Reply
  BY ElementOfSeq
<1> QED
  BY <1>1 DEF ToSet

\* Where every SyncAll is empty, all friends came by GetGameFriends.
LEMMA ReceivedFromLists ==
    ASSUME NEW replies \in Seq(Reply),
           \A reply \in ToSet(replies) : reply.kind = "SyncAll" => reply.gids = {}
    PROVE  OfLists(replies) = Of(replies)
<1>1. \A reply \in ToSet(replies) : reply.kind = "GetGameFriends" \/ reply.gids = {}
  BY RepliesAreReplies DEF Reply
<1> HIDE DEF ToSet
<1> QED
  BY <1>1 DEF Of, OfLists

\* The channel keeps the first replies and drops the others.
LEMMA CappedKeepsPrefix ==
    ASSUME NEW replies \in Seq(Reply)
    PROVE  /\ Capped(replies) \in Seq(Reply)
           /\ Len(Capped(replies)) <= QueueMax
           /\ Len(Capped(replies)) <= Len(replies)
           /\ \A k \in 1 .. Len(Capped(replies)) : Capped(replies)[k] = replies[k]
<1> DEFINE n == IF Len(replies) < QueueMax THEN Len(replies) ELSE QueueMax
<1>1. Len(replies) \in Nat
  BY LenProperties
<1>2. n \in Nat /\ n <= Len(replies) /\ n <= QueueMax
  BY <1>1, RelayConstants
<1>3. \A k \in 1 .. n : replies[k] \in Reply
  BY <1>1, <1>2, ElementOfSeq
<1>4. Capped(replies) = SubSeq(replies, 1, n)
  BY DEF Capped
<1> HIDE DEF n
<1>5. /\ SubSeq(replies, 1, n) \in Seq(Reply)
      /\ Len(SubSeq(replies, 1, n)) = IF 1 <= n THEN n - 1 + 1 ELSE 0
      /\ \A k \in 1 .. n - 1 + 1 : SubSeq(replies, 1, n)[k] = replies[1 + k - 1]
  BY <1>2, <1>3, SubSeqProperties
<1>6. Len(SubSeq(replies, 1, n)) = n
  BY <1>2, <1>5
<1>7. \A k \in 1 .. n : SubSeq(replies, 1, n)[k] = replies[k]
  BY <1>2, <1>5
<1> QED
  BY <1>2, <1>4, <1>5, <1>6, <1>7

LEMMA InspectedReplies ==
    ASSUME NEW replies \in Inspected
    PROVE  /\ replies \in Seq(Reply)
           /\ Len(arrived) + Len(replies) <= MaxReplies
           /\ \A k \in 1 .. Len(replies) : Answer(replies[k])
<1>1. replies \in BoundedSeq(Reply, 2)
  BY DEF Inspected
<1>2. PICK m \in 0 .. 2 : replies \in [1 .. m -> Reply]
  BY <1>1 DEF BoundedSeq, SeqOf
<1>3. replies \in Seq(Reply)
  BY <1>2, SeqDef
<1> QED
  BY <1>3 DEF Inspected, Answer

-----------------------------------------------------------------------------
(* The inductive invariant is preserved                                     *)

LEMMA RelayInit == Init => RelayInv
<1> SUFFICES ASSUME Init PROVE RelayInv
  OBVIOUS
<1>1. Nothing \in Outcome
  BY DEF Outcome, Nothing, Reasons
<1>2. <<>> \in Seq(Reply) /\ Len(<<>>) = 0
  BY EmptySeq
<1>3. TypeOK
  BY <1>1, <1>2, RelayConstants DEF Init, TypeOK
<1> QED
  BY <1>3 DEF Init, RelayInv, Outset, Gathered, Unsettled, Relaying, OwnComesLater, Asked, Injecting,
              WarningIsTrue, FriendsAreKept

\* A step before the return that touches neither the channel nor what was received, and
\* does not take back the injected request.
LEMMA QuietStep ==
    ASSUME RelayInv, TypeOK', UNCHANGED <<queue, taken, fallback>>,
           phase # "done", phase' # "done",
           Relaying' => phase \in {"headers", "passive", "active"},
           phase' \in {"connect", "headers", "refusing"} =>
               phase \in {"connect", "headers", "refusing"},
           injection = "written" => injection' = "written",
           Asked', Injecting'
    PROVE  RelayInv'
<1>1. Outset'
  BY DEF RelayInv, Outset
<1>2. Gathered'
  BY RepliesOfNone DEF RelayInv, Gathered, Outset, Relaying, Of
<1>3. OwnComesLater'
  BY DEF RelayInv, OwnComesLater, Answer
<1>4. Unsettled'
  BY DEF RelayInv, Outset, Unsettled, Relaying, ToSet
<1>5. WarningIsTrue' /\ FriendsAreKept'
  BY DEF WarningIsTrue, FriendsAreKept
<1> QED
  BY <1>1, <1>2, <1>3, <1>4, <1>5 DEF RelayInv

\* open_target_websocket, the client direction and the first timeout without a reply.
LEMMA QuietStepsKeepInv ==
    ASSUME RelayInv,
           \/ Connected \/ Upgraded \/ NotUpgraded
           \/ ClientRead \/ ClientWritten \/ TakeInjection \/ InjectionWritten
           \/ PassiveTimeout /\ fallback = {}
    PROVE  RelayInv'
<1>1. TypeOK /\ Injecting /\ Asked
  BY DEF RelayInv
<1> USE DEF Relaying
<1>2. CASE Connected \/ Upgraded \/ NotUpgraded
  <2>1. TypeOK' /\ Asked' /\ Injecting'
    BY <1>1, <1>2 DEF TypeOK, Asked, Injecting, Connected, Upgraded, NotUpgraded, loop, server, client
  <2> QED
    BY <1>2, <2>1, QuietStep DEF Connected, Upgraded, NotUpgraded, loop, server, client
<1>3. CASE ClientRead \/ ClientWritten
  <2>1. reads' \in 0 .. MaxReads
    BY <1>1, <1>3, RelayConstants DEF TypeOK, ClientRead, ClientWritten
  <2>2. TypeOK' /\ Asked' /\ Injecting'
    BY <1>1, <1>3, <2>1 DEF TypeOK, Asked, Injecting, ClientRead, ClientWritten, loop, server
  <2> QED
    BY <1>3, <2>2, QuietStep DEF ClientRead, ClientWritten, loop, server
<1>4. CASE TakeInjection \/ InjectionWritten
  <2>1. TypeOK' /\ Asked' /\ Injecting'
    BY <1>1, <1>4 DEF TypeOK, Asked, Injecting, TakeInjection, InjectionWritten, loop, server
  <2> QED
    BY <1>4, <2>1, QuietStep DEF TakeInjection, InjectionWritten, loop, server
<1>5. CASE PassiveTimeout /\ fallback = {}
  <2>1. TypeOK' /\ Asked' /\ Injecting'
    BY <1>1, <1>5 DEF TypeOK, Asked, Injecting, PassiveTimeout, loop, server
  <2> QED
    BY <1>1, <1>5, <2>1, QuietStep DEF TypeOK, PassiveTimeout, loop, server
<1> QED
  BY <1>2, <1>3, <1>4, <1>5

\* One read of the gateway's direction.
LEMMA ServerReadKeepsInv ==
    ASSUME RelayInv, NEW replies \in Inspected, NEW login \in Identities \cup {NoIdentity},
           ServerRead(replies, login)
    PROVE  RelayInv'
<1>1. TypeOK /\ OwnComesLater
  BY DEF RelayInv
<1>2. /\ replies \in Seq(Reply)
      /\ Len(arrived) + Len(replies) <= MaxReplies
      /\ \A k \in 1 .. Len(replies) : Answer(replies[k])
  BY InspectedReplies
<1>3. /\ arrived' = arrived \o replies
      /\ queue' = Capped(queue \o replies)
      /\ identity' = IF identity = NoIdentity THEN login ELSE identity
      /\ Relaying
      /\ UNCHANGED <<phase, taken, fallback, writing, reads, injection, outcome>>
  BY DEF ServerRead, loop, client
<1>4. queue \in Seq(Reply) /\ arrived \in Seq(Reply) /\ taken \in Seq(Reply)
  BY <1>1 DEF TypeOK
<1>5. /\ arrived \o replies \in Seq(Reply)
      /\ Len(arrived \o replies) = Len(arrived) + Len(replies)
  BY <1>2, <1>4, ConcatProperties
<1>6. /\ queue \o replies \in Seq(Reply)
      /\ Len(queue \o replies) = Len(queue) + Len(replies)
      /\ \A k \in 1 .. Len(queue) + Len(replies) :
            (queue \o replies)[k] = IF k <= Len(queue) THEN queue[k] ELSE replies[k - Len(queue)]
  BY <1>2, <1>4, ConcatProperties
<1>7. /\ queue' \in Seq(Reply) /\ Len(queue') <= QueueMax
      /\ Len(queue') <= Len(queue) + Len(replies)
      /\ \A k \in 1 .. Len(queue') : queue'[k] = (queue \o replies)[k]
  BY <1>3, <1>6, CappedKeepsPrefix
<1>8. /\ Len(queue) \in Nat /\ Len(replies) \in Nat /\ Len(arrived) \in Nat
      /\ Len(taken) \in Nat /\ Len(queue') \in Nat
  BY <1>2, <1>4, <1>7, LenProperties
<1>9. TypeOK'
  <2>1. Len(taken') + Len(queue') <= Len(arrived') /\ Len(arrived') <= MaxReplies
    BY <1>1, <1>2, <1>3, <1>5, <1>7, <1>8, RelayConstants DEF TypeOK
  <2> QED
    BY <1>1, <1>3, <1>5, <1>7, <2>1 DEF TypeOK
<1>10. OwnComesLater'
  <2>1. SUFFICES ASSUME NEW k \in 1 .. Len(queue') PROVE Answer(queue'[k])
    BY <1>3 DEF OwnComesLater, Answer
  <2>2. k \in 1 .. Len(queue) + Len(replies) /\ queue'[k] = (queue \o replies)[k]
    BY <1>7, <1>8, <2>1
  <2>3. CASE k <= Len(queue)
    BY <1>1, <1>6, <1>8, <2>1, <2>2, <2>3 DEF OwnComesLater
  <2>4. CASE ~(k <= Len(queue))
    <3>1. k - Len(queue) \in 1 .. Len(replies)
      BY <1>8, <2>2, <2>4
    <3>2. queue'[k] = replies[k - Len(queue)]
      BY <1>6, <2>2, <2>4
    <3> QED
      BY <1>2, <2>1, <3>1, <3>2
  <2> QED
    BY <2>3, <2>4
<1>11. Outset' /\ Gathered' /\ Unsettled' /\ Asked' /\ Injecting'
  BY <1>3 DEF RelayInv, Outset, Gathered, Of, Unsettled, Relaying, Asked, Injecting
<1>12. WarningIsTrue' /\ FriendsAreKept'
  BY <1>3 DEF Relaying, WarningIsTrue, FriendsAreKept
<1> QED
  BY <1>9, <1>10, <1>11, <1>12 DEF RelayInv

\* The returns that take nothing from the channel.
LEMMA ReturnStep ==
    ASSUME RelayInv, NEW reason \in Reasons, NEW gids \in SUBSET Gids, Return(reason, gids),
           phase \in {"connect", "headers", "refusing", "passive", "active"},
           reason \notin {"", "own", "zero"},
           UNCHANGED <<loop, server, client>>,
           reason = "timeout" => phase = "active" /\ fallback = {},
           reason \in {"no_sync", "fallback", "cut"} =>
               Relaying /\ gids = fallback /\ fallback # {},
           fallback # {} /\ Relaying => gids # {} \/ injection # "none"
    PROVE  RelayInv'
<1>1. TypeOK /\ Outset /\ Gathered /\ Unsettled /\ OwnComesLater /\ Asked /\ Injecting
  BY DEF RelayInv
<1>2. outcome' = [reason |-> reason, gids |-> gids, identity |-> identity] /\ phase' = "done"
  BY DEF Return
<1>3. UNCHANGED <<queue, arrived, taken, fallback, identity, writing, reads, injection>>
  BY DEF loop, server, client
<1>4. outcome' \in Outcome /\ outcome'.reason = reason /\ outcome'.gids = gids
  BY <1>1, <1>2 DEF TypeOK, Outcome
<1>5. TypeOK'
  BY <1>1, <1>2, <1>3, <1>4 DEF TypeOK
<1>6. Outset' /\ Gathered' /\ Unsettled' /\ OwnComesLater' /\ Asked' /\ Injecting'
  BY <1>1, <1>2, <1>3
     DEF Outset, Gathered, Unsettled, Relaying, OwnComesLater, Answer, Asked, Injecting
<1>7. Relaying => fallback = Of(taken)
  BY <1>1 DEF Gathered
<1>8. ~Relaying => Of(taken) = {}
  BY <1>1, RepliesOfNone DEF Outset, Relaying
<1>9. Of(taken)' = Of(taken) /\ OfLists(taken)' = OfLists(taken) /\ ToSet(taken)' = ToSet(taken)
  BY <1>3 DEF Of, OfLists
<1>10. WarningIsTrue'
  <2>1. CASE reason \in {"no_sync", "fallback", "cut", "timeout"}
    <3>1. Relaying
      BY <2>1 DEF Relaying
    <3>2. \A reply \in ToSet(taken) : ~reply.own /\ (reply.kind = "SyncAll" => reply.gids = {})
      BY <1>1, <3>1 DEF Unsettled
    <3>3. OfLists(taken) = Of(taken)
      BY <3>2, ReceivedFromLists, <1>1 DEF TypeOK
    <3>4. reason = "timeout" =>
              injection # "none" /\ \A reply \in ToSet(taken) : reply.gids = {}
      <4>1. reason = "timeout" => injection # "none" /\ Of(taken) = {}
        BY <1>1, <1>7, <3>1 DEF Asked
      <4>2. ToSet(taken) \subseteq Reply
        BY <1>1, RepliesAreReplies DEF TypeOK
      <4> QED
        BY <4>1, <4>2 DEF Of, Reply
    <3>5. reason \in {"no_sync", "fallback", "cut"} =>
              outcome'.gids = OfLists(taken) /\ outcome'.gids # {}
      BY <1>4, <1>7, <3>3
    <3> HIDE DEF Reply
    <3> QED
      BY <1>3, <1>4, <1>9, <2>1, <3>2, <3>4, <3>5 DEF WarningIsTrue
  <2>2. CASE reason \notin {"no_sync", "fallback", "cut", "timeout"}
    BY <1>4, <2>2 DEF WarningIsTrue
  <2> QED
    BY <2>1, <2>2
<1>11. FriendsAreKept'
  BY <1>3, <1>4, <1>7, <1>8, <1>9 DEF FriendsAreKept
<1> QED
  BY <1>5, <1>6, <1>10, <1>11 DEF RelayInv

LEMMA ReturnsKeepInv ==
    ASSUME RelayInv,
           \/ ConnectFails \/ HeadersFail \/ Refused
           \/ \E failed \in BOOLEAN : Ends(failed)
           \/ PassiveTimeout /\ fallback # {}
           \/ ActiveTimeout
    PROVE  RelayInv'
<1>1. fallback \in SUBSET Gids /\ {} \in SUBSET Gids /\ Asked
  BY DEF RelayInv, TypeOK
<1>2. {"connect", "refused", "closed", "failed", "cut", "no_sync", "timeout", "fallback"}
          \subseteq Reasons
  BY DEF Reasons
<1>3. CASE ConnectFails \/ HeadersFail
  BY <1>1, <1>2, <1>3, ReturnStep DEF ConnectFails, HeadersFail, Relaying
<1>4. CASE Refused
  BY <1>1, <1>2, <1>4, ReturnStep DEF Refused, Relaying
<1>5. CASE \E failed \in BOOLEAN : Ends(failed)
  <2>1. PICK failed \in BOOLEAN : Ends(failed)
    BY <1>5
  <2>2. CASE fallback # {}
    BY <1>1, <1>2, <2>1, <2>2, ReturnStep DEF Ends, TransportEnded, Relaying
  <2>3. CASE fallback = {}
    <3>1. \/ Return("failed", {})
          \/ Return("closed", {})
      BY <2>1, <2>3 DEF Ends, TransportEnded
    <3> QED
      BY <1>1, <1>2, <2>1, <2>3, <3>1, ReturnStep DEF Ends, Relaying
  <2> QED
    BY <2>2, <2>3
<1>6. CASE PassiveTimeout /\ fallback # {}
  <2>1. Return("no_sync", fallback) /\ UNCHANGED <<loop, server, client>> /\ phase = "passive"
    BY <1>6 DEF PassiveTimeout, client
  <2> QED
    BY <1>1, <1>2, <1>6, <2>1, ReturnStep DEF Relaying
<1>7. CASE ActiveTimeout
  <2>1. CASE fallback = {}
    BY <1>1, <1>2, <1>7, <2>1, ReturnStep DEF ActiveTimeout, Relaying
  <2>2. CASE fallback # {}
    BY <1>1, <1>2, <1>7, <2>2, ReturnStep DEF ActiveTimeout, Relaying
  <2> QED
    BY <2>1, <2>2
<1> QED
  BY <1>3, <1>4, <1>5, <1>6, <1>7

\* What receiving the head of the channel does, whatever follows from it.
LEMMA Received ==
    ASSUME RelayInv, Receive
    PROVE  /\ Head(queue) \in Reply
           /\ queue' \in Seq(Reply) /\ taken' \in Seq(Reply)
           /\ Len(queue') <= QueueMax
           /\ Len(taken') + Len(queue') <= Len(arrived)
           /\ \A k \in 1 .. Len(queue') : Answer(queue'[k])
           /\ Answer(Head(queue))
           /\ ToSet(taken)' = ToSet(taken) \cup {Head(queue)}
           /\ Of(taken)' = Of(taken) \cup Head(queue).gids
<1>1. /\ queue \in Seq(Reply) /\ taken \in Seq(Reply) /\ arrived \in Seq(Reply)
      /\ queue # <<>>
  BY DEF RelayInv, TypeOK, Receive
<1>2. taken' = Append(taken, Head(queue)) /\ queue' = Tail(queue)
  BY DEF Receive
<1>3. /\ Head(queue) \in Reply /\ queue' \in Seq(Reply)
      /\ Len(queue') = Len(queue) - 1
      /\ \A k \in 1 .. Len(queue') : queue'[k] = queue[k + 1]
  BY <1>1, <1>2, HeadTailProperties
<1>4. taken' \in Seq(Reply) /\ Len(taken') = Len(taken) + 1
  BY <1>1, <1>2, <1>3, AppendProperties
<1>5. /\ Len(queue) \in Nat /\ Len(taken) \in Nat /\ Len(arrived) \in Nat
      /\ Len(queue') \in Nat
  BY <1>1, <1>3, LenProperties
<1>6. Len(queue) <= QueueMax /\ Len(taken) + Len(queue) <= Len(arrived)
  BY DEF RelayInv, TypeOK
<1>7. Len(queue') <= QueueMax /\ Len(taken') + Len(queue') <= Len(arrived)
  BY <1>3, <1>4, <1>5, <1>6, RelayConstants
<1>8. \A k \in 1 .. Len(queue) : Answer(queue[k])
  BY DEF RelayInv, OwnComesLater
<1>9. \A k \in 1 .. Len(queue') : Answer(queue'[k])
  <2> TAKE k \in 1 .. Len(queue')
  <2>1. queue'[k] = queue[k + 1]
    BY <1>3
  <2>2. k + 1 \in 1 .. Len(queue)
    BY <1>3, <1>5
  <2> QED
    BY <1>8, <2>1, <2>2
<1>10. Head(queue) = queue[1] /\ 1 \in 1 .. Len(queue)
  BY <1>3, <1>5
<1>11. Answer(Head(queue))
  BY <1>8, <1>10
<1>12. /\ ToSet(taken') = ToSet(taken) \cup {Head(queue)}
       /\ Of(taken') = Of(taken) \cup Head(queue).gids
  BY <1>1, <1>2, <1>3, RepliesAppend
<1>13. Of(taken)' = Of(taken') /\ ToSet(taken)' = ToSet(taken')
  BY DEF Of, ToSet
<1> QED
  BY <1>3, <1>4, <1>7, <1>9, <1>11, <1>12, <1>13

\* A reply that does not settle the outcome is merged.
LEMMA MergeStep ==
    ASSUME RelayInv, Relaying, Receive, Merge, ~Head(queue).own,
           Head(queue).kind = "SyncAll" => Head(queue).gids = {},
           UNCHANGED <<phase, outcome, arrived, identity, client>>
    PROVE  RelayInv'
<1>1. /\ Head(queue) \in Reply
      /\ queue' \in Seq(Reply) /\ taken' \in Seq(Reply)
      /\ Len(queue') <= QueueMax
      /\ Len(taken') + Len(queue') <= Len(arrived)
      /\ \A k \in 1 .. Len(queue') : Answer(queue'[k])
      /\ ToSet(taken)' = ToSet(taken) \cup {Head(queue)}
      /\ Of(taken)' = Of(taken) \cup Head(queue).gids
  BY Received
<1>2. /\ fallback' = fallback \cup Head(queue).gids
      /\ UNCHANGED <<phase, outcome, arrived, identity, writing, reads, injection>>
  BY DEF Merge, client
<1>3. Head(queue).gids \subseteq Gids
  BY <1>1 DEF Reply
<1>4. TypeOK'
  BY <1>1, <1>2, <1>3 DEF RelayInv, TypeOK
<1>5. Outset' /\ OwnComesLater' /\ Asked' /\ Injecting'
  BY <1>1, <1>2 DEF RelayInv, Outset, Relaying, OwnComesLater, Answer, Asked, Injecting
<1>6. Gathered' /\ Unsettled'
  BY <1>1, <1>2 DEF RelayInv, Gathered, Unsettled
<1>7. WarningIsTrue' /\ FriendsAreKept'
  BY <1>2 DEF Relaying, WarningIsTrue, FriendsAreKept
<1> QED
  BY <1>4, <1>5, <1>6, <1>7 DEF RelayInv

\* A reply that settles the outcome: friends of a SyncAll, or the injected request's own
\* empty answer.
LEMMA SettleStep ==
    ASSUME RelayInv, Relaying, Receive, UNCHANGED <<fallback, arrived, identity, client>>,
           NEW reason \in {"", "own", "zero"}, NEW gids \in SUBSET Gids, Return(reason, gids),
           gids = Head(queue).gids, Head(queue).kind = "SyncAll",
           reason = "" => ~Head(queue).own /\ gids # {},
           reason = "own" => Head(queue).own /\ gids # {},
           reason = "zero" => Head(queue).own /\ gids = {}
    PROVE  RelayInv'
<1>1. /\ Head(queue) \in Reply
      /\ queue' \in Seq(Reply) /\ taken' \in Seq(Reply)
      /\ Len(queue') <= QueueMax
      /\ Len(taken') + Len(queue') <= Len(arrived)
      /\ \A k \in 1 .. Len(queue') : Answer(queue'[k])
      /\ Answer(Head(queue))
      /\ ToSet(taken)' = ToSet(taken) \cup {Head(queue)}
  BY Received
<1>2. /\ outcome' = [reason |-> reason, gids |-> gids, identity |-> identity]
      /\ phase' = "done"
      /\ UNCHANGED <<fallback, arrived, identity, writing, reads, injection>>
  BY DEF Return, client
<1>3. outcome' \in Outcome /\ outcome'.reason = reason /\ outcome'.gids = gids
  BY <1>2 DEF RelayInv, TypeOK, Outcome, Reasons
<1>4. TypeOK'
  BY <1>1, <1>2, <1>3 DEF RelayInv, TypeOK
<1>5. Outset' /\ Gathered' /\ Unsettled' /\ OwnComesLater' /\ Asked' /\ Injecting'
  BY <1>1, <1>2
     DEF RelayInv, Outset, Relaying, Gathered, Unsettled, OwnComesLater, Answer, Asked, Injecting
<1>6. WarningIsTrue'
  <2>1. \A reply \in ToSet(taken) : reply.kind = "SyncAll" => reply.gids = {}
    BY DEF RelayInv, Unsettled
  <2> QED
    BY <1>1, <1>3, <2>1 DEF WarningIsTrue
<1>7. FriendsAreKept'
  BY <1>1, <1>2, <1>3 DEF FriendsAreKept, Answer
<1> QED
  BY <1>4, <1>5, <1>6, <1>7 DEF RelayInv

LEMMA RepliesKeepInv ==
    ASSUME RelayInv, PassiveReply \/ ActiveReply
    PROVE  RelayInv'
<1>1. /\ Relaying /\ Receive
      /\ UNCHANGED <<arrived, identity, client>>
  BY DEF PassiveReply, ActiveReply, Relaying
<1>2. Head(queue) \in Reply /\ (Head(queue).own => injection = "written" /\ Head(queue).kind = "SyncAll")
  BY <1>1, Received DEF Answer
<1>3. Head(queue).gids \in SUBSET Gids /\ Head(queue).own \in BOOLEAN
  BY <1>2 DEF Reply
<1>4. CASE PassiveReply
  <2>1. ~Head(queue).own
    BY <1>2, <1>4 DEF RelayInv, TypeOK, PassiveReply
  <2>2. CASE Head(queue).kind = "SyncAll" /\ Head(queue).gids # {}
    <3>1. Return("", Head(queue).gids) /\ UNCHANGED fallback
      BY <1>4, <2>2 DEF PassiveReply
    <3> QED
      BY <1>1, <1>3, <2>1, <2>2, <3>1, SettleStep
  <2>3. CASE ~(Head(queue).kind = "SyncAll" /\ Head(queue).gids # {})
    <3>1. Merge /\ UNCHANGED <<phase, outcome>>
      BY <1>4, <2>3 DEF PassiveReply
    <3> QED
      BY <1>1, <2>1, <2>3, <3>1, MergeStep
  <2> QED
    BY <2>2, <2>3
<1>5. CASE ActiveReply
  <2>1. CASE Head(queue).kind = "SyncAll" /\ Head(queue).gids # {} /\ Head(queue).own
    <3>1. Return("own", Head(queue).gids) /\ UNCHANGED fallback
      BY <1>5, <2>1 DEF ActiveReply
    <3> QED
      BY <1>1, <1>3, <2>1, <3>1, SettleStep
  <2>2. CASE Head(queue).kind = "SyncAll" /\ Head(queue).gids # {} /\ ~Head(queue).own
    <3>1. Return("", Head(queue).gids) /\ UNCHANGED fallback
      BY <1>5, <2>2 DEF ActiveReply
    <3> QED
      BY <1>1, <1>3, <2>2, <3>1, SettleStep
  <2>3. CASE Head(queue).kind = "SyncAll" /\ Head(queue).gids = {} /\ Head(queue).own
    <3>1. Return("zero", {}) /\ UNCHANGED fallback
      BY <1>5, <2>3 DEF ActiveReply
    <3> QED
      BY <1>1, <1>3, <2>3, <3>1, SettleStep
  <2>4. CASE /\ ~(Head(queue).kind = "SyncAll" /\ Head(queue).gids # {})
             /\ ~(Head(queue).kind = "SyncAll" /\ Head(queue).own)
    <3>1. Merge /\ UNCHANGED <<phase, outcome>>
      BY <1>5, <2>4 DEF ActiveReply
    <3> QED
      BY <1>1, <1>2, <2>4, <3>1, MergeStep
  <2> QED
    BY <1>3, <2>1, <2>2, <2>3, <2>4
<1> QED
  BY <1>4, <1>5

LEMMA StutterKeepsRelay ==
    ASSUME RelayInv, UNCHANGED vars
    PROVE  RelayInv'
<1>1. UNCHANGED <<phase, queue, arrived, taken, fallback, identity, writing, reads, injection, outcome>>
  BY DEF vars, loop, server, client
<1>2. TypeOK'
  BY <1>1 DEF RelayInv, TypeOK
<1>3. Outset' /\ Gathered' /\ Unsettled' /\ OwnComesLater' /\ Asked' /\ Injecting'
  BY <1>1 DEF RelayInv, Outset, Gathered, Of, Unsettled, Relaying, OwnComesLater, Answer, Asked, Injecting
<1>4. ToSet(taken)' = ToSet(taken) /\ Of(taken)' = Of(taken) /\ OfLists(taken)' = OfLists(taken)
  BY <1>1 DEF Of, OfLists
<1>5. WarningIsTrue' /\ FriendsAreKept'
  BY <1>1, <1>4 DEF RelayInv, WarningIsTrue, FriendsAreKept
<1> QED
  BY <1>2, <1>3, <1>5 DEF RelayInv

-----------------------------------------------------------------------------
(* The theorems                                                             *)

THEOREM RelayInvariant == Spec => []RelayInv
<1>1. RelayInv /\ [Next]_vars => RelayInv'
  <2> SUFFICES ASSUME RelayInv, [Next]_vars PROVE RelayInv'
    OBVIOUS
  <2>1. CASE \/ Connected \/ Upgraded \/ NotUpgraded
             \/ ClientRead \/ ClientWritten \/ TakeInjection \/ InjectionWritten
             \/ PassiveTimeout /\ fallback = {}
    BY <2>1, QuietStepsKeepInv
  <2>2. CASE \/ ConnectFails \/ HeadersFail \/ Refused
             \/ \E failed \in BOOLEAN : Ends(failed)
             \/ PassiveTimeout /\ fallback # {}
             \/ ActiveTimeout
    BY <2>2, ReturnsKeepInv
  <2>3. CASE \E replies \in Inspected, login \in Identities \cup {NoIdentity} :
                 ServerRead(replies, login)
    BY <2>3, ServerReadKeepsInv
  <2>4. CASE PassiveReply \/ ActiveReply
    BY <2>4, RepliesKeepInv
  <2>5. CASE UNCHANGED vars
    BY <2>5, StutterKeepsRelay
  <2> QED
    BY <2>1, <2>2, <2>3, <2>4, <2>5 DEF Next
<1> QED
  BY RelayInit, <1>1, PTL DEF Spec

\* The relay keeps its types: at most QueueMax replies wait, every friend of an outcome is
\* one that the gateway sent, and nothing is injected before the second wait.
THEOREM RelayTypeCorrect == Spec => []TypeOK
<1>1. RelayInv => TypeOK
  BY DEF RelayInv
<1> QED
  BY RelayInvariant, <1>1, PTL

\* Whatever is replied, dropped and cut, and in whatever order the loop sees it, the
\* outcome of relay_websocket is what its warning says.
THEOREM WarningsAreTrue == Spec => []WarningIsTrue
<1>1. RelayInv => WarningIsTrue
  BY DEF RelayInv
<1> QED
  BY RelayInvariant, <1>1, PTL

\* Friends received before the request was injected reach the login's outcome, however
\* the relay ends.
THEOREM FriendsAreNotLost == Spec => []FriendsAreKept
<1>1. RelayInv => FriendsAreKept
  BY DEF RelayInv
<1> QED
  BY RelayInvariant, <1>1, PTL
=============================================================================
