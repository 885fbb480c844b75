--------------------------- MODULE ServerSync_proofs ---------------------------
(***************************************************************************)
(* Proofs about ServerSync, for any helpers, users and accounts, and any   *)
(* number of logins, deletions, late requests, reads and GIDs.             *)
(***************************************************************************)
EXTENDS ServerSync, FiniteSetTheorems, SequenceTheorems, WellFoundedInduction, TLAPS

-----------------------------------------------------------------------------
(* The inductive invariant                                                  *)

Exchange ==
    [pc : Running \cup Ended, n : Nat, qq : AllQQs \cup {NoOne},
     capture : [own : BOOLEAN, friends : SUBSET Gids],
     id : Nat, polls : Nat, removed : BOOLEAN, added : BOOLEAN]

Requests ==
    [op : {"create", "update", "start", "remove", "add"}, user : Users, login : Logins,
     id : Nat, gids : SUBSET Gids]

\* An id that was given to an account which user may write; the account may be deleted.
Belongs(id, qq, user) ==
    /\ id \in 1 .. nextId - 1
    /\ id \in DOMAIN accounts => Usable(accounts[id], qq, user)

\* Every id is below the next one, so no id is given twice.
ListOK ==
    /\ nextId \in Nat \ {0}
    /\ accounts \in [DOMAIN accounts -> Accounts]
    /\ DOMAIN accounts \subseteq 1 .. nextId - 1

\* The exchanges that know the id of their account.
Addressed(exchange) ==
    \/ exchange.pc \in {"start", "poll", "remove", "add", "completed", "start_failed"}
    \/ exchange.pc = "post" /\ exchange.id # NoAccount

SoundExchange(h) ==
    /\ sync[h] \in Exchange
    /\ sync[h].pc # "idle" => sync[h].qq \in QQs[h]
    /\ Addressed(sync[h]) => Belongs(sync[h].id, sync[h].qq, User[h])
    /\ sync[h].removed => sync[h].pc \in {"add", "completed", "failed"}
    /\ sync[h].added => sync[h].pc = "completed"

Proper(r) ==
    /\ r \in Requests /\ r.user = User[r.login.helper]
    /\ r.op # "create" => Belongs(r.id, r.login.qq, r.user)

ServerInv ==
    /\ ListOK
    /\ DOMAIN sync = Helpers /\ \A h \in Helpers : SoundExchange(h)
    /\ \A r \in late : Proper(r)
    /\ delayed \in BOOLEAN /\ (late # {} => delayed)
    /\ WritesToOwnAccount

\* Between the read of the list and the Code, no account comes that should have it.
StillEarliest(h) ==
    sync[h].pc = "post" => \A other \in DOMAIN accounts :
        Usable(accounts[other], sync[h].qq, User[h]) => sync[h].id # NoAccount /\ sync[h].id <= other

EarliestInv == ~delayed => \A h \in Helpers : StillEarliest(h)

\* What another helper's request leaves of an account that g works on: the Code and the
\* owner, unless another admin takes the account over, the start, and every GID but g's.
Kept(g, old, new) ==
    /\ (new.login = old.login /\ new.owner = old.owner) \/ TakenOver(g, new)
    /\ old.started => new.started
    /\ \A x \in new.gids : x[2] = sync[g].qq => x \in old.gids
    /\ \A x \in old.gids : x[2] # sync[g].qq => x \in new.gids

\* What the exchange has done so far is on the server.
Progress(h) ==
    sync[h].pc \in {"start", "poll", "remove", "add", "completed", "start_failed"}
      /\ sync[h].id \in DOMAIN accounts =>
        LET account == accounts[sync[h].id]
            gids == {g[2] : g \in account.gids}
        IN  /\ HasCode(h, account)
            /\ sync[h].pc \in {"poll", "remove", "add", "completed"} => account.started
            /\ sync[h].removed => sync[h].qq \notin gids
            /\ sync[h].added => Friends(h) \subseteq gids

ProgressInv == ~delayed => \A h \in Helpers : Progress(h)

-----------------------------------------------------------------------------
(* Choices                                                                  *)

LEMMA LeastOfIds ==
    ASSUME NEW ids, ids \subseteq Nat, ids # {}
    PROVE  \E id \in ids : \A other \in ids : id <= other
<1> DEFINE Less == OpToRel(<, Nat)
<1>1. IsWellFoundedOn(Less, Nat)
  BY NatLessThanWellFounded
<1>2. \A i, j \in Nat : i < j => <<i, j>> \in Less
  BY DEF OpToRel
<1> HIDE DEF Less
<1>3. PICK id \in ids : \A other \in ids : ~(<<other, id>> \in Less)
  BY <1>1, WFMin
<1>4. ASSUME NEW other \in ids PROVE id <= other
  <2>1. id \in Nat /\ other \in Nat
    OBVIOUS
  <2>2. ~(other < id)
    BY <1>2, <1>3, <2>1
  <2> QED
    BY <2>1, <2>2
<1> QED
  BY <1>4

LEMMA EarliestIsLeast ==
    ASSUME NEW ids, ids \subseteq Nat, ids # {}
    PROVE  Earliest(ids) \in ids /\ \A other \in ids : Earliest(ids) <= other
BY LeastOfIds DEF Earliest

\* existing_qq_account finds the earliest account that the user may write, or there is none.
LEMMA ExistingFinds ==
    ASSUME ListOK, NEW h \in Helpers
    PROVE  /\ Existing(h) \in Nat
           /\ Existing(h) # NoAccount =>
                /\ Existing(h) \in DOMAIN accounts
                /\ Usable(accounts[Existing(h)], sync[h].qq, User[h])
           /\ \A other \in DOMAIN accounts : Usable(accounts[other], sync[h].qq, User[h]) =>
                Existing(h) # NoAccount /\ Existing(h) <= other
<1> DEFINE ids == {id \in DOMAIN accounts : Usable(accounts[id], sync[h].qq, User[h])}
<1>1. ids \subseteq Nat /\ NoAccount \notin ids
  BY DEF ListOK, NoAccount
<1>2. Existing(h) = IF ids = {} THEN NoAccount ELSE Earliest(ids)
  BY DEF Existing
<1>3. ids # {} => Earliest(ids) \in ids /\ \A other \in ids : Earliest(ids) <= other
  <2> HIDE DEF ids
  <2> QED
    BY <1>1, EarliestIsLeast
<1>4. CASE ids = {}
  BY <1>2, <1>4 DEF NoAccount
<1>5. CASE ids # {}
  BY <1>1, <1>2, <1>3, <1>5
<1> QED
  BY <1>4, <1>5

\* The answer to a creation ends with the account created.
LEMMA NewestIsCreated ==
    ASSUME NEW list, NEW n \in Nat, n \in DOMAIN list, DOMAIN list \subseteq 1 .. n
    PROVE  Newest(list) = n
<1>1. \A other \in DOMAIN list : n >= other
  OBVIOUS
<1>2. Newest(list) \in DOMAIN list /\ \A other \in DOMAIN list : Newest(list) >= other
  BY <1>1 DEF Newest
<1> QED
  BY <1>1, <1>2

-----------------------------------------------------------------------------
(* What a request does to the accounts                                      *)

\* A step of the server: no account changes hands, and a new one has a new id.
AccountsStay ==
    /\ nextId <= nextId'
    /\ \A id \in DOMAIN accounts' : id < nextId => id \in DOMAIN accounts
    /\ \A id \in DOMAIN accounts' : id \in DOMAIN accounts =>
          accounts'[id].owner = accounts[id].owner /\ accounts'[id].qq = accounts[id].qq

ServerSound == ListOK' /\ WritesToOwnAccount' /\ AccountsStay

LEMMA ServerIdle ==
    ASSUME ListOK, WritesToOwnAccount, UNCHANGED <<accounts, nextId>>
    PROVE  ServerSound
BY DEF ListOK, WritesToOwnAccount, ServerSound, AccountsStay

LEMMA AddressKept ==
    ASSUME ListOK, ServerSound, NEW id, NEW qq, NEW user, Belongs(id, qq, user)
    PROVE  /\ id \in 1 .. nextId' - 1
           /\ id \in DOMAIN accounts' => Usable(accounts'[id], qq, user)
BY DEF ListOK, ServerSound, AccountsStay, Belongs, Usable

LEMMA CreateEffect ==
    ASSUME ListOK, WritesToOwnAccount, NEW r, Proper(r), r.op = "create", Serve(r)
    PROVE  /\ ServerSound
           /\ nextId' = nextId + 1
           /\ DOMAIN accounts' = DOMAIN accounts \cup {nextId}
           /\ accounts'[nextId] = NewAccount(r)
           /\ Usable(NewAccount(r), r.login.qq, r.user)
           /\ \A id \in DOMAIN accounts : accounts'[id] = accounts[id]
<1>1. /\ accounts' = [id \in DOMAIN accounts \cup {nextId} |->
                        IF id = nextId THEN NewAccount(r) ELSE accounts[id]]
      /\ nextId' = nextId + 1
  BY DEF Serve
<1>2. /\ nextId \in Nat \ {0} /\ DOMAIN accounts \subseteq 1 .. nextId - 1
      /\ nextId \notin DOMAIN accounts
      /\ \A id \in DOMAIN accounts : accounts[id] \in Accounts
  BY DEF ListOK
<1>3. /\ DOMAIN accounts' = DOMAIN accounts \cup {nextId}
      /\ accounts'[nextId] = NewAccount(r)
      /\ \A id \in DOMAIN accounts : accounts'[id] = accounts[id]
  BY <1>1, <1>2
<1>4. r.login \in Logins /\ r.user \in Users /\ r.user = User[r.login.helper] /\ r.login.qq \in AllQQs
  BY DEF Proper, Requests, Logins
<1>5. NewAccount(r) \in Accounts
  BY <1>4 DEF NewAccount, Accounts
<1>6. Usable(NewAccount(r), r.login.qq, r.user)
  BY DEF NewAccount, Usable
<1>7. ListOK'
  <2>1. \A id \in DOMAIN accounts' : accounts'[id] \in Accounts
    BY <1>2, <1>3, <1>5
  <2>2. accounts' \in [DOMAIN accounts' -> Accounts]
    BY <1>1, <2>1
  <2>3. DOMAIN accounts' \subseteq 1 .. nextId' - 1
    BY <1>1, <1>2, <1>3
  <2> QED
    BY <1>1, <1>2, <2>2, <2>3 DEF ListOK
<1>8. WritesToOwnAccount'
  <2>1. NewAccount(r).login = r.login /\ NewAccount(r).gids = {}
    BY DEF NewAccount
  <2> QED
    BY <1>3, <1>4, <1>6, <2>1 DEF WritesToOwnAccount
<1>9. AccountsStay
  BY <1>1, <1>2, <1>3 DEF AccountsStay
<1> QED
  BY <1>1, <1>3, <1>6, <1>7, <1>8, <1>9 DEF ServerSound

\* A request about an account changes that one only, and keeps whose it is.
LEMMA UpdateEffect ==
    ASSUME ListOK, WritesToOwnAccount, NEW r, Proper(r), r.op # "create", Serve(r)
    PROVE  /\ ServerSound
           /\ nextId' = nextId
           /\ DOMAIN accounts' = DOMAIN accounts
           /\ \A id \in DOMAIN accounts : id # r.id => accounts'[id] = accounts[id]
           /\ r.id \in DOMAIN accounts => accounts'[r.id] = Updated(accounts[r.id], r)
<1>1. /\ accounts' = [id \in DOMAIN accounts |->
                        IF id = r.id THEN Updated(accounts[id], r) ELSE accounts[id]]
      /\ nextId' = nextId
  BY DEF Serve
<1>2. /\ DOMAIN accounts' = DOMAIN accounts
      /\ \A id \in DOMAIN accounts : id # r.id => accounts'[id] = accounts[id]
      /\ r.id \in DOMAIN accounts => accounts'[r.id] = Updated(accounts[r.id], r)
  BY <1>1
<1>3. /\ r \in Requests /\ r.login \in Logins /\ r.login.qq \in AllQQs /\ r.gids \subseteq Gids
      /\ r.op \in {"update", "start", "remove", "add"}
      /\ r.user = User[r.login.helper]
  BY DEF Proper, Requests, Logins
<1>4. ASSUME r.id \in DOMAIN accounts
      PROVE  LET old == accounts[r.id]
                 new == Updated(old, r)
             IN  /\ new \in Accounts /\ new.owner = old.owner /\ new.qq = old.qq
                 /\ new.login # NoLogin => Usable(new, new.login.qq, User[new.login.helper])
                 /\ new.gids \subseteq {new.qq} \X Gids
  <2> DEFINE old == accounts[r.id]
             new == Updated(old, r)
  <2>1. /\ old \in Accounts
        /\ old.login # NoLogin => Usable(old, old.login.qq, User[old.login.helper])
        /\ old.gids \subseteq {old.qq} \X Gids
    BY <1>4 DEF ListOK, WritesToOwnAccount
  <2>2. Usable(old, r.login.qq, r.user)
    BY <1>4 DEF Proper, Belongs
  <2>3. new = CASE r.op = "update" -> [old EXCEPT !.login = r.login]
                [] r.op = "start"  -> [old EXCEPT !.started = TRUE]
                [] r.op = "remove" -> [old EXCEPT !.gids = {g \in @ : g[2] \notin r.gids}]
                [] r.op = "add"    -> [old EXCEPT !.gids = @ \cup ({r.login.qq} \X r.gids)]
    BY DEF Updated
  <2> HIDE DEF old, new
  <2>4. CASE r.op = "update"
    <3>1. new = [old EXCEPT !.login = r.login]
      BY <2>3, <2>4
    <3> QED
      BY <1>3, <2>1, <2>2, <3>1 DEF Accounts, Usable, old, new
  <2>5. CASE r.op = "start"
    <3>1. new = [old EXCEPT !.started = TRUE]
      BY <2>3, <2>5
    <3> QED
      BY <1>3, <2>1, <2>2, <3>1 DEF Accounts, Usable, old, new
  <2>6. CASE r.op = "remove"
    <3>1. new = [old EXCEPT !.gids = {g \in old.gids : g[2] \notin r.gids}]
      BY <2>3, <2>6
    <3> QED
      BY <1>3, <2>1, <2>2, <3>1 DEF Accounts, Usable, old, new
  <2>7. CASE r.op = "add"
    <3>1. new = [old EXCEPT !.gids = old.gids \cup ({r.login.qq} \X r.gids)]
      BY <2>3, <2>7
    <3>2. old.qq = r.login.qq
      BY <2>2 DEF Usable
    <3> QED
      BY <1>3, <2>1, <2>2, <3>1, <3>2 DEF Accounts, Usable, old, new
  <2> QED
    BY <1>3, <2>4, <2>5, <2>6, <2>7
<1>5. ListOK'
  <2>1. \A id \in DOMAIN accounts' : accounts'[id] \in Accounts
    BY <1>2, <1>4 DEF ListOK
  <2>2. accounts' \in [DOMAIN accounts' -> Accounts]
    BY <1>1, <2>1
  <2> QED
    BY <1>1, <1>2, <2>2 DEF ListOK
<1>6. WritesToOwnAccount'
  BY <1>2, <1>4 DEF WritesToOwnAccount
<1>7. AccountsStay
  BY <1>1, <1>2, <1>4 DEF AccountsStay, ListOK
<1> QED
  BY <1>1, <1>2, <1>5, <1>6, <1>7 DEF ServerSound

\* A request as Answered and Refused have it: served or lost, or left behind.
ServerStep(r) ==
    \/ Serve(r) /\ UNCHANGED <<late, delayed>>
    \/ UNCHANGED <<accounts, nextId, late, delayed>>
    \/ late' = late \cup {r} /\ delayed' = TRUE /\ UNCHANGED <<accounts, nextId>>

LateOK == (\A r \in late : Proper(r)) /\ delayed \in BOOLEAN /\ (late # {} => delayed)

LEMMA AnswersAreSteps ==
    ASSUME NEW r, Answered(r) \/ Refused(r) \/ ServerUnchanged
    PROVE  ServerStep(r)
BY DEF Answered, Refused, ServerUnchanged, ServerStep

LEMMA ProperStays ==
    ASSUME ListOK, ServerSound, NEW r, Proper(r)
    PROVE  /\ r \in Requests /\ r.user = User[r.login.helper]
           /\ r.op # "create" =>
                /\ r.id \in 1 .. nextId' - 1
                /\ r.id \in DOMAIN accounts' => Usable(accounts'[r.id], r.login.qq, r.user)
BY AddressKept DEF Proper

LEMMA StepEffect ==
    ASSUME ListOK, WritesToOwnAccount, LateOK, NEW r, Proper(r), ServerStep(r)
    PROVE  ServerSound /\ LateOK'
<1>1. ServerSound
  BY ServerIdle, CreateEffect, UpdateEffect DEF ServerStep
<1>2. (late' = late /\ delayed' = delayed) \/ (late' = late \cup {r} /\ delayed' = TRUE)
  BY DEF ServerStep
<1>3. \A q \in late' : q \in late \/ q = r
  BY <1>2
<1>4. \A q \in late' : Proper(q)
  BY <1>3 DEF LateOK
<1>5. \A q \in late' : Proper(q)'
  BY <1>1, <1>4, ProperStays DEF Proper, Belongs
<1> QED
  BY <1>1, <1>2, <1>5 DEF LateOK

-----------------------------------------------------------------------------
(* The exchanges                                                            *)

LEMMA QQIsKnown ==
    ASSUME NEW h \in Helpers
    PROVE  User[h] \in Users /\ QQs[h] \subseteq AllQQs
BY ServerConstants

\* Whoever writes, writes in its own name to an account that belongs to it.
LEMMA RequestIsProper ==
    ASSUME NEW h \in Helpers, SoundExchange(h), sync[h].pc \in Writing
    PROVE  Proper(Request(h))
<1> DEFINE e == sync[h]
           r == Request(h)
<1>1. e \in Exchange /\ e.qq \in QQs[h] /\ e.pc \in {"post", "start", "remove", "add"}
  BY DEF SoundExchange, Writing
<1>2. User[h] \in Users /\ e.qq \in AllQQs
  BY <1>1, QQIsKnown
<1>3. e.n \in Nat /\ e.id \in Nat /\ e.capture.friends \subseteq Gids
  BY <1>1 DEF Exchange
<1>4. r.op = CASE e.pc = "post" -> IF e.id = NoAccount THEN "create" ELSE "update"
               [] OTHER -> e.pc
  BY DEF Request
<1>5. /\ r.op \in {"create", "update", "start", "remove", "add"}
      /\ r.op # "create" => (e.pc = "post" => e.id # NoAccount)
  BY <1>1, <1>4
<1>6. r.user = User[h] /\ r.login = Login(h) /\ r.id = e.id
  BY DEF Request
<1>7. r.gids \subseteq Gids
  <2>1. e.qq \in Gids
    BY <1>2 DEF Gids
  <2>2. r.gids = CASE e.pc = "remove" -> {e.qq} [] e.pc = "add" -> Friends(h) [] OTHER -> {}
    BY DEF Request
  <2>3. Friends(h) \subseteq Gids
    BY <1>3 DEF Friends
  <2> QED
    BY <1>1, <2>1, <2>2, <2>3
<1>8. Login(h) \in Logins /\ Login(h).helper = h /\ Login(h).qq = e.qq
  BY <1>2, <1>3 DEF Login, Logins
<1>9. r \in Requests
  <2>1. r = [op |-> r.op, user |-> r.user, login |-> r.login, id |-> r.id, gids |-> r.gids]
    BY DEF Request
  <2> HIDE DEF r, e
  <2> QED
    BY <1>2, <1>3, <1>5, <1>6, <1>7, <1>8, <2>1 DEF Requests
<1>10. r.op # "create" => Belongs(r.id, r.login.qq, r.user)
  <2>1. r.op # "create" => Addressed(e)
    BY <1>1, <1>5 DEF Addressed
  <2>2. Addressed(e) => Belongs(e.id, e.qq, User[h])
    BY DEF SoundExchange
  <2> HIDE DEF r, e
  <2> QED
    BY <1>6, <1>8, <2>1, <2>2
<1> QED
  BY <1>6, <1>8, <1>9, <1>10 DEF Proper

LEMMA OthersStaySound ==
    ASSUME ListOK, ServerSound, NEW g \in Helpers, SoundExchange(g), sync'[g] = sync[g]
    PROVE  SoundExchange(g)'
<1>1. Addressed(sync[g]) =>
          /\ sync[g].id \in 1 .. nextId' - 1
          /\ sync[g].id \in DOMAIN accounts' => Usable(accounts'[sync[g].id], sync[g].qq, User[g])
  BY AddressKept DEF SoundExchange
<1> QED
  BY <1>1 DEF SoundExchange, Addressed, Belongs

\* What the state of an exchange has to be after a step.
SoundAfter(h, e) ==
    /\ e \in Exchange
    /\ e.pc # "idle" => e.qq \in QQs[h]
    /\ Addressed(e) =>
          /\ e.id \in 1 .. nextId' - 1
          /\ e.id \in DOMAIN accounts' => Usable(accounts'[e.id], e.qq, User[h])
    /\ e.removed => e.pc \in {"add", "completed", "failed"}
    /\ e.added => e.pc = "completed"

LEMMA MoveKeepsInv ==
    ASSUME ServerInv, NEW h \in Helpers, NEW e, Becomes(h, e), SoundAfter(h, e),
           ServerSound, LateOK'
    PROVE  ServerInv' /\ sync'[h] = e /\ \A g \in Helpers : g # h => sync'[g] = sync[g]
<1>1. DOMAIN sync = Helpers
  BY DEF ServerInv
<1>2. DOMAIN sync' = Helpers /\ sync'[h] = e /\ \A g \in Helpers : g # h => sync'[g] = sync[g]
  BY <1>1 DEF Becomes
<1>3. SoundExchange(h)'
  BY <1>2 DEF SoundExchange, SoundAfter, Addressed, Belongs
<1>4. \A g \in Helpers : g # h => SoundExchange(g)'
  BY <1>2, OthersStaySound DEF ServerInv
<1>5. \A g \in Helpers : SoundExchange(g)'
  BY <1>3, <1>4
<1> QED
  BY <1>2, <1>5 DEF ServerInv, ServerSound, LateOK

\* The step of an exchange that only changes its pc.
LEMMA GoesKeepsInv ==
    ASSUME ServerInv, NEW h \in Helpers, sync[h].pc \in Running, NEW pc \in Running \cup Ended,
           Goes(h, pc), pc \notin {"idle", "post"}, ServerSound, LateOK',
           pc \in {"start", "poll", "remove", "add", "completed", "start_failed"} =>
               sync[h].pc \in {"start", "poll", "remove", "add"},
           sync[h].removed => pc \in {"add", "completed", "failed"}
    PROVE  /\ ServerInv'
           /\ sync'[h] = [sync[h] EXCEPT !.pc = pc]
           /\ \A g \in Helpers : g # h => sync'[g] = sync[g]
<1> DEFINE old == sync[h]
           e == [sync[h] EXCEPT !.pc = pc]
<1>1. SoundExchange(h) /\ ListOK /\ old \in Exchange
  BY DEF ServerInv, SoundExchange
<1>2. /\ e \in Exchange /\ e.pc = pc /\ e.qq = old.qq /\ e.id = old.id
      /\ e.removed = old.removed /\ e.added = old.added
  BY <1>1 DEF Exchange
<1>3. e.qq \in QQs[h] /\ ~old.added
  BY <1>1, <1>2 DEF SoundExchange, Running
<1>4. Addressed(e) =>
          /\ e.id \in 1 .. nextId' - 1
          /\ e.id \in DOMAIN accounts' => Usable(accounts'[e.id], e.qq, User[h])
  <2> HIDE DEF e
  <2>1. Addressed(e) => Addressed(old)
    BY <1>2 DEF Addressed
  <2>2. Addressed(old) => Belongs(old.id, old.qq, User[h])
    BY <1>1 DEF SoundExchange
  <2> QED
    BY <1>1, <1>2, <2>1, <2>2, AddressKept
<1>5. SoundAfter(h, e)
  <2> HIDE DEF e
  <2> QED
    BY <1>2, <1>3, <1>4 DEF SoundAfter
<1>6. Becomes(h, e)
  BY DEF Goes
<1> HIDE DEF e
<1>7. ServerInv' /\ sync'[h] = e /\ \A g \in Helpers : g # h => sync'[g] = sync[g]
  BY <1>5, <1>6, MoveKeepsInv
<1> QED
  BY <1>7 DEF e

LEMMA ServerStays ==
    ASSUME ServerInv, ServerUnchanged
    PROVE  ServerSound /\ LateOK'
<1>1. ServerSound
  BY ServerIdle DEF ServerInv, ServerUnchanged
<1>2. \A r \in late : Proper(r)'
  BY <1>1, ProperStays DEF ServerInv, Proper, Belongs
<1> QED
  BY <1>1, <1>2 DEF ServerInv, ServerUnchanged, LateOK

LEMMA RequestEffect ==
    ASSUME ServerInv, NEW h \in Helpers, sync[h].pc \in Writing, ServerStep(Request(h))
    PROVE  ServerSound /\ LateOK'
<1>1. Proper(Request(h))
  BY RequestIsProper DEF ServerInv
<1> QED
  BY <1>1, StepEffect DEF ServerInv, LateOK

-----------------------------------------------------------------------------
(* The invariant is preserved                                               *)

LEMMA ServerInit == Init => ServerInv
<1> SUFFICES ASSUME Init PROVE ServerInv
  OBVIOUS
<1>1. PICK list \in InitialLists : accounts = list
  BY DEF Init
<1>2. /\ accounts \in Seq(Accounts)
      /\ \A account \in Range(accounts) :
            account.login = NoLogin /\ account.gids \subseteq {account.qq} \X Gids
  BY <1>1, ServerConstants
<1>3. /\ DOMAIN accounts = 1 .. Len(accounts) /\ Len(accounts) \in Nat
      /\ accounts \in [1 .. Len(accounts) -> Accounts]
  BY <1>2, LenProperties
<1>4. nextId = 1 + Len(accounts)
  <2>1. Cardinality(1 .. Len(accounts)) = Len(accounts)
    BY <1>3, FS_Interval
  <2> QED
    BY <1>3, <2>1 DEF Init
<1>5. ListOK
  BY <1>3, <1>4 DEF ListOK
<1>6. WritesToOwnAccount
  <2>1. \A id \in DOMAIN accounts : accounts[id] \in Range(accounts)
    BY DEF Range
  <2> QED
    BY <1>2, <2>1 DEF WritesToOwnAccount
<1>7. \A h \in Helpers : SoundExchange(h)
  <2> TAKE h \in Helpers
  <2>1. sync[h] = Idle
    BY DEF Init
  <2>2. Idle \in Exchange /\ Idle.pc = "idle" /\ ~Idle.removed /\ ~Idle.added
    BY DEF Idle, Exchange, Running, Ended, NoAccount
  <2> QED
    BY <2>1, <2>2 DEF SoundExchange, Addressed
<1> QED
  BY <1>5, <1>6, <1>7 DEF Init, ServerInv

LEMMA BegunExchange ==
    ASSUME NEW e \in Exchange, NEW pc \in Running \cup Ended, NEW n \in Nat, NEW qq \in AllQQs,
           NEW capture \in [own : BOOLEAN, friends : SUBSET Gids]
    PROVE  [e EXCEPT !.pc = pc, !.n = n, !.qq = qq, !.capture = capture] \in Exchange
<1> DEFINE Captured == [own : BOOLEAN, friends : SUBSET Gids]
           Pcs == Running \cup Ended
<1>1. capture \in Captured /\ pc \in Pcs
  OBVIOUS
<1>2. Exchange = [pc : Pcs, n : Nat, qq : AllQQs \cup {NoOne}, capture : Captured,
                  id : Nat, polls : Nat, removed : BOOLEAN, added : BOOLEAN]
  BY DEF Exchange
<1> HIDE DEF Captured, Pcs
<1> QED
  BY <1>1, <1>2

LEMMA BeginKeepsInv ==
    ASSUME ServerInv, NEW h \in Helpers, Begin(h)
    PROVE  /\ ServerInv' /\ sync'[h].pc = "me" /\ ~sync'[h].removed /\ ~sync'[h].added
           /\ \A g \in Helpers : g # h => sync'[g] = sync[g]
<1>1. PICK qq \in QQs[h], capture \in Captures[h] :
          Becomes(h, [Idle EXCEPT !.pc = "me", !.n = sync[h].n + 1, !.qq = qq, !.capture = capture])
  BY DEF Begin
<1> DEFINE e == [Idle EXCEPT !.pc = "me", !.n = sync[h].n + 1, !.qq = qq, !.capture = capture]
<1>2. sync[h].n \in Nat /\ qq \in AllQQs
  BY QQIsKnown DEF ServerInv, SoundExchange, Exchange
<1>3. capture \in [own : BOOLEAN, friends : SUBSET Gids]
  BY ServerConstants
<1>4. e.pc = "me" /\ e.qq = qq /\ ~e.removed /\ ~e.added
  BY DEF Idle
<1>5. e \in Exchange
  <2>1. Idle \in Exchange
    BY DEF Idle, Exchange, Ended, NoAccount
  <2>2. sync[h].n + 1 \in Nat /\ "me" \in Running \cup Ended
    BY <1>2 DEF Running
  <2> QED
    BY <1>2, <1>3, <2>1, <2>2, BegunExchange
<1> HIDE DEF e
<1>6. SoundAfter(h, e)
  BY <1>4, <1>5 DEF SoundAfter, Addressed
<1>7. ServerUnchanged
  BY DEF Begin
<1>8. Becomes(h, e)
  BY <1>1 DEF e
<1> QED
  BY <1>4, <1>6, <1>7, <1>8, ServerStays, MoveKeepsInv

LEMMA ReadAccountsKeepsInv ==
    ASSUME ServerInv, NEW h \in Helpers, sync[h].pc = "list", ServerUnchanged,
           Becomes(h, [sync[h] EXCEPT !.pc = "post", !.id = Existing(h)])
    PROVE  /\ ServerInv'
           /\ sync'[h].pc = "post" /\ sync'[h].qq = sync[h].qq /\ sync'[h].id = Existing(h)
           /\ \A g \in Helpers : g # h => sync'[g] = sync[g]
<1> DEFINE old == sync[h]
           e == [sync[h] EXCEPT !.pc = "post", !.id = Existing(h)]
<1>1. SoundExchange(h) /\ ListOK /\ old \in Exchange
  BY DEF ServerInv, SoundExchange
<1>2. /\ Existing(h) \in Nat
      /\ Existing(h) # NoAccount =>
            Existing(h) \in DOMAIN accounts /\ Usable(accounts[Existing(h)], old.qq, User[h])
  BY <1>1, ExistingFinds
<1>3. /\ e \in Exchange /\ e.pc = "post" /\ e.qq = old.qq /\ e.id = Existing(h)
      /\ e.removed = old.removed /\ e.added = old.added
  BY <1>1, <1>2 DEF Exchange, Running
<1>4. e.qq \in QQs[h] /\ ~old.added /\ ~old.removed
  BY <1>1, <1>3 DEF SoundExchange
<1>5. Addressed(e) =>
          /\ e.id \in 1 .. nextId' - 1
          /\ e.id \in DOMAIN accounts' => Usable(accounts'[e.id], e.qq, User[h])
  <2> HIDE DEF e
  <2>1. Addressed(e) => Existing(h) # NoAccount
    BY <1>3 DEF Addressed
  <2>2. UNCHANGED <<accounts, nextId>>
    BY DEF ServerUnchanged
  <2> QED
    BY <1>1, <1>2, <1>3, <2>1, <2>2 DEF ListOK
<1> HIDE DEF e
<1>6. SoundAfter(h, e)
  BY <1>3, <1>4, <1>5 DEF SoundAfter
<1>7. Becomes(h, e)
  BY DEF e
<1> QED
  BY <1>3, <1>6, <1>7, ServerStays, MoveKeepsInv

\* The answer to the Code: the account is that of the Code.
LEMMA CodeAnswered ==
    ASSUME ServerInv, NEW h \in Helpers, sync[h].pc = "post", Answered(Request(h)),
           Becomes(h, [sync[h] EXCEPT !.pc = "start",
                                      !.id = IF @ = NoAccount THEN Newest(accounts') ELSE @])
    PROVE  /\ ServerInv'
           /\ sync'[h] = [sync[h] EXCEPT !.pc = "start",
                                         !.id = IF sync[h].id = NoAccount THEN nextId ELSE sync[h].id]
           /\ \A g \in Helpers : g # h => sync'[g] = sync[g]
<1> DEFINE old == sync[h]
           id == IF old.id = NoAccount THEN nextId ELSE old.id
           e == [sync[h] EXCEPT !.pc = "start", !.id = id]
           r == Request(h)
<1>1. SoundExchange(h) /\ ListOK /\ old \in Exchange /\ WritesToOwnAccount
  BY DEF ServerInv, SoundExchange
<1>2. Proper(r) /\ Serve(r)
  BY RequestIsProper DEF ServerInv, Writing, Answered
<1>3. ServerSound /\ LateOK'
  BY AnswersAreSteps, RequestEffect DEF Writing
<1>4. /\ r.op = IF old.id = NoAccount THEN "create" ELSE "update"
      /\ r.login.qq = old.qq /\ r.user = User[h] /\ r.id = old.id
  BY DEF Request, Login
<1>5. id \in Nat /\ nextId \in Nat \ {0}
  BY <1>1 DEF ListOK, Exchange
<1>6. /\ id \in 1 .. nextId' - 1
      /\ id \in DOMAIN accounts' => Usable(accounts'[id], old.qq, User[h])
  <2>1. CASE old.id = NoAccount
    <3>1. /\ nextId' = nextId + 1 /\ accounts'[nextId] = NewAccount(r)
          /\ Usable(NewAccount(r), r.login.qq, r.user)
      BY <1>1, <1>2, <1>4, <2>1, CreateEffect
    <3> QED
      BY <1>4, <1>5, <2>1, <3>1
  <2>2. CASE old.id # NoAccount
    <3>1. Belongs(old.id, old.qq, User[h])
      BY <1>1, <2>2 DEF SoundExchange, Addressed
    <3> QED
      BY <1>1, <1>3, <2>2, <3>1, AddressKept
  <2> QED
    BY <2>1, <2>2
<1>7. old.id = NoAccount => Newest(accounts') = nextId
  <2> SUFFICES ASSUME old.id = NoAccount PROVE Newest(accounts') = nextId
    OBVIOUS
  <2>1. nextId' = nextId + 1 /\ DOMAIN accounts' = DOMAIN accounts \cup {nextId}
    BY <1>1, <1>2, <1>4, CreateEffect
  <2>2. nextId \in DOMAIN accounts' /\ DOMAIN accounts' \subseteq 1 .. nextId
    BY <1>1, <1>5, <2>1 DEF ListOK
  <2> QED
    BY <1>5, <2>2, NewestIsCreated
<1>8. /\ e \in Exchange /\ e.pc = "start" /\ e.qq = old.qq /\ e.id = id
      /\ e.removed = old.removed /\ e.added = old.added
  <2> HIDE DEF id
  <2> QED
    BY <1>1, <1>5 DEF Exchange, Running
<1>9. e.qq \in QQs[h] /\ ~old.added /\ ~old.removed
  BY <1>1, <1>8 DEF SoundExchange
<1>10. Becomes(h, e)
  BY <1>7
<1>11. SoundAfter(h, e)
  <2> HIDE DEF e, id
  <2> QED
    BY <1>6, <1>8, <1>9 DEF SoundAfter
<1>12. ServerInv' /\ sync'[h] = e /\ \A g \in Helpers : g # h => sync'[g] = sync[g]
  <2> HIDE DEF e
  <2> QED
    BY <1>3, <1>10, <1>11, MoveKeepsInv
<1> QED
  BY <1>12

\* The steps that keep the id that the exchange has: what they change besides the pc.
LEMMA FlagsKeepInv ==
    ASSUME ServerInv, NEW h \in Helpers, sync[h].pc \in {"poll", "remove", "add"},
           ServerSound, LateOK', NEW e \in Exchange, Becomes(h, e),
           e.pc \in {"poll", "add", "completed"},
           e.qq = sync[h].qq, e.id = sync[h].id,
           e.removed => e.pc \in {"add", "completed"}, e.added => e.pc = "completed"
    PROVE  ServerInv' /\ sync'[h] = e /\ \A g \in Helpers : g # h => sync'[g] = sync[g]
<1>1. SoundExchange(h) /\ ListOK
  BY DEF ServerInv
<1>2. e.qq \in QQs[h] /\ Belongs(e.id, e.qq, User[h])
  BY <1>1 DEF SoundExchange, Addressed
<1>3. /\ e.id \in 1 .. nextId' - 1
      /\ e.id \in DOMAIN accounts' => Usable(accounts'[e.id], e.qq, User[h])
  BY <1>1, <1>2, AddressKept
<1>4. SoundAfter(h, e)
  BY <1>2, <1>3 DEF SoundAfter
<1> QED
  BY <1>4, MoveKeepsInv

\* The exchange fails, with its last request in whatever state.
LEMMA FailureKeepsInv ==
    ASSUME ServerInv, NEW h \in Helpers, Goes(h, "failed"), sync[h].pc \in Running,
           ServerUnchanged \/ (sync[h].pc \in Writing /\ Refused(Request(h)))
    PROVE  /\ ServerInv' /\ sync'[h] = [sync[h] EXCEPT !.pc = "failed"]
           /\ \A g \in Helpers : g # h => sync'[g] = sync[g]
<1>1. ServerSound /\ LateOK'
  BY ServerStays, AnswersAreSteps, RequestEffect
<1>2. "failed" \in Running \cup Ended
  BY DEF Ended
<1> QED
  BY <1>1, <1>2, GoesKeepsInv

LEMMA PollKeepsInv ==
    ASSUME ServerInv, NEW h \in Helpers, sync[h].pc = "poll", ServerUnchanged,
           \/ Goes(h, AfterSync(h))
           \/ Becomes(h, [sync[h] EXCEPT !.polls = @ + 1])
    PROVE  /\ ServerInv'
           /\ sync'[h].pc \in {"poll", "remove", "completed"} /\ ~sync'[h].removed /\ ~sync'[h].added
           /\ sync'[h].id = sync[h].id /\ sync'[h].qq = sync[h].qq /\ sync'[h].n = sync[h].n
           /\ \A g \in Helpers : g # h => sync'[g] = sync[g]
<1>1. ServerSound /\ LateOK'
  BY ServerStays
<1>2. sync[h] \in Exchange /\ ~sync[h].removed /\ ~sync[h].added
  BY DEF ServerInv, SoundExchange
<1>3. CASE Goes(h, AfterSync(h))
  <2>1. AfterSync(h) \in {"remove", "completed"} /\ AfterSync(h) \in Running \cup Ended
    BY DEF AfterSync, Running, Ended
  <2>2. /\ ServerInv'
        /\ sync'[h] = [sync[h] EXCEPT !.pc = AfterSync(h)]
        /\ \A g \in Helpers : g # h => sync'[g] = sync[g]
    BY <1>1, <1>2, <1>3, <2>1, GoesKeepsInv DEF Running
  <2> QED
    BY <1>2, <2>1, <2>2 DEF Exchange
<1>4. CASE Becomes(h, [sync[h] EXCEPT !.polls = @ + 1])
  <2> DEFINE e == [sync[h] EXCEPT !.polls = @ + 1]
  <2>1. /\ e \in Exchange /\ e.pc = "poll" /\ e.qq = sync[h].qq /\ e.id = sync[h].id
        /\ e.n = sync[h].n /\ ~e.removed /\ ~e.added
    BY <1>2 DEF Exchange
  <2>2. Becomes(h, e)
    BY <1>4
  <2> HIDE DEF e
  <2> QED
    BY <1>1, <2>1, <2>2, FlagsKeepInv
<1> QED
  BY <1>3, <1>4

LEMMA StartKeepsInv ==
    ASSUME ServerInv, NEW h \in Helpers, sync[h].pc = "start",
           \/ Answered(Request(h)) /\ Goes(h, "poll")
           \/ Refused(Request(h)) /\ Goes(h, "start_failed")
    PROVE  /\ ServerInv'
           /\ \/ sync'[h] = [sync[h] EXCEPT !.pc = "poll"]
              \/ sync'[h] = [sync[h] EXCEPT !.pc = "start_failed"]
           /\ \A g \in Helpers : g # h => sync'[g] = sync[g]
<1>1. ServerSound /\ LateOK'
  BY AnswersAreSteps, RequestEffect DEF Writing
<1>2. "poll" \in Running \cup Ended /\ "start_failed" \in Running \cup Ended /\ "start" \in Running
  BY DEF Running, Ended
<1>3. ~sync[h].removed
  BY DEF ServerInv, SoundExchange
<1>4. CASE Goes(h, "poll")
  BY <1>1, <1>2, <1>3, <1>4, GoesKeepsInv
<1>5. CASE Goes(h, "start_failed")
  BY <1>1, <1>2, <1>3, <1>5, GoesKeepsInv
<1> QED
  BY <1>4, <1>5

\* The friend GIDs: removed and added are set by an answer.
LEMMA FriendsKeepInv ==
    ASSUME ServerInv, NEW h \in Helpers, RemoveOwn(h) \/ AddFriends(h)
    PROVE  /\ ServerInv'
           /\ sync'[h].pc \in {"add", "completed"}
           /\ sync'[h].id = sync[h].id /\ sync'[h].qq = sync[h].qq /\ sync'[h].n = sync[h].n
           /\ sync'[h].capture = sync[h].capture
           /\ sync'[h].removed => sync[h].removed \/ (sync[h].pc = "remove" /\ Answered(Request(h)))
           /\ sync'[h].added => sync[h].pc = "add" /\ Answered(Request(h))
           /\ \A g \in Helpers : g # h => sync'[g] = sync[g]
<1>1. /\ sync[h] \in Exchange /\ ~sync[h].added /\ sync[h].pc \in {"remove", "add"}
      /\ sync[h].pc = "remove" => ~sync[h].removed
  BY DEF ServerInv, SoundExchange, RemoveOwn, AddFriends
<1>2. ServerSound /\ LateOK'
  BY <1>1, ServerStays, AnswersAreSteps, RequestEffect DEF RemoveOwn, AddFriends, Writing
<1>3. {"add", "completed"} \subseteq Running \cup Ended
  BY DEF Running, Ended
<1>4. ASSUME NEW pc \in {"add", "completed"}, Goes(h, pc)
      PROVE  /\ ServerInv'
             /\ sync'[h].pc \in {"add", "completed"}
             /\ sync'[h].id = sync[h].id /\ sync'[h].qq = sync[h].qq /\ sync'[h].n = sync[h].n
             /\ sync'[h].capture = sync[h].capture
             /\ sync'[h].removed = sync[h].removed
             /\ ~sync'[h].added
             /\ \A g \in Helpers : g # h => sync'[g] = sync[g]
  <2>1. /\ ServerInv' /\ sync'[h] = [sync[h] EXCEPT !.pc = pc]
        /\ \A g \in Helpers : g # h => sync'[g] = sync[g]
    BY <1>1, <1>2, <1>3, <1>4, GoesKeepsInv DEF Running
  <2> QED
    BY <1>1, <2>1 DEF Exchange
<1>5. CASE Answered(Request(h)) /\ sync[h].pc = "remove"
           /\ Becomes(h, [sync[h] EXCEPT !.pc = "add", !.removed = TRUE])
  <2> DEFINE e == [sync[h] EXCEPT !.pc = "add", !.removed = TRUE]
  <2>1. /\ e \in Exchange /\ e.pc = "add" /\ e.qq = sync[h].qq /\ e.id = sync[h].id
        /\ e.n = sync[h].n /\ e.capture = sync[h].capture /\ e.removed /\ ~e.added
    BY <1>1, <1>3 DEF Exchange
  <2>2. Becomes(h, e)
    BY <1>5
  <2> HIDE DEF e
  <2>3. ServerInv' /\ sync'[h] = e /\ \A g \in Helpers : g # h => sync'[g] = sync[g]
    BY <1>1, <1>2, <2>1, <2>2, FlagsKeepInv
  <2> QED
    BY <1>5, <2>1, <2>3
<1>6. CASE Answered(Request(h)) /\ sync[h].pc = "add"
           /\ Becomes(h, [sync[h] EXCEPT !.pc = "completed", !.added = TRUE])
  <2> DEFINE e == [sync[h] EXCEPT !.pc = "completed", !.added = TRUE]
  <2>1. /\ e \in Exchange /\ e.pc = "completed" /\ e.qq = sync[h].qq /\ e.id = sync[h].id
        /\ e.n = sync[h].n /\ e.capture = sync[h].capture /\ e.removed = sync[h].removed /\ e.added
    BY <1>1, <1>3 DEF Exchange
  <2>2. Becomes(h, e)
    BY <1>6
  <2> HIDE DEF e
  <2>3. ServerInv' /\ sync'[h] = e /\ \A g \in Helpers : g # h => sync'[g] = sync[g]
    BY <1>1, <1>2, <2>1, <2>2, FlagsKeepInv
  <2> QED
    BY <1>6, <2>1, <2>3
<1> QED
  BY <1>4, <1>5, <1>6 DEF RemoveOwn, AddFriends

LEMMA ServerAloneKeepsInv ==
    ASSUME ServerInv, ServerSound, LateOK', UNCHANGED sync
    PROVE  ServerInv'
<1>1. \A h \in Helpers : SoundExchange(h)'
  BY OthersStaySound DEF ServerInv
<1> QED
  BY <1>1 DEF ServerInv, ServerSound, LateOK

LEMMA ServeLateKeepsInv ==
    ASSUME ServerInv, ServeLate
    PROVE  ServerInv'
<1>1. PICK r \in late :
          /\ late' = late \ {r}
          /\ Serve(r) \/ UNCHANGED <<accounts, nextId>>
          /\ UNCHANGED <<sync, delayed>>
  BY DEF ServeLate
<1>2. ServerSound
  BY <1>1, ServerIdle, CreateEffect, UpdateEffect DEF ServerInv
<1>3. \A q \in late' : Proper(q)'
  BY <1>1, <1>2, ProperStays DEF ServerInv, Proper, Belongs
<1>4. LateOK'
  BY <1>1, <1>3 DEF ServerInv, LateOK
<1> QED
  BY <1>1, <1>2, <1>4, ServerAloneKeepsInv

LEMMA DeleteKeepsInv ==
    ASSUME ServerInv, NEW id \in DOMAIN accounts, DeleteAccount(id)
    PROVE  /\ ServerInv' /\ DOMAIN accounts' \subseteq DOMAIN accounts
           /\ \A other \in DOMAIN accounts' : accounts'[other] = accounts[other]
<1>1. /\ accounts' = [other \in DOMAIN accounts \ {id} |-> accounts[other]]
      /\ UNCHANGED <<nextId, sync, late, delayed>>
  BY DEF DeleteAccount
<1>2. /\ DOMAIN accounts' \subseteq DOMAIN accounts
      /\ \A other \in DOMAIN accounts' : accounts'[other] = accounts[other]
  BY <1>1
<1>3. ListOK'
  <2>1. \A other \in DOMAIN accounts' : accounts'[other] \in Accounts
    BY <1>2 DEF ServerInv, ListOK
  <2>2. accounts' \in [DOMAIN accounts' -> Accounts]
    BY <1>1, <2>1
  <2> QED
    BY <1>1, <1>2, <2>2 DEF ServerInv, ListOK
<1>4. ServerSound
  <2>1. WritesToOwnAccount'
    BY <1>2 DEF ServerInv, WritesToOwnAccount
  <2>2. AccountsStay
    BY <1>1, <1>2 DEF ServerInv, ListOK, AccountsStay
  <2> QED
    BY <1>3, <2>1, <2>2 DEF ServerSound
<1>5. \A r \in late : Proper(r)'
  BY <1>4, ProperStays DEF ServerInv, Proper, Belongs
<1>6. LateOK'
  BY <1>1, <1>5 DEF ServerInv, LateOK
<1> QED
  BY <1>1, <1>2, <1>4, <1>6, ServerAloneKeepsInv

LEMMA HelperKeepsInv ==
    ASSUME ServerInv, NEW h \in Helpers, Begin(h) \/ HelperStep(h) \/ Abort(h)
    PROVE  ServerInv'
<1>1. CASE Begin(h)
  BY <1>1, BeginKeepsInv
<1>2. CASE ReadUser(h)
  <2>1. CASE Goes(h, "list")
    <3>1. ServerSound /\ LateOK' /\ ~sync[h].removed
      BY <1>2, ServerStays DEF ReadUser, ServerInv, SoundExchange
    <3> QED
      BY <1>2, <2>1, <3>1, GoesKeepsInv DEF ReadUser, Running
  <2>2. CASE Goes(h, "failed")
    BY <1>2, <2>2, FailureKeepsInv DEF ReadUser, Running
  <2> QED
    BY <1>2, <2>1, <2>2 DEF ReadUser
<1>3. CASE ReadAccounts(h)
  BY <1>3, ReadAccountsKeepsInv, FailureKeepsInv DEF ReadAccounts, Running
<1>4. CASE PostCode(h)
  BY <1>4, CodeAnswered, FailureKeepsInv DEF PostCode, Running, Writing
<1>5. CASE StartAccount(h)
  BY <1>5, StartKeepsInv DEF StartAccount
<1>6. CASE Poll(h)
  BY <1>6, PollKeepsInv, FailureKeepsInv DEF Poll, Running
<1>7. CASE RemoveOwn(h) \/ AddFriends(h)
  BY <1>7, FriendsKeepInv
<1>8. CASE Abort(h)
  BY <1>8, FailureKeepsInv DEF Abort
<1> QED
  BY <1>1, <1>2, <1>3, <1>4, <1>5, <1>6, <1>7, <1>8 DEF HelperStep

LEMMA ServerNext == ServerInv /\ [Next]_vars => ServerInv'
<1> SUFFICES ASSUME ServerInv, [Next]_vars PROVE ServerInv'
  OBVIOUS
<1>1. CASE \E h \in Helpers : Begin(h) \/ HelperStep(h) \/ Abort(h)
  BY <1>1, HelperKeepsInv
<1>2. CASE ServeLate
  BY <1>2, ServeLateKeepsInv
<1>3. CASE \E id \in DOMAIN accounts : DeleteAccount(id)
  BY <1>3, DeleteKeepsInv
<1>4. CASE UNCHANGED vars
  <2>1. ServerUnchanged /\ UNCHANGED sync
    BY <1>4 DEF vars, ServerUnchanged
  <2> QED
    BY <2>1, ServerStays, ServerAloneKeepsInv
<1> QED
  BY <1>1, <1>2, <1>3, <1>4 DEF Next

-----------------------------------------------------------------------------
(* The theorems                                                             *)

THEOREM ServerInvariant == Spec => []ServerInv
BY ServerInit, ServerNext, PTL DEF Spec

\* Whatever is refused, lost or late, however many helpers share the server, and whichever
\* accounts are deleted: sync_code and the friend GIDs write to no account of another user
\* or of another QQ account.
THEOREM OwnAccountsOnly == Spec => []WritesToOwnAccount
<1>1. ServerInv => WritesToOwnAccount
  BY DEF ServerInv
<1> QED
  BY ServerInvariant, <1>1, PTL

-----------------------------------------------------------------------------
(* The Code goes to the earliest account                                    *)

\* What a step of a helper does to the server and to the other exchanges.
LEMMA HelperStepShape ==
    ASSUME ServerInv, NEW h \in Helpers, Begin(h) \/ HelperStep(h) \/ Abort(h)
    PROVE  /\ \A g \in Helpers : g # h => sync'[g] = sync[g]
           /\ \/ ServerUnchanged
              \/ sync[h].pc \in Writing /\ ServerStep(Request(h))
           /\ sync'[h].pc = "post" =>
                ServerUnchanged /\ sync'[h].qq = sync[h].qq /\ sync'[h].id = Existing(h)
<1>1. /\ DOMAIN sync = Helpers
      /\ \A pc : Goes(h, pc) => sync'[h].pc = pc /\ \A g \in Helpers : g # h => sync'[g] = sync[g]
  <2>1. DOMAIN sync = Helpers /\ sync[h] \in Exchange
    BY DEF ServerInv, SoundExchange
  <2> QED
    BY <2>1 DEF Goes, Becomes, Exchange
<1>2. CASE Begin(h)
  BY <1>2, BeginKeepsInv DEF Begin
<1>3. CASE ReadUser(h)
  BY <1>1, <1>3 DEF ReadUser
<1>4. CASE ReadAccounts(h)
  <2>1. sync[h].pc = "list" /\ ServerUnchanged
    BY <1>4 DEF ReadAccounts
  <2>2. CASE Goes(h, "failed")
    BY <1>1, <2>1, <2>2
  <2>3. CASE ~Goes(h, "failed")
    BY <1>4, <2>1, <2>3, ReadAccountsKeepsInv DEF ReadAccounts
  <2> QED
    BY <2>2, <2>3
<1>5. CASE PostCode(h)
  <2>1. sync[h].pc \in Writing /\ ServerStep(Request(h))
    BY <1>5, AnswersAreSteps DEF PostCode, Writing
  <2>2. CASE Goes(h, "failed")
    BY <1>1, <2>1, <2>2
  <2>3. CASE ~Goes(h, "failed")
    <3>1. /\ sync'[h] = [sync[h] EXCEPT !.pc = "start",
                                        !.id = IF sync[h].id = NoAccount THEN nextId ELSE sync[h].id]
          /\ \A g \in Helpers : g # h => sync'[g] = sync[g]
      BY <1>5, <2>3, CodeAnswered DEF PostCode
    <3>2. sync'[h].pc = "start"
      BY <3>1 DEF ServerInv, SoundExchange, Exchange
    <3> QED
      BY <2>1, <3>1, <3>2
  <2> QED
    BY <2>2, <2>3
<1>6. CASE StartAccount(h)
  <2>1. sync[h].pc \in Writing /\ ServerStep(Request(h))
    BY <1>6, AnswersAreSteps DEF StartAccount, Writing
  <2> QED
    BY <1>1, <1>6, <2>1 DEF StartAccount
<1>7. CASE Poll(h)
  <2>1. CASE Goes(h, "failed")
    BY <1>1, <1>7, <2>1 DEF Poll
  <2>2. CASE ~Goes(h, "failed")
    BY <1>7, <2>2, PollKeepsInv DEF Poll
  <2> QED
    BY <2>1, <2>2
<1>8. CASE RemoveOwn(h) \/ AddFriends(h)
  <2>1. ServerUnchanged \/ (sync[h].pc \in Writing /\ ServerStep(Request(h)))
    BY <1>8, AnswersAreSteps DEF RemoveOwn, AddFriends, Writing
  <2> QED
    BY <1>8, <2>1, FriendsKeepInv
<1>9. CASE Abort(h)
  BY <1>1, <1>9, AnswersAreSteps DEF Abort
<1> QED
  BY <1>2, <1>3, <1>4, <1>5, <1>6, <1>7, <1>8, <1>9 DEF HelperStep

LEMMA ServerStepSound ==
    ASSUME ServerInv, NEW h \in Helpers,
           ServerUnchanged \/ (sync[h].pc \in Writing /\ ServerStep(Request(h)))
    PROVE  ServerSound /\ LateOK'
BY ServerStays, RequestEffect

\* A helper creates no account that another helper's exchange could use.
LEMMA OthersAccountsStay ==
    ASSUME ServerInv, NEW g \in Helpers, NEW h \in Helpers, g # h, sync[g].pc # "idle",
           ServerUnchanged \/ (sync[h].pc \in Writing /\ ServerStep(Request(h))),
           NEW other \in DOMAIN accounts', Usable(accounts'[other], sync[g].qq, User[g])
    PROVE  other \in DOMAIN accounts
<1> SUFFICES ASSUME other \notin DOMAIN accounts PROVE FALSE
  OBVIOUS
<1> DEFINE r == Request(h)
<1>1. sync[h].pc \in Writing /\ ServerStep(r)
  BY DEF ServerUnchanged
<1>2. Proper(r) /\ ListOK /\ WritesToOwnAccount
  BY <1>1, RequestIsProper DEF ServerInv
<1>3. Serve(r)
  BY <1>1 DEF ServerStep
<1>4. r.op = "create"
  <2> SUFFICES ASSUME r.op # "create" PROVE FALSE
    OBVIOUS
  <2>1. DOMAIN accounts' = DOMAIN accounts
    BY <1>2, <1>3, UpdateEffect
  <2> QED
    BY <2>1
<1>5. other = nextId /\ accounts'[nextId] = NewAccount(r)
  BY <1>2, <1>3, <1>4, CreateEffect
<1>6. r.user = User[h] /\ r.login.qq = sync[h].qq
  BY DEF Request, Login
<1>7. accounts'[other].owner = User[h] /\ accounts'[other].qq = sync[h].qq
  BY <1>5, <1>6 DEF NewAccount
<1>8. sync[h].qq = sync[g].qq /\ User[h] = User[g]
  <2>1. User[h] # NoOne
    BY QQIsKnown, ServerConstants
  <2> QED
    BY <1>7, <2>1 DEF Usable
<1>9. sync[h].qq \in QQs[h] /\ sync[g].qq \in QQs[g]
  BY <1>1 DEF ServerInv, SoundExchange, Writing
<1> QED
  BY <1>8, <1>9, ServerConstants

LEMMA StaysEarliest ==
    ASSUME ServerSound, NEW g \in Helpers, StillEarliest(g), sync'[g] = sync[g],
           \A other \in DOMAIN accounts' :
               Usable(accounts'[other], sync[g].qq, User[g]) => other \in DOMAIN accounts
    PROVE  StillEarliest(g)'
<1> SUFFICES ASSUME sync[g].pc = "post", NEW other \in DOMAIN accounts',
                    Usable(accounts'[other], sync[g].qq, User[g])
             PROVE  sync[g].id # NoAccount /\ sync[g].id <= other
  BY DEF StillEarliest
<1>1. other \in DOMAIN accounts
  OBVIOUS
<1>2. Usable(accounts[other], sync[g].qq, User[g])
  BY <1>1 DEF ServerSound, AccountsStay, Usable
<1> QED
  BY <1>1, <1>2 DEF StillEarliest

LEMMA EarliestNext == ServerInv /\ EarliestInv /\ [Next]_vars => EarliestInv'
<1> SUFFICES ASSUME ServerInv, EarliestInv, [Next]_vars, ~delayed' PROVE \A g \in Helpers : StillEarliest(g)'
  BY DEF EarliestInv
<1>1. CASE \E h \in Helpers : Begin(h) \/ HelperStep(h) \/ Abort(h)
  <2> PICK h \in Helpers : Begin(h) \/ HelperStep(h) \/ Abort(h)
    BY <1>1
  <2>1. /\ \A g \in Helpers : g # h => sync'[g] = sync[g]
        /\ ServerUnchanged \/ (sync[h].pc \in Writing /\ ServerStep(Request(h)))
        /\ sync'[h].pc = "post" =>
             ServerUnchanged /\ sync'[h].qq = sync[h].qq /\ sync'[h].id = Existing(h)
    BY HelperStepShape
  <2>2. ~delayed /\ ServerSound
    <3>1. delayed' = delayed \/ delayed' = TRUE
      BY <2>1 DEF ServerUnchanged, ServerStep
    <3>2. ~delayed
      BY <3>1
    <3> QED
      BY <2>1, <3>2, ServerStepSound
  <2>3. ASSUME NEW g \in Helpers, g # h PROVE StillEarliest(g)'
    <3>1. StillEarliest(g) /\ sync'[g] = sync[g]
      BY <2>1, <2>2, <2>3 DEF EarliestInv
    <3>2. CASE sync[g].pc = "post"
      BY <2>1, <2>2, <2>3, <3>1, <3>2, OthersAccountsStay, StaysEarliest
    <3>3. CASE sync[g].pc # "post"
      BY <3>1, <3>3 DEF StillEarliest
    <3> QED
      BY <3>2, <3>3
  <2>4. StillEarliest(h)'
    <3> SUFFICES ASSUME sync'[h].pc = "post" PROVE StillEarliest(h)'
      BY DEF StillEarliest
    <3>1. UNCHANGED accounts /\ sync'[h].qq = sync[h].qq /\ sync'[h].id = Existing(h)
      BY <2>1 DEF ServerUnchanged
    <3>2. \A other \in DOMAIN accounts : Usable(accounts[other], sync[h].qq, User[h]) =>
              Existing(h) # NoAccount /\ Existing(h) <= other
      BY ExistingFinds DEF ServerInv
    <3> QED
      BY <3>1, <3>2 DEF StillEarliest
  <2> QED
    BY <2>3, <2>4
<1>2. CASE ServeLate
  BY <1>2 DEF ServeLate, ServerInv
<1>3. CASE \E id \in DOMAIN accounts : DeleteAccount(id)
  <2>1. /\ DOMAIN accounts' \subseteq DOMAIN accounts
        /\ \A other \in DOMAIN accounts' : accounts'[other] = accounts[other]
        /\ sync' = sync /\ delayed' = delayed
    BY <1>3, DeleteKeepsInv DEF DeleteAccount
  <2> QED
    BY <2>1 DEF EarliestInv, StillEarliest
<1>4. CASE UNCHANGED vars
  BY <1>4 DEF vars, EarliestInv, StillEarliest
<1> QED
  BY <1>1, <1>2, <1>3, <1>4 DEF Next

LEMMA EarliestInit == Init => EarliestInv
BY DEF Init, EarliestInv, StillEarliest, Idle

LEMMA CodeGoesToEarliest ==
    ASSUME ServerInv, EarliestInv, [Next]_vars, ~delayed', NEW id \in DOMAIN accounts',
           id \notin DOMAIN accounts \/ accounts'[id].login # accounts[id].login,
           NEW other \in DOMAIN accounts,
           Usable(accounts[other], accounts'[id].login.qq, User[accounts'[id].login.helper])
    PROVE  id <= other
<1>1. CASE \E h \in Helpers : Begin(h) \/ HelperStep(h) \/ Abort(h)
  <2> PICK h \in Helpers : Begin(h) \/ HelperStep(h) \/ Abort(h)
    BY <1>1
  <2> DEFINE r == Request(h)
  <2>1. sync[h].pc \in Writing /\ Serve(r) /\ ~delayed
    BY HelperStepShape DEF ServerUnchanged, ServerStep
  <2>2. Proper(r) /\ ListOK /\ WritesToOwnAccount
    BY <2>1, RequestIsProper DEF ServerInv
  <2>3. /\ r.op = CASE sync[h].pc = "post" -> IF sync[h].id = NoAccount THEN "create" ELSE "update"
                    [] OTHER -> sync[h].pc
        /\ r.login.qq = sync[h].qq /\ r.login.helper = h /\ r.id = sync[h].id
    BY DEF Request, Login
  <2>4. CASE r.op = "create"
    <3>1. /\ id = nextId /\ accounts'[id] = NewAccount(r)
      BY <2>2, <2>1, <2>4, CreateEffect
    <3>2. accounts'[id].login = r.login
      BY <3>1 DEF NewAccount
    <3>3. sync[h].pc = "post" /\ sync[h].id = NoAccount
      BY <2>1, <2>3, <2>4 DEF Writing
    <3>4. StillEarliest(h)
      BY <2>1 DEF EarliestInv
    <3> QED
      BY <2>3, <3>2, <3>3, <3>4 DEF StillEarliest
  <2>5. CASE r.op # "create"
    <3>1. id = r.id /\ id \in DOMAIN accounts /\ accounts'[id] = Updated(accounts[id], r)
      BY <2>1, <2>2, <2>5, UpdateEffect
    <3>2. accounts[id] \in Accounts
      BY <2>2, <3>1 DEF ListOK
    <3>3. r.op = "update" /\ accounts'[id].login = r.login
      <4>1. r.op \in {"update", "start", "remove", "add"}
        BY <2>2, <2>5 DEF Proper, Requests
      <4>2. r.op = "update"
        BY <3>1, <3>2, <4>1 DEF Updated, Accounts
      <4> QED
        BY <3>1, <3>2, <4>2 DEF Updated, Accounts
    <3>4. sync[h].pc = "post"
      BY <2>1, <2>3, <3>3 DEF Writing
    <3>5. StillEarliest(h)
      BY <2>1 DEF EarliestInv
    <3> QED
      BY <2>3, <3>1, <3>3, <3>4, <3>5 DEF StillEarliest
  <2> QED
    BY <2>4, <2>5
<1>2. CASE ServeLate
  BY <1>2 DEF ServeLate, ServerInv
<1>3. CASE \E gone \in DOMAIN accounts : DeleteAccount(gone)
  BY <1>3, DeleteKeepsInv
<1>4. CASE UNCHANGED vars
  BY <1>4 DEF vars
<1> QED
  BY <1>1, <1>2, <1>3, <1>4 DEF Next

\* A Code goes to the earliest account that its user may write for the QQ account, as long
\* as no request outlived its client: however the helpers' requests interleave, and
\* whichever answers are lost, sync_code makes no second account.
THEOREM CodesGoToEarliest == Spec => GoesToEarliest
<1> DEFINE Earliness ==
      ~delayed' => \A id \in DOMAIN accounts' :
          LET new == accounts'[id] IN
          (id \notin DOMAIN accounts \/ new.login # accounts[id].login) =>
              \A other \in DOMAIN accounts :
                  Usable(accounts[other], new.login.qq, User[new.login.helper])
                      => id <= other
<1>1. ServerInv /\ EarliestInv /\ [Next]_vars => [Earliness]_vars
  BY CodeGoesToEarliest
<1>2. EarliestInv /\ ServerInv /\ [Next]_vars => EarliestInv'
  BY EarliestNext
<1> QED
  BY <1>1, <1>2, EarliestInit, ServerInvariant, PTL DEF Spec, GoesToEarliest

-----------------------------------------------------------------------------
(* The results are true                                                     *)

\* A helper that may write to an account on which another one works, of the same QQ
\* account, is another admin, and the account has no owner.
LEMMA SharedByAdmins ==
    ASSUME NEW g \in Helpers, NEW h \in Helpers, g # h, NEW account,
           sync[g].qq \in QQs[g], sync[h].qq \in QQs[h],
           Usable(account, sync[g].qq, User[g]), Usable(account, sync[h].qq, User[h])
    PROVE  /\ sync[g].qq = sync[h].qq /\ account.owner = NoOne
           /\ User[h] # User[g] /\ {User[g], User[h]} \subseteq Admins
<1>1. sync[g].qq = sync[h].qq
  BY DEF Usable
<1>2. User[h] # User[g]
  BY <1>1, ServerConstants
<1>3. User[g] # NoOne /\ User[h] # NoOne
  BY QQIsKnown, ServerConstants
<1> QED
  BY <1>1, <1>2, <1>3 DEF Usable

\* The effect of such a helper's request on the account.
LEMMA SharedAccountKept ==
    ASSUME NEW g \in Helpers, NEW h \in Helpers, g # h, NEW old \in Accounts, NEW new,
           sync[g].qq = sync[h].qq, old.owner = NoOne,
           User[h] # User[g], {User[g], User[h]} \subseteq Admins,
           sync[h].pc \in Writing, Request(h).op # "create",
           new = Updated(old, Request(h))
    PROVE  Kept(g, old, new)
<1> DEFINE r == Request(h)
           qq == sync[g].qq
<1>1. r.login.helper = h
  BY DEF Request, Login
<1>2. CASE sync[h].pc = "post"
  <2>1. r.op = "update"
    BY <1>2 DEF Request
  <2>2. new = [old EXCEPT !.login = r.login]
    BY <2>1 DEF Updated
  <2> HIDE DEF r
  <2>3. /\ new.login = r.login /\ new.owner = NoOne
        /\ new.started = old.started /\ new.gids = old.gids
    BY <2>2 DEF Accounts
  <2>4. TakenOver(g, new)
    BY <1>1, <2>3 DEF TakenOver
  <2> QED
    BY <2>3, <2>4 DEF Kept
<1>3. CASE sync[h].pc = "start"
  <2>1. r.op = "start"
    BY <1>3 DEF Request
  <2>2. new = [old EXCEPT !.started = TRUE]
    BY <2>1 DEF Updated
  <2>3. new.login = old.login /\ new.owner = old.owner /\ new.started /\ new.gids = old.gids
    BY <2>2 DEF Accounts
  <2> QED
    BY <2>3 DEF Kept
<1>4. CASE sync[h].pc = "remove"
  <2>1. r.op = "remove" /\ r.gids = {qq}
    BY <1>4 DEF Request
  <2>2. new = [old EXCEPT !.gids = {x \in old.gids : x[2] \notin r.gids}]
    BY <2>1 DEF Updated
  <2> HIDE DEF r, qq
  <2>3. /\ new.login = old.login /\ new.owner = old.owner /\ new.started = old.started
        /\ new.gids = {x \in old.gids : x[2] # qq}
    BY <2>1, <2>2 DEF Accounts
  <2> QED
    BY <2>3 DEF Kept, qq
<1>5. CASE sync[h].pc = "add"
  <2>1. r.op = "add" /\ r.gids = Friends(h) /\ r.login.qq = qq
    BY <1>5 DEF Request, Login
  <2>2. new = [old EXCEPT !.gids = old.gids \cup ({qq} \X r.gids)]
    BY <2>1 DEF Updated
  <2>3. qq \notin r.gids
    BY <2>1 DEF Friends
  <2> HIDE DEF r, qq
  <2>4. /\ new.login = old.login /\ new.owner = old.owner /\ new.started = old.started
        /\ new.gids = old.gids \cup ({qq} \X r.gids)
    BY <2>2 DEF Accounts
  <2>5. \A x \in {qq} \X r.gids : x[2] # qq
    BY <2>3
  <2> QED
    BY <2>4, <2>5 DEF Kept, qq
<1> QED
  BY <1>2, <1>3, <1>4, <1>5 DEF Writing

\* A step of another helper on the account of an exchange.
LEMMA OthersAccountKept ==
    ASSUME ServerInv, NEW g \in Helpers, NEW h \in Helpers, g # h,
           Addressed(sync[g]),
           ServerUnchanged \/ (sync[h].pc \in Writing /\ ServerStep(Request(h))),
           sync[g].id \in DOMAIN accounts'
    PROVE  /\ sync[g].id \in DOMAIN accounts
           /\ Kept(g, accounts[sync[g].id], accounts'[sync[g].id])
<1> DEFINE id == sync[g].id
           r == Request(h)
<1>1. ListOK /\ WritesToOwnAccount /\ SoundExchange(g) /\ SoundExchange(h)
  BY DEF ServerInv
<1>2. Belongs(id, sync[g].qq, User[g]) /\ sync[g].qq \in QQs[g]
  BY <1>1 DEF SoundExchange, Addressed
<1>3. ASSUME id \in DOMAIN accounts, accounts'[id] = accounts[id]
      PROVE  Kept(g, accounts[id], accounts'[id])
  BY <1>3 DEF Kept
<1>4. CASE UNCHANGED <<accounts, nextId>>
  BY <1>3, <1>4
<1>5. CASE ~UNCHANGED <<accounts, nextId>>
  <2>1. sync[h].pc \in Writing /\ Serve(r) /\ Proper(r)
    BY <1>1, <1>5, RequestIsProper DEF ServerUnchanged, ServerStep
  <2>2. r.login.qq = sync[h].qq /\ r.user = User[h] /\ sync[h].qq \in QQs[h]
    BY <1>1, <2>1 DEF Request, Login, SoundExchange, Writing
  <2>3. CASE r.op = "create"
    <3>1. /\ DOMAIN accounts' = DOMAIN accounts \cup {nextId}
          /\ \A other \in DOMAIN accounts : accounts'[other] = accounts[other]
      BY <1>1, <2>1, <2>3, CreateEffect
    <3>2. id # nextId
      BY <1>1, <1>2 DEF Belongs, ListOK
    <3> QED
      BY <1>3, <3>1, <3>2
  <2>4. CASE r.op # "create"
    <3>1. /\ DOMAIN accounts' = DOMAIN accounts
          /\ \A other \in DOMAIN accounts : other # r.id => accounts'[other] = accounts[other]
          /\ r.id \in DOMAIN accounts => accounts'[r.id] = Updated(accounts[r.id], r)
      BY <1>1, <2>1, <2>4, UpdateEffect
    <3>2. CASE r.id # id
      BY <1>3, <3>1, <3>2
    <3>3. CASE r.id = id
      <4>1. Usable(accounts[id], sync[g].qq, User[g]) /\ Usable(accounts[id], sync[h].qq, User[h])
        BY <1>2, <2>1, <2>2, <2>4, <3>1, <3>3 DEF Proper, Belongs
      <4>2. /\ sync[g].qq = sync[h].qq /\ accounts[id].owner = NoOne
            /\ User[h] # User[g] /\ {User[g], User[h]} \subseteq Admins
        BY <1>2, <2>2, <4>1, SharedByAdmins
      <4>3. accounts[id] \in Accounts /\ accounts'[id] = Updated(accounts[id], r)
        BY <1>1, <3>1, <3>3 DEF ListOK
      <4>4. Kept(g, accounts[id], accounts'[id])
        BY <2>1, <2>4, <4>2, <4>3, SharedAccountKept
      <4> QED
        BY <3>1, <4>4
    <3> QED
      BY <3>2, <3>3
  <2> QED
    BY <2>3, <2>4
<1> QED
  BY <1>4, <1>5

LEMMA OthersProgress ==
    ASSUME NEW g \in Helpers, Progress(g), sync'[g] = sync[g],
           Addressed(sync[g]) /\ sync[g].id \in DOMAIN accounts' =>
               /\ sync[g].id \in DOMAIN accounts
               /\ Kept(g, accounts[sync[g].id], accounts'[sync[g].id])
    PROVE  Progress(g)'
<1> DEFINE old == accounts[sync[g].id]
           new == accounts'[sync[g].id]
<1>1. Login(g)' = Login(g) /\ Friends(g)' = Friends(g)
  BY DEF Login, Friends
<1>2. CASE /\ sync[g].pc \in {"start", "poll", "remove", "add", "completed", "start_failed"}
           /\ sync[g].id \in DOMAIN accounts'
  <2>1. sync[g].id \in DOMAIN accounts /\ Kept(g, old, new)
    BY <1>2 DEF Addressed
  <2>2. /\ HasCode(g, old)
        /\ sync[g].pc \in {"poll", "remove", "add", "completed"} => old.started
        /\ sync[g].removed => sync[g].qq \notin {x[2] : x \in old.gids}
        /\ sync[g].added => Friends(g) \subseteq {x[2] : x \in old.gids}
    BY <1>2, <2>1 DEF Progress
  <2> HIDE DEF old, new
  <2>3. new.login = Login(g) \/ TakenOver(g, new)
    BY <2>1, <2>2 DEF Kept, HasCode, TakenOver
  <2>4. sync[g].removed => sync[g].qq \notin {x[2] : x \in new.gids}
    BY <2>1, <2>2 DEF Kept
  <2>5. sync[g].added => Friends(g) \subseteq {x[2] : x \in new.gids}
    BY <2>1, <2>2 DEF Kept, Friends
  <2>6. sync[g].pc \in {"poll", "remove", "add", "completed"} => new.started
    BY <2>1, <2>2 DEF Kept
  <2>7. HasCode(g, accounts[sync[g].id])'
    BY <1>1, <2>3 DEF HasCode, TakenOver, new
  <2> QED
    BY <1>1, <2>4, <2>5, <2>6, <2>7 DEF Progress, new
<1>3. CASE ~(/\ sync[g].pc \in {"start", "poll", "remove", "add", "completed", "start_failed"}
             /\ sync[g].id \in DOMAIN accounts')
  BY <1>3 DEF Progress
<1> QED
  BY <1>2, <1>3

\* What the helper's own requests do to its account.
LEMMA OwnAccount ==
    ASSUME ServerInv, NEW h \in Helpers, sync[h].pc \in {"start", "remove", "add"},
           ServerStep(Request(h)), sync[h].id \in DOMAIN accounts'
    PROVE  LET old == accounts[sync[h].id]
               new == accounts'[sync[h].id]
           IN  /\ sync[h].id \in DOMAIN accounts /\ old \in Accounts
               /\ old.gids \subseteq {sync[h].qq} \X Gids
               /\ new.login = old.login /\ new.owner = old.owner
               /\ old.started => new.started
               /\ sync[h].pc = "start" /\ Serve(Request(h)) => new.started
               /\ sync[h].pc = "start" => new.gids = old.gids
               /\ sync[h].pc = "remove" /\ Serve(Request(h)) =>
                    new.gids = {g \in old.gids : g[2] # sync[h].qq}
               /\ sync[h].pc = "add" =>
                    \/ new.gids = old.gids /\ ~Serve(Request(h))
                    \/ new.gids = old.gids \cup ({sync[h].qq} \X Friends(h))
<1> DEFINE id == sync[h].id
           r == Request(h)
           old == accounts[id]
           new == accounts'[id]
<1>1. ListOK /\ WritesToOwnAccount /\ Proper(r) /\ r.op # "create"
  <2>1. Proper(r)
    BY RequestIsProper DEF ServerInv, Writing
  <2> QED
    BY <2>1 DEF ServerInv, Request
<1>2. r.op = sync[h].pc /\ r.id = id /\ r.login.qq = sync[h].qq
  BY DEF Request, Login
<1>3. Serve(r) => DOMAIN accounts' = DOMAIN accounts /\ new = Updated(old, r)
  BY <1>1, <1>2, UpdateEffect
<1>4. ~Serve(r) => accounts' = accounts
  BY DEF ServerStep
<1>5. id \in DOMAIN accounts /\ old \in Accounts
  BY <1>1, <1>3, <1>4 DEF ListOK
<1>6. old.gids \subseteq {sync[h].qq} \X Gids
  BY <1>1, <1>2, <1>5 DEF WritesToOwnAccount, Proper, Belongs, Usable
<1>7. CASE ~Serve(r)
  BY <1>4, <1>5, <1>6, <1>7
<1>8. CASE Serve(r) /\ sync[h].pc = "start"
  <2>1. new = [old EXCEPT !.started = TRUE]
    BY <1>2, <1>3, <1>8 DEF Updated
  <2> HIDE DEF new, old, r
  <2>2. new.login = old.login /\ new.owner = old.owner /\ new.started /\ new.gids = old.gids
    BY <1>5, <2>1 DEF Accounts
  <2> QED
    BY <1>5, <1>6, <1>8, <2>2 DEF new, old, r
<1>9. CASE Serve(r) /\ sync[h].pc = "remove"
  <2>1. r.gids = {sync[h].qq}
    BY <1>9 DEF Request
  <2>2. new = [old EXCEPT !.gids = {g \in old.gids : g[2] \notin r.gids}]
    BY <1>2, <1>3, <1>9 DEF Updated
  <2> HIDE DEF new, old, r
  <2>3. /\ new.login = old.login /\ new.owner = old.owner /\ new.started = old.started
        /\ new.gids = {g \in old.gids : g[2] # sync[h].qq}
    BY <1>5, <2>1, <2>2 DEF Accounts
  <2> QED
    BY <1>5, <1>6, <1>9, <2>3 DEF new, old, r
<1>10. CASE Serve(r) /\ sync[h].pc = "add"
  <2>1. r.gids = Friends(h)
    BY <1>10 DEF Request
  <2>2. new = [old EXCEPT !.gids = old.gids \cup ({sync[h].qq} \X r.gids)]
    BY <1>2, <1>3, <1>10 DEF Updated
  <2> HIDE DEF new, old, r
  <2>3. /\ new.login = old.login /\ new.owner = old.owner /\ new.started = old.started
        /\ new.gids = old.gids \cup ({sync[h].qq} \X Friends(h))
    BY <1>5, <2>1, <2>2 DEF Accounts
  <2> QED
    BY <1>5, <1>6, <1>10, <2>3 DEF new, old, r
<1> QED
  BY <1>7, <1>8, <1>9, <1>10

LEMMA PostProgress ==
    ASSUME ServerInv, NEW h \in Helpers, PostCode(h), ~Goes(h, "failed")
    PROVE  Progress(h)'
<1> DEFINE r == Request(h)
           id == IF sync[h].id = NoAccount THEN nextId ELSE sync[h].id
<1>1. /\ sync[h].pc = "post" /\ Answered(r)
      /\ sync'[h] = [sync[h] EXCEPT !.pc = "start", !.id = id]
  BY CodeAnswered DEF PostCode
<1>2. Proper(r) /\ ListOK /\ WritesToOwnAccount /\ sync[h] \in Exchange /\ ~sync[h].removed /\ ~sync[h].added
  BY <1>1, RequestIsProper DEF ServerInv, SoundExchange, Writing
<1>3. /\ sync'[h].pc = "start" /\ sync'[h].id = id /\ sync'[h].n = sync[h].n
      /\ sync'[h].qq = sync[h].qq /\ ~sync'[h].removed /\ ~sync'[h].added
  <2> HIDE DEF id
  <2> QED
    BY <1>1, <1>2 DEF Exchange
<1>4. r.op = (IF sync[h].id = NoAccount THEN "create" ELSE "update") /\ r.id = sync[h].id /\ r.login = Login(h)
  BY <1>1 DEF Request
<1>5. accounts'[id].login = Login(h)
  <2>1. CASE sync[h].id = NoAccount
    <3>1. accounts'[nextId] = NewAccount(r)
      BY <1>1, <1>2, <1>4, <2>1, CreateEffect DEF Answered
    <3> QED
      BY <1>4, <2>1, <3>1 DEF NewAccount
  <2>2. CASE sync[h].id # NoAccount
    <3>1. r.op = "update" /\ r.id = id /\ id \in DOMAIN accounts
      BY <1>1, <1>4, <2>2 DEF Answered, Accepts
    <3>2. accounts'[id] = Updated(accounts[id], r) /\ accounts[id] \in Accounts
      BY <1>1, <1>2, <3>1, UpdateEffect DEF Answered, ListOK
    <3> HIDE DEF id, r
    <3>3. accounts'[id] = [accounts[id] EXCEPT !.login = r.login]
      BY <3>1, <3>2 DEF Updated
    <3> QED
      BY <1>4, <3>2, <3>3 DEF Accounts
  <2> QED
    BY <2>1, <2>2
<1>6. Login(h)' = Login(h)
  BY <1>3 DEF Login
<1> HIDE DEF id
<1> QED
  BY <1>3, <1>5, <1>6 DEF Progress, HasCode

LEMMA StartProgress ==
    ASSUME ServerInv, NEW h \in Helpers, Progress(h), StartAccount(h)
    PROVE  Progress(h)'
<1>1. /\ sync[h].pc = "start" /\ ServerStep(Request(h))
      /\ \/ Serve(Request(h)) /\ sync'[h] = [sync[h] EXCEPT !.pc = "poll"]
         \/ sync'[h] = [sync[h] EXCEPT !.pc = "start_failed"]
  <2>1. DOMAIN sync = Helpers
    BY DEF ServerInv
  <2> QED
    BY <2>1, AnswersAreSteps DEF StartAccount, Goes, Becomes, Answered
<1>2. sync[h] \in Exchange /\ ~sync[h].removed /\ ~sync[h].added
  BY <1>1 DEF ServerInv, SoundExchange
<1>3. /\ sync'[h].pc = "start_failed" \/ (sync'[h].pc = "poll" /\ Serve(Request(h)))
      /\ sync'[h].id = sync[h].id /\ sync'[h].n = sync[h].n
      /\ sync'[h].qq = sync[h].qq /\ ~sync'[h].removed /\ ~sync'[h].added
  BY <1>1, <1>2 DEF Exchange
<1>4. ASSUME sync[h].id \in DOMAIN accounts'
      PROVE  /\ HasCode(h, accounts'[sync[h].id])
             /\ sync'[h].pc = "poll" => accounts'[sync[h].id].started
  <2>1. /\ sync[h].id \in DOMAIN accounts
        /\ accounts'[sync[h].id].login = accounts[sync[h].id].login
        /\ accounts'[sync[h].id].owner = accounts[sync[h].id].owner
        /\ Serve(Request(h)) => accounts'[sync[h].id].started
    BY <1>1, <1>4, OwnAccount
  <2>2. HasCode(h, accounts[sync[h].id])
    BY <1>1, <2>1 DEF Progress
  <2> QED
    BY <1>3, <2>1, <2>2 DEF HasCode, TakenOver
<1>5. Login(h)' = Login(h)
  BY <1>3 DEF Login
<1> QED
  BY <1>3, <1>4, <1>5 DEF Progress, HasCode, TakenOver

LEMMA PollProgress ==
    ASSUME ServerInv, NEW h \in Helpers, Progress(h), Poll(h), ~Goes(h, "failed")
    PROVE  Progress(h)'
<1>1. /\ sync[h].pc = "poll" /\ UNCHANGED accounts
      /\ sync'[h].pc \in {"poll", "remove", "completed"} /\ ~sync'[h].removed /\ ~sync'[h].added
      /\ sync'[h].id = sync[h].id /\ sync'[h].qq = sync[h].qq /\ sync'[h].n = sync[h].n
  BY PollKeepsInv DEF Poll, ServerUnchanged
<1>2. Login(h)' = Login(h)
  BY <1>1 DEF Login
<1>3. sync[h].id \in DOMAIN accounts =>
          HasCode(h, accounts[sync[h].id]) /\ accounts[sync[h].id].started
  BY <1>1 DEF Progress
<1> QED
  BY <1>1, <1>2, <1>3 DEF Progress, HasCode, TakenOver

LEMMA FriendsProgress ==
    ASSUME ServerInv, NEW h \in Helpers, Progress(h), RemoveOwn(h) \/ AddFriends(h)
    PROVE  Progress(h)'
<1> DEFINE id == sync[h].id
           old == accounts[id]
           new == accounts'[id]
           qq == sync[h].qq
<1>1. /\ sync'[h].pc \in {"add", "completed"}
      /\ sync'[h].id = id /\ sync'[h].qq = qq /\ sync'[h].n = sync[h].n
      /\ sync'[h].capture = sync[h].capture
      /\ sync'[h].removed => sync[h].removed \/ (sync[h].pc = "remove" /\ Answered(Request(h)))
      /\ sync'[h].added => sync[h].pc = "add" /\ Answered(Request(h))
  BY FriendsKeepInv
<1>2. sync[h].pc \in {"remove", "add"} /\ ServerStep(Request(h))
  BY AnswersAreSteps DEF RemoveOwn, AddFriends
<1>3. Login(h)' = Login(h) /\ Friends(h)' = Friends(h)
  BY <1>1 DEF Login, Friends
<1>4. qq \notin Friends(h)
  BY DEF Friends
<1>5. SUFFICES ASSUME id \in DOMAIN accounts'
               PROVE  /\ HasCode(h, new) /\ new.started
                      /\ sync'[h].removed => qq \notin {g[2] : g \in new.gids}
                      /\ sync'[h].added => Friends(h) \subseteq {g[2] : g \in new.gids}
  BY <1>1, <1>3 DEF Progress, HasCode, TakenOver
<1>6. /\ id \in DOMAIN accounts /\ old \in Accounts
      /\ old.gids \subseteq {qq} \X Gids
      /\ new.login = old.login /\ new.owner = old.owner /\ (old.started => new.started)
      /\ sync[h].pc = "remove" /\ Serve(Request(h)) => new.gids = {g \in old.gids : g[2] # qq}
      /\ sync[h].pc = "add" =>
           \/ new.gids = old.gids /\ ~Serve(Request(h))
           \/ new.gids = old.gids \cup ({qq} \X Friends(h))
  BY <1>2, <1>5, OwnAccount
<1>7. /\ HasCode(h, old) /\ old.started
      /\ sync[h].removed => qq \notin {g[2] : g \in old.gids}
  BY <1>2, <1>6 DEF Progress
<1>8. sync'[h].removed => qq \notin {g[2] : g \in new.gids}
  <2> SUFFICES ASSUME sync'[h].removed PROVE qq \notin {g[2] : g \in new.gids}
    OBVIOUS
  <2>1. CASE sync[h].pc = "remove"
    <3>1. ~sync[h].removed
      BY <2>1 DEF ServerInv, SoundExchange
    <3>2. Serve(Request(h))
      BY <1>1, <3>1 DEF Answered
    <3> QED
      BY <1>6, <2>1, <3>2
  <2>2. CASE sync[h].pc = "add"
    <3>1. qq \notin {g[2] : g \in old.gids}
      BY <1>1, <1>7, <2>2
    <3> HIDE DEF new, old, qq
    <3> QED
      BY <1>4, <1>6, <2>2, <3>1
  <2> QED
    BY <1>2, <2>1, <2>2
<1>9. sync'[h].added => Friends(h) \subseteq {g[2] : g \in new.gids}
  <2> SUFFICES ASSUME sync'[h].added PROVE Friends(h) \subseteq {g[2] : g \in new.gids}
    OBVIOUS
  <2>1. new.gids = old.gids \cup ({qq} \X Friends(h))
    BY <1>1, <1>6 DEF Answered
  <2>2. \A f \in Friends(h) : <<qq, f>> \in new.gids /\ <<qq, f>>[2] = f
    BY <2>1
  <2> HIDE DEF new
  <2> QED
    BY <2>2
<1>10. HasCode(h, new)
  BY <1>6, <1>7 DEF HasCode, TakenOver
<1> QED
  BY <1>6, <1>7, <1>8, <1>9, <1>10

LEMMA HelperProgress ==
    ASSUME ServerInv, NEW h \in Helpers, Progress(h), Begin(h) \/ HelperStep(h) \/ Abort(h)
    PROVE  Progress(h)'
<1>1. \A pc : Goes(h, pc) => sync'[h].pc = pc
  <2>1. DOMAIN sync = Helpers /\ sync[h] \in Exchange
    BY DEF ServerInv, SoundExchange
  <2> QED
    BY <2>1 DEF Goes, Becomes, Exchange
<1>2. sync'[h].pc \in {"me", "list", "post", "failed"} => Progress(h)'
  BY DEF Progress
<1>3. CASE Begin(h)
  BY <1>2, <1>3, BeginKeepsInv
<1>4. CASE ReadUser(h) \/ Abort(h)
  BY <1>1, <1>2, <1>4 DEF ReadUser, Abort
<1>5. CASE ReadAccounts(h)
  <2>1. CASE Goes(h, "failed")
    BY <1>1, <1>2, <2>1
  <2>2. CASE ~Goes(h, "failed")
    BY <1>2, <1>5, <2>2, ReadAccountsKeepsInv DEF ReadAccounts
  <2> QED
    BY <2>1, <2>2
<1>6. CASE PostCode(h) \/ Poll(h)
  <2>1. CASE Goes(h, "failed")
    BY <1>1, <1>2, <2>1
  <2>2. CASE ~Goes(h, "failed")
    BY <1>6, <2>2, PostProgress, PollProgress
  <2> QED
    BY <2>1, <2>2
<1>7. CASE StartAccount(h)
  BY <1>7, StartProgress
<1>8. CASE RemoveOwn(h) \/ AddFriends(h)
  BY <1>8, FriendsProgress
<1> QED
  BY <1>3, <1>4, <1>5, <1>6, <1>7, <1>8 DEF HelperStep

LEMMA ProgressNext == ServerInv /\ ProgressInv /\ [Next]_vars => ProgressInv'
<1> SUFFICES ASSUME ServerInv, ProgressInv, [Next]_vars, ~delayed' PROVE \A g \in Helpers : Progress(g)'
  BY DEF ProgressInv
<1>1. CASE \E h \in Helpers : Begin(h) \/ HelperStep(h) \/ Abort(h)
  <2> PICK h \in Helpers : Begin(h) \/ HelperStep(h) \/ Abort(h)
    BY <1>1
  <2>1. /\ \A g \in Helpers : g # h => sync'[g] = sync[g]
        /\ ServerUnchanged \/ (sync[h].pc \in Writing /\ ServerStep(Request(h)))
    BY HelperStepShape
  <2>2. ~delayed
    <3>1. delayed' = delayed \/ delayed' = TRUE
      BY <2>1 DEF ServerUnchanged, ServerStep
    <3> QED
      BY <3>1
  <2>3. \A g \in Helpers : Progress(g)
    BY <2>2 DEF ProgressInv
  <2>4. ASSUME NEW g \in Helpers, g # h PROVE Progress(g)'
    <3>1. Addressed(sync[g]) /\ sync[g].id \in DOMAIN accounts' =>
              /\ sync[g].id \in DOMAIN accounts
              /\ Kept(g, accounts[sync[g].id], accounts'[sync[g].id])
      BY <2>1, <2>4, OthersAccountKept
    <3> QED
      BY <2>1, <2>3, <2>4, <3>1, OthersProgress
  <2>5. Progress(h)'
    BY <2>3, HelperProgress
  <2> QED
    BY <2>4, <2>5
<1>2. CASE ServeLate
  BY <1>2 DEF ServeLate, ServerInv
<1>3. CASE \E id \in DOMAIN accounts : DeleteAccount(id)
  <2>1. /\ DOMAIN accounts' \subseteq DOMAIN accounts
        /\ \A other \in DOMAIN accounts' : accounts'[other] = accounts[other]
        /\ sync' = sync /\ delayed' = delayed
    BY <1>3, DeleteKeepsInv DEF DeleteAccount
  <2>2. \A g \in Helpers : Progress(g)
    BY <2>1 DEF ProgressInv
  <2> QED
    BY <2>1, <2>2, OthersProgress DEF Kept
<1>4. CASE UNCHANGED vars
  <2>1. sync' = sync /\ accounts' = accounts /\ delayed' = delayed
    BY <1>4 DEF vars
  <2>2. \A g \in Helpers : Progress(g)
    BY <2>1 DEF ProgressInv
  <2> QED
    BY <2>1, <2>2, OthersProgress DEF Kept
<1> QED
  BY <1>1, <1>2, <1>3, <1>4 DEF Next

LEMMA ProgressInit == Init => ProgressInv
BY DEF Init, ProgressInv, Progress, Idle

\* What the window says of a synchronisation is so on the server, whatever the other
\* helpers, also those of other admins, send meanwhile, unless the account was deleted or
\* a request outlived its client; only the Code may be that of another admin who took
\* over the ownerless account.
THEOREM ResultsHold == Spec => []ResultsAreTrue
<1>1. ServerInv /\ ProgressInv => ResultsAreTrue
  BY DEF ProgressInv, Progress, ResultsAreTrue, Friends
<1>2. ServerInv /\ ProgressInv /\ [Next]_vars => ProgressInv'
  BY ProgressNext
<1> QED
  BY <1>1, <1>2, ProgressInit, ServerInvariant, PTL DEF Spec
=============================================================================
