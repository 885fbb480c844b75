------------------------------ MODULE ServerSync ------------------------------
(***************************************************************************)
(* The exchange of a captured login with the farm server: sync_code of     *)
(* server_sync.rs and its caller sync_captured_login with the friend GIDs  *)
(* (app_state.rs), for several helpers that work on one server.            *)
(*                                                                         *)
(* The server is not in this repository: it is what the requests assume of *)
(* it, a list of accounts with growing ids.  Every request can be refused, *)
(* lost before or after its effect, or outlive its client, which waits     *)
(* 10 seconds.  A read returns the list as it is when it is answered.      *)
(***************************************************************************)
EXTENDS Naturals, Sequences, FiniteSets, Functions

CONSTANTS
    Helpers,       \* the running helpers
    User,          \* whose token each of them has
    QQs,           \* the QQ accounts used on each helper's desktop
    Admins,        \* the users with the role admin
    NoOne,         \* the empty username of accounts made before there were users
    Captures,      \* what each helper's logins yield: the own GID or not, friend GIDs
    InitialLists,  \* the account lists that the server may have
    MaxLogins,     \* bound: logins of all the helpers together
    MaxDeletes,    \* bound: accounts deleted on the server's page
    MaxLate,       \* bound: requests whose client is gone, at a time
    MaxPolls,      \* 30, the reads that wait for the account to run
    MaxGids        \* 500, the GIDs that one request may carry

Users == Range(User)
AllQQs == UNION Range(QQs)

\* The GID of a QQ account is named like the account.
Gids == AllQQs \cup UNION {capture.friends : capture \in UNION Range(Captures)}

\* One login of a helper, and an account of the server with the login whose Code it
\* has and the GIDs it knows, each with the QQ account whose login brought it.
Logins == [helper : Helpers, n : Nat, qq : AllQQs]
NoLogin == [helper |-> NoOne]
Accounts == [owner : Users \cup {NoOne}, qq : AllQQs, login : Logins \cup {NoLogin},
             started : BOOLEAN, gids : SUBSET (AllQQs \X Gids)]

ASSUME ServerConstants ==
    /\ User \in [Helpers -> Users] /\ QQs \in [Helpers -> SUBSET AllQQs]
    /\ Admins \subseteq Users /\ NoOne \notin Users \cup Helpers
    /\ Captures \in [Helpers -> SUBSET [own : BOOLEAN, friends : SUBSET Gids]]
    \* No login of the helpers is there yet, and an account's GIDs came with its own logins.
    /\ InitialLists \subseteq Seq(Accounts)
    /\ \A list \in InitialLists : \A account \in Range(list) :
          account.login = NoLogin /\ account.gids \subseteq {account.qq} \X Gids
    /\ \A bound \in {MaxLogins, MaxDeletes, MaxLate, MaxPolls, MaxGids} : bound \in Nat
    \* A QQ account is logged in on one desktop at a time.
    /\ \A g, h \in Helpers : g # h /\ User[g] = User[h] => QQs[g] \cap QQs[h] = {}

VARIABLES
    accounts,  \* the account list of the server
    nextId,    \* the id of the next account
    sync,      \* each helper's exchange
    late,      \* requests that the server has not served yet, their client gone
    delayed    \* history: there was one

vars == <<accounts, nextId, sync, late, delayed>>

Running == {"me", "list", "post", "start", "poll", "remove", "add"}
Writing == {"post", "start", "remove", "add"}
Ended == {"idle", "completed", "failed", "start_failed"}

NoAccount == 0

Idle == [pc |-> "idle", n |-> 0, qq |-> NoOne, capture |-> [own |-> FALSE, friends |-> {}],
         id |-> NoAccount, polls |-> 0, removed |-> FALSE, added |-> FALSE]

Init ==
    /\ accounts \in InitialLists
    /\ nextId = 1 + Cardinality(DOMAIN accounts)
    /\ sync = [h \in Helpers |-> Idle]
    /\ late = {} /\ delayed = FALSE

-----------------------------------------------------------------------------
(* The server, and how a request can end                                    *)

NewAccount(r) ==
    [owner |-> r.user, qq |-> r.login.qq, login |-> r.login, started |-> FALSE, gids |-> {}]

Updated(account, r) ==
    CASE r.op = "update" -> [account EXCEPT !.login = r.login]
      [] r.op = "start"  -> [account EXCEPT !.started = TRUE]
      [] r.op = "remove" -> [account EXCEPT !.gids = {g \in @ : g[2] \notin r.gids}]
      [] r.op = "add"    -> [account EXCEPT !.gids = @ \cup ({r.login.qq} \X r.gids)]

Accepts(r) == r.op = "create" \/ r.id \in DOMAIN accounts

Serve(r) ==
    IF r.op = "create"
    THEN /\ accounts' = [id \in DOMAIN accounts \cup {nextId} |->
                           IF id = nextId THEN NewAccount(r) ELSE accounts[id]]
         /\ nextId' = nextId + 1
    ELSE /\ accounts' = [id \in DOMAIN accounts |->
                           IF id = r.id THEN Updated(accounts[id], r) ELSE accounts[id]]
         /\ UNCHANGED nextId

\* An answer; an error, with the effect of the request done or not; a client that
\* gives up while the request is on its way.
Answered(r) == Accepts(r) /\ Serve(r) /\ UNCHANGED <<late, delayed>>
Refused(r) ==
    \/ UNCHANGED <<accounts, nextId, late, delayed>>
    \/ Serve(r) /\ UNCHANGED <<late, delayed>>
    \/ /\ Cardinality(late) < MaxLate
       /\ late' = late \cup {r} /\ delayed' = TRUE /\ UNCHANGED <<accounts, nextId>>

Login(h) == [helper |-> h, n |-> sync[h].n, qq |-> sync[h].qq]

Becomes(h, exchange) == sync' = [sync EXCEPT ![h] = exchange]
Goes(h, pc) == Becomes(h, [sync[h] EXCEPT !.pc = pc])
ServerUnchanged == UNCHANGED <<accounts, nextId, late, delayed>>

\* Mutant: the capture is sent as it is.
FriendsWithSelf(h) == sync[h].capture.friends

\* friend_gids_without_self.
Friends(h) == sync[h].capture.friends \ {sync[h].qq}

\* The writing request that the helper sends in its present state: the Code goes with
\* the id of the account found, or without one; the own GID is no friend.
Request(h) ==
    [op |-> CASE sync[h].pc = "post" -> IF sync[h].id = NoAccount THEN "create" ELSE "update"
              [] OTHER -> sync[h].pc,
     user |-> User[h], login |-> Login(h), id |-> sync[h].id,
     gids |-> CASE sync[h].pc = "remove" -> {sync[h].qq}
                [] sync[h].pc = "add" -> Friends(h)
                [] OTHER -> {}]

-----------------------------------------------------------------------------
(* sync_code *)

\* sync_captured_login has a Code and a confirmed identity.
Begin(h) ==
    /\ sync[h].pc \in Ended
    /\ FoldFunction(LAMBDA exchange, total : exchange.n + total, 0, sync) < MaxLogins
    /\ \E qq \in QQs[h], capture \in Captures[h] :
          Becomes(h, [Idle EXCEPT !.pc = "me", !.n = sync[h].n + 1, !.qq = qq,
                                  !.capture = capture])
    /\ ServerUnchanged

\* get_connection_info: without a user nothing is written.
ReadUser(h) ==
    /\ sync[h].pc = "me"
    /\ Goes(h, "list") \/ Goes(h, "failed")
    /\ ServerUnchanged

\* An account that user may write the Codes of qq to.
Usable(account, qq, user) ==
    /\ account.qq = qq
    /\ account.owner = user \/ (account.owner = NoOne /\ user \in Admins)

Earliest(ids) == CHOOSE id \in ids : \A other \in ids : id <= other

\* Mutants: the owner is not looked at; the latest duplicate is taken.
ExistingOfAnyone(h) ==
    LET ids == {id \in DOMAIN accounts : accounts[id].qq = sync[h].qq}
    IN  IF ids = {} THEN NoAccount ELSE Earliest(ids)
ExistingLatest(h) ==
    LET ids == {id \in DOMAIN accounts : Usable(accounts[id], sync[h].qq, User[h])}
    IN  IF ids = {} THEN NoAccount ELSE CHOOSE id \in ids : \A other \in ids : id >= other

\* existing_qq_account: the earliest of the accounts that match.
Existing(h) ==
    LET ids == {id \in DOMAIN accounts : Usable(accounts[id], sync[h].qq, User[h])}
    IN  IF ids = {} THEN NoAccount ELSE Earliest(ids)

\* get_accounts_data.
ReadAccounts(h) ==
    /\ sync[h].pc = "list"
    /\ \/ Becomes(h, [sync[h] EXCEPT !.pc = "post", !.id = Existing(h)])
       \/ Goes(h, "failed")
    /\ ServerUnchanged

\* Mutant: the first account of the answer instead of the last.
NewestFirst(list) == CHOOSE id \in DOMAIN list : \A other \in DOMAIN list : id <= other

\* newest_account_profile: the answer to a creation is the list as the creation left
\* it, and its last account is taken for the new one.
Newest(list) == CHOOSE id \in DOMAIN list : \A other \in DOMAIN list : id >= other

\* The Code is posted, and the answer says under which id.
PostCode(h) ==
    /\ sync[h].pc = "post"
    /\ \/ /\ Answered(Request(h))
          /\ Becomes(h, [sync[h] EXCEPT !.pc = "start",
                                        !.id = IF @ = NoAccount THEN Newest(accounts') ELSE @])
       \/ Refused(Request(h)) /\ Goes(h, "failed")

\* Mutant: its error is ignored.
StartAccountIgnoringError(h) ==
    /\ sync[h].pc = "start"
    /\ (Answered(Request(h)) \/ Refused(Request(h))) /\ Goes(h, "poll")

\* start_account; its error says that the Code is synchronised.
StartAccount(h) ==
    /\ sync[h].pc = "start"
    /\ \/ Answered(Request(h)) /\ Goes(h, "poll")
       \/ Refused(Request(h)) /\ Goes(h, "start_failed")

\* sync_official_friend_gids: nothing is sent without friends or without the own GID.
AfterSync(h) ==
    IF sync[h].capture.friends # {} /\ sync[h].capture.own THEN "remove" ELSE "completed"

\* Mutant: it waits until the account runs.
PollForEver(h) ==
    /\ sync[h].pc = "poll"
    /\ \/ Goes(h, AfterSync(h)) \/ Goes(h, "failed")
       \/ Becomes(h, [sync[h] EXCEPT !.polls = (@ + 1) % (MaxPolls + 1)])
    /\ ServerUnchanged

\* The list is read until the account runs, MaxPolls times at most: then the result is
\* Ok all the same.
Poll(h) ==
    /\ sync[h].pc = "poll"
    /\ \/ Goes(h, AfterSync(h))
       \/ sync[h].polls < MaxPolls /\ Becomes(h, [sync[h] EXCEPT !.polls = @ + 1])
       \/ sync[h].polls < MaxPolls /\ Goes(h, "failed")
    /\ ServerUnchanged

-----------------------------------------------------------------------------
(* The friend GIDs; what fails here is told in the detail of "completed"    *)

\* remove_friend_gids.
RemoveOwn(h) ==
    /\ sync[h].pc = "remove"
    /\ \/ Answered(Request(h)) /\ Becomes(h, [sync[h] EXCEPT !.pc = "add", !.removed = TRUE])
       \/ Refused(Request(h)) /\ Goes(h, "add")

\* send_friend_gids, unless there is none or validate_friend_gids refuses their number.
AddFriends(h) ==
    /\ sync[h].pc = "add"
    /\ IF Cardinality(Friends(h)) \in 1 .. MaxGids
       THEN \/ Answered(Request(h)) /\ Becomes(h, [sync[h] EXCEPT !.pc = "completed", !.added = TRUE])
            \/ Refused(Request(h)) /\ Goes(h, "completed")
       ELSE Goes(h, "completed") /\ ServerUnchanged

\* The session is stopped or the helper dies, before or during a request; what becomes
\* of the exchange is as if it had failed, only that nobody is told.
Abort(h) ==
    /\ sync[h].pc \in Running
    /\ Goes(h, "failed")
    /\ \/ ServerUnchanged
       \/ sync[h].pc \in Writing /\ Refused(Request(h))

-----------------------------------------------------------------------------

HelperStep(h) ==
    \/ ReadUser(h) \/ ReadAccounts(h) \/ PostCode(h) \/ StartAccount(h) \/ Poll(h)
    \/ RemoveOwn(h) \/ AddFriends(h)

\* A request without a client is served, or lost on its way.
ServeLate ==
    \E r \in late :
        /\ late' = late \ {r}
        /\ Serve(r) \/ UNCHANGED <<accounts, nextId>>
        /\ UNCHANGED <<sync, delayed>>

\* The owner deletes an account on the server's page.
DeleteAccount(id) ==
    /\ Cardinality(1 .. nextId - 1 \ DOMAIN accounts) < MaxDeletes
    /\ accounts' = [other \in DOMAIN accounts \ {id} |-> accounts[other]]
    /\ UNCHANGED <<nextId, sync, late, delayed>>

Next ==
    \/ \E h \in Helpers : Begin(h) \/ HelperStep(h) \/ Abort(h)
    \/ ServeLate
    \/ \E id \in DOMAIN accounts : DeleteAccount(id)

\* Every request has a time limit.
Spec == Init /\ [][Next]_vars /\ \A h \in Helpers : WF_vars(HelperStep(h))

-----------------------------------------------------------------------------
(* Properties *)

\* "避免覆盖其他用户账号": whatever is refused, lost or late, an account holds only
\* Codes and friends of its own QQ account, written for a user who may write it.
WritesToOwnAccount ==
    \A id \in DOMAIN accounts :
        LET account == accounts[id] IN
        /\ account.login # NoLogin => Usable(account, account.login.qq, User[account.login.helper])
        /\ account.gids \subseteq {account.qq} \X Gids

\* A Code goes to the earliest account that its user has for the QQ account; so a
\* second account is never created for one whose first was created by a request whose
\* answer was lost.  Not so when a request outlives its client.
GoesToEarliest ==
    [][ ~delayed' => \A id \in DOMAIN accounts' :
          LET new == accounts'[id] IN
          (id \notin DOMAIN accounts \/ new.login # accounts[id].login) =>
              \A other \in DOMAIN accounts :
                  Usable(accounts[other], new.login.qq, User[new.login.helper])
                      => id <= other ]_vars

\* An account without a user is every admin's (existing_qq_account), so the Code that
\* another admin sends for the same QQ account takes the place of this helper's.
TakenOver(h, account) ==
    /\ account.owner = NoOne
    /\ \E other \in Helpers :
          /\ account.login.helper = other /\ User[other] # User[h]
          /\ {User[h], User[other]} \subseteq Admins

HasCode(h, account) == account.login = Login(h) \/ TakenOver(h, account)

\* What the window reports is so on the server, as long as the account is there and
\* no request is late: "completed" means that the account has this login's Code, or
\* that of another admin who shares it, that it was started, is without its own GID,
\* and has the friends that are said to be added; a failed start means that the Code
\* is there.  No other helper's requests undo any of it.
ResultsAreTrue ==
    \A h \in Helpers :
        sync[h].pc \in {"completed", "start_failed"} /\ ~delayed /\ sync[h].id \in DOMAIN accounts =>
            LET account == accounts[sync[h].id]
                gids == {g[2] : g \in account.gids}
            IN  /\ HasCode(h, account)
                /\ sync[h].pc = "completed" => account.started
                /\ sync[h].removed => sync[h].qq \notin gids
                /\ sync[h].added => sync[h].capture.friends \ {sync[h].qq} \subseteq gids

\* An exchange ends, however long the account takes to run.
SyncsEnd == \A h \in Helpers : []<>(sync[h].pc \in Ended)

=============================================================================
