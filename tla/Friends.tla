------------------------------ MODULE Friends -------------------------------
(* The friend service: MySQLHandler::ExecuteFriendCommand with mutate and   *)
(* lockPair, the gateway's frames 220 to 225 that call it, and the notices  *)
(* (frame 230) the gateway sends to both accounts after a success.          *)
(*                                                                          *)
(* A mutation is one READ COMMITTED transaction that holds the row of its   *)
(* pair in friend_pairs to its end; what it plans becomes visible at        *)
(* COMMIT.  The answer may be lost: the gateway's deadline passes, COMMIT   *)
(* loses its answer, clearedConversations throws, or the client disconnects.*)
(* The transaction goes on, and the client repeats the command in a call of *)
(* its own; when it gave up makes no difference to what the call does.      *)
(*                                                                          *)
(* The message of an application and the times are left out.  The client is *)
(* external: it lists its applications after a login and at each notice.    *)
EXTENDS Integers, FiniteSetsExt

CONSTANTS
    Accounts,
    Pairs,      \* bound: pairs of accounts that deal with each other
    Listers,    \* bound: accounts whose client logs in and lists
    Leavers,    \* bound: accounts that delete friends, which works both ways
    Calls,      \* calls that may be under way at one time
    MaxApps,    \* bound: friend_applications ever inserted
    Limit,      \* rows of a page
    None        \* nobody holds a lock

ASSUME FriendsAssumption ==
    /\ Listers \subseteq Accounts /\ Leavers \subseteq Accounts /\ None \notin Calls
    /\ Pairs \subseteq {{a, b} : a, b \in Accounts} \ {{a} : a \in Accounts}
    /\ MaxApps \in Nat /\ Limit \in Nat \ {0}

VARIABLES
    apps,       \* friend_applications: committed rows by id
    lastApp,    \* its AUTO_INCREMENT counter
    friends,    \* friends: pairs owner, friend
    deletions,  \* friend_chat_deletions: the mark of a pair, 0 if none
    cleanup,    \* cutoff of the last QueueConversationCleanup of a pair
    pairLock,   \* friend_pairs: who holds the row of a pair
    pc,         \* where a call is
    cmd,        \* its command
    plan,       \* what its transaction will write
    current,    \* history: calls after whose transaction the pair is unchanged
    online,     \* WSSessionManager::hasSession
    stale,      \* history: online accounts not yet told of a change
    list        \* paged listing of an account, with the rows it still owes

tables == <<apps, lastApp, friends, deletions, cleanup>>
callVars == <<pc, cmd, plan, current>>
clientVars == <<online, stale, list>>
vars == <<tables, pairLock, callVars, clientVars>>

AppIds == 1..MaxApps
Pending == 0
Accepted == 1
Rejected == 2
App(from, to, era) == [from |-> from, to |-> to, status |-> Pending, era |-> era]
Command(op, actor, target, app) ==
    [op |-> op, actor |-> actor, target |-> target, app |-> app]
NoCommand == Command("none", None, None, 0)
Plan(write, app) == [write |-> write, app |-> app]
NoPlan == Plan("nothing", 0)
NoList == [at |-> "off", after |-> 0, snapshot |-> 0, owed |-> {}]

Commands == [op : {"none", "apply", "delete", "accept", "reject"},
             actor : Accounts \cup {None}, target : Accounts \cup {None},
             app : 0..MaxApps]

(* The era of an application, a history value, counts the deletions of its  *)
(* pair before it.                                                          *)
TypeOK ==
    /\ lastApp \in 0..MaxApps /\ DOMAIN apps \subseteq 1..lastApp
    /\ \A i \in DOMAIN apps : apps[i] \in
        [from : Accounts, to : Accounts, status : {Pending, Accepted, Rejected}, era : Nat]
    /\ friends \subseteq Accounts \X Accounts
    /\ deletions \in [Pairs -> Nat] /\ cleanup \in [Pairs -> Nat]
    /\ pairLock \in [Pairs -> Calls \cup {None}]
    /\ pc \in [Calls -> {"idle", "lock", "work", "commit", "reply", "ok"}]
    /\ cmd \in [Calls -> Commands]
    /\ plan \in [Calls -> [write : {"nothing", "insert", "delete", "accept", "reject"},
                           app : 0..MaxApps]]
    /\ current \subseteq Calls
    /\ online \subseteq Listers
    /\ stale \subseteq online \X Accounts
    /\ list \in [Listers -> [at : {"off", "page", "end"}, after : 0..MaxApps,
                             snapshot : 0..MaxApps, owed : SUBSET AppIds]]

Init ==
    /\ apps = <<>> /\ lastApp = 0 /\ friends = {}
    /\ deletions = [p \in Pairs |-> 0] /\ cleanup = [p \in Pairs |-> 0]
    /\ pairLock = [p \in Pairs |-> None]
    /\ pc = [c \in Calls |-> "idle"]
    /\ cmd = [c \in Calls |-> NoCommand]
    /\ plan = [c \in Calls |-> NoPlan]
    /\ current = {} /\ online = {} /\ stale = {}
    /\ list = [a \in Listers |-> NoList]

-----------------------------------------------------------------------------
(* Calls.                                                                   *)

Actor(c) == cmd[c].actor
Target(c) == cmd[c].target
Pair(c) == {Actor(c), Target(c)}
Both(a, b) == {<<a, b>>, <<b, a>>}
SamePair(c) == {d \in Calls : cmd[d].op # "none" /\ Pair(d) = Pair(c)}

(* A command arrives.                                                       *)
Begin(c, command) ==
    /\ pc[c] \in {"idle", "ok"}
    /\ pc' = [pc EXCEPT ![c] = "lock"]
    /\ cmd' = [cmd EXCEPT ![c] = command]
    /\ plan' = [plan EXCEPT ![c] = NoPlan]
    /\ current' = current \ {c}
    /\ UNCHANGED <<tables, pairLock, clientVars>>

Apply(c) ==
    \E a, b \in Accounts : {a, b} \in Pairs /\ Begin(c, Command("apply", a, b, 0))

DeleteFriend(c) ==
    \E a \in Leavers, b \in Accounts : {a, b} \in Pairs /\ Begin(c, Command("delete", a, b, 0))

(* The application is read, for its sender and to refuse anyone but its     *)
(* recipient, before the pair is locked; a refusal changes nothing.         *)
HandleApplication(c) ==
    \E i \in DOMAIN apps, op \in {"accept", "reject"} :
        Begin(c, Command(op, apps[i].to, apps[i].from, i))

(* Mutant of LockPair: nothing is locked.                                   *)
LockNothing(c) ==
    /\ pc[c] = "lock" /\ pc' = [pc EXCEPT ![c] = "work"]
    /\ UNCHANGED <<tables, pairLock, cmd, plan, current, clientVars>>

LockPair(c) ==
    /\ pc[c] = "lock" /\ pairLock[Pair(c)] = None
    /\ pairLock' = [pairLock EXCEPT ![Pair(c)] = c]
    /\ pc' = [pc EXCEPT ![c] = "work"]
    /\ UNCHANGED <<tables, cmd, plan, current, clientVars>>

(* The transaction ends and its lock goes.                                  *)
Unlock(c) == pairLock' = [p \in Pairs |-> IF pairLock[p] = c THEN None ELSE pairLock[p]]

(* The call is over, without success as far as the client can tell.         *)
Forget(c) ==
    /\ pc' = [pc EXCEPT ![c] = "idle"] /\ cmd' = [cmd EXCEPT ![c] = NoCommand]
    /\ plan' = [plan EXCEPT ![c] = NoPlan]
    /\ current' = current \ {c}

(* FriendError, or DB_ERROR: rolled back and answered, nobody is told.      *)
Refuse(c) ==
    /\ Forget(c) /\ Unlock(c)
    /\ UNCHANGED <<apps, friends, deletions, cleanup, clientVars>>

Planned(c, p) ==
    /\ pc' = [pc EXCEPT ![c] = "commit"]
    /\ plan' = [plan EXCEPT ![c] = p]
    /\ UNCHANGED <<apps, friends, deletions, cleanup, pairLock, cmd, current, clientVars>>

PendingFrom(a, b) ==
    {i \in DOMAIN apps : apps[i].from = a /\ apps[i].to = b /\ apps[i].status = Pending}

(* mutate, Apply: a pending application of the same direction is answered   *)
(* again.                                                                   *)
WorkApply(c) ==
    /\ pc[c] = "work" /\ cmd[c].op = "apply"
    /\ \/ /\ <<Actor(c), Target(c)>> \in friends
          /\ Refuse(c) /\ UNCHANGED lastApp
       \/ /\ <<Actor(c), Target(c)>> \notin friends
          /\ PendingFrom(Actor(c), Target(c)) # {}
          /\ \E i \in PendingFrom(Actor(c), Target(c)) : Planned(c, Plan("nothing", i))
          /\ UNCHANGED lastApp
       \/ /\ <<Actor(c), Target(c)>> \notin friends
          /\ PendingFrom(Actor(c), Target(c)) = {} /\ lastApp < MaxApps
          /\ lastApp' = lastApp + 1
          /\ Planned(c, Plan("insert", lastApp'))

(* mutate, DeleteFriend.                                                    *)
WorkDelete(c) ==
    /\ pc[c] = "work" /\ cmd[c].op = "delete"
    /\ IF Both(Actor(c), Target(c)) \cap friends # {} THEN Planned(c, Plan("delete", 0))
       ELSE Planned(c, NoPlan)
    /\ UNCHANGED lastApp

Wanted(c) == IF cmd[c].op = "accept" THEN Accepted ELSE Rejected

(* mutate, HandleApplication: the decision already taken is answered again, *)
(* another one is refused.                                                  *)
WorkHandle(c) ==
    /\ pc[c] = "work" /\ cmd[c].op \in {"accept", "reject"}
    /\ LET i == cmd[c].app
           status == apps[i].status
       IN IF status = Pending THEN Planned(c, Plan(cmd[c].op, i))
          ELSE IF status = Wanted(c) THEN Planned(c, Plan("nothing", i))
          ELSE Refuse(c)
    /\ UNCHANGED lastApp

-----------------------------------------------------------------------------
(* What a transaction writes.                                               *)

Insert(c) ==
    /\ apps' = [i \in DOMAIN apps \cup {plan[c].app} |->
                  IF i = plan[c].app THEN App(Actor(c), Target(c), deletions[Pair(c)])
                  ELSE apps[i]]
    /\ UNCHANGED <<friends, deletions, cleanup>>

Decide(c) ==
    /\ apps' = IF apps[plan[c].app].status = Pending
               THEN [apps EXCEPT ![plan[c].app].status = Wanted(c)] ELSE apps
    /\ friends' = IF plan[c].write = "accept" THEN friends \cup Both(Actor(c), Target(c))
                  ELSE friends
    /\ UNCHANGED <<deletions, cleanup>>

(* Mutant of Delete: pending applications survive the friendship.           *)
DeleteOnlyRows(c) ==
    /\ friends' = friends \ Both(Actor(c), Target(c))
    /\ deletions' = [deletions EXCEPT ![Pair(c)] = @ + 1]
    /\ cleanup' = [cleanup EXCEPT ![Pair(c)] = deletions'[Pair(c)]]
    /\ UNCHANGED apps

(* The rows go, the pair is marked, applications of both directions are     *)
(* rejected, and the conversation is cleaned up to the mark.                *)
Delete(c) ==
    /\ friends' = friends \ Both(Actor(c), Target(c))
    /\ deletions' = [deletions EXCEPT ![Pair(c)] = @ + 1]
    /\ apps' = [i \in DOMAIN apps |->
                 IF apps[i].status = Pending /\ {apps[i].from, apps[i].to} = Pair(c)
                 THEN [apps[i] EXCEPT !.status = Rejected] ELSE apps[i]]
    /\ cleanup' = [cleanup EXCEPT ![Pair(c)] = deletions'[Pair(c)]]

(* A repeated deletion queues the cleanup of the last mark again.           *)
WriteNothing(c) ==
    /\ cleanup' = IF cmd[c].op = "delete"
                  THEN [cleanup EXCEPT ![Pair(c)] = deletions[Pair(c)]] ELSE cleanup
    /\ UNCHANGED <<apps, friends, deletions>>

Commit(c) ==
    /\ pc[c] = "commit"
    /\ CASE plan[c].write = "insert" -> Insert(c)
         [] plan[c].write \in {"accept", "reject"} -> Decide(c)
         [] plan[c].write = "delete" -> Delete(c)
         [] plan[c].write = "nothing" -> WriteNothing(c)
    /\ IF plan[c].write = "nothing"
       THEN /\ current' = current \cup {c} /\ UNCHANGED stale
       ELSE /\ current' = (current \ SamePair(c)) \cup {c}
            /\ stale' = stale \cup {s \in Both(Actor(c), Target(c)) : s[1] \in online}
    /\ Unlock(c) /\ pc' = [pc EXCEPT ![c] = "reply"]
    /\ UNCHANGED <<lastApp, cmd, plan, online, list>>

(* A failure before COMMIT takes effect.                                    *)
Fails(c) ==
    /\ pc[c] \in {"lock", "work", "commit"}
    /\ Refuse(c) /\ UNCHANGED lastApp

(* The answer is lost; the client hears of a failure, or nothing.           *)
GivesUp(c) ==
    /\ pc[c] = "reply" /\ Forget(c)
    /\ UNCHANGED <<tables, pairLock, clientVars>>

(* Mutant of ChangedAccounts: only a command that changed something tells.  *)
ChangedByPlan(c) == IF plan[c].write = "nothing" THEN {} ELSE Pair(c)

(* reply.changedaccounts.                                                   *)
ChangedAccounts(c) == Pair(c)

(* The gateway answers its client and tells the accounts with a session.    *)
(* Of the plan only the application answered is kept.                       *)
Reply(c) ==
    /\ pc[c] = "reply" /\ pc' = [pc EXCEPT ![c] = "ok"]
    /\ stale' = {s \in stale : s[1] \notin ChangedAccounts(c) \cap online}
    /\ plan' = [plan EXCEPT ![c].write = "nothing"]
    /\ UNCHANGED <<tables, pairLock, cmd, current, online, list>>

-----------------------------------------------------------------------------
(* Clients that list their applications.                                    *)

Login(a) ==
    /\ a \notin online /\ online' = online \cup {a}
    /\ UNCHANGED <<tables, pairLock, callVars, stale, list>>

Logout(a) ==
    /\ a \in online
    /\ online' = online \ {a} /\ stale' = {s \in stale : s[1] # a}
    /\ list' = [list EXCEPT ![a] = NoList]
    /\ UNCHANGED <<tables, pairLock, callVars>>

RowsOf(a) == {i \in DOMAIN apps : a \in {apps[i].from, apps[i].to}}

(* ListApplications, first page: the snapshot is the highest id by now.     *)
Snapshot(a) ==
    /\ a \in online /\ list[a].at # "page"
    /\ list' = [list EXCEPT ![a] =
                 [at |-> "page", after |-> 0, snapshot |-> Max(RowsOf(a) \cup {0}),
                  owed |-> RowsOf(a)]]
    /\ stale' = {s \in stale : s[1] # a}
    /\ UNCHANGED <<tables, pairLock, callVars, online>>

(* Mutant of HasMore: a full page is taken for the last.                    *)
HasMoreBeyond(rows) == Cardinality(rows) > Limit + 1

(* One row more than the page is asked for.                                 *)
HasMore(rows) == Cardinality(rows) > Limit

(* ListApplications, the rows after the cursor.                             *)
Page(a) ==
    /\ a \in online /\ list[a].at = "page"
    /\ LET rows == {i \in RowsOf(a) : i > list[a].after /\ i <= list[a].snapshot}
           page == {i \in rows : Cardinality({j \in rows : j < i}) < Limit}
           owed == list[a].owed \ page
       IN list' = [list EXCEPT ![a] =
                    IF HasMore(rows)
                    THEN [@ EXCEPT !.after = Max(page), !.owed = owed]
                    ELSE [NoList EXCEPT !.at = "end", !.owed = owed]]
    /\ UNCHANGED <<tables, pairLock, callVars, online, stale>>

-----------------------------------------------------------------------------
Work(c) == WorkApply(c) \/ WorkDelete(c) \/ WorkHandle(c)

Next ==
    \/ \E c \in Calls :
        \/ Apply(c) \/ DeleteFriend(c) \/ HandleApplication(c)
        \/ LockPair(c) \/ Work(c) \/ Commit(c) \/ Fails(c) \/ GivesUp(c) \/ Reply(c)
    \/ \E a \in Listers : Login(a) \/ Logout(a) \/ Snapshot(a) \/ Page(a)

Spec == Init /\ [][Next]_vars

-----------------------------------------------------------------------------
(* Friends are friends by consent given since they last parted: both have   *)
(* the row, and the recipient of an application made after the last         *)
(* deletion has accepted it, whatever older or crossing applications are    *)
(* accepted, rejected or repeated meanwhile.                                *)
Consented ==
    \A f \in friends :
        /\ <<f[2], f[1]>> \in friends
        /\ \E i \in DOMAIN apps :
            /\ {apps[i].from, apps[i].to} = {f[1], f[2]}
            /\ apps[i].status = Accepted
            /\ apps[i].era = deletions[{f[1], f[2]}]

(* An account that hears that it accepted or rejected an application has:   *)
(* the application keeps that decision, and two calls with different        *)
(* decisions never both succeed.  One that hears that it applied has an     *)
(* application, and never two pending ones to the same account.             *)
AnswerHolds ==
    /\ \A c \in Calls : pc[c] = "ok" =>
        /\ cmd[c].op \in {"accept", "reject"} => apps[cmd[c].app].status = Wanted(c)
        /\ cmd[c].op = "apply" => plan[c].app \in DOMAIN apps
    /\ \A i, j \in DOMAIN apps :
        (i # j /\ apps[i].status = Pending /\ apps[j].status = Pending) =>
            apps[i].from # apps[j].from \/ apps[i].to # apps[j].to

(* Once a command has been answered with success and nothing has changed    *)
(* since, no client of the pair shows the state before it: it was told,     *)
(* or has listed since, also when the change was made by an earlier call    *)
(* whose answer was lost, and when its session opened meanwhile.            *)
OkMeansTold ==
    \A c \in current : pc[c] = "ok" =>
        stale \cap Both(Actor(c), Target(c)) = {}

(* A listing in pages misses no application that was there when it began,   *)
(* whatever is applied, decided and deleted meanwhile, also when calls that *)
(* took lower ids commit between the pages.                                 *)
ListingComplete ==
    \A a \in Listers : list[a].at = "end" => list[a].owed = {}
=============================================================================
