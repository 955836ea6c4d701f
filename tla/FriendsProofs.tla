--------------------------- MODULE FriendsProofs ----------------------------
(* Friendship is by consent, an answer holds, whoever hears of a success    *)
(* is not shown the state before it, and a listing in pages misses nothing, *)
(* for any number of accounts, pairs, calls and applications.               *)
EXTENDS Friends, FiniteSetTheorems, WellFoundedInduction, TLAPS

(* A call after its BEGIN: whom it is about, and the application it handles.*)
CallsOK ==
    \A c \in Calls :
        /\ pc[c] # "idle" =>
            /\ cmd[c].op # "none"
            /\ Actor(c) \in Accounts /\ Target(c) \in Accounts /\ Pair(c) \in Pairs
        /\ cmd[c].op \in {"accept", "reject"} =>
            /\ cmd[c].app \in DOMAIN apps
            /\ apps[cmd[c].app].to = Actor(c) /\ apps[cmd[c].app].from = Target(c)

(* A transaction under way holds the row of its pair.                       *)
LocksOK == \A c \in Calls : pc[c] \in {"work", "commit"} => pairLock[Pair(c)] = c

(* An application is between a pair that deals with each other, and one     *)
(* that is pending was made after the last deletion.                        *)
AppsOK ==
    \A i \in DOMAIN apps :
        /\ {apps[i].from, apps[i].to} \in Pairs
        /\ apps[i].status = Pending => apps[i].era = deletions[{apps[i].from, apps[i].to}]

OnePending ==
    \A i, j \in DOMAIN apps :
        (i # j /\ apps[i].status = Pending /\ apps[j].status = Pending) =>
            apps[i].from # apps[j].from \/ apps[i].to # apps[j].to

(* What the command of a call asks for is the case.                         *)
Settled(c) ==
    /\ cmd[c].op \in {"accept", "reject"} => apps[cmd[c].app].status = Wanted(c)
    /\ cmd[c].op = "apply" => plan[c].app \in DOMAIN apps

(* What a transaction planned is still right when it commits.               *)
PlanOK(c) ==
    /\ plan[c].write = "insert" =>
        /\ cmd[c].op = "apply" /\ PendingFrom(Actor(c), Target(c)) = {}
        /\ plan[c].app \in 1..lastApp /\ plan[c].app \notin DOMAIN apps
    /\ plan[c].write \in {"accept", "reject"} =>
        /\ cmd[c].op = plan[c].write /\ plan[c].app = cmd[c].app
        /\ apps[cmd[c].app].status = Pending
    /\ plan[c].write = "delete" => cmd[c].op = "delete"
    /\ plan[c].write = "nothing" => Settled(c)

Inserts(c) == pc[c] = "commit" /\ plan[c].write = "insert"

PlansOK ==
    /\ \A c \in Calls : pc[c] = "commit" => PlanOK(c)
    /\ \A c \in Calls : pc[c] \in {"reply", "ok"} => Settled(c)
    /\ \A c, d \in Calls : (Inserts(c) /\ Inserts(d) /\ c # d) => plan[c].app # plan[d].app

(* A listing under way still owes only rows it has not passed.              *)
Ahead(a) == {i \in RowsOf(a) : i > list[a].after /\ i <= list[a].snapshot}
PagesOK == \A a \in Listers : list[a].at = "page" => list[a].owed \subseteq Ahead(a)

Inv ==
    /\ TypeOK /\ CallsOK /\ LocksOK /\ AppsOK /\ OnePending /\ PlansOK
    /\ Consented /\ OkMeansTold /\ PagesOK /\ ListingComplete

-----------------------------------------------------------------------------
(* A bounded set of ids that is not empty has a highest and a lowest one.   *)
LEMMA LowestId ==
    ASSUME NEW S, S \subseteq Nat, S # {}
    PROVE  \E x \in S : \A y \in S : x <= y
<1> DEFINE R == OpToRel(<, Nat)
<1>1. IsWellFoundedOn(R, Nat)
  BY NatLessThanWellFounded
<1>2. \A x, y \in Nat : <<y, x>> \in R <=> y < x
  BY DEF OpToRel
<1> HIDE DEF R
<1>3. PICK x \in S : \A y \in S : ~ (<<y, x>> \in R)
  BY <1>1, WFMin
<1>4. ASSUME NEW y \in S PROVE x <= y
  <2>1. x \in Nat /\ y \in Nat
    OBVIOUS
  <2>2. ~(y < x)
    BY <1>2, <1>3, <2>1
  <2> QED BY <2>1, <2>2
<1> QED BY <1>4

LEMMA HighestId ==
    ASSUME NEW n \in Nat, NEW S, S \subseteq 0..n, S # {}
    PROVE  Max(S) \in S /\ \A y \in S : y <= Max(S)
<1> DEFINE T == {n - x : x \in S}
<1>1. T \subseteq Nat /\ T # {}
  <2>1. \A x \in S : n - x \in Nat
    OBVIOUS
  <2> QED BY <2>1
<1>2. PICK z \in T : \A y \in T : z <= y
  BY <1>1, LowestId
<1>3. PICK x \in S : z = n - x
  BY <1>2
<1>4. \A y \in S : x >= y
  <2> SUFFICES ASSUME NEW y \in S PROVE x >= y
    OBVIOUS
  <2>1. n - x <= n - y
    BY <1>2, <1>3
  <2> QED BY <2>1
<1>5. Max(S) \in S /\ \A y \in S : Max(S) >= y
  BY <1>4 DEF Max
<1> QED BY <1>5

(* The first rows of a page are those that fewer than Limit precede: all    *)
(* that are left when there are no more, else all up to the highest of them.*)
LEMMA PageTakesFirst ==
    ASSUME NEW rows \in SUBSET AppIds, NEW page,
           page = {i \in rows : Cardinality({j \in rows : j < i}) < Limit}
    PROVE  /\ ~HasMore(rows) => page = rows
           /\ HasMore(rows) => /\ Max(page) \in page
                               /\ \A i \in rows \ page : i > Max(page)
<1> DEFINE Below(i) == {j \in rows : j < i}
<1>0. rows \subseteq 0..MaxApps /\ MaxApps \in Nat /\ Limit \in Nat /\ Limit > 0
  BY FriendsAssumption DEF AppIds
<1>1. IsFiniteSet(rows) /\ Cardinality(rows) \in Nat
  <2>1. IsFiniteSet(AppIds)
    BY <1>0, FS_Interval DEF AppIds
  <2>2. IsFiniteSet(rows)
    BY <2>1, FS_Subset
  <2> QED BY <2>2, FS_CardinalityType
<1>2. \A i : /\ IsFiniteSet(Below(i)) /\ Cardinality(Below(i)) \in Nat
             /\ Below(i) \in SUBSET rows
             /\ Cardinality(Below(i)) <= Cardinality(rows)
             /\ Cardinality(Below(i)) = Cardinality(rows) => Below(i) = rows
  <2> SUFFICES ASSUME NEW i
               PROVE  /\ IsFiniteSet(Below(i)) /\ Cardinality(Below(i)) \in Nat
                      /\ Below(i) \in SUBSET rows
                      /\ Cardinality(Below(i)) <= Cardinality(rows)
                      /\ Cardinality(Below(i)) = Cardinality(rows) => Below(i) = rows
    OBVIOUS
  <2>1. Below(i) \in SUBSET rows
    OBVIOUS
  <2> HIDE DEF Below
  <2>2. /\ IsFiniteSet(Below(i)) /\ Cardinality(Below(i)) <= Cardinality(rows)
        /\ Cardinality(rows) = Cardinality(Below(i)) => rows = Below(i)
    BY <1>1, <2>1, FS_Subset
  <2> QED BY <2>1, <2>2, FS_CardinalityType
<1>3. \A i \in rows : i \notin Below(i)
  BY <1>0
<1>4. ASSUME NEW i \in rows, NEW k \in rows, i < k PROVE Below(i) \in SUBSET Below(k)
  <2>1. \A j \in rows : j < i => j < k
    BY <1>0, <1>4
  <2> QED BY <2>1
<1>5. page = {i \in rows : Cardinality(Below(i)) < Limit}
  OBVIOUS
<1>6. ASSUME NEW i \in rows, \A k \in rows : i <= k PROVE Below(i) = {}
  <2>1. \A j \in rows : ~(j < i)
    BY <1>0, <1>6
  <2> QED BY <2>1
<1> HIDE DEF Below
<1>7. ASSUME ~HasMore(rows) PROVE page = rows
  <2>1. \A i \in rows : Cardinality(Below(i)) < Limit
    BY <1>0, <1>1, <1>2, <1>3, <1>7 DEF HasMore
  <2> QED BY <1>5, <2>1
<1>8. ASSUME HasMore(rows) PROVE Max(page) \in page /\ \A i \in rows \ page : i > Max(page)
  <2>1. rows # {}
    BY <1>0, <1>8, FS_EmptySet DEF HasMore
  <2>2. PICK m \in rows : \A k \in rows : m <= k
    <3>1. rows \subseteq Nat
      BY <1>0
    <3> QED BY <2>1, <3>1, LowestId
  <2>3. m \in page
    BY <1>0, <1>5, <1>6, <2>2, FS_EmptySet
  <2>4. page \subseteq 0..MaxApps
    BY <1>0
  <2>5. Max(page) \in page
    BY <1>0, <2>3, <2>4, HighestId
  <2>6. ASSUME NEW i \in rows \ page PROVE i > Max(page)
    <3> DEFINE top == Max(page)
    <3>1. top \in rows /\ Cardinality(Below(top)) < Limit
      BY <1>5, <2>5
    <3> HIDE DEF top
    <3>2. ~(Cardinality(Below(i)) < Limit)
      BY <1>5, <2>6
    <3>3. i < top => Cardinality(Below(i)) <= Cardinality(Below(top))
      BY <1>2, <1>4, <3>1, FS_Subset
    <3>4. ~(i < top) /\ i # top
      BY <1>0, <1>2, <3>1, <3>2, <3>3
    <3>5. i > top
      BY <1>0, <3>1, <3>4
    <3> QED BY <3>5 DEF top
  <2> QED BY <2>5, <2>6
<1> QED BY <1>7, <1>8

-----------------------------------------------------------------------------
(* What a call, and a client, may do, with the choices resolved.            *)

Begins(c) ==
    \E command \in Commands :
        /\ Begin(c, command)
        /\ command.op # "none" /\ command.actor \in Accounts /\ command.target \in Accounts
        /\ {command.actor, command.target} \in Pairs
        /\ command.op \in {"accept", "reject"} =>
            /\ command.app \in DOMAIN apps
            /\ apps[command.app].to = command.actor
            /\ apps[command.app].from = command.target

(* A transaction has read the tables and knows what it will write.          *)
PlanFits(c, p) ==
    \/ p.write = "nothing" /\ UNCHANGED lastApp
       /\ (cmd[c].op \in {"accept", "reject"} => apps[cmd[c].app].status = Wanted(c))
       /\ (cmd[c].op = "apply" => p.app \in DOMAIN apps)
    \/ p.write = "insert" /\ cmd[c].op = "apply" /\ PendingFrom(Actor(c), Target(c)) = {}
       /\ lastApp < MaxApps /\ lastApp' = lastApp + 1 /\ p.app = lastApp'
    \/ p.write = "delete" /\ cmd[c].op = "delete" /\ UNCHANGED lastApp
    \/ p.write \in {"accept", "reject"} /\ cmd[c].op = p.write /\ p.app = cmd[c].app
       /\ apps[cmd[c].app].status = Pending /\ UNCHANGED lastApp

Plans == [write : {"nothing", "insert", "delete", "accept", "reject"}, app : 0..MaxApps]

CallStep(c) ==
    \/ Begins(c) \/ LockPair(c)
    \/ Refuse(c) /\ UNCHANGED lastApp
    \/ pc[c] = "work" /\ \E p \in Plans : Planned(c, p) /\ PlanFits(c, p)
    \/ Commit(c) \/ GivesUp(c) \/ Reply(c)

ClientStep(a) == Login(a) \/ Logout(a) \/ Snapshot(a) \/ Page(a)

LEMMA WorkCases ==
    ASSUME Inv, NEW c \in Calls, Work(c)
    PROVE  CallStep(c)
<1> USE FriendsAssumption
<1>0. TypeOK /\ CallsOK /\ cmd[c] \in Commands /\ lastApp \in 0..MaxApps /\ MaxApps \in Nat
      /\ DOMAIN apps \subseteq 1..lastApp
  BY DEF Inv, TypeOK
<1>1. CASE WorkApply(c)
  <2>1. CASE <<Actor(c), Target(c)>> \in friends
    BY <1>1, <2>1 DEF WorkApply, CallStep
  <2>2. CASE \E i \in PendingFrom(Actor(c), Target(c)) :
                Planned(c, Plan("nothing", i)) /\ UNCHANGED lastApp
    <3>1. PICK i \in PendingFrom(Actor(c), Target(c)) :
                Planned(c, Plan("nothing", i)) /\ UNCHANGED lastApp
      BY <2>2
    <3>2. i \in DOMAIN apps /\ i \in 0..MaxApps
      BY <1>0, <3>1 DEF PendingFrom
    <3>3. Plan("nothing", i) \in Plans /\ PlanFits(c, Plan("nothing", i))
      BY <1>1, <3>1, <3>2 DEF Plans, Plan, PlanFits, WorkApply
    <3> QED BY <1>1, <3>1, <3>3 DEF WorkApply, CallStep
  <2>3. CASE /\ PendingFrom(Actor(c), Target(c)) = {} /\ lastApp < MaxApps
             /\ lastApp' = lastApp + 1 /\ Planned(c, Plan("insert", lastApp'))
    <3>1. Plan("insert", lastApp') \in Plans /\ PlanFits(c, Plan("insert", lastApp'))
      BY <1>0, <1>1, <2>3 DEF Plans, Plan, PlanFits, WorkApply
    <3> QED BY <1>1, <2>3, <3>1 DEF WorkApply, CallStep
  <2> QED BY <1>1, <2>1, <2>2, <2>3 DEF WorkApply
<1>2. CASE WorkDelete(c)
  <2>1. PICK p \in {Plan("delete", 0), NoPlan} : Planned(c, p)
    BY <1>2 DEF WorkDelete
  <2>2. p \in Plans /\ PlanFits(c, p)
    BY <1>0, <1>2, <2>1 DEF Plans, Plan, NoPlan, PlanFits, WorkDelete
  <2> QED BY <1>2, <2>1, <2>2 DEF WorkDelete, CallStep
<1>3. CASE WorkHandle(c)
  <2> DEFINE status == apps[cmd[c].app].status
  <2>0. cmd[c].app \in 0..MaxApps
    BY <1>0 DEF Commands
  <2>1. CASE status = Pending
    <3>1. Planned(c, Plan(cmd[c].op, cmd[c].app)) /\ UNCHANGED lastApp
      BY <1>3, <2>1 DEF WorkHandle
    <3>2. /\ Plan(cmd[c].op, cmd[c].app) \in Plans
          /\ PlanFits(c, Plan(cmd[c].op, cmd[c].app))
      BY <1>3, <2>0, <2>1, <3>1 DEF WorkHandle, Plans, Plan, PlanFits
    <3> QED BY <1>3, <3>1, <3>2 DEF WorkHandle, CallStep
  <2>2. CASE status # Pending /\ status = Wanted(c)
    <3>1. Planned(c, Plan("nothing", cmd[c].app)) /\ UNCHANGED lastApp
      BY <1>3, <2>2 DEF WorkHandle
    <3>2. /\ Plan("nothing", cmd[c].app) \in Plans
          /\ PlanFits(c, Plan("nothing", cmd[c].app))
      BY <1>3, <2>0, <2>2, <3>1 DEF WorkHandle, Plans, Plan, PlanFits
    <3> QED BY <1>3, <3>1, <3>2 DEF WorkHandle, CallStep
  <2>3. CASE status # Pending /\ status # Wanted(c)
    BY <1>3, <2>3 DEF WorkHandle, CallStep
  <2> QED BY <2>1, <2>2, <2>3
<1> QED BY <1>1, <1>2, <1>3 DEF Work

LEMMA BeginCases ==
    ASSUME Inv, NEW c \in Calls, Apply(c) \/ DeleteFriend(c) \/ HandleApplication(c)
    PROVE  Begins(c)
<1> USE FriendsAssumption
<1>0. TypeOK /\ AppsOK /\ lastApp \in 0..MaxApps /\ DOMAIN apps \subseteq 1..lastApp
  BY DEF Inv, TypeOK
<1>1. CASE Apply(c)
  <2>1. PICK a, b \in Accounts : {a, b} \in Pairs /\ Begin(c, Command("apply", a, b, 0))
    BY <1>1 DEF Apply
  <2>2. Command("apply", a, b, 0) \in Commands
    BY DEF Command, Commands
  <2> QED BY <2>1, <2>2 DEF Begins, Command
<1>2. CASE DeleteFriend(c)
  <2>1. PICK a \in Leavers, b \in Accounts :
           {a, b} \in Pairs /\ Begin(c, Command("delete", a, b, 0))
    BY <1>2 DEF DeleteFriend
  <2>2. a \in Accounts
    OBVIOUS
  <2>3. Command("delete", a, b, 0) \in Commands
    BY <2>2 DEF Command, Commands
  <2> QED BY <2>1, <2>2, <2>3 DEF Begins, Command
<1>3. CASE HandleApplication(c)
  <2>1. PICK i \in DOMAIN apps, op \in {"accept", "reject"} :
           Begin(c, Command(op, apps[i].to, apps[i].from, i))
    BY <1>3 DEF HandleApplication
  <2>2. /\ apps[i].to \in Accounts /\ apps[i].from \in Accounts
        /\ {apps[i].to, apps[i].from} \in Pairs
    <3>1. {apps[i].to, apps[i].from} = {apps[i].from, apps[i].to}
      OBVIOUS
    <3> QED BY <1>0, <3>1 DEF TypeOK, AppsOK
  <2>3. i \in 0..MaxApps
    BY <1>0
  <2>4. Command(op, apps[i].to, apps[i].from, i) \in Commands
    BY <2>2, <2>3 DEF Command, Commands
  <2> QED BY <2>1, <2>2, <2>4 DEF Begins, Command
<1> QED BY <1>1, <1>2, <1>3

LEMMA StepCases ==
    ASSUME Inv, [Next]_vars
    PROVE  \/ \E c \in Calls : CallStep(c)
           \/ \E a \in Listers : ClientStep(a)
           \/ UNCHANGED vars
<1>1. ASSUME NEW c \in Calls, Fails(c) PROVE CallStep(c)
  BY <1>1 DEF Fails, CallStep
<1>2. ASSUME NEW c \in Calls, Apply(c) \/ DeleteFriend(c) \/ HandleApplication(c)
      PROVE  CallStep(c)
  BY <1>2, BeginCases DEF CallStep
<1>3. ASSUME NEW c \in Calls, LockPair(c) \/ Commit(c) \/ GivesUp(c) \/ Reply(c)
      PROVE  CallStep(c)
  BY <1>3 DEF CallStep
<1> QED BY <1>1, <1>2, <1>3, WorkCases DEF Next, ClientStep

-----------------------------------------------------------------------------
LEMMA InitInv == Init => Inv
<1> SUFFICES ASSUME Init PROVE Inv
  OBVIOUS
<1> USE FriendsAssumption
<1>1. TypeOK
  BY DEF Init, TypeOK, Commands, NoCommand, Command, NoPlan, Plan, NoList
<1>2. CallsOK /\ LocksOK /\ PlansOK
  BY DEF Init, CallsOK, LocksOK, PlansOK, Inserts, NoCommand, Command
<1>3. AppsOK /\ OnePending /\ Consented /\ OkMeansTold
  BY DEF Init, AppsOK, OnePending, Consented, OkMeansTold
<1>4. PagesOK /\ ListingComplete
  BY DEF Init, PagesOK, ListingComplete, NoList
<1> QED BY <1>1, <1>2, <1>3, <1>4 DEF Inv

(* The end of a transaction frees no lock of another one.                   *)
LEMMA UnlockKeeps ==
    ASSUME TypeOK, NEW c \in Calls, Unlock(c)
    PROVE  /\ pairLock' \in [Pairs -> Calls \cup {None}]
           /\ \A p \in Pairs : pairLock[p] # c => pairLock'[p] = pairLock[p]
  BY DEF TypeOK, Unlock

(* A call changes no other call.                                            *)
LEMMA Bystander ==
    ASSUME TypeOK, NEW c \in Calls, CallStep(c), NEW d \in Calls, d # c
    PROVE  /\ pc'[d] = pc[d] /\ cmd'[d] = cmd[d] /\ plan'[d] = plan[d]
           /\ d \in current' => d \in current
<1>1. CASE Begins(c)
  BY <1>1 DEF Begins, Begin, TypeOK
<1>2. CASE LockPair(c)
  BY <1>2 DEF LockPair, TypeOK
<1>3. CASE Refuse(c) \/ GivesUp(c)
  BY <1>3 DEF Refuse, GivesUp, Forget, TypeOK
<1>4. CASE \E p \in Plans : Planned(c, p)
  BY <1>4 DEF Planned, TypeOK
<1>5. CASE Commit(c)
  BY <1>5 DEF Commit, TypeOK
<1>6. CASE Reply(c)
  BY <1>6 DEF Reply, TypeOK
<1> QED BY <1>1, <1>2, <1>3, <1>4, <1>5, <1>6 DEF CallStep

(* Only a Commit writes applications, friends and marks.                    *)
LEMMA OnlyCommitWrites ==
    ASSUME NEW c \in Calls, CallStep(c), ~Commit(c)
    PROVE  UNCHANGED <<apps, friends, deletions>>
  BY DEF CallStep, Begins, Begin, LockPair, Refuse, Planned, GivesUp, Reply, tables

(* What a COMMIT does to applications: they stay, from and to whom and in   *)
(* which era they were made; only pending ones of the pair are decided; and *)
(* at most the planned one is added.                                        *)
AppsKeep(c) ==
    \A i \in DOMAIN apps :
        /\ i \in DOMAIN apps'
        /\ apps'[i].from = apps[i].from /\ apps'[i].to = apps[i].to
        /\ apps'[i].era = apps[i].era
        /\ apps[i].status # Pending => apps'[i].status = apps[i].status
        /\ apps'[i].status \in {Accepted, Rejected, apps[i].status}
        /\ {apps[i].from, apps[i].to} # Pair(c) => apps'[i].status = apps[i].status

AppsNew(c) ==
    \A i \in DOMAIN apps' :
        i \notin DOMAIN apps =>
            /\ plan[c].write = "insert" /\ i = plan[c].app
            /\ apps'[i].from = Actor(c) /\ apps'[i].to = Target(c)
            /\ apps'[i].status = Pending /\ apps'[i].era = deletions[Pair(c)]

LEMMA CommitApps ==
    ASSUME Inv, NEW c \in Calls, Commit(c)
    PROVE  /\ AppsKeep(c) /\ AppsNew(c)
           /\ \A i \in DOMAIN apps' : apps'[i] \in
               [from : Accounts, to : Accounts, status : {Pending, Accepted, Rejected}, era : Nat]
<1> DEFINE AppSet == [from : Accounts, to : Accounts,
                      status : {Pending, Accepted, Rejected}, era : Nat]
<1>0. /\ \A i \in DOMAIN apps : apps[i] \in AppSet
      /\ Actor(c) \in Accounts /\ Target(c) \in Accounts /\ Pair(c) \in Pairs
      /\ deletions[Pair(c)] \in Nat
      /\ plan[c] \in Plans
      /\ PlanOK(c)
  BY DEF Inv, TypeOK, CallsOK, PlansOK, Commit, Plans
<1>1. CASE plan[c].write = "insert"
  <2>1. Insert(c) /\ plan[c].app \notin DOMAIN apps
    BY <1>0, <1>1 DEF Commit, PlanOK
  <2>2. App(Actor(c), Target(c), deletions[Pair(c)]) \in AppSet
    BY <1>0 DEF App
  <2> QED BY <1>0, <1>1, <2>1, <2>2 DEF Insert, AppsKeep, AppsNew, App
<1>2. CASE plan[c].write \in {"accept", "reject"}
  <2>1. Decide(c)
    BY <1>2 DEF Commit
  <2>2. /\ plan[c].app = cmd[c].app /\ cmd[c].app \in DOMAIN apps
        /\ apps[plan[c].app].status = Pending
        /\ {apps[plan[c].app].from, apps[plan[c].app].to} = Pair(c)
    BY <1>0, <1>2 DEF PlanOK, Inv, CallsOK, Pair
  <2>3. apps' = [apps EXCEPT ![plan[c].app].status = Wanted(c)]
    BY <2>1, <2>2 DEF Decide
  <2>4. Wanted(c) \in {Accepted, Rejected}
    BY DEF Wanted
  <2> QED BY <1>0, <2>2, <2>3, <2>4 DEF AppsKeep, AppsNew
<1>3. CASE plan[c].write = "delete"
  <2>1. Delete(c)
    BY <1>3 DEF Commit
  <2> QED BY <1>0, <2>1 DEF Delete, AppsKeep, AppsNew
<1>4. CASE plan[c].write = "nothing"
  <2>1. UNCHANGED apps
    BY <1>4 DEF Commit, WriteNothing
  <2> QED BY <1>0, <2>1 DEF AppsKeep, AppsNew
<1> QED BY <1>0, <1>1, <1>2, <1>3, <1>4 DEF Plans

-----------------------------------------------------------------------------
(* Each conjunct of the invariant, for the steps of a call.                 *)

LEMMA CommitTypes ==
    ASSUME Inv, NEW c \in Calls, Commit(c)
    PROVE  TypeOK'
<1>0. /\ TypeOK /\ Actor(c) \in Accounts /\ Target(c) \in Accounts /\ Pair(c) \in Pairs
      /\ plan[c] \in Plans /\ PlanOK(c)
  BY DEF Inv, TypeOK, CallsOK, PlansOK, Commit, Plans
<1>1. /\ lastApp' \in 0..MaxApps /\ DOMAIN apps' \subseteq 1..lastApp'
      /\ \A i \in DOMAIN apps' : apps'[i] \in
          [from : Accounts, to : Accounts, status : {Pending, Accepted, Rejected}, era : Nat]
  <2>1. lastApp' = lastApp /\ DOMAIN apps \subseteq 1..lastApp /\ lastApp \in 0..MaxApps
    BY <1>0 DEF Commit, TypeOK
  <2>2. \A i \in DOMAIN apps' : i \in DOMAIN apps \/ i \in 1..lastApp
    BY <1>0, CommitApps DEF AppsNew, PlanOK
  <2> QED BY <2>1, <2>2, CommitApps
<1>2. /\ friends' \subseteq Accounts \X Accounts
      /\ deletions' \in [Pairs -> Nat] /\ cleanup' \in [Pairs -> Nat]
  <2>1. CASE plan[c].write = "insert"
    BY <1>0, <2>1 DEF Commit, Insert, TypeOK
  <2>2. CASE plan[c].write \in {"accept", "reject"}
    <3>1. Decide(c)
      BY <2>2 DEF Commit
    <3>2. Both(Actor(c), Target(c)) \subseteq Accounts \X Accounts
      BY <1>0 DEF Both
    <3> QED BY <1>0, <3>1, <3>2 DEF Decide, TypeOK
  <2>3. CASE plan[c].write = "delete"
    <3>1. Delete(c)
      BY <2>3 DEF Commit
    <3>2. deletions' \in [Pairs -> Nat] /\ deletions'[Pair(c)] \in Nat
      BY <1>0, <3>1 DEF Delete, TypeOK
    <3> QED BY <1>0, <3>1, <3>2 DEF Delete, TypeOK
  <2>4. CASE plan[c].write = "nothing"
    BY <1>0, <2>4 DEF Commit, WriteNothing, TypeOK
  <2> QED BY <1>0, <2>1, <2>2, <2>3, <2>4 DEF Plans
<1>3. pairLock' \in [Pairs -> Calls \cup {None}]
  BY <1>0, UnlockKeeps DEF Commit
<1>4. /\ pc' \in [Calls -> {"idle", "lock", "work", "commit", "reply", "ok"}]
      /\ UNCHANGED <<cmd, plan, online, list>>
  BY <1>0 DEF Commit, TypeOK
<1>5. current' \subseteq Calls
  BY <1>0 DEF Commit, TypeOK
<1>6. stale' \subseteq online' \X Accounts
  BY <1>0 DEF Commit, TypeOK, Both
<1> QED BY <1>0, <1>1, <1>2, <1>3, <1>4, <1>5, <1>6 DEF TypeOK

LEMMA CallTypes ==
    ASSUME Inv, NEW c \in Calls, CallStep(c)
    PROVE  TypeOK'
<1>0. TypeOK /\ MaxApps \in Nat
  BY FriendsAssumption DEF Inv
<1>1. CASE Begins(c)
  <2>1. PICK command \in Commands : Begin(c, command)
    BY <1>1 DEF Begins
  <2> QED BY <1>0, <2>1 DEF Begin, TypeOK, tables, clientVars, NoPlan, Plan
<1>2. CASE LockPair(c)
  <2>1. Pair(c) \in Pairs
    BY <1>2 DEF LockPair, Inv, CallsOK
  <2> QED BY <1>0, <1>2, <2>1 DEF LockPair, TypeOK, tables, clientVars
<1>3. CASE Refuse(c) /\ UNCHANGED lastApp
  BY <1>0, <1>3, UnlockKeeps
    DEF Refuse, Forget, TypeOK, clientVars, NoPlan, Plan, NoCommand, Command, Commands
<1>4. CASE \E p \in Plans : Planned(c, p) /\ PlanFits(c, p)
  <2>1. PICK p \in Plans : Planned(c, p) /\ PlanFits(c, p)
    BY <1>4
  <2>2. lastApp' \in {lastApp, lastApp + 1} /\ lastApp' \in 0..MaxApps
    BY <1>0, <2>1 DEF PlanFits, TypeOK
  <2>3. DOMAIN apps' \subseteq 1..lastApp'
    BY <1>0, <2>1, <2>2 DEF Planned, TypeOK
  <2> QED BY <1>0, <2>1, <2>2, <2>3 DEF Planned, TypeOK, clientVars, Plans
<1>5. CASE Commit(c)
  BY <1>5, CommitTypes
<1>6. CASE GivesUp(c)
  BY <1>0, <1>6
    DEF GivesUp, Forget, TypeOK, tables, clientVars, NoPlan, Plan, NoCommand, Command, Commands
<1>7. CASE Reply(c)
  BY <1>0, <1>7 DEF Reply, TypeOK, tables
<1> QED BY <1>1, <1>2, <1>3, <1>4, <1>5, <1>6, <1>7 DEF CallStep

(* No application is lost, or changes hands, in any step of a call.         *)
LEMMA AppsStay ==
    ASSUME Inv, NEW c \in Calls, CallStep(c)
    PROVE  \A i \in DOMAIN apps :
             /\ i \in DOMAIN apps'
             /\ apps'[i].from = apps[i].from /\ apps'[i].to = apps[i].to
             /\ apps[i].status # Pending => apps'[i].status = apps[i].status
<1>1. CASE Commit(c)
  BY <1>1, CommitApps DEF AppsKeep
<1>2. CASE ~Commit(c)
  BY <1>2, OnlyCommitWrites
<1> QED BY <1>1, <1>2

LEMMA CallsStep ==
    ASSUME Inv, NEW c \in Calls, CallStep(c)
    PROVE  CallsOK'
<1>0. TypeOK /\ CallsOK
  BY DEF Inv
<1> SUFFICES ASSUME NEW d \in Calls
             PROVE  /\ pc'[d] # "idle" =>
                        /\ cmd'[d].op # "none" /\ cmd'[d].actor \in Accounts
                        /\ cmd'[d].target \in Accounts
                        /\ {cmd'[d].actor, cmd'[d].target} \in Pairs
                    /\ cmd'[d].op \in {"accept", "reject"} =>
                        /\ cmd'[d].app \in DOMAIN apps'
                        /\ apps'[cmd'[d].app].to = cmd'[d].actor
                        /\ apps'[cmd'[d].app].from = cmd'[d].target
  BY DEF CallsOK, Actor, Target, Pair
<1>1. CASE d # c
  <2>1. pc'[d] = pc[d] /\ cmd'[d] = cmd[d]
    BY <1>0, <1>1, Bystander
  <2> QED BY <1>0, <2>1, AppsStay DEF CallsOK, Actor, Target, Pair
<1>2. CASE d = c /\ Begins(c)
  <2>1. apps' = apps
    BY <1>2 DEF Begins, Begin, tables
  <2>2. PICK command \in Commands :
        /\ Begin(c, command)
        /\ command.op # "none" /\ command.actor \in Accounts /\ command.target \in Accounts
        /\ {command.actor, command.target} \in Pairs
        /\ command.op \in {"accept", "reject"} =>
            /\ command.app \in DOMAIN apps
            /\ apps[command.app].to = command.actor
            /\ apps[command.app].from = command.target
    BY <1>2 DEF Begins
  <2>3. cmd'[c] = command
    BY <1>0, <2>2 DEF Begin, TypeOK
  <2> QED BY <1>2, <2>1, <2>2, <2>3
<1>3. CASE d = c /\ (Refuse(c) \/ GivesUp(c))
  BY <1>0, <1>3 DEF Refuse, GivesUp, Forget, TypeOK, NoCommand, Command
<1>4. CASE d = c /\ cmd' = cmd /\ pc[c] # "idle"
  BY <1>0, <1>4, AppsStay DEF CallsOK, Actor, Target, Pair
<1> QED BY <1>1, <1>2, <1>3, <1>4 DEF CallStep, LockPair, Planned, Commit, Reply

LEMMA LocksStep ==
    ASSUME Inv, NEW c \in Calls, CallStep(c)
    PROVE  LocksOK'
<1>0. TypeOK /\ CallsOK /\ LocksOK /\ None \notin Calls
  BY FriendsAssumption DEF Inv
<1> SUFFICES ASSUME NEW d \in Calls, pc'[d] \in {"work", "commit"}
             PROVE  pairLock'[{cmd'[d].actor, cmd'[d].target}] = d
  BY DEF LocksOK, Pair, Actor, Target
<1>1. CASE d # c
  <2>1. pc'[d] = pc[d] /\ cmd'[d] = cmd[d] /\ pairLock[Pair(d)] = d /\ Pair(d) \in Pairs
    BY <1>0, <1>1, Bystander DEF LocksOK, CallsOK
  <2>2. pairLock'[Pair(d)] = d
    <3>1. CASE pairLock' = pairLock
      BY <2>1, <3>1
    <3>2. CASE Unlock(c)
      BY <1>0, <1>1, <2>1, <3>2, UnlockKeeps
    <3>3. CASE LockPair(c)
      BY <1>0, <2>1, <3>3 DEF LockPair, TypeOK
    <3> QED BY <3>1, <3>2, <3>3
          DEF CallStep, Begins, Begin, Refuse, Planned, Commit, GivesUp, Reply
  <2> QED BY <2>1, <2>2 DEF Pair, Actor, Target
<1>2. CASE d = c /\ LockPair(c)
  <2>1. Pair(c) \in Pairs
    BY <1>0, <1>2 DEF LockPair, CallsOK
  <2> QED BY <1>0, <1>2, <2>1 DEF LockPair, TypeOK, Pair, Actor, Target
<1>3. CASE d = c /\ \E p \in Plans : pc[c] = "work" /\ Planned(c, p)
  BY <1>0, <1>3 DEF Planned, LocksOK, Pair, Actor, Target
<1>4. CASE d = c /\ (Begins(c) \/ Refuse(c) \/ Commit(c) \/ GivesUp(c) \/ Reply(c))
  BY <1>0, <1>4 DEF Begins, Begin, Refuse, Forget, Commit, GivesUp, Reply, TypeOK
<1> QED BY <1>1, <1>2, <1>3, <1>4 DEF CallStep

(* Marks of other pairs are left alone, and the pair's own is renewed only  *)
(* when all its applications are decided.                                   *)
LEMMA CommitMarks ==
    ASSUME Inv, NEW c \in Calls, Commit(c)
    PROVE  \/ UNCHANGED deletions
           \/ /\ plan[c].write = "delete"
              /\ \A p \in Pairs : p # Pair(c) => deletions'[p] = deletions[p]
              /\ \A i \in DOMAIN apps :
                   {apps[i].from, apps[i].to} = Pair(c) => apps'[i].status # Pending
<1>0. plan[c] \in Plans /\ TypeOK
  BY DEF Inv, TypeOK, Plans
<1>1. CASE plan[c].write = "delete"
  <2>1. Delete(c)
    BY <1>1 DEF Commit
  <2> QED BY <1>0, <1>1, <2>1 DEF Delete, TypeOK, Pending, Rejected
<1>2. CASE plan[c].write # "delete"
  BY <1>0, <1>2 DEF Commit, Insert, Decide, WriteNothing, Plans
<1> QED BY <1>1, <1>2

LEMMA AppsStep ==
    ASSUME Inv, NEW c \in Calls, CallStep(c)
    PROVE  AppsOK'
<1>0. TypeOK /\ AppsOK /\ CallsOK
  BY DEF Inv
<1>1. CASE ~Commit(c)
  BY <1>0, <1>1, OnlyCommitWrites DEF AppsOK
<1>2. CASE Commit(c)
  <2>0. Pair(c) \in Pairs
    BY <1>0, <1>2 DEF CallsOK, Commit
  <2> SUFFICES ASSUME NEW i \in DOMAIN apps'
               PROVE  /\ {apps'[i].from, apps'[i].to} \in Pairs
                      /\ apps'[i].status = Pending =>
                           apps'[i].era = deletions'[{apps'[i].from, apps'[i].to}]
    BY DEF AppsOK
  <2>1. CASE i \notin DOMAIN apps
    <3>1. /\ plan[c].write = "insert" /\ {apps'[i].from, apps'[i].to} = Pair(c)
          /\ apps'[i].era = deletions[Pair(c)]
      BY <1>2, <2>1, CommitApps DEF AppsNew, Pair
    <3>2. UNCHANGED deletions
      BY <1>2, <3>1, CommitMarks
    <3> QED BY <2>0, <3>1, <3>2
  <2>2. CASE i \in DOMAIN apps
    <3>1. /\ {apps'[i].from, apps'[i].to} = {apps[i].from, apps[i].to}
          /\ apps'[i].era = apps[i].era
          /\ apps'[i].status = Pending => apps[i].status = Pending
      BY <1>2, <2>2, CommitApps DEF AppsKeep, Pending, Accepted, Rejected
    <3>2. /\ {apps[i].from, apps[i].to} \in Pairs
          /\ apps[i].status = Pending => apps[i].era = deletions[{apps[i].from, apps[i].to}]
      BY <1>0, <2>2 DEF AppsOK
    <3>3. apps'[i].status = Pending =>
            deletions'[{apps[i].from, apps[i].to}] = deletions[{apps[i].from, apps[i].to}]
      BY <1>2, <2>2, <3>2, CommitMarks
    <3> QED BY <3>1, <3>2, <3>3
  <2> QED BY <2>1, <2>2
<1> QED BY <1>1, <1>2

LEMMA OnePendingStep ==
    ASSUME Inv, NEW c \in Calls, CallStep(c)
    PROVE  OnePending'
<1>0. OnePending /\ PlansOK
  BY DEF Inv
<1>1. CASE ~Commit(c)
  BY <1>0, <1>1, OnlyCommitWrites DEF OnePending
<1>2. CASE Commit(c)
  <2>0. /\ PlanOK(c) /\ AppsKeep(c) /\ AppsNew(c)
    BY <1>0, <1>2, CommitApps DEF PlansOK, Commit
  <2>1. \A i \in DOMAIN apps : /\ apps'[i].from = apps[i].from /\ apps'[i].to = apps[i].to
                               /\ apps'[i].status = Pending => apps[i].status = Pending
    BY <2>0 DEF AppsKeep, Pending, Accepted, Rejected
  <2>2. ASSUME NEW i \in DOMAIN apps, NEW j \in DOMAIN apps', j \notin DOMAIN apps,
               apps'[i].status = Pending
        PROVE  apps'[i].from # apps'[j].from \/ apps'[i].to # apps'[j].to
    <3>1. /\ PendingFrom(Actor(c), Target(c)) = {}
          /\ apps'[j].from = Actor(c) /\ apps'[j].to = Target(c)
      BY <2>0, <2>2 DEF PlanOK, AppsNew
    <3>2. apps[i].status = Pending /\ apps'[i].from = apps[i].from /\ apps'[i].to = apps[i].to
      BY <2>1, <2>2
    <3> QED BY <3>1, <3>2 DEF PendingFrom
  <2>3. ASSUME NEW i \in DOMAIN apps', NEW j \in DOMAIN apps',
               i \notin DOMAIN apps, j \notin DOMAIN apps
        PROVE  i = j
    BY <2>0, <2>3 DEF AppsNew
  <2>4. ASSUME NEW i \in DOMAIN apps', NEW j \in DOMAIN apps', i # j,
               apps'[i].status = Pending, apps'[j].status = Pending
        PROVE  apps'[i].from # apps'[j].from \/ apps'[i].to # apps'[j].to
    <3>1. CASE i \in DOMAIN apps /\ j \in DOMAIN apps
      <4>1. apps[i].status = Pending /\ apps[j].status = Pending
        BY <2>1, <2>4, <3>1
      <4>2. apps[i].from # apps[j].from \/ apps[i].to # apps[j].to
        BY <1>0, <2>4, <3>1, <4>1 DEF OnePending
      <4> QED BY <2>1, <3>1, <4>2
    <3>2. CASE i \in DOMAIN apps /\ j \notin DOMAIN apps
      BY <2>2, <2>4, <3>2
    <3>3. CASE i \notin DOMAIN apps /\ j \in DOMAIN apps
      BY <2>2, <2>4, <3>3
    <3>4. CASE i \notin DOMAIN apps /\ j \notin DOMAIN apps
      BY <2>3, <2>4, <3>4
    <3> QED BY <3>1, <3>2, <3>3, <3>4
  <2> QED BY <2>4 DEF OnePending
<1> QED BY <1>1, <1>2

LEMMA ConsentedStep ==
    ASSUME Inv, NEW c \in Calls, CallStep(c)
    PROVE  Consented'
<1>0. TypeOK /\ AppsOK /\ CallsOK /\ Consented
  BY DEF Inv
<1>1. CASE ~Commit(c)
  BY <1>0, <1>1, OnlyCommitWrites DEF Consented
<1>2. CASE Commit(c)
  <2> DEFINE Consent(i, x, y) ==
        /\ i \in DOMAIN apps' /\ {apps'[i].from, apps'[i].to} = {x, y}
        /\ apps'[i].status = Accepted /\ apps'[i].era = deletions'[{x, y}]
  <2>0. /\ plan[c] \in Plans /\ PlanOK(c) /\ AppsKeep(c)
        /\ Actor(c) \in Accounts /\ Target(c) \in Accounts /\ Pair(c) \in Pairs
    BY <1>0, <1>2, CommitApps DEF Inv, TypeOK, Plans, PlansOK, Commit, CallsOK
  <2>1. ASSUME NEW f \in friends,
               plan[c].write = "delete" => {f[1], f[2]} # Pair(c)
        PROVE  \E i : Consent(i, f[1], f[2])
    <3>1. PICK i \in DOMAIN apps :
            /\ {apps[i].from, apps[i].to} = {f[1], f[2]}
            /\ apps[i].status = Accepted /\ apps[i].era = deletions[{f[1], f[2]}]
      BY <1>0 DEF Consented
    <3>2. {f[1], f[2]} \in Pairs
      BY <1>0, <3>1 DEF AppsOK
    <3>3. deletions'[{f[1], f[2]}] = deletions[{f[1], f[2]}]
      BY <1>2, <2>1, <3>2, CommitMarks
    <3>4. i \in DOMAIN apps' /\ apps'[i].from = apps[i].from /\ apps'[i].to = apps[i].to
          /\ apps'[i].era = apps[i].era /\ apps'[i].status = Accepted
      BY <2>0, <3>1 DEF AppsKeep, Accepted, Pending
    <3>5. Consent(i, f[1], f[2])
      BY <3>1, <3>3, <3>4
    <3> QED BY <3>5
  <2>2. CASE plan[c].write \notin {"accept", "delete"}
    <3>1. friends' = friends
      BY <1>2, <2>0, <2>2 DEF Commit, Insert, Decide, WriteNothing, Plans
    <3> QED BY <1>0, <2>1, <2>2, <3>1 DEF Consented
  <2>3. CASE plan[c].write = "delete"
    <3>1. friends' = friends \ Both(Actor(c), Target(c))
      BY <1>2, <2>3 DEF Commit, Delete
    <3>2. ASSUME NEW f \in friends'
          PROVE  f \in friends /\ <<f[2], f[1]>> \in friends' /\ {f[1], f[2]} # Pair(c)
      <4>1. f \in friends /\ <<f[2], f[1]>> \in friends /\ f = <<f[1], f[2]>>
        <5>1. f \in friends /\ f \in Accounts \X Accounts
          BY <1>0, <3>1 DEF TypeOK
        <5>2. <<f[2], f[1]>> \in friends
          BY <1>0, <5>1 DEF Consented
        <5> QED BY <5>1, <5>2
      <4>2. f \notin Both(Actor(c), Target(c))
        BY <3>1
      <4>3. {f[1], f[2]} # Pair(c)
        BY <4>1, <4>2 DEF Both, Pair
      <4>4. <<f[2], f[1]>> \notin Both(Actor(c), Target(c))
        BY <4>3 DEF Both, Pair
      <4> QED BY <3>1, <4>1, <4>3, <4>4
    <3> QED BY <2>1, <3>2 DEF Consented
  <2>4. CASE plan[c].write = "accept"
    <3>1. friends' = friends \cup Both(Actor(c), Target(c))
      BY <1>2, <2>4 DEF Commit, Decide
    <3>2. ASSUME NEW f \in friends' PROVE <<f[2], f[1]>> \in friends'
      <4>1. CASE f \in friends
        BY <1>0, <3>1, <4>1 DEF Consented
      <4>2. CASE f \in Both(Actor(c), Target(c))
        BY <3>1, <4>2 DEF Both
      <4> QED BY <3>1, <4>1, <4>2
    <3>3. Consent(cmd[c].app, Actor(c), Target(c))
      <4> DEFINE i == cmd[c].app
      <4>1. /\ cmd[c].op = "accept" /\ plan[c].app = i /\ apps[i].status = Pending
            /\ i \in DOMAIN apps /\ {apps[i].from, apps[i].to} = Pair(c)
        BY <1>0, <2>0, <2>4 DEF PlanOK, CallsOK, Pair
      <4>2. apps' = [apps EXCEPT ![i].status = Accepted]
        BY <1>2, <2>4, <4>1 DEF Commit, Decide, Wanted
      <4>3. UNCHANGED deletions
        BY <1>2, <2>4, CommitMarks
      <4>4. apps[i].era = deletions[Pair(c)]
        BY <1>0, <4>1 DEF AppsOK
      <4>5. apps'[i].status = Accepted
        BY <1>0, <4>1, <4>2 DEF TypeOK
      <4>6. /\ i \in DOMAIN apps' /\ apps'[i].era = apps[i].era
            /\ {apps'[i].from, apps'[i].to} = {apps[i].from, apps[i].to}
        BY <2>0, <4>1 DEF AppsKeep
      <4> HIDE DEF i
      <4>7. Consent(i, Actor(c), Target(c))
        BY <4>1, <4>3, <4>4, <4>5, <4>6 DEF Pair
      <4> QED BY <4>7 DEF i
    <3>4. ASSUME NEW f \in friends' PROVE \E i : Consent(i, f[1], f[2])
      <4>1. CASE f \in friends
        BY <2>1, <2>4, <4>1
      <4>2. CASE f \in Both(Actor(c), Target(c))
        <5>1. {f[1], f[2]} = {Actor(c), Target(c)}
          BY <4>2 DEF Both
        <5> QED BY <3>3, <5>1
      <4> QED BY <3>1, <4>1, <4>2
    <3> QED BY <3>2, <3>4 DEF Consented
  <2> QED BY <2>2, <2>3, <2>4
<1> QED BY <1>1, <1>2

(* The transactions of a pair exclude each other, so that a COMMIT finds    *)
(* what the others of its pair are going to write untouched.                *)
LEMMA PairsDiffer ==
    ASSUME Inv, NEW c \in Calls, pc[c] \in {"work", "commit"},
           NEW d \in Calls, d # c, pc[d] \in {"work", "commit"}
    PROVE  Pair(d) # Pair(c)
  BY DEF Inv, LocksOK

LEMMA SettledStays ==
    ASSUME Inv, NEW c \in Calls, CallStep(c), NEW d \in Calls, Settled(d),
           cmd'[d] = cmd[d], plan'[d].app = plan[d].app
    PROVE  Settled(d)'
<1>1. ASSUME cmd[d].op \in {"accept", "reject"} PROVE apps'[cmd[d].app].status = Wanted(d)
  <2>1. /\ cmd[d].app \in DOMAIN apps /\ apps[cmd[d].app].status = Wanted(d)
        /\ Wanted(d) # Pending
    BY <1>1 DEF Inv, CallsOK, Settled, Wanted, Pending, Accepted, Rejected
  <2> QED BY <2>1, AppsStay
<1>2. ASSUME cmd[d].op = "apply" PROVE plan[d].app \in DOMAIN apps'
  BY <1>2, AppsStay DEF Settled
<1>3. Wanted(d)' = Wanted(d)
  BY DEF Wanted
<1> QED BY <1>1, <1>2, <1>3 DEF Settled

(* The plan of a call that is not the one that steps.                       *)
LEMMA PlanStays ==
    ASSUME Inv, NEW c \in Calls, CallStep(c), NEW d \in Calls, d # c, pc[d] = "commit"
    PROVE  PlanOK(d)'
<1>0. TypeOK /\ PlanOK(d) /\ CallsOK /\ PlansOK
  BY DEF Inv, PlansOK
<1>1. pc'[d] = pc[d] /\ cmd'[d] = cmd[d] /\ plan'[d] = plan[d]
  BY <1>0, Bystander
<1>2. lastApp' \in Nat /\ lastApp \in Nat /\ lastApp <= lastApp'
  <2>1. lastApp' \in 0..MaxApps /\ lastApp \in 0..MaxApps
    BY <1>0, CallTypes DEF TypeOK
  <2>2. lastApp' = lastApp \/ lastApp' = lastApp + 1
    BY DEF CallStep, Begins, Begin, LockPair, PlanFits, Commit, GivesUp, Reply, tables
  <2> QED BY <2>1, <2>2, FriendsAssumption
<1>3. ASSUME plan[d].write = "insert"
      PROVE  /\ PendingFrom(Actor(d), Target(d))' = {}
             /\ plan[d].app \in 1..lastApp' /\ plan[d].app \notin DOMAIN apps'
  <2>1. /\ PendingFrom(Actor(d), Target(d)) = {}
        /\ plan[d].app \in 1..lastApp /\ plan[d].app \notin DOMAIN apps
    BY <1>0, <1>3 DEF PlanOK
  <2>2. CASE ~Commit(c)
    <3>1. apps' = apps
      BY <2>2, OnlyCommitWrites
    <3> QED BY <1>1, <1>2, <2>1, <3>1 DEF PendingFrom, Actor, Target
  <2>3. CASE Commit(c)
    <3>1. AppsKeep(c) /\ AppsNew(c) /\ pc[c] = "commit"
      BY <2>3, CommitApps DEF Commit
    <3>2. Pair(d) # Pair(c)
      BY <3>1, PairsDiffer
    <3>3. plan[d].app \notin DOMAIN apps'
      <4>1. Inserts(d) /\ (plan[c].write = "insert" => plan[c].app # plan[d].app)
        BY <1>0, <1>3, <3>1 DEF Inserts, PlansOK
      <4> QED BY <2>1, <3>1, <4>1 DEF AppsNew
    <3>4. ASSUME NEW i \in DOMAIN apps', apps'[i].from = Actor(d), apps'[i].to = Target(d)
          PROVE  apps'[i].status # Pending
      <4>1. i \in DOMAIN apps
        BY <3>1, <3>2, <3>4 DEF AppsNew, Pair
      <4>2. apps[i].from = Actor(d) /\ apps[i].to = Target(d)
            /\ apps'[i].status \in {Accepted, Rejected, apps[i].status}
        BY <3>1, <3>4, <4>1 DEF AppsKeep
      <4>3. apps[i].status # Pending
        BY <2>1, <4>1, <4>2 DEF PendingFrom
      <4> QED BY <4>2, <4>3 DEF Pending, Accepted, Rejected
    <3> QED BY <1>1, <1>2, <2>1, <3>3, <3>4 DEF PendingFrom, Actor, Target
  <2> QED BY <2>2, <2>3
<1>4. ASSUME plan[d].write \in {"accept", "reject"}
      PROVE  apps'[cmd[d].app].status = Pending
  <2>1. /\ cmd[d].app \in DOMAIN apps /\ apps[cmd[d].app].status = Pending
        /\ {apps[cmd[d].app].from, apps[cmd[d].app].to} = Pair(d)
    BY <1>0, <1>4 DEF PlanOK, CallsOK, Pair
  <2>2. CASE ~Commit(c)
    BY <2>1, <2>2, OnlyCommitWrites
  <2>3. CASE Commit(c)
    <3>1. AppsKeep(c) /\ pc[c] = "commit"
      BY <2>3, CommitApps DEF Commit
    <3>2. Pair(d) # Pair(c)
      BY <3>1, PairsDiffer
    <3> QED BY <2>1, <3>1, <3>2 DEF AppsKeep
  <2> QED BY <2>2, <2>3
<1>5. ASSUME plan[d].write = "nothing" PROVE Settled(d)'
  BY <1>0, <1>1, <1>5, SettledStays DEF PlanOK
<1> QED BY <1>0, <1>1, <1>3, <1>4, <1>5 DEF PlanOK, Actor, Target

(* The plan of a call whose transaction has just read the tables.           *)
LEMMA PlanMade ==
    ASSUME Inv, NEW c \in Calls, NEW p \in Plans, Planned(c, p), PlanFits(c, p)
    PROVE  /\ PlanOK(c)' /\ plan'[c] = p
           /\ \A d \in Calls : (d # c /\ Inserts(d) /\ p.write = "insert") =>
                plan[d].app # p.app
<1>0. TypeOK /\ lastApp \in Nat /\ DOMAIN apps \subseteq 1..lastApp
  BY FriendsAssumption DEF Inv, TypeOK
<1>1. plan'[c] = p /\ apps' = apps /\ cmd' = cmd
  BY <1>0 DEF Planned, TypeOK
<1>2. ASSUME p.write = "insert"
      PROVE  /\ p.app = lastApp + 1 /\ lastApp' = lastApp + 1 /\ cmd[c].op = "apply"
             /\ PendingFrom(Actor(c), Target(c)) = {}
  BY <1>2 DEF PlanFits
<1>3. p.write = "insert" => p.app \in 1..lastApp' /\ p.app \notin DOMAIN apps
  BY <1>0, <1>2
<1>4. PlanOK(c)'
  <2>1. Actor(c)' = Actor(c) /\ Target(c)' = Target(c) /\ Wanted(c)' = Wanted(c)
    BY <1>1 DEF Actor, Target, Wanted
  <2>2. PendingFrom(Actor(c), Target(c))' = PendingFrom(Actor(c), Target(c))
    BY <1>1, <2>1 DEF PendingFrom
  <2>3. p.write = "nothing" => Settled(c)'
    BY <1>1, <2>1 DEF PlanFits, Settled
  <2>4. p.write = "delete" => cmd[c].op = "delete"
    BY DEF PlanFits
  <2>5. p.write \in {"accept", "reject"} =>
          cmd[c].op = p.write /\ p.app = cmd[c].app /\ apps[cmd[c].app].status = Pending
    BY DEF PlanFits
  <2> QED BY <1>1, <1>2, <1>3, <2>2, <2>3, <2>4, <2>5 DEF PlanOK
<1>5. ASSUME NEW d \in Calls, Inserts(d) PROVE plan[d].app \in 1..lastApp
  BY <1>5 DEF Inv, PlansOK, PlanOK, Inserts
<1> QED BY <1>0, <1>1, <1>2, <1>4, <1>5

LEMMA PlansStep ==
    ASSUME Inv, NEW c \in Calls, CallStep(c)
    PROVE  PlansOK'
<1>0. TypeOK /\ PlansOK
  BY DEF Inv
<1>1. ASSUME NEW d \in Calls, pc'[d] = "commit" PROVE PlanOK(d)'
  <2>1. CASE d # c
    BY <1>0, <1>1, <2>1, Bystander, PlanStays
  <2>2. CASE d = c
    <3>1. PICK p \in Plans : Planned(c, p) /\ PlanFits(c, p)
      BY <1>0, <1>1, <2>2
        DEF CallStep, Begins, Begin, LockPair, Refuse, Forget, Commit, GivesUp, Reply, TypeOK
    <3> QED BY <2>2, <3>1, PlanMade
  <2> QED BY <2>1, <2>2
<1>2. ASSUME NEW d \in Calls, pc'[d] \in {"reply", "ok"} PROVE Settled(d)'
  <2>1. CASE d # c
    BY <1>0, <1>2, <2>1, Bystander, SettledStays DEF PlansOK
  <2>2. CASE d = c /\ Reply(c)
    <3>1. Settled(c) /\ cmd'[c] = cmd[c] /\ plan'[c].app = plan[c].app
      BY <1>0, <2>2 DEF Reply, PlansOK, TypeOK
    <3> QED BY <2>2, <3>1, SettledStays
  <2>3. CASE d = c /\ Commit(c)
    <3>0. /\ PlanOK(c) /\ cmd' = cmd /\ plan' = plan /\ plan[c] \in Plans
      BY <1>0, <2>3 DEF Commit, PlansOK, TypeOK, Plans
    <3>1. CASE plan[c].write = "nothing"
      BY <2>3, <3>0, <3>1, SettledStays DEF PlanOK
    <3>2. CASE plan[c].write = "insert"
      <4>1. plan[c].app \in DOMAIN apps' /\ cmd[c].op = "apply"
        BY <2>3, <3>0, <3>2 DEF Commit, Insert, PlanOK
      <4> QED BY <2>3, <3>0, <4>1 DEF Settled
    <3>3. CASE plan[c].write \in {"accept", "reject"}
      <4>1. /\ cmd[c].op = plan[c].write /\ plan[c].app = cmd[c].app
            /\ apps[cmd[c].app].status = Pending /\ cmd[c].app \in DOMAIN apps
        BY <3>0, <3>3 DEF PlanOK, Inv, CallsOK
      <4>2. apps' = [apps EXCEPT ![cmd[c].app].status = Wanted(c)]
        BY <2>3, <3>3, <4>1 DEF Commit, Decide
      <4>3. apps[cmd[c].app] \in
              [from : Accounts, to : Accounts, status : {Pending, Accepted, Rejected}, era : Nat]
        BY <1>0, <4>1 DEF TypeOK
      <4>4. apps'[cmd[c].app].status = Wanted(c)
        BY <4>1, <4>2, <4>3
      <4>5. Wanted(c)' = Wanted(c)
        BY <3>0 DEF Wanted
      <4> QED BY <2>3, <3>0, <3>3, <4>1, <4>4, <4>5 DEF Settled
    <3>4. CASE plan[c].write = "delete"
      BY <2>3, <3>0, <3>4 DEF Settled, PlanOK
    <3> QED BY <3>0, <3>1, <3>2, <3>3, <3>4 DEF Plans
  <2>4. CASE d = c /\ ~Commit(c) /\ ~Reply(c)
    BY <1>0, <1>2, <2>4
      DEF CallStep, Begins, Begin, LockPair, Refuse, Forget, Planned, GivesUp, TypeOK
  <2> QED BY <2>1, <2>2, <2>3, <2>4
<1>3. ASSUME NEW d \in Calls, d # c, Inserts(d)', Inserts(c)'
      PROVE  plan'[d].app # plan'[c].app
  <2>1. Inserts(d) /\ plan'[d] = plan[d]
    BY <1>0, <1>3, Bystander DEF Inserts
  <2>2. PICK p \in Plans : Planned(c, p) /\ PlanFits(c, p)
    BY <1>0, <1>3
      DEF Inserts, CallStep, Begins, Begin, LockPair, Refuse, Forget, Commit, GivesUp, Reply, TypeOK
  <2>3. p = plan'[c]
    BY <2>2, PlanMade
  <2> QED BY <1>3, <2>1, <2>2, <2>3, PlanMade DEF Inserts
<1>4. ASSUME NEW d \in Calls, NEW e \in Calls, d # e, d # c, e # c, Inserts(d)', Inserts(e)'
      PROVE  plan'[d].app # plan'[e].app
  <2>1. Inserts(d) /\ Inserts(e) /\ plan'[d] = plan[d] /\ plan'[e] = plan[e]
    BY <1>0, <1>4, Bystander DEF Inserts
  <2> QED BY <1>0, <1>4, <2>1 DEF PlansOK
<1> QED BY <1>1, <1>2, <1>3, <1>4 DEF PlansOK

LEMMA ToldStep ==
    ASSUME Inv, NEW c \in Calls, CallStep(c)
    PROVE  OkMeansTold'
<1>0. TypeOK /\ OkMeansTold /\ CallsOK
  BY DEF Inv
<1> SUFFICES ASSUME NEW d \in current', pc'[d] = "ok"
             PROVE  stale' \cap Both(cmd'[d].actor, cmd'[d].target) = {}
  BY DEF OkMeansTold, Actor, Target
<1>a. d \in Calls
  BY CallTypes DEF TypeOK
<1>1. CASE d # c
  <2>1. pc[d] = "ok" /\ cmd'[d] = cmd[d] /\ d \in current
    BY <1>0, <1>a, <1>1, Bystander
  <2>2. stale \cap Both(Actor(d), Target(d)) = {} /\ cmd[d].op # "none"
    BY <1>0, <1>a, <2>1 DEF OkMeansTold, CallsOK
  <2>3. CASE Commit(c) /\ plan[c].write # "nothing"
    <3>1. d \notin SamePair(c)
      BY <1>1, <2>3 DEF Commit
    <3>2. Pair(d) # Pair(c)
      BY <1>a, <2>2, <3>1 DEF SamePair
    <3>3. Both(Actor(d), Target(d)) \cap Both(Actor(c), Target(c)) = {}
      BY <3>2 DEF Both, Pair
    <3>4. stale' \subseteq stale \cup Both(Actor(c), Target(c))
      BY <2>3 DEF Commit
    <3> QED BY <2>1, <2>2, <3>3, <3>4 DEF Actor, Target
  <2>4. CASE ~(Commit(c) /\ plan[c].write # "nothing")
    <3>1. stale' \subseteq stale
      BY <2>4 DEF CallStep, Begins, Begin, LockPair, Refuse, Planned, Commit, GivesUp, Reply,
                  clientVars
    <3> QED BY <2>1, <2>2, <3>1 DEF Actor, Target
  <2> QED BY <2>3, <2>4
<1>2. CASE d = c
  <2>1. Reply(c) /\ c \in Calls
    <3>1. CASE Begins(c)
      BY <1>0, <1>2, <3>1 DEF Begins, Begin, TypeOK
    <3>2. CASE LockPair(c)
      BY <1>0, <1>2, <3>2 DEF LockPair, TypeOK
    <3>3. CASE Refuse(c) \/ GivesUp(c)
      BY <1>0, <1>2, <3>3 DEF Refuse, GivesUp, Forget, TypeOK
    <3>4. CASE \E p \in Plans : Planned(c, p)
      BY <1>0, <1>2, <3>4 DEF Planned, TypeOK
    <3>5. CASE Commit(c)
      BY <1>0, <1>2, <3>5 DEF Commit, TypeOK
    <3> QED BY <3>1, <3>2, <3>3, <3>4, <3>5 DEF CallStep
  <2>2. \A s \in stale' : s[1] \notin Pair(c)
    BY <1>0, <2>1 DEF Reply, TypeOK, ChangedAccounts
  <2>3. \A s \in Both(Actor(c), Target(c)) : s[1] \in Pair(c)
    BY DEF Both, Pair
  <2>4. cmd' = cmd
    BY <2>1 DEF Reply
  <2> QED BY <1>2, <2>2, <2>3, <2>4 DEF Actor, Target
<1> QED BY <1>1, <1>2

LEMMA PagesStep ==
    ASSUME Inv, NEW c \in Calls, CallStep(c)
    PROVE  PagesOK' /\ ListingComplete'
<1>0. PagesOK /\ ListingComplete
  BY DEF Inv
<1>1. list' = list
  BY DEF CallStep, Begins, Begin, LockPair, Refuse, Planned, Commit, GivesUp, Reply, clientVars
<1>2. \A a \in Listers : Ahead(a) \subseteq Ahead(a)'
  BY <1>1, AppsStay DEF Ahead, RowsOf
<1> QED BY <1>0, <1>1, <1>2 DEF PagesOK, ListingComplete

-----------------------------------------------------------------------------
(* The steps of a client that lists.                                        *)

LEMMA PageStep ==
    ASSUME Inv, NEW a \in Listers, Page(a)
    PROVE  /\ list' \in [Listers -> [at : {"off", "page", "end"}, after : 0..MaxApps,
                                     snapshot : 0..MaxApps, owed : SUBSET AppIds]]
           /\ PagesOK' /\ ListingComplete'
<1>0. TypeOK /\ PagesOK /\ ListingComplete /\ MaxApps \in Nat /\ UNCHANGED apps
  BY FriendsAssumption DEF Inv, Page, tables
<1> DEFINE page == {i \in Ahead(a) : Cardinality({j \in Ahead(a) : j < i}) < Limit}
           owed == list[a].owed \ page
<1>1. list' = [list EXCEPT ![a] =
                IF HasMore(Ahead(a)) THEN [@ EXCEPT !.after = Max(page), !.owed = owed]
                ELSE [NoList EXCEPT !.at = "end", !.owed = owed]]
  BY DEF Page, Ahead
<1>2. /\ Ahead(a) \in SUBSET AppIds /\ list[a].owed \subseteq Ahead(a)
      /\ list[a] \in [at : {"off", "page", "end"}, after : 0..MaxApps,
                      snapshot : 0..MaxApps, owed : SUBSET AppIds]
      /\ list[a].at = "page"
  <2>1. DOMAIN apps \subseteq AppIds
    BY <1>0 DEF TypeOK, AppIds
  <2> QED BY <1>0, <2>1 DEF Ahead, RowsOf, PagesOK, Page, TypeOK
<1>3. page \in SUBSET Ahead(a) /\ owed \in SUBSET AppIds
  BY <1>2
<1>4. /\ ~HasMore(Ahead(a)) => page = Ahead(a)
      /\ HasMore(Ahead(a)) => /\ Max(page) \in page
                              /\ \A i \in Ahead(a) \ page : i > Max(page)
  <2> DEFINE rows == Ahead(a)
  <2>1. page = {i \in rows : Cardinality({j \in rows : j < i}) < Limit}
    OBVIOUS
  <2>2. rows \in SUBSET AppIds
    BY <1>2
  <2> HIDE DEF page, rows
  <2>3. /\ ~HasMore(rows) => page = rows
        /\ HasMore(rows) => /\ Max(page) \in page
                            /\ \A i \in rows \ page : i > Max(page)
    BY <2>1, <2>2, PageTakesFirst
  <2> QED BY <2>3 DEF rows
<1>5. owed = list[a].owed \ page
  OBVIOUS
<1> HIDE DEF page, owed
<1>6. CASE HasMore(Ahead(a))
  <2>1. list' = [list EXCEPT ![a] = [list[a] EXCEPT !.after = Max(page), !.owed = owed]]
    BY <1>1, <1>6
  <2>2. Max(page) \in 0..MaxApps
    BY <1>0, <1>2, <1>3, <1>4, <1>6 DEF AppIds
  <2>3. list'[a] = [list[a] EXCEPT !.after = Max(page), !.owed = owed]
    BY <1>0, <2>1 DEF TypeOK
  <2>4. /\ list'[a] \in [at : {"off", "page", "end"}, after : 0..MaxApps,
                         snapshot : 0..MaxApps, owed : SUBSET AppIds]
        /\ list'[a].at = "page" /\ list'[a].after = Max(page)
        /\ list'[a].snapshot = list[a].snapshot /\ list'[a].owed = owed
    BY <1>2, <1>3, <2>2, <2>3
  <2>5. \A x \in Listers : x # a => list'[x] = list[x]
    BY <1>0, <2>1 DEF TypeOK
  <2>6. owed \subseteq {i \in RowsOf(a) : i > Max(page) /\ i <= list[a].snapshot}
    BY <1>2, <1>4, <1>5, <1>6 DEF Ahead
  <2>7. \A x \in Listers : RowsOf(x)' = RowsOf(x)
    BY <1>0 DEF RowsOf
  <2>8. PagesOK'
    BY <1>0, <2>4, <2>5, <2>6, <2>7 DEF PagesOK, Ahead
  <2>9. ListingComplete'
    BY <1>0, <2>4, <2>5 DEF ListingComplete
  <2> QED BY <1>0, <2>1, <2>3, <2>4, <2>8, <2>9 DEF TypeOK
<1>7. CASE ~HasMore(Ahead(a))
  <2>1. list' = [list EXCEPT ![a] = [NoList EXCEPT !.at = "end", !.owed = owed]]
    BY <1>1, <1>7
  <2>2. list'[a] = [at |-> "end", after |-> 0, snapshot |-> 0, owed |-> owed]
    <3>1. list'[a] = [NoList EXCEPT !.at = "end", !.owed = owed]
      BY <1>0, <2>1 DEF TypeOK
    <3> QED BY <3>1 DEF NoList
  <2>3. /\ list'[a] \in [at : {"off", "page", "end"}, after : 0..MaxApps,
                         snapshot : 0..MaxApps, owed : SUBSET AppIds]
        /\ list'[a].at = "end" /\ list'[a].owed = owed
    BY <1>0, <1>3, <2>2
  <2>4. \A x \in Listers : x # a => list'[x] = list[x]
    BY <1>0, <2>1 DEF TypeOK
  <2>5. owed = {}
    BY <1>2, <1>4, <1>5, <1>7
  <2>6. \A x \in Listers : RowsOf(x)' = RowsOf(x)
    BY <1>0 DEF RowsOf
  <2>7. PagesOK'
    BY <1>0, <2>3, <2>4, <2>6 DEF PagesOK, Ahead
  <2>8. ListingComplete'
    BY <1>0, <2>3, <2>4, <2>5 DEF ListingComplete
  <2> QED BY <1>0, <2>1, <2>2, <2>3, <2>7, <2>8 DEF TypeOK
<1> QED BY <1>6, <1>7

LEMMA ClientsStep ==
    ASSUME Inv, NEW a \in Listers, ClientStep(a)
    PROVE  Inv'
<1>0. /\ TypeOK /\ PagesOK /\ ListingComplete /\ OkMeansTold /\ MaxApps \in Nat
      /\ UNCHANGED <<tables, pairLock, callVars>>
  BY FriendsAssumption DEF Inv, ClientStep, Login, Logout, Snapshot, Page
<1>1. /\ online' \subseteq Listers /\ stale' \subseteq stale
      /\ stale' \subseteq online' \X Accounts
  BY <1>0 DEF ClientStep, Login, Logout, Snapshot, Page, TypeOK
<1>2. /\ list' \in [Listers -> [at : {"off", "page", "end"}, after : 0..MaxApps,
                                snapshot : 0..MaxApps, owed : SUBSET AppIds]]
      /\ PagesOK' /\ ListingComplete'
  <2>1. CASE Login(a)
    <3>1. list' = list /\ apps' = apps
      BY <1>0, <2>1 DEF Login, tables
    <3> QED BY <1>0, <3>1 DEF TypeOK, PagesOK, ListingComplete, Ahead, RowsOf
  <2>2. CASE Logout(a)
    <3>1. list' = [list EXCEPT ![a] = NoList] /\ apps' = apps
      BY <1>0, <2>2 DEF Logout, tables
    <3>2. /\ NoList \in [at : {"off", "page", "end"}, after : 0..MaxApps,
                         snapshot : 0..MaxApps, owed : SUBSET AppIds]
          /\ NoList.at = "off"
      BY <1>0 DEF NoList
    <3> QED BY <1>0, <3>1, <3>2 DEF TypeOK, PagesOK, ListingComplete, Ahead, RowsOf
  <2>3. CASE Snapshot(a)
    <3> DEFINE top == Max(RowsOf(a) \cup {0})
               row == [at |-> "page", after |-> 0, snapshot |-> top, owed |-> RowsOf(a)]
    <3>1. list' = [list EXCEPT ![a] = row] /\ apps' = apps
      BY <1>0, <2>3 DEF Snapshot, tables
    <3>2. RowsOf(a) \subseteq 1..MaxApps
      BY <1>0 DEF RowsOf, TypeOK
    <3>3. top \in 0..MaxApps /\ \A i \in RowsOf(a) : i <= top
      <4>1. RowsOf(a) \cup {0} \subseteq 0..MaxApps
        BY <1>0, <3>2
      <4>2. top \in RowsOf(a) \cup {0} /\ \A i \in RowsOf(a) \cup {0} : i <= top
        BY <1>0, <4>1, HighestId
      <4> QED BY <4>1, <4>2
    <3> HIDE DEF top
    <3>4. /\ row \in [at : {"off", "page", "end"}, after : 0..MaxApps,
                      snapshot : 0..MaxApps, owed : SUBSET AppIds]
          /\ row.at = "page" /\ row.after = 0 /\ row.snapshot = top /\ row.owed = RowsOf(a)
      BY <1>0, <3>2, <3>3 DEF AppIds
    <3>5. row.owed \subseteq {i \in RowsOf(a) : i > 0 /\ i <= top}
      BY <3>2, <3>3, <3>4
    <3> HIDE DEF row
    <3>6. list'[a] = row /\ \A x \in Listers : x # a => list'[x] = list[x]
      BY <1>0, <3>1 DEF TypeOK
    <3>7. \A x \in Listers : RowsOf(x)' = RowsOf(x)
      BY <3>1 DEF RowsOf
    <3>8. PagesOK'
      BY <1>0, <3>4, <3>5, <3>6, <3>7 DEF PagesOK, Ahead
    <3>9. ListingComplete'
      BY <1>0, <3>4, <3>6 DEF ListingComplete
    <3> QED BY <1>0, <3>1, <3>4, <3>8, <3>9 DEF TypeOK
  <2>4. CASE Page(a)
    BY <2>4, PageStep
  <2> QED BY <2>1, <2>2, <2>3, <2>4 DEF ClientStep
<1>3. TypeOK'
  BY <1>0, <1>1, <1>2 DEF TypeOK, tables, callVars
<1>4. CallsOK' /\ LocksOK'
  BY <1>0 DEF Inv, CallsOK, LocksOK, Pair, Actor, Target, tables, callVars
<1>5. AppsOK' /\ OnePending'
  BY <1>0 DEF Inv, AppsOK, OnePending, tables
<1>6. Consented'
  BY <1>0 DEF Inv, Consented, tables
<1>7. PlansOK'
  BY <1>0 DEF Inv, PlansOK, PlanOK, Settled, Inserts, PendingFrom, Wanted, Actor, Target,
              tables, callVars
<1>8. OkMeansTold'
  BY <1>0, <1>1 DEF OkMeansTold, Actor, Target, callVars
<1> QED BY <1>2, <1>3, <1>4, <1>5, <1>6, <1>7, <1>8 DEF Inv

-----------------------------------------------------------------------------
LEMMA InvStep == Inv /\ [Next]_vars => Inv'
<1> SUFFICES ASSUME Inv, [Next]_vars PROVE Inv'
  OBVIOUS
<1>1. ASSUME NEW c \in Calls, CallStep(c) PROVE Inv'
  BY <1>1, CallTypes, CallsStep, LocksStep, AppsStep, OnePendingStep, PlansStep,
     ConsentedStep, ToldStep, PagesStep DEF Inv
<1>2. ASSUME NEW a \in Listers, ClientStep(a) PROVE Inv'
  BY <1>2, ClientsStep
<1>3. CASE UNCHANGED vars
  <2>1. TypeOK'
    BY <1>3 DEF Inv, TypeOK, vars, tables, callVars, clientVars
  <2>2. CallsOK' /\ LocksOK'
    BY <1>3 DEF Inv, CallsOK, LocksOK, Pair, Actor, Target, vars, tables, callVars
  <2>3. AppsOK' /\ OnePending'
    BY <1>3 DEF Inv, AppsOK, OnePending, vars, tables
  <2>4. PlansOK'
    BY <1>3 DEF Inv, PlansOK, PlanOK, Settled, Inserts, PendingFrom, Wanted, Actor, Target,
                vars, tables, callVars
  <2>5. Consented' /\ OkMeansTold'
    BY <1>3 DEF Inv, Consented, OkMeansTold, Actor, Target, vars, tables, callVars, clientVars
  <2>6. PagesOK' /\ ListingComplete'
    BY <1>3 DEF Inv, PagesOK, ListingComplete, Ahead, RowsOf, vars, tables, clientVars
  <2> QED BY <2>1, <2>2, <2>3, <2>4, <2>5, <2>6 DEF Inv
<1> QED BY <1>1, <1>2, <1>3, StepCases

LEMMA Invariance == Spec => []Inv
  BY InitInv, InvStep, PTL DEF Spec

(* Friends are friends by consent given since they last parted, however     *)
(* applications cross, repeat and are decided beside deletions: mutate      *)
(* under lockPair.                                                          *)
THEOREM FriendsConsented == Spec => []Consented
<1>1. Inv => Consented
  BY DEF Inv
<1> QED BY <1>1, Invariance, PTL

(* A decision that was answered with success is kept, and there is never a  *)
(* second pending application of one direction: mutate under lockPair.      *)
THEOREM AnswersHold == Spec => []AnswerHolds
<1>1. Inv => AnswerHolds
  BY DEF Inv, PlansOK, Settled, OnePending, AnswerHolds
<1> QED BY <1>1, Invariance, PTL

(* After a success that nothing has overtaken no client of the pair is left *)
(* with the state before it: ExecuteFriendCommand's changedaccounts and the *)
(* gateway's notices.                                                       *)
THEOREM SuccessIsTold == Spec => []OkMeansTold
<1>1. Inv => OkMeansTold
  BY DEF Inv
<1> QED BY <1>1, Invariance, PTL

(* A listing in pages of any size returns every application that was there  *)
(* when it began: ListApplications with its snapshot and its cursor.        *)
THEOREM ListingsComplete == Spec => []ListingComplete
<1>1. Inv => ListingComplete
  BY DEF Inv
<1> QED BY <1>1, Invariance, PTL
=============================================================================
