------------------------------- MODULE Group --------------------------------
(***************************************************************************)
(* One group chat: the rows of im_groups, im_group_members,                 *)
(* im_group_applications and im_group_messages that belong to it, the       *)
(* commands of group_storage::perform and the delivery loop of              *)
(* group_service/server.cpp with MySQLHandler::WithGroupDelivery.           *)
(*                                                                         *)
(* perform locks the group row before it reads anything it decides on and  *)
(* keeps it to COMMIT (READ COMMITTED), and so does WithGroupDelivery while *)
(* it queues the notice on the session: each is one step.  Commands may be  *)
(* issued long before they run, so their arguments are arbitrary.           *)
(***************************************************************************)
EXTENDS Naturals, FiniteSets, FiniteSetsExt, Sequences

CONSTANTS
    Accounts,
    Owner,
    Names,        \* group names
    MaxMsgs,      \* bound: messages sent
    MaxApps,      \* bound: application rows
    SmallLimit,   \* member_count up to which bodies are pushed (200)
    Batch,        \* messages of one notice (20)
    PullLimit     \* messages of one page (50)

ASSUME GroupConstants ==
    /\ Owner \in Accounts /\ IsFiniteSet(Accounts)
    /\ MaxMsgs \in Nat /\ MaxApps \in Nat
    /\ SmallLimit \in Nat /\ Batch \in Nat \ {0} /\ PullLimit \in Nat \ {0}

Epochs == 1..(MaxApps + 1)   \* what commands may name
Status == {"pending", "accepted", "rejected", "dismissed"}
Application == [account : Accounts, status : Status]
Message == [seq : 1..MaxMsgs, sender : Accounts, audience : SUBSET (Accounts \X Nat)]
Copy == [to : Accounts, epoch : Nat, seq : 1..MaxMsgs]

VARIABLES
    name, dismissed, lastSeq, memberCount,   \* im_groups
    members,     \* accounts with a row in im_group_members
    active,      \* of those, the ones with active=1
    epoch, joinSeq, ackSeq, readSeq,         \* im_group_members
    apps,        \* im_group_applications in the order of their ids
    messages,    \* im_group_messages; audience is history: the memberships
                 \* that were active when the message was sent
    hint,        \* clients told of messages without their bodies
    seen         \* what each membership's client has received

groupVars == <<name, dismissed, lastSeq, memberCount>>
memberVars == <<members, active, epoch, joinSeq, ackSeq, readSeq>>
clientVars == <<hint, seen>>
vars == <<groupVars, memberVars, apps, messages, clientVars>>

(* Create: the owner is the first member.                                   *)
Init ==
    /\ name \in Names /\ dismissed = FALSE /\ lastSeq = 0 /\ memberCount = 1
    /\ members = {Owner} /\ active = {Owner}
    /\ epoch = [a \in Accounts |-> 1]
    /\ joinSeq = [a \in Accounts |-> 0]
    /\ ackSeq = [a \in Accounts |-> 0]
    /\ readSeq = [a \in Accounts |-> 0]
    /\ apps = <<>> /\ messages = {}
    /\ hint = {} /\ seen = {}

-----------------------------------------------------------------------------
(* memberState: joined, for a group that is not dismissed.                  *)
Joined(a) == a \in active /\ ~dismissed

(* A member's command that names its membership epoch, or 0 for none.       *)
Admitted(a, e) == Joined(a) /\ (e = 0 \/ e = epoch[a])

(* Apply: one pending application per account; a second one changes         *)
(* nothing.                                                                 *)
Apply(a) ==
    /\ ~dismissed /\ a \notin active
    /\ \A i \in DOMAIN apps : apps[i] # [account |-> a, status |-> "pending"]
    /\ Len(apps) < MaxApps
    /\ apps' = Append(apps, [account |-> a, status |-> "pending"])
    /\ UNCHANGED <<groupVars, memberVars, messages, clientVars>>

(* INSERT ... ON DUPLICATE KEY UPDATE of im_group_members and the recount:  *)
(* a returning member starts a new epoch after the last message.            *)
Admit(t) ==
    /\ members' = members \cup {t}
    /\ active' = active \cup {t}
    /\ epoch' = IF t \in members \ active THEN [epoch EXCEPT ![t] = @ + 1] ELSE epoch
    /\ IF t \in active THEN UNCHANGED <<joinSeq, ackSeq, readSeq>>
       ELSE /\ joinSeq' = [joinSeq EXCEPT ![t] = lastSeq]
            /\ ackSeq' = [ackSeq EXCEPT ![t] = lastSeq]
            /\ readSeq' = [readSeq EXCEPT ![t] = lastSeq]
    /\ memberCount' = Cardinality(active')

(* Review by the owner.  Repeating the same decision is accepted and        *)
(* changes nothing, the opposite one is refused.                            *)
Review(i, accept) ==
    /\ Joined(Owner)
    /\ apps[i].status = "pending"
    /\ apps' = [apps EXCEPT ![i].status = IF accept THEN "accepted" ELSE "rejected"]
    /\ IF accept THEN Admit(apps[i].account)
       ELSE UNCHANGED <<memberVars, memberCount>>
    /\ UNCHANGED <<name, dismissed, lastSeq, messages, clientVars>>

(* Rename by the owner, to another name.                                    *)
Rename(n) ==
    /\ Joined(Owner) /\ n # name
    /\ name' = n
    /\ UNCHANGED <<dismissed, lastSeq, memberCount, memberVars, apps, messages, clientVars>>

(* Leave and Kick: active=0 and the recount.  Whoever is not a member may   *)
(* be kicked, without effect.                                               *)
Remove(t) ==
    /\ t # Owner
    /\ active' = active \ {t}
    /\ memberCount' = Cardinality(active')
    /\ UNCHANGED <<name, dismissed, lastSeq, members, epoch, joinSeq, ackSeq, readSeq,
                   apps, messages, clientVars>>

Leave(a, e) == Admitted(a, e) /\ Remove(a)

Kick(t) == Joined(Owner) /\ Remove(t)

(* Dismiss by the owner.  The member rows stay.                             *)
Dismiss ==
    /\ Joined(Owner)
    /\ dismissed' = TRUE
    /\ apps' = [i \in DOMAIN apps |->
                  IF apps[i].status = "pending" THEN [apps[i] EXCEPT !.status = "dismissed"]
                  ELSE apps[i]]
    /\ UNCHANGED <<name, lastSeq, memberCount, memberVars, messages, clientVars>>

(* Send of a new client id: the next number of the group.  The reply that   *)
(* carries the message back to its sender may be lost.                      *)
Send(a, e) ==
    /\ Admitted(a, e)
    /\ lastSeq < MaxMsgs
    /\ lastSeq' = lastSeq + 1
    /\ messages' = messages \cup
          {[seq |-> lastSeq + 1, sender |-> a,
            audience |-> {<<m, epoch[m]>> : m \in active}]}
    /\ \/ seen' = seen \cup {[to |-> a, epoch |-> epoch[a], seq |-> lastSeq + 1]}
       \/ UNCHANGED seen
    /\ UNCHANGED <<name, dismissed, memberCount, memberVars, apps, hint>>

-----------------------------------------------------------------------------
(* ORDER BY seq LIMIT n                                                     *)
Lowest(S, n) == {s \in S : Cardinality({t \in S : t <= s}) <= n}

Numbered(after, upto) == {m.seq : m \in {x \in messages : x.seq > after /\ x.seq <= upto}}

Copies(a, S) == {[to |-> a, epoch |-> epoch[a], seq |-> s] : s \in S}

(* Mutant of Page: the client's cursor is taken as it is.                   *)
PageUnbounded(a, after, snapshot) == Lowest(Numbered(after, snapshot), PullLimit)

(* The messages of a Pull reply: nothing from before the membership.        *)
Page(a, after, snapshot) ==
    Lowest(Numbered(Max({after, joinSeq[a]}), snapshot), PullLimit)

(* Pull: after is the client's cursor, snapshot the last_seq of its first   *)
(* page (capped by the current one).                                        *)
Pull(a, e, after, snapshot) ==
    /\ Admitted(a, e)
    /\ snapshot <= lastSeq
    /\ seen' = seen \cup Copies(a, Page(a, after, snapshot))
    /\ UNCHANGED <<groupVars, memberVars, apps, messages, hint>>

(* Mutant of NoticeBodies: a full notice carries the newest messages.       *)
NewestBodies(a) ==
    IF memberCount > SmallLimit THEN {}
    ELSE {s \in Numbered(ackSeq[a], lastSeq) : s > lastSeq - Batch}

(* buildDelivery: the unacknowledged bodies of a small group, oldest first. *)
NoticeBodies(a) ==
    IF memberCount > SmallLimit THEN {}
    ELSE Lowest(Numbered(ackSeq[a], lastSeq), Batch)

(* PendingGroupsForDelivery, read without a lock: stale when it is used, so *)
(* it does not guard the step that follows.                                 *)
Pending(a) == Joined(a) /\ lastSeq > ackSeq[a]

(* WithGroupDelivery: the notice is queued on the session under the lock.   *)
(* The session may be gone (reached = FALSE).                               *)
WithGroupDelivery(a, reached) ==
    /\ Joined(a)
    /\ IF reached
       THEN /\ seen' = seen \cup Copies(a, NoticeBodies(a))
            /\ hint' = IF memberCount > SmallLimit THEN hint \cup {a} ELSE hint
       ELSE UNCHANGED clientVars
    /\ UNCHANGED <<groupVars, memberVars, apps, messages>>

(* One round of the delivery loop for an account.                           *)
Deliver(a) == \E reached \in BOOLEAN : WithGroupDelivery(a, reached)

(* A client acknowledges the last of an unbroken run of messages it has     *)
(* received under membership e.                                             *)
ClientHas(a, e, n) ==
    /\ [to |-> a, epoch |-> e, seq |-> n] \in seen
    /\ \A m \in messages : m.seq <= n /\ <<a, e>> \in m.audience =>
          [to |-> a, epoch |-> e, seq |-> m.seq] \in seen

(* Mutant of Ack: the position is stored as it comes.                       *)
AckStored(a, e, given, n) ==
    /\ ClientHas(a, e, n) /\ given \in {0, e}
    /\ Admitted(a, given) /\ n <= lastSeq
    /\ ackSeq' = [ackSeq EXCEPT ![a] = n]
    /\ UNCHANGED <<groupVars, members, active, epoch, joinSeq, readSeq, apps, messages,
                   clientVars>>

(* Ack: stored as GREATEST(ack_seq, n, join_seq).                           *)
Ack(a, e, given, n) ==
    /\ ClientHas(a, e, n) /\ given \in {0, e}
    /\ Admitted(a, given) /\ n <= lastSeq
    /\ ackSeq' = [ackSeq EXCEPT ![a] = Max({@, n, joinSeq[a]})]
    /\ UNCHANGED <<groupVars, members, active, epoch, joinSeq, readSeq, apps, messages,
                   clientVars>>

(* Mutant of Read: the wrong column is updated.                             *)
ReadAcknowledges(a, e, n) ==
    /\ Admitted(a, e) /\ n <= lastSeq
    /\ ackSeq' = [ackSeq EXCEPT ![a] = Max({@, n, joinSeq[a]})]
    /\ UNCHANGED <<groupVars, members, active, epoch, joinSeq, readSeq, apps, messages,
                   clientVars>>

(* Read: any position up to last_seq.                                       *)
Read(a, e, n) ==
    /\ Admitted(a, e) /\ n <= lastSeq
    /\ readSeq' = [readSeq EXCEPT ![a] = Max({@, n, joinSeq[a]})]
    /\ UNCHANGED <<groupVars, members, active, epoch, joinSeq, ackSeq, apps, messages,
                   clientVars>>

-----------------------------------------------------------------------------
OwnerStep ==
    \/ \E i \in DOMAIN apps, accept \in BOOLEAN : Review(i, accept)
    \/ \E n \in Names : Rename(n)
    \/ \E t \in Accounts : Kick(t)
    \/ Dismiss

MemberStep(a) ==
    \/ Apply(a)
    \/ \E e \in {0} \cup Epochs :
          \/ Leave(a, e) \/ Send(a, e)
          \/ \E n \in 1..MaxMsgs : Read(a, e, n)
          \/ \E after, snapshot \in 0..MaxMsgs : Pull(a, e, after, snapshot)
    \/ \E e \in Epochs, n \in 1..MaxMsgs : \E given \in {0, e} : Ack(a, e, given, n)

Next ==
    \/ OwnerStep
    \/ \E a \in Accounts : MemberStep(a) \/ Deliver(a)

Spec == Init /\ [][Next]_vars

(* The delivery loop runs every 2 s for every account online; the client of *)
(* a member that stays online pulls when it is told to and acknowledges     *)
(* what it has.                                                             *)
PullNext(a) ==
    /\ a \in hint
    /\ Pull(a, epoch[a], ackSeq[a], lastSeq)

LiveSpec ==
    /\ Spec
    /\ \A a \in Accounts :
          /\ WF_vars(Pending(a) /\ WithGroupDelivery(a, TRUE))
          /\ WF_vars(PullNext(a))
          /\ WF_vars(\E n \in 1..MaxMsgs : Ack(a, epoch[a], epoch[a], n))

-----------------------------------------------------------------------------
(* Type invariant.                                                          *)
TypeOK ==
    /\ name \in Names /\ dismissed \in BOOLEAN
    /\ lastSeq \in 0..MaxMsgs /\ memberCount \in Nat
    /\ members \subseteq Accounts /\ active \subseteq members /\ Owner \in active
    /\ epoch \in [Accounts -> Nat]
    /\ joinSeq \in [Accounts -> 0..MaxMsgs]
    /\ ackSeq \in [Accounts -> 0..MaxMsgs]
    /\ readSeq \in [Accounts -> 0..MaxMsgs]
    /\ apps \in Seq(Application)
    /\ messages \subseteq Message
    /\ hint \subseteq Accounts
    /\ seen \subseteq Copy

(* Nobody receives a message from before they joined or from a time when    *)
(* they were out: every copy, pushed, pulled or answered, went to a         *)
(* membership (account and epoch) that was active when the message was      *)
(* sent, across leaving, kicking and joining again.                         *)
SeenWhileMember ==
    \A c \in seen : \E m \in messages : m.seq = c.seq /\ <<c.to, c.epoch>> \in m.audience

(* No message is skipped: what ack_seq covers of a membership has been      *)
(* received under it, so the delivery, which starts behind ack_seq, misses  *)
(* nothing, although batches and pages are cut off, acknowledgements of an  *)
(* earlier membership arrive late and clients may leave out the epoch.      *)
NothingSkipped ==
    \A a \in active : \A m \in messages :
        m.seq > joinSeq[a] /\ m.seq <= ackSeq[a]
            => [to |-> a, epoch |-> epoch[a], seq |-> m.seq] \in seen

(* The numbers of the messages have no gap and no repetition, and the       *)
(* sender of each was a member when it got its number.                      *)
Contiguous ==
    /\ {m.seq : m \in messages} = 1..lastSeq
    /\ \A m \in messages, n \in messages : m.seq = n.seq => m = n
    /\ \A m \in messages : \E p \in m.audience : p[1] = m.sender

(* member_count, which decides between bodies and hints, is the number of   *)
(* active rows, whoever is kicked, leaves or comes back.                    *)
CountIsExact == memberCount = Cardinality(active)

(* An account is in the group or waiting for it, not both, and waits with   *)
(* one application at most; nobody waits for a dismissed group.             *)
OneApplication ==
    \A i, j \in DOMAIN apps :
        apps[i].status = "pending" =>
            /\ apps[i].account \notin active
            /\ ~dismissed
            /\ apps[j] = apps[i] => i = j

(* Positions and epochs do not go back within a membership: a late Ack or   *)
(* Read never reopens what was settled.                                     *)
PositionsGrow ==
    [][\A a \in Accounts :
         /\ epoch'[a] >= epoch[a]
         /\ epoch'[a] = epoch[a] => ackSeq'[a] >= ackSeq[a] /\ readSeq'[a] >= readSeq[a]]_vars

(* Every message reaches each member that stays: a copy that is owed is     *)
(* eventually received, or the membership or the group ends, even when      *)
(* the group crosses the limit between bodies and hints meanwhile.          *)
Owed(a, s) ==
    /\ Joined(a)
    /\ \E m \in messages : m.seq = s /\ <<a, epoch[a]>> \in m.audience
    /\ [to |-> a, epoch |-> epoch[a], seq |-> s] \notin seen

EventuallySeen == \A a \in Accounts, s \in 1..MaxMsgs : Owed(a, s) ~> ~Owed(a, s)
=============================================================================
